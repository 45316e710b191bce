------------------------------ MODULE IoHandle ------------------------------
(***************************************************************************)
(* One I/O handle of the event loop, with a task that reads and a task     *)
(* that writes, over the three pollers: I/O completion ports               *)
(* (io_windows.c, iocp.c, io_windows.mbt, network_windows.mbt), epoll and  *)
(* kqueue (epoll.c, kqueue.c, io_unix.c, io_unix.mbt, network_unix.mbt).   *)
(*                                                                         *)
(* On Unix an operation registers its direction (edge-triggered), tries    *)
(* the call, and on EAGAIN suspends until the poller reports the           *)
(* direction; then it tries once more.  On Windows it hands the kernel an  *)
(* IoResult on the heap, which the kernel writes to until the operation is *)
(* over and whose address comes back in a completion packet.               *)
(*                                                                         *)
(* Data is counted in units: one operation moves at most one (a chunk, a   *)
(* datagram, a connection).  A task that was cancelled before it starts an *)
(* operation leaves no trace (check_cancellation) and is not modelled.     *)
(***************************************************************************)
EXTENDS Naturals, Sequences, FiniteSets, SequencesExt

CONSTANTS
    Platforms,      \* subset of {"windows", "epoll", "kqueue"}
    Uses,           \* what the handle may be, subset of AllUses
    Addresses,      \* where malloc may put an IoResult
    NoResult,
    MaxStarts,      \* bound: operations started
    MaxUnits        \* bound: units the peer supplies, for each direction

AllUses == {"pipe", "stream", "datagram", "listener", "connecting", "directory"}

ASSUME ConstantsAssumption ==
    /\ Platforms \subseteq {"windows", "epoll", "kqueue"} /\ Uses \subseteq AllUses
    /\ NoResult \notin Addresses /\ MaxStarts \in Nat /\ MaxUnits \in Nat

Directions == {"read", "write"}

VARIABLES
    platform, use,
    closed,         \* IoHandle::close has run
    peer,           \* "open", "ended" (sends no more), "reset"
    avail,          \* units to read, or room to write
    supplied,       \* units the peer has supplied so far
    starts,         \* operations started so far
    stage,          \* where the task of a direction is
    woken,          \* directions whose coroutine was woken
    cancelled,      \* directions whose coroutine was cancelled
    moved,          \* the kernel moved a unit for the operation
    answer,         \* how the last operation of the direction ended
    events,         \* handle.events (Unix)
    edge,           \* notifications the poller holds (epoll: one for all)
    result,         \* the IoResult of the operation (Windows)
    kept,           \* the objects an IoResult keeps alive
    kern,           \* what the kernel has made of the operation
    port,           \* completion packets, oldest first
    late            \* an IoResult was freed with its packet still queued

handleVars == <<platform, use>>
peerVars == <<peer, supplied>>
callVars == <<stage, woken, cancelled, answer>>
unixVars == <<events, edge>>
winVars == <<result, kept, kern, port, late>>
vars == <<platform, use, closed, peer, avail, supplied, starts, stage, woken, cancelled, moved,
          answer, events, edge, result, kept, kern, port, late>>

Windows == platform = "windows"

(* The kind of IoResult of an operation, and the objects it retains.       *)
Kind ==
    CASE use = "pipe" -> "File"
      [] use = "stream" -> "Socket"
      [] use = "datagram" -> "SocketWithAddr"
      [] use = "listener" -> "Accept"
      [] use = "connecting" -> "Connect"
      [] use = "directory" -> "ReadDirChanges"

Retains(k) ==
    CASE k \in {"File", "Socket", "ReadDirChanges"} -> {"buf"}
      [] k = "SocketWithAddr" -> {"buf", "addr"}
      [] k = "Connect" -> {"addr"}
      [] k = "Accept" -> {}

(* What free_io_result releases. *)
Releases(k) == Retains(k)

CanStart(d) ==
    CASE use \in {"listener", "directory"} -> d = "read"
      [] use = "connecting" -> d = "write"
      [] OTHER -> TRUE

(* What a call for direction d may answer at this moment. *)
Answers(d) ==
    (IF avail[d] > 0 THEN {"data"} ELSE {})
        \cup (IF d = "read" /\ peer = "ended" /\ avail[d] = 0 THEN {"zero"} ELSE {})
        \cup (IF peer = "reset" THEN {"error"} ELSE {})

(* The direction would not block: what the pollers look at. *)
Ready(d) == Answers(d) # {}

InCall(a) == {d \in Directions : result[d] = a}
Live(a) == InCall(a) # {}

-----------------------------------------------------------------------------
(* How an operation ends: the answer goes to the caller, and on Windows    *)
(* "defer result.free()" releases the IoResult with what it retains, while *)
(* the completion port holds the packets q.                                *)
free_io_result(d, q) ==
    /\ result' = [result EXCEPT ![d] = NoResult]
    /\ kept' = IF result[d] = NoResult THEN kept
               ELSE [kept EXCEPT ![result[d]] = @ \ Releases(Kind)]
    /\ late' = (late \/ \E i \in DOMAIN q : q[i] = result[d])

EndWith(d, how, q) ==
    /\ stage' = [stage EXCEPT ![d] = "idle"]
    /\ answer' = [answer EXCEPT ![d] = how]
    /\ woken' = woken \ {d} /\ cancelled' = cancelled \ {d}
    /\ free_io_result(d, q)

End(d, how) == EndWith(d, how, port)

Enter(d, where) ==
    /\ stage' = [stage EXCEPT ![d] = where]
    /\ woken' = woken \ {d}
    /\ UNCHANGED <<cancelled, answer, late>>

(* The kernel moves a unit when it answers with data. *)
Move(d, how) ==
    /\ avail' = IF how = "data" THEN [avail EXCEPT ![d] = @ - 1] ELSE avail
    /\ moved' = [moved EXCEPT ![d] = how = "data"]

(* Only some calls let the others run before they return what they got:    *)
(* accept and connect return at once, and so does a read whose pipe is     *)
(* found broken.                                                           *)
ReturnsAtOnce(how) ==
    \/ how = "error"
    \/ use \in {"listener", "connecting"}
    \/ use = "pipe" /\ how = "zero"

-----------------------------------------------------------------------------
(* Unix: epoll.c, kqueue.c.                                                *)

(* epoll has one notification for the descriptor, kqueue one per filter.   *)
Notify(ds) == IF platform = "epoll" /\ ds # {} THEN Directions ELSE ds

(* The poller looks at once at what is registered: epoll at the whole      *)
(* descriptor, kqueue at the filter.  A fresh socket is writable and hung  *)
(* up until connect is called, and prepare_write comes before.             *)
epoll_register(d) ==
    edge' = edge \cup Notify({x \in events \cup {d} : Ready(x) \/ use = "connecting"})
kqueue_register(d) == edge' = edge \cup {x \in {d} : Ready(x)}

(* Mutant of poll_register: a handle that is registered is left alone,     *)
(* whatever direction it is registered for.                                *)
RegisterOnce(d) ==
    IF events # {} THEN UNCHANGED unixVars
    ELSE /\ events' = events \cup {d}
         /\ IF platform = "epoll" THEN epoll_register(d) ELSE kqueue_register(d)

(* A direction is registered with its first operation. *)
poll_register(d) ==
    IF d \in events THEN UNCHANGED unixVars
    ELSE /\ events' = events \cup {d}
         /\ IF platform = "epoll" THEN epoll_register(d) ELSE kqueue_register(d)

(* The mask event_get_events computes, from what holds at poll_wait time.  *)
(* EPOLLRDHUP, EPOLLHUP and EPOLLERR count for both directions.            *)
kqueue_events(ds) == {d \in ds \cap events : Ready(d)}
epoll_events(ds) ==
    IF peer = "reset" \/ (peer = "ended" /\ use = "stream") THEN Directions ELSE kqueue_events(ds)

(* Mutant of EventMask: of two ready directions only reading is reported.  *)
FirstEvent(ds) ==
    LET es == {d \in ds \cap events : Ready(d)} IN IF "read" \in es THEN {"read"} ELSE es

EventMask(ds) == IF platform = "epoll" THEN epoll_events(ds) ELSE kqueue_events(ds)

(* EventLoop::poll: the coroutines that wait for a reported direction are  *)
(* woken.                                                                  *)
PollUnix(ds) ==
    /\ ~Windows /\ ~closed /\ ds # {} /\ ds \subseteq edge
    /\ IF platform = "epoll" THEN ds = Directions ELSE Cardinality(ds) = 1
    /\ edge' = edge \ ds
    /\ woken' = woken \cup {d \in EventMask(ds) : stage[d] = "waiting"}
    /\ UNCHANGED <<handleVars, closed, peerVars, avail, moved, starts, stage, cancelled, answer,
                   events, winVars>>

(* The first call of an operation; EAGAIN suspends it. *)
StartUnix(d) ==
    /\ ~Windows
    /\ poll_register(d)
    /\ \/ \E how \in Answers(d) :
             /\ Move(d, how)
             /\ IF ReturnsAtOnce(how) THEN End(d, how)
                ELSE /\ Enter(d, IF how = "data" THEN "pausing" ELSE "pausing_zero")
                     /\ UNCHANGED <<result, kept>>
       \/ /\ ~Ready(d)
          /\ Enter(d, "waiting") /\ Move(d, "again")
          /\ UNCHANGED <<result, kept>>
    /\ UNCHANGED <<kern, port>>

(* After wait_read or wait_write: a second call, whose EAGAIN is an error  *)
(* (EBADF when the handle was closed).  connect asks for SO_ERROR.         *)
FinishUnix(d) ==
    /\ ~Windows /\ stage[d] = "waiting" /\ d \in woken
    /\ \/ d \in cancelled /\ End(d, "cancelled") /\ UNCHANGED <<avail, moved>>
       \/ d \notin cancelled /\ closed /\ End(d, "error") /\ UNCHANGED <<avail, moved>>
       \/ /\ d \notin cancelled /\ ~closed
          /\ \E how \in Answers(d) : Move(d, how) /\ End(d, how)
       \/ /\ d \notin cancelled /\ ~closed /\ ~Ready(d)
          /\ End(d, IF use = "connecting" THEN "data" ELSE "error")
          /\ UNCHANGED <<avail, moved>>
    /\ UNCHANGED <<handleVars, closed, peerVars, starts, unixVars, kern, port>>

-----------------------------------------------------------------------------
(* Windows: io_windows.c, iocp.c.                                          *)

make_io_result(d, a) ==
    /\ result' = [result EXCEPT ![d] = a]
    /\ kept' = [kept EXCEPT ![a] = Retains(Kind)]

(* With an immediate answer no packet is queued                            *)
(* (FILE_SKIP_COMPLETION_PORT_ON_SUCCESS); otherwise the operation is the  *)
(* kernel's.                                                               *)
AnsweredAtOnce(d, a) ==
    /\ kern' = [kern EXCEPT ![a] = "none"]
    /\ \E how \in Answers(d) :
          /\ Move(d, how)
          /\ IF ReturnsAtOnce(how) THEN End(d, how)
             ELSE /\ Enter(d, IF how = "data" THEN "pausing" ELSE "pausing_zero")
                  /\ make_io_result(d, a)

IoPending(d, a) ==
    /\ kern' = [kern EXCEPT ![a] = "pending"]
    /\ Enter(d, "waiting") /\ Move(d, "again")
    /\ make_io_result(d, a)

(* The calls.  ConnectEx and AcceptEx are taken to be found and the local  *)
(* address to be bound.  A directory is never answered at once.            *)
Transfers == use \in {"pipe", "stream", "datagram"}
read(d, a) == d = "read" /\ Transfers /\ (AnsweredAtOnce(d, a) \/ IoPending(d, a))
write(d, a) == d = "write" /\ Transfers /\ (AnsweredAtOnce(d, a) \/ IoPending(d, a))
connect(d, a) == use = "connecting" /\ (AnsweredAtOnce(d, a) \/ IoPending(d, a))
accept(d, a) == use = "listener" /\ (AnsweredAtOnce(d, a) \/ IoPending(d, a))
read_dir_changes(d, a) == use = "directory" /\ IoPending(d, a)

(* An operation gets a fresh IoResult, at an address that is free. *)
StartWindows(d) ==
    /\ Windows
    /\ \E a \in Addresses :
          /\ ~Live(a) /\ kern[a] # "pending"
          /\ \/ read(d, a) \/ write(d, a) \/ connect(d, a) \/ accept(d, a)
             \/ read_dir_changes(d, a)
    /\ UNCHANGED <<unixVars, port>>

(* The kernel ends a pending operation and queues its packet. *)
Complete(a, how) ==
    /\ kern[a] = "pending"
    /\ kern' = [kern EXCEPT ![a] = how]
    /\ port' = Append(port, a)

KernelCompletes(a) ==
    /\ ~closed
    /\ \E d \in InCall(a), how \in {"data", "zero", "error"} :
          /\ how \in Answers(d) /\ Complete(a, how) /\ Move(d, how)
    /\ UNCHANGED <<handleVars, closed, peerVars, starts, callVars, unixVars, result, kept, late>>

(* What CancelIoEx asked for, or closing the handle: an aborted operation. *)
KernelAborts(a) ==
    /\ \E d \in InCall(a) : stage[d] = "draining" \/ closed
    /\ Complete(a, "aborted")
    /\ UNCHANGED <<handleVars, closed, peerVars, avail, moved, starts, callVars, unixVars, result,
                   kept, late>>

(* Mutant of PollWindows: a task that was cancelled and waits for the      *)
(* packet of its operation is not woken by it.                             *)
PollForWaiting ==
    /\ Windows /\ port # <<>>
    /\ port' = Tail(port)
    /\ woken' = woken \cup {d \in InCall(Head(port)) : stage[d] = "waiting" /\ ~closed}
    /\ UNCHANGED <<handleVars, closed, peerVars, avail, moved, starts, stage, cancelled, answer,
                   unixVars, result, kept, kern, late>>

(* EventLoop::poll: the packet of a closed handle is dropped; otherwise    *)
(* its IoResult tells the job, and so the coroutine.  Freed memory may     *)
(* tell any.                                                               *)
PollWindows ==
    /\ Windows /\ port # <<>>
    /\ port' = Tail(port)
    /\ LET a == Head(port)
           waiters == {d \in Directions : stage[d] \in {"waiting", "draining", "rethrowing"}}
           wakes == CASE closed -> {{}}
                      [] ~closed /\ Live(a) -> {InCall(a) \cap waiters}
                      [] OTHER -> {{}} \cup {{d} : d \in waiters}
       IN \E ds \in wakes : woken' = woken \cup ds
    /\ UNCHANGED <<handleVars, closed, peerVars, avail, moved, starts, stage, cancelled, answer,
                   unixVars, result, kept, kern, late>>

(* Mutant of get_status: an operation that was aborted transferred nothing. *)
StatusOfBytes(a) == IF kern[a] \in {"data", "error"} THEN kern[a] ELSE "zero"

(* GetOverlappedResult, without waiting. *)
get_status(a) ==
    CASE kern[a] \in {"data", "zero"} -> kern[a]
      [] kern[a] = "aborted" -> "cancelled"
      [] OTHER -> "error"

(* The task goes on after wait_for_io_result.                              *)
FinishWindows(d) ==
    /\ Windows /\ d \in woken
    /\ \/ stage[d] = "waiting" /\ d \notin cancelled /\ End(d, get_status(result[d]))
       \/ stage[d] = "draining" /\ End(d, get_status(result[d]))
       \/ stage[d] = "rethrowing" /\ End(d, "cancel_failed")
    /\ UNCHANGED <<handleVars, closed, peerVars, avail, moved, starts, unixVars, kern, port>>

(* Mutant of CancelIo: the IoResult is freed at once, the operation        *)
(* pending or not.                                                         *)
CancelAndFree(d) ==
    /\ Windows /\ stage[d] = "waiting" /\ d \in woken \cap cancelled
    /\ End(d, "cancelled")
    /\ UNCHANGED <<handleVars, closed, peerVars, avail, moved, starts, unixVars, kern, port>>

(* A cancelled task resumes: cancel_io_result, and what wait_for_job does  *)
(* with its answer: an error is raised once the operation has ended,       *)
(* NeedWait waits for the packet, NoWait raises at once.                   *)
CancelIo(d) ==
    LET a == result[d]
        raises ==
            /\ closed \/ kern[a] = "pending"
            /\ Enter(d, "rethrowing")
            /\ UNCHANGED <<avail, moved, result, kept, kern, port>>
        incomplete ==
            /\ ~closed /\ kern[a] = "pending"
            /\ Enter(d, "draining")
            /\ UNCHANGED <<avail, moved, result, kept, kern, port>>
        over_by_now ==
            /\ ~closed
            /\ \/ Complete(a, "aborted") /\ UNCHANGED <<avail, moved>>
               \/ \E how \in Answers(d) : Complete(a, how) /\ Move(d, how)
            /\ EndWith(d, "cancelled", Append(port, a))
        not_found ==
            /\ ~closed /\ kern[a] # "pending"
            /\ End(d, "cancelled")
            /\ UNCHANGED <<avail, moved, kern, port>>
    IN /\ Windows /\ stage[d] = "waiting" /\ d \in woken \cap cancelled
       /\ raises \/ incomplete \/ over_by_now \/ not_found
       /\ UNCHANGED <<handleVars, closed, peerVars, starts, unixVars>>

-----------------------------------------------------------------------------
(* What both have in common.                                               *)

Start(d) ==
    /\ ~closed /\ CanStart(d) /\ stage[d] = "idle" /\ starts < MaxStarts
    /\ use = "connecting" => starts = 0
    /\ starts' = starts + 1
    /\ StartUnix(d) \/ StartWindows(d)
    /\ UNCHANGED <<handleVars, closed, peerVars>>

(* After @coroutine.pause(). *)
FinishPause(d) ==
    /\ stage[d] \in {"pausing", "pausing_zero"}
    /\ End(d, CASE d \in cancelled -> "cancelled"
                 [] d \notin cancelled /\ stage[d] = "pausing" -> "data"
                 [] OTHER -> "zero")
    /\ UNCHANGED <<handleVars, closed, peerVars, avail, moved, starts, unixVars, kern, port>>

(* Coroutine::cancel: the two last stages are shielded from it. *)
Cancel(d) ==
    /\ stage[d] \in {"pausing", "pausing_zero", "waiting"} /\ d \notin cancelled
    /\ cancelled' = cancelled \cup {d}
    /\ woken' = woken \cup {d}
    /\ UNCHANGED <<handleVars, closed, peerVars, avail, moved, starts, stage, answer, unixVars,
                   winVars>>

(* IoHandle::close, whatever still goes on. *)
Close ==
    /\ ~closed
    /\ closed' = TRUE
    /\ edge' = {}
    /\ UNCHANGED <<handleVars, peerVars, avail, moved, starts, callVars, events, winVars>>

(* The other side: a notification is raised for what is registered.        *)
Raise(ds) == edge' = IF Windows \/ closed THEN edge ELSE edge \cup Notify(ds \cap events)

Supply(d) ==
    /\ CanStart(d) /\ supplied[d] < MaxUnits
    /\ peer = "open" \/ (peer = "ended" /\ d = "write")
    /\ use = "connecting" => supplied[d] = 0 /\ starts = 1
    /\ supplied' = [supplied EXCEPT ![d] = @ + 1]
    /\ avail' = [avail EXCEPT ![d] = @ + 1]
    /\ Raise({d})
    /\ UNCHANGED <<handleVars, closed, peer, moved, starts, callVars, events, winVars>>

PeerEnds ==
    /\ peer = "open" /\ use \in {"pipe", "stream"}
    /\ peer' = "ended"
    /\ Raise(IF platform = "epoll" THEN events ELSE {"read"})
    /\ UNCHANGED <<handleVars, closed, avail, supplied, moved, starts, callVars, events, winVars>>

PeerResets ==
    /\ peer # "reset" /\ use \in {"pipe", "stream", "connecting"}
    /\ peer' = "reset"
    /\ Raise(Directions)
    /\ UNCHANGED <<handleVars, closed, avail, supplied, moved, starts, callVars, events, winVars>>

-----------------------------------------------------------------------------
Init ==
    /\ platform \in Platforms /\ use \in Uses
    /\ use \in {"directory", "pipe"} => Windows
    /\ closed = FALSE /\ peer = "open" /\ starts = 0
    /\ avail = [d \in Directions |-> 0] /\ supplied = [d \in Directions |-> 0]
    /\ stage = [d \in Directions |-> "idle"] /\ woken = {} /\ cancelled = {}
    /\ moved = [d \in Directions |-> FALSE] /\ answer = [d \in Directions |-> "none"]
    /\ events = {} /\ edge = {}
    /\ result = [d \in Directions |-> NoResult]
    /\ kept = [a \in Addresses |-> {}] /\ kern = [a \in Addresses |-> "none"]
    /\ port = <<>> /\ late = FALSE

Poll == PollWindows \/ \E ds \in SUBSET Directions : PollUnix(ds)

TaskResumes(d) == FinishPause(d) \/ FinishUnix(d) \/ FinishWindows(d) \/ CancelIo(d)

KernelStep == \E a \in Addresses : KernelCompletes(a) \/ KernelAborts(a)

Next ==
    \/ Poll \/ KernelStep \/ Close \/ PeerEnds \/ PeerResets
    \/ \E d \in Directions : Start(d) \/ TaskResumes(d) \/ Cancel(d) \/ Supply(d)

(* The loop polls and runs the tasks that are ready; the kernel completes  *)
(* what can be completed.                                                  *)
Fairness ==
    /\ WF_vars(Poll) /\ WF_vars(KernelStep)
    /\ \A d \in Directions : WF_vars(TaskResumes(d))

Spec == Init /\ [][Next]_vars /\ Fairness

-----------------------------------------------------------------------------
Stages == {"idle", "pausing", "pausing_zero", "waiting", "draining", "rethrowing"}

TypeOK ==
    /\ platform \in Platforms /\ use \in Uses /\ closed \in BOOLEAN
    /\ peer \in {"open", "ended", "reset"} /\ starts \in 0..MaxStarts
    /\ avail \in [Directions -> 0..MaxUnits] /\ supplied \in [Directions -> 0..MaxUnits]
    /\ stage \in [Directions -> Stages]
    /\ woken \subseteq Directions /\ cancelled \subseteq Directions
    /\ moved \in [Directions -> BOOLEAN]
    /\ answer \in [Directions -> {"none", "data", "zero", "error", "cancelled", "cancel_failed"}]
    /\ events \subseteq Directions /\ edge \subseteq Directions
    /\ result \in [Directions -> Addresses \cup {NoResult}]
    /\ kept \in [Addresses -> SUBSET {"buf", "addr"}]
    /\ kern \in [Addresses -> {"none", "pending", "data", "zero", "error", "aborted"}]
    /\ port \in Seq(Addresses) /\ late \in BOOLEAN

\* A task that waits will hear of it: when its direction is ready the poller
\* still holds a notification for it, and its overlapped operation is
\* pending or has its packet queued.  With edge-triggered polling and
\* completion packets there is no second chance: a wake-up lost between the
\* call that said EAGAIN and the suspension leaves the task waiting for ever.
NoLostWakeup ==
    \A d \in Directions : stage[d] = "waiting" /\ d \notin woken /\ ~closed =>
        IF Windows THEN kern[result[d]] = "pending" \/ Contains(port, result[d])
        ELSE Ready(d) => d \in edge \cap events

\* What the kernel may still write to is alive: the IoResult of a pending
\* operation is not freed and retains the objects the call was given, and
\* what is freed retains nothing.  (Once an IoResult was freed with its
\* packet still queued, see KernelBufferAlwaysAlive, this no longer holds.)
KernelBufferAlive ==
    ~late => \A a \in Addresses :
        /\ kern[a] = "pending" => Live(a)
        /\ kept[a] = IF Live(a) THEN Retains(Kind) ELSE {}

\* An operation that ends tells its caller what happened: data exactly when
\* the kernel moved data for it (only a cancellation may keep a unit that was
\* moved from the caller), the end of the stream only after the peer ended,
\* an error only when there is one.  (EPOLLRDHUP wakes a waiting writer too,
\* whose second call then fails with EAGAIN: the second line from below.)
AnswersAreTrue ==
    \A d \in Directions : stage[d] = "idle" =>
        /\ answer[d] = "data" => moved[d]
        /\ moved[d] => answer[d] \in {"data", "cancelled", "cancel_failed"} \/ late
        /\ answer[d] = "zero" => peer # "open"
        /\ answer[d] = "error" =>
               \/ peer = "reset" \/ closed \/ late
               \/ platform = "epoll" /\ use = "stream" /\ d = "write" /\ peer = "ended"

\* A cancelled operation ends, as long as the handle stays open and the
\* cancellation itself does not fail.
CancelEnds ==
    \A d \in Directions :
        d \in cancelled ~> d \notin cancelled \/ closed \/ stage[d] = "rethrowing"

\* A task that waits for a direction that stays ready is resumed, as long as
\* the handle stays open.
ReadyEnds ==
    \A d \in Directions :
        stage[d] = "waiting" /\ Ready(d) ~> stage[d] # "waiting" \/ ~Ready(d) \/ closed

\* The same as KernelBufferAlive with no exception.  The code does not keep
\* it: cancel_io_result lets the IoResult be freed when the operation has
\* ended, though its packet is on its way; the packet is then read from freed
\* memory and may wake another operation, which frees its IoResult while the
\* kernel still writes to its buffer.
KernelBufferAlwaysAlive == \A a \in Addresses : kern[a] = "pending" => Live(a)
=============================================================================
