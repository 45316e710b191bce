------------------------------ MODULE IoProofs ------------------------------
(***************************************************************************)
(* Proofs about what moves data: the I/O handle, for any number of         *)
(* operations, units and addresses, on each poller, and the TLS            *)
(* connection, for every stream of the peer, any number of writes and any  *)
(* size of the write buffer.  The two have no state in common: each has    *)
(* its own invariant and its own specification.                            *)
(***************************************************************************)
EXTENDS IoHandle, Tls, SequenceTheorems, FiniteSetTheorems, TLAPS

-----------------------------------------------------------------------------
(* The I/O handle.                                                         *)
(*                                                                         *)
(* Types, NoLostWakeup, KernelBufferAlive and AnswersAreTrue rest on one   *)
(* inductive invariant, IoInv: where a task is decides what it has         *)
(* registered and where its IoResult is (Places), an IoResult belongs to   *)
(* one task and its packet to it alone until one is freed too early        *)
(* (Packets), and what the task will be told is what the kernel did        *)
(* (Truth).                                                                *)

InOverlapped(d) == stage[d] \in {"waiting", "draining", "rethrowing"}
Pausing(d) == stage[d] \in {"pausing", "pausing_zero"}

\* A task has an IoResult exactly while it performs an operation on Windows.
HasResult ==
    \A d \in Directions :
        /\ result[d] # NoResult <=> (Windows /\ stage[d] # "idle")
        /\ stage[d] \in {"draining", "rethrowing"} => Windows

\* No two tasks have the same one.
OwnResult ==
    \A d, e \in Directions : result[d] = result[e] /\ result[d] # NoResult => d = e

\* Off Windows a task that waits has registered its direction, and there are
\* no IoResults and no packets.
OffWindows ==
    ~Windows =>
        /\ \A d \in Directions : stage[d] = "waiting" => d \in events
        /\ port = <<>> /\ ~late
        /\ \A a \in Addresses : kern[a] = "none" /\ kept[a] = {}

\* No direction has more units than were supplied.
Supplied == \A d \in Directions : avail[d] <= supplied[d]

Places == HasResult /\ OwnResult /\ OffWindows /\ Supplied

\* A packet is that of an operation that ended and whose IoResult is alive.
PacketsLive ==
    ~late => \A i \in DOMAIN port : Live(port[i]) /\ kern[port[i]] # "pending"

\* A task that is woken by a packet, not by its cancellation, finds its
\* operation ended.
WokenByPacket ==
    ~late => \A d \in woken :
        InOverlapped(d) /\ result[d] # NoResult /\ (stage[d] = "waiting" => d \notin cancelled)
            => kern[result[d]] \notin {"pending", "none"}

\* An operation answered at once is not the kernel's.
AnsweredNotPending ==
    \A d \in Directions : result[d] # NoResult =>
        (Pausing(d) <=> kern[result[d]] = "none")

Packets == PacketsLive /\ WokenByPacket /\ AnsweredNotPending

\* What the kernel did is what the task will be told.
KernelTruth ==
    \A d \in Directions : result[d] # NoResult /\ ~Pausing(d) =>
        /\ kern[result[d]] = "data" <=> moved[d]
        /\ kern[result[d]] = "zero" => peer # "open"
        /\ kern[result[d]] = "error" => peer = "reset"

PausedTruth ==
    \A d \in Directions :
        /\ stage[d] = "pausing" => moved[d]
        /\ stage[d] = "pausing_zero" => ~moved[d] /\ peer # "open"
        /\ ~Windows /\ stage[d] = "waiting" => ~moved[d]

\* Off Windows a task is woken, other than by its cancellation, because its
\* second call will not block, or by EPOLLRDHUP.
WokenReady ==
    ~Windows /\ ~closed =>
        \A d \in woken : stage[d] = "waiting" /\ d \notin cancelled =>
            \/ Ready(d)
            \/ platform = "epoll" /\ use = "stream" /\ d = "write" /\ peer = "ended"

Truth == KernelTruth /\ PausedTruth /\ WokenReady

IoInv ==
    /\ TypeOK /\ Places /\ Packets /\ Truth
    /\ NoLostWakeup /\ KernelBufferAlive /\ AnswersAreTrue

\* Where a task pauses after a call that was answered at once.
PauseStage(how) == IF how = "data" THEN "pausing" ELSE "pausing_zero"
-----------------------------------------------------------------------------

-----------------------------------------------------------------------------
\* The kind of an IoResult depends on the use of the handle alone.
LEMMA KindStays ==
    ASSUME use' = use
    PROVE  Kind' = Kind
BY DEF Kind

\* The packets that are left when the oldest is taken.
LEMMA TailFacts ==
    ASSUME port \in Seq(Addresses), port # <<>>
    PROVE  /\ Head(port) \in Addresses /\ Tail(port) \in Seq(Addresses)
           /\ \A i \in DOMAIN Tail(port) : \E j \in DOMAIN port : Tail(port)[i] = port[j]
           /\ \A a \in Addresses :
                 Contains(port, a) => a = Head(port) \/ Contains(Tail(port), a)
           /\ \E j \in DOMAIN port : Head(port) = port[j]
<1>1. /\ Head(port) \in Addresses /\ Tail(port) \in Seq(Addresses)
      /\ Len(Tail(port)) = Len(port) - 1
      /\ \A i \in 1..Len(Tail(port)) : Tail(port)[i] = port[i + 1]
    BY HeadTailProperties
<1>2. Len(port) \in Nat /\ Len(port) > 0 /\ Head(port) = port[1]
    BY EmptySeq, LenProperties
<1>3. \A i \in DOMAIN Tail(port) : i + 1 \in DOMAIN port /\ Tail(port)[i] = port[i + 1]
    BY <1>1, <1>2
<1>4. ASSUME NEW a \in Addresses, Contains(port, a), a # Head(port)
      PROVE  Contains(Tail(port), a)
  <2>1. PICK i \in 1..Len(port) : port[i] = a
    BY <1>4 DEF Contains
  <2>2. i # 1 /\ i - 1 \in 1..Len(Tail(port))
    BY <1>1, <1>2, <1>4, <2>1
  <2>3. Tail(port)[i - 1] = a
    BY <1>1, <2>1, <2>2
  <2> QED BY <2>2, <2>3 DEF Contains
<1> QED BY <1>1, <1>2, <1>3, <1>4

\* The packets when one more is queued.
LEMMA AppendFacts ==
    ASSUME port \in Seq(Addresses), NEW x \in Addresses
    PROVE  /\ Append(port, x) \in Seq(Addresses)
           /\ \A i \in DOMAIN Append(port, x) :
                 Append(port, x)[i] = x \/ \E j \in DOMAIN port : Append(port, x)[i] = port[j]
           /\ \A a \in Addresses : Contains(port, a) => Contains(Append(port, x), a)
           /\ Contains(Append(port, x), x)
           /\ \E i \in DOMAIN Append(port, x) : Append(port, x)[i] = x
<1> DEFINE q == Append(port, x)
<1>1. /\ q \in Seq(Addresses) /\ Len(q) = Len(port) + 1 /\ Len(port) \in Nat
      /\ \A i \in 1..Len(port) : q[i] = port[i]
      /\ q[Len(port) + 1] = x
    BY AppendProperties, LenProperties
<1> HIDE DEF q
<1>2. DOMAIN q = 1..(Len(port) + 1) /\ DOMAIN port = 1..Len(port)
    BY <1>1
<1>3. \A i \in DOMAIN q : q[i] = x \/ \E j \in DOMAIN port : q[i] = port[j]
    BY <1>1, <1>2
<1>4. Contains(q, x) /\ \A a \in Addresses : Contains(port, a) => Contains(q, a)
    BY <1>1 DEF Contains
<1> QED BY <1>1, <1>2, <1>3, <1>4 DEF q

-----------------------------------------------------------------------------
\* A direction is ready when a call for it would not block.
LEMMA ReadyIs ==
    ASSUME TypeOK, NEW x \in Directions
    PROVE  Ready(x) <=> avail[x] > 0 \/ peer = "reset" \/ (x = "read" /\ peer = "ended")
BY DEF Ready, Answers, TypeOK

\* An answer says why it was given.
LEMMA AnswerIs ==
    ASSUME NEW x \in Directions, NEW how \in Answers(x)
    PROVE  \/ how = "data" /\ avail[x] > 0
           \/ how = "zero" /\ x = "read" /\ peer = "ended" /\ avail[x] = 0
           \/ how = "error" /\ peer = "reset"
BY DEF Answers

\* A call that moves a unit takes it from those there are.
LEMMA MoveType ==
    ASSUME TypeOK, NEW x \in Directions, NEW how \in Answers(x), Move(x, how)
    PROVE  avail' \in [Directions -> 0..MaxUnits] /\ moved' \in [Directions -> BOOLEAN]
<1>1. CASE how = "data"
  <2>1. avail[x] - 1 \in 0..MaxUnits
    BY <1>1, AnswerIs, ConstantsAssumption DEF TypeOK
  <2> QED BY <1>1, <2>1 DEF Move, TypeOK
<1>2. CASE how # "data"
  BY <1>2 DEF Move, TypeOK
<1> QED BY <1>1, <1>2

\* What an IoResult retains are its buffer and its address.
LEMMA RetainsType ==
    ASSUME TypeOK
    PROVE  Retains(Kind) \in SUBSET {"buf", "addr"}
BY ConstantsAssumption DEF Retains, Kind, AllUses, TypeOK

\* Only units and the peer make a direction ready.
LEMMA ReadyStays ==
    ASSUME NEW x \in Directions, peer' = peer, avail'[x] = avail[x]
    PROVE  Ready(x)' <=> Ready(x)
BY DEF Ready, Answers

\* Freeing an IoResult the kernel is done with leaves the others as they are.
LEMMA FreeKeepsBuffers ==
    ASSUME TypeOK, OwnResult, KernelBufferAlive, NEW d \in Directions, NEW q,
           free_io_result(d, q), use' = use,
           \A a \in Addresses : kern'[a] = "pending" => kern[a] = "pending",
           late' \/ result[d] = NoResult \/ kern'[result[d]] # "pending"
    PROVE  KernelBufferAlive'
<1> SUFFICES ASSUME ~late', NEW a \in Addresses
             PROVE  /\ kern'[a] = "pending" => Live(a)'
                    /\ kept'[a] = IF Live(a)' THEN Retains(Kind') ELSE {}
    BY DEF KernelBufferAlive
<1>1. /\ kern[a] = "pending" => Live(a)
      /\ kept[a] = IF Live(a) THEN Retains(Kind) ELSE {}
    BY DEF KernelBufferAlive, free_io_result
<1>2. /\ Live(a) <=> \E x \in Directions : result[x] = a
      /\ Live(a)' <=> \E x \in Directions : result'[x] = a
    BY DEF Live, InCall
<1>3. Kind' = Kind
    BY KindStays
<1>4. /\ a # NoResult /\ result' = [result EXCEPT ![d] = NoResult]
      /\ result \in [Directions -> Addresses \cup {NoResult}]
    BY ConstantsAssumption DEF free_io_result, TypeOK
<1>5. CASE result[d] = a
  <2>1. Live(a) /\ ~Live(a)'
    BY <1>2, <1>4, <1>5 DEF OwnResult
  <2>2. kept'[a] = kept[a] \ Retains(Kind)
    BY <1>4, <1>5 DEF free_io_result, Releases, TypeOK
  <2>3. kern'[a] # "pending"
    BY <1>4, <1>5
  <2> QED BY <1>1, <2>1, <2>2, <2>3
<1>6. CASE result[d] # a
  <2>1. Live(a)' <=> Live(a)
    BY <1>2, <1>4, <1>6
  <2>2. kept'[a] = kept[a]
    BY <1>6 DEF free_io_result, TypeOK
  <2> QED BY <1>1, <1>3, <2>1, <2>2
<1> QED BY <1>5, <1>6

\* And it leaves the packets to their operations, or late is set.
LEMMA FreeKeepsPackets ==
    ASSUME TypeOK, PacketsLive, NEW d \in Directions, free_io_result(d, port), port' = port,
           \A a \in Addresses : Live(a) /\ kern[a] # "pending" => kern'[a] # "pending"
    PROVE  PacketsLive'
<1> SUFFICES ASSUME ~late', NEW i \in DOMAIN port
             PROVE  Live(port[i])' /\ kern'[port[i]] # "pending"
    BY DEF PacketsLive
<1>1. port[i] \in Addresses /\ port[i] # result[d] /\ Live(port[i]) /\ kern[port[i]] # "pending"
  <2>1. port[i] \in Addresses /\ DOMAIN port = 1..Len(port)
    BY DEF TypeOK
  <2>2. ~late /\ port[i] # result[d]
    BY DEF free_io_result
  <2> QED BY <2>1, <2>2 DEF PacketsLive
<1>2. PICK x \in Directions : result[x] = port[i]
    BY <1>1 DEF Live, InCall
<1>3. result'[x] = port[i]
    BY <1>1, <1>2 DEF free_io_result, TypeOK
<1> QED BY <1>1, <1>3 DEF Live, InCall

\* How an operation has to end for its caller to be told the truth.
LEMMA EndKeepsTruth ==
    ASSUME TypeOK, AnswersAreTrue, NEW d \in Directions, NEW how, NEW q, EndWith(d, how, q),
           UNCHANGED <<platform, use, peer, closed>>,
           \A x \in Directions \ {d} : moved'[x] = moved[x],
           how = "data" => moved'[d],
           moved'[d] => how \in {"data", "cancelled", "cancel_failed"} \/ late',
           how = "zero" => peer # "open",
           how = "error" =>
               \/ peer = "reset" \/ closed \/ late'
               \/ platform = "epoll" /\ use = "stream" /\ d = "write" /\ peer = "ended"
    PROVE  AnswersAreTrue'
BY DEF AnswersAreTrue, EndWith, free_io_result, TypeOK

-----------------------------------------------------------------------------

\* EventLoop::poll on Unix wakes those whose direction is reported.
LEMMA PollUnixStep ==
    ASSUME IoInv, NEW ds \in SUBSET Directions, PollUnix(ds)
    PROVE  IoInv'
<1> USE DEF IoInv, Places, Packets, Truth
<1>1. TypeOK'
    BY DEF PollUnix, EventMask, epoll_events, kqueue_events, TypeOK,
           handleVars, peerVars, winVars
<1>2. HasResult'
    BY DEF PollUnix, HasResult, Windows, handleVars, winVars
<1>3. OwnResult'
    BY DEF PollUnix, OwnResult, winVars
<1>4. OffWindows'
    BY DEF PollUnix, OffWindows, winVars
<1>5. Supplied'
    BY DEF PollUnix, Supplied, peerVars
<1>6. PacketsLive'
    BY DEF PollUnix, PacketsLive, Live, InCall, winVars
<1>7. WokenByPacket'
    BY DEF PollUnix, EventMask, epoll_events, kqueue_events, WokenByPacket,
           TypeOK, HasResult, winVars
<1>8. AnsweredNotPending'
    BY DEF PollUnix, AnsweredNotPending, HasResult, winVars
<1>9. KernelTruth'
    BY DEF PollUnix, KernelTruth, HasResult, winVars
<1>10. PausedTruth'
    BY DEF PollUnix, PausedTruth, peerVars
<1>11. WokenReady'
  <2>1. \A x \in Directions : Ready(x)' <=> Ready(x)
    BY ReadyStays DEF PollUnix, peerVars
  <2>2. \A x \in EventMask(ds) :
          \/ Ready(x)
          \/ platform = "epoll" /\ use = "stream" /\ x = "write" /\ peer = "ended"
    <3> SUFFICES ASSUME NEW x \in EventMask(ds)
                 PROVE  \/ Ready(x)
                        \/ platform = "epoll" /\ use = "stream" /\ x = "write" /\ peer = "ended"
      OBVIOUS
    <3>1. CASE x \in kqueue_events(ds)
      BY <3>1 DEF kqueue_events
    <3>2. CASE x \notin kqueue_events(ds)
      <4>1. /\ platform = "epoll" /\ x \in Directions
            /\ peer = "reset" \/ (peer = "ended" /\ use = "stream")
        BY <3>2 DEF EventMask, epoll_events
      <4>2. CASE peer = "reset" \/ x = "read"
        BY <4>1, <4>2, ReadyIs
      <4>3. CASE peer # "reset" /\ x # "read"
        BY <4>1, <4>3 DEF Directions
      <4> QED BY <4>2, <4>3
    <3> QED BY <3>1, <3>2
  <2>3. UNCHANGED <<platform, use, peer, closed, stage, cancelled>>
    BY DEF PollUnix, handleVars, peerVars
  <2>4. \A x \in woken' : x \in woken \/ x \in EventMask(ds)
    BY DEF PollUnix
  <2>5. woken \subseteq Directions /\ EventMask(ds) \subseteq Directions
    BY DEF EventMask, epoll_events, kqueue_events, TypeOK
  <2> QED BY <2>1, <2>2, <2>3, <2>4, <2>5 DEF WokenReady, Windows
<1>12. NoLostWakeup'
  <2>1. \A x \in Directions : Ready(x)' <=> Ready(x)
    BY ReadyStays DEF PollUnix, peerVars
  <2> QED BY <2>1 DEF PollUnix, EventMask, epoll_events, kqueue_events, NoLostWakeup, TypeOK,
           Windows, Directions, handleVars, winVars
<1>13. KernelBufferAlive'
    BY ConstantsAssumption DEF PollUnix, KernelBufferAlive, HasResult, Live,
           InCall, winVars
<1>14. AnswersAreTrue'
    BY DEF PollUnix, AnswersAreTrue, handleVars, peerVars, winVars
<1> QED BY <1>1, <1>2, <1>3, <1>4, <1>5, <1>6, <1>7, <1>8, <1>9, <1>10, <1>11,
       <1>12, <1>13, <1>14

\* EventLoop::poll on Windows wakes the task of the oldest packet; when its IoResult
\* is alive it is the task's own.
LEMMA PollWindowsStep ==
    ASSUME IoInv, PollWindows
    PROVE  IoInv'
<1> USE DEF IoInv, Places, Packets, Truth
<1>1. TypeOK'
    BY DEF PollWindows, TypeOK, handleVars, peerVars, unixVars
<1>2. HasResult'
    BY DEF PollWindows, HasResult, Windows, handleVars
<1>3. OwnResult'
    BY DEF PollWindows, OwnResult
<1>4. OffWindows'
    BY DEF PollWindows, OffWindows, Windows, handleVars
<1>5. Supplied'
    BY DEF PollWindows, Supplied, peerVars
<1>6. PacketsLive'
    BY DEF PollWindows, PacketsLive, Windows, Live, InCall
<1>7. WokenByPacket'
    BY DEF PollWindows, WokenByPacket, TypeOK, PacketsLive, AnsweredNotPending,
           InCall, InOverlapped, Pausing
<1>8. AnsweredNotPending'
    BY DEF PollWindows, AnsweredNotPending, Pausing
<1>9. KernelTruth'
    BY DEF PollWindows, KernelTruth, Pausing, peerVars
<1>10. PausedTruth'
    BY DEF PollWindows, PausedTruth, Windows, handleVars, peerVars
<1>11. WokenReady'
    BY DEF PollWindows, WokenReady, Windows, handleVars
<1>12. NoLostWakeup'
    BY TailFacts DEF PollWindows, NoLostWakeup, TypeOK, HasResult, Windows,
           Live, InCall, handleVars
<1>13. KernelBufferAlive'
  <2>1. \A b : Live(b)' <=> Live(b)
    BY DEF PollWindows, Live, InCall, winVars
  <2>2. Kind' = Kind
    BY KindStays DEF PollWindows, handleVars
  <2> QED BY <2>1, <2>2 DEF PollWindows, KernelBufferAlive
<1>14. AnswersAreTrue'
    BY DEF PollWindows, AnswersAreTrue, handleVars, peerVars
<1> QED BY <1>1, <1>2, <1>3, <1>4, <1>5, <1>6, <1>7, <1>8, <1>9, <1>10, <1>11,
       <1>12, <1>13, <1>14

\* The kernel moves data for an operation and queues its packet.
LEMMA KernelCompletesStep ==
    ASSUME IoInv, NEW a \in Addresses, KernelCompletes(a)
    PROVE  IoInv'
<1> USE DEF IoInv, Places, Packets, Truth
<1>1. TypeOK'
    BY ConstantsAssumption DEF KernelCompletes, Complete, Move, InCall,
           Answers, TypeOK, handleVars, peerVars, callVars, unixVars
<1>2. HasResult'
    BY DEF KernelCompletes, HasResult, Windows, handleVars, callVars
<1>3. OwnResult'
    BY DEF KernelCompletes, OwnResult
<1>4. OffWindows'
    BY DEF KernelCompletes, Complete, OffWindows, Windows, handleVars
<1>5. Supplied'
    BY DEF KernelCompletes, Move, Supplied, TypeOK, peerVars
<1>6. PacketsLive'
  <2>1. \A b : Live(b)' <=> Live(b)
    BY DEF KernelCompletes, Live, InCall, winVars
  <2>2. /\ port' = Append(port, a) /\ Live(a) /\ late' = late
        /\ kern'[a] # "pending" /\ \A b \in Addresses \ {a} : kern'[b] = kern[b]
    BY AnswerIs DEF KernelCompletes, Complete, TypeOK, Live
  <2>3. DOMAIN port = 1..Len(port) /\ \A i \in DOMAIN port : port[i] \in Addresses
    BY DEF TypeOK
  <2> QED BY <2>1, <2>2, <2>3, AppendFacts DEF PacketsLive, TypeOK
<1>7. WokenByPacket'
  <2>1. /\ UNCHANGED <<result, stage, woken, cancelled, late>>
        /\ kern'[a] \notin {"pending", "none"}
        /\ \A b \in Addresses \ {a} : kern'[b] = kern[b]
    BY AnswerIs DEF KernelCompletes, Complete, TypeOK, callVars
  <2> QED BY <2>1 DEF WokenByPacket, InOverlapped, TypeOK
<1>8. AnsweredNotPending'
    BY DEF KernelCompletes, Complete, AnsweredNotPending, Pausing, callVars
<1>9. KernelTruth'
  <2>1. PICK d \in InCall(a), how \in {"data", "zero", "error"} :
          how \in Answers(d) /\ Complete(a, how) /\ Move(d, how)
    BY DEF KernelCompletes
  <2>2. d \in Directions /\ result[d] = a /\ \A x \in Directions \ {d} : result[x] # a
    BY ConstantsAssumption DEF InCall, OwnResult, TypeOK
  <2>3. moved'[d] = (how = "data") /\ kern'[a] = how
    BY <2>1, <2>2 DEF Move, Complete, TypeOK
  <2>4. \A x \in Directions \ {d} :
          moved'[x] = moved[x] /\ (result[x] # NoResult => kern'[result[x]] = kern[result[x]])
    BY <2>1, <2>2 DEF Move, Complete, TypeOK
  <2>5. UNCHANGED <<result, stage, peer>>
    BY DEF KernelCompletes, callVars, peerVars
  <2> SUFFICES ASSUME NEW x \in Directions, result[x] # NoResult, ~Pausing(x)
               PROVE  /\ kern'[result[x]] = "data" <=> moved'[x]
                      /\ kern'[result[x]] = "zero" => peer # "open"
                      /\ kern'[result[x]] = "error" => peer = "reset"
    BY <2>5 DEF KernelTruth, Pausing
  <2>6. CASE x = d
    BY <2>1, <2>2, <2>3, <2>6, AnswerIs
  <2>7. CASE x # d
    BY <2>4, <2>7 DEF KernelTruth
  <2> QED BY <2>6, <2>7
<1>10. PausedTruth'
    BY DEF KernelCompletes, Complete, Move, InCall, PausedTruth, HasResult,
           OffWindows, AnsweredNotPending, Windows, Pausing, handleVars,
           peerVars, callVars
<1>11. WokenReady'
    BY DEF KernelCompletes, Complete, WokenReady, OffWindows, Windows,
           handleVars
<1>12. NoLostWakeup'
    BY ConstantsAssumption, AppendFacts DEF KernelCompletes, Complete, InCall,
           NoLostWakeup, TypeOK, HasResult, Windows, handleVars, callVars
<1>13. KernelBufferAlive'
  <2>1. \A b : Live(b)' <=> Live(b)
    BY DEF KernelCompletes, Live, InCall, winVars
  <2>2. Kind' = Kind
    BY KindStays DEF KernelCompletes, handleVars
  <2> QED BY <2>1, <2>2 DEF KernelCompletes, Complete, KernelBufferAlive, TypeOK
<1>14. AnswersAreTrue'
    BY ConstantsAssumption DEF KernelCompletes, Move, InCall, AnswersAreTrue,
           HasResult, handleVars, peerVars, callVars
<1> QED BY <1>1, <1>2, <1>3, <1>4, <1>5, <1>6, <1>7, <1>8, <1>9, <1>10, <1>11,
       <1>12, <1>13, <1>14

\* The kernel ends an operation that was cancelled or whose handle was closed.
LEMMA KernelAbortsStep ==
    ASSUME IoInv, NEW a \in Addresses, KernelAborts(a)
    PROVE  IoInv'
<1> USE DEF IoInv, Places, Packets, Truth
<1>1. TypeOK'
    BY DEF KernelAborts, Complete, TypeOK, handleVars, peerVars, callVars,
           unixVars
<1>2. HasResult'
    BY DEF KernelAborts, HasResult, Windows, handleVars, callVars
<1>3. OwnResult'
    BY DEF KernelAborts, OwnResult
<1>4. OffWindows'
    BY DEF KernelAborts, Complete, OffWindows, Windows, handleVars
<1>5. Supplied'
    BY DEF KernelAborts, Supplied, peerVars
<1>6. PacketsLive'
  <2>1. \A b : Live(b)' <=> Live(b)
    BY DEF KernelAborts, Live, InCall, winVars
  <2>2. /\ port' = Append(port, a) /\ Live(a) /\ late' = late
        /\ kern'[a] # "pending" /\ \A b \in Addresses \ {a} : kern'[b] = kern[b]
    BY AnswerIs DEF KernelAborts, Complete, TypeOK, Live
  <2>3. DOMAIN port = 1..Len(port) /\ \A i \in DOMAIN port : port[i] \in Addresses
    BY DEF TypeOK
  <2> QED BY <2>1, <2>2, <2>3, AppendFacts DEF PacketsLive, TypeOK
<1>7. WokenByPacket'
  <2>1. /\ UNCHANGED <<result, stage, woken, cancelled, late>>
        /\ kern'[a] \notin {"pending", "none"}
        /\ \A b \in Addresses \ {a} : kern'[b] = kern[b]
    BY AnswerIs DEF KernelAborts, Complete, TypeOK, callVars
  <2> QED BY <2>1 DEF WokenByPacket, InOverlapped, TypeOK
<1>8. AnsweredNotPending'
    BY DEF KernelAborts, Complete, AnsweredNotPending, Pausing, callVars
<1>9. KernelTruth'
    BY DEF KernelAborts, Complete, KernelTruth, Pausing, peerVars, callVars
<1>10. PausedTruth'
    BY DEF KernelAborts, PausedTruth, Windows, handleVars, peerVars, callVars
<1>11. WokenReady'
    BY DEF KernelAborts, Complete, WokenReady, OffWindows, Windows, handleVars
<1>12. NoLostWakeup'
    BY AppendFacts DEF KernelAborts, Complete, InCall, NoLostWakeup, TypeOK,
           HasResult, Windows, handleVars, callVars
<1>13. KernelBufferAlive'
  <2>1. \A b : Live(b)' <=> Live(b)
    BY DEF KernelAborts, Live, InCall, winVars
  <2>2. Kind' = Kind
    BY KindStays DEF KernelAborts, handleVars
  <2> QED BY <2>1, <2>2 DEF KernelAborts, Complete, KernelBufferAlive, TypeOK
<1>14. AnswersAreTrue'
    BY DEF KernelAborts, AnswersAreTrue, handleVars, peerVars, callVars
<1> QED BY <1>1, <1>2, <1>3, <1>4, <1>5, <1>6, <1>7, <1>8, <1>9, <1>10, <1>11,
       <1>12, <1>13, <1>14

\* Closing a handle leaves the tasks and the IoResults as they are.
LEMMA CloseStep ==
    ASSUME IoInv, Close
    PROVE  IoInv'
<1> USE DEF IoInv, Places, Packets, Truth
<1>1. TypeOK'
    BY DEF Close, TypeOK, handleVars, peerVars, callVars, winVars
<1>2. HasResult'
    BY DEF Close, HasResult, Windows, handleVars, callVars, winVars
<1>3. OwnResult'
    BY DEF Close, OwnResult, winVars
<1>4. OffWindows'
    BY DEF Close, OffWindows, Windows, handleVars, callVars, winVars
<1>5. Supplied'
    BY DEF Close, Supplied, peerVars
<1>6. PacketsLive'
    BY DEF Close, PacketsLive, Live, InCall, winVars
<1>7. WokenByPacket'
    BY DEF Close, WokenByPacket, InOverlapped, callVars, winVars
<1>8. AnsweredNotPending'
    BY DEF Close, AnsweredNotPending, Pausing, callVars, winVars
<1>9. KernelTruth'
    BY DEF Close, KernelTruth, Pausing, peerVars, callVars, winVars
<1>10. PausedTruth'
    BY DEF Close, PausedTruth, Windows, handleVars, peerVars, callVars
<1>11. WokenReady'
    BY DEF Close, WokenReady
<1>12. NoLostWakeup'
    BY DEF Close, NoLostWakeup
<1>13. KernelBufferAlive'
    BY KindStays DEF Close, KernelBufferAlive, Live, InCall, handleVars,
           winVars
<1>14. AnswersAreTrue'
    BY DEF Close, AnswersAreTrue, peerVars, callVars, winVars
<1> QED BY <1>1, <1>2, <1>3, <1>4, <1>5, <1>6, <1>7, <1>8, <1>9, <1>10, <1>11,
       <1>12, <1>13, <1>14

\* The peer sends no more: what becomes ready is notified.
LEMMA PeerEndsStep ==
    ASSUME IoInv, PeerEnds
    PROVE  IoInv'
<1> USE DEF IoInv, Places, Packets, Truth
<1>1. TypeOK'
    BY DEF PeerEnds, Raise, Notify, TypeOK, handleVars, callVars, winVars
<1>2. HasResult'
    BY DEF PeerEnds, HasResult, Windows, handleVars, callVars, winVars
<1>3. OwnResult'
    BY DEF PeerEnds, OwnResult, winVars
<1>4. OffWindows'
    BY DEF PeerEnds, OffWindows, Windows, handleVars, callVars, winVars
<1>5. Supplied'
    BY DEF PeerEnds, Supplied
<1>6. PacketsLive'
    BY DEF PeerEnds, PacketsLive, Live, InCall, winVars
<1>7. WokenByPacket'
    BY DEF PeerEnds, WokenByPacket, InOverlapped, callVars, winVars
<1>8. AnsweredNotPending'
    BY DEF PeerEnds, AnsweredNotPending, Pausing, callVars, winVars
<1>9. KernelTruth'
    BY DEF PeerEnds, KernelTruth, Pausing, callVars, winVars
<1>10. PausedTruth'
    BY DEF PeerEnds, PausedTruth, Windows, handleVars, callVars
<1>11. WokenReady'
    BY DEF PeerEnds, Answers, WokenReady, Windows, Ready, handleVars, callVars
<1>12. NoLostWakeup'
    BY DEF PeerEnds, Raise, Notify, Answers, NoLostWakeup, OffWindows, Windows,
           Ready, handleVars, callVars, winVars
<1>13. KernelBufferAlive'
    BY KindStays DEF PeerEnds, KernelBufferAlive, Live, InCall, handleVars,
           winVars
<1>14. AnswersAreTrue'
    BY DEF PeerEnds, AnswersAreTrue, callVars, winVars
<1> QED BY <1>1, <1>2, <1>3, <1>4, <1>5, <1>6, <1>7, <1>8, <1>9, <1>10, <1>11,
       <1>12, <1>13, <1>14

\* The peer resets the connection: both directions become ready.
LEMMA PeerResetsStep ==
    ASSUME IoInv, PeerResets
    PROVE  IoInv'
<1> USE DEF IoInv, Places, Packets, Truth
<1>1. TypeOK'
    BY DEF PeerResets, Raise, Notify, TypeOK, handleVars, callVars, winVars
<1>2. HasResult'
    BY DEF PeerResets, HasResult, Windows, handleVars, callVars, winVars
<1>3. OwnResult'
    BY DEF PeerResets, OwnResult, winVars
<1>4. OffWindows'
    BY DEF PeerResets, OffWindows, Windows, handleVars, callVars, winVars
<1>5. Supplied'
    BY DEF PeerResets, Supplied
<1>6. PacketsLive'
    BY DEF PeerResets, PacketsLive, Live, InCall, winVars
<1>7. WokenByPacket'
    BY DEF PeerResets, WokenByPacket, InOverlapped, callVars, winVars
<1>8. AnsweredNotPending'
    BY DEF PeerResets, AnsweredNotPending, Pausing, callVars, winVars
<1>9. KernelTruth'
    BY DEF PeerResets, KernelTruth, Pausing, callVars, winVars
<1>10. PausedTruth'
    BY DEF PeerResets, PausedTruth, Windows, handleVars, callVars
<1>11. WokenReady'
    BY DEF PeerResets, Answers, WokenReady, Ready
<1>12. NoLostWakeup'
    BY DEF PeerResets, Raise, Notify, NoLostWakeup, OffWindows, Windows,
           handleVars, callVars, winVars
<1>13. KernelBufferAlive'
    BY KindStays DEF PeerResets, KernelBufferAlive, Live, InCall, handleVars,
           winVars
<1>14. AnswersAreTrue'
    BY DEF PeerResets, AnswersAreTrue, callVars, winVars
<1> QED BY <1>1, <1>2, <1>3, <1>4, <1>5, <1>6, <1>7, <1>8, <1>9, <1>10, <1>11,
       <1>12, <1>13, <1>14

\* The first call on Unix says EAGAIN: the direction is registered before, so that
\* what comes later is notified.
LEMMA UnixWaitsStep ==
    ASSUME IoInv, NEW d \in Directions, ~Windows, poll_register(d), ~Ready(d),
           Enter(d, "waiting"), Move(d, "again"),
           UNCHANGED <<result, kept, kern, port>>, ~closed, stage[d] = "idle",
           starts < MaxStarts, starts' = starts + 1,
           UNCHANGED <<handleVars, closed, peerVars>>
    PROVE  IoInv'
<1> USE DEF IoInv, Places, Packets, Truth
<1>1. TypeOK'
  <2>1. avail' \in [Directions -> 0..MaxUnits] /\ moved' \in [Directions -> BOOLEAN]
    BY ConstantsAssumption DEF Move, TypeOK
  <2>2. starts' \in 0..MaxStarts
    BY ConstantsAssumption DEF TypeOK
  <2>3. stage' \in [Directions -> Stages] /\ woken' \subseteq Directions
    BY DEF Enter, PauseStage, Stages, TypeOK
  <2>4. events' \subseteq Directions /\ edge' \subseteq Directions
    BY DEF poll_register, epoll_register, kqueue_register, Notify, unixVars, TypeOK
  <2> QED BY <2>1, <2>2, <2>3, <2>4 DEF Enter, TypeOK, handleVars, peerVars
<1>2. HasResult'
    BY DEF Enter, HasResult, Windows, handleVars
<1>3. OwnResult'
    BY DEF OwnResult
<1>4. OffWindows'
    BY DEF poll_register, Enter, OffWindows, unixVars
<1>5. Supplied'
    BY DEF Move, Supplied, peerVars
<1>6. PacketsLive'
    BY DEF PacketsLive, OffWindows
<1>7. WokenByPacket'
    BY DEF Enter, WokenByPacket, TypeOK, HasResult
<1>8. AnsweredNotPending'
    BY DEF AnsweredNotPending, HasResult
<1>9. KernelTruth'
    BY DEF KernelTruth, HasResult
<1>10. PausedTruth'
    BY DEF Move, Enter, PausedTruth, TypeOK, peerVars
<1>11. WokenReady'
  <2>1. \A x \in Directions \ {d} : Ready(x)' <=> Ready(x)
    BY ReadyStays DEF Move, handleVars, peerVars, TypeOK
  <2> QED BY <2>1 DEF WokenReady, Enter, TypeOK, Windows, handleVars, peerVars
<1>12. NoLostWakeup'
  <2>1. \A x \in Directions \ {d} : Ready(x)' <=> Ready(x)
    BY ReadyStays DEF Move, handleVars, peerVars, TypeOK
  <2>2. edge \subseteq edge' /\ events \subseteq events'
    BY DEF poll_register, epoll_register, kqueue_register, unixVars
  <2>3. ~Ready(d)'
    BY ReadyStays DEF Move, handleVars, peerVars, TypeOK
  <2> QED BY <2>1, <2>2, <2>3 DEF NoLostWakeup, Enter, TypeOK, Windows, handleVars
<1>13. KernelBufferAlive'
    BY ConstantsAssumption DEF KernelBufferAlive, HasResult, OffWindows, Live,
           InCall
<1>14. AnswersAreTrue'
    BY DEF Move, Enter, AnswersAreTrue, TypeOK, handleVars, peerVars
<1> QED BY <1>1, <1>2, <1>3, <1>4, <1>5, <1>6, <1>7, <1>8, <1>9, <1>10, <1>11,
       <1>12, <1>13, <1>14

\* The first call on Unix answers and the operation ends at once.
LEMMA UnixReturnsStep ==
    ASSUME IoInv, NEW d \in Directions, NEW how \in Answers(d), ~Windows,
           poll_register(d), Move(d, how), ReturnsAtOnce(how), End(d, how),
           UNCHANGED <<kern, port>>, ~closed, stage[d] = "idle",
           starts < MaxStarts, starts' = starts + 1,
           UNCHANGED <<handleVars, closed, peerVars>>
    PROVE  IoInv'
<1> USE DEF IoInv, Places, Packets, Truth
<1>1. TypeOK'
  <2>1. avail' \in [Directions -> 0..MaxUnits] /\ moved' \in [Directions -> BOOLEAN]
    BY AnswerIs, MoveType
  <2>2. starts' \in 0..MaxStarts
    BY ConstantsAssumption DEF TypeOK
  <2>3. how \in {"data", "zero", "error"}
    BY AnswerIs
  <2>4. events' \subseteq Directions /\ edge' \subseteq Directions
    BY DEF poll_register, epoll_register, kqueue_register, Notify, unixVars, TypeOK
  <2> QED BY <2>1, <2>2, <2>3, <2>4 DEF End, EndWith, free_io_result, Stages, TypeOK,
           handleVars, peerVars
<1>2. HasResult'
    BY DEF EndWith, End, free_io_result, HasResult, Windows, handleVars
<1>3. OwnResult'
    BY DEF EndWith, End, free_io_result, OwnResult
<1>4. OffWindows'
    BY DEF poll_register, EndWith, End, free_io_result, OffWindows, TypeOK,
           unixVars
<1>5. Supplied'
    BY DEF Move, Supplied, TypeOK, peerVars
<1>6. PacketsLive'
    BY DEF PacketsLive, OffWindows
<1>7. WokenByPacket'
    BY DEF EndWith, End, free_io_result, WokenByPacket, TypeOK, HasResult
<1>8. AnsweredNotPending'
    BY DEF EndWith, End, free_io_result, AnsweredNotPending, HasResult
<1>9. KernelTruth'
    BY DEF EndWith, End, free_io_result, KernelTruth, HasResult
<1>10. PausedTruth'
    BY DEF Move, EndWith, End, PausedTruth, peerVars
<1>11. WokenReady'
  <2>1. \A x \in Directions \ {d} : Ready(x)' <=> Ready(x)
    BY ReadyStays DEF Move, handleVars, peerVars, TypeOK
  <2> QED BY <2>1 DEF WokenReady, End, EndWith, TypeOK, Windows, handleVars, peerVars
<1>12. NoLostWakeup'
  <2>1. \A x \in Directions \ {d} : Ready(x)' <=> Ready(x)
    BY ReadyStays DEF Move, handleVars, peerVars, TypeOK
  <2>2. edge \subseteq edge' /\ events \subseteq events'
    BY DEF poll_register, epoll_register, kqueue_register, unixVars
  <2> QED BY <2>1, <2>2 DEF NoLostWakeup, End, EndWith, TypeOK, Windows, handleVars
<1>13. KernelBufferAlive'
  <2>1. result[d] = NoResult
    BY DEF HasResult
  <2> QED BY <2>1, FreeKeepsBuffers DEF End, EndWith, handleVars
<1>14. AnswersAreTrue'
  <2>1. /\ moved'[d] = (how = "data")
        /\ \A x \in Directions \ {d} : moved'[x] = moved[x]
    BY DEF Move, TypeOK
  <2> QED BY <2>1, AnswerIs, EndKeepsTruth DEF End, handleVars, peerVars
<1> QED BY <1>1, <1>2, <1>3, <1>4, <1>5, <1>6, <1>7, <1>8, <1>9, <1>10, <1>11,
       <1>12, <1>13, <1>14

\* The first call on Unix answers and the task lets the others run.
LEMMA UnixPausesStep ==
    ASSUME IoInv, NEW d \in Directions, NEW how \in Answers(d), ~Windows,
           poll_register(d), Move(d, how), how # "error",
           Enter(d, PauseStage(how)), UNCHANGED <<result, kept, kern, port>>,
           ~closed, stage[d] = "idle", starts < MaxStarts,
           starts' = starts + 1, UNCHANGED <<handleVars, closed, peerVars>>
    PROVE  IoInv'
<1> USE DEF IoInv, Places, Packets, Truth
<1>1. TypeOK'
  <2>1. avail' \in [Directions -> 0..MaxUnits] /\ moved' \in [Directions -> BOOLEAN]
    BY AnswerIs, MoveType
  <2>2. starts' \in 0..MaxStarts
    BY ConstantsAssumption DEF TypeOK
  <2>3. stage' \in [Directions -> Stages] /\ woken' \subseteq Directions
    BY DEF Enter, PauseStage, Stages, TypeOK
  <2>4. events' \subseteq Directions /\ edge' \subseteq Directions
    BY DEF poll_register, epoll_register, kqueue_register, Notify, unixVars, TypeOK
  <2> QED BY <2>1, <2>2, <2>3, <2>4 DEF Enter, TypeOK, handleVars, peerVars
<1>2. HasResult'
    BY DEF Enter, PauseStage, HasResult, Windows, handleVars
<1>3. OwnResult'
    BY DEF OwnResult
<1>4. OffWindows'
    BY DEF poll_register, Enter, OffWindows, unixVars
<1>5. Supplied'
    BY DEF Move, Supplied, TypeOK, peerVars
<1>6. PacketsLive'
    BY DEF PacketsLive, OffWindows
<1>7. WokenByPacket'
    BY DEF Enter, WokenByPacket, TypeOK, HasResult
<1>8. AnsweredNotPending'
    BY DEF AnsweredNotPending, HasResult
<1>9. KernelTruth'
    BY DEF KernelTruth, HasResult
<1>10. PausedTruth'
  <2>1. moved'[d] = (how = "data") /\ \A x \in Directions \ {d} : moved'[x] = moved[x]
    BY DEF Move, TypeOK
  <2>2. stage' = [stage EXCEPT ![d] = PauseStage(how)]
    BY DEF Enter
  <2>3. UNCHANGED <<peer, platform>> /\ (how # "data" => peer # "open")
    BY AnswerIs DEF handleVars, peerVars
  <2> QED BY <2>1, <2>2, <2>3 DEF PausedTruth, PauseStage, Windows, TypeOK
<1>11. WokenReady'
  <2>1. \A x \in Directions \ {d} : Ready(x)' <=> Ready(x)
    BY ReadyStays DEF Move, handleVars, peerVars, TypeOK
  <2> QED BY <2>1 DEF WokenReady, Enter, PauseStage, TypeOK, Windows, handleVars, peerVars
<1>12. NoLostWakeup'
  <2>1. \A x \in Directions \ {d} : Ready(x)' <=> Ready(x)
    BY ReadyStays DEF Move, handleVars, peerVars, TypeOK
  <2>2. edge \subseteq edge' /\ events \subseteq events'
    BY DEF poll_register, epoll_register, kqueue_register, unixVars
  <2> QED BY <2>1, <2>2 DEF NoLostWakeup, Enter, PauseStage, TypeOK, Windows, handleVars
<1>13. KernelBufferAlive'
    BY ConstantsAssumption DEF KernelBufferAlive, HasResult, OffWindows, Live,
           InCall
<1>14. AnswersAreTrue'
    BY DEF Move, Enter, PauseStage, AnswersAreTrue, TypeOK, handleVars, peerVars
<1> QED BY <1>1, <1>2, <1>3, <1>4, <1>5, <1>6, <1>7, <1>8, <1>9, <1>10, <1>11,
       <1>12, <1>13, <1>14

\* The first call on Windows leaves the operation to the kernel.
LEMMA PendsStep ==
    ASSUME IoInv, NEW d \in Directions, NEW a \in Addresses, Windows, ~Live(a),
           kern[a] # "pending", UNCHANGED <<unixVars, port>>, IoPending(d, a),
           ~closed, stage[d] = "idle", starts < MaxStarts,
           starts' = starts + 1, UNCHANGED <<handleVars, closed, peerVars>>
    PROVE  IoInv'
<1> USE DEF IoInv, Places, Packets, Truth
<1>1. TypeOK'
  <2>1. avail' \in [Directions -> 0..MaxUnits] /\ moved' \in [Directions -> BOOLEAN]
    BY ConstantsAssumption DEF IoPending, Move, TypeOK
  <2>2. starts' \in 0..MaxStarts
    BY ConstantsAssumption DEF TypeOK
  <2>3. stage' \in [Directions -> Stages] /\ woken' \subseteq Directions
    BY DEF IoPending, Enter, PauseStage, Stages, TypeOK
  <2>4. /\ result' \in [Directions -> Addresses \cup {NoResult}]
        /\ kept' \in [Addresses -> SUBSET {"buf", "addr"}]
    BY RetainsType DEF IoPending, make_io_result, TypeOK
  <2>5. kern' \in [Addresses -> {"none", "pending", "data", "zero", "error", "aborted"}]
    BY DEF IoPending, TypeOK
  <2> QED BY <2>1, <2>2, <2>3, <2>4, <2>5 DEF IoPending, Enter, TypeOK, handleVars, peerVars,
           unixVars
<1>2. HasResult'
    BY ConstantsAssumption DEF IoPending, make_io_result, Enter, HasResult,
           TypeOK, Windows, handleVars
<1>3. OwnResult'
    BY DEF IoPending, make_io_result, OwnResult, Live, InCall
<1>4. OffWindows'
    BY DEF OffWindows, Windows, handleVars
<1>5. Supplied'
    BY DEF IoPending, Move, Supplied, peerVars
<1>6. PacketsLive'
    BY ConstantsAssumption DEF IoPending, make_io_result, Enter, PacketsLive,
           TypeOK, HasResult, Live, InCall
<1>7. WokenByPacket'
    BY DEF IoPending, make_io_result, Enter, WokenByPacket, TypeOK, Live,
           InCall, InOverlapped
<1>8. AnsweredNotPending'
    BY DEF IoPending, make_io_result, Enter, AnsweredNotPending, TypeOK, Live,
           InCall, Pausing
<1>9. KernelTruth'
    BY DEF IoPending, make_io_result, Move, Enter, KernelTruth, TypeOK, Live,
           InCall, Pausing, peerVars
<1>10. PausedTruth'
    BY DEF IoPending, Move, Enter, PausedTruth, Windows, handleVars, peerVars
<1>11. WokenReady'
    BY DEF WokenReady, Windows, handleVars
<1>12. NoLostWakeup'
    BY DEF IoPending, make_io_result, Enter, NoLostWakeup, TypeOK, Windows,
           handleVars
<1>13. KernelBufferAlive'
  <2>1. result[d] = NoResult
    BY DEF HasResult
  <2>2. \A b \in Addresses : Live(b)' <=> Live(b) \/ b = a
    BY <2>1, ConstantsAssumption DEF IoPending, make_io_result, Live, InCall, TypeOK
  <2>3. Kind' = Kind
    BY KindStays DEF handleVars
  <2> QED BY <2>2, <2>3 DEF IoPending, make_io_result, Enter, KernelBufferAlive, TypeOK
<1>14. AnswersAreTrue'
    BY DEF IoPending, Move, Enter, AnswersAreTrue, TypeOK, handleVars, peerVars
<1> QED BY <1>1, <1>2, <1>3, <1>4, <1>5, <1>6, <1>7, <1>8, <1>9, <1>10, <1>11,
       <1>12, <1>13, <1>14

\* The first call on Windows answers and the operation ends at once.
LEMMA ReturnsStep ==
    ASSUME IoInv, NEW d \in Directions, NEW a \in Addresses,
           NEW how \in Answers(d), Windows, ~Live(a), kern[a] # "pending",
           UNCHANGED <<unixVars, port>>, kern' = [kern EXCEPT ![a] = "none"],
           Move(d, how), End(d, how), ~closed, stage[d] = "idle",
           starts < MaxStarts, starts' = starts + 1,
           UNCHANGED <<handleVars, closed, peerVars>>
    PROVE  IoInv'
<1> USE DEF IoInv, Places, Packets, Truth
<1>1. TypeOK'
    BY ConstantsAssumption, AnswerIs DEF Move, EndWith, End, free_io_result,
           Releases, TypeOK, handleVars, peerVars, unixVars
<1>2. HasResult'
    BY DEF EndWith, End, free_io_result, HasResult, Windows, handleVars
<1>3. OwnResult'
    BY DEF EndWith, End, free_io_result, OwnResult
<1>4. OffWindows'
    BY DEF OffWindows, Windows, handleVars
<1>5. Supplied'
    BY DEF Move, Supplied, TypeOK, peerVars
<1>6. PacketsLive'
    BY DEF EndWith, End, free_io_result, PacketsLive, TypeOK, HasResult, Live,
           InCall
<1>7. WokenByPacket'
    BY DEF EndWith, End, free_io_result, WokenByPacket, TypeOK, Live, InCall,
           InOverlapped
<1>8. AnsweredNotPending'
    BY DEF EndWith, End, free_io_result, AnsweredNotPending, Live, InCall,
           Pausing
<1>9. KernelTruth'
    BY DEF Move, EndWith, End, free_io_result, KernelTruth, TypeOK, Live,
           InCall, Pausing, peerVars
<1>10. PausedTruth'
    BY DEF Move, EndWith, End, PausedTruth, Windows, handleVars, peerVars
<1>11. WokenReady'
    BY DEF WokenReady, Windows, handleVars
<1>12. NoLostWakeup'
    BY DEF EndWith, End, free_io_result, NoLostWakeup, Windows, handleVars
<1>13. KernelBufferAlive'
  <2>1. result[d] = NoResult
    BY DEF HasResult
  <2> QED BY <2>1, FreeKeepsBuffers DEF End, EndWith, handleVars, TypeOK
<1>14. AnswersAreTrue'
  <2>1. /\ moved'[d] = (how = "data")
        /\ \A x \in Directions \ {d} : moved'[x] = moved[x]
    BY DEF Move, TypeOK
  <2> QED BY <2>1, AnswerIs, EndKeepsTruth DEF End, handleVars, peerVars
<1> QED BY <1>1, <1>2, <1>3, <1>4, <1>5, <1>6, <1>7, <1>8, <1>9, <1>10, <1>11,
       <1>12, <1>13, <1>14

\* The first call on Windows answers and the task lets the others run.
LEMMA PausesStep ==
    ASSUME IoInv, NEW d \in Directions, NEW a \in Addresses,
           NEW how \in Answers(d), Windows, ~Live(a), kern[a] # "pending",
           UNCHANGED <<unixVars, port>>, kern' = [kern EXCEPT ![a] = "none"],
           Move(d, how), how # "error", Enter(d, PauseStage(how)),
           make_io_result(d, a), ~closed, stage[d] = "idle",
           starts < MaxStarts, starts' = starts + 1,
           UNCHANGED <<handleVars, closed, peerVars>>
    PROVE  IoInv'
<1> USE DEF IoInv, Places, Packets, Truth
<1>1. TypeOK'
  <2>1. avail' \in [Directions -> 0..MaxUnits] /\ moved' \in [Directions -> BOOLEAN]
    BY AnswerIs, MoveType
  <2>2. starts' \in 0..MaxStarts
    BY ConstantsAssumption DEF TypeOK
  <2>3. stage' \in [Directions -> Stages] /\ woken' \subseteq Directions
    BY DEF Enter, PauseStage, Stages, TypeOK
  <2>4. /\ result' \in [Directions -> Addresses \cup {NoResult}]
        /\ kept' \in [Addresses -> SUBSET {"buf", "addr"}]
    BY RetainsType DEF make_io_result, TypeOK
  <2>5. kern' \in [Addresses -> {"none", "pending", "data", "zero", "error", "aborted"}]
    BY DEF TypeOK
  <2> QED BY <2>1, <2>2, <2>3, <2>4, <2>5 DEF Enter, TypeOK, handleVars, peerVars, unixVars
<1>2. HasResult'
    BY DEF make_io_result, Enter, PauseStage, HasResult, TypeOK, Windows, Live,
           InCall, handleVars
<1>3. OwnResult'
    BY DEF make_io_result, OwnResult, Live, InCall
<1>4. OffWindows'
    BY DEF OffWindows, Windows, handleVars
<1>5. Supplied'
    BY DEF Move, Supplied, TypeOK, peerVars
<1>6. PacketsLive'
    BY ConstantsAssumption DEF make_io_result, Enter, PacketsLive, TypeOK,
           HasResult, Live, InCall
<1>7. WokenByPacket'
    BY DEF make_io_result, Enter, WokenByPacket, TypeOK, Live, InCall,
           InOverlapped
<1>8. AnsweredNotPending'
    BY DEF make_io_result, Enter, PauseStage, AnsweredNotPending, TypeOK, Live,
           InCall, Pausing
<1>9. KernelTruth'
    BY DEF make_io_result, Move, Enter, PauseStage, KernelTruth, TypeOK, Live,
           InCall, Pausing, peerVars
<1>10. PausedTruth'
  <2>1. moved'[d] = (how = "data") /\ \A x \in Directions \ {d} : moved'[x] = moved[x]
    BY DEF Move, TypeOK
  <2>2. stage' = [stage EXCEPT ![d] = PauseStage(how)]
    BY DEF Enter
  <2>3. UNCHANGED <<peer, platform>> /\ (how # "data" => peer # "open")
    BY AnswerIs DEF handleVars, peerVars
  <2> QED BY <2>1, <2>2, <2>3 DEF PausedTruth, PauseStage, Windows, TypeOK
<1>11. WokenReady'
    BY DEF WokenReady, Windows, handleVars
<1>12. NoLostWakeup'
    BY DEF make_io_result, Enter, PauseStage, NoLostWakeup, Windows, handleVars
<1>13. KernelBufferAlive'
  <2>1. result[d] = NoResult
    BY DEF HasResult
  <2>2. \A b \in Addresses : Live(b)' <=> Live(b) \/ b = a
    BY <2>1, ConstantsAssumption DEF make_io_result, Live, InCall, TypeOK
  <2>3. Kind' = Kind
    BY KindStays DEF handleVars
  <2> QED BY <2>2, <2>3 DEF make_io_result, Enter, KernelBufferAlive, TypeOK
<1>14. AnswersAreTrue'
    BY DEF Move, Enter, PauseStage, AnswersAreTrue, TypeOK, handleVars, peerVars
<1> QED BY <1>1, <1>2, <1>3, <1>4, <1>5, <1>6, <1>7, <1>8, <1>9, <1>10, <1>11,
       <1>12, <1>13, <1>14

\* A task that paused ends its operation; no packet was queued for it.
LEMMA FinishPauseStep ==
    ASSUME IoInv, NEW d \in Directions, FinishPause(d)
    PROVE  IoInv'
<1> USE DEF IoInv, Places, Packets, Truth
<1>1. TypeOK'
    BY DEF FinishPause, EndWith, End, free_io_result, TypeOK, Stages,
           handleVars, peerVars, unixVars
<1>2. HasResult'
    BY DEF FinishPause, EndWith, End, free_io_result, HasResult, TypeOK,
           Windows, handleVars
<1>3. OwnResult'
    BY DEF FinishPause, EndWith, End, free_io_result, OwnResult
<1>4. OffWindows'
    BY DEF FinishPause, EndWith, End, free_io_result, OffWindows, TypeOK,
           Windows, handleVars, unixVars
<1>5. Supplied'
    BY DEF FinishPause, Supplied, peerVars
<1>6. PacketsLive'
  BY FreeKeepsPackets DEF FinishPause, End, EndWith
<1>7. WokenByPacket'
    BY DEF FinishPause, EndWith, End, free_io_result, WokenByPacket, TypeOK,
           InOverlapped
<1>8. AnsweredNotPending'
    BY DEF FinishPause, EndWith, End, free_io_result, AnsweredNotPending,
           TypeOK, Pausing
<1>9. KernelTruth'
    BY DEF FinishPause, EndWith, End, free_io_result, KernelTruth, TypeOK,
           Pausing, peerVars
<1>10. PausedTruth'
    BY DEF FinishPause, EndWith, End, PausedTruth, Windows, handleVars,
           peerVars
<1>11. WokenReady'
  <2>1. \A x \in Directions : Ready(x)' <=> Ready(x)
    BY ReadyStays DEF FinishPause, peerVars
  <2> QED BY <2>1 DEF FinishPause, End, EndWith, WokenReady, TypeOK, Windows, handleVars,
           peerVars
<1>12. NoLostWakeup'
  <2>1. \A x \in Directions : Ready(x)' <=> Ready(x)
    BY ReadyStays DEF FinishPause, peerVars
  <2> QED BY <2>1 DEF FinishPause, End, EndWith, free_io_result, NoLostWakeup, TypeOK, Windows,
           handleVars, unixVars
<1>13. KernelBufferAlive'
  <2>1. result[d] = NoResult \/ kern[result[d]] = "none"
    BY DEF FinishPause, AnsweredNotPending, Pausing
  <2> QED BY <2>1, FreeKeepsBuffers DEF FinishPause, End, EndWith, handleVars
<1>14. AnswersAreTrue'
    BY DEF FinishPause, EndWith, End, free_io_result, AnswersAreTrue, TypeOK,
           PausedTruth, handleVars, peerVars
<1> QED BY <1>1, <1>2, <1>3, <1>4, <1>5, <1>6, <1>7, <1>8, <1>9, <1>10, <1>11,
       <1>12, <1>13, <1>14

\* The second call on Unix answers.
LEMMA UnixMovesStep ==
    ASSUME IoInv, NEW d \in Directions, NEW how \in Answers(d), ~Windows,
           stage[d] = "waiting", Move(d, how), End(d, how),
           UNCHANGED <<starts, unixVars, kern, port>>,
           UNCHANGED <<handleVars, closed, peerVars>>
    PROVE  IoInv'
<1> USE DEF IoInv, Places, Packets, Truth
<1>1. TypeOK'
    BY ConstantsAssumption, ReadyIs, AnswerIs DEF Move, EndWith, End,
           free_io_result, Releases, TypeOK, Stages, handleVars, peerVars,
           unixVars
<1>2. HasResult'
    BY DEF EndWith, End, free_io_result, HasResult, Windows, handleVars
<1>3. OwnResult'
    BY DEF EndWith, End, free_io_result, OwnResult
<1>4. OffWindows'
    BY DEF EndWith, End, free_io_result, OffWindows, TypeOK, unixVars
<1>5. Supplied'
    BY DEF Move, Supplied, TypeOK, peerVars
<1>6. PacketsLive'
    BY DEF PacketsLive, OffWindows
<1>7. WokenByPacket'
    BY DEF EndWith, End, free_io_result, WokenByPacket, TypeOK, HasResult
<1>8. AnsweredNotPending'
    BY DEF EndWith, End, free_io_result, AnsweredNotPending, HasResult
<1>9. KernelTruth'
    BY DEF EndWith, End, free_io_result, KernelTruth, HasResult
<1>10. PausedTruth'
    BY DEF Move, EndWith, End, PausedTruth, TypeOK, peerVars
<1>11. WokenReady'
  <2>1. \A x \in Directions \ {d} : Ready(x)' <=> Ready(x)
    BY ReadyStays DEF Move, handleVars, peerVars, TypeOK
  <2> QED BY <2>1 DEF WokenReady, End, EndWith, TypeOK, Windows, handleVars, peerVars
<1>12. NoLostWakeup'
  <2>1. \A x \in Directions \ {d} : Ready(x)' <=> Ready(x)
    BY ReadyStays DEF Move, handleVars, peerVars, TypeOK
  <2> QED BY <2>1 DEF NoLostWakeup, End, EndWith, TypeOK, Windows, handleVars, unixVars
<1>13. KernelBufferAlive'
  <2>1. result[d] = NoResult
    BY DEF HasResult
  <2> QED BY <2>1, FreeKeepsBuffers DEF End, EndWith, handleVars
<1>14. AnswersAreTrue'
  <2>1. /\ moved'[d] = (how = "data")
        /\ \A x \in Directions \ {d} : moved'[x] = moved[x]
    BY DEF Move, TypeOK
  <2> QED BY <2>1, AnswerIs, EndKeepsTruth DEF End, handleVars, peerVars
<1> QED BY <1>1, <1>2, <1>3, <1>4, <1>5, <1>6, <1>7, <1>8, <1>9, <1>10, <1>11,
       <1>12, <1>13, <1>14

\* An operation on Unix ends without a second call that answers.
LEMMA UnixEndsStep ==
    ASSUME IoInv, NEW d \in Directions, NEW how, ~Windows,
           stage[d] = "waiting", d \in woken, how \in {"cancelled", "error"},
           how = "error" => d \notin cancelled /\ (closed \/ ~Ready(d)),
           End(d, how), UNCHANGED <<avail, moved, starts, unixVars, kern, port>>,
           UNCHANGED <<handleVars, closed, peerVars>>
    PROVE  IoInv'
<1> USE DEF IoInv, Places, Packets, Truth
<1>1. TypeOK'
    BY DEF EndWith, End, free_io_result, TypeOK, Stages, handleVars, peerVars,
           unixVars
<1>2. HasResult'
    BY DEF EndWith, End, free_io_result, HasResult, Windows, handleVars
<1>3. OwnResult'
    BY DEF EndWith, End, free_io_result, OwnResult
<1>4. OffWindows'
    BY DEF EndWith, End, free_io_result, OffWindows, TypeOK, unixVars
<1>5. Supplied'
    BY DEF Supplied, peerVars
<1>6. PacketsLive'
    BY DEF PacketsLive, OffWindows
<1>7. WokenByPacket'
    BY DEF EndWith, End, free_io_result, WokenByPacket, TypeOK, HasResult
<1>8. AnsweredNotPending'
    BY DEF EndWith, End, free_io_result, AnsweredNotPending, HasResult
<1>9. KernelTruth'
    BY DEF EndWith, End, free_io_result, KernelTruth, HasResult
<1>10. PausedTruth'
    BY DEF EndWith, End, PausedTruth, peerVars
<1>11. WokenReady'
    BY ReadyStays DEF EndWith, End, WokenReady, TypeOK, handleVars, peerVars
<1>12. NoLostWakeup'
    BY ReadyStays DEF EndWith, End, NoLostWakeup, TypeOK, Windows, handleVars,
           peerVars, unixVars
<1>13. KernelBufferAlive'
  <2>1. result[d] = NoResult
    BY DEF HasResult
  <2> QED BY <2>1, FreeKeepsBuffers DEF End, EndWith, handleVars
<1>14. AnswersAreTrue'
    BY DEF EndWith, End, free_io_result, AnswersAreTrue, TypeOK, PausedTruth,
           WokenReady, handleVars, peerVars
<1> QED BY <1>1, <1>2, <1>3, <1>4, <1>5, <1>6, <1>7, <1>8, <1>9, <1>10, <1>11,
       <1>12, <1>13, <1>14

\* A task that was woken by its packet asks for the status and frees the IoResult.
LEMMA FinishWindowsStep ==
    ASSUME IoInv, NEW d \in Directions, FinishWindows(d)
    PROVE  IoInv'
<1> USE DEF IoInv, Places, Packets, Truth
<1>1. TypeOK'
  <2>1. PICK how \in {"data", "zero", "error", "cancelled", "cancel_failed"} : End(d, how)
    BY DEF FinishWindows, get_status
  <2> QED BY <2>1 DEF FinishWindows, End, EndWith, free_io_result, Stages, TypeOK, handleVars,
           peerVars, unixVars
<1>2. HasResult'
    BY DEF FinishWindows, EndWith, End, free_io_result, HasResult, TypeOK,
           Windows, Directions, handleVars
<1>3. OwnResult'
    BY ConstantsAssumption DEF FinishWindows, get_status, EndWith, End,
           free_io_result, OwnResult, TypeOK, AnsweredNotPending, KernelTruth
<1>4. OffWindows'
    BY DEF FinishWindows, OffWindows, Windows, handleVars
<1>5. Supplied'
    BY DEF FinishWindows, Supplied, peerVars
<1>6. PacketsLive'
  BY FreeKeepsPackets DEF FinishWindows, End, EndWith
<1>7. WokenByPacket'
    BY DEF FinishWindows, EndWith, End, free_io_result, WokenByPacket, TypeOK,
           InOverlapped
<1>8. AnsweredNotPending'
    BY DEF FinishWindows, EndWith, End, free_io_result, AnsweredNotPending,
           TypeOK, Pausing
<1>9. KernelTruth'
    BY DEF FinishWindows, EndWith, End, free_io_result, KernelTruth, TypeOK,
           Pausing, Directions, peerVars
<1>10. PausedTruth'
    BY DEF FinishWindows, EndWith, End, PausedTruth, TypeOK, Windows,
           handleVars, peerVars
<1>11. WokenReady'
    BY DEF FinishWindows, WokenReady, Windows, handleVars
<1>12. NoLostWakeup'
    BY DEF FinishWindows, get_status, EndWith, End, free_io_result,
           NoLostWakeup, TypeOK, Windows, handleVars
<1>13. KernelBufferAlive'
  <2>1. late \/ kern[result[d]] # "pending"
    BY DEF FinishWindows, WokenByPacket, HasResult, InOverlapped
  <2>2. late => late'
    BY DEF FinishWindows, End, EndWith, free_io_result
  <2> QED BY <2>1, <2>2, FreeKeepsBuffers DEF FinishWindows, End, EndWith, handleVars
<1>14. AnswersAreTrue'
    BY DEF FinishWindows, get_status, EndWith, End, free_io_result,
           AnswersAreTrue, TypeOK, HasResult, OwnResult, WokenByPacket,
           AnsweredNotPending, KernelTruth, InOverlapped, handleVars, peerVars
<1> QED BY <1>1, <1>2, <1>3, <1>4, <1>5, <1>6, <1>7, <1>8, <1>9, <1>10, <1>11,
       <1>12, <1>13, <1>14

\* A cancelled task waits for the packet of its operation.
LEMMA GoesOnStep ==
    ASSUME IoInv, NEW d \in Directions,
           NEW where \in {"draining", "rethrowing"}, Windows,
           stage[d] = "waiting", d \in woken \cap cancelled, Enter(d, where),
           where = "draining" => kern[result[d]] = "pending" /\ ~closed,
           UNCHANGED <<avail, moved, starts, unixVars, result, kept, kern, port>>,
           UNCHANGED <<handleVars, closed, peerVars>>
    PROVE  IoInv'
<1> USE DEF IoInv, Places, Packets, Truth
<1>1. TypeOK'
    BY DEF Enter, TypeOK, Stages, handleVars, peerVars, unixVars
<1>2. HasResult'
    BY DEF Enter, HasResult, Windows, handleVars
<1>3. OwnResult'
    BY DEF OwnResult
<1>4. OffWindows'
    BY DEF OffWindows, Windows, handleVars
<1>5. Supplied'
    BY DEF Supplied, peerVars
<1>6. PacketsLive'
    BY DEF Enter, PacketsLive, Live, InCall
<1>7. WokenByPacket'
    BY DEF Enter, WokenByPacket, InOverlapped
<1>8. AnsweredNotPending'
    BY DEF Enter, AnsweredNotPending, Pausing
<1>9. KernelTruth'
    BY DEF Enter, KernelTruth, Pausing, peerVars
<1>10. PausedTruth'
    BY DEF Enter, PausedTruth, Windows, handleVars, peerVars
<1>11. WokenReady'
    BY DEF WokenReady, Windows, handleVars
<1>12. NoLostWakeup'
    BY DEF Enter, NoLostWakeup, TypeOK, Windows, handleVars
<1>13. KernelBufferAlive'
    BY KindStays DEF Enter, KernelBufferAlive, Live, InCall, handleVars
<1>14. AnswersAreTrue'
    BY DEF Enter, AnswersAreTrue, handleVars, peerVars
<1> QED BY <1>1, <1>2, <1>3, <1>4, <1>5, <1>6, <1>7, <1>8, <1>9, <1>10, <1>11,
       <1>12, <1>13, <1>14

\* The operation ended just before CancelIoEx: the IoResult is freed with its packet
\* queued, and late is set.
LEMMA OverByNowStep ==
    ASSUME IoInv, NEW d \in Directions, NEW how, Windows, stage[d] = "waiting",
           d \in woken \cap cancelled, ~closed, Complete(result[d], how),
           EndWith(d, "cancelled", Append(port, result[d])),
           UNCHANGED <<starts, unixVars>>,
           (how = "aborted" /\ UNCHANGED <<avail, moved>>) \/ (how \in Answers(d) /\ Move(d, how)),
           UNCHANGED <<handleVars, closed, peerVars>>
    PROVE  IoInv'
<1> USE DEF IoInv, Places, Packets, Truth
<1>1. TypeOK'
  <2>1. result[d] \in Addresses
    BY DEF HasResult, TypeOK
  <2>2. avail' \in [Directions -> 0..MaxUnits] /\ moved' \in [Directions -> BOOLEAN]
    BY MoveType DEF TypeOK
  <2>3. /\ kern' \in [Addresses -> {"none", "pending", "data", "zero", "error", "aborted"}]
        /\ port' \in Seq(Addresses)
    BY <2>1, AnswerIs, AppendFacts DEF Complete, TypeOK
  <2> QED BY <2>2, <2>3 DEF EndWith, free_io_result, Stages, TypeOK, handleVars, peerVars,
           unixVars
<1>2. HasResult'
    BY DEF EndWith, free_io_result, HasResult, TypeOK, Windows, handleVars
<1>3. OwnResult'
    BY DEF EndWith, free_io_result, OwnResult
<1>4. OffWindows'
    BY DEF OffWindows, Windows, handleVars
<1>5. Supplied'
    BY DEF Complete, Move, EndWith, free_io_result, Supplied, TypeOK,
           AnsweredNotPending, KernelTruth, Stages, peerVars
<1>6. PacketsLive'
    BY AppendFacts DEF EndWith, free_io_result, PacketsLive, TypeOK, HasResult,
           Directions
<1>7. WokenByPacket'
    BY DEF Complete, EndWith, free_io_result, WokenByPacket, TypeOK,
           InOverlapped
<1>8. AnsweredNotPending'
    BY DEF Complete, EndWith, free_io_result, AnsweredNotPending, TypeOK,
           OwnResult, Pausing
<1>9. KernelTruth'
    BY DEF Complete, Move, EndWith, free_io_result, KernelTruth, TypeOK,
           OwnResult, Pausing, peerVars
<1>10. PausedTruth'
    BY DEF Move, EndWith, PausedTruth, TypeOK, Windows, handleVars, peerVars
<1>11. WokenReady'
    BY DEF WokenReady, Windows, handleVars
<1>12. NoLostWakeup'
    BY AppendFacts DEF Complete, EndWith, free_io_result, NoLostWakeup, TypeOK,
           HasResult, Windows, handleVars
<1>13. KernelBufferAlive'
    BY AppendFacts DEF EndWith, free_io_result, KernelBufferAlive, TypeOK,
           HasResult, OwnResult, KernelTruth
<1>14. AnswersAreTrue'
    BY DEF Move, EndWith, free_io_result, AnswersAreTrue, TypeOK, handleVars,
           peerVars
<1> QED BY <1>1, <1>2, <1>3, <1>4, <1>5, <1>6, <1>7, <1>8, <1>9, <1>10, <1>11,
       <1>12, <1>13, <1>14

\* The operation ended before the cancellation.
LEMMA NotFoundStep ==
    ASSUME IoInv, NEW d \in Directions, Windows, stage[d] = "waiting",
           d \in woken \cap cancelled, ~closed, kern[result[d]] # "pending",
           End(d, "cancelled"),
           UNCHANGED <<avail, moved, starts, unixVars, kern, port>>,
           UNCHANGED <<handleVars, closed, peerVars>>
    PROVE  IoInv'
<1> USE DEF IoInv, Places, Packets, Truth
<1>1. TypeOK'
    BY DEF EndWith, End, free_io_result, TypeOK, Stages, handleVars, peerVars,
           unixVars
<1>2. HasResult'
    BY DEF EndWith, End, free_io_result, HasResult, TypeOK, Windows, handleVars
<1>3. OwnResult'
    BY DEF EndWith, End, free_io_result, OwnResult
<1>4. OffWindows'
    BY DEF OffWindows, Windows, handleVars
<1>5. Supplied'
    BY DEF Supplied, peerVars
<1>6. PacketsLive'
  BY FreeKeepsPackets DEF End, EndWith
<1>7. WokenByPacket'
    BY DEF EndWith, End, free_io_result, WokenByPacket, TypeOK, InOverlapped
<1>8. AnsweredNotPending'
    BY DEF EndWith, End, free_io_result, AnsweredNotPending, Pausing
<1>9. KernelTruth'
    BY DEF EndWith, End, free_io_result, KernelTruth, Pausing, peerVars
<1>10. PausedTruth'
    BY DEF EndWith, End, PausedTruth, Windows, handleVars, peerVars
<1>11. WokenReady'
    BY DEF WokenReady, Windows, handleVars
<1>12. NoLostWakeup'
    BY DEF EndWith, End, free_io_result, NoLostWakeup, TypeOK, Windows,
           handleVars
<1>13. KernelBufferAlive'
  BY FreeKeepsBuffers DEF End, EndWith, handleVars
<1>14. AnswersAreTrue'
    BY DEF EndWith, End, free_io_result, AnswersAreTrue, TypeOK, handleVars,
           peerVars
<1> QED BY <1>1, <1>2, <1>3, <1>4, <1>5, <1>6, <1>7, <1>8, <1>9, <1>10, <1>11,
       <1>12, <1>13, <1>14

\* A cancellation wakes the task, and registers nothing.
LEMMA CancelStep ==
    ASSUME IoInv, NEW d \in Directions, Cancel(d)
    PROVE  IoInv'
<1> USE DEF IoInv, Places, Packets, Truth
<1>1. TypeOK'
    BY DEF Cancel, TypeOK, handleVars, peerVars, unixVars, winVars
<1>2. HasResult'
    BY DEF Cancel, HasResult, Windows, handleVars, winVars
<1>3. OwnResult'
    BY DEF Cancel, OwnResult, winVars
<1>4. OffWindows'
    BY DEF Cancel, OffWindows, Windows, handleVars, unixVars, winVars
<1>5. Supplied'
    BY DEF Cancel, Supplied, peerVars
<1>6. PacketsLive'
    BY DEF Cancel, PacketsLive, Live, InCall, winVars
<1>7. WokenByPacket'
    BY DEF Cancel, WokenByPacket, InOverlapped, winVars
<1>8. AnsweredNotPending'
    BY DEF Cancel, AnsweredNotPending, Pausing, winVars
<1>9. KernelTruth'
    BY DEF Cancel, KernelTruth, Pausing, peerVars, winVars
<1>10. PausedTruth'
    BY DEF Cancel, PausedTruth, Windows, handleVars, peerVars
<1>11. WokenReady'
  <2>1. \A x \in Directions : Ready(x)' <=> Ready(x)
    BY ReadyStays DEF Cancel, peerVars
  <2> QED BY <2>1 DEF Cancel, WokenReady, TypeOK, Windows, handleVars, peerVars
<1>12. NoLostWakeup'
  <2>1. \A x \in Directions : Ready(x)' <=> Ready(x)
    BY ReadyStays DEF Cancel, peerVars
  <2> QED BY <2>1 DEF Cancel, NoLostWakeup, TypeOK, Windows, handleVars, unixVars, winVars
<1>13. KernelBufferAlive'
    BY KindStays DEF Cancel, KernelBufferAlive, Live, InCall, handleVars,
           winVars
<1>14. AnswersAreTrue'
    BY DEF Cancel, AnswersAreTrue, handleVars, peerVars, winVars
<1> QED BY <1>1, <1>2, <1>3, <1>4, <1>5, <1>6, <1>7, <1>8, <1>9, <1>10, <1>11,
       <1>12, <1>13, <1>14

\* The peer supplies a unit: the direction is notified if it is registered.
LEMMA SupplyStep ==
    ASSUME IoInv, NEW d \in Directions, Supply(d)
    PROVE  IoInv'
<1> USE DEF IoInv, Places, Packets, Truth
<1>1. TypeOK'
    BY ConstantsAssumption DEF Supply, Raise, Notify, TypeOK, Supplied,
           handleVars, callVars, winVars
<1>2. HasResult'
    BY DEF Supply, HasResult, Windows, handleVars, callVars, winVars
<1>3. OwnResult'
    BY DEF Supply, OwnResult, winVars
<1>4. OffWindows'
    BY DEF Supply, OffWindows, Windows, handleVars, callVars, winVars
<1>5. Supplied'
    BY DEF Supply, Supplied, TypeOK
<1>6. PacketsLive'
    BY DEF Supply, PacketsLive, Live, InCall, winVars
<1>7. WokenByPacket'
    BY DEF Supply, WokenByPacket, InOverlapped, callVars, winVars
<1>8. AnsweredNotPending'
    BY DEF Supply, AnsweredNotPending, Pausing, callVars, winVars
<1>9. KernelTruth'
    BY DEF Supply, KernelTruth, Pausing, callVars, winVars
<1>10. PausedTruth'
    BY DEF Supply, PausedTruth, Windows, handleVars, callVars
<1>11. WokenReady'
    BY DEF Supply, Answers, WokenReady, TypeOK, Windows, Ready, handleVars,
           callVars
<1>12. NoLostWakeup'
    BY DEF Supply, Raise, Notify, Answers, NoLostWakeup, OffWindows, Windows,
           Ready, handleVars, callVars, winVars
<1>13. KernelBufferAlive'
    BY KindStays DEF Supply, KernelBufferAlive, Live, InCall, handleVars,
           winVars
<1>14. AnswersAreTrue'
    BY DEF Supply, AnswersAreTrue, handleVars, callVars, winVars
<1> QED BY <1>1, <1>2, <1>3, <1>4, <1>5, <1>6, <1>7, <1>8, <1>9, <1>10, <1>11,
       <1>12, <1>13, <1>14

-----------------------------------------------------------------------------
\* The first call of an operation is one of the cases above.
LEMMA StartStep ==
    ASSUME IoInv, NEW d \in Directions, Start(d)
    PROVE  IoInv'
<1> DEFINE Counted == /\ ~closed /\ stage[d] = "idle" /\ starts < MaxStarts
                      /\ starts' = starts + 1 /\ UNCHANGED <<handleVars, closed, peerVars>>
<1>1. Counted /\ (StartUnix(d) \/ StartWindows(d))
  BY DEF Start
<1>2. ASSUME StartUnix(d) PROVE IoInv'
  <2>1. /\ ~Windows /\ poll_register(d) /\ UNCHANGED <<kern, port>>
        /\ \/ \E how \in Answers(d) :
                 /\ Move(d, how)
                 /\ \/ ReturnsAtOnce(how) /\ End(d, how)
                    \/ /\ how # "error" /\ Enter(d, PauseStage(how))
                       /\ UNCHANGED <<result, kept>>
           \/ /\ ~Ready(d) /\ Enter(d, "waiting") /\ Move(d, "again")
              /\ UNCHANGED <<result, kept>>
    BY <1>2 DEF StartUnix, PauseStage, ReturnsAtOnce
  <2>2. CASE ~Ready(d) /\ Enter(d, "waiting") /\ Move(d, "again") /\ UNCHANGED <<result, kept>>
    BY <1>1, <2>1, <2>2, UnixWaitsStep
  <2>3. ASSUME NEW how \in Answers(d), Move(d, how), ReturnsAtOnce(how), End(d, how)
        PROVE  IoInv'
    BY <1>1, <2>1, <2>3, UnixReturnsStep
  <2>4. ASSUME NEW how \in Answers(d), Move(d, how), how # "error",
               Enter(d, PauseStage(how)), UNCHANGED <<result, kept>>
        PROVE  IoInv'
    BY <1>1, <2>1, <2>4, UnixPausesStep
  <2> QED BY <2>1, <2>2, <2>3, <2>4
<1>3. ASSUME StartWindows(d) PROVE IoInv'
  <2>1. PICK a \in Addresses :
          /\ Windows /\ ~Live(a) /\ kern[a] # "pending" /\ UNCHANGED <<unixVars, port>>
          /\ IoPending(d, a) \/ AnsweredAtOnce(d, a)
    BY <1>3 DEF StartWindows, read, write, connect, accept, read_dir_changes
  <2>2. CASE IoPending(d, a)
    BY <1>1, <2>1, <2>2, PendsStep
  <2>3. CASE AnsweredAtOnce(d, a)
    <3>1. PICK how \in Answers(d) :
            /\ kern' = [kern EXCEPT ![a] = "none"] /\ Move(d, how)
            /\ \/ End(d, how)
               \/ how # "error" /\ Enter(d, PauseStage(how)) /\ make_io_result(d, a)
      BY <2>3 DEF AnsweredAtOnce, PauseStage, ReturnsAtOnce
    <3>2. CASE End(d, how)
      BY <1>1, <2>1, <3>1, <3>2, ReturnsStep
    <3>3. CASE how # "error" /\ Enter(d, PauseStage(how)) /\ make_io_result(d, a)
      BY <1>1, <2>1, <3>1, <3>3, PausesStep
    <3> QED BY <3>1, <3>2, <3>3
  <2> QED BY <2>1, <2>2, <2>3
<1> QED BY <1>1, <1>2, <1>3

\* The second call cannot find its direction blocked, but for EPOLLRDHUP.
LEMMA FinishUnixStep ==
    ASSUME IoInv, NEW d \in Directions, FinishUnix(d)
    PROVE  IoInv'
<1>1. /\ ~Windows /\ stage[d] = "waiting" /\ d \in woken
      /\ UNCHANGED <<handleVars, closed, peerVars>> /\ UNCHANGED <<starts, unixVars, kern, port>>
  BY DEF FinishUnix
<1>2. CASE d \in cancelled /\ End(d, "cancelled") /\ UNCHANGED <<avail, moved>>
  BY <1>1, <1>2, UnixEndsStep
<1>3. CASE d \notin cancelled /\ closed /\ End(d, "error") /\ UNCHANGED <<avail, moved>>
  BY <1>1, <1>3, UnixEndsStep
<1>4. ASSUME NEW how \in Answers(d), Move(d, how), End(d, how) PROVE IoInv'
  BY <1>1, <1>4, UnixMovesStep
<1>5. CASE /\ d \notin cancelled /\ ~closed /\ ~Ready(d)
           /\ End(d, IF use = "connecting" THEN "data" ELSE "error")
           /\ UNCHANGED <<avail, moved>>
  <2>1. use = "stream"
    BY <1>1, <1>5 DEF IoInv, Truth, WokenReady
  <2> QED BY <1>1, <1>5, <2>1, UnixEndsStep
<1> QED BY <1>2, <1>3, <1>4, <1>5 DEF FinishUnix

\* Whatever CancelIoEx and wait_for_job make of a cancellation.
LEMMA CancelIoStep ==
    ASSUME IoInv, NEW d \in Directions, CancelIo(d)
    PROVE  IoInv'
<1>1. /\ Windows /\ stage[d] = "waiting" /\ d \in woken \cap cancelled
      /\ UNCHANGED <<handleVars, closed, peerVars>> /\ UNCHANGED <<starts, unixVars>>
  BY DEF CancelIo
<1>2. CASE Enter(d, "rethrowing") /\ UNCHANGED <<avail, moved, result, kept, kern, port>>
  BY <1>1, <1>2, GoesOnStep
<1>3. CASE /\ ~closed /\ kern[result[d]] = "pending" /\ Enter(d, "draining")
           /\ UNCHANGED <<avail, moved, result, kept, kern, port>>
  BY <1>1, <1>3, GoesOnStep
<1>4. ASSUME ~closed, EndWith(d, "cancelled", Append(port, result[d])),
             NEW how, Complete(result[d], how),
             (how = "aborted" /\ UNCHANGED <<avail, moved>>) \/ (how \in Answers(d) /\ Move(d, how))
      PROVE  IoInv'
  BY <1>1, <1>4, OverByNowStep
<1>5. CASE /\ ~closed /\ kern[result[d]] # "pending" /\ End(d, "cancelled")
           /\ UNCHANGED <<avail, moved, kern, port>>
  BY <1>1, <1>5, NotFoundStep
<1> QED BY <1>2, <1>3, <1>4, <1>5 DEF CancelIo

\* A fresh handle.
LEMMA InitInv == Init => IoInv
<1> SUFFICES ASSUME Init PROVE IoInv
  OBVIOUS
<1>1. TypeOK
  <2>1. 0 \in 0..MaxStarts /\ 0 \in 0..MaxUnits /\ <<>> \in Seq(Addresses)
    BY ConstantsAssumption, EmptySeq
  <2> QED BY <2>1 DEF Init, TypeOK, Stages
<1>2. \A a \in Addresses : ~Live(a)
  BY ConstantsAssumption DEF Init, Live, InCall
<1>3. Places
  BY DEF Init, Places, HasResult, OwnResult, OffWindows, Supplied
<1>4. Packets /\ KernelBufferAlive
  BY <1>2 DEF Init, Packets, PacketsLive, WokenByPacket, AnsweredNotPending, KernelBufferAlive
<1>5. Truth
  BY DEF Init, Truth, KernelTruth, PausedTruth, WokenReady
<1>6. NoLostWakeup /\ AnswersAreTrue
  BY DEF Init, NoLostWakeup, AnswersAreTrue
<1> QED BY <1>1, <1>2, <1>3, <1>4, <1>5, <1>6 DEF IoInv

\* What the invariant says depends on the variables alone.
LEMMA UnchangedStep ==
    ASSUME IoInv, UNCHANGED vars
    PROVE  IoInv'
<1> USE DEF vars
<1>1. TypeOK'
  BY DEF IoInv, TypeOK
<1>2. Places'
  BY DEF IoInv, Places, HasResult, OwnResult, OffWindows, Supplied, Windows
<1>3. Packets' /\ KernelBufferAlive'
  BY KindStays DEF IoInv, Packets, PacketsLive, WokenByPacket, AnsweredNotPending, InOverlapped,
     Pausing, KernelBufferAlive, Live, InCall
<1>4. \A x \in Directions : Ready(x)' <=> Ready(x)
  BY ReadyStays
<1>5. Truth'
  BY <1>4 DEF IoInv, TypeOK, Truth, KernelTruth, PausedTruth, WokenReady, Windows, Pausing
<1>6. NoLostWakeup'
  BY <1>4 DEF IoInv, NoLostWakeup, Windows
<1>7. AnswersAreTrue'
  BY DEF IoInv, AnswersAreTrue
<1> QED BY <1>1, <1>2, <1>3, <1>5, <1>6, <1>7 DEF IoInv

\* Every step keeps the invariant.
LEMMA NextInv == IoInv /\ [Next]_vars => IoInv'
<1> SUFFICES ASSUME IoInv, [Next]_vars PROVE IoInv'
  OBVIOUS
<1>1. CASE Poll
  BY <1>1, PollWindowsStep, PollUnixStep DEF Poll
<1>2. CASE KernelStep
  BY <1>2, KernelCompletesStep, KernelAbortsStep DEF KernelStep
<1>3. CASE Close \/ PeerEnds \/ PeerResets
  BY <1>3, CloseStep, PeerEndsStep, PeerResetsStep
<1>4. ASSUME NEW d \in Directions, Start(d) \/ Cancel(d) \/ Supply(d) PROVE IoInv'
  BY <1>4, StartStep, CancelStep, SupplyStep
<1>5. ASSUME NEW d \in Directions, TaskResumes(d) PROVE IoInv'
  BY <1>5, FinishPauseStep, FinishUnixStep, FinishWindowsStep, CancelIoStep DEF TaskResumes
<1>6. CASE UNCHANGED vars
  BY <1>6, UnchangedStep DEF vars
<1> QED BY <1>1, <1>2, <1>3, <1>4, <1>5, <1>6 DEF Next

\* The inductive invariant holds of every state the loop, the kernel, the peer and
\* the tasks reach.
THEOREM IoInvariance == Spec => []IoInv
<1>1. IoInv /\ [Next]_vars => IoInv'
  BY NextInv
<1> QED BY InitInv, <1>1, PTL DEF Spec

\* Every variable keeps its type: a call moves a unit only where there is one, the
\* poller and the tasks know the two directions alone, and a packet is the address
\* of an IoResult.
THEOREM TypeCorrect == Spec => []TypeOK
<1>1. IoInv => TypeOK
  BY DEF IoInv
<1> QED BY IoInvariance, <1>1, PTL

\* A task that waits for a direction that is ready finds a notification with the
\* poller, and one that waits for an overlapped operation finds it pending or its
\* packet queued, on each poller.
THEOREM NoLostWakeupHolds == Spec => []NoLostWakeup
<1>1. IoInv => NoLostWakeup
  BY DEF IoInv
<1> QED BY IoInvariance, <1>1, PTL

\* Until an IoResult is freed with its packet still queued, what the kernel may
\* write to is alive and retained, and nothing else is.
THEOREM KernelBufferAliveHolds == Spec => []KernelBufferAlive
<1>1. IoInv => KernelBufferAlive
  BY DEF IoInv
<1> QED BY IoInvariance, <1>1, PTL

\* An operation tells its caller what the kernel did for it.
THEOREM AnswersAreTrueHolds == Spec => []AnswersAreTrue
<1>1. IoInv => AnswersAreTrue
  BY DEF IoInv
<1> QED BY IoInvariance, <1>1, PTL

-----------------------------------------------------------------------------
(* The TLS connection.                                                     *)

(* The stages of setting a connection up and of taking it down.            *)
Setups == {"new", "pfx", "unread", "import", "find", "init", "roots", "root_store", "root_add",
           "ssl", "ssl_roots", "ssl_add", "options", "handshake", "verify", "engine", "chain",
           "policy", "open", "asking", "failed", "closed", "aborted"}

(* What is held for a few calls only.                                      *)
Temporaries == {"cert", "cert_store", "chain", "peer"}

(* What a stage acquires for itself only: a certificate and its store,     *)
(* the chain that is built from the certificate, the certificate of the    *)
(* peer.                                                                   *)
Temporary ==
    /\ "cert" \in held <=>
         \/ setup \in {"root_store", "root_add", "engine", "chain", "policy", "ssl_add"}
         \/ setup = "init" /\ ~Client
    /\ "cert_store" \in held <=> setup = "find" \/ (setup = "init" /\ ~Client)
    /\ "chain" \in held <=> setup = "policy"
    /\ "peer" \in held <=> setup = "asking"

(* The stages before there are credentials.                                *)
Early == {"new", "pfx", "unread", "import", "find", "init"}

(* The connection was given up or closed; or the program ended.            *)
Done == {"failed", "closed"}
Gone == Done \cup {"aborted"}

(* A connection that has not begun, failed or was closed owns nothing;     *)
(* only a server reads a key.                                              *)
Owning ==
    /\ setup \in Setups
    /\ Temporary
    /\ setup \in Done \cup {"new"} => held = {}
    /\ setup \in {"pfx", "unread", "import", "find"} => ~Client

(* What a connection on Schannel can own, and from which stage on there    *)
(* are credentials.                                                        *)
SchannelOwns ==
    Schannel =>
       /\ held \subseteq Temporaries \cup {"context", "engine", "root_store", "credential",
                                          "security"}
       /\ state \in {"Uninitialized", "HandleInitialized", "ContextInitialized"}
       /\ setup \notin Done \cup {"new"} => "context" \in held
       /\ setup \in Early => state = "Uninitialized"
       /\ setup \notin Early \cup Done => state # "Uninitialized"
       /\ setup \notin {"ssl", "ssl_roots", "ssl_add", "options"}

(* What a connection on OpenSSL can own, and its stages.                   *)
OpensslOwns ==
    ~Schannel =>
       /\ held \subseteq Temporaries \cup {"ssl", "bios", "ssl_ctx"}
       /\ setup \in {"new", "ssl", "ssl_roots", "ssl_add", "options", "handshake", "open",
                     "asking"} \cup Done

(* The invariant of what is held.                                          *)
HeldInv == Owning /\ SchannelOwns /\ OpensslOwns /\ NothingHeld

(* The task waits within the write of a flush.                             *)
Sending(t) == pc[t] = "sending"

(* The places of the reader and of the writer.                             *)
Common == {"start", "flush", "queued", "sending", "read_more", "read_queued", "receiving",
           "call_shutdown", "goodbye", "fill_goodbye", "end", "raised"}
ReaderSteps == Common \cup {"handshake", "fill_handshake", "fill_read", "connected", "call_read"}
WriterSteps == Common \cup {"call_write", "fill_write"}
AllSteps == ReaderSteps \cup WriterSteps
StepsOf(t) == IF t = "reader" THEN ReaderSteps ELSE WriterSteps

(* Types of what the write side consists of.                               *)
WriteTypes ==
    /\ turn \in Tasks /\ wlock \in Tasks \cup {Nobody}
    /\ pc \in [Tasks -> AllSteps]
    /\ upto \in [Tasks -> Nat] /\ at \in [Tasks -> Nat]
    /\ made \in Nat /\ wbuf \in Seq(Nat) /\ wire \in Seq(Nat)

(* What can follow a flush or a read.                                      *)
ReaderThens == {"none", "handshake", "fill_handshake", "fill_read", "connected", "call_read",
                "goodbye", "fill_goodbye", "end"}
WriterThens == {"none", "call_write", "fill_write", "goodbye", "fill_goodbye", "end"}
Thens == ReaderThens \cup WriterThens
ThensOf(t) == IF t = "reader" THEN ReaderThens ELSE WriterThens

(* The places a task goes on from to what follows.                         *)
Asking == {"flush", "queued", "sending", "read_more", "read_queued", "receiving"}

(* Types of the rest. A task that flushes or reads knows what follows;     *)
(* only the writer writes, only the reader reads.                          *)
ReadTypes ==
    /\ backend \in {"schannel", "openssl"} /\ role \in {"client", "server"}
    /\ tstate \in {"Normal", "Closed", "Error"}
    /\ then \in [Tasks -> Thens]
    /\ \A t \in Tasks :
         /\ pc[t] \in StepsOf(t) /\ then[t] \in ThensOf(t)
         /\ pc[t] \in Asking => then[t] # "none"
    /\ inbound \in Seq(Units) /\ rbuf \in Seq(Units) /\ inside \in Seq(Units)
    /\ remaining \in Nat /\ trailer \in {0, 1}

(* A task that does not wait has the turn; until the connection is open    *)
(* it is the reader.                                                       *)
Turns ==
    /\ \A t \in Tasks : pc[t] \in Waits \/ turn = t
    /\ setup \notin {"open", "asking"} \cup Gone => turn = "reader" /\ pc["writer"] = "start"
    /\ setup \notin {"open", "asking", "handshake"} \cup Gone =>
         pc["reader"] \in {"start", "call_read"}

(* A task that sends has the lock, and sends no further than the buffer    *)
(* goes. The lock is passed to a task that queues for it.                  *)
Lock ==
    /\ \A t \in Tasks : Sending(t) => wlock = t /\ at[t] <= upto[t] /\ upto[t] <= Len(wbuf)
    /\ \A t \in Tasks : wlock = t => pc[t] \in {"sending", "queued"}

(* How much of the buffer the flush that is under way has sent.            *)
SentNow ==
    IF Sending("reader") THEN at["reader"]
    ELSE IF Sending("writer") THEN at["writer"] ELSE 0

(* Nothing was added to the buffer since the flush began.                  *)
Upto == mishap = {} => \A t \in Tasks : Sending(t) => upto[t] = Len(wbuf)

(* The transport is open, or a task does not know yet that it is not.      *)
Lively == tstate = "Normal" \/ \E t \in Tasks : Sending(t)

(* What was sent are the records 1, 2, ...; what is still to be sent from  *)
(* the buffer are the others made.                                         *)
InOrder ==
    mishap = {} =>
      /\ \A i \in DOMAIN wire : wire[i] = i
      /\ Lively =>
           /\ Len(wire) + Len(wbuf) - SentNow = made
           /\ \A i \in DOMAIN wbuf : i > SentNow => wbuf[i] = Len(wire) + i - SentNow

(* A flush is under way or about to begin.                                 *)
Flushing ==
    \/ \E t \in Tasks : Sending(t) \/ (turn = t /\ pc[t] = "flush")
    \/ \A t \in Tasks : pc[t] = "queued"

(* Records are in the buffer of a client on Schannel, which puts           *)
(* handshake records at its start, only while a flush is under way,        *)
(* unless something went wrong.                                            *)
Emptied ==
    (Schannel /\ Client /\ mishap = {} /\ wbuf # <<>> /\ tstate = "Normal") => Flushing

(* Schannel leaves what it received in the buffer.                         *)
Reading == Schannel => inside = <<>>

(* No record is on the wire twice, in the buffer twice, or on the wire     *)
(* and still to be sent. A 0 is what an insertion at the start left over.  *)
Once ==
    /\ \A i \in DOMAIN wire : wire[i] <= made
    /\ \A i \in DOMAIN wbuf : wbuf[i] <= made
    /\ "given_up" \notin mishap =>
         /\ \A i, j \in DOMAIN wire : wire[i] = wire[j] => i = j \/ wire[i] = 0
         /\ \A i, j \in DOMAIN wbuf : wbuf[i] = wbuf[j] => i = j \/ wbuf[i] = 0
         /\ \A i \in DOMAIN wire, j \in DOMAIN wbuf :
              (j > SentNow /\ wire[i] = wbuf[j]) => wire[i] = 0

(* The invariant of the write side.                                        *)
WriteInv == WriteTypes /\ Lock /\ Upto /\ InOrder /\ Emptied /\ Once

(* The invariant of the read side.                                         *)
ReadInv == ReadTypes /\ Turns /\ Reading

(* The places of a flush.                                                  *)
Flush == {"flush", "queued", "sending"}

(* A step of the running task that makes no record, or one that is not     *)
(* counted: it does not touch the write side.                              *)
Quiet(t) ==
  /\ turn = t /\ turn' = t /\ pc[t] \notin Flush
  /\ \E s \in AllSteps \ {"queued", "sending"} : pc' = [pc EXCEPT ![t] = s]
  /\ UNCHANGED <<backend, role, wbuf, wire, upto, at, wlock>>
  /\ tstate' = "Normal" => tstate = "Normal"
  /\ \/ UNCHANGED <<made, mishap>>
     \/ mishap' = mishap \cup {"uncounted"} /\ made' = made + 1

(* A step of the running task that makes a record and goes on to flush     *)
(* it.                                                                     *)
Records(t, into) ==
  /\ turn = t /\ turn' = t /\ pc[t] \notin Flush
  /\ pc' = [pc EXCEPT ![t] = "flush"]
  /\ UNCHANGED <<backend, role, wire, upto, at, wlock, tstate>>
  /\ Make(into)
  /\ into \in {"start", "end"}
  /\ into = "start" => Schannel /\ Client

(* A step of setting up or taking down, or a change of turn.               *)
SetsUp ==
  /\ UNCHANGED <<backend, role, made, wbuf, wire, upto, at, wlock, pc, mishap>>
  /\ turn' \in Tasks
  /\ tstate' = "Normal" => tstate = "Normal"
  /\ turn' = turn \/ pc[turn] # "flush"

(* Nothing is held at first.                                               *)
LEMMA HeldInit == TlsInit => HeldInv
  BY DEF TlsInit, HeldInv, Owning, SchannelOwns, OpensslOwns, NothingHeld, Setups, Temporary,
     Early

(* Making the context, reading the key file and acquiring the              *)
(* credentials; the context is freed when these are refused.               *)
LEMMA NewHeld ==
  HeldInv /\ (schannel_new \/ read_pfx \/ acquire_credentials) => HeldInv'
<1>1. ASSUME HeldInv, schannel_new PROVE HeldInv'
  BY <1>1 DEF schannel_new, HeldInv, Owning, SchannelOwns, OpensslOwns, NothingHeld, Setups,
     Temporary, Early, Done, Schannel, Client, NoTraffic, SetUp, kindVars
<1>2. ASSUME HeldInv, read_pfx PROVE HeldInv'
  BY <1>2 DEF read_pfx, HeldInv, Owning, SchannelOwns, OpensslOwns, NothingHeld, Setups,
     Temporary, Early, Done, Schannel, Client, NoTraffic, SetUp, kindVars
<1>3. ASSUME HeldInv, acquire_credentials PROVE HeldInv'
  BY <1>3 DEF acquire_credentials, schannel_free, HeldInv, Owning, SchannelOwns, OpensslOwns,
     NothingHeld, Setups, Temporaries, Temporary, Early, Done, Schannel, NoTraffic, SetUp,
     kindVars
<1> QED
  BY <1>1, <1>2, <1>3

(* The server's certificate and store are released once the credentials    *)
(* are acquired, or with the failure.                                      *)
LEMMA ServerHeld == HeldInv /\ init_server => HeldInv'
<1> QED
  BY DEF init_server, schannel_free, HeldInv, Owning, SchannelOwns, OpensslOwns, NothingHeld,
     Setups, Temporaries, Temporary, Early, Done, Schannel, Client, NoTraffic, SetUp, kindVars

(* The certificate of a root is released whether or not it was added.      *)
LEMMA RootsHeld == HeldInv /\ add_root_certificate => HeldInv'
<1> QED
  BY DEF add_root_certificate, schannel_free, HeldInv, Owning, SchannelOwns, OpensslOwns,
     NothingHeld, Setups, Temporaries, Temporary, Early, Done, Schannel, NoTraffic, SetUp,
     kindVars

(* Engine, chain and certificate are released on every way out of the      *)
(* verification.                                                           *)
LEMMA VerifyHeld == HeldInv /\ verify_peer_certificate => HeldInv'
<1> QED
  BY DEF verify_peer_certificate, schannel_free, HeldInv, Owning, SchannelOwns, OpensslOwns,
     NothingHeld, Setups, Temporaries, Temporary, Early, Done, Schannel, SetUp, kindVars

(* A root that cannot be added and an option that cannot be set free what  *)
(* was made: certificate, SSL, its BIOs and a context of its own.          *)
LEMMA OpensslHeld == HeldInv /\ (openssl_ctx \/ openssl_ssl) => HeldInv'
<1> QED
  BY DEF openssl_ctx, openssl_ssl, openssl_free, HeldInv, Owning, SchannelOwns, OpensslOwns,
     NothingHeld, Setups, Temporaries, Temporary, Done, Schannel, NoTraffic, SetUp, kindVars

(* Closing and failing release everything; asking for the peer's           *)
(* certificate, that certificate.                                          *)
LEMMA ClosedHeld == HeldInv /\ (HandshakeFailed \/ close \/ peer_certificate) => HeldInv'
<1> QED
  BY DEF HandshakeFailed, close, peer_certificate, Release, schannel_free, openssl_free,
     HeldInv, Owning, SchannelOwns, OpensslOwns, NothingHeld, Setups, Temporaries, Temporary,
     Early, Done, Schannel, NoTraffic, SetUp, kindVars

(* The security context appears with the first message of the handshake,   *)
(* and the state says so.                                                  *)
LEMMA HandshakeHeld ==
  ASSUME NEW t \in Tasks
  PROVE  HeldInv /\ (handshake(t) \/ connected(t)) => HeldInv'
<1>1. ASSUME HeldInv, connected(t) PROVE HeldInv'
  BY <1>1 DEF connected, HeldInv, Owning, SchannelOwns, OpensslOwns, NothingHeld, Setups,
     Temporary, Early, Done, Schannel, Client, kindVars, Here, Started
<1>2. ASSUME HeldInv, handshake(t) PROVE HeldInv'
  <2>1. /\ UNCHANGED <<backend, role, setup>> /\ setup \in {"open", "handshake"}
        /\ \/ UNCHANGED <<held, state>>
           \/ /\ held' = held \cup (IF Schannel THEN {"security"} ELSE {})
              /\ state' = IF state = "HandleInitialized" THEN "ContextInitialized" ELSE state
    BY <1>2 DEF handshake, kindVars, Here, Started
  <2> QED
    BY <1>2, <2>1 DEF HeldInv, Owning, SchannelOwns, OpensslOwns, NothingHeld, Setups, Temporary,
       Early, Done, Schannel, Client
<1> QED
  BY <1>1, <1>2

(* A program that ended has what it had.                                   *)
LEMMA PanicHeld == HeldInv /\ Panic => HeldInv'
<1> QED
  BY DEF Panic, HeldInv, Owning, SchannelOwns, OpensslOwns, NothingHeld, Setups, Temporary, Early,
     Done, Schannel, Client, kindVars, Here, Started

(* Lengths are numbers, and entries of the sequences too.                  *)
LEMMA Shapes ==
  ASSUME WriteTypes
  PROVE  /\ made \in Nat /\ Len(wbuf) \in Nat /\ Len(wire) \in Nat
         /\ DOMAIN wbuf = 1 .. Len(wbuf) /\ DOMAIN wire = 1 .. Len(wire)
         /\ \A i \in 1 .. Len(wbuf) : wbuf[i] \in Nat
         /\ \A i \in 1 .. Len(wire) : wire[i] \in Nat
  BY DEF WriteTypes

(* At most one task sends, as there is one lock.                           *)
LEMMA SentNowIs ==
  ASSUME WriteTypes, Lock
  PROVE  /\ \A t \in Tasks : Sending(t) => SentNow = at[t]
         /\ (\A t \in Tasks : ~Sending(t)) => SentNow = 0
         /\ SentNow \in 0 .. Len(wbuf)
  BY DEF WriteTypes, Lock, SentNow, Tasks

(* Quiet steps keep the invariant of the write side.                       *)
LEMMA QuietWrites ==
  ASSUME WriteInv, NEW t \in Tasks, Quiet(t) PROVE WriteInv'
<1>1. WriteTypes'
  BY DEF WriteTypes, WriteInv, Quiet
<1>2. \A u \in Tasks : pc'[u] = "sending" <=> pc[u] = "sending"
  BY DEF Flush, Quiet
<1>3. Lock'
  BY <1>2 DEF Lock, Sending, Flush, WriteInv, Quiet
<1>4. SentNow' = SentNow
  BY <1>2 DEF SentNow, Sending, Quiet
<1>5. Upto'
  BY <1>2 DEF Upto, Sending, WriteInv, Quiet
<1>6. InOrder'
  BY <1>2, <1>4 DEF InOrder, Lively, Sending, WriteInv, Quiet
<1>7. Once'
  BY <1>4, SentNowIs DEF Once, WriteTypes, WriteInv, Quiet
<1>8. Emptied'
  BY <1>2 DEF Emptied, Flushing, Sending, Flush, Schannel, Client, WriteInv, Quiet
<1> QED
  BY <1>1, <1>3, <1>5, <1>6, <1>7, <1>8 DEF WriteInv

(* So do the steps of setting up.                                          *)
LEMMA SetsUpWrites == ASSUME WriteInv, SetsUp PROVE WriteInv'
<1>1. WriteTypes'
  BY DEF WriteTypes, WriteInv, SetsUp
<1>3. Lock'
  BY DEF Lock, Sending, WriteInv, SetsUp
<1>4. SentNow' = SentNow
  BY DEF SentNow, Sending, SetsUp
<1>5. Upto'
  BY DEF Upto, Sending, WriteInv, SetsUp
<1>6. InOrder'
  BY <1>4 DEF InOrder, Lively, Sending, WriteInv, SetsUp
<1>7. Once'
  BY <1>4 DEF Once, WriteInv, SetsUp
<1>8. Emptied'
  BY DEF Emptied, Flushing, Sending, Schannel, Client, WriteInv, SetsUp
<1> QED
  BY <1>1, <1>3, <1>5, <1>6, <1>7, <1>8 DEF WriteInv

(* A record at the end is appended; one at the start of a buffer that is   *)
(* not empty takes the place of the first.                                 *)
LEMMA MakeIs ==
  ASSUME WriteTypes, NEW into \in {"start", "end"}, Make(into)
  PROVE  /\ wbuf' \in Seq(Nat) /\ Len(wbuf') = Len(wbuf) + 1
         /\ into = "end" \/ wbuf = <<>> =>
              /\ \A i \in DOMAIN wbuf : wbuf'[i] = wbuf[i]
              /\ wbuf'[Len(wbuf) + 1] = made + 1
         /\ into = "start" /\ wbuf # <<>> =>
              /\ \A i \in 2 .. Len(wbuf) : wbuf'[i] = wbuf[i]
              /\ wbuf'[1] = made + 1 /\ wbuf'[Len(wbuf) + 1] = 0
<1>1. CASE into = "end"
  <2>1. wbuf' = Append(wbuf, made + 1) /\ made + 1 \in Nat
    BY <1>1 DEF Make, WriteTypes
  <2> QED
    BY <1>1, <2>1, Shapes, AppendProperties DEF WriteTypes
<1>2. CASE into = "start" /\ wbuf = <<>>
  BY <1>2 DEF Make, WriteTypes
<1>3. CASE into = "start" /\ wbuf # <<>>
  <2>1. wbuf' = <<made + 1>> \o Tail(wbuf) \o <<0>>
    BY <1>3 DEF Make
  <2>2. Tail(wbuf) \in Seq(Nat) /\ Len(Tail(wbuf)) = Len(wbuf) - 1
        /\ \A i \in 1 .. Len(wbuf) - 1 : Tail(wbuf)[i] = wbuf[i + 1]
    BY <1>3, HeadTailProperties DEF WriteTypes
  <2> DEFINE s == <<made + 1>> \o Tail(wbuf)
  <2>3. s \in Seq(Nat) /\ Len(s) = Len(wbuf) /\ s[1] = made + 1
        /\ \A i \in 2 .. Len(wbuf) : s[i] = wbuf[i]
    <3>1. s \in Seq(Nat) /\ Len(s) = Len(wbuf) /\ s[1] = made + 1
      BY <2>2, <1>3 DEF WriteTypes
    <3>2. ASSUME NEW i \in 2 .. Len(wbuf) PROVE s[i] = wbuf[i]
      <4>1. s[i] = Tail(wbuf)[i - 1]
        BY <2>2, ConcatProperties
      <4>2. i - 1 \in 1 .. Len(wbuf) - 1 /\ (i - 1) + 1 = i
        OBVIOUS
      <4> QED
        BY <4>1, <4>2, <2>2
    <3> QED
      BY <3>1, <3>2
  <2>4. wbuf' = s \o <<0>>
    BY <2>1
  <2> HIDE DEF s
  <2> QED
    BY <1>3, <2>3, <2>4
<1> QED
  BY <1>1, <1>2, <1>3

(* Nothing is in the buffer when a record is made at its start and         *)
(* nothing went wrong.                                                     *)
LEMMA StartIsEmpty ==
  ASSUME WriteInv, NEW t \in Tasks, turn = t, pc[t] \notin Flush, mishap = {},
         \A u \in Tasks : ~Sending(u), Schannel, Client, tstate = "Normal"
  PROVE  wbuf = <<>>
  BY DEF WriteInv, Emptied, Flushing, Flush

(* A new record has a new number wherever it is put, and what it leaves    *)
(* behind is a 0.                                                          *)
LEMMA RecordsOnce ==
  ASSUME WriteTypes, Lock, Once, NEW into \in {"start", "end"}, Make(into), UNCHANGED wire,
         SentNow' = SentNow
  PROVE  Once'
<1>0. wbuf' \in Seq(Nat) /\ Len(wbuf') = Len(wbuf) + 1
  BY MakeIs
<1>1. /\ DOMAIN wbuf' = 1 .. Len(wbuf) + 1 /\ made' = made + 1
      /\ "given_up" \notin mishap' => "given_up" \notin mishap
  <2>1. DOMAIN wbuf' = 1 .. Len(wbuf) + 1
    BY <1>0
  <2> QED
    BY <2>1 DEF Make
<1>2. \A i \in 1 .. Len(wbuf) + 1 :
        \/ i \in 1 .. Len(wbuf) /\ wbuf'[i] = wbuf[i]
        \/ i = 1 /\ wbuf'[i] = made + 1
        \/ i = Len(wbuf) + 1 /\ wbuf'[i] = 0
        \/ i = Len(wbuf) + 1 /\ wbuf'[i] = made + 1 /\ wbuf'[1] # made + 1
  <2>1. CASE into = "end" \/ wbuf = <<>>
    <3>1. wbuf'[Len(wbuf) + 1] = made + 1 /\ \A i \in 1 .. Len(wbuf) : wbuf'[i] = wbuf[i]
      BY <2>1, MakeIs, Shapes
    <3> QED
      BY <3>1, Shapes DEF Once
  <2>2. CASE into = "start" /\ wbuf # <<>>
    BY <2>2, MakeIs, Shapes
  <2> QED
    BY <2>1, <2>2
<1>3. /\ \A i \in 1 .. Len(wire) : wire[i] <= made
      /\ \A i \in 1 .. Len(wbuf) : wbuf[i] <= made
  BY Shapes DEF Once
<1>4. ASSUME NEW i \in 1 .. Len(wbuf) + 1 PROVE wbuf'[i] <= made'
  <2>1. wbuf'[i] \in Nat
    BY <1>0
  <2> QED
    BY <2>1, <1>1, <1>2, <1>3, Shapes
<1>5. ASSUME "given_up" \notin mishap
      PROVE  \A i, j \in DOMAIN wbuf' : wbuf'[i] = wbuf'[j] => i = j \/ wbuf'[i] = 0
  <2>1. \A i, j \in 1 .. Len(wbuf) : wbuf[i] = wbuf[j] => i = j \/ wbuf[i] = 0
    BY <1>5, Shapes DEF Once
  <2> QED
    BY <2>1, <1>1, <1>2, <1>3, Shapes
<1>6. ASSUME "given_up" \notin mishap
      PROVE  \A i \in DOMAIN wire, j \in DOMAIN wbuf' :
               (j > SentNow /\ wire[i] = wbuf'[j]) => wire[i] = 0
  <2>1. \A i \in 1 .. Len(wire), j \in 1 .. Len(wbuf) :
          (j > SentNow /\ wire[i] = wbuf[j]) => wire[i] = 0
    BY <1>6, Shapes DEF Once
  <2>2. ASSUME NEW i \in 1 .. Len(wire), NEW j \in 1 .. Len(wbuf) + 1, j > SentNow,
               wire[i] = wbuf'[j]
        PROVE  wire[i] = 0
    <3>1. wire[i] # made + 1
      BY <1>3, Shapes
    <3> QED
      BY <3>1, <2>1, <2>2, <1>2
  <2> QED
    BY <2>2, <1>1, Shapes
<1>7. \A i \in DOMAIN wire : wire[i] <= made'
  BY <1>1, <1>3, Shapes
<1>8. "given_up" \notin mishap =>
         \A i, j \in DOMAIN wire : wire[i] = wire[j] => i = j \/ wire[i] = 0
  BY DEF Once
<1> QED
  BY <1>1, <1>4, <1>5, <1>6, <1>7, <1>8 DEF Once

(* Making a record keeps the invariant of the write side.                  *)
LEMMA RecordsWrites ==
  ASSUME WriteInv, NEW t \in Tasks, NEW into, Records(t, into) PROVE WriteInv'
<1>9. wbuf' \in Seq(Nat) /\ Len(wbuf') = Len(wbuf) + 1 /\ made' = made + 1
  BY MakeIs DEF Make, WriteInv, Records
<1>1. WriteTypes'
  BY <1>9 DEF WriteTypes, AllSteps, ReaderSteps, Common, WriteInv, Records
<1>2. \A u \in Tasks : pc'[u] = "sending" <=> pc[u] = "sending"
  BY DEF Flush, Records
<1>3. Lock'
  BY <1>2, <1>9, Shapes DEF Lock, Sending, WriteTypes, Flush, WriteInv, Records
<1>4. SentNow' = SentNow
  BY <1>2 DEF SentNow, Sending, Records
<1>0. mishap' = {} => mishap = {} /\ \A u \in Tasks : ~Sending(u)
  BY DEF Make, Sending, Records
<1>5. Upto'
  BY <1>0, <1>2 DEF Upto, Sending
<1>6. InOrder'
  <2> SUFFICES ASSUME mishap' = {} PROVE InOrder'
    BY DEF InOrder
  <2>0. CASE tstate # "Normal"
    <3>1. ~Lively'
      BY <2>0, <1>0, <1>2 DEF Lively, Sending, Records
    <3> QED
      BY <3>1, <1>0 DEF InOrder, WriteInv, Records
  <2> SUFFICES ASSUME tstate = "Normal" PROVE InOrder'
    BY <2>0
  <2>1. SentNow = 0 /\ (into = "end" \/ wbuf = <<>>) /\ made' = made + 1
    BY <1>0, SentNowIs, StartIsEmpty DEF Make, WriteInv, Records
  <2>2. /\ Len(wbuf') = Len(wbuf) + 1 /\ wbuf'[Len(wbuf) + 1] = made + 1
        /\ \A i \in DOMAIN wbuf : wbuf'[i] = wbuf[i]
    BY <2>1, MakeIs DEF WriteInv, Records
  <2>3. /\ Len(wire) + Len(wbuf) = made
        /\ \A i \in DOMAIN wire : wire[i] = i
        /\ \A i \in DOMAIN wbuf : wbuf[i] = Len(wire) + i
    <3>1. mishap = {} /\ \A i \in DOMAIN wbuf : i > 0
      BY <1>0, Shapes
    <3> QED
      BY <3>1, <2>1, Shapes DEF InOrder, Lively, WriteInv
  <2>4. DOMAIN wbuf = 1 .. Len(wbuf) /\ DOMAIN wbuf' = 1 .. Len(wbuf')
    BY <1>1
  <2> QED
    BY <1>4, <2>1, <2>2, <2>3, <2>4, Shapes DEF InOrder, Records
<1>7. Once'
  BY <1>1, <1>4, MakeIs, RecordsOnce DEF WriteInv, Records
<1>8. Emptied'
  BY <1>2 DEF Emptied, Flushing, WriteTypes, WriteInv, Records
<1> QED
  BY <1>1, <1>3, <1>5, <1>6, <1>7, <1>8 DEF WriteInv

(* The lock goes to nobody or to the other task, if that waits for it.     *)
LEMMA UnlockIs ==
  ASSUME WriteTypes, Lock, NEW t \in Tasks, Unlock(t), pc[t] \in {"sending", "flush"} \/ wlock = t
  PROVE  /\ wlock' \in Tasks \cup {Nobody} /\ wlock' # t
         /\ \A u \in Tasks : wlock' = u => pc[u] = "queued"
  BY DEF Unlock, Released, Other, Tasks, Nobody

(* Nobody else sends while the lock is free or one's own.                  *)
LEMMA NoneElse ==
  ASSUME WriteTypes, Lock, NEW t \in Tasks, wlock \in {Nobody, t}, pc[t] # "sending"
  PROVE  \A u \in Tasks : ~Sending(u)
  BY DEF Lock, Sending, Tasks, Nobody

(* A flush that finds nothing to do or a broken transport sends nothing.   *)
LEMMA LeavesFlush ==
  ASSUME WriteInv, ReadTypes, NEW t \in Tasks, turn = t,
         UNCHANGED <<backend, role, tstate, writeVars, turn, mishap>>,
         \/ wbuf = <<>> /\ Goto(t, then[t]) /\ Unlock(t) /\ NotFlushing
         \/ wbuf # <<>> /\ tstate # "Normal" /\ Goto(t, "raised") /\ Unlock(t) /\ NotFlushing,
         \/ pc[t] = "flush" /\ wlock = Nobody
         \/ pc[t] = "queued" /\ wlock = t
  PROVE WriteInv'
<1>1. \A u \in Tasks : ~Sending(u)
  BY NoneElse DEF WriteInv
<1>2. PICK s \in AllSteps : s \notin {"sending", "queued"} /\ pc' = [pc EXCEPT ![t] = s]
  <2>1. then[t] \in Thens /\ then[t] # "none"
    BY DEF ReadTypes, Asking
  <2> QED
    BY <2>1 DEF Goto, Thens, ReaderThens, WriterThens, AllSteps, ReaderSteps, WriterSteps, Common
<1>3. /\ wlock' \in Tasks \cup {Nobody} /\ wlock' # t
      /\ \A u \in Tasks : wlock' = u => pc[u] = "queued"
  BY UnlockIs DEF WriteInv
<1>4. WriteTypes'
  BY <1>2, <1>3 DEF WriteTypes, WriteInv, writeVars, NotFlushing
<1>5. \A u \in Tasks : ~Sending(u)'
  BY <1>1, <1>2 DEF Sending
<1>6. SentNow' = SentNow
  BY <1>1, <1>5 DEF SentNow, Tasks
<1>7. Lock' /\ Upto'
  BY <1>1, <1>2, <1>3, <1>5 DEF Lock, Upto
<1>8. InOrder' /\ Once'
  BY <1>1, <1>5, <1>6 DEF InOrder, Lively, Once, WriteInv, writeVars
<1>9. Emptied'
  BY DEF Emptied, writeVars
<1> QED
  BY <1>4, <1>7, <1>8, <1>9 DEF WriteInv

(* A flush takes the lock and begins with the whole buffer.                *)
LEMMA StartsSending ==
  ASSUME WriteInv, NEW t \in Tasks, turn = t,
         UNCHANGED <<backend, role, tstate, writeVars, turn, mishap>>,
         wbuf # <<>> /\ tstate = "Normal" /\ Goto(t, "sending") /\ wlock' = t,
         upto' = [upto EXCEPT ![t] = Len(wbuf)] /\ at' = [at EXCEPT ![t] = 0],
         \/ pc[t] = "flush" /\ wlock = Nobody
         \/ pc[t] = "queued" /\ wlock = t
  PROVE WriteInv'
<1>1. \A u \in Tasks : ~Sending(u)
  BY NoneElse DEF WriteInv
<1>2. pc' = [pc EXCEPT ![t] = "sending"]
  BY DEF Goto
<1>4. WriteTypes'
  BY <1>2, Shapes DEF WriteTypes, AllSteps, ReaderSteps, Common, WriteInv, writeVars
<1>5. \A u \in Tasks : Sending(u)' <=> u = t
  BY <1>1, <1>2 DEF Sending, WriteTypes, WriteInv
<1>6. SentNow' = 0 /\ SentNow = 0
  BY <1>1, <1>5 DEF SentNow, Tasks, WriteTypes, WriteInv
<1>7. Lock'
  BY <1>1, <1>2, <1>5, Shapes DEF Lock, WriteTypes, WriteInv, writeVars
<1>10. Upto'
  BY <1>5 DEF Upto, WriteTypes, WriteInv, writeVars
<1>8. InOrder' /\ Once'
  BY <1>6 DEF InOrder, Lively, Once, WriteInv, writeVars
<1>9. Emptied'
  BY <1>5 DEF Emptied, Flushing
<1> QED
  BY <1>4, <1>7, <1>8, <1>9, <1>10 DEF WriteInv

(* A task that queues for the lock does so behind one that sends or is     *)
(* about to.                                                               *)
LEMMA WaitsForLock ==
  ASSUME WriteInv, NEW t \in Tasks, WaitForLock(t) PROVE WriteInv'
<1>1. pc' = [pc EXCEPT ![t] = "queued"]
  BY DEF Goto, WaitForLock
<1>2. \A u \in Tasks : Sending(u)' <=> Sending(u)
  BY <1>1 DEF Sending, WaitForLock, Here
<1>3. WriteTypes'
  BY <1>1 DEF WriteTypes, AllSteps, ReaderSteps, Common, WriteInv, WaitForLock, writeVars,
     NotFlushing
<1>4. SentNow' = SentNow
  BY <1>2 DEF SentNow, Tasks, WaitForLock, NotFlushing
<1>5. Lock' /\ Upto'
  BY <1>1, <1>2 DEF Lock, Upto, WriteInv, WaitForLock, writeVars, NotFlushing
<1>6. InOrder' /\ Once'
  BY <1>2, <1>4 DEF InOrder, Lively, Once, WriteInv, WaitForLock, writeVars
<1>7. Emptied'
  <2>1. PICK u \in Tasks : u # t /\ wlock = u /\ pc[u] \in {"sending", "queued"}
    BY DEF Lock, WriteTypes, WriteInv, WaitForLock, Here
  <2>2. (\E v \in Tasks : Sending(v)') \/ \A v \in Tasks : pc'[v] = "queued"
    BY <2>1, <1>1, <1>2 DEF WriteTypes, Tasks, Sending, WriteInv
  <2> QED
    BY <2>2 DEF Emptied, Flushing
<1> QED
  BY <1>3, <1>5, <1>6, <1>7 DEF WriteInv

(* Sending the next entry keeps the order.                                 *)
LEMMA SentInOrder ==
  ASSUME WriteTypes, InOrder, Lively, UNCHANGED <<made, wbuf, mishap>>,
         SentNow \in Nat, SentNow' = SentNow + 1, SentNow + 1 \in 1 .. Len(wbuf),
         Len(wire') = Len(wire) + 1, wire'[Len(wire) + 1] = wbuf[SentNow + 1],
         \A i \in 1 .. Len(wire) : wire'[i] = wire[i],
         DOMAIN wire' = 1 .. Len(wire) + 1
  PROVE  InOrder'
<1> SUFFICES ASSUME mishap = {} PROVE InOrder'
  BY DEF InOrder
<1>1. /\ Len(wire) + Len(wbuf) - SentNow = made
      /\ \A i \in 1 .. Len(wire) : wire[i] = i
      /\ \A i \in 1 .. Len(wbuf) : i > SentNow => wbuf[i] = Len(wire) + i - SentNow
  BY Shapes DEF InOrder
<1>2. wbuf[SentNow + 1] = Len(wire) + 1
  BY <1>1, Shapes
<1>3. \A i \in 1 .. Len(wbuf) : i > SentNow' => wbuf[i] = Len(wire') + i - SentNow'
  BY <1>1, Shapes
<1>4. \A i \in DOMAIN wire' : wire'[i] = i
  BY <1>1, <1>2, Shapes
<1>5. Len(wire') + Len(wbuf) - SentNow' = made
  BY <1>1, Shapes
<1> QED
  BY <1>3, <1>4, <1>5, Shapes DEF InOrder

(* Sending the next entry sends none twice.                                *)
LEMMA SentOnce ==
  ASSUME WriteTypes, Once, UNCHANGED <<made, wbuf, mishap>>,
         SentNow \in Nat, SentNow' = SentNow + 1, SentNow + 1 \in 1 .. Len(wbuf),
         wire'[Len(wire) + 1] = wbuf[SentNow + 1],
         \A i \in 1 .. Len(wire) : wire'[i] = wire[i],
         DOMAIN wire' = 1 .. Len(wire) + 1
  PROVE  Once'
<1>1. ASSUME NEW i \in DOMAIN wire' PROVE wire'[i] <= made
  <2>1. CASE i = Len(wire) + 1
    BY <2>1, Shapes DEF Once
  <2>2. CASE i \in 1 .. Len(wire)
    BY <2>2, Shapes DEF Once
  <2> QED
    BY <2>1, <2>2, Shapes
<1>2. ASSUME "given_up" \notin mishap
      PROVE  /\ \A i, j \in 1 .. Len(wire) : wire[i] = wire[j] => i = j \/ wire[i] = 0
             /\ \A i, j \in 1 .. Len(wbuf) : wbuf[i] = wbuf[j] => i = j \/ wbuf[i] = 0
             /\ \A i \in 1 .. Len(wire), j \in 1 .. Len(wbuf) :
                   (j > SentNow /\ wire[i] = wbuf[j]) => wire[i] = 0
  BY <1>2, Shapes DEF Once
<1>3. ASSUME "given_up" \notin mishap,
             NEW i \in DOMAIN wire', NEW j \in DOMAIN wire', wire'[i] = wire'[j]
      PROVE  i = j \/ wire'[i] = 0
  <2>1. \A k \in 1 .. Len(wire) : wire[k] = wbuf[SentNow + 1] => wire[k] = 0
    BY <1>2, <1>3
  <2>2. CASE i = Len(wire) + 1 \/ j = Len(wire) + 1
    BY <1>3, <2>1, <2>2, Shapes
  <2>3. CASE i \in 1 .. Len(wire) /\ j \in 1 .. Len(wire)
    BY <1>2, <1>3, <2>3
  <2> QED
    BY <1>3, <2>2, <2>3, Shapes
<1>4. ASSUME "given_up" \notin mishap,
             NEW i \in DOMAIN wire', NEW j \in 1 .. Len(wbuf), j > SentNow + 1,
             wire'[i] = wbuf[j]
      PROVE  wire'[i] = 0
  <2>1. CASE i = Len(wire) + 1
    BY <1>2, <1>4, <2>1, Shapes
  <2>2. CASE i \in 1 .. Len(wire)
    BY <1>2, <1>4, <2>2, Shapes
  <2> QED
    BY <1>4, <2>1, <2>2, Shapes
<1> QED
  BY <1>1, <1>3, <1>4, Shapes DEF Once

(* Sending keeps the invariant of the write side.                          *)
LEMMA Sends ==
  ASSUME WriteInv, NEW t \in Tasks, Send(t) PROVE WriteInv'
<1>1. \A u \in Tasks : Sending(u)' <=> u = t
  BY DEF Sending, Lock, WriteInv, Send, Here
<1>2. /\ SentNow \in Nat /\ SentNow' = SentNow + 1 /\ SentNow = at[t]
      /\ SentNow + 1 \in 1 .. Len(wbuf)
  <2>1. at[t] \in Nat /\ at'[t] = at[t] + 1 /\ at[t] + 1 \in 1 .. Len(wbuf)
    BY Shapes DEF WriteTypes, Lock, Sending, WriteInv, Send, Here
  <2>2. SentNow = at[t] /\ SentNow' = at'[t]
    BY <1>1, SentNowIs DEF SentNow, Tasks, Sending, Send
  <2> QED
    BY <2>1, <2>2
<1>3. /\ wire' \in Seq(Nat) /\ Len(wire') = Len(wire) + 1
      /\ wire'[Len(wire) + 1] = wbuf[SentNow + 1]
      /\ \A i \in 1 .. Len(wire) : wire'[i] = wire[i]
      /\ DOMAIN wire' = 1 .. Len(wire) + 1
  <2>1. wire' = Append(wire, wbuf[SentNow + 1]) /\ wbuf[SentNow + 1] \in Nat /\ wire \in Seq(Nat)
    BY <1>2, Shapes DEF WriteTypes, WriteInv, Send
  <2>2. wire' \in Seq(Nat) /\ Len(wire') = Len(wire) + 1
    BY <2>1, AppendProperties
  <2> QED
    BY <2>1, <2>2, AppendProperties
<1>4. WriteTypes'
  <2>1. at' \in [Tasks -> Nat]
    BY <1>2 DEF WriteTypes, WriteInv, Send
  <2> QED
    BY <1>3, <2>1 DEF WriteTypes, WriteInv, Send, Here
<1>5. Lock'
  BY <1>1 DEF Lock, WriteTypes, Sending, WriteInv, Send
<1>6. Upto'
  BY <1>1 DEF Upto, Sending, WriteInv, Send
<1>7. InOrder'
  <2>1. Lively
    BY DEF Lively, Sending, Send, Here
  <2> QED
    BY <2>1, <1>2, <1>3, SentInOrder DEF WriteInv, Send
<1>8. Once'
  BY <1>2, <1>3, SentOnce DEF WriteInv, Send
<1>9. Emptied'
  BY <1>1 DEF Emptied, Flushing
<1> QED
  BY <1>4, <1>5, <1>6, <1>7, <1>8, <1>9 DEF WriteInv

(* A flush that sent everything empties the buffer: nothing is lost if     *)
(* nothing was added.                                                      *)
LEMMA FinishesFlush ==
  ASSUME WriteInv, ReadTypes, NEW t \in Tasks, Flushed(t) PROVE WriteInv'
<1>1. PICK s \in AllSteps : s \notin {"sending", "queued"} /\ pc' = [pc EXCEPT ![t] = s]
  <2>1. then[t] \in Thens /\ then[t] # "none"
    BY DEF ReadTypes, Asking, Flushed, Here
  <2> QED
    BY <2>1 DEF Goto, Thens, ReaderThens, WriterThens, AllSteps, ReaderSteps, WriterSteps, Common,
       Flushed
<1>2. \A u \in Tasks : ~Sending(u)'
  BY <1>1 DEF Sending, Lock, WriteTypes, WriteInv, Flushed, Here
<1>3. /\ wlock' \in Tasks \cup {Nobody} /\ wlock' # t
      /\ \A u \in Tasks : wlock' = u => pc[u] = "queued"
  BY UnlockIs DEF WriteInv, Flushed, Here
<1>4. WriteTypes'
  BY <1>1, <1>3 DEF WriteTypes, WriteInv, Flushed
<1>5. SentNow = at[t] /\ SentNow' = 0 /\ Len(wbuf') = 0 /\ DOMAIN wbuf' = {}
  BY <1>2, SentNowIs DEF SentNow, Tasks, Sending, WriteInv, Flushed, Here
<1>6. Lock' /\ Upto'
  BY <1>1, <1>2, <1>3 DEF Lock, Upto
<1>7. InOrder'
  BY <1>5, Shapes DEF InOrder, Lively, Upto, Sending, WriteInv, Flushed, Here
<1>8. Once'
  BY <1>5 DEF Once, WriteInv, Flushed
<1>9. Emptied'
  BY DEF Emptied, Flushed
<1> QED
  BY <1>4, <1>6, <1>7, <1>8, <1>9 DEF WriteInv

(* A cancelled flush leaves the buffer as it is, and its lock to the       *)
(* other.                                                                  *)
LEMMA GivesUp ==
  ASSUME WriteInv, NEW t \in Tasks, GiveUp(t), pc[t] \in {"queued", "sending"} PROVE WriteInv'
<1>1. pc' = [pc EXCEPT ![t] = "raised"] /\ mishap' # {} /\ "given_up" \in mishap'
  BY DEF Goto, GiveUp
<1>2. /\ wlock' \in Tasks \cup {Nobody} /\ wlock' # t
      /\ wlock' = wlock \/ (pc[t] = "sending" /\ \A u \in Tasks : wlock' = u => pc[u] = "queued")
  BY UnlockIs DEF WriteTypes, WriteInv, GiveUp
<1>3. WriteTypes'
  BY <1>1, <1>2 DEF WriteTypes, AllSteps, ReaderSteps, Common, WriteInv, GiveUp, writeVars,
     NotFlushing
<1>4. \A u \in Tasks : Sending(u)' => Sending(u) /\ u # t
  BY <1>1 DEF Sending, WriteTypes, WriteInv
<1>5. Lock'
  BY <1>1, <1>2, <1>4 DEF Lock, Sending, WriteInv, GiveUp, writeVars, NotFlushing
<1>6. Upto' /\ InOrder' /\ Emptied'
  BY <1>1 DEF Upto, InOrder, Emptied
<1>7. Once'
  BY <1>1 DEF Once, WriteInv, GiveUp, writeVars
<1> QED
  BY <1>3, <1>5, <1>6, <1>7 DEF WriteInv

(* The rest of a sequence.                                                 *)
LEMMA SubSeqType ==
  ASSUME NEW S, NEW s \in Seq(S), NEW m \in Nat, m > 0
  PROVE  SubSeq(s, m, Len(s)) \in Seq(S)
  BY SubSeqProperties

(* A record has a header and an end.                                       *)
LEMMA RecordLengthIs ==
  ASSUME NEW s \in Seq(Units)
  PROVE  RecordLength(s) \in Nat /\ (RecordLength(s) > 0 => RecordLength(s) >= 2 /\ AtHead(s, "h"))
<1>1. CASE AtHead(s, "h") /\ \E i \in 1..Len(s) : EndsAt(s, i)
  <2>1. RecordLength(s) \in 1 .. Len(s) /\ EndsAt(s, RecordLength(s))
    BY <1>1 DEF RecordLength
  <2>2. RecordLength(s) # 1
    BY <2>1, <1>1 DEF EndsAt, AtHead
  <2> QED
    BY <2>1, <2>2, <1>1
<1>2. CASE ~(AtHead(s, "h") /\ \E i \in 1..Len(s) : EndsAt(s, i))
  BY <1>2 DEF RecordLength
<1> QED
  BY <1>1, <1>2

(* Schannel reads from the buffer itself, as it keeps nothing inside.      *)
LEMMA InputIs ==
  ASSUME ReadInv
  PROVE  Input \in Seq(Units) /\ (Schannel => Input = rbuf)
  BY DEF Input, ReadInv, ReadTypes, Reading

(* A step of the running task, as the read side sees it.                   *)
Moves(t) ==
  /\ UNCHANGED <<backend, role, setup, turn>>
  /\ turn = t /\ Started(t)
  /\ tstate' \in {"Normal", "Closed", "Error"}
  /\ inbound' \in Seq(Units) /\ rbuf' \in Seq(Units) /\ inside' \in Seq(Units)
  /\ Schannel => inside' = <<>>
  /\ remaining' \in Nat /\ trailer' \in {0, 1}
  /\ \E s \in StepsOf(t), n \in ThensOf(t) :
        /\ pc' = [pc EXCEPT ![t] = s] /\ then' = [then EXCEPT ![t] = n]
        /\ s \in Asking => n # "none"

(* Such steps keep the invariant of the read side.                         *)
LEMMA MovesReads ==
  ASSUME WriteInv, ReadInv, NEW t \in Tasks, Moves(t) PROVE ReadInv'
<1>0. pc \in [Tasks -> AllSteps] /\ then \in [Tasks -> Thens]
  BY DEF WriteInv, WriteTypes, ReadInv, ReadTypes
<1>1. PICK s \in StepsOf(t), n \in ThensOf(t) :
         /\ pc' = [pc EXCEPT ![t] = s] /\ then' = [then EXCEPT ![t] = n]
         /\ s \in Asking => n # "none"
  BY DEF Moves
<1>2. n \in Thens
  BY DEF ThensOf, Thens
<1>3. ReadTypes'
  <2>1. ASSUME NEW u \in Tasks
        PROVE  /\ pc'[u] \in StepsOf(u) /\ then'[u] \in ThensOf(u)
               /\ pc'[u] \in Asking => then'[u] # "none"
    <3>1. CASE u = t
      BY <3>1, <1>0, <1>1
    <3>2. CASE u # t
      BY <3>2, <1>0, <1>1 DEF ReadInv, ReadTypes
    <3> QED
      BY <3>1, <3>2
  <2>2. then' \in [Tasks -> Thens]
    BY <1>0, <1>1, <1>2
  <2> QED
    BY <2>1, <2>2 DEF ReadInv, ReadTypes, Moves
<1>4. Turns'
  BY <1>0, <1>1 DEF ReadInv, Turns, Moves, Started, Tasks
<1>5. Reading'
  BY DEF Reading, Moves, Schannel
<1> QED
  BY <1>3, <1>4, <1>5 DEF ReadInv

(* What the step of a task begins from.                                    *)
LEMMA Begins ==
  ASSUME WriteInv, ReadInv, NEW t \in Tasks
  PROVE  /\ backend \in {"schannel", "openssl"} /\ tstate \in {"Normal", "Closed", "Error"}
         /\ inbound \in Seq(Units) /\ rbuf \in Seq(Units) /\ inside \in Seq(Units)
         /\ Schannel => inside = <<>> /\ Input = rbuf
         /\ Input \in Seq(Units)
         /\ remaining \in Nat /\ trailer \in {0, 1}
         /\ pc \in [Tasks -> AllSteps] /\ then \in [Tasks -> Thens]
         /\ pc[t] \in StepsOf(t) /\ then[t] \in ThensOf(t)
         /\ pc[t] \in Asking => then[t] # "none"
         /\ then = [then EXCEPT ![t] = then[t]]
  BY InputIs DEF WriteInv, WriteTypes, ReadInv, ReadTypes, Reading

(* A task that goes on to what follows goes to one of its places.          *)
LEMMA FollowsIs ==
  ASSUME WriteInv, ReadInv, NEW t \in Tasks, pc[t] \in Asking
  PROVE  then[t] \in StepsOf(t) /\ then[t] \notin Asking /\ then[t] \in AllSteps
<1>1. then[t] \in ThensOf(t) /\ then[t] # "none"
  BY Begins
<1>2. CASE t = "reader"
  BY <1>1, <1>2 DEF ThensOf, StepsOf, ReaderThens, ReaderSteps, AllSteps, Common, Asking
<1>3. CASE t = "writer"
  BY <1>1, <1>3 DEF ThensOf, StepsOf, WriterThens, WriterSteps, AllSteps, Common, Asking
<1> QED
  BY <1>2, <1>3 DEF Tasks

(* The places common to both tasks.                                        *)
LEMMA CommonIs ==
  ASSUME NEW t \in Tasks
  PROVE  /\ Common \subseteq StepsOf(t) /\ StepsOf(t) \subseteq AllSteps
         /\ {"none", "goodbye", "fill_goodbye", "end"} \subseteq ThensOf(t)
  BY DEF StepsOf, ThensOf, ReaderSteps, WriterSteps, AllSteps, ReaderThens, WriterThens

(* The steps of setting up.                                                *)
SettingUp ==
  \/ schannel_new \/ read_pfx \/ acquire_credentials \/ init_server \/ add_root_certificate
  \/ openssl_ctx \/ openssl_ssl \/ peer_certificate

(* Setting up leaves the transport alone.                                  *)
LEMMA SettingUpSteps == ASSUME WriteInv, ReadInv, SettingUp PROVE ReadInv' /\ SetsUp
<1>1. /\ NoTraffic /\ setup \notin Gone \cup {"handshake"}
      /\ setup \in {"open", "asking"} <=> setup' \in {"open", "asking"}
  BY DEF SettingUp, schannel_new, read_pfx, acquire_credentials, init_server,
     add_root_certificate, openssl_ctx, openssl_ssl, peer_certificate, SetUp, Done, Gone
<1>2. ReadInv'
  <2>1. ReadTypes'
    BY <1>1 DEF NoTraffic, ReadInv, ReadTypes, kindVars, readVars, taskVars
  <2>2. Turns'
    BY <1>1 DEF NoTraffic, ReadInv, Turns, taskVars
  <2>3. Reading'
    BY <1>1 DEF NoTraffic, ReadInv, Reading, kindVars, readVars, Schannel
  <2> QED
    BY <2>1, <2>2, <2>3 DEF ReadInv
<1>3. SetsUp
  BY <1>1 DEF NoTraffic, SetsUp, kindVars, taskVars, writeVars, WriteInv, WriteTypes
<1> QED
  BY <1>2, <1>3

(* So do verification and the end, and that of the program.                *)
LEMMA ClosingSteps ==
  ASSUME WriteInv, ReadInv, HandshakeFailed \/ verify_peer_certificate \/ close \/ Panic
  PROVE  ReadInv' /\ SetsUp
<1>2. ReadInv'
  <2>1. ReadTypes'
    BY DEF ReadInv, ReadTypes, kindVars, readVars, taskVars, HandshakeFailed,
       verify_peer_certificate, close, Panic
  <2>2. Turns'
    BY DEF ReadInv, Turns, taskVars, Done, Gone, HandshakeFailed, verify_peer_certificate, close,
       Panic, SetUp
  <2>3. Reading'
    BY DEF ReadInv, Reading, kindVars, readVars, Schannel, HandshakeFailed,
       verify_peer_certificate, close, Panic
  <2> QED
    BY <2>1, <2>2, <2>3 DEF ReadInv
<1>3. SetsUp
  BY DEF SetsUp, kindVars, taskVars, writeVars, WriteInv, WriteTypes, HandshakeFailed,
     verify_peer_certificate, close, Panic
<1> QED
  BY <1>2, <1>3

(* The turn goes to a task that can run.                                   *)
LEMMA SwitchSteps == ASSUME WriteInv, ReadInv, Switch PROVE ReadInv' /\ SetsUp
<1>2. ReadInv'
  <2>1. ReadTypes'
    BY DEF ReadInv, ReadTypes, kindVars, readVars, Switch
  <2>2. Turns'
    BY DEF ReadInv, Turns, setupVars, Switch
  <2>3. Reading'
    BY DEF ReadInv, Reading, kindVars, readVars, Schannel, Switch
  <2> QED
    BY <2>1, <2>2, <2>3 DEF ReadInv
<1>3. SetsUp
  BY DEF SetsUp, kindVars, Tasks, writeVars, Switch, Waits, Other
<1> QED
  BY <1>2, <1>3

(* The reader begins the handshake, the writer its calls.                  *)
LEMMA StartSteps ==
  ASSUME WriteInv, ReadInv, StartHandshake \/ Begin PROVE ReadInv' /\ \E t \in Tasks : Quiet(t)
<1>1. CASE StartHandshake
  <2>1. turn = "reader" /\ "reader" \in Tasks /\ "handshake" \in StepsOf("reader")
    BY <1>1 DEF ReadInv, Turns, StartHandshake, Done, Gone, Tasks, StepsOf, ReaderSteps
  <2>2. Moves("reader")
    BY <1>1, <2>1, Begins DEF Moves, StartHandshake, Started, Goto, kindVars, setupVars, readVars,
       Asking
  <2>3. Quiet("reader")
    BY <1>1, <2>1 DEF Quiet, Flush, kindVars, writeVars, StartHandshake, Goto, ReaderSteps,
       AllSteps
  <2> QED
    BY <2>1, <2>2, <2>3, MovesReads
<1>2. CASE Begin
  <2>1. "writer" \in Tasks /\ "call_write" \in StepsOf("writer")
    BY DEF Tasks, StepsOf, WriterSteps
  <2>2. Moves("writer")
    BY <1>2, <2>1, Begins DEF Moves, Begin, Here, Goto, kindVars, setupVars, readVars, Asking
  <2>3. Quiet("writer")
    BY <1>2, <2>1 DEF Quiet, Flush, kindVars, writeVars, Begin, Here, Goto, WriterSteps, AllSteps
  <2> QED
    BY <2>1, <2>2, <2>3, MovesReads
<1> QED
  BY <1>1, <1>2

(* A read of the transport begins, or waits for its turn.                  *)
LEMMA ReadMoreSteps ==
  ASSUME WriteInv, ReadInv, NEW t \in Tasks, ReadMore(t) \/ WaitToRead(t)
  PROVE  ReadInv' /\ Quiet(t)
<1>1. PICK s \in {"receiving", "read_queued", "raised"} : pc' = [pc EXCEPT ![t] = s]
  BY DEF ReadMore, WaitToRead, Goto
<1>2. s \in StepsOf(t) /\ s \in AllSteps \ {"queued", "sending"}
  BY CommonIs DEF Common
<1>3. /\ UNCHANGED <<kindVars, setupVars, tstate, readVars, writeVars, turn, wlock, then, mishap>>
      /\ turn = t /\ Started(t) /\ pc[t] \in {"read_more", "read_queued"} /\ NotFlushing
  BY DEF ReadMore, WaitToRead, Here
<1>4. Moves(t)
  BY <1>1, <1>2, <1>3, Begins DEF Moves, kindVars, setupVars, readVars, Asking
<1>5. Quiet(t)
  BY <1>1, <1>2, <1>3 DEF Quiet, Flush, kindVars, writeVars, NotFlushing
<1> QED
  BY <1>4, <1>5, MovesReads

(* What arrives are units.                                                 *)
LEMMA ArrivesIs ==
  ASSUME WriteInv, ReadInv, NEW t \in Tasks, Receive(t)
  PROVE  inbound' \in Seq(Units) /\ rbuf' \in Seq(Units)
<1>1. CASE UNCHANGED <<inbound, rbuf>>
  BY <1>1 DEF ReadInv, ReadTypes
<1>2. CASE \E n \in 1..Len(inbound) : /\ rbuf' = rbuf \o SubSeq(inbound, 1, n)
                                      /\ inbound' = SubSeq(inbound, n + 1, Len(inbound))
  <2>1. PICK n \in 1..Len(inbound) : /\ rbuf' = rbuf \o SubSeq(inbound, 1, n)
                                     /\ inbound' = SubSeq(inbound, n + 1, Len(inbound))
    BY <1>2
  <2>2. /\ SubSeq(inbound, 1, n) \in Seq(Units)
        /\ SubSeq(inbound, n + 1, Len(inbound)) \in Seq(Units)
    <3>1. inbound \in Seq(Units)
      BY DEF ReadInv, ReadTypes
    <3>2. n \in Nat /\ n + 1 > 0 /\ \A i \in 1 .. n : inbound[i] \in Units
      BY <3>1
    <3> QED
      BY <3>1, <3>2, SubSeqProperties, SubSeqType
  <2>3. rbuf \o SubSeq(inbound, 1, n) \in Seq(Units)
    BY <2>2, ConcatProperties DEF ReadInv, ReadTypes
  <2> QED
    BY <2>1, <2>2, <2>3
<1> QED
  BY <1>1, <1>2 DEF Receive

(* A read of the transport returns to the place it was made from.          *)
LEMMA ReceiveSteps ==
  ASSUME WriteInv, ReadInv, NEW t \in Tasks, Receive(t) PROVE ReadInv' /\ Quiet(t)
<1>1. /\ UNCHANGED <<kindVars, setupVars, inside, remaining, trailer, writeVars, turn, wlock, then,
                     mishap>>
      /\ turn = t /\ Started(t) /\ pc[t] = "receiving" /\ NotFlushing
      /\ pc' = [pc EXCEPT ![t] = then[t]] /\ tstate' \in {tstate, "Closed"}
  BY DEF Receive, Here, Goto
<1>2. then[t] \in StepsOf(t) /\ then[t] \in AllSteps /\ then[t] \notin Asking
  BY <1>1, FollowsIs DEF Asking
<1>3. Moves(t)
  BY <1>1, <1>2, ArrivesIs, Begins DEF Moves, kindVars, setupVars
<1>4. Quiet(t)
  BY <1>1, <1>2 DEF Quiet, Flush, kindVars, writeVars, NotFlushing, Asking
<1> QED
  BY <1>3, <1>4, MovesReads

(* SSL_ERROR_WANT_READ: a task on OpenSSL reads after its flush.           *)
LEMMA FillSteps ==
  ASSUME WriteInv, ReadInv, NEW t \in Tasks, FillAfterFlush(t) PROVE ReadInv' /\ Quiet(t)
<1>1. PICK call \in {"handshake", "call_read", "call_write", "goodbye"} :
         pc[t] = Fill[call] /\ GotoThen(t, "read_more", call)
  BY DEF FillAfterFlush, Fill
<1>2. call \in ThensOf(t)
  <2>1. pc[t] \in StepsOf(t)
    BY Begins
  <2> QED
    BY <1>1, <2>1 DEF Fill, StepsOf, ThensOf, ReaderSteps, WriterSteps, Common, ReaderThens,
       WriterThens, Tasks
<1>3. "read_more" \in StepsOf(t) /\ "read_more" \in AllSteps
  BY CommonIs DEF Common
<1>4. /\ UNCHANGED <<kindVars, setupVars, tstate, readVars, writeVars, turn, wlock, mishap>>
      /\ turn = t /\ Started(t) /\ NotFlushing /\ pc[t] \notin Flush
      /\ pc' = [pc EXCEPT ![t] = "read_more"] /\ then' = [then EXCEPT ![t] = call]
  <2>1. Fill[call] \notin Flush
    BY DEF Fill, Flush
  <2> QED
    BY <1>1, <2>1 DEF FillAfterFlush, GotoThen, Goto
<1>5. Moves(t)
  BY <1>2, <1>3, <1>4, Begins DEF Moves, kindVars, setupVars, readVars
<1>6. Quiet(t)
  BY <1>3, <1>4 DEF Quiet, kindVars, writeVars, NotFlushing
<1> QED
  BY <1>5, <1>6, MovesReads

(* The handshake is complete.                                              *)
LEMMA ConnectedSteps ==
  ASSUME WriteInv, ReadInv, NEW t \in Tasks, connected(t) PROVE ReadInv' /\ Quiet(t)
<1>1. t = "reader" /\ turn = "reader" /\ pc["reader"] = "connected"
  BY Begins DEF connected, Here, Tasks, StepsOf, WriterSteps, Common
<1>0. pc' = [pc EXCEPT !["reader"] = "call_read"] /\ pc'["reader"] = "call_read"
      /\ pc'["writer"] = pc["writer"] /\ UNCHANGED then
  BY <1>1, Begins DEF connected, Goto, Tasks
<1>2. ReadInv'
  <2>1. ReadTypes'
    <3>1. \A u \in Tasks : /\ pc'[u] \in StepsOf(u) /\ then'[u] \in ThensOf(u)
                           /\ pc'[u] \in Asking => then'[u] # "none"
      BY <1>0, Begins DEF Tasks, StepsOf, ReaderSteps, Asking
    <3> QED
      BY <3>1, <1>1 DEF ReadInv, ReadTypes, kindVars, readVars, connected
  <2>2. Turns'
    BY <1>0, <1>1 DEF ReadInv, Turns, Done, Gone, connected, Here, Started, Tasks
  <2>3. Reading'
    BY <1>1 DEF ReadInv, Reading, kindVars, readVars, Schannel, connected
  <2> QED
    BY <2>1, <2>2, <2>3 DEF ReadInv
<1>3. Quiet(t)
  BY <1>0, <1>1 DEF Quiet, Flush, kindVars, writeVars, connected, Here, NotFlushing, ReaderSteps,
     AllSteps
<1> QED
  BY <1>2, <1>3

(* Decrypting a record turns its head into data.                           *)
LEMMA DecryptSteps ==
  ASSUME WriteInv, ReadInv, schannel_decrypt PROVE ReadInv' /\ Quiet("reader")
<1>0. "reader" \in Tasks /\ "call_read" \in StepsOf("reader")
  BY DEF Tasks, StepsOf, ReaderSteps
<1>1. /\ RecordLength(rbuf) \in Nat /\ RecordLength(rbuf) >= 2 /\ rbuf # <<>>
  BY RecordLengthIs DEF ReadInv, ReadTypes, AtHead, schannel_decrypt
<1>2. rbuf' \in Seq(Units) /\ remaining' \in Nat /\ trailer' = 1
  BY <1>1, HeadTailProperties DEF ReadInv, ReadTypes, schannel_decrypt
<1>3. pc["reader"] = "call_read" /\ UNCHANGED <<pc, then>> /\ pc = [pc EXCEPT !["reader"] = @]
  BY <1>0, Begins DEF schannel_decrypt, Here
<1>4. Moves("reader")
  BY <1>0, <1>2, <1>3, Begins DEF Moves, schannel_decrypt, Here, ReadStays, kindVars, setupVars,
     Asking
<1>5. Quiet("reader")
  BY <1>3 DEF Quiet, Flush, kindVars, writeVars, schannel_decrypt, Here, ReaderSteps, AllSteps,
     ReadStays
<1> QED
  BY <1>0, <1>4, <1>5, MovesReads

(* A read hands out no more than there is.                                 *)
LEMMA HandedIs ==
  ASSUME ReadInv, NEW max_len \in 1 .. 2, remaining > 0
  PROVE  /\ Handed(max_len) \in 1 .. remaining
         /\ HandedOver(max_len) \in Nat
         /\ HandedOver(max_len) = Handed(max_len)
                                  + (IF Handed(max_len) = remaining THEN trailer ELSE 0)
  BY DEF Handed, HandedOver, ReadInv, ReadTypes

(* Data is handed out, and with its end the trailer removed.               *)
LEMMA HandOutSteps ==
  ASSUME WriteInv, ReadInv, NEW max_len \in 1 .. 2, schannel_hand_out(max_len)
  PROVE  ReadInv' /\ Quiet("reader")
<1>0. "reader" \in Tasks /\ "call_read" \in StepsOf("reader")
  BY DEF Tasks, StepsOf, ReaderSteps
<1>1. rbuf' \in Seq(Units) /\ remaining' \in Nat
  <2>1. remaining > 0 /\ remaining' = remaining - Handed(max_len)
        /\ rbuf' = SubSeq(rbuf, HandedOver(max_len) + 1, Len(rbuf))
    BY DEF schannel_hand_out
  <2>2. remaining \in Nat /\ rbuf \in Seq(Units)
    BY DEF ReadInv, ReadTypes
  <2>3. Handed(max_len) \in 1 .. remaining /\ HandedOver(max_len) \in Nat
    BY <2>1, HandedIs
  <2>4. rbuf' \in Seq(Units)
    <3>1. HandedOver(max_len) + 1 \in Nat /\ HandedOver(max_len) + 1 > 0
      BY <2>3
    <3> QED
      BY <2>1, <2>2, <3>1, SubSeqType
  <2> QED
    BY <2>1, <2>2, <2>3, <2>4
<1>3. pc["reader"] = "call_read" /\ UNCHANGED <<pc, then>> /\ pc = [pc EXCEPT !["reader"] = @]
  BY <1>0, Begins DEF schannel_hand_out, Here
<1>4. Moves("reader")
  BY <1>0, <1>1, <1>3, Begins DEF Moves, schannel_hand_out, Here, ReadStays, kindVars, setupVars,
     Asking
<1>5. Quiet("reader")
  BY <1>3 DEF Quiet, Flush, kindVars, writeVars, schannel_hand_out, Here, ReaderSteps, AllSteps,
     ReadStays
<1> QED
  BY <1>0, <1>4, <1>5, MovesReads

(* Taking in from what is there leaves sequences of units.                 *)
LEMMA TakeIs ==
  ASSUME ReadInv, NEW n \in Nat, Take(n)
  PROVE  inside' \in Seq(Units) /\ rbuf' \in Seq(Units) /\ inside' = <<>>
  BY InputIs, SubSeqType DEF Take

(* OpenSSL takes all that was received, Schannel nothing.                  *)
LEMMA TakeInIs ==
  ASSUME ReadInv, TakeIn
  PROVE  /\ inside' \in Seq(Units) /\ rbuf' \in Seq(Units)
         /\ Schannel => UNCHANGED <<inside, rbuf>> /\ inside' = <<>>
<1>1. CASE Schannel \/ tstate # "Normal"
  BY <1>1 DEF TakeIn, ReadInv, ReadTypes, Reading
<1>2. CASE ~(Schannel \/ tstate # "Normal")
  BY <1>2, InputIs DEF TakeIn
<1> QED
  BY <1>1, <1>2

(* Dropping leaves a rest; dropping nothing, all of it.                    *)
LEMMA DropIs ==
  ASSUME ReadInv, NEW t \in Tasks, NEW n \in 0 .. Len(rbuf), Drop(t, n)
  PROVE  /\ rbuf' \in Seq(Units) /\ inside' = inside /\ inside \in Seq(Units)
         /\ n = 0 => rbuf' = rbuf
<1>1. rbuf \in Seq(Units) /\ n \in Nat /\ n + 1 > 0
  BY DEF ReadInv, ReadTypes
<1>2. SubSeq(rbuf, n + 1, Len(rbuf)) \in Seq(Units)
  BY <1>1, SubSeqType
<1>3. n = 0 => rbuf' = rbuf
  BY <1>1, SubSeqFull DEF Drop
<1> QED
  BY <1>2, <1>3 DEF Drop, ReadInv, ReadTypes

(* A message that is complete has one piece or two.                        *)
LEMMA MessageLengthIs ==
  ASSUME NEW s \in Seq(Units)
  PROVE  /\ MessageLength(s) \in 0 .. 2 /\ MessageLength(s) <= Len(s)
         /\ \A i \in 1 .. MessageLength(s) : s[i] \notin Bytes
<1>1. CASE AtHead(s, "hs") \/ AtHead(s, "reneg")
  BY <1>1 DEF MessageLength, AtHead, Bytes
<1>2. CASE ~(AtHead(s, "hs") \/ AtHead(s, "reneg")) /\ Len(s) > 1 /\ s[1] = "part" /\ s[2] = "hs"
  <2>1. MessageLength(s) = 2
    BY <1>2 DEF MessageLength
  <2> QED
    BY <1>2, <2>1 DEF Bytes
<1>3. CASE ~(AtHead(s, "hs") \/ AtHead(s, "reneg")) /\ ~(Len(s) > 1 /\ s[1] = "part" /\ s[2] = "hs")
  BY <1>3 DEF MessageLength
<1> QED
  BY <1>1, <1>2, <1>3

(* Asking for more, a task knows what it will do with it.                  *)
LEMMA RefillIs ==
  ASSUME WriteInv, ReadInv, NEW t \in Tasks, NEW call, Refill(t, call),
         call \in {"handshake", "call_read", "call_write", "goodbye"},
         call \in ThensOf(t), Fill[call] \in ThensOf(t)
  PROVE  \E s \in {"read_more", "flush"} : \E n \in {call, Fill[call]} :
            /\ pc' = [pc EXCEPT ![t] = s] /\ then' = [then EXCEPT ![t] = n]
            /\ n \in ThensOf(t) /\ n # "none"
            /\ Schannel => s = "read_more" /\ n = call
<1>1. CASE Schannel
  BY <1>1 DEF Refill, GotoThen, Goto
<1>2. CASE ~Schannel
  BY <1>2 DEF Refill, GotoThen, Goto, Fill
<1> QED
  BY <1>1, <1>2

(* A read that does not flush makes no record.                             *)
LEMMA ReaderMoves ==
  ASSUME WriteInv, ReadInv, Here("reader", "call_read"), ReadStays, UNCHANGED writeVars,
         UNCHANGED <<inbound, remaining, trailer, mishap>>,
         inside' \in Seq(Units), rbuf' \in Seq(Units), Schannel => inside' = <<>>,
         NEW s \in ReaderSteps \ {"queued", "sending"}, NEW n \in ReaderThens,
         pc' = [pc EXCEPT !["reader"] = s], then' = [then EXCEPT !["reader"] = n],
         s \in Asking => n # "none"
  PROVE  ReadInv' /\ Quiet("reader")
<1>0. "reader" \in Tasks /\ s \in StepsOf("reader") /\ n \in ThensOf("reader") /\ s \in AllSteps
  BY DEF Tasks, StepsOf, ThensOf, AllSteps
<1>1. Moves("reader")
  BY <1>0, Begins DEF Moves, Here, ReadStays, kindVars, setupVars
<1>2. Quiet("reader")
  BY <1>0 DEF Quiet, Here, ReadStays, kindVars, writeVars, Flush
<1> QED
  BY <1>0, <1>1, <1>2, MovesReads

(* A read that wants more, has to write first, or fails, hands out         *)
(* nothing.                                                                *)
LEMMA WantsMoreSteps ==
  ASSUME WriteInv, ReadInv, read_wants_more \/ read_wants_write \/ read_fails
  PROVE  ReadInv' /\ Quiet("reader")
<1>0. /\ "reader" \in Tasks /\ {"call_read", "fill_read"} \subseteq ReaderThens
      /\ "none" \in ReaderThens
      /\ ReaderThens = ThensOf("reader") /\ Common \subseteq ReaderSteps
  BY DEF Tasks, ReaderThens, ThensOf, ReaderSteps
<1>1. /\ Here("reader", "call_read") /\ ReadStays
      /\ UNCHANGED writeVars /\ UNCHANGED <<inbound, remaining, trailer, mishap>>
  BY DEF read_wants_more, read_wants_write, read_fails
<1>2. inside' \in Seq(Units) /\ rbuf' \in Seq(Units) /\ (Schannel => inside' = <<>>)
  BY <1>0, TakeInIs, Begins DEF read_wants_more, read_wants_write, read_fails
<1>3. \E s \in {"end", "raised", "read_more", "flush"}, n \in ReaderThens :
         /\ pc' = [pc EXCEPT !["reader"] = s] /\ then' = [then EXCEPT !["reader"] = n]
         /\ s \in Asking => n # "none"
  <2>1. CASE UNCHANGED then /\ \E s \in {"end", "raised"} : pc' = [pc EXCEPT !["reader"] = s]
    BY <2>1, <1>0, Begins DEF Asking
  <2>2. CASE Refill("reader", "call_read")
    BY <2>2, <1>0, RefillIs DEF Fill
  <2>3. CASE GotoThen("reader", "flush", "call_read")
    BY <2>3, <1>0 DEF GotoThen, Goto
  <2> QED
    BY <2>1, <2>2, <2>3 DEF read_wants_more, read_wants_write, read_fails, Goto
<1> QED
  BY <1>0, <1>1, <1>2, <1>3, ReaderMoves DEF Common

(* A close_notify of the peer leads to a shutdown.                         *)
LEMMA EofSteps ==
  ASSUME WriteInv, ReadInv, read_eof PROVE ReadInv' /\ Quiet("reader")
<1>1. inside' \in Seq(Units) /\ rbuf' \in Seq(Units) /\ (Schannel => inside' = <<>>)
  BY TakeIs, Begins DEF read_eof, Tasks
<1> QED
  BY <1>1, ReaderMoves DEF read_eof, GotoThen, Goto, ReaderSteps, Common, ReaderThens, Asking

(* Schannel goes back to the handshake with the message still to be read.  *)
LEMMA RenegotiateSteps ==
  ASSUME WriteInv, ReadInv, read_renegotiate PROVE ReadInv' /\ Quiet("reader")
<1>1. then["reader"] \in ReaderThens /\ then' = [then EXCEPT !["reader"] = then["reader"]]
  BY Begins DEF read_renegotiate, ThensOf, Tasks
<1>2. inside' \in Seq(Units) /\ rbuf' \in Seq(Units) /\ (Schannel => inside' = <<>>)
  BY Begins DEF read_renegotiate, Tasks
<1> QED
  BY <1>1, <1>2, ReaderMoves DEF read_renegotiate, Goto, ReaderSteps, Asking

(* A step that makes a record or none and flushes.                         *)
LEMMA RecordsOrQuiet ==
  ASSUME WriteInv, NEW t \in Tasks, turn = t, turn' = t, pc[t] \notin Flush,
         pc' = [pc EXCEPT ![t] = "flush"],
         UNCHANGED <<backend, role, wire, upto, at, wlock, tstate>>,
         NEW into \in {"end", OutputPlace}, Make(into) \/ MakeNothing
  PROVE  Quiet(t) \/ Records(t, into)
<1>1. "flush" \in AllSteps \ {"queued", "sending"}
  BY DEF AllSteps, ReaderSteps, Common
<1>2. CASE MakeNothing
  BY <1>1, <1>2 DEF Quiet, MakeNothing
<1>3. CASE Make(into)
  BY <1>3 DEF Records, OutputPlace
<1> QED
  BY <1>2, <1>3

(* A handshake makes a record, asks for more, or fails.                    *)
LEMMA HandshakeSteps ==
  ASSUME WriteInv, ReadInv, NEW t \in Tasks, handshake(t)
  PROVE  ReadInv' /\ (Quiet(t) \/ Records(t, OutputPlace))
<1>1. /\ t = "reader" /\ turn = "reader" /\ Started("reader") /\ pc["reader"] = "handshake"
      /\ NotFlushing
      /\ UNCHANGED <<kindVars, setup, tstate, inbound, remaining, trailer, wire, turn, wlock>>
  BY Begins DEF handshake, Here, Tasks, StepsOf, WriterSteps, Common
<1>2. inside' \in Seq(Units) /\ rbuf' \in Seq(Units) /\ (Schannel => inside' = <<>>)
  <2>1. CASE UNCHANGED inside /\ (UNCHANGED rbuf \/ rbuf' = <<"junk">> \o rbuf)
    <3>1. <<"junk">> \o rbuf \in Seq(Units)
      BY Begins, ConcatProperties DEF Units
    <3> QED
      BY <2>1, <3>1, Begins
  <2>2. CASE TakeIn
    BY <2>2, TakeInIs
  <2>3. CASE Take(MessageLength(Input))
    BY <2>3, TakeIs, MessageLengthIs, Begins
  <2>4. CASE \E n \in 0..(IF Schannel THEN Len(rbuf) ELSE 0) : Drop(t, n)
    <3>1. Len(rbuf) \in Nat
      BY Begins
    <3> QED
      BY <2>4, <3>1, DropIs, Begins
  <2> QED
    BY <2>1, <2>2, <2>3, <2>4 DEF handshake
<1>3. {"handshake", "fill_handshake", "connected"} \subseteq ReaderThens
      /\ ReaderThens = ThensOf("reader")
      /\ "none" \notin {"handshake", "fill_handshake", "connected"}
      /\ Common \subseteq StepsOf("reader") /\ StepsOf("reader") \subseteq AllSteps
  BY CommonIs DEF ReaderThens, ThensOf, Tasks
<1>4. \/ /\ Make(OutputPlace) \/ MakeNothing
         /\ \E n \in ReaderThens \ {"none"} : GotoThen("reader", "flush", n)
      \/ MakeNothing /\ \E s \in {"read_more", "flush"}, n \in ReaderThens \ {"none"} :
            pc' = [pc EXCEPT !["reader"] = s] /\ then' = [then EXCEPT !["reader"] = n]
      \/ MakeNothing /\ Goto("reader", "raised") /\ UNCHANGED then
  <2>1. CASE GotoThen("reader", "flush", "handshake") /\ (Make(OutputPlace) \/ MakeNothing)
    BY <2>1, <1>3
  <2>2. CASE Refill("reader", "handshake") /\ MakeNothing
    BY <2>2, <1>1, <1>3, RefillIs DEF Fill
  <2>3. CASE /\ \E next \in {"handshake", "connected"} : GotoThen("reader", "flush", next)
             /\ Make(OutputPlace) \/ MakeNothing
    BY <2>3, <1>3
  <2>4. CASE MakeNothing /\ Goto("reader", "raised") /\ UNCHANGED then
    BY <2>4
  <2> QED
    BY <1>1, <2>1, <2>2, <2>3, <2>4 DEF handshake
<1>5. Moves(t)
  <2>1. \E s \in StepsOf("reader"), n \in ThensOf("reader") :
          /\ pc' = [pc EXCEPT !["reader"] = s] /\ then' = [then EXCEPT !["reader"] = n]
          /\ s \in Asking => n # "none"
    BY <1>1, <1>3, <1>4, Begins DEF GotoThen, Goto, Common, Asking
  <2> QED
    BY <1>1, <1>2, <2>1, Begins DEF Moves, kindVars
<1>6. Quiet(t) \/ Records(t, OutputPlace)
  <2>0. pc[t] \notin Flush
    BY <1>1 DEF Flush
  <2>1. CASE pc' = [pc EXCEPT ![t] = "flush"] /\ (Make(OutputPlace) \/ MakeNothing)
    BY <2>0, <2>1, <1>1, RecordsOrQuiet DEF NotFlushing, kindVars
  <2>2. CASE \E s \in {"read_more", "raised"} : pc' = [pc EXCEPT ![t] = s] /\ MakeNothing
    BY <2>0, <2>2, <1>1, <1>3 DEF Quiet, MakeNothing, NotFlushing, kindVars, Common
  <2> QED
    BY <1>1, <1>4, <2>1, <2>2 DEF GotoThen, Goto
<1> QED
  BY <1>5, <1>6, MovesReads

(* OpenSSL flushes after each read, with or without a record of its own,   *)
(* and answers a request for another handshake within the read.            *)
LEMMA OpensslReadSteps ==
  ASSUME WriteInv, ReadInv,
         openssl_renegotiate \/ \E max_len \in 1 .. 2 : openssl_read(max_len)
  PROVE  ReadInv' /\ (Records("reader", "end") \/ Quiet("reader"))
<1>0. "reader" \in Tasks /\ "call_read" \in ThensOf("reader") /\ "flush" \in StepsOf("reader")
  BY DEF Tasks, ThensOf, ReaderThens, StepsOf, ReaderSteps, Common
<1>1. /\ Here("reader", "call_read") /\ ~Schannel /\ ReadStays
      /\ UNCHANGED <<inbound, remaining, trailer, wire>>
      /\ GotoThen("reader", "flush", "call_read") /\ (Make("end") \/ MakeNothing)
  BY DEF openssl_renegotiate, openssl_read
<1>2. inside' \in Seq(Units) /\ rbuf' \in Seq(Units)
  <2>1. CASE UNCHANGED <<inside, rbuf>>
    BY <2>1, <1>0, Begins
  <2>2. CASE Take(RecordLength(Input))
    BY <2>2, <1>0, TakeIs, RecordLengthIs, Begins
  <2>3. CASE Take(MessageLength(Input))
    BY <2>3, <1>0, TakeIs, MessageLengthIs, Begins
  <2> QED
    BY <2>1, <2>2, <2>3 DEF openssl_renegotiate, openssl_read
<1>3. Moves("reader")
  BY <1>0, <1>1, <1>2, Begins DEF Moves, Here, ReadStays, kindVars, setupVars, GotoThen, Goto
<1>4. Records("reader", "end") \/ Quiet("reader")
  BY <1>0, <1>1, RecordsOrQuiet DEF Here, ReadStays, kindVars, GotoThen, Goto, Flush
<1> QED
  BY <1>0, <1>3, <1>4, MovesReads

(* What the writer's calls leave alone is the same for each.               *)
LEMMA CallMoves ==
  ASSUME WriteInv, ReadInv, NEW t \in Tasks, turn = t, Started(t), WriteStays,
         inside' \in Seq(Units), rbuf' \in Seq(Units), Schannel => inside' = <<>>,
         NEW s \in StepsOf(t), NEW n \in ThensOf(t),
         pc' = [pc EXCEPT ![t] = s], then' = [then EXCEPT ![t] = n], s \in Asking => n # "none"
  PROVE  ReadInv'
<1>1. Moves(t)
  BY Begins DEF Moves, WriteStays, kindVars, setupVars
<1> QED
  BY <1>1, MovesReads

(* The writer goes on to its shutdown.                                     *)
LEMMA DoneWritingSteps ==
  ASSUME WriteInv, ReadInv, DoneWriting PROVE ReadInv' /\ Quiet("writer")
<1>0. "writer" \in Tasks /\ "call_shutdown" \in StepsOf("writer") /\ "call_shutdown" \in AllSteps
      /\ "end" \in ThensOf("writer")
  BY DEF Tasks, StepsOf, ThensOf, WriterSteps, AllSteps, Common, WriterThens
<1>1. ReadInv'
  BY <1>0, Begins, CallMoves DEF DoneWriting, Here, GotoThen, Goto, Asking
<1>2. Quiet("writer")
  BY <1>0 DEF Quiet, kindVars, DoneWriting, Here, WriteStays, GotoThen, Goto, Flush
<1> QED
  BY <1>1, <1>2

(* A call that flushes, reads more or fails and makes no record.           *)
LEMMA CallQuiet ==
  ASSUME WriteInv, NEW t \in Tasks, turn = t, pc[t] \notin Flush, WriteStays, MakeNothing,
         NEW s \in AllSteps \ {"queued", "sending"}, pc' = [pc EXCEPT ![t] = s]
  PROVE  Quiet(t)
  BY DEF Quiet, WriteStays, MakeNothing, kindVars

(* A write makes a record and flushes it, flushes to have room for it,     *)
(* reads more, or fails.                                                   *)
LEMMA WriteOnceSteps ==
  ASSUME WriteInv, ReadInv, write_once
  PROVE  ReadInv' /\ (Records("writer", "end") \/ Quiet("writer"))
<1>0. /\ "writer" \in Tasks
      /\ Common \subseteq StepsOf("writer") /\ StepsOf("writer") \subseteq AllSteps
      /\ {"call_write", "fill_write"} \subseteq ThensOf("writer")
  BY CommonIs DEF Tasks, ThensOf, WriterThens
<1>1. /\ turn = "writer" /\ Started("writer") /\ pc["writer"] = "call_write" /\ WriteStays
  BY DEF write_once, Here
<1>2. inside' \in Seq(Units) /\ rbuf' \in Seq(Units) /\ (Schannel => inside' = <<>>)
  BY <1>0, TakeInIs, Begins DEF write_once
<1>3. \/ (Make("end") \/ MakeNothing) /\ GotoThen("writer", "flush", "call_write")
      \/ MakeNothing /\ Refill("writer", "call_write")
      \/ MakeNothing /\ Goto("writer", "raised") /\ UNCHANGED then
  BY DEF write_once
<1>4. \/ /\ Make("end") \/ MakeNothing
         /\ pc' = [pc EXCEPT !["writer"] = "flush"]
         /\ then' = [then EXCEPT !["writer"] = "call_write"]
      \/ /\ MakeNothing
         /\ \E s \in {"read_more", "flush"}, n \in {"call_write", "fill_write"} :
              pc' = [pc EXCEPT !["writer"] = s] /\ then' = [then EXCEPT !["writer"] = n]
      \/ /\ MakeNothing
         /\ pc' = [pc EXCEPT !["writer"] = "raised"] /\ UNCHANGED then
  <2>1. CASE MakeNothing /\ Refill("writer", "call_write")
    BY <2>1, <1>0, RefillIs DEF Fill
  <2> QED
    BY <1>3, <2>1 DEF GotoThen, Goto
<1>5. ReadInv'
  BY <1>0, <1>1, <1>2, <1>4, Begins, CallMoves DEF Common, Asking
<1>6. Records("writer", "end") \/ Quiet("writer")
  <2>0. pc["writer"] \notin Flush
    BY <1>1 DEF Flush
  <2>1. CASE (Make("end") \/ MakeNothing) /\ pc' = [pc EXCEPT !["writer"] = "flush"]
    BY <2>0, <2>1, <1>0, <1>1, RecordsOrQuiet DEF WriteStays, kindVars
  <2>2. CASE MakeNothing /\ \E s \in {"read_more", "raised"} : pc' = [pc EXCEPT !["writer"] = s]
    BY <2>0, <2>2, <1>0, <1>1, CallQuiet DEF Common
  <2> QED
    BY <1>4, <2>1, <2>2
<1> QED
  BY <1>5, <1>6

(* A shutdown goes on to its close_notify, or ends.                        *)
LEMMA ShutdownSteps ==
  ASSUME WriteInv, ReadInv, NEW t \in Tasks, shutdown(t)
  PROVE  ReadInv' /\ Quiet(t)
<1>0. Common \subseteq StepsOf(t) /\ StepsOf(t) \subseteq AllSteps
  BY CommonIs
<1>1. PICK s \in {"end", "goodbye", "raised"} : pc' = [pc EXCEPT ![t] = s]
  BY DEF shutdown, Goto
<1>2. ReadInv'
  BY <1>0, <1>1, Begins, CallMoves DEF shutdown, Here, Common, Asking
<1>3. Quiet(t)
  BY <1>0, <1>1, CallQuiet DEF shutdown, Here, Common, Flush, MakeNothing
<1> QED
  BY <1>2, <1>3

(* The close_notify is made and flushed, with or without counting it; or   *)
(* another record, more input, or a failure comes first.                   *)
LEMMA GoodbyeSteps ==
  ASSUME WriteInv, ReadInv, NEW t \in Tasks, schannel_goodbye(t) \/ openssl_goodbye(t)
  PROVE  ReadInv' /\ (Quiet(t) \/ Records(t, OutputPlace))
<1>0. /\ Common \subseteq StepsOf(t) /\ StepsOf(t) \subseteq AllSteps
      /\ {"goodbye", "fill_goodbye", "end"} \subseteq ThensOf(t)
  BY CommonIs
<1>1. turn = t /\ Started(t) /\ pc[t] = "goodbye" /\ WriteStays /\ pc[t] \notin Flush
  BY DEF schannel_goodbye, openssl_goodbye, Here, Flush
<1>2. inside' \in Seq(Units) /\ rbuf' \in Seq(Units) /\ (Schannel => inside' = <<>>)
  <2>1. CASE schannel_goodbye(t)
    <3>1. PICK n \in 0 .. Len(rbuf) : Drop(t, n)
      BY <2>1 DEF schannel_goodbye
    <3> QED
      BY <3>1, DropIs, Begins
  <2>2. CASE openssl_goodbye(t)
    BY <2>2, TakeInIs, Begins DEF openssl_goodbye
  <2> QED
    BY <2>1, <2>2
<1>3. \/ /\ Make(OutputPlace) \/ MakeNothing \/ (made' = made + 1 /\ UNCHANGED wbuf
                                                   /\ mishap' = mishap \cup {"uncounted"})
         /\ \E n \in {"goodbye", "end"} :
              pc' = [pc EXCEPT ![t] = "flush"] /\ then' = [then EXCEPT ![t] = n]
      \/ /\ MakeNothing
         /\ \E s \in {"read_more", "flush"}, n \in {"goodbye", "fill_goodbye"} :
              pc' = [pc EXCEPT ![t] = s] /\ then' = [then EXCEPT ![t] = n]
      \/ MakeNothing /\ pc' = [pc EXCEPT ![t] = "raised"] /\ UNCHANGED then
  <2>1. CASE schannel_goodbye(t)
    BY <2>1 DEF schannel_goodbye, GotoThen, Goto
  <2>2. CASE openssl_goodbye(t)
    <3>1. Refill(t, "goodbye") =>
             \E s \in {"read_more", "flush"}, n \in {"goodbye", "fill_goodbye"} :
                pc' = [pc EXCEPT ![t] = s] /\ then' = [then EXCEPT ![t] = n]
      BY <1>0, RefillIs DEF Fill
    <3>2. ~Schannel => OutputPlace = "end"
      BY DEF OutputPlace
    <3> QED
      BY <2>2, <3>1, <3>2 DEF openssl_goodbye, GotoThen, Goto
  <2> QED
    BY <2>1, <2>2
<1>4. ReadInv'
  <2>1. \E s \in StepsOf(t), n \in ThensOf(t) :
          /\ pc' = [pc EXCEPT ![t] = s] /\ then' = [then EXCEPT ![t] = n]
          /\ s \in Asking => n # "none"
    <3>1. CASE \E s \in {"read_more", "flush"}, n \in {"goodbye", "fill_goodbye", "end"} :
                  pc' = [pc EXCEPT ![t] = s] /\ then' = [then EXCEPT ![t] = n]
      BY <3>1, <1>0 DEF Common
    <3>2. CASE pc' = [pc EXCEPT ![t] = "raised"] /\ UNCHANGED then
      BY <3>2, <1>0, Begins DEF Common, Asking
    <3> QED
      BY <1>3, <3>1, <3>2
  <2> QED
    BY <2>1, <1>1, <1>2, CallMoves
<1>5. Quiet(t) \/ Records(t, OutputPlace)
  <2>1. CASE (Make(OutputPlace) \/ MakeNothing) /\ pc' = [pc EXCEPT ![t] = "flush"]
    BY <2>1, <1>1, RecordsOrQuiet DEF WriteStays, kindVars
  <2>2. CASE MakeNothing /\ \E s \in {"read_more", "raised"} : pc' = [pc EXCEPT ![t] = s]
    BY <2>2, <1>0, <1>1, CallQuiet DEF Common
  <2>3. CASE /\ made' = made + 1 /\ UNCHANGED wbuf /\ mishap' = mishap \cup {"uncounted"}
             /\ pc' = [pc EXCEPT ![t] = "flush"]
    BY <2>3, <1>0, <1>1 DEF Quiet, WriteStays, kindVars, Common
  <2> QED
    BY <1>3, <2>1, <2>2, <2>3
<1> QED
  BY <1>4, <1>5

(* The steps of a flush keep the invariant of the read side.               *)
LEMMA FlushReads ==
  ASSUME WriteInv, ReadInv, NEW t \in Tasks,
         FlushWrite(t) \/ WaitForLock(t) \/ Send(t) \/ Flushed(t)
  PROVE  ReadInv'
<1>1. /\ UNCHANGED <<kindVars, setupVars, tstate, readVars, turn, then>>
      /\ turn = t /\ pc[t] \in Flush /\ Started(t)
      /\ \E s \in {"raised", "sending", "queued", then[t]} : pc' = [pc EXCEPT ![t] = s]
  BY Begins DEF FlushWrite, WaitForLock, Send, Flushed, Here, Goto, Flush
<1>2. /\ then[t] \in StepsOf(t) /\ then[t] # "none"
      /\ {"raised", "sending", "queued"} \subseteq StepsOf(t)
  BY <1>1, FollowsIs, CommonIs, Begins DEF Asking, Flush, Common
<1>3. Moves(t)
  BY <1>1, <1>2, Begins DEF Moves, kindVars, setupVars, readVars, Asking
<1> QED
  BY <1>3, MovesReads

(* A task that is cancelled leaves the read side alone; while it waits to  *)
(* read, the write side, too.                                              *)
LEMMA GiveUpReads ==
  ASSUME WriteInv, ReadInv, NEW t \in Tasks, GiveUp(t)
  PROVE  ReadInv' /\ (pc[t] \in {"receiving", "read_queued"} => Quiet(t))
<1>0. "raised" \in StepsOf(t) /\ "raised" \in AllSteps
  BY CommonIs DEF Common
<1>1. Moves(t)
  BY <1>0, Begins DEF Moves, GiveUp, Goto, kindVars, setupVars, readVars, Asking
<1>2. pc[t] \in {"receiving", "read_queued"} => Quiet(t)
  BY <1>0 DEF Quiet, Flush, NotFlushing, GiveUp, Goto, kindVars, writeVars
<1> QED
  BY <1>1, <1>2, MovesReads

(* The invariant of a connection.                                          *)
ConnectionInv == HeldInv /\ WriteInv /\ ReadInv

(* The invariant holds of a connection that has not begun.                 *)
LEMMA ConnectionInit == TlsInit => ConnectionInv
<1> SUFFICES ASSUME TlsInit PROVE ConnectionInv
  OBVIOUS
<1>1. HeldInv
  BY HeldInit
<1>2. WriteTypes /\ Lock /\ Upto
  BY DEF WriteTypes, Lock, Upto, Sending, AllSteps, ReaderSteps, Common, Nobody, TlsInit, Tasks
<1>3. InOrder /\ Emptied /\ Once
  BY DEF InOrder, Emptied, Once, SentNow, TlsInit, Tasks
<1>4. ReadTypes
  BY TlsAssumption DEF ReadTypes, Thens, ThensOf, ReaderThens, WriterThens, StepsOf, ReaderSteps,
     WriterSteps, Common, Asking, TlsInit, Tasks
<1>5. Turns /\ Reading
  BY DEF Turns, Reading, Waits, TlsInit, Tasks
<1> QED
  BY <1>1, <1>2, <1>3, <1>4, <1>5 DEF ConnectionInv, WriteInv, ReadInv

(* Most steps acquire nothing.                                             *)
LEMMA HeldStays ==
  ASSUME HeldInv, UNCHANGED <<kindVars, setupVars>>
  PROVE  HeldInv'
  BY DEF HeldInv, Owning, SchannelOwns, OpensslOwns, NothingHeld, Temporary, Schannel, Client,
     kindVars, setupVars

(* The two kinds of step that are not part of a flush.                     *)
LEMMA QuietOrRecords ==
  ASSUME WriteInv, NEW t \in Tasks, Quiet(t) \/ Records(t, "start") \/ Records(t, "end")
  PROVE  WriteInv'
  BY QuietWrites, RecordsWrites

(* The steps either task can make keep the invariant.                      *)
LEMMA TaskSteps ==
  ASSUME ConnectionInv, NEW t \in Tasks, TaskStep(t) \/ GiveUp(t)
  PROVE  ConnectionInv'
<1>1. CASE ReadMore(t) \/ WaitToRead(t)
  BY <1>1, ReadMoreSteps, QuietOrRecords, HeldStays DEF ReadMore, WaitToRead, ConnectionInv
<1>2. CASE Receive(t)
  BY <1>2, ReceiveSteps, QuietOrRecords, HeldStays DEF Receive, ConnectionInv
<1>3. CASE FlushWrite(t)
  <2>1. ReadInv' /\ HeldInv'
    BY <1>3, FlushReads, HeldStays DEF FlushWrite, ConnectionInv
  <2>2. WriteInv'
    BY <1>3, LeavesFlush, StartsSending DEF FlushWrite, Here, kindVars, ReadInv, ConnectionInv
  <2> QED
    BY <2>1, <2>2 DEF ConnectionInv
<1>4. CASE WaitForLock(t)
  BY <1>4, FlushReads, WaitsForLock, HeldStays DEF WaitForLock, ConnectionInv
<1>5. CASE Send(t)
  BY <1>5, FlushReads, Sends, HeldStays DEF Send, ConnectionInv
<1>6. CASE Flushed(t)
  BY <1>6, FlushReads, FinishesFlush, HeldStays DEF Flushed, ReadInv, ConnectionInv
<1>7. CASE handshake(t)
  BY <1>7, HandshakeSteps, HandshakeHeld, QuietOrRecords DEF OutputPlace, ConnectionInv
<1>8. CASE FillAfterFlush(t)
  BY <1>8, FillSteps, QuietOrRecords, HeldStays DEF FillAfterFlush, ConnectionInv
<1>9. CASE connected(t)
  BY <1>9, ConnectedSteps, HandshakeHeld, QuietOrRecords DEF ConnectionInv
<1>10. CASE shutdown(t)
  BY <1>10, ShutdownSteps, QuietOrRecords, HeldStays DEF shutdown, WriteStays, ConnectionInv
<1>11. CASE schannel_goodbye(t) \/ openssl_goodbye(t)
  BY <1>11, GoodbyeSteps, QuietOrRecords, HeldStays DEF schannel_goodbye, openssl_goodbye,
     WriteStays, OutputPlace, ConnectionInv
<1>12. CASE GiveUp(t)
  BY <1>12, GiveUpReads, GivesUp, QuietOrRecords, HeldStays DEF GiveUp, ConnectionInv
<1> QED
  BY <1>1, <1>2, <1>3, <1>4, <1>5, <1>6, <1>7, <1>8, <1>9, <1>10, <1>11, <1>12 DEF TaskStep

(* Every step keeps the invariant.                                         *)
LEMMA ConnectionNext == ConnectionInv /\ [TlsNext]_tlsVars => ConnectionInv'
<1> SUFFICES ASSUME ConnectionInv, [TlsNext]_tlsVars PROVE ConnectionInv'
  OBVIOUS
<1>1. CASE SettingUp
  BY <1>1, SettingUpSteps, SetsUpWrites, NewHeld, ServerHeld, RootsHeld, OpensslHeld, ClosedHeld
     DEF SettingUp, ConnectionInv
<1>2. CASE HandshakeFailed \/ verify_peer_certificate \/ close \/ Panic
  BY <1>2, ClosingSteps, SetsUpWrites, ClosedHeld, VerifyHeld, PanicHeld DEF ConnectionInv
<1>3. CASE Switch
  BY <1>3, SwitchSteps, SetsUpWrites, HeldStays DEF Switch, ConnectionInv
<1>4. CASE StartHandshake \/ Begin
  BY <1>4, StartSteps, QuietOrRecords, HeldStays DEF StartHandshake, Begin, ConnectionInv
<1>5. CASE ReaderStep
  <2>1. CASE schannel_decrypt \/ read_eof \/ read_renegotiate
    BY <2>1, DecryptSteps, EofSteps, RenegotiateSteps, QuietOrRecords, HeldStays
       DEF schannel_decrypt, read_eof, read_renegotiate, ReadStays, Tasks, ConnectionInv
  <2>2. CASE read_wants_more \/ read_wants_write \/ read_fails
    BY <2>2, WantsMoreSteps, QuietOrRecords, HeldStays DEF read_wants_more, read_wants_write,
       read_fails, ReadStays, Tasks, ConnectionInv
  <2>3. CASE openssl_renegotiate \/ \E n \in 1 .. 2 : openssl_read(n)
    BY <2>3, OpensslReadSteps, QuietOrRecords, HeldStays DEF openssl_renegotiate, openssl_read,
       ReadStays, Tasks, ConnectionInv
  <2>4. ASSUME NEW n \in 1 .. 2, schannel_hand_out(n) PROVE ConnectionInv'
    BY <2>4, HandOutSteps, QuietOrRecords, HeldStays DEF schannel_hand_out, ReadStays, Tasks,
       ConnectionInv
  <2> QED
    BY <1>5, <2>1, <2>2, <2>3, <2>4 DEF ReaderStep
<1>6. CASE write_once \/ DoneWriting
  BY <1>6, WriteOnceSteps, DoneWritingSteps, QuietOrRecords, HeldStays DEF write_once,
     DoneWriting, WriteStays, Tasks, ConnectionInv
<1>7. ASSUME NEW t \in Tasks, TaskStep(t) \/ GiveUp(t) PROVE ConnectionInv'
  BY <1>7, TaskSteps
<1>8. CASE UNCHANGED tlsVars
  <2>1. HeldInv'
    BY <1>8, HeldStays DEF tlsVars, ConnectionInv
  <2>2. ReadInv'
    BY <1>8 DEF ReadInv, ReadTypes, Turns, Reading, tlsVars, kindVars, setupVars, readVars,
       taskVars, Schannel, ConnectionInv
  <2>3. WriteInv'
    BY <1>8 DEF WriteInv, WriteTypes, Lock, Upto, InOrder, Lively, Emptied, Once, SentNow, Sending,
       Flushing, tlsVars, kindVars, writeVars, taskVars, Schannel, Client, ConnectionInv
  <2> QED
    BY <2>1, <2>2, <2>3 DEF ConnectionInv
<1> QED
  BY <1>1, <1>2, <1>3, <1>4, <1>5, <1>6, <1>7, <1>8 DEF TlsNext, SetupStep, SettingUp

(* The invariant holds throughout, for any stream of the peer, any number  *)
(* of writes and any size of the buffer.                                   *)
THEOREM ConnectionInvariance == TlsSpec => []ConnectionInv
  BY ConnectionInit, ConnectionNext, PTL DEF TlsSpec

(* A connection that failed at any stage or was closed holds nothing       *)
(* (other than a server's whose key file cannot be read, which ends in     *)
(* neither), and the state recorded on Schannel says which credential and  *)
(* security context there is to free: moonbitlang_async_schannel_free      *)
(* goes by it.                                                             *)
THEOREM NothingHeldHolds == TlsSpec => []NothingHeld
<1>1. ConnectionInv => NothingHeld
  BY DEF ConnectionInv, HeldInv
<1> QED
  BY <1>1, ConnectionInvariance, PTL

(* The rest of a sequence, entry by entry.                                 *)
LEMMA RestIs ==
  ASSUME NEW s \in Seq(Nat), NEW k \in 0 .. Len(s)
  PROVE  /\ SubSeq(s, k + 1, Len(s)) \in Seq(Nat) /\ Len(SubSeq(s, k + 1, Len(s))) = Len(s) - k
         /\ \A i \in 1 .. Len(s) - k : SubSeq(s, k + 1, Len(s))[i] = s[k + i]
<1>1. k \in Nat /\ Len(s) \in Nat /\ k <= Len(s)
  OBVIOUS
<1>2. \A i \in k + 1 .. Len(s) : s[i] \in Nat
  BY <1>1
<1> DEFINE rest == SubSeq(s, k + 1, Len(s))
<1>3. /\ rest \in Seq(Nat)
      /\ Len(rest) = IF k + 1 <= Len(s) THEN Len(s) - (k + 1) + 1 ELSE 0
      /\ \A i \in 1 .. Len(s) - (k + 1) + 1 : rest[i] = s[(k + 1) + i - 1]
  BY <1>1, <1>2, SubSeqProperties
<1> HIDE DEF rest
<1>4. Len(rest) = Len(s) - k
  BY <1>1, <1>3
<1>5. ASSUME NEW i \in 1 .. Len(s) - k PROVE rest[i] = s[k + i]
  <2>1. i \in 1 .. Len(s) - (k + 1) + 1 /\ (k + 1) + i - 1 = k + i
    BY <1>1
  <2> QED
    BY <2>1, <1>3
<1> QED
  BY <1>3, <1>4, <1>5 DEF rest

(* Wire and rest of the buffer have the entries of the whole.              *)
LEMMA WholeParts ==
  ASSUME WriteTypes, InOrder, mishap = {}, Lively, SentNow \in 0 .. Len(wbuf),
         NEW rest \in Seq(Nat), Len(rest) = Len(wbuf) - SentNow,
         \A i \in 1 .. Len(rest) : rest[i] = wbuf[SentNow + i]
  PROVE  /\ Len(wire) + Len(rest) = made
         /\ \A i \in 1 .. Len(wire) : wire[i] = i
         /\ \A i \in 1 .. Len(rest) : rest[i] = Len(wire) + i
<1>1. /\ Len(wire) + Len(wbuf) - SentNow = made
      /\ \A i \in 1 .. Len(wire) : wire[i] = i
      /\ \A i \in 1 .. Len(wbuf) : i > SentNow => wbuf[i] = Len(wire) + i - SentNow
  BY Shapes DEF InOrder
<1>2. ASSUME NEW i \in 1 .. Len(rest) PROVE rest[i] = Len(wire) + i
  <2>1. SentNow + i \in 1 .. Len(wbuf) /\ SentNow + i > SentNow
    BY Shapes
  <2>2. wbuf[SentNow + i] = Len(wire) + (SentNow + i) - SentNow
    BY <2>1, <1>1
  <2> QED
    BY <2>2, Shapes
<1> QED
  BY <1>1, <1>2, Shapes

(* So they are the whole.                                                  *)
LEMMA WholeWire == ConnectionInv => WireIsWhole
<1> SUFFICES ASSUME ConnectionInv, mishap = {} PROVE WireIsWhole
  BY DEF WireIsWhole
<1> DEFINE flushing == {t \in Tasks : pc[t] = "sending"}
           part == IF flushing = {} THEN 0 ELSE at[CHOOSE t \in flushing : TRUE]
           rest == SubSeq(wbuf, part + 1, Len(wbuf))
<1>1. part = SentNow /\ part \in 0 .. Len(wbuf)
  BY SentNowIs DEF Sending, ConnectionInv, WriteInv
<1>2. /\ rest \in Seq(Nat) /\ Len(rest) = Len(wbuf) - part
      /\ \A i \in 1 .. Len(rest) : rest[i] = wbuf[part + i]
  <2>1. wbuf \in Seq(Nat)
    BY DEF WriteTypes, ConnectionInv, WriteInv
  <2> HIDE DEF part
  <2>2. /\ rest \in Seq(Nat) /\ Len(rest) = Len(wbuf) - part
        /\ \A i \in 1 .. Len(wbuf) - part : rest[i] = wbuf[part + i]
    BY <1>1, <2>1, RestIs
  <2> QED
    BY <2>2
<1>4. wire = Numbers(Len(wire))
  <2>1. wire \in Seq(Nat) /\ Len(wire) \in Nat /\ \A i \in 1 .. Len(wire) : wire[i] = i
    BY Shapes DEF InOrder, WriteTypes, ConnectionInv, WriteInv
  <2>2. /\ Numbers(Len(wire)) \in Seq(Nat) /\ Len(Numbers(Len(wire))) = Len(wire)
        /\ \A i \in 1 .. Len(wire) : Numbers(Len(wire))[i] = i
    BY <2>1 DEF Numbers
  <2> QED
    BY <2>1, <2>2, SeqEqual
<1>3. ASSUME Lively PROVE wire \o rest = Numbers(made)
  <2> HIDE DEF rest, part
  <2>1. /\ Len(wire) + Len(rest) = made
        /\ \A i \in 1 .. Len(wire) : wire[i] = i
        /\ \A i \in 1 .. Len(rest) : rest[i] = Len(wire) + i
    BY <1>1, <1>2, <1>3, WholeParts DEF ConnectionInv, WriteInv
  <2>2. /\ wire \o rest \in Seq(Nat) /\ Len(wire \o rest) = made
        /\ \A i \in 1 .. made : (wire \o rest)[i] = i
    <3>1. wire \in Seq(Nat) /\ rest \in Seq(Nat) /\ Len(wire) \in Nat /\ Len(rest) \in Nat
      BY <1>2, Shapes DEF WriteTypes, ConnectionInv, WriteInv
    <3>2. /\ wire \o rest \in Seq(Nat) /\ Len(wire \o rest) = Len(wire) + Len(rest)
          /\ \A i \in 1 .. Len(wire) + Len(rest) :
               (wire \o rest)[i] = IF i <= Len(wire) THEN wire[i] ELSE rest[i - Len(wire)]
      BY <3>1, ConcatProperties
    <3>3. ASSUME NEW i \in 1 .. made PROVE (wire \o rest)[i] = i
      <4>1. CASE i <= Len(wire)
        BY <4>1, <2>1, <3>1, <3>2
      <4>2. CASE ~(i <= Len(wire))
        <5>1. i - Len(wire) \in 1 .. Len(rest) /\ Len(wire) + (i - Len(wire)) = i
          BY <4>2, <2>1, <3>1
        <5> QED
          BY <4>2, <5>1, <2>1, <3>1, <3>2
      <4> QED
        BY <4>1, <4>2 DEF WriteInv
    <3> QED
      BY <2>1, <3>2, <3>3
  <2>3. /\ Numbers(made) \in Seq(Nat) /\ Len(Numbers(made)) = made
        /\ \A i \in 1 .. made : Numbers(made)[i] = i
    BY Shapes DEF Numbers, ConnectionInv, WriteInv
  <2> QED
    BY <2>2, <2>3, SeqEqual DEF WriteInv
<1>5. (tstate = "Normal" \/ flushing # {}) => Lively
  BY DEF Lively, Sending
<1> QED
  BY <1>3, <1>4, <1>5 DEF WireIsWhole

(* What the peer has received are the records in their order, and with     *)
(* what is still to be sent on an open transport all that were made, as    *)
(* long as no flush was overtaken or given up.                             *)
THEOREM WireIsWholeHolds == TlsSpec => []WireIsWhole
  BY WholeWire, ConnectionInvariance, PTL

(* With two tasks flushing one buffer, no record is sent twice unless a    *)
(* flush was given up.                                                     *)
THEOREM NoRecordTwiceHolds == TlsSpec => []NoRecordTwice
<1>1. ConnectionInv => NoRecordTwice
  BY DEF ConnectionInv, WriteInv, Once, NoRecordTwice
<1> QED
  BY <1>1, ConnectionInvariance, PTL

(* What the reader was given, and what OpenSSL has for it.                 *)
Read == got \o plain

(* Types of the stream; Schannel decrypts where the record is.             *)
StreamTypes ==
    /\ sent \in Streams /\ got \in Seq(Bytes) /\ plain \in Seq(Bytes)
    /\ Schannel => plain = <<>>

(* What has not been taken is the rest of the stream.                      *)
StillLeft ==
    /\ Len(Left) <= Len(sent)
    /\ \A i \in 1 .. Len(Left) : Left[i] = sent[Taken + i]

(* Of what has been taken, each byte is at its place in what was read.     *)
ReadSoFar ==
    /\ Len(Read) = BytesUpTo(Taken)
    /\ \A p \in 1 .. Taken : sent[p] \in Bytes => Read[BytesUpTo(p)] = sent[p]

(* What Schannel says remains of a record are bytes, and its trailer comes *)
(* behind them.                                                            *)
Cut ==
    remaining > 0 =>
       /\ Schannel /\ trailer = 1
       /\ remaining < Len(rbuf) /\ rbuf[remaining + 1] = "t"
       /\ \A i \in 1 .. remaining : rbuf[i] \in Bytes

(* A reader on Schannel that goes to its end has no byte left to read.     *)
Ends == {"call_shutdown", "goodbye", "fill_goodbye", "end"}
NoByteLeft == \A i \in 1 .. Len(Left) : Left[i] \notin Bytes
Closing ==
    Schannel =>
       /\ then["reader"] \in Ends => pc["reader"] \in Asking \cup Ends \cup {"raised"}
       /\ {pc["reader"], then["reader"]} \cap Ends # {} => NoByteLeft

(* The end of the stream comes after all of it.                            *)
ClosedAtEnd == (tstate = "Closed" /\ setup \notin Done) => inbound = <<>>

(* The invariant of what is read.                                          *)
StreamInv ==
    StreamTypes /\ StillLeft /\ ReadSoFar /\ Cut /\ Closing /\ ClosedAtEnd

(* A step that passes a units that are no bytes, gives the reader n bytes  *)
(* and passes b more units that are none.                                  *)
Passes(a, n, b) ==
    /\ a + n + b <= Len(Left) /\ Len(Left') = Len(Left) - (a + n + b)
    /\ \A i \in 1 .. Len(Left') : Left'[i] = Left[i + a + n + b]
    /\ \A i \in 1 .. a + n + b : Left[i] \in Bytes <=> i \in a + 1 .. a + n
    /\ Len(Read') = Len(Read) + n
    /\ \A i \in 1 .. Len(Read) : Read'[i] = Read[i]
    /\ \A i \in 1 .. n : Read'[Len(Read) + i] = Left[a + i]

(* A finite number of the stream's units are bytes.                        *)
LEMMA BytesUpToIs ==
  ASSUME NEW p \in Nat
  PROVE  /\ IsFiniteSet({q \in 1 .. p : sent[q] \in Bytes})
         /\ BytesUpTo(p) \in Nat
<1>1. IsFiniteSet(1 .. p)
  BY FS_Interval
<1>2. {q \in 1 .. p : sent[q] \in Bytes} \subseteq 1 .. p
  OBVIOUS
<1> QED
  BY <1>1, <1>2, FS_Subset, FS_CardinalityType DEF BytesUpTo

(* A run of bytes counts in full.                                          *)
LEMMA BytesGrow ==
  ASSUME NEW p \in Nat, NEW n \in Nat, \A q \in p + 1 .. p + n : sent[q] \in Bytes
  PROVE  BytesUpTo(p + n) = BytesUpTo(p) + n
<1> DEFINE old == {q \in 1 .. p : sent[q] \in Bytes}
           new == p + 1 .. p + n
           all == {q \in 1 .. p + n : sent[q] \in Bytes}
<1>1. all = old \cup new /\ old \cap new = {}
  OBVIOUS
<1>2. IsFiniteSet(new) /\ Cardinality(new) = n
  <2>1. Cardinality(new) = IF p + 1 > p + n THEN 0 ELSE (p + n) - (p + 1) + 1
    BY FS_Interval
  <2> QED
    BY <2>1, FS_Interval
<1>3. IsFiniteSet(old) /\ Cardinality(old) \in Nat
  BY BytesUpToIs DEF BytesUpTo
<1> HIDE DEF old, new, all
<1>4. Cardinality(all) = Cardinality(old) + Cardinality(new) - Cardinality(old \cap new)
  BY <1>1, <1>2, <1>3, FS_Union
<1>5. Cardinality(old \cap new) = 0
  BY <1>1, FS_EmptySet
<1>6. Cardinality(all) = Cardinality(old) + n
  BY <1>2, <1>3, <1>4, <1>5
<1> QED
  BY <1>6 DEF BytesUpTo, old, all

(* Units that are no bytes do not count.                                   *)
LEMMA BytesStay ==
  ASSUME NEW p \in Nat, NEW n \in Nat, \A q \in p + 1 .. p + n : sent[q] \notin Bytes
  PROVE  BytesUpTo(p + n) = BytesUpTo(p)
<1>1. {q \in 1 .. p + n : sent[q] \in Bytes} = {q \in 1 .. p : sent[q] \in Bytes}
  OBVIOUS
<1> QED
  BY <1>1 DEF BytesUpTo

(* The place of a byte is among those of all bytes so far.                 *)
LEMMA BytesWithin ==
  ASSUME NEW r \in Nat, NEW p \in 1 .. r, sent[p] \in Bytes
  PROVE  BytesUpTo(p) \in 1 .. BytesUpTo(r)
<1> DEFINE upto_p == {q \in 1 .. p : sent[q] \in Bytes}
           upto_r == {q \in 1 .. r : sent[q] \in Bytes}
<1>1. upto_p \subseteq upto_r /\ p \in upto_p
  OBVIOUS
<1>2. IsFiniteSet(upto_p) /\ IsFiniteSet(upto_r)
      /\ Cardinality(upto_p) \in Nat /\ Cardinality(upto_r) \in Nat
  BY BytesUpToIs DEF BytesUpTo
<1> HIDE DEF upto_p, upto_r
<1>3. Cardinality(upto_p) <= Cardinality(upto_r)
  BY <1>1, <1>2, FS_Subset
<1>4. Cardinality(upto_p) # 0
  BY <1>1, <1>2, FS_EmptySet
<1>5. Cardinality(upto_p) \in 1 .. Cardinality(upto_r)
  BY <1>2, <1>3, <1>4
<1> QED
  BY <1>5 DEF BytesUpTo, upto_p, upto_r

(* A step that passes units in this way keeps the reader's place.          *)
LEMMA PassesKeeps ==
  ASSUME StillLeft, ReadSoFar, NEW a \in Nat, NEW n \in Nat, NEW b \in Nat, Passes(a, n, b),
         sent \in Seq(Units), Left \in Seq(Units), UNCHANGED sent
  PROVE  StillLeft' /\ ReadSoFar'
<1>1. /\ Len(sent) \in Nat /\ Len(Left) \in Nat /\ Taken \in Nat
      /\ Taken = Len(sent) - Len(Left) /\ Len(sent') = Len(sent)
      /\ Taken' = Taken + a + n + b
      /\ a + n + b <= Len(Left) /\ Len(Left') = Len(Left) - (a + n + b)
  BY DEF Taken, StillLeft, Passes
<1>2. \A i \in 1 .. Len(Left) : Left[i] = sent[Taken + i]
  BY DEF StillLeft
<1>3. StillLeft'
  <2>1. Len(Left') <= Len(sent')
    BY <1>1 DEF Passes, StillLeft
  <2>2. ASSUME NEW i \in 1 .. Len(Left') PROVE Left'[i] = sent'[Taken' + i]
    <3>1. Left'[i] = Left[i + a + n + b]
      BY DEF Passes
    <3>2. i + a + n + b \in 1 .. Len(Left)
      BY <1>1
    <3>3. Left[i + a + n + b] = sent[Taken + (i + a + n + b)]
      BY <1>2, <3>2
    <3>4. Taken + (i + a + n + b) = Taken' + i
      BY <1>1
    <3> QED
      BY <3>1, <3>3, <3>4
  <2> QED
    BY <2>1, <2>2 DEF StillLeft
<1>4. \A i \in 1 .. a + n + b : sent[Taken + i] \in Bytes <=> i \in a + 1 .. a + n
  <2> SUFFICES ASSUME NEW i \in 1 .. a + n + b
               PROVE  sent[Taken + i] \in Bytes <=> i \in a + 1 .. a + n
    OBVIOUS
  <2>1. i \in 1 .. Len(Left)
    BY <1>1 DEF Passes
  <2> QED
    BY <2>1, <1>2 DEF Passes
<1>5. \A q \in Taken + 1 .. Taken + a : sent[q] \notin Bytes
  <2> SUFFICES ASSUME NEW q \in Taken + 1 .. Taken + a PROVE sent[q] \notin Bytes
    OBVIOUS
  <2>1. q - Taken \in 1 .. a + n + b /\ Taken + (q - Taken) = q /\ q - Taken \notin a + 1 .. a + n
    BY <1>1
  <2> QED
    BY <2>1, <1>4
<1>6. \A q \in Taken + a + 1 .. Taken + a + n : sent[q] \in Bytes
  <2> SUFFICES ASSUME NEW q \in Taken + a + 1 .. Taken + a + n PROVE sent[q] \in Bytes
    OBVIOUS
  <2>1. q - Taken \in 1 .. a + n + b /\ Taken + (q - Taken) = q /\ q - Taken \in a + 1 .. a + n
    BY <1>1
  <2> QED
    BY <2>1, <1>4
<1>7. \A q \in Taken + a + n + 1 .. Taken + a + n + b : sent[q] \notin Bytes
  <2> SUFFICES ASSUME NEW q \in Taken + a + n + 1 .. Taken + a + n + b
               PROVE  sent[q] \notin Bytes
    OBVIOUS
  <2>1. q - Taken \in 1 .. a + n + b /\ Taken + (q - Taken) = q /\ q - Taken \notin a + 1 .. a + n
    BY <1>1
  <2> QED
    BY <2>1, <1>4
<1>8. /\ BytesUpTo(Taken + a) = BytesUpTo(Taken)
      /\ \A i \in 0 .. n : BytesUpTo(Taken + a + i) = BytesUpTo(Taken) + i
      /\ BytesUpTo(Taken + a + n + b) = BytesUpTo(Taken) + n
  <2>1. BytesUpTo(Taken + a) = BytesUpTo(Taken)
    BY <1>1, <1>5, BytesStay
  <2>2. ASSUME NEW i \in 0 .. n PROVE BytesUpTo(Taken + a + i) = BytesUpTo(Taken) + i
    <3> DEFINE r == Taken + a
    <3>1. r \in Nat /\ i \in Nat
      BY <1>1
    <3>2. \A q \in r + 1 .. r + i : sent[q] \in Bytes
      BY <1>1, <1>6
    <3>3. BytesUpTo(r) = BytesUpTo(Taken)
      BY <2>1
    <3> HIDE DEF r
    <3>4. BytesUpTo(r + i) = BytesUpTo(Taken) + i
      BY <3>1, <3>2, <3>3, BytesGrow
    <3> QED
      BY <3>4 DEF r
  <2>3. BytesUpTo((Taken + a + n) + b) = BytesUpTo(Taken + a + n)
    <3>1. Taken + a + n \in Nat
      BY <1>1
    <3> QED
      BY <3>1, <1>7, BytesStay
  <2> QED
    BY <2>1, <2>2, <2>3
<1>9. \A p : BytesUpTo(p)' = BytesUpTo(p)
  BY DEF BytesUpTo
<1>10. (Len(Read) = BytesUpTo(Taken))'
  <2>1. BytesUpTo(Taken)' = BytesUpTo(Taken + a + n + b)
    BY <1>1 DEF BytesUpTo
  <2> QED
    BY <2>1, <1>8 DEF Passes, ReadSoFar
<1>11. ASSUME NEW p \in 1 .. Taken', sent'[p] \in Bytes PROVE Read'[BytesUpTo(p)] = sent'[p]
  <2>0. sent[p] \in Bytes /\ BytesUpTo(Taken) \in Nat
    BY <1>11, <1>1, BytesUpToIs
  <2>1. CASE p <= Taken
    <3>1. p \in 1 .. Taken
      BY <2>1, <1>1
    <3>2. BytesUpTo(p) \in 1 .. Len(Read) /\ Read[BytesUpTo(p)] = sent[p]
      BY <3>1, <2>0, <1>1, BytesWithin DEF ReadSoFar
    <3> QED
      BY <3>2 DEF Passes
  <2>2. CASE p > Taken
    <3>1. p - Taken \in 1 .. a + n + b /\ Taken + (p - Taken) = p
      BY <2>2, <1>1
    <3>2. p - Taken \in a + 1 .. a + n
      BY <3>1, <2>0, <1>4
    <3> DEFINE i == p - Taken - a
    <3>3. i \in 1 .. n /\ Taken + a + i = p /\ a + i \in 1 .. Len(Left) /\ Taken + (a + i) = p
      BY <3>2, <1>1 DEF Passes
    <3> HIDE DEF i
    <3>4. BytesUpTo(p) = BytesUpTo(Taken) + i
      BY <3>3, <1>8
    <3>5. Read'[BytesUpTo(Taken) + i] = Left[a + i]
      BY <3>3 DEF Passes, ReadSoFar
    <3>6. Left[a + i] = sent[p]
      BY <3>3, <1>2
    <3> QED
      BY <3>4, <3>5, <3>6
  <2> QED
    BY <2>1, <2>2, <1>1
<1>12. ReadSoFar'
  BY <1>9, <1>10, <1>11 DEF ReadSoFar
<1> QED
  BY <1>3, <1>12

(* The rest of a sequence and what follows it are the rest of both.        *)
LEMMA RestOfBoth ==
  ASSUME NEW S, NEW s \in Seq(S), NEW t \in Seq(S), NEW m \in 1 .. Len(s) + 1
  PROVE  LET r == SubSeq(s, m, Len(s))
         IN /\ r \in Seq(S) /\ Len(r) = Len(s) - m + 1
            /\ \A i \in 1 .. Len(r) : r[i] = s[i + m - 1]
            /\ Len(r \o t) = Len(s \o t) - m + 1
            /\ \A i \in 1 .. Len(r \o t) : (r \o t)[i] = (s \o t)[i + m - 1]
<1> DEFINE r == SubSeq(s, m, Len(s))
<1>1. m \in Nat /\ Len(s) \in Nat /\ Len(t) \in Nat /\ m <= Len(s) + 1
  OBVIOUS
<1>2. r \in Seq(S) /\ Len(r) = Len(s) - m + 1 /\ \A i \in 1 .. Len(r) : r[i] = s[i + m - 1]
  <2>1. \A i \in m .. Len(s) : s[i] \in S
    BY <1>1
  <2>2. /\ r \in Seq(S)
        /\ Len(r) = IF m <= Len(s) THEN Len(s) - m + 1 ELSE 0
        /\ \A i \in 1 .. Len(s) - m + 1 : r[i] = s[m + i - 1]
    BY <1>1, <2>1, SubSeqProperties
  <2> HIDE DEF r
  <2>3. Len(r) = Len(s) - m + 1
    BY <1>1, <2>2
  <2>4. ASSUME NEW i \in 1 .. Len(r) PROVE r[i] = s[i + m - 1]
    <3>1. i \in 1 .. Len(s) - m + 1 /\ m + i - 1 = i + m - 1
      BY <1>1, <2>3
    <3> QED
      BY <3>1, <2>2
  <2> QED
    BY <2>2, <2>3, <2>4
<1> HIDE DEF r
<1>3. /\ s \o t \in Seq(S) /\ Len(s \o t) = Len(s) + Len(t)
      /\ \A i \in 1 .. Len(s) + Len(t) :
           (s \o t)[i] = IF i <= Len(s) THEN s[i] ELSE t[i - Len(s)]
  BY ConcatProperties
<1>4. /\ r \o t \in Seq(S) /\ Len(r \o t) = Len(r) + Len(t)
      /\ \A i \in 1 .. Len(r) + Len(t) :
           (r \o t)[i] = IF i <= Len(r) THEN r[i] ELSE t[i - Len(r)]
  BY <1>2, ConcatProperties
<1>5. ASSUME NEW i \in 1 .. Len(r \o t) PROVE (r \o t)[i] = (s \o t)[i + m - 1]
  <2>1. i \in 1 .. Len(r) + Len(t) /\ i + m - 1 \in 1 .. Len(s) + Len(t)
    BY <1>1, <1>2, <1>4
  <2>2. CASE i <= Len(r)
    <3>1. i \in 1 .. Len(r) /\ i + m - 1 <= Len(s)
      BY <2>1, <2>2, <1>1, <1>2
    <3> QED
      BY <2>1, <2>2, <3>1, <1>2, <1>3, <1>4
  <2>3. CASE ~(i <= Len(r))
    <3>1. ~(i + m - 1 <= Len(s)) /\ (i + m - 1) - Len(s) = i - Len(r)
      BY <2>1, <2>3, <1>1, <1>2
    <3> QED
      BY <2>1, <2>3, <3>1, <1>3, <1>4
  <2> QED
    BY <2>2, <2>3
<1>7. Len(r \o t) = Len(s \o t) - m + 1
  BY <1>1, <1>2, <1>3, <1>4
<1> QED
  BY <1>2, <1>5, <1>7 DEF r

(* Steps that hand nothing out and, on Schannel, leave the buffer alone.   *)
LEMMA StaysKeeps ==
  ASSUME StreamInv, UNCHANGED <<backend, sent, plain, remaining, trailer, got>>,
         Left' = Left, Schannel => UNCHANGED rbuf, Closing', ClosedAtEnd'
  PROVE  StreamInv'
<1>1. StreamTypes'
  BY DEF StreamInv, StreamTypes, Schannel
<1>2. Cut'
  BY DEF StreamInv, Cut, Schannel
<1>3. StillLeft' /\ ReadSoFar'
  BY DEF StreamInv, StillLeft, ReadSoFar, Taken, Read, BytesUpTo
<1> QED
  BY <1>1, <1>2, <1>3 DEF StreamInv

(* Setting up, closing, a change of turn and the end of the program leave  *)
(* the reader where it is.                                                 *)
LEMMA SetupStreams ==
  ASSUME StreamInv, ReadInv,
         \/ SettingUp \/ HandshakeFailed \/ verify_peer_certificate \/ close \/ Switch \/ Panic
  PROVE  StreamInv'
<1>1. UNCHANGED <<backend, sent, readVars, pc, then>>
  BY DEF SettingUp, schannel_new, read_pfx, acquire_credentials, init_server,
     add_root_certificate, openssl_ctx, openssl_ssl, peer_certificate, NoTraffic,
     HandshakeFailed, verify_peer_certificate, close, Switch, Panic, kindVars, taskVars
<1>2. Closing' /\ Left' = Left
  BY <1>1 DEF StreamInv, Closing, NoByteLeft, Left, Schannel, readVars
<1>3. ClosedAtEnd'
  BY DEF StreamInv, ClosedAtEnd, SettingUp, schannel_new, read_pfx, acquire_credentials,
     init_server, add_root_certificate, openssl_ctx, openssl_ssl, peer_certificate, NoTraffic,
     HandshakeFailed, verify_peer_certificate, close, Switch, Panic, Here, Started, readVars,
     setupVars, SetUp, Done
<1> QED
  BY <1>1, <1>2, <1>3, StaysKeeps DEF readVars

(* The writer's steps are none of the reader's.                            *)
LEMMA WriterCloses ==
  ASSUME StreamInv, UNCHANGED backend, Left' = Left,
         pc'["reader"] = pc["reader"], then'["reader"] = then["reader"]
  PROVE  Closing'
  BY DEF StreamInv, Closing, NoByteLeft, Schannel

(* A task that flushes, shuts down, begins or gives up reads nothing; the  *)
(* reader comes to its end only when it was going there.                   *)
LEMMA OtherStreams ==
  ASSUME StreamInv, WriteInv, ReadInv, NEW t \in Tasks,
         \/ ReadMore(t) \/ WaitToRead(t) \/ FlushWrite(t) \/ WaitForLock(t) \/ Send(t)
         \/ Flushed(t) \/ FillAfterFlush(t) \/ connected(t) \/ shutdown(t) \/ GiveUp(t)
  PROVE  StreamInv'
<1>1. UNCHANGED <<backend, sent, inside, rbuf, inbound, plain, remaining, trailer, got>>
  BY DEF ReadMore, WaitToRead, FlushWrite, WaitForLock, Send, Flushed, FillAfterFlush, connected,
     shutdown, GiveUp, WriteStays, kindVars, readVars
<1>2. ClosedAtEnd'
  <2>1. tstate' = "Closed" => tstate = "Closed"
    BY DEF ReadMore, WaitToRead, FlushWrite, WaitForLock, Send, Flushed, FillAfterFlush, connected,
       shutdown, GiveUp, WriteStays
  <2>2. setup' \notin Done => setup \notin Done
    BY DEF ReadMore, WaitToRead, FlushWrite, WaitForLock, Send, Flushed, FillAfterFlush, connected,
       shutdown, GiveUp, WriteStays, setupVars, Here, Started, Done
  <2> QED
    BY <1>1, <2>1, <2>2 DEF StreamInv, ClosedAtEnd
<1>4. Left' = Left
  BY <1>1 DEF Left
<1>3. Closing'
  <2> SUFFICES ASSUME Schannel PROVE Closing'
    BY <1>1 DEF Closing, Schannel
  <2>1. pc \in [Tasks -> AllSteps] /\ then \in [Tasks -> Thens]
    BY Begins
  <2>2. CASE t = "writer"
    <3>1. pc'["reader"] = pc["reader"] /\ then'["reader"] = then["reader"]
      BY <2>1, <2>2 DEF ReadMore, WaitToRead, FlushWrite, WaitForLock, Send, Flushed,
         FillAfterFlush, connected, shutdown, GiveUp, Goto, GotoThen, Tasks
    <3> QED
      BY <1>1, <1>4, <3>1, WriterCloses
  <2>3. CASE t = "reader"
    <3>1. /\ then["reader"] \in Ends => pc["reader"] \in Asking \cup Ends \cup {"raised"}
          /\ {pc["reader"], then["reader"]} \cap Ends # {} => NoByteLeft
          /\ NoByteLeft => NoByteLeft'
      BY <1>4 DEF StreamInv, Closing, NoByteLeft
    <3>2. CASE ReadMore(t) \/ WaitToRead(t) \/ connected(t) \/ GiveUp(t)
      BY <2>1, <2>3, <3>1, <3>2 DEF Closing, ReadMore, WaitToRead, connected, GiveUp, Here, Goto,
         Ends, Asking, Tasks
    <3>3. CASE FlushWrite(t) \/ WaitForLock(t) \/ Send(t) \/ Flushed(t)
      BY <2>1, <2>3, <3>1, <3>3 DEF Closing, FlushWrite, WaitForLock, Send, Flushed, Here, Goto,
         Ends, Asking, Tasks
    <3>4. CASE FillAfterFlush(t)
      <4>1. PICK call \in {"handshake", "call_read", "call_write", "goodbye"} :
               pc["reader"] = Fill[call] /\ GotoThen("reader", "read_more", call)
        BY <2>3, <3>4 DEF FillAfterFlush, Fill
      <4>2. call = "goodbye" => Fill[call] \in Ends
        BY DEF Fill, Ends
      <4> QED
        BY <2>1, <3>1, <4>1, <4>2 DEF Closing, GotoThen, Goto, Ends, Asking, Tasks
    <3>5. CASE shutdown(t)
      BY <2>1, <2>3, <3>1, <3>5 DEF Closing, shutdown, Here, Goto, Ends, Asking, Tasks
    <3> QED
      BY <3>2, <3>3, <3>4, <3>5
  <2> QED
    BY <2>2, <2>3 DEF Tasks
<1> QED
  BY <1>1, <1>2, <1>3, <1>4, StaysKeeps

(* What the library takes in is still there.                               *)
LEMMA TakeInLeaves ==
  ASSUME ReadInv, TakeIn, UNCHANGED inbound
  PROVE  Left' = Left /\ (Schannel => UNCHANGED rbuf)
<1>1. CASE Schannel \/ tstate # "Normal"
  BY <1>1 DEF TakeIn, Left
<1>2. CASE ~(Schannel \/ tstate # "Normal")
  <2>1. inside' \o rbuf' = Input
    BY <1>2, InputIs, ConcatEmptySeq DEF TakeIn
  <2> QED
    BY <1>2, <2>1 DEF Left, Input
<1> QED
  BY <1>1, <1>2

(* The writer's calls, and both tasks' beginnings.                         *)
LEMMA WriterStreams ==
  ASSUME StreamInv, WriteInv, ReadInv, StartHandshake \/ Begin \/ write_once \/ DoneWriting
  PROVE  StreamInv'
<1>1. UNCHANGED <<backend, sent, inbound, plain, remaining, trailer, got, setup, tstate>>
  BY DEF StartHandshake, Begin, write_once, DoneWriting, WriteStays, kindVars, setupVars, readVars
<1>2. ClosedAtEnd'
  BY <1>1 DEF StreamInv, ClosedAtEnd
<1>3. /\ then'["reader"] = then["reader"]
      /\ pc'["reader"] = pc["reader"]
         \/ (pc["reader"] = "start" /\ pc'["reader"] = "handshake")
  BY Begins DEF StartHandshake, Begin, write_once, DoneWriting, Refill, Here, Goto, GotoThen, Tasks
<1>4. Left' = Left /\ (Schannel => UNCHANGED rbuf)
  <2>1. UNCHANGED <<inside, rbuf>> \/ TakeIn
    BY DEF StartHandshake, Begin, write_once, DoneWriting, readVars
  <2> QED
    BY <1>1, <2>1, TakeInLeaves DEF Left
<1>5. Closing'
  BY <1>1, <1>3, <1>4 DEF StreamInv, Closing, NoByteLeft, Schannel, Ends, Asking
<1> QED
  BY <1>1, <1>2, <1>4, <1>5, StaysKeeps

(* Steps that move what was received and hand nothing out.                 *)
LEMMA MovesKeep ==
  ASSUME StillLeft, ReadSoFar, UNCHANGED sent, Left' = Left, Read' = Read
  PROVE  StillLeft' /\ ReadSoFar'
<1>1. Taken' = Taken
  BY DEF Taken
<1> QED
  BY <1>1 DEF StillLeft, ReadSoFar, BytesUpTo

(* What is left is the input and what is on its way.                       *)
LEMMA LeftIs ==
  ASSUME ReadInv
  PROVE  /\ Left = Input \o inbound /\ Left \in Seq(Units) /\ Input \in Seq(Units)
         /\ inbound \in Seq(Units) /\ rbuf \in Seq(Units) /\ inside \in Seq(Units)
         /\ Len(Left) = Len(Input) + Len(inbound)
         /\ \A i \in 1 .. Len(Input) : Left[i] = Input[i]
<1>1. inbound \in Seq(Units) /\ rbuf \in Seq(Units) /\ inside \in Seq(Units)
  BY DEF ReadInv, ReadTypes
<1>2. Input \in Seq(Units)
  BY <1>1, ConcatProperties DEF Input
<1>3. Left = Input \o inbound
  BY DEF Left, Input
<1> QED
  BY <1>1, <1>2, <1>3, ConcatProperties

(* The stream is one of those that a peer may send.                        *)
LEMMA SentIs ==
  ASSUME StreamTypes
  PROVE  sent \in Seq(Units) /\ WellFormed(sent)
  BY TlsAssumption DEF StreamTypes

(* A record that is complete has bytes between its header and its trailer. *)
LEMMA RecordIs ==
  ASSUME StreamInv, ReadInv, RecordLength(Input) > 0
  PROVE  /\ RecordLength(Input) \in 2 .. Len(Input)
         /\ Input[1] = "h" /\ Input[RecordLength(Input)] = "t"
         /\ \A i \in 2 .. RecordLength(Input) - 1 : Input[i] \in Bytes
<1> DEFINE n == RecordLength(Input)
<1>1. Input \in Seq(Units) /\ AtHead(Input, "h") /\ \E i \in 1..Len(Input) : EndsAt(Input, i)
  BY InputIs DEF RecordLength
<1>2. n \in 1 .. Len(Input) /\ EndsAt(Input, n)
  BY <1>1 DEF RecordLength
<1> HIDE DEF n
<1>3. n # 1 /\ Input[1] = "h"
  BY <1>1, <1>2 DEF EndsAt, AtHead
<1>4. ASSUME NEW i \in 2 .. n - 1 PROVE Input[i] \in Bytes
  <2>1. /\ Len(Left) \in Nat /\ Len(sent) \in Nat /\ Taken \in Nat
        /\ Taken + Len(Left) = Len(sent) /\ Len(Input) \in Nat /\ Len(Input) <= Len(Left)
    BY LeftIs, SentIs DEF StreamInv, StillLeft, Taken
  <2>2. \A k \in 1 .. Len(Input) : Input[k] = sent[Taken + k]
    BY <2>1, LeftIs DEF StreamInv, StillLeft
  <2>3. /\ Taken + 1 \in DOMAIN sent /\ Taken + i \in DOMAIN sent /\ Taken + 1 < Taken + i
        /\ sent[Taken + 1] = "h" /\ Input[i] = sent[Taken + i]
    BY <1>2, <1>3, <2>1, <2>2, SentIs DEF StreamInv
  <2>4. \A k \in (Taken + 1) + 1 .. (Taken + i) - 1 : sent[k] # "t"
    <3> SUFFICES ASSUME NEW k \in (Taken + 1) + 1 .. (Taken + i) - 1 PROVE sent[k] # "t"
      OBVIOUS
    <3>1. k - Taken \in 1 .. n - 1 /\ k - Taken \in 1 .. Len(Input) /\ Taken + (k - Taken) = k
      BY <1>2, <2>1
    <3> QED
      BY <3>1, <1>2, <2>2 DEF EndsAt
  <2>5. sent[Taken + i] \in Bytes \cup {"t"}
    BY <2>3, <2>4, SentIs DEF WellFormed, StreamInv
  <2>6. Input[i] # "t"
    BY <1>2 DEF EndsAt
  <2> QED
    BY <2>3, <2>5, <2>6
<1> QED
  BY <1>2, <1>3, <1>4 DEF n, EndsAt

(* Sequences over any set can be regrouped.                                *)
LEMMA Regroup ==
  ASSUME NEW S, NEW s \in Seq(S), NEW t \in Seq(S), NEW u \in Seq(S)
  PROVE  (s \o t) \o u = s \o (t \o u)
<1>1. Len(s) \in Nat /\ Len(t) \in Nat /\ Len(u) \in Nat
  OBVIOUS
<1>2. /\ s \o t \in Seq(S) /\ t \o u \in Seq(S)
      /\ Len(s \o t) = Len(s) + Len(t) /\ Len(t \o u) = Len(t) + Len(u)
  OBVIOUS
<1>3. (s \o t) \o u \in Seq(S) /\ s \o (t \o u) \in Seq(S)
  BY <1>2
<1>4. Len((s \o t) \o u) = Len(s \o (t \o u))
  BY <1>1, <1>2
<1>5. ASSUME NEW i \in 1..Len((s \o t) \o u)
      PROVE  ((s \o t) \o u)[i] = (s \o (t \o u))[i]
  BY <1>1, <1>2
<1> QED
  BY <1>3, <1>4, <1>5

(* Sequences of units can be regrouped.                                    *)
LEMMA RegroupUnits ==
  ASSUME NEW s \in Seq(Units), NEW t \in Seq(Units), NEW u \in Seq(Units)
  PROVE  (s \o t) \o u = s \o (t \o u)
  BY Regroup

(* Sequences of bytes can be regrouped.                                    *)
LEMMA RegroupBytes ==
  ASSUME NEW s \in Seq(Bytes), NEW t \in Seq(Bytes), NEW u \in Seq(Bytes)
  PROVE  (s \o t) \o u = s \o (t \o u)
  BY Regroup

(* What arrives was on its way; the end arrives after everything else.     *)
LEMMA ReceiveStreams ==
  ASSUME StreamInv, WriteInv, ReadInv, NEW t \in Tasks, Receive(t) PROVE StreamInv'
<1>1. /\ pc[t] = "receiving" /\ pc' = [pc EXCEPT ![t] = then[t]] /\ pc \in [Tasks -> AllSteps]
      /\ UNCHANGED <<backend, sent, setup, then, inside, plain, remaining, trailer, got>>
  BY Begins DEF Receive, Here, Goto, kindVars, setupVars
<1>2. Left' = Left
  <2>1. CASE \E n \in 1..Len(inbound) : /\ rbuf' = rbuf \o SubSeq(inbound, 1, n)
                                        /\ inbound' = SubSeq(inbound, n + 1, Len(inbound))
    <3>1. PICK n \in 1..Len(inbound) : /\ rbuf' = rbuf \o SubSeq(inbound, 1, n)
                                       /\ inbound' = SubSeq(inbound, n + 1, Len(inbound))
      BY <2>1
    <3> DEFINE now == SubSeq(inbound, 1, n)
               later == SubSeq(inbound, n + 1, Len(inbound))
    <3>0. inbound \in Seq(Units) /\ inside \in Seq(Units) /\ rbuf \in Seq(Units) /\ n \in Nat
      BY LeftIs
    <3>2. now \in Seq(Units) /\ later \in Seq(Units)
      <4>1. n + 1 > 0 /\ \A i \in 1 .. n : inbound[i] \in Units
        BY <3>0
      <4> QED
        BY <4>1, <3>0, SubSeqProperties, SubSeqType
    <3>3. now \o later = inbound
      <4>1. /\ 1 \in 1 .. Len(inbound) + 1 /\ n \in 1 - 1 .. Len(inbound)
            /\ Len(inbound) \in n .. Len(inbound)
        BY <3>0
      <4>2. now \o later = SubSeq(inbound, 1, Len(inbound))
        BY <4>1, <3>0, ConcatAdjacentSubSeq
      <4> QED
        BY <4>2, <3>0, SubSeqFull
    <3>4. rbuf' = rbuf \o now /\ inbound' = later
      BY <3>1
    <3> HIDE DEF now, later
    <3>5. inside \o (rbuf \o now) = (inside \o rbuf) \o now
      <4>1. inside \in Seq(Units) /\ rbuf \in Seq(Units)
        BY LeftIs
      <4>2. (inside \o rbuf) \o now = inside \o (rbuf \o now)
        BY <4>1, <3>2, RegroupUnits
      <4> QED
        BY <4>2
    <3>6. ((inside \o rbuf) \o now) \o later = (inside \o rbuf) \o (now \o later)
      <4>1. inside \o rbuf \in Seq(Units)
        BY LeftIs DEF Input
      <4> QED
        BY <4>1, <3>2, RegroupUnits
    <3> QED
      BY <1>1, <3>3, <3>4, <3>5, <3>6 DEF Left
  <2>2. CASE UNCHANGED <<inbound, rbuf>>
    BY <1>1, <2>2 DEF Left
  <2> QED
    BY <2>1, <2>2 DEF Receive
<1>3. StillLeft' /\ ReadSoFar'
  BY <1>1, <1>2, MovesKeep DEF StreamInv, Read
<1>4. StreamTypes'
  BY <1>1 DEF StreamInv, StreamTypes, Schannel
<1>5. Closing'
  <2>1. CASE t = "writer"
    BY <1>1, <1>2, <2>1, WriterCloses DEF Tasks
  <2>2. CASE t = "reader"
    BY <1>1, <1>2, <2>2 DEF StreamInv, Closing, NoByteLeft, Schannel, Ends, Asking, Tasks
  <2> QED
    BY <2>1, <2>2 DEF Tasks
<1>6. ClosedAtEnd'
  <2>1. CASE UNCHANGED tstate
    <3>1. tstate = "Closed" => inbound' = <<>>
      <4> SUFFICES ASSUME tstate = "Closed" PROVE inbound' = <<>>
        OBVIOUS
      <4>1. inbound = <<>>
        BY DEF StreamInv, ClosedAtEnd, Receive, Here, Started, Done
      <4>2. Len(inbound) = 0
        BY <4>1
      <4> QED
        BY <4>1, <4>2 DEF Receive
    <3> QED
      BY <2>1, <3>1 DEF ClosedAtEnd
  <2>2. CASE inbound = <<>> /\ UNCHANGED inbound
    BY <2>2 DEF ClosedAtEnd
  <2> QED
    BY <2>1, <2>2 DEF Receive
<1>7. Cut'
  <2> SUFFICES ASSUME remaining > 0 PROVE Cut'
    BY <1>1 DEF Cut
  <2>0. remaining \in Nat /\ rbuf \in Seq(Units)
    BY DEF ReadInv, ReadTypes
  <2>1. Len(rbuf') >= Len(rbuf) /\ \A i \in 1 .. Len(rbuf) : rbuf'[i] = rbuf[i]
    <3>1. CASE \E n \in 1..Len(inbound) : rbuf' = rbuf \o SubSeq(inbound, 1, n)
      <4>1. PICK n \in 1..Len(inbound) : rbuf' = rbuf \o SubSeq(inbound, 1, n)
        BY <3>1
      <4>2. SubSeq(inbound, 1, n) \in Seq(Units)
        <5>1. n \in Nat /\ \A i \in 1 .. n : inbound[i] \in Units
          BY LeftIs
        <5> QED
          BY <5>1, SubSeqProperties
      <4> QED
        BY <4>1, <4>2, <2>0, ConcatProperties
    <3>2. CASE UNCHANGED rbuf
      BY <3>2, <2>0
    <3> QED
      BY <3>1, <3>2 DEF Receive
  <2>2. remaining < Len(rbuf) /\ Len(rbuf) \in Nat /\ Len(rbuf') \in Nat
    BY <2>0, ReceiveSteps DEF StreamInv, Cut, ReadInv, ReadTypes
  <2>3. /\ Schannel /\ trailer = 1 /\ rbuf[remaining + 1] = "t"
        /\ \A i \in 1 .. remaining : rbuf[i] \in Bytes
    BY DEF StreamInv, Cut
  <2>4. rbuf'[remaining + 1] = "t" /\ \A i \in 1 .. remaining : rbuf'[i] \in Bytes
    BY <2>0, <2>1, <2>2, <2>3
  <2>5. remaining < Len(rbuf')
    BY <2>0, <2>1, <2>2
  <2> QED
    BY <1>1, <2>3, <2>4, <2>5 DEF Cut, Schannel
<1> QED
  BY <1>3, <1>4, <1>5, <1>6, <1>7 DEF StreamInv

(* With k units taken from the input, the rest moves up.                   *)
LEMMA LeftMovesUp ==
  ASSUME ReadInv, NEW k \in 0 .. Len(Input), UNCHANGED inbound,
         (inside \o rbuf)' = SubSeq(Input, k + 1, Len(Input))
  PROVE  /\ Len(Left') = Len(Left) - k
         /\ \A i \in 1 .. Len(Left') : Left'[i] = Left[i + k]
         /\ \A i \in 1 .. k : Left[i] = Input[i]
         /\ k <= Len(Left)
<1>2. /\ Left = Input \o inbound /\ Input \in Seq(Units) /\ inbound \in Seq(Units)
      /\ Len(Left) = Len(Input) + Len(inbound) /\ Len(Input) \in Nat /\ Len(inbound) \in Nat
      /\ \A i \in 1 .. Len(Input) : Left[i] = Input[i]
  BY LeftIs
<1> DEFINE m == k + 1
           rest == SubSeq(Input, m, Len(Input))
<1>1. Left' = rest \o inbound
  BY DEF Left
<1>3. m \in 1 .. Len(Input) + 1 /\ k = m - 1 /\ \A i \in 1 .. k : i \in 1 .. Len(Input)
  BY <1>2
<1> HIDE DEF m
<1>4. /\ Len(rest \o inbound) = Len(Input \o inbound) - m + 1
      /\ \A i \in 1 .. Len(rest \o inbound) : (rest \o inbound)[i] = (Input \o inbound)[i + m - 1]
  <2> DEFINE s == Input
  <2>1. s \in Seq(Units) /\ inbound \in Seq(Units) /\ m \in 1 .. Len(s) + 1
    BY <1>2, <1>3
  <2> HIDE DEF s
  <2>2. LET r == SubSeq(s, m, Len(s))
        IN /\ Len(r \o inbound) = Len(s \o inbound) - m + 1
           /\ \A i \in 1 .. Len(r \o inbound) : (r \o inbound)[i] = (s \o inbound)[i + m - 1]
    BY ONLY <2>1, RestOfBoth
  <2> QED
    BY <2>2 DEF s
<1> HIDE DEF rest
<1>5. Len(Left') = Len(Left) - k /\ k <= Len(Left)
  BY <1>1, <1>2, <1>3, <1>4
<1>6. ASSUME NEW i \in 1 .. Len(Left') PROVE Left'[i] = Left[i + k]
  <2>1. i + m - 1 = i + k
    BY <1>3
  <2> QED
    BY <2>1, <1>1, <1>2, <1>4
<1> QED
  BY <1>2, <1>3, <1>5, <1>6

(* Units are taken from the front of the input: a that are no bytes, those *)
(* of new, and b more that are none.                                       *)
LEMMA HandsOut ==
  ASSUME StreamInv, ReadInv, NEW a \in Nat, NEW b \in Nat, NEW new \in Seq(Bytes),
         a + Len(new) + b <= Len(Input),
         \A i \in 1 .. a + Len(new) + b : Input[i] \in Bytes <=> i \in a + 1 .. a + Len(new),
         \A i \in 1 .. Len(new) : Input[a + i] = new[i],
         (inside \o rbuf)' = SubSeq(Input, a + Len(new) + b + 1, Len(Input)),
         UNCHANGED <<inbound, sent>>, Read' = Read \o new
  PROVE  StillLeft' /\ ReadSoFar'
<1> DEFINE k == a + Len(new) + b
<1>1. Len(new) \in Nat /\ k \in 0 .. Len(Input) /\ Len(Input) \in Nat /\ Len(inbound) \in Nat
  BY LeftIs
<1>3. /\ Len(Left') = Len(Left) - k
      /\ \A i \in 1 .. Len(Left') : Left'[i] = Left[i + k]
      /\ \A i \in 1 .. k : Left[i] = Input[i]
      /\ k <= Len(Left)
  <2>1. (inside \o rbuf)' = SubSeq(Input, k + 1, Len(Input)) /\ UNCHANGED inbound
    OBVIOUS
  <2> HIDE DEF k
  <2> QED
    BY <1>1, <2>1, LeftMovesUp
<1>4. Read \in Seq(Bytes)
  BY ConcatProperties DEF Read, StreamInv, StreamTypes
<1>5. /\ Len(Read') = Len(Read) + Len(new)
      /\ \A i \in 1 .. Len(Read) : Read'[i] = Read[i]
      /\ \A i \in 1 .. Len(new) : Read'[Len(Read) + i] = new[i]
  BY <1>4, ConcatProperties
<1>6. \A i \in 1 .. Len(new) : new[i] = Left[a + i]
  <2> SUFFICES ASSUME NEW i \in 1 .. Len(new) PROVE new[i] = Left[a + i]
    OBVIOUS
  <2>1. a + i \in 1 .. k
    BY <1>1
  <2> QED
    BY <2>1, <1>3
<1>7. Passes(a, Len(new), b)
  <2>1. \A i \in 1 .. Len(Left') : i + k = i + a + Len(new) + b
    BY <1>1
  <2> QED
    BY <1>1, <1>3, <1>5, <1>6, <2>1 DEF Passes
<1>8. sent \in Seq(Units) /\ Left \in Seq(Units)
  BY SentIs, LeftIs DEF StreamInv
<1> QED
  BY <1>1, <1>7, <1>8, PassesKeeps DEF StreamInv

(* Units that are no bytes are taken.                                      *)
LEMMA PassesOver ==
  ASSUME StreamInv, ReadInv, NEW m \in 0 .. Len(Input), \A i \in 1 .. m : Input[i] \notin Bytes,
         (inside \o rbuf)' = SubSeq(Input, m + 1, Len(Input)),
         UNCHANGED <<inbound, sent, got, plain>>
  PROVE  StillLeft' /\ ReadSoFar'
<1> DEFINE none == << >>
<1>1. none \in Seq(Bytes) /\ Len(none) = 0
  OBVIOUS
<1>2. Read' = Read \o none
  <2>1. Read \in Seq(Bytes)
    BY ConcatProperties DEF Read, StreamInv, StreamTypes
  <2> QED
    BY <2>1, ConcatEmptySeq DEF Read
<1>3. Input \in Seq(Units) /\ Len(Input) \in Nat /\ m \in Nat
  BY InputIs
<1> HIDE DEF none
<1>4. /\ m + Len(none) + 0 <= Len(Input) /\ 0 \in Nat
      /\ \A i \in 1 .. m + Len(none) + 0 : Input[i] \in Bytes <=> i \in m + 1 .. m + Len(none)
      /\ \A i \in 1 .. Len(none) : Input[m + i] = none[i]
      /\ m + Len(none) + 0 + 1 = m + 1
  BY <1>1, <1>3
<1>5. (inside \o rbuf)' = SubSeq(Input, m + Len(none) + 0 + 1, Len(Input))
  BY <1>4
<1> QED
  BY <1>1, <1>2, <1>3, <1>4, <1>5, HandsOut

(* No byte is left where none was.                                         *)
LEMMA NoByteStays ==
  ASSUME ReadInv, NoByteLeft, NEW m \in 0 .. Len(Input), UNCHANGED inbound,
         (inside \o rbuf)' = SubSeq(Input, m + 1, Len(Input))
  PROVE  NoByteLeft'
<1>1. /\ Len(Left') = Len(Left) - m /\ m <= Len(Left)
      /\ \A i \in 1 .. Len(Left') : Left'[i] = Left[i + m]
  BY LeftMovesUp
<1>2. Len(Left) \in Nat /\ m \in Nat
  BY LeftIs
<1>3. \A i \in 1 .. Len(Left') : i + m \in 1 .. Len(Left)
  BY <1>1, <1>2
<1> QED
  BY <1>1, <1>3 DEF NoByteLeft

(* No byte is behind a close_notify.                                       *)
LEMMA NoByteBehind ==
  ASSUME StreamInv, ReadInv, AtHead(Input, "bye") PROVE NoByteLeft
<1>1. /\ sent \in Seq(Units) /\ WellFormed(sent) /\ Left \in Seq(Units)
      /\ Len(sent) \in Nat /\ Len(Left) \in Nat /\ Taken \in Nat
      /\ Taken + Len(Left) = Len(sent)
  BY SentIs, LeftIs DEF StreamInv, StillLeft, Taken
<1>2. /\ Len(Input) >= 1 /\ Input[1] = "bye" /\ Len(Left) >= 1 /\ Left[1] = "bye"
  <2>1. Len(Input) \in Nat /\ Len(Input) >= 1 /\ Input[1] = "bye"
    BY InputIs DEF AtHead
  <2> QED
    BY <2>1, LeftIs
<1>3. \A i \in 1 .. Len(Left) : Left[i] = sent[Taken + i]
  BY DEF StreamInv, StillLeft
<1>4. ASSUME NEW i \in 1 .. Len(Left) PROVE Left[i] \notin Bytes
  <2>1. CASE i = 1
    BY <1>2, <2>1 DEF Bytes
  <2>2. CASE i # 1
    <3>1. Taken + i \in DOMAIN sent /\ Taken + 1 \in DOMAIN sent /\ Taken + 1 < Taken + i
      BY <1>1, <2>2
    <3>2. sent[Taken + 1] = "bye"
      BY <1>1, <1>2, <1>3
    <3>3. sent[Taken + i] \notin Bytes
      BY <1>1, <3>1, <3>2 DEF WellFormed
    <3> QED
      BY <1>3, <3>3
  <2> QED
    BY <2>1, <2>2
<1> QED
  BY <1>4 DEF NoByteLeft

(* Taking n units off the front.                                           *)
LEMMA TakeLeaves ==
  ASSUME ReadInv, NEW n \in Nat, Take(n)
  PROVE  (inside \o rbuf)' = SubSeq(Input, n + 1, Len(Input))
<1>1. SubSeq(Input, n + 1, Len(Input)) \in Seq(Units)
  BY InputIs, SubSeqType
<1> QED
  BY <1>1, ConcatEmptySeq DEF Take

(* Schannel takes the head of the buffer.                                  *)
LEMMA TailLeaves ==
  ASSUME ReadInv, Schannel, rbuf # <<>>, rbuf' = Tail(rbuf), UNCHANGED inside
  PROVE  /\ Input = rbuf /\ rbuf \in Seq(Units) /\ rbuf' \in Seq(Units)
         /\ (inside \o rbuf)' = SubSeq(Input, 2, Len(Input))
<1>1. Input = rbuf /\ rbuf \in Seq(Units) /\ inside = <<>>
  BY InputIs DEF ReadInv, ReadTypes, Reading
<1>2. rbuf' \in Seq(Units) /\ rbuf' = SubSeq(rbuf, 2, Len(rbuf))
  BY <1>1, HeadTailProperties, TailIsSubSeq
<1>3. (inside \o rbuf)' = rbuf'
  BY <1>1, <1>2, ConcatEmptySeq
<1> QED
  BY <1>1, <1>2, <1>3

(* A reader that reads is not on its way to its end.                       *)
LEMMA NotClosing ==
  ASSUME StreamInv, UNCHANGED backend, pc["reader"] \in {"call_read", "handshake"},
         pc'["reader"] \notin Ends, then'["reader"] \notin Ends \/ UNCHANGED then
  PROVE  Closing'
  BY DEF StreamInv, Closing, Ends, Asking, Schannel

(* Decrypting leaves the bytes of the record and its trailer.              *)
LEMMA DecryptStreams ==
  ASSUME StreamInv, WriteInv, ReadInv, schannel_decrypt PROVE StreamInv'
<1>1. /\ Schannel
      /\ UNCHANGED <<backend, sent, setup, tstate, inbound, inside, plain, got, pc, then>>
      /\ rbuf' = Tail(rbuf) /\ trailer' = 1 /\ pc["reader"] = "call_read"
      /\ remaining' = RecordLength(rbuf) - 1 - 1
  BY DEF schannel_decrypt, ReadStays, kindVars, setupVars, Here
<1>2. /\ Input = rbuf /\ RecordLength(rbuf) \in 2 .. Len(rbuf)
      /\ rbuf[1] = "h" /\ rbuf[RecordLength(rbuf)] = "t"
      /\ \A i \in 2 .. RecordLength(rbuf) - 1 : rbuf[i] \in Bytes
  BY <1>1, InputIs, RecordIs DEF schannel_decrypt
<1>3. rbuf \in Seq(Units) /\ rbuf # <<>> /\ Head(rbuf) \notin Bytes
  BY <1>1, <1>2 DEF ReadInv, ReadTypes, Bytes
<1>4. StillLeft' /\ ReadSoFar'
  <2>1. (inside \o rbuf)' = SubSeq(Input, 1 + 1, Len(Input))
    BY <1>1, <1>3, TailLeaves
  <2>2. 1 \in 0 .. Len(Input) /\ \A i \in 1 .. 1 : Input[i] \notin Bytes
    BY <1>2 DEF Bytes
  <2> QED
    BY <1>1, <2>1, <2>2, PassesOver
<1>5. Cut'
  <2>1. Len(rbuf') = Len(rbuf) - 1 /\ \A i \in 1 .. Len(rbuf') : rbuf'[i] = rbuf[i + 1]
    BY <1>1, <1>3, HeadTailProperties
  <2>2. Len(rbuf) \in Nat /\ remaining' < Len(rbuf')
    BY <1>1, <1>2, <1>3, <2>1
  <2>3. rbuf'[remaining' + 1] = "t"
    <3>1. (remaining' + 1) + 1 = RecordLength(rbuf)
      BY <1>1, <1>2
    <3>2. remaining' + 1 \in 1 .. Len(rbuf')
      <4>1. /\ Len(rbuf) \in Nat /\ RecordLength(rbuf) \in 2 .. Len(rbuf)
            /\ Len(rbuf') = Len(rbuf) - 1
        BY <1>2, <2>1, <2>2
      <4> QED
        BY <1>1, <4>1
    <3> QED
      BY <3>1, <3>2, <2>1, <1>2
  <2>4. ASSUME NEW i \in 1 .. remaining' PROVE rbuf'[i] \in Bytes
    <3>1. i \in 1 .. Len(rbuf') /\ i + 1 \in 2 .. RecordLength(rbuf) - 1
      BY <1>1, <1>2, <2>1, <2>2
    <3> QED
      BY <3>1, <2>1, <1>2
  <2> QED
    BY <1>1, <2>2, <2>3, <2>4 DEF Cut, Schannel
<1>6. Closing'
  BY <1>1, NotClosing DEF Ends
<1>7. StreamTypes' /\ ClosedAtEnd'
  BY <1>1 DEF StreamInv, StreamTypes, ClosedAtEnd, Schannel
<1> QED
  BY <1>4, <1>5, <1>6, <1>7 DEF StreamInv

(* Bytes are handed out in the reader's portions, the trailer dropped      *)
(* after the last.                                                         *)
LEMMA HandOutStreams ==
  ASSUME StreamInv, WriteInv, ReadInv, NEW max_len \in 1 .. 2, schannel_hand_out(max_len)
  PROVE  StreamInv'
<1> DEFINE n == Handed(max_len)
           over == IF n = remaining THEN trailer ELSE 0
           new == SubSeq(rbuf, 1, n)
<1>1. /\ Schannel
      /\ UNCHANGED <<backend, sent, setup, tstate, inbound, inside, plain, trailer, pc, then>>
      /\ got' = got \o new /\ rbuf' = SubSeq(rbuf, n + over + 1, Len(rbuf))
      /\ remaining' = remaining - n /\ pc["reader"] = "call_read" /\ remaining > 0
  <2>1. HandedOver(max_len) = n + over
    BY HandedIs DEF schannel_hand_out
  <2> QED
    BY <2>1 DEF schannel_hand_out, ReadStays, kindVars, setupVars, Here
<1>2. /\ remaining \in Nat /\ rbuf \in Seq(Units) /\ Input = rbuf /\ inside = <<>>
      /\ plain = <<>> /\ got \in Seq(Bytes)
  BY <1>1, InputIs DEF ReadInv, ReadTypes, Reading, StreamInv, StreamTypes
<1>3. /\ trailer = 1 /\ remaining < Len(rbuf) /\ rbuf[remaining + 1] = "t"
      /\ \A i \in 1 .. remaining : rbuf[i] \in Bytes
  BY <1>1 DEF StreamInv, Cut
<1>4. /\ n \in 1 .. remaining /\ over \in {0, 1} /\ (over = 1 <=> n = remaining)
      /\ n + over <= Len(rbuf) /\ Len(rbuf) \in Nat
  <2>1. n \in 1 .. remaining
    BY <1>1, HandedIs
  <2> HIDE DEF n
  <2> QED
    BY <2>1, <1>2, <1>3
<1> HIDE DEF n, over
<1>5. new \in Seq(Bytes) /\ Len(new) = n /\ \A i \in 1 .. n : rbuf[0 + i] = new[i]
  <2>1. \A i \in 1 .. n : rbuf[i] \in Bytes
    BY <1>2, <1>3, <1>4
  <2>2. /\ new \in Seq(Bytes) /\ Len(new) = IF 1 <= n THEN n - 1 + 1 ELSE 0
        /\ \A i \in 1 .. n - 1 + 1 : new[i] = rbuf[1 + i - 1]
    BY <1>4, <2>1, SubSeqProperties
  <2> HIDE DEF new
  <2>3. ASSUME NEW i \in 1 .. n PROVE rbuf[0 + i] = new[i]
    <3>1. i \in 1 .. n - 1 + 1 /\ 1 + i - 1 = 0 + i
      BY <1>4
    <3> QED
      BY <3>1, <2>2
  <2> QED
    BY <1>4, <2>2, <2>3
<1> HIDE DEF new
<1>6. Read' = Read \o new
  <2>1. Read = got
    BY <1>2, ConcatEmptySeq DEF Read
  <2>2. got' \in Seq(Bytes)
    BY <1>1, <1>2, <1>5, ConcatProperties
  <2>3. Read' = got'
    BY <1>1, <1>2, <2>2, ConcatEmptySeq DEF Read
  <2> QED
    BY <1>1, <2>1, <2>3
<1>7. /\ Len(SubSeq(rbuf, (n + over) + 1, Len(rbuf))) = Len(rbuf) - (n + over)
      /\ SubSeq(rbuf, (n + over) + 1, Len(rbuf)) \in Seq(Units)
      /\ \A i \in 1 .. Len(rbuf) - (n + over) :
            SubSeq(rbuf, (n + over) + 1, Len(rbuf))[i] = rbuf[i + (n + over)]
  <2> DEFINE r == SubSeq(rbuf, (n + over) + 1, Len(rbuf))
  <2>1. (n + over) + 1 \in 1 .. Len(rbuf) + 1
    BY <1>4
  <2>2. /\ r \in Seq(Units) /\ Len(r) = Len(rbuf) - ((n + over) + 1) + 1
        /\ \A i \in 1 .. Len(r) : r[i] = rbuf[i + ((n + over) + 1) - 1]
    BY <1>2, <2>1, RestOfBoth
  <2> HIDE DEF r
  <2>3. Len(r) = Len(rbuf) - (n + over)
    BY <1>4, <2>2
  <2>4. \A i \in 1 .. Len(r) : i + ((n + over) + 1) - 1 = i + (n + over)
    BY <1>4
  <2> QED
    BY <2>2, <2>3, <2>4 DEF r
<1>8. (inside \o rbuf)' = SubSeq(Input, 0 + Len(new) + over + 1, Len(Input))
  <2>1. rbuf' \in Seq(Units) /\ (n + over) + 1 = 0 + Len(new) + over + 1
    BY <1>1, <1>4, <1>5, <1>7
  <2>2. (inside \o rbuf)' = rbuf'
    BY <1>1, <1>2, <2>1, ConcatEmptySeq
  <2> QED
    BY <1>1, <1>2, <2>1, <2>2
<1>9. StillLeft' /\ ReadSoFar'
  <2>1. 0 \in Nat /\ over \in Nat /\ 0 + Len(new) + over <= Len(Input)
    BY <1>2, <1>4, <1>5
  <2>2. ASSUME NEW i \in 1 .. 0 + Len(new) + over
        PROVE  Input[i] \in Bytes <=> i \in 0 + 1 .. 0 + Len(new)
    <3>1. CASE i <= n
      BY <3>1, <1>2, <1>3, <1>4, <1>5
    <3>2. CASE i > n
      <4>1. over = 1 /\ i = remaining + 1
        BY <3>2, <1>4, <1>5
      <4> QED
        BY <4>1, <3>2, <1>2, <1>3, <1>5 DEF Bytes
    <3> QED
      BY <3>1, <3>2, <1>4, <1>5
  <2> QED
    BY <1>1, <1>2, <1>5, <1>6, <1>8, <2>1, <2>2, HandsOut
<1>10. Cut'
  <2> SUFFICES ASSUME remaining' > 0 PROVE Cut'
    BY DEF Cut
  <2>1. over = 0 /\ n < remaining /\ remaining' = remaining - n
    BY <1>1, <1>2, <1>4
  <2>2. Len(rbuf') = Len(rbuf) - n /\ \A i \in 1 .. Len(rbuf') : rbuf'[i] = rbuf[i + n]
    BY <1>1, <1>4, <1>7, <2>1
  <2>3. rbuf'[remaining' + 1] = "t"
    <3>1. remaining' + 1 \in 1 .. Len(rbuf') /\ (remaining' + 1) + n = remaining + 1
      BY <1>2, <1>3, <1>4, <2>1, <2>2
    <3> QED
      BY <3>1, <2>2, <1>3
  <2>4. ASSUME NEW i \in 1 .. remaining' PROVE rbuf'[i] \in Bytes
    <3>1. i \in 1 .. Len(rbuf') /\ i + n \in 1 .. remaining
      BY <1>2, <1>3, <1>4, <2>1, <2>2
    <3> QED
      BY <3>1, <2>2, <1>3
  <2>5. remaining' < Len(rbuf')
    BY <1>2, <1>3, <1>4, <2>1, <2>2
  <2> QED
    BY <1>1, <1>3, <2>3, <2>4, <2>5 DEF Cut, Schannel
<1>11. Closing'
  BY <1>1, NotClosing DEF Ends
<1>12. StreamTypes' /\ ClosedAtEnd'
  BY <1>1, <1>2, <1>5, ConcatProperties DEF StreamInv, StreamTypes, ClosedAtEnd, Schannel
<1> QED
  BY <1>9, <1>10, <1>11, <1>12 DEF StreamInv

(* OpenSSL's bytes are handed out in the reader's portions; a record is    *)
(* taken whole.                                                            *)
LEMMA OpensslReadStreams ==
  ASSUME StreamInv, WriteInv, ReadInv, NEW max_len \in 1 .. 2, openssl_read(max_len)
  PROVE  StreamInv'
<1> DEFINE record == SubSeq(Input, 2, RecordLength(Input) - 1)
           decrypted == IF plain # <<>> THEN plain ELSE record
           n == IF Len(decrypted) <= max_len THEN Len(decrypted) ELSE max_len
<1>1. /\ ~Schannel /\ UNCHANGED <<backend, sent, setup, tstate, inbound, remaining, trailer>>
      /\ n > 0 /\ got' = got \o SubSeq(decrypted, 1, n)
      /\ plain' = SubSeq(decrypted, n + 1, Len(decrypted))
      /\ IF plain # <<>> THEN UNCHANGED <<inside, rbuf>> ELSE Take(RecordLength(Input))
      /\ pc["reader"] = "call_read" /\ pc'["reader"] = "flush" /\ then'["reader"] = "call_read"
  BY Begins DEF openssl_read, ReadStays, kindVars, setupVars, Here, GotoThen, Goto, Tasks
<1>2. got \in Seq(Bytes) /\ plain \in Seq(Bytes)
  BY DEF StreamInv, StreamTypes
<1>3. Input \in Seq(Units) /\ RecordLength(Input) \in Nat
  BY InputIs, RecordLengthIs
<1>4. plain = <<>> => RecordLength(Input) > 0
  <2> SUFFICES ASSUME plain = <<>>, RecordLength(Input) = 0 PROVE FALSE
    BY <1>3
  <2>1. record = <<>>
    BY SubSeqEmpty
  <2> QED
    BY <2>1, <1>1
<1>5. plain = <<>> =>
        /\ record \in Seq(Bytes) /\ Len(record) = RecordLength(Input) - 2
        /\ \A i \in 1 .. Len(record) : Input[1 + i] = record[i]
  <2> SUFFICES ASSUME plain = <<>>
               PROVE  /\ record \in Seq(Bytes) /\ Len(record) = RecordLength(Input) - 2
                      /\ \A i \in 1 .. Len(record) : Input[1 + i] = record[i]
    OBVIOUS
  <2> DEFINE m == RecordLength(Input) - 1
             r == SubSeq(Input, 2, m)
  <2>1. m \in Nat /\ m >= 1 /\ \A i \in 2 .. m : Input[i] \in Bytes
    BY <1>3, <1>4, RecordIs
  <2> HIDE DEF m
  <2>2. /\ r \in Seq(Bytes) /\ Len(r) = IF 2 <= m THEN m - 2 + 1 ELSE 0
        /\ \A i \in 1 .. m - 2 + 1 : r[i] = Input[2 + i - 1]
    BY <2>1, SubSeqProperties
  <2> HIDE DEF r
  <2>3. Len(r) = m - 1
    BY <2>1, <2>2
  <2>4. ASSUME NEW i \in 1 .. Len(r) PROVE Input[1 + i] = r[i]
    <3>1. i \in 1 .. m - 2 + 1 /\ 2 + i - 1 = 1 + i
      BY <2>1, <2>3
    <3> QED
      BY <3>1, <2>2
  <2>5. m - 1 = RecordLength(Input) - 2
    BY <1>3 DEF m
  <2> QED
    BY <2>2, <2>3, <2>4, <2>5 DEF r, m
<1> HIDE DEF record
<1>6. decrypted \in Seq(Bytes)
  BY <1>2, <1>5
<1> HIDE DEF decrypted
<1>7. n \in 1 .. Len(decrypted) /\ Len(decrypted) \in Nat
  BY <1>1, <1>6
<1> HIDE DEF n
<1> DEFINE now == SubSeq(decrypted, 1, n)
           later == SubSeq(decrypted, n + 1, Len(decrypted))
<1>8. now \in Seq(Bytes) /\ later \in Seq(Bytes) /\ now \o later = decrypted
  <2>1. later \in Seq(Bytes)
    <3>1. n + 1 \in Nat /\ n + 1 > 0
      BY <1>7
    <3> QED
      BY <1>6, <3>1, SubSeqType
  <2>2. now \in Seq(Bytes)
    <3>1. \A i \in 1 .. n : decrypted[i] \in Bytes
      BY <1>6, <1>7
    <3> QED
      BY <1>7, <3>1, SubSeqProperties
  <2>3. now \o later = SubSeq(decrypted, 1, Len(decrypted))
    <3>1. /\ 1 \in 1 .. Len(decrypted) + 1 /\ n \in 1 - 1 .. Len(decrypted)
          /\ Len(decrypted) \in n .. Len(decrypted)
      BY <1>7
    <3> QED
      BY <1>6, <3>1, ConcatAdjacentSubSeq
  <2> QED
    BY <1>6, <2>1, <2>2, <2>3, SubSeqFull
<1>9. got' = got \o now /\ plain' = later
  BY <1>1
<1> HIDE DEF now, later
<1>10. Read' = got \o decrypted
  <2>1. (got \o now) \o later = got \o (now \o later)
    <3>1. got \in Seq(Bytes) /\ now \in Seq(Bytes) /\ later \in Seq(Bytes)
      BY <1>2, <1>8
    <3> QED
      BY <3>1, RegroupBytes
  <2> QED
    BY <1>8, <1>9, <2>1 DEF Read
<1>11. StreamTypes'
  <2>1. got' \in Seq(Bytes)
    BY <1>2, <1>8, <1>9, ConcatProperties
  <2> QED
    BY <1>1, <1>8, <1>9, <2>1 DEF StreamInv, StreamTypes, Schannel
<1>12. StillLeft' /\ ReadSoFar'
  <2>1. CASE plain # <<>>
    <3>1. Read' = Read /\ Left' = Left
      BY <2>1, <1>1, <1>10 DEF Read, Left, decrypted
    <3> QED
      BY <3>1, <1>1, MovesKeep DEF StreamInv
  <2>2. CASE plain = <<>>
    <3>1. Read' = Read \o record
      <4>1. Read = got
        BY <1>2, <2>2, ConcatEmptySeq DEF Read
      <4> QED
        BY <4>1, <2>2, <1>10 DEF decrypted
    <3>2. /\ RecordLength(Input) \in 2 .. Len(Input)
          /\ Input[1] = "h" /\ Input[RecordLength(Input)] = "t"
          /\ \A i \in 2 .. RecordLength(Input) - 1 : Input[i] \in Bytes
      BY <2>2, <1>4, RecordIs
    <3>3. /\ record \in Seq(Bytes) /\ Len(record) \in Nat
          /\ RecordLength(Input) = 1 + Len(record) + 1
          /\ \A i \in 1 .. Len(record) : Input[1 + i] = record[i]
      BY <2>2, <1>3, <1>5
    <3>4. (inside \o rbuf)' = SubSeq(Input, 1 + Len(record) + 1 + 1, Len(Input))
      BY <2>2, <1>1, <1>3, <3>3, TakeLeaves
    <3>5. ASSUME NEW i \in 1 .. 1 + Len(record) + 1
          PROVE  Input[i] \in Bytes <=> i \in 1 + 1 .. 1 + Len(record)
      <4>1. CASE i = 1
        BY <4>1, <3>2, <3>3 DEF Bytes
      <4>2. CASE i = RecordLength(Input)
        BY <4>2, <3>2, <3>3 DEF Bytes
      <4>3. CASE i \in 2 .. RecordLength(Input) - 1
        BY <4>3, <3>2, <3>3
      <4> QED
        BY <4>1, <4>2, <4>3, <3>3
    <3>6. 1 \in Nat /\ 1 + Len(record) + 1 <= Len(Input)
      BY <1>3, <3>2, <3>3
    <3> QED
      BY <1>1, <3>1, <3>3, <3>4, <3>5, <3>6, HandsOut
  <2> QED
    BY <2>1, <2>2
<1>13. Cut' /\ Closing' /\ ClosedAtEnd'
  BY <1>1 DEF StreamInv, Cut, Closing, ClosedAtEnd, Schannel
<1> QED
  BY <1>11, <1>12, <1>13 DEF StreamInv

(* A read that wants more, or room, or fails, hands nothing out; the end   *)
(* it reports comes after everything else.                                 *)
LEMMA WantsMoreStreams ==
  ASSUME StreamInv, WriteInv, ReadInv, read_wants_more \/ read_wants_write \/ read_fails
  PROVE  StreamInv'
<1>1. /\ UNCHANGED <<backend, sent, setup, tstate, inbound, plain, remaining, trailer, got>>
      /\ pc["reader"] = "call_read" /\ setup \notin Done
      /\ TakeIn \/ UNCHANGED <<inside, rbuf>>
  BY DEF read_wants_more, read_wants_write, read_fails, ReadStays, kindVars, setupVars, Here,
     Started, Done
<1>2. Left' = Left /\ (Schannel => UNCHANGED rbuf)
  BY <1>1, TakeInLeaves DEF Left
<1>3. ClosedAtEnd'
  BY <1>1 DEF StreamInv, ClosedAtEnd
<1>4. pc \in [Tasks -> AllSteps] /\ then \in [Tasks -> Thens] /\ "reader" \in Tasks
  BY Begins DEF Tasks
<1>5. Closing'
  <2>1. CASE tstate = "Closed" /\ rbuf = <<>> /\ Goto("reader", "end") /\ UNCHANGED then
    <3>1. Schannel => inbound = <<>> /\ then["reader"] \notin Ends
      BY <1>1, <2>1 DEF StreamInv, ClosedAtEnd, Closing, Ends, Asking
    <3>2. Schannel => Left = <<>>
      BY <2>1, <3>1 DEF Left, ReadInv, Reading
    <3>3. Schannel => NoByteLeft'
      <4>1. Left = <<>> => Len(Left) = 0
        OBVIOUS
      <4> QED
        BY <1>2, <3>2, <4>1 DEF NoByteLeft
    <3> QED
      BY <1>1, <1>4, <2>1, <3>1, <3>3 DEF Closing, Schannel, Goto
  <2>2. CASE /\ pc'["reader"] \in {"read_more", "flush", "raised"}
             /\ then'["reader"] \in {"call_read", "fill_read"} \/ UNCHANGED then
    BY <1>1, <2>2, NotClosing DEF Ends
  <2>3. CASE read_wants_more
    BY <1>4, <2>1, <2>2, <2>3 DEF read_wants_more, Refill, Fill, GotoThen, Goto
  <2>4. CASE read_wants_write \/ read_fails
    BY <1>4, <2>2, <2>4 DEF read_wants_write, read_fails, GotoThen, Goto
  <2> QED
    BY <2>3, <2>4
<1> QED
  BY <1>1, <1>2, <1>3, <1>5, StaysKeeps

(* What remains of a record begins with a byte: neither a message nor a    *)
(* close_notify is in front of it, and where no byte is left nothing       *)
(* remains.                                                                *)
LEMMA ByteInFront ==
  ASSUME StreamInv, ReadInv, remaining > 0
  PROVE  MessageLength(Input) = 0 /\ ~AtHead(Input, "bye") /\ ~NoByteLeft
<1>1. /\ Schannel /\ Input = rbuf /\ rbuf \in Seq(Units) /\ remaining \in Nat
      /\ remaining < Len(rbuf) /\ rbuf[1] \in Bytes
  BY InputIs DEF StreamInv, Cut, ReadInv, ReadTypes
<1>2. MessageLength(Input) = 0
  <2>1. /\ MessageLength(Input) \in 0 .. 2
        /\ \A i \in 1 .. MessageLength(Input) : Input[i] \notin Bytes
    BY <1>1, MessageLengthIs
  <2> QED
    BY <1>1, <2>1
<1>3. ~AtHead(Input, "bye")
  BY <1>1 DEF AtHead, Bytes
<1>4. ~NoByteLeft
  <2>1. Len(Input) >= 1 /\ Len(Left) >= 1 /\ Left[1] = Input[1]
    <3>1. /\ Len(Input) \in Nat /\ Len(inbound) \in Nat /\ Len(Input) >= 1
          /\ Len(Left) = Len(Input) + Len(inbound)
          /\ \A i \in 1 .. Len(Input) : Left[i] = Input[i]
      BY <1>1, LeftIs
    <3> QED
      BY <3>1
  <2>2. 1 \in 1 .. Len(Left)
    BY <2>1, LeftIs
  <2> QED
    BY <1>1, <2>1, <2>2 DEF NoByteLeft
<1> QED
  BY <1>2, <1>3, <1>4

(* A message that is taken is no byte.                                     *)
LEMMA MessageTaken ==
  ASSUME StreamInv, ReadInv, Take(MessageLength(Input)), UNCHANGED <<inbound, sent, got, plain>>
  PROVE  StillLeft' /\ ReadSoFar'
<1>1. /\ MessageLength(Input) \in 0 .. 2 /\ MessageLength(Input) <= Len(Input)
      /\ \A i \in 1 .. MessageLength(Input) : Input[i] \notin Bytes
      /\ Len(Input) \in Nat
  BY InputIs, MessageLengthIs
<1>2. (inside \o rbuf)' = SubSeq(Input, MessageLength(Input) + 1, Len(Input))
  <2>1. MessageLength(Input) \in Nat
    BY <1>1
  <2> QED
    BY <2>1, TakeLeaves
<1>3. MessageLength(Input) \in 0 .. Len(Input)
  BY <1>1
<1> QED
  BY <1>1, <1>2, <1>3, PassesOver

(* A close_notify ends the reading: no byte comes after it.                *)
LEMMA EofStreams ==
  ASSUME StreamInv, WriteInv, ReadInv, read_eof PROVE StreamInv'
<1>1. /\ UNCHANGED <<backend, sent, setup, tstate, inbound, plain, remaining, trailer, got>>
      /\ pc["reader"] = "call_read" /\ AtHead(Input, "bye")
      /\ IF Schannel THEN UNCHANGED <<inside, rbuf>> ELSE Take(1)
  BY DEF read_eof, ReadStays, kindVars, setupVars, Here
<1>2. StillLeft' /\ ReadSoFar'
  <2>1. CASE Schannel
    BY <1>1, <2>1, MovesKeep DEF StreamInv, Left, Read
  <2>2. CASE ~Schannel
    <3>1. (inside \o rbuf)' = SubSeq(Input, 1 + 1, Len(Input))
      BY <1>1, <2>2, TakeLeaves
    <3>2. 1 \in 0 .. Len(Input) /\ \A i \in 1 .. 1 : Input[i] \notin Bytes
      BY <1>1, InputIs DEF AtHead, Bytes
    <3> QED
      BY <1>1, <3>1, <3>2, PassesOver
  <2> QED
    BY <2>1, <2>2
<1>3. StreamTypes' /\ Cut' /\ ClosedAtEnd'
  BY <1>1 DEF StreamInv, StreamTypes, Cut, ClosedAtEnd, Schannel
<1>4. Closing'
  <2> SUFFICES ASSUME Schannel PROVE Closing'
    BY <1>1 DEF Closing, Schannel
  <2>1. pc'["reader"] = "call_shutdown"
    BY Begins DEF read_eof, GotoThen, Goto, Tasks
  <2>2. NoByteLeft'
    BY <1>1, NoByteBehind DEF NoByteLeft, Left
  <2> QED
    BY <2>1, <2>2 DEF Closing, Ends
<1> QED
  BY <1>2, <1>3, <1>4 DEF StreamInv

(* A request for another handshake is no byte.                             *)
LEMMA RenegotiateStreams ==
  ASSUME StreamInv, WriteInv, ReadInv, read_renegotiate \/ openssl_renegotiate
  PROVE  StreamInv'
<1>1. /\ UNCHANGED <<backend, sent, setup, tstate, inbound, plain, remaining, trailer, got>>
      /\ pc["reader"] = "call_read" /\ pc'["reader"] \in {"handshake", "flush"}
      /\ UNCHANGED then \/ then'["reader"] = "call_read"
  BY Begins DEF read_renegotiate, openssl_renegotiate, ReadStays, kindVars, setupVars, Here,
     GotoThen, Goto, Tasks
<1>2. Closing'
  BY <1>1, NotClosing DEF Ends
<1>3. ClosedAtEnd'
  BY <1>1 DEF StreamInv, ClosedAtEnd
<1>4. CASE UNCHANGED <<inside, rbuf>>
  BY <1>1, <1>2, <1>3, <1>4, StaysKeeps DEF Left
<1>5. CASE ~Schannel /\ Take(MessageLength(Input))
  <2>1. StillLeft' /\ ReadSoFar'
    BY <1>1, <1>5, MessageTaken
  <2>2. StreamTypes' /\ Cut'
    BY <1>1, <1>5 DEF StreamInv, StreamTypes, Cut, Schannel
  <2> QED
    BY <1>2, <1>3, <2>1, <2>2 DEF StreamInv
<1> QED
  BY <1>4, <1>5 DEF read_renegotiate, openssl_renegotiate

(* As long as nothing was dropped, connect and accept dropped something    *)
(* only for a reader whose stream had come to its end.                     *)
LEMMA DropsNothing ==
  ASSUME ReadInv, NEW t \in Tasks, NEW n \in 0 .. Len(rbuf), Drop(t, n), dropped' = {}
  PROVE  UNCHANGED <<inside, rbuf>> \/ (t = "reader" /\ pc[t] = "goodbye")
<1>1. n = 0 \/ (t = "reader" /\ pc[t] = "goodbye")
  BY DEF Drop
<1> QED
  BY <1>1, DropIs

(* The handshake takes the peer's messages, which are no bytes.            *)
LEMMA HandshakeStreams ==
  ASSUME StreamInv, WriteInv, ReadInv, NEW t \in Tasks, handshake(t), dropped' = {}
  PROVE  StreamInv'
<1>1. /\ UNCHANGED <<backend, sent, setup, tstate, inbound, plain, remaining, trailer, got>>
      /\ t = "reader" /\ pc["reader"] = "handshake"
  BY Begins DEF handshake, kindVars, Here, StepsOf, WriterSteps, Common, Tasks
<1>2. /\ pc'["reader"] \in {"flush", "read_more", "raised"}
      /\ then'["reader"] \in {"handshake", "fill_handshake", "connected"} \/ UNCHANGED then
  BY <1>1, Begins DEF handshake, Refill, Fill, GotoThen, Goto, Tasks
<1>3. Closing'
  BY <1>1, <1>2, NotClosing DEF Ends
<1>4. ClosedAtEnd'
  BY <1>1 DEF StreamInv, ClosedAtEnd
<1>5. \/ UNCHANGED <<inside, rbuf>>
      \/ TakeIn
      \/ MessageLength(Input) > 0 /\ Take(MessageLength(Input))
  <2>1. ASSUME NEW n \in 0 .. (IF Schannel THEN Len(rbuf) ELSE 0), Drop(t, n)
        PROVE  UNCHANGED <<inside, rbuf>>
    <3>1. n \in 0 .. Len(rbuf)
      BY DEF ReadInv, ReadTypes
    <3> QED
      BY <1>1, <2>1, <3>1, DropsNothing
  <2> QED
    BY <2>1 DEF handshake
<1>6. CASE UNCHANGED <<inside, rbuf>> \/ TakeIn
  <2>1. Left' = Left /\ (Schannel => UNCHANGED rbuf)
    BY <1>1, <1>6, TakeInLeaves DEF Left
  <2> QED
    BY <1>1, <1>3, <1>4, <2>1, StaysKeeps
<1>7. CASE MessageLength(Input) > 0 /\ Take(MessageLength(Input))
  <2>1. StillLeft' /\ ReadSoFar'
    BY <1>1, <1>7, MessageTaken
  <2>2. Cut'
    BY <1>1, <1>7, ByteInFront DEF Cut
  <2>3. StreamTypes'
    BY <1>1 DEF StreamInv, StreamTypes, Schannel
  <2> QED
    BY <1>3, <1>4, <2>1, <2>2, <2>3 DEF StreamInv
<1> QED
  BY <1>5, <1>6, <1>7

(* A shutdown that drops nothing of the reader's leaves its bytes there;   *)
(* the reader's own comes when no byte is left.                            *)
LEMMA GoodbyeStreams ==
  ASSUME StreamInv, WriteInv, ReadInv, NEW t \in Tasks, dropped' = {},
         schannel_goodbye(t) \/ openssl_goodbye(t)
  PROVE  StreamInv'
<1>1. /\ UNCHANGED <<backend, sent, setup, tstate, inbound, plain, remaining, trailer, got>>
      /\ pc[t] = "goodbye"
  BY DEF schannel_goodbye, openssl_goodbye, WriteStays, kindVars, setupVars, Here
<1>2. /\ pc'[t] \in {"flush", "read_more", "raised"}
      /\ then'[t] \in {"end", "goodbye", "fill_goodbye"} \/ UNCHANGED then
      /\ \A u \in Tasks \ {t} : pc'[u] = pc[u] /\ then'[u] = then[u]
  BY Begins DEF schannel_goodbye, openssl_goodbye, Refill, Fill, GotoThen, Goto, Tasks
<1>3. ClosedAtEnd'
  BY <1>1 DEF StreamInv, ClosedAtEnd
<1>4. ASSUME NoByteLeft => NoByteLeft' PROVE Closing'
  <2> SUFFICES ASSUME Schannel PROVE Closing'
    BY <1>1 DEF Closing, Schannel
  <2>1. /\ then["reader"] \in Ends => pc["reader"] \in Asking \cup Ends \cup {"raised"}
        /\ {pc["reader"], then["reader"]} \cap Ends # {} => NoByteLeft
    BY DEF StreamInv, Closing
  <2>2. CASE t = "reader"
    <3>1. NoByteLeft'
      BY <1>1, <1>4, <2>1, <2>2 DEF Ends
    <3> QED
      BY <1>2, <2>2, <3>1 DEF Closing, Asking
  <2>3. CASE t # "reader"
    <3>1. pc'["reader"] = pc["reader"] /\ then'["reader"] = then["reader"]
      BY <1>2, <2>3 DEF Tasks
    <3> QED
      BY <1>4, <2>1, <3>1 DEF Closing
  <2> QED
    BY <2>2, <2>3
<1>5. CASE UNCHANGED <<inside, rbuf>> \/ TakeIn
  <2>1. Left' = Left /\ (Schannel => UNCHANGED rbuf)
    BY <1>1, <1>5, TakeInLeaves DEF Left
  <2>2. Closing'
    BY <1>4, <2>1 DEF NoByteLeft
  <2> QED
    BY <1>1, <1>3, <2>1, <2>2, StaysKeeps
<1>6. CASE schannel_goodbye(t)
  <2>1. PICK n \in 0 .. Len(rbuf) : Drop(t, n)
    BY <1>6 DEF schannel_goodbye
  <2>2. CASE t = "reader"
    <3>1. NoByteLeft /\ Schannel /\ Input = rbuf /\ rbuf \in Seq(Units) /\ inside = <<>>
      BY <1>1, <1>6, <2>2, InputIs DEF StreamInv, Closing, Ends, schannel_goodbye, ReadInv,
         ReadTypes, Reading
    <3>2. remaining = 0
      BY <3>1, ByteInFront DEF ReadInv, ReadTypes
    <3>3. (inside \o rbuf)' = SubSeq(Input, n + 1, Len(Input)) /\ n \in 0 .. Len(Input)
      BY <2>1, <3>1, DropIs, ConcatEmptySeq DEF Drop
    <3>4. \A i \in 1 .. n : Input[i] \notin Bytes
      BY <3>1, <3>3, LeftIs DEF NoByteLeft
    <3>5. StillLeft' /\ ReadSoFar'
      BY <1>1, <3>3, <3>4, PassesOver
    <3>6. Closing'
      BY <1>1, <1>4, <3>1, <3>3, NoByteStays
    <3>7. StreamTypes' /\ Cut'
      BY <1>1, <3>2 DEF StreamInv, StreamTypes, Cut, Schannel
    <3> QED
      BY <1>3, <3>5, <3>6, <3>7 DEF StreamInv
  <2>3. CASE t # "reader"
    BY <1>5, <2>1, <2>3, DropsNothing
  <2> QED
    BY <2>2, <2>3
<1>7. CASE openssl_goodbye(t)
  BY <1>5, <1>7 DEF openssl_goodbye
<1> QED
  BY <1>6, <1>7

(* Nothing was read at first.                                              *)
LEMMA StreamInit == TlsInit => StreamInv
<1> SUFFICES ASSUME TlsInit PROVE StreamInv
  OBVIOUS
<1>1. StreamTypes
  BY DEF TlsInit, StreamTypes
<1>2. sent \in Seq(Units)
  BY <1>1, SentIs
<1>3. Left = sent /\ Taken = 0 /\ Len(sent) \in Nat
  <2>1. << >> \o << >> = << >> /\ << >> \o sent = sent
    BY <1>2, ConcatEmptySeq
  <2>2. Left = sent
    BY <2>1 DEF TlsInit, Left
  <2> QED
    BY <1>2, <2>2 DEF Taken
<1>4. StillLeft
  BY <1>3 DEF StillLeft
<1>5. ReadSoFar
  <2>1. Read = <<>>
    <3>1. << >> \o << >> = << >>
      BY <1>2, ConcatEmptySeq
    <3> QED
      BY <3>1 DEF Read, TlsInit
  <2>2. BytesUpTo(0) = 0
    <3>1. {q \in 1 .. 0 : sent[q] \in Bytes} = {}
      OBVIOUS
    <3> QED
      BY <3>1, FS_EmptySet DEF BytesUpTo
  <2> QED
    BY <1>3, <2>1, <2>2 DEF ReadSoFar
<1>6. Cut /\ Closing /\ ClosedAtEnd
  BY DEF TlsInit, Cut, Closing, ClosedAtEnd, Ends, Tasks
<1> QED
  BY <1>1, <1>4, <1>5, <1>6 DEF StreamInv

(* Every step keeps the reader's place.                                    *)
LEMMA StreamNext ==
  ConnectionInv /\ StreamInv /\ dropped' = {} /\ [TlsNext]_tlsVars => StreamInv'
<1> SUFFICES ASSUME ConnectionInv, StreamInv, dropped' = {}, [TlsNext]_tlsVars PROVE StreamInv'
  OBVIOUS
<1>0. WriteInv /\ ReadInv
  BY DEF ConnectionInv
<1>1. CASE SetupStep
  BY <1>0, <1>1, SetupStreams, WriterStreams DEF SetupStep, SettingUp
<1>2. CASE ReaderStep
  BY <1>0, <1>2, DecryptStreams, WantsMoreStreams, EofStreams, RenegotiateStreams, HandOutStreams,
     OpensslReadStreams DEF ReaderStep
<1>3. CASE write_once \/ DoneWriting
  BY <1>0, <1>3, WriterStreams
<1>4. ASSUME NEW t \in Tasks, TaskStep(t) \/ GiveUp(t) PROVE StreamInv'
  BY <1>0, <1>4, OtherStreams, ReceiveStreams, HandshakeStreams, GoodbyeStreams DEF TaskStep
<1>5. CASE Panic
  BY <1>0, <1>5, SetupStreams
<1>6. CASE UNCHANGED tlsVars
  <2>1. UNCHANGED <<backend, sent, readVars>> /\ UNCHANGED <<pc, then, tstate, setup>>
    BY <1>6 DEF tlsVars, kindVars, taskVars, setupVars
  <2>2. Closing' /\ ClosedAtEnd' /\ Left' = Left
    BY <2>1 DEF StreamInv, Closing, NoByteLeft, ClosedAtEnd, Left, Schannel, readVars
  <2> QED
    BY <2>1, <2>2, StaysKeeps DEF readVars
<1> QED
  BY <1>1, <1>2, <1>3, <1>4, <1>5, <1>6 DEF TlsNext

(* What connect or accept dropped stays known.                             *)
LEMMA DroppedGrows == [TlsNext]_tlsVars => dropped \subseteq dropped'
<1> SUFFICES ASSUME [TlsNext]_tlsVars PROVE dropped \subseteq dropped'
  OBVIOUS
<1>1. ASSUME SetupStep \/ Panic \/ UNCHANGED tlsVars PROVE dropped' = dropped
  BY <1>1 DEF SetupStep, schannel_new, read_pfx, acquire_credentials, init_server,
     add_root_certificate, openssl_ctx, openssl_ssl, HandshakeFailed, Switch,
     verify_peer_certificate, peer_certificate, close, StartHandshake, Begin, Panic, NoTraffic,
     readVars, tlsVars
<1>2. ASSUME ReaderStep \/ write_once \/ DoneWriting PROVE dropped' = dropped
  BY <1>2 DEF ReaderStep, schannel_decrypt, read_wants_more, read_eof, read_renegotiate,
     openssl_renegotiate, read_wants_write, read_fails, schannel_hand_out, openssl_read, ReadStays,
     write_once, DoneWriting
<1>3. ASSUME NEW t \in Tasks, NEW n, Drop(t, n) PROVE dropped \subseteq dropped'
  BY <1>3 DEF Drop
<1>4. ASSUME NEW t \in Tasks, handshake(t) \/ schannel_goodbye(t)
      PROVE  dropped \subseteq dropped'
  BY <1>3, <1>4 DEF handshake, schannel_goodbye
<1>5. ASSUME NEW t \in Tasks, TaskStep(t) \/ GiveUp(t), ~handshake(t), ~schannel_goodbye(t)
      PROVE  dropped' = dropped
  BY <1>5 DEF TaskStep, ReadMore, WaitToRead, Receive, FlushWrite, WaitForLock, Send, Flushed,
     FillAfterFlush, connected, shutdown, openssl_goodbye, GiveUp, readVars
<1> QED
  BY <1>1, <1>2, <1>4, <1>5 DEF TlsNext

(* A reader on Schannel at its end had all bytes.                          *)
LEMMA EndHadAll ==
  ASSUME StreamInv, ReadInv, pc["reader"] = "end", Schannel
  PROVE  Len(got) = BytesUpTo(Len(sent))
<1>1. /\ sent \in Seq(Units) /\ WellFormed(sent) /\ Left \in Seq(Units)
      /\ Len(sent) \in Nat /\ Len(Left) \in Nat /\ Taken \in Nat
      /\ Taken + Len(Left) = Len(sent)
  BY SentIs, LeftIs DEF StreamInv, StillLeft, Taken
<1>2. Len(got) = BytesUpTo(Taken)
  <2>1. Read = got
    BY ConcatEmptySeq DEF Read, StreamInv, StreamTypes
  <2> QED
    BY <2>1 DEF StreamInv, ReadSoFar
<1>3. \A q \in Taken + 1 .. Taken + Len(Left) : sent[q] \notin Bytes
  <2> SUFFICES ASSUME NEW q \in Taken + 1 .. Taken + Len(Left) PROVE sent[q] \notin Bytes
    OBVIOUS
  <2>1. q - Taken \in 1 .. Len(Left) /\ Taken + (q - Taken) = q
    BY <1>1
  <2>2. NoByteLeft
    BY DEF StreamInv, Closing, Ends
  <2> QED
    BY <2>1, <2>2 DEF StreamInv, StillLeft, NoByteLeft
<1>4. BytesUpTo(Taken + Len(Left)) = BytesUpTo(Taken)
  BY <1>1, <1>3, BytesStay
<1> QED
  BY <1>1, <1>2, <1>4

(* As long as no connect or accept dropped input that was for the reader,  *)
(* it is given the bytes of the peer in order and loses none, however the  *)
(* network and its own buffer cut the records; told that the stream ended  *)
(* on Windows, it had all of them.  For every stream of the protocol, of   *)
(* any length and cut off anywhere.                                        *)
THEOREM ReadsWhatWasSentHolds == TlsSpec => []ReadsWhatWasSent
<1> DEFINE Kept == dropped = {} => StreamInv
<1>1. ConnectionInv /\ Kept => ReadsWhatWasSent
  <2> SUFFICES ASSUME ConnectionInv, StreamInv PROVE ReadsInOrder
    BY DEF ReadsWhatWasSent
  <2>1. ReadInv /\ StillLeft /\ ReadSoFar
    BY DEF ConnectionInv, StreamInv
  <2>2. /\ sent \in Seq(Units) /\ Left \in Seq(Units)
        /\ Len(sent) \in Nat /\ Len(Left) \in Nat /\ Taken \in Nat
        /\ Taken + Len(Left) = Len(sent)
    BY <2>1, SentIs, LeftIs DEF StreamInv, StillLeft, Taken
  <2>3. Left = SubSeq(sent, Taken + 1, Len(sent))
    <3> DEFINE m == Taken + 1
               rest == SubSeq(sent, m, Len(sent))
    <3>1. m \in 1 .. Len(sent) + 1 /\ Len(sent) - m + 1 = Len(Left)
      BY <2>2
    <3>2. \A i \in 1 .. Len(Left) : i + m - 1 = Taken + i
      BY <2>2
    <3> HIDE DEF m
    <3>3. << >> \in Seq(Units)
      OBVIOUS
    <3>4. /\ rest \in Seq(Units) /\ Len(rest) = Len(sent) - m + 1
          /\ \A i \in 1 .. Len(rest) : rest[i] = sent[i + m - 1]
      BY <2>2, <3>1, <3>3, RestOfBoth
    <3> HIDE DEF rest
    <3>5. Len(rest) = Len(Left) /\ \A i \in 1 .. Len(Left) : Left[i] = rest[i]
      BY <2>1, <3>1, <3>2, <3>4 DEF StillLeft
    <3>6. Left = rest
      BY <2>2, <3>4, <3>5, SeqEqual
    <3> QED
      BY <3>6 DEF rest, m
  <2> QED
    BY <2>1, <2>3, EndHadAll DEF ReadsInOrder, ReadSoFar, Read, StreamInv
<1>2. ConnectionInv /\ Kept /\ [TlsNext]_tlsVars => ConnectionInv' /\ Kept'
  <2>1. [TlsNext]_tlsVars /\ dropped' = {} => dropped = {}
    BY DroppedGrows
  <2> QED
    BY <2>1, ConnectionNext, StreamNext
<1>3. TlsInit => ConnectionInv /\ Kept
  BY ConnectionInit, StreamInit
<1> HIDE DEF Kept
<1> QED
  BY <1>1, <1>2, <1>3, PTL DEF TlsSpec
=============================================================================
