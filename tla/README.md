# jk100 in TLA+

A verification project for jk100, a malware scanner and cleaner for Windows:
TLA+ modules of its scanner, guard, cleaning and engine library, of the memory
management of the runtime it is linked with, and of the `async` package of its
workspace; TLC configurations that check them on small instances, and TLAPS
proofs of the properties that matter most, for every value of the constants.

All source paths are relative to `src/`. `cwrap.c` is `lib/platform/cwrap.c`,
`runtime.c` is `moonbit/lib/runtime.c`, and `async/` is
`.mooncakes/moonbitlang/async/src/`.

## 1. The system

The program exists twice. What runs today is the C side: `main/main.mbt`
dispatches the command line to `jk100_run_scan` or `jk100_start_guard` in
`cwrap.c`, which do everything themselves, because the compiler could not build
the MoonBit engine (README.md, section on the ICE). The MoonBit libraries
`lib/core` (engine) and `lib/clean` (cleaning) are complete code on the same C
operations, called by nothing yet. The GUI (`lib/ui`) is built on stubs.

Every object of the MoonBit side is allocated, counted and freed by `runtime.c`,
which is linked into the program. The package `async` (event loop, worker
threads, I/O on three kinds of poller, TLS) is kept in the repository as source
and is resolved as a package of the workspace (`moon.work`), but no package of
jk100 imports it yet. It holds most of the repository's C code outside
`cwrap.c`, and the code with most concurrency.

### Inventory

| Component | State | Operations | Hard behaviour | What makes it correct | Status |
|---|---|---|---|---|---|
| Detection, `cwrap.c:426-469, 563-582` | two constant pattern lists | whitelist, size limit, first matching rule | the order of the three tests; a size that cannot be read | a verdict only for a matched, not whitelisted, not too big file | `Detect` |
| Enumeration, `cwrap.c:352-370` | one walk on the stack | depth-first walk, files appended to the buffer | other programs change the tree during the walk | what was there throughout is listed; nothing that never was | `FileWorld` (the walk abstracted) |
| Listing buffer, `cwrap.c:340-400` | `g_enum_files`, `g_enum_count`, `g_enum_cap` | add with growth, list, get, free; private copies in scan and guard | one global buffer, cleaned in three different ways | no dangling entry, no double free, no leak, growth keeps entries | `EnumBuffer` |
| One-shot scan, `cwrap.c:472-555` | listing, three counters | list, judge each, release, conclude | files change between listing and judging; three exits from the loop body | nothing steady is missed; counters, report and conclusion agree | `Scan` |
| Guard, `cwrap.c:560-720` | `g_guard_running`, `g_known_files` (10000), counters | baseline, wait, round, stop, return | a flag written by another thread, a bounded list, files changing, sessions after each other | one alarm per new file, none for the baseline, a stop ends it | `Guard` |
| Windows operations, `cwrap.c:69-75, 124-141, 167-237` | processes, autostart keys, services, files, pending deletions | kill, delete key, stop, delete service, move, test in use, schedule | each can be refused; effects that come later; a move to another volume is a copy and a deletion | what they return is what happened | `Clean` |
| Cleaning, `lib/clean` | items, pending_reboot | `deep_clean_threat`, `clean_selected`, `one_click_clean` | partial failure, watchdogs, reboot, crash, a second run | no copy lost, one failure does not block the rest, the report stands | `Clean` |
| Manifest and rollback, `lib/clean/quarantine.mbt` | none: not implemented | `write_manifest`, `read_manifest`, `rollback` | - | - | no behaviour |
| Engine scan, `lib/core/scan.mbt` | result, callbacks | two readings per file, whitelist, rules, ClamAV, progress | the file changes between readings; callbacks against result | gapless progress, each threat announced once, each file gets its verdict | `CoreScan` |
| Signature database, `lib/core/sigdb.mbt` | two rule sets | whitelist, rules, wildcard, environment variables | patterns compared in two different ways | whitelisted is not reported | `SigDB` |
| Hash, PE, ClamAV, `lib/core` | none | SHA-256, header offsets, stub client | 32-bit arithmetic, untrusted offsets | the standard's function; offsets in range | stubs as they are in `SigDB`, with the header that ends the program; the other arithmetic left out |
| Conversions and reading, `cwrap.c:1-42, 294-336, 403-424` | none | UTF-16 to UTF-8, reading a file | fixed buffers, 32-bit sizes | text unchanged or refused | reading only |
| Enumeration of processes, keys, services | none | three snapshots | lists change between two calls | - | no caller; left out |
| Command line, `main/main.mbt` | none | dispatch, conclusion | - | the conclusion is that of the scan | conclusion in `Scan` |
| GUI, `lib/ui` | `AppModel.state` | seven views | states without an exit | every state can be left | left out: stubs, no caller |
| Memory of the runtime, `runtime.c:88-366` and arrays of references, 1937-2388 | counts, slots, free memory | incref, decref, drop, make, blit, finalizers | the drop keeps its way back in the objects it frees; drops within blits and finalizers | counts equal references; nothing freed is read | `RefCount` |
| Thread pool and event loop, `async/internal/event_loop/thread_pool.c:149-442`, `event_loop.mbt`, `async/internal/coroutine` | job queue, idle and running workers, struct worker of each thread, completions; state of each coroutine | submit, complete, wake, cancel, signal, clean up | one loop and many threads without a lock; calls that block for ever; interrupts that miss | no job freed while it runs, none forgotten, cancelled tasks end, clean-up leaves nothing | `ThreadPool`, `JobContract` |
| Jobs, `thread_pool.c:444-2398`, `detect_file_kind.c` | per job: ret, err, payload, what it opened | 26 kinds of job, take the result, free | any call fails or is aborted, then everything acquired so far has to go; a static buffer | the error is the true one; nothing leaks | `Jobs` |
| I/O handles and pollers, `io_unix`, `io_windows`, `network_*`, `io.mbt`, `epoll.c`, `kqueue.c`, `iocp.c` | registrations, IoResults, completion packets | read, write, connect, accept, directory changes, cancel, close | edges and packets that come once; buffers the kernel writes to; cancel against completion | no lost wake-up, buffers alive, true results, cancelled operations end | `IoHandle` |
| TLS, `async/tls` | security context, read and write buffer, read and write lock | set up, handshake, read, write, renegotiate, shut down, free | two tasks share the buffers across awaits; a shutdown within another task's record; cancelled or failed flushes; acquisitions that fail midway | bytes in order, records whole and once, nothing held | `Tls` |
| Rest of `async` (sockets, processes, file watching, HTTP, ...) | none of their own, or coroutines' | wrappers and layers | - | - | left out |
| Bundled rules, build scripts, rest of `moonbit/` and `.mooncakes/` | - | - | - | - | data and third-party code |

### How they interact

`run_cli` calls the scan or the guard, which share the listing buffer and the
detection lists. The guard's loop polls `g_guard_running`, which
`jk100_stop_guard` clears from another thread; the present command line never
calls it and relies on Ctrl+C. The engine library calls `read_file_bytes` and
`set_thread_priority` and reports through callbacks. Cleaning takes threats,
calls the Windows operations one after the other, and reports items. The file
system, the service manager and other programs act between any two steps.

In the async package a coroutine that needs a blocking call submits a job to the
thread pool and is suspended; a worker thread performs it and posts a completion
to a pipe or port; the loop polls that together with the I/O handles, hands the
worker its next job and wakes the coroutine. TLS is a layer of coroutines on one
I/O handle: it sees reads and writes that return, fail or are cancelled.

## 2. The modules

| Module | Models | Notes |
|---|---|---|
| `Detect` | lists, whitelist, rules, `check_single_file` | pure; a path is a model value, `Holds` says which patterns its lower-case form contains |
| `FileWorld` | the tree and one enumeration of it | `fs`, `walk`; extends `Detect` |
| `Guard` | the guard, stop requests, Ctrl+C | extends `FileWorld` |
| `AlarmSession` | what a guard session promises | abstract |
| `GuardSession` | refinement mapping and inductive invariant | extends `Guard`, instantiates `AlarmSession` |
| `Scan` | the one-shot scan and its conclusion | extends `FileWorld`, instantiates `ScanContract` |
| `ScanContract` | what a scan promises, whichever engine does it | abstract; `Scan` and `CoreScan` implement it |
| `EnumBuffer` | the listing buffer's memory | blocks on a heap |
| `SigDB`, `CoreScan` | signature database, engine scan | `CoreScan` instantiates `ScanContract` |
| `Clean` | Windows operations and cleaning | |
| `ThreadPool` | event loop, coroutines, worker threads | instantiates `JobContract` |
| `JobContract` | what `perform_job_in_worker` promises a coroutine | abstract |
| `Jobs` | every kind of job, call by call | several at once |
| `IoHandle` | one handle with a reader and a writer on three pollers | |
| `Tls` | one connection on either engine | |
| `RefCount` | the heap of `runtime.c` | |
| `WorldProofs`, `GuardProofs`, `ScanProofs`, `CleanProofs`, `ResourceProofs`, `CoreScanProofs`, `ThreadPoolProofs`, `IoProofs` | proofs | |
| `MC*` | instances for TLC | |

### Correspondence with the code

*Detection.* `check_single_file(p)` is the code's function: the whitelist, then
the size, then the first rule in list order. The attributes of a file are
`"absent"`, `"small"` and `"big"`: the only things the code asks of a file. A
file whose attributes cannot be read is judged by its name, as in the code.

*Enumeration.* A walk is open from its first directory read to its last.
Meanwhile `walk.must` holds the files that were there all the time and
`walk.may` those that were there at some moment. The listing is any sequence
without repetition between the two. `FindFirstFile` takes no snapshot, so
nothing stronger can be assumed of a tree that changes. Directories that cannot
be opened are outside: a file below one is, to this model, not in the tree.

*Guard.* One action per stretch of `jk100_start_guard` between two places at
which another actor can interfere: `StartGuard` (up to the baseline
enumeration), `TakeBaseline` (its result recorded and released), `Arm` (the flag
set), `SleepSlice`, `LeaveLoop`, `BeginRound`, `RoundListed`, `SkipKnown` or
`ScanNew` (one entry each), `EndRound`, `Return`. `StopGuard` happens at any
moment. `CtrlC` ends the process: its memory is gone, the tree stays.
`alarms`, `base`, `fresh`, `stopAsked` are observers and are never read by a
guard of the program's actions.

*Scan.* `Start`, `Listed` (early return for an empty listing), then per entry
one of `SkipWhitelisted`, `SkipBig`, `JudgeByName`; then `Release` and
`Conclude`. `steady` observes the files that did not change since `Start`.

*Listing buffer.* The code's blocks, array and capacity, with a cell never
written distinguished from a block. `Clear` and `ReleaseBuffer` are the two
ways of cleaning; `ScanReturns` keeps the third, an early return without release.

*Cleaning.* `deep_clean_threat` step by step: `pc` says which part is next. The
Windows operations are operators of their own (`kill_process(p, ok)`, ...), each
with the effect and the result the C function has; `ok` is chosen by the
environment. `delete_run_key` always succeeds to its caller.
`StopService`/`StopWaitOver` are the two halves of `jk100_stop_service`: the
wait is over when the service stopped or after ten seconds, and in both cases
the result is success. `MoveFileA` renames within a volume, which
`move_file_to_quarantine` does in one step; a file of `OtherVolume` it copies and
then deletes: `CopyToQuarantine` takes the name in the quarantine (`partial`),
`CopyFails` or `CopyEnds` follows, and `DeleteOriginal`, which may leave the
original where it is and counts as success. The program can be ended between
any two of them. A file is a number of a copy: `made` counts the copies a
path ever had, so that a replaced file is told from the first one. Terminated
processes end later, stopping services stop later, watchdogs restart,
programs open and close files, a file can come back, and the machine reboots.

*Engine scan.* `ReadForHash` and `ReadForHeader` are the two readings.
`SkipWhitelisted`, `MatchRules`, `ScanFile` are the rest of the body. `calls` is
the order of callbacks. A content of `"huge"` is a file whose size, cut to 32
bits, is not a length: the allocation ends the program. A `"misleading"` one has a
header whose `e_lfanew` passes the check of `parse_pe` (`pe.mbt:38`) and is no index:
the second reading ends the program. `ScanContract` knows both as `fatal`:
a scan ends before its list only when the next file is one of these, or when
the user can end it (`Interruptible`, which is `FALSE` here, `TRUE` of the
one-shot scan, where in turn nothing is fatal). Other programs change what is
fatal at any moment.

*Thread pool.* The loop is one thread: `Poll`, `HandleCompletedJob` and `HandleSignal` (one completion each), `Reschedule`, then
one action per coroutine it resumes (`Submit`, `Resumed`, `CancelJob`, ...), and
`BeginCleanup`, `free_worker`, `JoinWorker`, `Stop` at its end. A worker thread
is at a place of its loop (`pc`) and holds its local variable `job` in `cur`;
`EnterCall`, `LeaveCall`, `SetWaiting`, `PostCompletion`, `NextJob` are the
stretches between two accesses to what it shares with the loop. The three
wake-up methods of the platforms (event, signal, condition variable) differ in
`MayWake`; on all of them a thread sets `waiting` before it posts, as in the code.
`cancel_worker` may interrupt the call, find the thread outside of it and ask to
be retried, or fail. A `Signal` is a completion with its top bit set; it cancels
`Main`. A job is named by the task that asks for it.

*Jobs.* `At(j, kind, step)` is a place in a worker function; each system call is
one step that succeeds, fails or is aborted. `owed` are the resources (a
descriptor, a handle, a piece of memory) and their jobs; `Free` is the job's
free function, `TakeResult` what the coroutine does with `ret`, `err` and the payload.
`worked` observes whether the call the job is about succeeded.

*I/O handles.* `stage` is where each of the two tasks is in an operation.
`avail`, `peer` say what a call would find; `edge` is a notification the poller
has not delivered; `kern`, `port`, `kept`, `result` are the overlapped operation, the
packets queued, what an IoResult retains and where it was allocated. An address
may be used again after `free`. `late` is set when an IoResult is freed with
its packet still queued.

*TLS.* The two tasks are coroutines: `turn` is the one that runs, and it changes
only where the code awaits. `rbuf`, `wbuf` are the transport's buffers, `inside`
what OpenSSL has taken in, `wire` what the peer received; `rlock` and `wlock` are
the transport's semaphores, handed to the task that waits. `mishap` remembers what
happened to a flush (overtaken by another record, or given up). `handshake` is one
call of the library in the loops of `connect` and `accept`, with each answer they
distinguish: more input, a record to send, the end, or an error.
`read_renegotiate` goes back to that loop from within a read. `shutdown` and the
`schannel_goodbye` or `openssl_goodbye` after it are in the loop, too, run by
whichever task shuts the connection down, beside the other.

What matters on Windows is that all of these calls take the whole read buffer as
input and drop what the library does not report as `SECBUFFER_EXTRA`
(`schannel.c:344`, `schannel.mbt:159`). Of a message of the handshake the library
takes that message; of anything else, in a shutdown or with an error, the
model has it take any number of units (`Drop`), although they may be the rest of
a record the reader is in the middle of, and `dropped` remembers where that
happened. The first call of `connect` reads a count of bytes that nobody set: it
drops nothing, moves the buffer's start to what stood in front of it (`"junk"`), or ends
the program. `Panic` is every guard of this code that ends the program.
`Reachable` says that the callbacks OpenSSL is given fail on a transport that
is closed or in error, `HasRoom` and `Cramped` that its records may not fit.
`read_fails` and the branches named `Error` let any call fail.

The security library is external. Two things are assumed of it: it decrypts whole
records in their order, and a handshake ends with a message of the peer.
The peer sends any of the given `Streams`; that they are `WellFormed` (bytes between
a record's header and trailer, none after `close_notify`) is what the libraries
check and the model takes from them.

*Memory.* A call of the runtime is a list `todo` of steps, so that a drop
within a blit, or one from a finalizer within another drop, comes in front of
what remains. `last` is what the call does when the list is empty: the copy of a
blit, the filling of a new array, the release of a source that was taken apart.
In an object that a drop has suspended, `rc` is the index of the child being
dropped and the child's slot holds the parent: the model keeps the way back where
the code keeps it. `owned` counts the program's references. `counted`, a field
of a pending copy, observes the elements the blit has counted again (or moves)
and is read by no action: should the source be freed before it is copied, that is
where these references are.

## 3. Runs

| Run | Configuration | Shows | Outcome |
|---|---|---|---|
| `guard` | `MCGuard` | a round judges only its own listing, alarms are justified and, until the list is full, raised once; the list is shorter than the number of files | holds |
| `guard_live` | `MCGuardLive` | a stop in the loop ends it, new files are scanned, and `AlarmSession` is implemented if the list has room | holds |
| `guard_stop` | `MCGuardStop` | a stop request before the loop is armed is lost (`cwrap.c:653`) | violated |
| `scan` | `MCScan` | nothing steady is missed, each report is of a file the rules match, and the scan implements `ScanContract` | holds |
| `enum_buffer` | `MCEnumBuffer` | ownership of the entries under every order of calls; growth keeps them | holds |
| `core_scan` | `MCCoreScan` | progress is gapless, each threat is announced at its place, counters and result agree; each file gets its verdict; `ScanContract`: only the files named as fatal end the scan | holds |
| `clean` | `MCClean` | no copy lost, one copy in one place on the volume of the quarantine, the report stands, one failure does not block, cleaning returns | holds |
| `thread_pool` | `MCThreadPool` | a job stays referenced while it runs, none waits beside an idle worker, clean-up leaves nothing, cancelled tasks end, `JobContract` is implemented | holds |
| `jobs` | `MCJobs` | the error of each kind of job is that of the call that failed; every way out releases what was acquired; realpath answers with another's path only on Windows and while another realpath job has begun | holds |
| `io_handle` | `MCIoHandle` | no wake-up is lost, kernel buffers are alive, results are true, cancelled and ready operations end | holds |
| `tls` | `MCTls` | bytes are read in order until input for the reader is dropped, records reach the wire whole and once, nothing stays held | holds |
| `refcount` | `MCRefCount` | counts are right, nothing freed is read, each step of a drop comes closer to its end | holds |

The properties that hold are stated with the qualifications the code needs. Some
are worth reading: "until the list is full" in the guard's, "steady" in the
scan's, "other than by the reboot's deletion" and "on the volume of the quarantine" in
cleaning's, `fatal` in the contract of a scan, "as long as the
handle stays open" in `IoHandle`'s, the two exceptions in `Jobs!NothingLeaks`,
`mishap` and `dropped` in `Tls`'s and the tasks that `ThreadPool!TasksConclude` leaves out.

### Properties the code does not keep

`guard_stop` is a run of its own. The others are sentences of the repository's
documents and comments (quoted in `PROJECT.json` under `findings`), stated in the
modules beside the qualified property that holds. To see TLC's counterexample,
put the property in the place of the configuration's INVARIANTS and PROPERTIES:

| Property | Configuration | As | What goes wrong |
|---|---|---|---|
| `OnlyNewFilesScanned` | `MCGuard.cfg` | INVARIANT | baseline files beyond the list's capacity are scanned as new (`cwrap.c:597`) |
| `CreatedFileScanned` | `MCGuardLive.cfg` | PROPERTY | a file created again under its name is not scanned (`cwrap.c:673`) |
| `PendingRebootTrue` | `MCClean.cfg` | INVARIANT | a reboot is announced with nothing scheduled (`targets.mbt:44`) |
| `DeletedIsInQuarantine` | `MCClean.cfg` | INVARIANT | a file in use is deleted without a copy (`targets.mbt:40`) |
| `MovedIsGone` | `MCClean.cfg` | INVARIANT | a file moved to another volume is reported as moved and still there (`cwrap.c:221`) |
| `OneFileDoesNotEndScan` | `MCCoreScan.cfg` | INVARIANT | one file of 2 GB, or one with a misleading header, ends the scan of all (`cwrap.c:301`, `pe.mbt:38`), which the design document (section 11) rules out |
| `WhitelistedNotReported` | `MCCoreScan.cfg`, with `Paths <- MCSystemPaths` and `Fits <- MCSystemFits` | INVARIANT | a file in a whitelisted system directory is reported (`sigdb.mbt:43`) |
| `RealpathIsOwn` | `MCJobs.cfg` | INVARIANT | two jobs share the static buffer of realpath (`thread_pool.c:1672`) |
| `KernelBufferAlwaysAlive` | `MCIoHandle.cfg` | INVARIANT | an IoResult is freed with its packet queued (`io_windows.c:251`) |
| `GoodbyeIsSent` | `MCTls.cfg` | INVARIANT | a flush drops a record added while it waited (`transport.mbt:91`) |
| `ReadsAfterShutdown` | `MCTls.cfg` | INVARIANT | a shutdown drops what the reader has in its buffer (`schannel.mbt:159`) |
| `NoPanic` | `MCTls.cfg` | INVARIANT | a guard ends the program: the first call of `connect`; a write beside a flush (`schannel.mbt:411`); a read of a record that a shutdown dropped a part of |
| `SourceOutlivesBlit` | `MCRefCount.cfg` | INVARIANT | a blit frees its source before it copies (`runtime.c:1955`) |

What `RealpathIsOwn` fails by is bounded from the other side: the run `jobs`
checks `RealpathMixedOnlyByRace`, that nothing but such a race mixes the answers
up, and section 4 proves it.

### Bounds

* *Guard*: three files (two matched, one of them by two rules, one both matched
  and whitelisted) with room for two in the list, so that it fills; two
  sessions; two changes of the tree, so that one file can appear and disappear
  within a session. `Slices` stands for the ten slices of the wait: the loop
  leaves after any of them, and one or two show both outcomes. `MaxNew` bounds
  the counter of new files, which otherwise grows for ever once the list is full.
* *Scan*: the same files, all initial trees, two changes.
* *Listing buffer*: four blocks and a first capacity of one: the array grows
  twice, and blocks are reused after a release.
* *Engine scan*: lists of up to two of three files (one a rule names, one both
  matched and whitelisted, one neither), repetitions included, two scans after
  each other, one change between readings, four file contents
  and clamd available or not.
* *Cleaning*: one process, key and service and two files, one on the
  quarantine's volume and one on another; a threat with all parts and
  one naming the other file only, chosen twice or both in the first run and one in the
  second, under the same or another scan id; one spontaneous event of another
  program (its reactions are not bounded) (463,798 states).

* *Thread pool*: three tasks, two of them cancellable, on one worker: one runs
  while the others queue, and each wake-up method, signal and cancellation can
  meet each place of the thread's loop (255,516 states, liveness included). Two
  workers (`Workers = {w1, w2}`, `MaxWorkerCount = 2`: 2.6 million states) were
  checked for the three invariants outside the runs, which the proofs cover for
  every number of workers. Each coroutine performs one job.
* *Jobs*: two jobs of any two of the 26 kinds, on four platforms that differ in
  their branches (Windows, Windows 7, Linux, macOS): all 26 with all their ways
  out, and every pair for the one thing two jobs share (178,178 states). The
  pairs of one kind show what the static buffer does.
* *I/O handles*: every use of a handle on every poller; two operations in all
  and one unit of data in each direction, so that a cancelled operation is
  followed by another, or two are under way; two addresses, so that an IoResult
  can be where a freed one was (225,368 states).
* *TLS*: both engines and roles; three peers: one whose handshake comes in two
  pieces and whose stream ends with a `close_notify`, one that is cut off in a record,
  and one that asks for another handshake before a record of two bytes; three
  records to write with room for two in the buffer, so that a flush waits, is overtaken
  and is cramped; a shutdown by either task at any moment (1,724,075 states).
* *Memory*: three objects of at most two slots, at most two references of the
  program to one object. Three is the least for a drop to be two levels deep with
  a shared child beside it. `Symmetry` permutes the addresses, which are
  interchangeable. `NothingLeaked` is a constraint: states with a cycle
  nobody refers to, which counting never frees, are not followed further, and
  what happens beside such a cycle is not looked at (1,250,644 states); the proofs
  of section 4 have no such constraint and no such bounds.

`CHECK_DEADLOCK FALSE` stands where the system may stop: a scan that has
concluded or was killed, cleaning after its last run, a pool that is cleaned up,
jobs that are all freed, a connection that is closed, operations and
references that are used up. The guard and the listing buffer are checked for
deadlock; that the pool does not stop short of its end is `NothingLeftBehind`
and `TasksConclude`.

### Fairness

Liveness assumes weak fairness of the program's own steps only
(`WF_vars(GuardStep)`, `WF_vars(CleanStep)`): each is one thread that the
scheduler keeps running, its waits are `Sleep`s that return, and the enumeration
of a finite tree ends. Nothing is assumed of stop requests, other programs,
services or the user. `CleaningEnds` holds without fairness of the service
manager because of the bounded wait in `jk100_stop_service`.

`ThreadPool` assumes weak fairness of `LoopStep`, the one thread of the loop, and
of each worker's `ThreadStep`: these are threads the scheduler keeps running.
`ThreadStep` has a call without `cancel` return in the end, which
`TasksConclude` needs; a cancellable call (an open of a pipe, a lock) is only sure
to return once it was interrupted. Nothing is assumed of spawning, of
cancellations and of signals. `IoHandle` assumes weak fairness of
polling, of the kernel finishing what it was asked to abort or has data for, and
of the resumption of tasks that were woken; nothing of peers, of cancellations
and of closing.

## 4. Proofs

All theorems hold for any sets of files, rules, threats and any bounds, from the
named assumptions on the constants (`GuardAssumption` and its like) only. TLC
evaluates these in every run.

* **`WorldProofs`**: lemmas on detection and enumeration. A verdict is sound,
  a listing lies between `must` and `may`, the world keeps its types.
* **`GuardProofs`**: `TypeCorrect`, and `Invariance` of `GuardInv`. The
  properties are not inductive by themselves: that an alarm is raised once
  depends on the list holding every file alarmed so far, which depends on the
  baseline having been recorded in full, which holds only until the list is
  full, and on a session starting from an empty list. `ListComplete`,
  `ListPlaced`, `FreshSession` and `WalkPlaced` say so. From it follow
  `KnownOnceHolds`, `BufferHolds`, `CountHolds`, `AlarmsOnceHolds`,
  `BaselineQuietHolds` and `AlarmsJustifiedHolds`. `GuardRefinesSession` shows
  the guard to implement `AlarmSession` when there are no more files than
  `MAX_KNOWN_FILES`: then an injective list that is full holds every file.
* **`ScanProofs`**: an invariant on the place in the loop (what is still to
  judge is the rest of the listing; every steady matched file is named or still
  to come) gives `TypeCorrect`, `NothingSteadyMissedHolds`,
  `ReportsSoundHolds`, `SummaryAddsUpHolds`; and `ScanKeepsContract`, the
  refinement of `ScanContract`, step by step.
* **`CleanProofs`**: `TypeCorrect`; `NoCopyLostHolds` and
  `OneCopyOnePlaceHolds` from `CopyInv`, which adds that no copy number
  exceeds `made`, so that a file put back is told from every copy kept, and
  `CopyPlaced`, that between the copy and the deletion of a move to another volume
  the copy in quarantine is that of the path. `MoveKeepsCopies`,
  `ReturnKeepsCopies` and `RebootKeepsCopies` are its three hard steps.
  `ReportStandsHolds` and `FailureDoesNotBlockHolds` follow from `ReportInv`:
  there is no report before the first part of a run (`NoReportYet`), and while the
  last item is a process that could not be ended, the same threat is still
  being cleaned, or it named nothing else (`AfterKill`). That the report stands
  is shown action by action: the machine takes nothing back before a reboot, and
  what ends a run takes its report with it.
* **`ResourceProofs`**: three components that acquire and release things,
  which have no state in common. Their specifications are therefore named
  `BufferSpec`, `JobsSpec` and `HeapSpec`, so that one module can extend all three.
  * *Listing buffer*: `BufferTypeCorrect`, `EntriesOwnTheHeapHolds` and
    `GrowsAtItsEndHolds`; the entries are a prefix of the array
    (`EntriesAreCells`), `AddStep` shows that growth keeps it and that a fresh
    block keeps the entries distinct.
  * *Jobs*: neither property is inductive, as both speak of what a job did at
    earlier calls. `JobInv` says for each job, at each place of its worker
    function (`call`), what it may hold there (`MayHold`) and what it has told of
    itself so far in `ret`, `err` and the result (`Told`). There is one lemma per
    kind, or per call where a kind has several; a step of one job leaves what
    holds of the others (`OthersKeep`). From `JobInvariance` follow `JobsTypeCorrect`,
    `OutcomeIsTrueHolds` and `NothingLeaksHolds`, for any set of jobs at once.
    `RaceInv` adds that whatever is in the buffer of realpath was put there by a
    realpath job that has begun, and that a job copies from it only after one has;
    `RealpathMixedOnlyByRaceHolds` follows.
  * *Memory of the runtime*: that counts are right says nothing about the objects a
    drop is taking apart, and these are what it has to find its way back through.
    `HeapInv` therefore adds where every drop is. `ListInv`: of the steps a call has
    still to take, those that drop are at different objects. `WalkInv`: the object a
    drop is at belongs to it alone; each suspended object holds, in the slot its own
    `rc` numbers, the object suspended before it; no two of them and no two drops
    go back to the same one. So the suspended objects are disjoint chains, one for
    each of the nested drops. They are defined as the least set that is closed under
    going back, which needs no induction along a chain: what a step does to the set
    is shown by exhibiting closed sets (`Upward`). `LastInv`: what is going to be
    copied is what was counted, as long as the source is there. `CountInv`: the
    count of an object that is neither dropped, suspended nor freed is the number of
    references to it, and nothing refers to the others. The references are
    counted as cardinalities of sets of pairs (object, slot), so a step is a bijection
    or the removal of some elements (`SameSize` and the lemmas after it), and not a
    sum. From it follow `HeapTypeCorrect`, `CountsRightHolds` and
    `FreedIsNotTouchedHolds`, for any number of objects and slots, graphs of any
    shape, cycles and nested finalizers included.
* **`CoreScanProofs`**: the invariant `ScanInv` ties what the scan has told to the
  files it has passed: as many are counted as skipped as the whitelist covers, and
  a file that has got as far as ClamAV was not passed by. From `CoreInvariance`
  follow `TypeCorrect` and `CoreScanKeepsContract`, the
  refinement of `ScanContract`; a file that ends the program is the contract's
  `Succumb`, which it allows only at a `fatal` file the scan has come to. `CallsInvariance` adds the order of things: the
  threats are the rogue files of the list so far, in its order and as
  often (`NamedInOrder`), the progress calls are without gap, and each callback
  for a threat stands between the progress calls it belongs to (`AnnouncedInOrder`,
  `AnnouncedInTime`). Lists are described by the order of their places and not by
  `SelectSeq`, which is recursive; `InOrderAppend` is the lemma on a list that
  grows. From it follow `ProgressIsGaplessHolds`, `ThreatsAnnouncedHolds` and
  `ListJudgedHolds`.
* **`ThreadPoolProofs`**: the loop and the threads share no lock, so what each may
  do rests on what it can conclude of the other. `Bindings` says so: a job in
  `running_workers` is in the struct of its worker and no other's
  (`Registered`, `Assigned`), a thread that works does so for the job the table
  says (`BusyWorkers`), one that waits is idle or has posted its completion
  (`WaitingWorkers`, `IdleWorkers`), and a completion, posted or already polled,
  is that of a thread that has announced it waits (`Reported`). `Progress` ties
  coroutines to jobs: what is queued, answered, interrupted and submitted, and
  which outcome belongs to which state. With `TypeOK`, `WorkConserving` and
  `Cleaned` these are `PoolInv`, preserved by each of the 21 actions (one
  lemma each). `RunningBound` counts the running workers: as no two jobs have
  one worker, a full table means that every worker is in it, so that a job is
  only queued when nobody is idle. From `PoolInvariance` follow `TypeCorrect`,
  `JobOutlivesItsRunHolds`, `WorkConservingHolds`, `NothingLeftBehindHolds`; and
  `PoolKeepsContract` maps each action to a step of `JobContract`. All of it
  holds for any tasks and any finite number of workers, on each wake-up method.
* **`IoProofs`**: what moves data, the I/O handle (`Spec`) and the TLS connection
  (`TlsSpec`), which have no state in common either.
  * *I/O handles*: neither `NoLostWakeup` nor `KernelBufferAlive` is
    inductive: that a packet wakes the right task rests on whose IoResult it
    names, and that a woken task's second call answers on why it was woken.
    `Places` says what a task has registered and where its IoResult is, by its
    stage; `Packets` that a packet is that of a live operation which has ended, until
    one is freed too early (`late`, the defect `KernelBufferAlwaysAlive` shows);
    `Truth` that what the kernel did is what the task will be told, and that off
    Windows a task is woken because its direction is ready, because it was
    cancelled, or by `EPOLLRDHUP`. With the types and the three properties these are
    `IoInv`, preserved by every action (one lemma for each way it can go, one step
    for each part). From `IoInvariance` follow `TypeCorrect`, `NoLostWakeupHolds`,
    `KernelBufferAliveHolds` and `AnswersAreTrueHolds`, for any number of operations,
    units and addresses, on each of the three pollers.
  * *TLS*: `ConnectionInv` has three parts. `HeldInv` says what is held at each
    stage of setting up, by engine and role. `WriteInv` says that a task which sends
    has the lock (`Lock`) and sends to the end of the buffer (`Upto`), that wire
    and buffer are a run of records without gap (`InOrder`), and that none is
    in them twice (`Once`). The buffer is spoken of only as long as the transport is
    open or a task still sends (`Lively`): a shutdown puts its goodbye at the start
    of a buffer nobody looks at again. The handshake of a client of Schannel puts
    what it makes at the start too, which is right only if the buffer is empty then:
    `Emptied` says that it is unless a flush is under way, and rests on where the
    tasks can be, `ReadInv` (`Turns`). All steps but those of a flush touch the write
    side in one of two ways, `Quiet` and `Records`, and the read side by
    taking from the front of the buffer or not at all (`Moves`, `MovesReads`). From
    `ConnectionInvariance` follow `NothingHeldHolds`, `WireIsWholeHolds` and
    `NoRecordTwiceHolds`, for any stream of the peer, any number of writes and
    any capacity.
  * *What TLS reads*: `StreamInv` adds the contents to `ReadInv`: what has not been
    taken is the rest of the stream (`StillLeft`), each byte taken is at the
    place its number gives it (`ReadSoFar`), a record that was decrypted but not
    handed out is bytes up to its trailer (`Cut`), a reader on Schannel goes to
    its end only when no byte is left (`Closing`), and the transport is closed by
    the peer only behind the last of its stream (`ClosedAtEnd`). All this is lost
    when a shutdown or a handshake drops part of what the reader has still to read,
    which `dropped` records and no step takes back (`DroppedGrows`); so the invariant is
    `ConnectionInv /\ (dropped = {} => StreamInv)`, and a handshake
    or shutdown that has dropped nothing the reader wants has left its buffer alone,
    or is the reader's own at its end (`DropsNothing`).
    `LeftMovesUp`, `HandsOut` and `NoByteStays` are what taking units does to a
    stream. From it follows `ReadsWhatWasSentHolds`, for every stream that keeps to the
    protocol (`WellFormed`, an assumption on the constant `Streams`), cut anywhere.

Only model-checked: liveness (`StopEnds`, `NewFileScanned`, `CleaningEnds`,
`TasksConclude`, `CancelEnds`, `ReadyEnds`), which needs fairness and `ENABLED`,
out of the prover's reach; and `RefCount!EachStepShortens`, the measure by which
every call of the runtime ends: it is a sum over all objects and over the list of
steps, and what a fold gives for every input needs an induction no installed prover
carries out. For the same reason what a recursive definition computes cannot be
proved; no module declares a `RECURSIVE` operator.

## 5. What is not modelled, and why

* The text of output lines, progress lines, times: no property is about them.
* `write_manifest`, `read_manifest`, `rollback`: they do nothing. The README of
  the program lists rollback among the functions still to be restored.
* Allocation failure: the code has no handling of it.
* Paths longer than `MAX_PATH`, the depth-first walk's own stack, and the
  conversion of strings: paths are model values everywhere, and a listing is
  any that the walk of a changing tree can end with.
* Enumeration of processes, autostart entries and services: no caller.
* `sha256_hex`: no caller; `bytes_sha256`, which is called, returns `""`.
* Reuse of process identifiers: no code produces a threat with one.
* The fields of `parse_pe`, `categorize`: they feed no decision. That `parse_pe`
  ends the program on a crafted `e_lfanew` (pe.mbt:38) is modelled.
* Programs other than the cleaning that write to a file between the copy and the
  deletion of a move to another volume (cwrap.c:221).
* The GUI: its C side is stubs, nothing calls `run_gui`.
* Of `runtime.c`: strings, numbers, bytes, printing, arguments, which keep no state;
  `runtime_core.c` and `moonbit_simd.h`: pure conversions and intrinsics.
* Of the async package: timers, task groups, mutexes, queues and conditions;
  processes (`process.c`) and file watching beyond their jobs and directory
  reads; socket options and address structures; the registration of process
  ids with epoll and kqueue; HTTP, WebSocket, compression and other layers.
  Loading `ConnectEx` and `AcceptEx` is taken to succeed (what happens
  otherwise is a finding). In `Tls` the contents of certificates and channel
  bindings, and the loading of OpenSSL's symbols, are left out.
* Of the thread pool: the POSIX loop reads the completion pipe again whenever its
  buffer came back full (event_loop.mbt:283-297). With completions for exactly a
  multiple of the buffer the second read finds nothing, and the error it raises ends
  `run_forever`. `Poll` takes one completion at a time and has no such limit; it
  is recorded as a finding from reading the code. So is what `run_forever` does
  with errors of its own (event_loop.mbt:427-436), which `Cleaned` does not cover: it
  speaks of a loop that ends by itself. `spawn_worker` does not look at whether a
  thread was created (thread_pool.c:405-427); in the model one always is. Without one,
  the job given to it would never be done.
* Of `Tls`: answers the library does not give to a caller that keeps to its protocol, on
  which the code aborts (openssl.mbt:357 and the last branches of schannel.mbt's
  matches). What the library consumes, what it reports as unused and how it
  cuts records are assumptions on code outside the repository, named in section 2.
* What a job's calls read or write in files: a call succeeds, fails or is aborted.
* Build scripts, and the rest of the vendored toolchain and libraries.

## 6. Plan

Done, in this order: detection and file world; guard, its abstract
specification and proofs; one-shot scan, contract and proofs; cleaning and
proofs; engine scan and signature database; listing buffer and proofs; thread
pool, contract and proofs; jobs; memory of the runtime; TLS; I/O handles and their
proofs; the proofs of what a report says, of the engine's callbacks, of jobs, of TLS and
of the memory of the runtime.

What could follow, were the code to grow into it:

1. Timers and task groups of the coroutines, once a package of jk100 uses them:
   what a timeout does to a task that waits in `ThreadPool` or `IoHandle` is a
   cancellation there.
2. The manifest and rollback of quarantine, when they are implemented.
