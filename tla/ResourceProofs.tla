--------------------------- MODULE ResourceProofs ---------------------------
(***************************************************************************)
(* Proofs about what is acquired and released: the listing buffer, for     *)
(* every first capacity, any number of files and any order of calls; the   *)
(* jobs of the thread pool, for every set of jobs and of kinds; the memory *)
(* of the MoonBit runtime, for every number of objects and of references   *)
(* in an object, and graphs of any shape.  The components have no state in *)
(* common: each has its own invariant and its own specification.           *)
(***************************************************************************)
EXTENDS EnumBuffer, Jobs, RefCount, SequenceTheorems, FiniteSetTheorems, TLAPS

-----------------------------------------------------------------------------
(* The listing buffer.                                                     *)

(* There is an array exactly if there is a capacity.                       *)
LEMMA ArrayOrNot ==
  ASSUME BufferTypeOK
  PROVE  /\ g_enum_files = NULL <=> g_enum_cap = 0
         /\ g_enum_files # NULL => g_enum_files \in [1 .. g_enum_cap -> Cell]
<1>1. CASE g_enum_cap = 0
  BY <1>1 DEF BufferTypeOK
<1>2. CASE g_enum_cap # 0
  <2>1. g_enum_files \in Seq(Cell)
    BY <1>2 DEF BufferTypeOK
  <2> QED
    BY <1>2, <2>1, EnumBufferAssumption DEF BufferTypeOK, EnumBufferAssumption, Cell
<1> QED
  BY <1>1, <1>2

CountedCells ==
  /\ Entries \in Seq(Cell)
  /\ Len(Entries) = g_enum_count
  /\ \A i \in 1 .. g_enum_count : Entries[i] = g_enum_files[i]

(* The entries are the cells below the count.                              *)
LEMMA EntriesAreCells == BufferTypeOK => CountedCells
<1> SUFFICES ASSUME BufferTypeOK PROVE CountedCells
  OBVIOUS
<1> USE DEF CountedCells
<1>1. CASE g_enum_files = NULL
  BY <1>1, ArrayOrNot DEF Entries, BufferTypeOK
<1>2. CASE g_enum_files # NULL
  <2>1. g_enum_files \in Seq(Cell) /\ Len(g_enum_files) = g_enum_cap
    BY <1>2, ArrayOrNot DEF BufferTypeOK
  <2>2. g_enum_count \in 0 .. Len(g_enum_files)
    BY <2>1 DEF BufferTypeOK
  <2>3. Entries = SubSeq(g_enum_files, 1, g_enum_count)
    BY <1>2 DEF Entries
  <2> QED
    BY <2>1, <2>2, <2>3, SubSeqProperties
<1> QED
  BY <1>1, <1>2

BufferInv == BufferTypeOK /\ EntriesOwnTheHeap

(* A buffer without entries, once they are freed.                          *)
LEMMA EntriesGone ==
  ASSUME BufferInv, BufferTypeOK', FreeEntries, g_enum_count' = 0
  PROVE  BufferInv' /\ Entries' = <<>>
<1>1. live' = {}
  BY DEF BufferInv, EntriesOwnTheHeap, FreeEntries
<1>2. Entries' \in Seq(Cell) /\ Len(Entries') = 0
  <2>1. (BufferTypeOK => CountedCells)'
    BY EntriesAreCells, PTL
  <2> QED
    BY <2>1 DEF CountedCells
<1>3. Entries' = <<>>
  BY <1>2, EmptySeq
<1>4. Range(Entries') = {}
  BY <1>3 DEF Range
<1> QED
  BY <1>1, <1>3, <1>4 DEF BufferInv, EntriesOwnTheHeap

(* Nothing is done to the buffer.                                          *)
LEMMA BufferKept ==
  ASSUME BufferInv, running' \in Locations,
         UNCHANGED <<g_enum_files, g_enum_count, g_enum_cap, live>>
  PROVE  BufferInv' /\ Entries' = Entries
BY DEF BufferInv, BufferTypeOK, EntriesOwnTheHeap, Entries

(* The start of an enumeration leaves a buffer without entries, or as it   *)
(* was.                                                                    *)
LEMMA ClearStep ==
  ASSUME BufferInv, running' \in Locations, Clear
  PROVE  BufferInv' /\ (Entries' = Entries \/ Entries' = <<>>)
<1>1. CASE g_enum_files # NULL
  <2>1. BufferTypeOK' /\ FreeEntries /\ g_enum_count' = 0
    BY <1>1 DEF BufferInv, BufferTypeOK, Clear, FreeEntries
  <2> QED
    BY <2>1, EntriesGone
<1>2. CASE g_enum_files = NULL
  BY <1>2, BufferKept DEF Clear
<1> QED
  BY <1>1, <1>2

(* So does releasing it.                                                   *)
LEMMA ReleaseStep ==
  ASSUME BufferInv, running' \in Locations, ReleaseBuffer
  PROVE  BufferInv' /\ (Entries' = Entries \/ Entries' = <<>>)
<1>1. CASE g_enum_files # NULL
  <2>1. BufferTypeOK' /\ FreeEntries /\ g_enum_count' = 0
    BY <1>1 DEF BufferInv, BufferTypeOK, ReleaseBuffer, FreeEntries
  <2> QED
    BY <2>1, EntriesGone
<1>2. CASE g_enum_files = NULL
  BY <1>2, BufferKept DEF ReleaseBuffer
<1> QED
  BY <1>1, <1>2

(* jk100_enum_add writes into a cell there is, behind the other entries,   *)
(* which growing the array leaves as they are.                             *)
LEMMA AddStep ==
  ASSUME BufferInv, NEW block \in Blocks, Add(block)
  PROVE  BufferInv' /\ Entries' = Append(Entries, block)
<1> DEFINE full == g_enum_count >= g_enum_cap
           cap == IF g_enum_cap = 0 THEN FirstCap ELSE g_enum_cap * 2
           size == IF full THEN cap ELSE g_enum_cap
           array == IF full THEN Grown(cap) ELSE g_enum_files
<1>1. /\ block \notin live /\ block \in Cell
      /\ g_enum_cap' = size
      /\ g_enum_files' = [array EXCEPT ![g_enum_count + 1] = block]
      /\ g_enum_count' = g_enum_count + 1
      /\ live' = live \cup {block}
      /\ running' = running
  BY DEF Add, Cell
<1>2. g_enum_cap \in Nat /\ g_enum_count \in Nat /\ g_enum_count <= g_enum_cap
  BY DEF BufferInv, BufferTypeOK
<1>3. size \in Nat /\ g_enum_count + 1 <= size /\ g_enum_cap <= size
  BY <1>2, EnumBufferAssumption DEF EnumBufferAssumption
<1>4. g_enum_cap # 0 => g_enum_files \in [1 .. g_enum_cap -> Cell]
  BY DEF BufferInv, BufferTypeOK
<1>5. /\ array \in [1 .. size -> Cell]
      /\ \A i \in 1 .. g_enum_count : array[i] = g_enum_files[i]
  <2>1. CASE full
    <3>1. \A i \in 1 .. cap : (IF i <= g_enum_cap THEN g_enum_files[i] ELSE NULL) \in Cell
      BY <1>2, <1>4 DEF Cell
    <3>2. array = [i \in 1 .. cap |-> IF i <= g_enum_cap THEN g_enum_files[i] ELSE NULL]
      BY <2>1 DEF Grown
    <3>3. size = cap
      BY <2>1
    <3> HIDE DEF array, cap, size, full
    <3> QED
      BY <1>2, <1>3, <3>1, <3>2, <3>3
  <2>2. CASE ~full
    BY <1>2, <1>4, <2>2
  <2> QED
    BY <2>1, <2>2
<1> HIDE DEF array, size, cap, full
<1>6. g_enum_files' \in [1 .. size -> Cell]
  BY <1>1, <1>2, <1>3, <1>5
<1>7. BufferTypeOK'
  BY <1>1, <1>2, <1>3, <1>6 DEF BufferInv, BufferTypeOK
<1>8. /\ Entries \in Seq(Cell) /\ Len(Entries) = g_enum_count
      /\ \A i \in 1 .. g_enum_count : Entries[i] = g_enum_files[i]
  BY EntriesAreCells DEF BufferInv, CountedCells
<1>9. /\ Entries' \in Seq(Cell) /\ Len(Entries') = g_enum_count + 1
      /\ \A i \in 1 .. g_enum_count + 1 : Entries'[i] = g_enum_files'[i]
  <2>1. /\ Entries' \in Seq(Cell) /\ Len(Entries') = g_enum_count'
        /\ \A i \in 1 .. g_enum_count' : Entries'[i] = g_enum_files'[i]
    <3>1. (BufferTypeOK => CountedCells)'
      BY EntriesAreCells, PTL
    <3> QED
      BY <1>7, <3>1 DEF CountedCells
  <2> QED
    BY <1>1, <2>1
<1>10. \A i \in 1 .. g_enum_count + 1 :
         Entries'[i] = IF i = g_enum_count + 1 THEN block ELSE Entries[i]
  BY <1>1, <1>2, <1>3, <1>5, <1>8, <1>9
<1>11. Entries' = Append(Entries, block)
  <2>1. /\ Append(Entries, block) \in Seq(Cell)
        /\ Len(Append(Entries, block)) = g_enum_count + 1
        /\ \A i \in 1 .. g_enum_count : Append(Entries, block)[i] = Entries[i]
        /\ Append(Entries, block)[g_enum_count + 1] = block
    BY <1>1, <1>8, AppendProperties
  <2> QED
    BY <1>2, <1>9, <1>10, <2>1, SeqEqual
<1>12. EntriesOwnTheHeap'
  <2>1. Range(Entries) = live /\ block \notin Range(Entries)
    BY <1>1 DEF BufferInv, EntriesOwnTheHeap
  <2>2. \A i \in 1 .. g_enum_count : Entries[i] # block
    BY <1>2, <1>8, <2>1 DEF Range
  <2>3. Range(Entries') = live \cup {block}
    BY <1>2, <1>8, <1>9, <1>10, <2>1 DEF Range
  <2>4. \A i, j \in 1 .. g_enum_count + 1 : Entries'[i] = Entries'[j] => i = j
    BY <1>2, <1>10, <2>2 DEF BufferInv, EntriesOwnTheHeap
  <2> QED
    BY <1>1, <2>3, <2>4 DEF EntriesOwnTheHeap
<1> QED
  BY <1>7, <1>11, <1>12 DEF BufferInv

-----------------------------------------------------------------------------
(* Before the first call there is no array and nothing is allocated.       *)
LEMMA BufferInvInit == BufferInit => BufferInv
<1> SUFFICES ASSUME BufferInit PROVE BufferInv
  OBVIOUS
<1>1. BufferTypeOK
  BY DEF BufferInit, BufferTypeOK, Locations
<1>2. Entries = <<>> /\ live = {} /\ g_enum_count = 0
  BY DEF BufferInit, Entries
<1>3. Range(Entries) = {}
  BY <1>2 DEF Range
<1> QED
  BY <1>1, <1>2, <1>3 DEF BufferInv, EntriesOwnTheHeap

(* What any step does to the entries, and that it keeps the invariant.     *)
LEMMA BufferStep ==
  BufferInv /\ [BufferNext]_bufferVars =>
    /\ BufferInv'
    /\ \/ Entries' = Entries \/ Entries' = <<>>
       \/ \E b \in Blocks : Entries' = Append(Entries, b)
<1> SUFFICES ASSUME BufferInv, [BufferNext]_bufferVars
             PROVE  /\ BufferInv'
                    /\ \/ Entries' = Entries \/ Entries' = <<>>
                       \/ \E b \in Blocks : Entries' = Append(Entries, b)
  OBVIOUS
<1>0. running \in Locations
  BY DEF BufferInv, BufferTypeOK
<1>1. CASE BeginEnumeration
  <2>1. running' \in Locations /\ Clear
    BY <1>1 DEF BeginEnumeration, Locations, Enumerating
  <2> QED
    BY <2>1, ClearStep
<1>2. ASSUME NEW block \in Blocks, Add(block)
      PROVE  BufferInv' /\ Entries' = Append(Entries, block)
  BY <1>2, AddStep
<1>3. CASE EnumFilesReturns \/ GuardGoesOn
  <2>1. /\ running' \in Locations
        /\ UNCHANGED <<g_enum_files, g_enum_count, g_enum_cap, live>>
    BY <1>3 DEF EnumFilesReturns, GuardGoesOn, Locations, Enumerating
  <2> QED
    BY <2>1, BufferKept
<1>4. CASE free_enum_files \/ GuardListed
  <2>1. running' \in Locations /\ ReleaseBuffer
    BY <1>0, <1>4 DEF free_enum_files, GuardListed, Locations
  <2> QED
    BY <2>1, ReleaseStep
<1>5. CASE ScanReturns
  <2>1. running' \in Locations
    BY <1>5 DEF ScanReturns, Locations
  <2>2. \/ ReleaseBuffer
        \/ UNCHANGED <<g_enum_files, g_enum_count, g_enum_cap, live>>
    BY <1>5 DEF ScanReturns
  <2> QED
    BY <2>1, <2>2, ReleaseStep, BufferKept
<1>6. CASE UNCHANGED bufferVars
  BY <1>0, <1>6, BufferKept DEF bufferVars
<1> QED
  BY <1>1, <1>2, <1>3, <1>4, <1>5, <1>6 DEF BufferNext

(* The invariant holds throughout, in whatever order the functions run.    *)
LEMMA BufferInvariance == BufferSpec => []BufferInv
<1>1. BufferInv /\ [BufferNext]_bufferVars => BufferInv'
  BY BufferStep
<1> QED
  BY <1>1, BufferInvInit, PTL DEF BufferSpec

(* The capacity is that of the array, and jk100_enum_add never writes      *)
(* outside of it, for any first capacity and after any calls.              *)
THEOREM BufferTypeCorrect == BufferSpec => []BufferTypeOK
<1>1. BufferInv => BufferTypeOK
  BY DEF BufferInv
<1> QED
  BY <1>1, BufferInvariance, PTL

(* No entry dangles, none is freed twice and no block leaks, in whatever   *)
(* order listings are made, read and released.                             *)
THEOREM EntriesOwnTheHeapHolds == BufferSpec => []EntriesOwnTheHeap
<1>1. BufferInv => EntriesOwnTheHeap
  BY DEF BufferInv
<1> QED
  BY <1>1, BufferInvariance, PTL

(* Growing the array by realloc changes no entry.                          *)
THEOREM GrowsAtItsEndHolds == BufferSpec => GrowsAtItsEnd
<1>1. BufferInv /\ [BufferNext]_bufferVars =>
        [Entries' # Entries =>
           Entries' = <<>> \/ \E b \in Blocks : Entries' = Append(Entries, b)]_bufferVars
  BY BufferStep
<1> QED
  BY <1>1, BufferInvariance, PTL DEF BufferSpec, GrowsAtItsEnd

-----------------------------------------------------------------------------
(* The jobs of the thread pool.                                            *)

(* What has been told of a job so far is so: before it is over its         *)
(* operation has not taken place, and only an open whose first call        *)
(* failed has an error.                                                    *)
Told(j) ==
    /\ Over(j) => (Failed(j) <=> ~worked[j]) /\ (~Failed(j) => ret[j] >= 0)
    /\ ~Over(j) => ~worked[j]
    /\ ~Over(j) /\ err[j] # "none" =>
         kind[j] = "open" /\ result[j] = "invalid" /\ call[j] \in {"pipe", "stat"}

(* Whether something of this name may be held by the job at its place.     *)
MayHold(j, n) ==
    \/ call[j] # "freed" /\ n \in Owns(kind[j])
    \/ call[j] # "freed" /\ n = "cancel" /\ Windows /\ kind[j] = "wait_for_process"
    \/ call[j] = "probed" /\ n = "probe"
         /\ kind[j] \in {"file_kind_by_path", "file_time_by_path", "access"}
    \/ kind[j] = "rename" /\ n = "probe" /\ call[j] \in {"info", "set"}
    \/ kind[j] = "rename" /\ n = "info" /\ call[j] = "set"
    \/ kind[j] = "open" /\ n = "file" /\ result[j] = "file"
         /\ (call[j] = "stat" \/ (call[j] \in {"done", "freed"} /\ ~Failed(j)))
    \/ kind[j] = "realpath" /\ n = "string"
         /\ (call[j] \in {"copy", "long"} \/ (call[j] = "done" /\ ~Failed(j)))
    \/ kind[j] = "spawn" /\ n = "attributes" /\ call[j] \in {"attributes", "create"}
    \/ kind[j] = "spawn" /\ n \in {"process", "thread"} /\ call[j] \in {"assign", "return"}
    \/ kind[j] = "spawn" /\ n = "process" /\ call[j] = "done" /\ ~Failed(j) /\ result[j] = "process"
    \/ kind[j] = "spawn" /\ n \in {"process", "thread"} /\ call[j] \in {"done", "freed"}
         /\ Failed(j) /\ platform = "windows7"
    \/ kind[j] = "getaddrinfo" /\ n = "addrinfo" /\ call[j] = "done" /\ result[j] = "addrinfo"

(* A job holds nothing but what it may hold at its place.                  *)
JobHolds(j) == \A x \in owed : x[1] = j => MayHold(j, x[2])

(* A child is put into its job object only where CreateProcess cannot do   *)
(* it.                                                                     *)
Assigns(j) == call[j] = "assign" => platform = "windows7"

(* What holds of each job.                                                 *)
JobOK(j) == Told(j) /\ JobHolds(j) /\ Assigns(j)

(* The invariant of the jobs: the types, and what has been told of each    *)
(* job, what it may hold and where it is.                                  *)
JobInv == JobsTypeOK /\ \A j \in Jobs : JobOK(j)

(* The job alone is concerned.                                             *)
Only(j) ==
    /\ \A i \in Jobs \ {j} :
         /\ call'[i] = call[i] /\ ret'[i] = ret[i] /\ err'[i] = err[i]
         /\ result'[i] = result[i] /\ worked'[i] = worked[i]
    /\ \A x \in owed' : x[1] # j => x \in owed

(* A step of one job leaves what holds of the others as it is.             *)
LEMMA OthersKeep ==
  ASSUME JobInv, NEW j \in Jobs, UNCHANGED <<platform, kind>>, JobsTypeOK', Only(j), JobOK(j)'
  PROVE  JobInv'
<1>1. ASSUME NEW i \in Jobs \ {j} PROVE JobOK(i)'
  <2>1. /\ call'[i] = call[i] /\ ret'[i] = ret[i] /\ err'[i] = err[i] /\ kind' = kind
        /\ result'[i] = result[i] /\ worked'[i] = worked[i] /\ platform' = platform
    BY <1>1 DEF Only
  <2>2. Told(i)' /\ Assigns(i)'
    BY <2>1 DEF JobInv, JobOK, Told, Assigns, Over, Failed
  <2>3. ASSUME NEW n, MayHold(i, n) PROVE MayHold(i, n)'
    BY <2>1, <2>3 DEF MayHold, Failed, Windows
  <2>4. JobHolds(i)'
    BY <2>3 DEF JobInv, JobOK, JobHolds, Only
  <2> QED
    BY <2>2, <2>4 DEF JobOK
<1> QED
  BY <1>1 DEF JobInv

(* The managed objects a job owns have names.                              *)
LEMMA OwnsType == ASSUME NEW k PROVE Owns(k) \subseteq Names
BY DEF Owns, Names

(* A job has nothing at first but the objects it owns, and the event with  *)
(* which a waiter can be cancelled.                                        *)
LEMMA HeldAtStart ==
  ASSUME JobsInit, NEW x \in owed
  PROVE  \E j \in Jobs :
           \/ x \in Of(j, Owns(kind[j]))
           \/ x = <<j, "cancel">> /\ Windows /\ kind[j] = "wait_for_process"
BY DEF JobsInit

(* Jobs that have not begun.                                               *)
LEMMA JobInvInit == JobsInit => JobInv
<1> SUFFICES ASSUME JobsInit PROVE JobInv
  OBVIOUS
<1>1. ASSUME NEW x \in owed
      PROVE  /\ x \in Jobs \X Names
             /\ \/ x[2] \in Owns(kind[x[1]])
                \/ x[2] = "cancel" /\ Windows /\ kind[x[1]] = "wait_for_process"
  BY HeldAtStart, OwnsType DEF Of, Names
<1>2. JobsTypeOK
  BY <1>1 DEF JobsInit, JobsTypeOK, Steps, Results
<1>3. ASSUME NEW j \in Jobs PROVE JobOK(j)
  <2>1. Told(j) /\ Assigns(j)
    BY DEF JobsInit, Told, Over, Assigns
  <2>2. JobHolds(j)
    BY <1>1 DEF JobsInit, JobHolds, MayHold
  <2> QED
    BY <2>1, <2>2 DEF JobOK
<1> QED
  BY <1>2, <1>3 DEF JobInv

-----------------------------------------------------------------------------
(* What one step of a job leaves: types, the other jobs, and the job       *)
(* itself.                                                                 *)
Stepped(j) == JobsTypeOK' /\ Only(j) /\ JobOK(j)'

(* The values of err that are told apart.                                  *)
Errors == {"none", "error", "aborted"}

(* The job ends, or goes on to its next call.                              *)
Moves(j) ==
    \/ \E r \in {-1, 0, 1}, e \in Errors : Finish(j, r, e)
    \/ /\ \E step \in Steps : Proceed(j, step)
       /\ UNCHANGED ret
       /\ UNCHANGED err \/ err' = [err EXCEPT ![j] = "error"]

(* The next call, ret and err keep their types.                            *)
LEMMA MovesType ==
  ASSUME JobsTypeOK, NEW j \in Jobs, Moves(j)
  PROVE  /\ call' \in [Jobs -> Steps] /\ ret' \in [Jobs -> {-1, 0, 1}] /\ err' \in [Jobs -> Errors]
<1>1. ASSUME NEW r \in {-1, 0, 1}, NEW e \in Errors, Finish(j, r, e)
      PROVE  /\ call' \in [Jobs -> Steps] /\ ret' \in [Jobs -> {-1, 0, 1}]
             /\ err' \in [Jobs -> Errors]
  BY <1>1 DEF JobsTypeOK, Finish, Proceed, Steps, Errors
<1>2. CASE /\ \E step \in Steps : Proceed(j, step)
           /\ UNCHANGED ret
           /\ UNCHANGED err \/ err' = [err EXCEPT ![j] = "error"]
  BY <1>2 DEF JobsTypeOK, Proceed, Errors
<1> QED
  BY <1>1, <1>2 DEF Moves

(* The kinds that are one system call.                                     *)
OneCall(j) ==
    \/ sleep(j) \/ read(j) \/ write(j) \/ file_size(j) \/ file_time(j) \/ chmod(j) \/ fsync(j)
    \/ remove(j) \/ mkdir(j) \/ rmdir(j) \/ bind(j) \/ inotify_add_watch(j) \/ flock(j)
    \/ kind_of_fd(j) \/ readdir(j) \/ wait_for_process(j) \/ sigwait(j)

(* The job ends, and its error says whether the operation took place.      *)
Concludes(j) ==
    \E r \in {-1, 0, 1}, e \in Errors :
      /\ Finish(j, r, e)
      /\ (e = "none" /\ r # -1 /\ Worked(j)) \/ (e # "none" /\ StillOpen)

(* A call on Windows says in err whether it took place, in ret it may      *)
(* not.                                                                    *)
LEMMA WinConcludes ==
  ASSUME NEW j, NEW v \in {0, 1}, win_call(j, v) PROVE Concludes(j)
BY DEF win_call, Concludes, Errors

(* A POSIX call says in err whether it took place, and in ret as well.     *)
LEMMA PosixConcludes ==
  ASSUME NEW j, NEW v \in {0, 1}, posix_call(j, v) PROVE Concludes(j)
BY DEF posix_call, Concludes, Errors

(* The kinds that are one system call conclude with it, and have nothing   *)
(* to release but what they own.                                           *)
LEMMA OneCallSteps ==
  ASSUME JobInv, NEW j \in Jobs, OneCall(j), UNCHANGED <<platform, kind>>
  PROVE  Stepped(j)
<1>1. call[j] = "start" /\ kind[j] \notin {"getaddrinfo", "open"} /\ NoPayload
  BY DEF OneCall, At, sleep, read, write, file_size, file_time, chmod, fsync, remove, mkdir,
     rmdir, bind, inotify_add_watch, flock, kind_of_fd, readdir, wait_for_process, sigwait
<1>2. Concludes(j)
  <2>1. ASSUME NEW v \in {0, 1}, os_call(j, v) PROVE Concludes(j)
    BY <2>1, WinConcludes, PosixConcludes DEF os_call
  <2>2. ASSUME Finish(j, 0, "none") /\ Worked(j) PROVE Concludes(j)
    BY <2>2 DEF Concludes, Errors
  <2>3. ASSUME Finish(j, 0, "error") /\ StillOpen PROVE Concludes(j)
    BY <2>3 DEF Concludes, Errors
  <2> QED
    BY <2>1, <2>2, <2>3, WinConcludes, PosixConcludes DEF OneCall, sleep, read, write,
       file_size, file_time, chmod, fsync, remove, mkdir, rmdir, bind, inotify_add_watch, flock,
       kind_of_fd, kind_of_fd_call, readdir, wait_for_process, sigwait
<1>3. PICK r \in {-1, 0, 1}, e \in Errors :
        /\ Finish(j, r, e)
        /\ (e = "none" /\ r # -1 /\ Worked(j)) \/ (e # "none" /\ StillOpen)
  BY <1>2 DEF Concludes
<1>4. JobsTypeOK'
  BY <1>1, <1>3, MovesType DEF JobInv, JobsTypeOK, Moves, NoPayload, Worked, StillOpen, Errors
<1>5. Only(j)
  BY <1>1, <1>3 DEF JobInv, JobsTypeOK, Only, NoPayload, Finish, Proceed, Worked, StillOpen
<1>6. Told(j)' /\ Assigns(j)'
  BY <1>1, <1>3 DEF JobInv, JobOK, JobsTypeOK, Told, Over, Failed, Assigns, Finish, Proceed,
     Worked, StillOpen
<1>7. JobHolds(j)'
  BY <1>1, <1>3 DEF JobInv, JobOK, JobHolds, MayHold, NoPayload, Finish, Proceed, Windows
<1> QED
  BY <1>4, <1>5, <1>6, <1>7 DEF Stepped, JobOK

(* file_kind_by_path closes the handle it opened whether or not the kind   *)
(* is found.                                                               *)
LEMMA FileKindByPathSteps ==
  ASSUME JobInv, NEW j \in Jobs, file_kind_by_path(j), UNCHANGED <<platform, kind>>
  PROVE  Stepped(j)
<1>1. Moves(j)
  BY DEF Moves, Errors, Steps, win_call, posix_call, kind_of_fd_call, OpenPath,
     file_kind_by_path
<1>2. JobsTypeOK'
  BY <1>1, MovesType DEF JobInv, JobsTypeOK, Names, Errors, Worked, StillOpen, Opens, Closes,
     Of, win_call, posix_call, NoPayload, kind_of_fd_call, OpenPath, file_kind_by_path
<1>3. Only(j)
  BY DEF JobInv, JobsTypeOK, Only, Worked, StillOpen, Opens, Closes, Of, win_call, posix_call,
     NoPayload, kind_of_fd_call, OpenPath, file_kind_by_path, Proceed, Finish
<1>4. Told(j)'
  BY DEF JobInv, JobOK, JobsTypeOK, Told, Over, Failed, At, Worked, StillOpen, win_call,
     posix_call, kind_of_fd_call, OpenPath, file_kind_by_path, Proceed, Finish
<1>5. JobHolds(j)'
  BY DEF JobInv, JobOK, JobsTypeOK, JobHolds, MayHold, At, Opens, Closes, Of, win_call, posix_call,
     NoPayload, kind_of_fd_call, OpenPath, file_kind_by_path, Proceed, Finish
<1>6. Assigns(j)'
  BY DEF JobInv, JobsTypeOK, Assigns, win_call, posix_call, kind_of_fd_call, OpenPath,
     file_kind_by_path, Proceed, Finish
<1> QED
  BY <1>2, <1>3, <1>4, <1>5, <1>6 DEF Stepped, JobOK

(* file_time_by_path closes the handle it opened whether or not the times  *)
(* are found.                                                              *)
LEMMA FileTimeByPathSteps ==
  ASSUME JobInv, NEW j \in Jobs, file_time_by_path(j), UNCHANGED <<platform, kind>>
  PROVE  Stepped(j)
<1>1. Moves(j)
  BY DEF Moves, Errors, Steps, win_call, posix_call, OpenPath, file_time_by_path
<1>2. JobsTypeOK'
  BY <1>1, MovesType DEF JobInv, JobsTypeOK, Names, Errors, Worked, StillOpen, Opens, Closes,
     Of, win_call, posix_call, NoPayload, OpenPath, file_time_by_path
<1>3. Only(j)
  BY DEF JobInv, JobsTypeOK, Only, Worked, StillOpen, Opens, Closes, Of, win_call, posix_call,
     NoPayload, OpenPath, file_time_by_path, Proceed, Finish
<1>4. Told(j)'
  BY DEF JobInv, JobOK, JobsTypeOK, Told, Over, Failed, At, Worked, StillOpen, win_call,
     posix_call, OpenPath, file_time_by_path, Proceed, Finish
<1>5. JobHolds(j)'
  BY DEF JobInv, JobOK, JobsTypeOK, JobHolds, MayHold, At, Opens, Closes, Of, win_call, posix_call,
     NoPayload, OpenPath, file_time_by_path, Proceed, Finish
<1>6. Assigns(j)'
  BY DEF JobInv, JobsTypeOK, Assigns, win_call, posix_call, OpenPath, file_time_by_path,
     Proceed, Finish
<1> QED
  BY <1>2, <1>3, <1>4, <1>5, <1>6 DEF Stepped, JobOK

(* access closes the handle whose opening was the answer.                  *)
LEMMA AccessSteps ==
  ASSUME JobInv, NEW j \in Jobs, access(j), UNCHANGED <<platform, kind>>
  PROVE  Stepped(j)
<1>1. Moves(j)
  BY DEF Moves, Errors, Steps, posix_call, OpenPath, access
<1>2. JobsTypeOK'
  BY <1>1, MovesType DEF JobInv, JobsTypeOK, Names, Results, Worked, StillOpen, Opens, Closes,
     Of, posix_call, NoPayload, OpenPath, Windows, access, Finish
<1>3. Only(j)
  BY DEF JobInv, JobsTypeOK, Only, Worked, StillOpen, Opens, Closes, Of, posix_call, NoPayload,
     OpenPath, access, Proceed, Finish
<1>4. Told(j)'
  BY DEF JobInv, JobOK, JobsTypeOK, Told, Over, Failed, At, Worked, StillOpen, posix_call,
     OpenPath, access, Proceed, Finish
<1>5. JobHolds(j)'
  BY DEF JobInv, JobOK, JobsTypeOK, JobHolds, MayHold, At, Opens, Closes, Of, posix_call,
     NoPayload, OpenPath, access, Proceed, Finish
<1>6. Assigns(j)'
  BY DEF JobInv, JobsTypeOK, Assigns, posix_call, OpenPath, access, Proceed, Finish
<1> QED
  BY <1>2, <1>3, <1>4, <1>5, <1>6 DEF Stepped, JobOK

(* rename has released handle and info on every way on, and before it      *)
(* falls back to MoveFileEx.                                               *)
LEMMA RenameSteps ==
  ASSUME JobInv, NEW j \in Jobs, rename(j), UNCHANGED <<platform, kind>>
  PROVE  Stepped(j)
<1>1. Moves(j)
  BY DEF Moves, Errors, Steps, win_call, posix_call, OpenPath, rename
<1>2. JobsTypeOK'
  BY <1>1, MovesType DEF JobInv, JobsTypeOK, Names, Errors, Worked, StillOpen, Opens, Closes,
     Of, win_call, posix_call, NoPayload, OpenPath, rename
<1>3. Only(j)
  BY DEF JobInv, JobsTypeOK, Only, Worked, StillOpen, Opens, Closes, Of, win_call, posix_call,
     NoPayload, OpenPath, rename, Proceed, Finish
<1>4. Told(j)'
  BY DEF JobInv, JobOK, JobsTypeOK, Told, Over, Failed, At, Worked, StillOpen, win_call,
     posix_call, OpenPath, rename, Proceed, Finish
<1>5. JobHolds(j)'
  BY DEF JobInv, JobOK, JobsTypeOK, JobHolds, MayHold, At, Opens, Closes, Of, win_call, posix_call,
     NoPayload, OpenPath, rename, Proceed, Finish
<1>6. Assigns(j)'
  BY DEF JobInv, JobsTypeOK, Assigns, win_call, posix_call, OpenPath, rename, Proceed, Finish
<1> QED
  BY <1>2, <1>3, <1>4, <1>5, <1>6 DEF Stepped, JobOK

(* symlink reports the failure to look at the target as its own.           *)
LEMMA SymlinkSteps ==
  ASSUME JobInv, NEW j \in Jobs, symlink(j), UNCHANGED <<platform, kind>>
  PROVE  Stepped(j)
<1>1. Moves(j)
  BY DEF Moves, Errors, Steps, win_call, posix_call, symlink
<1>2. JobsTypeOK'
  BY <1>1, MovesType DEF JobInv, JobsTypeOK, Worked, StillOpen, win_call, posix_call, NoPayload,
     symlink, Finish
<1>3. Only(j)
  BY DEF JobInv, JobsTypeOK, Only, Worked, StillOpen, win_call, posix_call, NoPayload, symlink,
     Proceed, Finish
<1>4. Told(j)'
  BY DEF JobInv, JobOK, JobsTypeOK, Told, Over, Failed, At, Worked, StillOpen, win_call,
     posix_call, symlink, Proceed, Finish
<1>5. JobHolds(j)'
  BY DEF JobInv, JobOK, JobsTypeOK, JobHolds, MayHold, At, win_call, posix_call, NoPayload,
     symlink, Proceed, Finish
<1>6. Assigns(j)'
  BY DEF JobInv, JobsTypeOK, Assigns, win_call, posix_call, symlink, Proceed, Finish
<1> QED
  BY <1>2, <1>3, <1>4, <1>5, <1>6 DEF Stepped, JobOK

(* An open that fails at its first call has no file; a busy pipe leaves    *)
(* an error behind.                                                        *)
LEMMA OpenCreateSteps ==
  ASSUME JobInv, NEW j \in Jobs, open_create(j), UNCHANGED <<platform, kind>>
  PROVE  Stepped(j)
<1>1. Moves(j)
  BY DEF Moves, Errors, Steps, open_create
<1>2. JobsTypeOK'
  BY <1>1, MovesType DEF JobInv, JobsTypeOK, Names, Results, Opens, Of, open_create, Finish
<1>3. Only(j)
  BY DEF JobInv, JobsTypeOK, Only, Opens, Of, open_create, Proceed, Finish
<1>4. Told(j)'
  BY DEF JobInv, JobOK, JobsTypeOK, Told, Over, Failed, At, open_create, Proceed, Finish
<1>5. JobHolds(j)'
  BY DEF JobInv, JobOK, JobsTypeOK, JobHolds, MayHold, At, Opens, Of, open_create, Proceed, Finish
<1>6. Assigns(j)'
  BY DEF JobInv, JobsTypeOK, Assigns, open_create, Proceed, Finish
<1> QED
  BY <1>2, <1>3, <1>4, <1>5, <1>6 DEF Stepped, JobOK

(* The wait for the pipe never makes a success of the error that was       *)
(* left.                                                                   *)
LEMMA OpenWaitPipeSteps ==
  ASSUME JobInv, NEW j \in Jobs, open_wait_pipe(j), UNCHANGED <<platform, kind>>
  PROVE  Stepped(j)
<1>1. Moves(j)
  BY DEF Moves, Errors, Steps, open_wait_pipe
<1>2. JobsTypeOK'
  BY <1>1, MovesType DEF JobInv, JobsTypeOK, StillOpen, NoPayload, open_wait_pipe, Finish
<1>3. Only(j)
  BY DEF JobInv, JobsTypeOK, Only, StillOpen, NoPayload, open_wait_pipe, Proceed, Finish
<1>4. Told(j)'
  BY DEF JobInv, JobOK, JobsTypeOK, Told, Over, Failed, At, StillOpen, NoPayload,
     open_wait_pipe, Proceed, Finish
<1>5. JobHolds(j)'
  BY DEF JobInv, JobOK, JobsTypeOK, JobHolds, MayHold, At, NoPayload, open_wait_pipe, Proceed,
     Finish
<1>6. Assigns(j)'
  BY DEF JobInv, JobsTypeOK, Assigns, open_wait_pipe, Proceed, Finish
<1> QED
  BY <1>2, <1>3, <1>4, <1>5, <1>6 DEF Stepped, JobOK

(* An open that cannot find out what it opened closes it.                  *)
LEMMA OpenStatSteps ==
  ASSUME JobInv, NEW j \in Jobs, open_stat(j), UNCHANGED <<platform, kind>>
  PROVE  Stepped(j)
<1>1. Moves(j)
  BY DEF JobInv, JobsTypeOK, Moves, Errors, open_stat
<1>2. JobsTypeOK'
  BY <1>1, MovesType DEF JobInv, JobsTypeOK, Errors, Worked, StillOpen, Closes, open_stat
<1>3. Only(j)
  BY DEF JobInv, JobsTypeOK, Only, Worked, StillOpen, Closes, open_stat, Proceed, Finish
<1>4. Told(j)'
  BY DEF JobInv, JobOK, JobsTypeOK, Told, Over, Failed, At, Worked, StillOpen, open_stat,
     Proceed, Finish
<1>5. JobHolds(j)'
  BY DEF JobInv, JobOK, JobsTypeOK, Told, Over, Failed, JobHolds, MayHold, At, Closes, Of,
     open_stat, Proceed, Finish
<1>6. Assigns(j)'
  BY DEF JobInv, JobsTypeOK, Assigns, open_stat, Proceed, Finish
<1> QED
  BY <1>2, <1>3, <1>4, <1>5, <1>6 DEF Stepped, JobOK

(* realpath has a string from the moment it knows the length.              *)
LEMMA RealpathQuerySteps ==
  ASSUME JobInv, NEW j \in Jobs, realpath_query(j), UNCHANGED <<platform, kind>>
  PROVE  Stepped(j)
<1>1. Moves(j)
  BY DEF Moves, Errors, Steps, realpath_query
<1>2. JobsTypeOK'
  BY <1>1, MovesType DEF JobInv, JobsTypeOK, Names, Opens, Of, realpath_query, Finish
<1>3. Only(j)
  BY DEF JobInv, JobsTypeOK, Only, Opens, Of, realpath_query, Proceed, Finish
<1>4. Told(j)'
  BY DEF JobInv, JobOK, JobsTypeOK, Told, Over, Failed, At, realpath_query, Proceed, Finish
<1>5. JobHolds(j)'
  BY DEF JobInv, JobOK, JobsTypeOK, JobHolds, MayHold, At, Opens, Of, realpath_query, Proceed,
     Finish
<1>6. Assigns(j)'
  BY DEF JobInv, JobsTypeOK, Assigns, realpath_query, Proceed, Finish
<1> QED
  BY <1>2, <1>3, <1>4, <1>5, <1>6 DEF Stepped, JobOK

(* The string is the result, whoever wrote the buffer it was copied from.  *)
LEMMA RealpathCopySteps ==
  ASSUME JobInv, NEW j \in Jobs, realpath_copy(j), UNCHANGED <<platform, kind>>
  PROVE  Stepped(j)
<1>1. Moves(j)
  BY DEF Moves, Errors, realpath_copy
<1>2. JobsTypeOK'
  BY <1>1, MovesType DEF JobInv, JobsTypeOK, Results, Errors, Worked, realpath_copy
<1>3. Only(j)
  BY DEF Only, Worked, realpath_copy, Proceed, Finish
<1>4. Told(j)'
  BY DEF JobInv, JobsTypeOK, Told, Over, Failed, Worked, realpath_copy, Proceed, Finish
<1>5. JobHolds(j)'
  BY DEF JobInv, JobOK, Told, Over, Failed, JobHolds, MayHold, At, realpath_copy, Proceed, Finish
<1>6. Assigns(j)'
  BY DEF Assigns, At, realpath_copy, Proceed, Finish
<1> QED
  BY <1>2, <1>3, <1>4, <1>5, <1>6 DEF Stepped, JobOK

(* The second query of a long path may fail; the string is freed then.     *)
LEMMA RealpathLongSteps ==
  ASSUME JobInv, NEW j \in Jobs, realpath_long(j), UNCHANGED <<platform, kind>>
  PROVE  Stepped(j)
<1>1. Moves(j)
  BY DEF Moves, Errors, realpath_long
<1>2. JobsTypeOK'
  BY <1>1, MovesType DEF JobInv, JobsTypeOK, Results, Errors, Worked, StillOpen, Closes,
     realpath_long
<1>3. Only(j)
  BY DEF JobInv, JobsTypeOK, Only, Worked, StillOpen, Closes, realpath_long, Proceed, Finish
<1>4. Told(j)'
  BY DEF JobInv, JobOK, JobsTypeOK, Told, Over, Failed, At, Worked, StillOpen, realpath_long,
     Proceed, Finish
<1>5. JobHolds(j)'
  BY DEF JobInv, JobOK, JobsTypeOK, Failed, JobHolds, MayHold, At, Closes, Of, realpath_long,
     Proceed, Finish
<1>6. Assigns(j)'
  BY DEF JobInv, JobsTypeOK, Assigns, realpath_long, Proceed, Finish
<1> QED
  BY <1>2, <1>3, <1>4, <1>5, <1>6 DEF Stepped, JobOK

(* The string of a POSIX realpath is the result.                           *)
LEMMA RealpathPosixSteps ==
  ASSUME JobInv, NEW j \in Jobs, realpath_posix(j), UNCHANGED <<platform, kind>>
  PROVE  Stepped(j)
<1>1. Moves(j)
  BY DEF Moves, Errors, realpath_posix
<1>2. JobsTypeOK'
  BY <1>1, MovesType DEF JobInv, JobsTypeOK, Names, Results, Errors, Worked, StillOpen, Opens,
     Of, realpath_posix
<1>3. Only(j)
  BY DEF JobInv, JobsTypeOK, Only, Worked, StillOpen, Opens, Of, realpath_posix, Proceed, Finish
<1>4. Told(j)'
  BY DEF JobInv, JobOK, JobsTypeOK, Told, Over, Failed, At, Worked, StillOpen, realpath_posix,
     Proceed, Finish
<1>5. JobHolds(j)'
  BY DEF JobInv, JobOK, JobsTypeOK, Failed, JobHolds, MayHold, At, Opens, Of, realpath_posix,
     Proceed, Finish
<1>6. Assigns(j)'
  BY DEF JobInv, JobsTypeOK, Assigns, realpath_posix, Proceed, Finish
<1> QED
  BY <1>2, <1>3, <1>4, <1>5, <1>6 DEF Stepped, JobOK

(* Only where CreateProcess takes it is an attribute list made.            *)
LEMMA SpawnPrepareSteps ==
  ASSUME JobInv, NEW j \in Jobs, spawn_prepare(j), UNCHANGED <<platform, kind>>
  PROVE  Stepped(j)
<1>1. Moves(j)
  BY DEF Moves, Errors, Steps, spawn_prepare
<1>2. JobsTypeOK'
  BY <1>1, MovesType DEF JobInv, JobsTypeOK, Names, Opens, Of, spawn_prepare, Finish
<1>3. Only(j)
  BY DEF JobInv, JobsTypeOK, Only, Opens, Of, spawn_prepare, Proceed, Finish
<1>4. Told(j)'
  BY DEF JobInv, JobOK, JobsTypeOK, Told, Over, Failed, At, spawn_prepare, Proceed, Finish
<1>5. JobHolds(j)'
  BY DEF JobInv, JobOK, JobsTypeOK, JobHolds, MayHold, At, Opens, Of, spawn_prepare, Proceed,
     Finish
<1>6. Assigns(j)'
  BY DEF JobInv, JobsTypeOK, Assigns, spawn_prepare, Proceed, Finish
<1> QED
  BY <1>2, <1>3, <1>4, <1>5, <1>6 DEF Stepped, JobOK

(* An attribute list that cannot be filled is released.                    *)
LEMMA SpawnAttributesSteps ==
  ASSUME JobInv, NEW j \in Jobs, spawn_attributes(j), UNCHANGED <<platform, kind>>
  PROVE  Stepped(j)
<1>1. Moves(j)
  BY DEF Moves, Errors, Steps, spawn_attributes
<1>2. JobsTypeOK'
  BY <1>1, MovesType DEF JobInv, JobsTypeOK, Closes, spawn_attributes, Finish
<1>3. Only(j)
  BY DEF JobInv, JobsTypeOK, Only, Closes, spawn_attributes, Proceed, Finish
<1>4. Told(j)'
  BY DEF JobInv, JobOK, JobsTypeOK, Told, Over, Failed, At, spawn_attributes, Proceed, Finish
<1>5. JobHolds(j)'
  BY DEF JobInv, JobOK, JobsTypeOK, JobHolds, MayHold, At, Closes, Of, spawn_attributes, Proceed,
     Finish
<1>6. Assigns(j)'
  BY DEF JobInv, JobsTypeOK, Assigns, spawn_attributes, Proceed, Finish
<1> QED
  BY <1>2, <1>3, <1>4, <1>5, <1>6 DEF Stepped, JobOK

(* CreateProcess, successful or not, is the end of the attribute list.     *)
LEMMA SpawnCreateSteps ==
  ASSUME JobInv, NEW j \in Jobs, spawn_create(j), UNCHANGED <<platform, kind>>
  PROVE  Stepped(j)
<1>1. Moves(j)
  BY DEF Moves, Errors, Steps, spawn_create
<1>2. JobsTypeOK'
  BY <1>1, MovesType DEF JobInv, JobsTypeOK, Names, Closes, Of, spawn_create, Finish
<1>3. Only(j)
  BY DEF JobInv, JobsTypeOK, Only, Closes, Of, spawn_create, Proceed, Finish
<1>4. Told(j)'
  BY DEF JobInv, JobOK, JobsTypeOK, Told, Over, Failed, At, spawn_create, Proceed, Finish
<1>5. JobHolds(j)'
  BY DEF JobInv, JobOK, JobsTypeOK, JobHolds, MayHold, At, Closes, Of, spawn_create, Proceed,
     Finish
<1>6. Assigns(j)'
  BY DEF JobInv, JobsTypeOK, Assigns, spawn_create, Proceed, Finish
<1> QED
  BY <1>2, <1>3, <1>4, <1>5, <1>6 DEF Stepped, JobOK

(* A child that cannot be put into the job object leaves its handles, on   *)
(* Windows 7 only.                                                         *)
LEMMA SpawnAssignSteps ==
  ASSUME JobInv, NEW j \in Jobs, spawn_assign(j), UNCHANGED <<platform, kind>>
  PROVE  Stepped(j)
<1>1. Moves(j)
  BY DEF Moves, Errors, Steps, spawn_assign
<1>2. JobsTypeOK'
  BY <1>1, MovesType DEF JobInv, JobsTypeOK, StillOpen, NoPayload, spawn_assign, Finish
<1>3. Only(j)
  BY DEF JobInv, JobsTypeOK, Only, StillOpen, NoPayload, spawn_assign, Proceed, Finish
<1>4. Told(j)'
  BY DEF JobInv, JobOK, JobsTypeOK, Told, Over, Failed, At, StillOpen, spawn_assign, Proceed,
     Finish
<1>5. JobHolds(j)'
  <2>1. platform = "windows7"
    BY DEF JobInv, JobOK, Assigns, At, spawn_assign
  <2> QED
    BY <2>1 DEF JobInv, JobOK, JobsTypeOK, Failed, JobHolds, MayHold, At, NoPayload, spawn_assign,
       Proceed, Finish
<1>6. Assigns(j)'
  BY DEF JobInv, JobOK, Assigns, At, spawn_assign
<1> QED
  BY <1>2, <1>3, <1>4, <1>5, <1>6 DEF Stepped, JobOK

(* The thread handle is closed, the process handle is the result.          *)
LEMMA SpawnReturnSteps ==
  ASSUME JobInv, NEW j \in Jobs, spawn_return(j), UNCHANGED <<platform, kind>>
  PROVE  Stepped(j)
<1>1. Moves(j)
  BY DEF Moves, Errors, spawn_return
<1>2. JobsTypeOK'
  BY <1>1, MovesType DEF JobInv, JobsTypeOK, Results, Errors, Worked, Closes, spawn_return
<1>3. Only(j)
  BY DEF Only, Worked, Closes, spawn_return, Proceed, Finish
<1>4. Told(j)'
  BY DEF JobInv, JobsTypeOK, Told, Over, Failed, At, Worked, spawn_return, Proceed, Finish
<1>5. JobHolds(j)'
  BY DEF JobInv, JobOK, JobsTypeOK, Failed, JobHolds, MayHold, At, Closes, Of, spawn_return,
     Proceed, Finish
<1>6. Assigns(j)'
  BY DEF Assigns, At, spawn_return, Proceed, Finish
<1> QED
  BY <1>2, <1>3, <1>4, <1>5, <1>6 DEF Stepped, JobOK

(* posix_spawn releases its attributes on success and failure.             *)
LEMMA SpawnPosixSteps ==
  ASSUME JobInv, NEW j \in Jobs, spawn_posix(j), UNCHANGED <<platform, kind>>
  PROVE  Stepped(j)
<1>1. Moves(j)
  BY DEF Moves, Errors, Steps, spawn_posix
<1>2. JobsTypeOK'
  BY <1>1, MovesType DEF JobInv, JobsTypeOK, Names, Errors, Worked, StillOpen, Opens, Closes,
     Of, spawn_posix
<1>3. Only(j)
  BY DEF JobInv, JobsTypeOK, Only, Worked, StillOpen, Opens, Closes, Of, spawn_posix, Proceed,
     Finish
<1>4. Told(j)'
  BY DEF JobInv, JobOK, JobsTypeOK, Told, Over, Failed, Worked, StillOpen, spawn_posix, Proceed,
     Finish
<1>5. JobHolds(j)'
  BY DEF JobInv, JobOK, JobsTypeOK, JobHolds, MayHold, Opens, Closes, Of, spawn_posix, Proceed,
     Finish
<1>6. Assigns(j)'
  BY DEF JobInv, JobsTypeOK, Assigns, spawn_posix, Proceed, Finish
<1> QED
  BY <1>2, <1>3, <1>4, <1>5, <1>6 DEF Stepped, JobOK

(* A name that is not found is a failure though err is zero.               *)
LEMMA GetaddrinfoSteps ==
  ASSUME JobInv, NEW j \in Jobs, getaddrinfo(j), UNCHANGED <<platform, kind>>
  PROVE  Stepped(j)
<1>1. Moves(j)
  BY DEF Moves, Errors, getaddrinfo
<1>2. JobsTypeOK'
  BY <1>1, MovesType DEF JobInv, JobsTypeOK, Names, Results, Errors, Worked, StillOpen, Opens,
     Of, getaddrinfo
<1>3. Only(j)
  BY DEF JobInv, JobsTypeOK, Only, Worked, StillOpen, Opens, Of, getaddrinfo, Proceed, Finish
<1>4. Told(j)'
  BY DEF JobInv, JobOK, JobsTypeOK, Told, Over, Failed, At, Worked, StillOpen, getaddrinfo,
     Proceed, Finish
<1>5. JobHolds(j)'
  BY DEF JobInv, JobOK, JobsTypeOK, JobHolds, MayHold, At, Opens, Of, getaddrinfo, Proceed, Finish
<1>6. Assigns(j)'
  BY DEF JobInv, JobsTypeOK, Assigns, getaddrinfo, Proceed, Finish
<1> QED
  BY <1>2, <1>3, <1>4, <1>5, <1>6 DEF Stepped, JobOK

(* The coroutine takes over what a successful job hands over.              *)
LEMMA TakeResultSteps ==
  ASSUME JobInv, NEW j \in Jobs, TakeResult(j), UNCHANGED <<platform, kind>>
  PROVE  Stepped(j)
<1>1. Moves(j)
  BY DEF Moves, Steps, TakeResult
<1>2. JobsTypeOK'
  BY <1>1, MovesType DEF JobInv, JobsTypeOK, Results, Closes, TakeResult
<1>3. Only(j)
  BY DEF Only, Closes, TakeResult, Proceed
<1>4. Told(j)'
  BY DEF JobInv, JobOK, Told, Over, Failed, TakeResult, Proceed
<1>5. JobHolds(j)'
  BY DEF JobInv, JobOK, JobsTypeOK, JobHolds, MayHold, Closes, Of, Windows, Payload, TakeResult,
     Proceed
<1>6. Assigns(j)'
  BY DEF Assigns, TakeResult, Proceed
<1> QED
  BY <1>2, <1>3, <1>4, <1>5, <1>6 DEF Stepped, JobOK

(* The free function releases what the job owns and the payload nobody     *)
(* took.                                                                   *)
LEMMA FreeSteps ==
  ASSUME JobInv, NEW j \in Jobs, Free(j), UNCHANGED <<platform, kind>>
  PROVE  Stepped(j)
<1>1. Moves(j)
  BY DEF Moves, Steps, Free
<1>2. JobsTypeOK'
  BY <1>1, MovesType DEF JobInv, JobsTypeOK, Closes, Free
<1>3. Only(j)
  BY DEF Only, Closes, Free, Proceed
<1>4. Told(j)'
  BY DEF JobInv, JobOK, Told, Over, Failed, Free, Proceed
<1>5. JobHolds(j)'
  <2> SUFFICES ASSUME NEW x \in owed', x[1] = j PROVE MayHold(j, x[2])'
    BY DEF JobHolds
  <2>1. x \in owed /\ x[2] \notin Owns(kind[j]) /\ x[2] \notin FreedPayload(j) /\ MayHold(j, x[2])
    BY DEF JobInv, JobOK, JobsTypeOK, JobHolds, Closes, Of, Free
  <2> QED
    BY <2>1 DEF Failed, MayHold, CancellableKinds, FreedPayload, Free, Proceed
<1>6. Assigns(j)'
  BY DEF Assigns, Free, Proceed
<1> QED
  BY <1>2, <1>3, <1>4, <1>5, <1>6 DEF Stepped, JobOK

(* Whatever step is taken, it is one job's.                                *)
LEMMA JobInvStep == JobInv /\ [JobsNext]_jobsVars => JobInv'
<1> SUFFICES ASSUME JobInv, [JobsNext]_jobsVars PROVE JobInv'
  OBVIOUS
<1>1. CASE UNCHANGED jobsVars
  BY <1>1 DEF jobsVars, JobInv, JobsTypeOK, JobOK, Told, JobHolds, Assigns, MayHold, Over, Failed,
     Windows
<1>2. ASSUME NEW j \in Jobs, WorkerStep(j), UNCHANGED <<platform, kind>> PROVE Stepped(j)
  BY <1>2, OneCallSteps, FileKindByPathSteps, FileTimeByPathSteps, AccessSteps, RenameSteps,
     SymlinkSteps, OpenCreateSteps, OpenWaitPipeSteps, OpenStatSteps, RealpathQuerySteps,
     RealpathCopySteps, RealpathLongSteps, RealpathPosixSteps, SpawnPrepareSteps,
     SpawnAttributesSteps, SpawnCreateSteps, SpawnAssignSteps, SpawnReturnSteps,
     SpawnPosixSteps, GetaddrinfoSteps DEF WorkerStep, OneCall
<1>3. ASSUME NEW j \in Jobs, TakeResult(j) \/ Free(j)
      PROVE  Stepped(j) /\ UNCHANGED <<platform, kind>>
  BY <1>3, TakeResultSteps, FreeSteps DEF TakeResult, Free
<1>4. CASE JobsNext
  <2>1. PICK j \in Jobs : \/ WorkerStep(j) /\ UNCHANGED <<platform, kind>>
                         \/ TakeResult(j) \/ Free(j)
    BY <1>4 DEF JobsNext
  <2>2. Stepped(j) /\ UNCHANGED <<platform, kind>>
    BY <1>2, <1>3, <2>1
  <2> QED
    BY <2>2, OthersKeep DEF Stepped
<1> QED
  BY <1>1, <1>4

(* The invariant holds throughout, whichever calls fail and however the    *)
(* jobs interleave.                                                        *)
THEOREM JobInvariance == JobsSpec => []JobInv
<1> QED
  BY JobInvInit, JobInvStep, PTL DEF JobsSpec

(* Every variable of Jobs has its type, for every set of jobs and of       *)
(* kinds.                                                                  *)
THEOREM JobsTypeCorrect == JobsSpec => []JobsTypeOK
<1>1. JobInv => JobsTypeOK
  BY DEF JobInv
<1> QED
  BY <1>1, JobInvariance, PTL

(* What perform_job_in_worker makes of ret and err is what happened, for   *)
(* every set of jobs of any kinds on each platform: a job whose operation  *)
(* took place never raises, one that failed at any of its calls never      *)
(* passes for a success.                                                   *)
THEOREM OutcomeIsTrueHolds == JobsSpec => []OutcomeIsTrue
<1>1. JobInv => OutcomeIsTrue
  BY DEF JobInv, JobOK, Told, OutcomeIsTrue
<1> QED
  BY <1>1, JobInvariance, PTL

(* When a job is gone, nothing it opened or allocated is left on any of    *)
(* its ways out, except the file of an open that was cancelled too late    *)
(* and the handles of a child that could not be put into its job object.   *)
THEOREM NothingLeaksHolds == JobsSpec => []NothingLeaks
<1>1. JobInv => NothingLeaks
  BY DEF JobInv, JobOK, JobHolds, MayHold, NothingLeaks
<1> QED
  BY <1>1, JobInvariance, PTL

(* The buffer of realpath is not touched, no job gets another's path from  *)
(* it, none comes to copy from it and none begins anew.                    *)
BufferUntouched ==
    /\ UNCHANGED realpath_buf
    /\ \A i \in Jobs :
         /\ result'[i] = "other" => result[i] = "other"
         /\ call'[i] = "copy" => call[i] = "copy"
         /\ call'[i] = "start" => call[i] = "start"

(* What is in the buffer was put there by a realpath job that has begun,   *)
(* on Windows, and a job copies from it only after that.                   *)
RaceInv ==
    /\ realpath_buf # NoJob =>
         Windows /\ kind[realpath_buf] = "realpath" /\ call[realpath_buf] # "start"
    /\ \A j \in Jobs : call[j] = "copy" => realpath_buf # NoJob
    /\ RealpathMixedOnlyByRace

(* A job that moves on to its end or to another call than the copying      *)
(* leaves the buffer alone if its action does.                             *)
LEMMA MovesOn ==
  ASSUME JobsTypeOK, NEW j \in Jobs, UNCHANGED realpath_buf,
         NEW step \in Steps \ {"start", "copy"}, Proceed(j, step),
         UNCHANGED result \/ \E r \in Results \ {"other"} : result' = [result EXCEPT ![j] = r]
  PROVE  BufferUntouched
BY DEF JobsTypeOK, BufferUntouched, Proceed

(* Every action but the two that write the buffer and copy from it.        *)
LEMMA OthersMoveOn ==
  ASSUME JobsTypeOK, NEW j \in Jobs,
         WorkerStep(j) \/ TakeResult(j) \/ Free(j), ~realpath_query(j), ~realpath_copy(j)
  PROVE  /\ UNCHANGED realpath_buf
         /\ \E step \in Steps \ {"start", "copy"} : Proceed(j, step)
         /\ UNCHANGED result
              \/ \E r \in Results \ {"other"} : result' = [result EXCEPT ![j] = r]
<1>1. CASE OneCall(j)
  BY <1>1 DEF OneCall, sleep, read, write, file_size, file_time, chmod, fsync, remove, mkdir,
     rmdir, bind, inotify_add_watch, flock, kind_of_fd, readdir, wait_for_process, sigwait,
     os_call, win_call, posix_call, kind_of_fd_call, NoPayload, Finish, Steps
<1>2. CASE file_kind_by_path(j) \/ file_time_by_path(j) \/ access(j) \/ rename(j) \/ symlink(j)
  BY <1>2 DEF file_kind_by_path, file_time_by_path, access, rename, symlink, OpenPath,
     os_call, win_call, posix_call, kind_of_fd_call, NoPayload, Finish, Steps
<1>3. CASE open_create(j) \/ open_wait_pipe(j) \/ open_stat(j)
  BY <1>3 DEF open_create, open_wait_pipe, open_stat, win_call, posix_call, os_call, NoPayload,
     Finish, Steps, Results
<1>4. CASE realpath_long(j) \/ realpath_posix(j)
  BY <1>4 DEF realpath_long, realpath_posix, Finish, Steps, Results
<1>5. CASE \/ spawn_prepare(j) \/ spawn_attributes(j) \/ spawn_create(j) \/ spawn_assign(j)
           \/ spawn_return(j) \/ spawn_posix(j)
  BY <1>5 DEF spawn_prepare, spawn_attributes, spawn_create, spawn_assign, spawn_return,
     spawn_posix, NoPayload, Finish, Steps, Results
<1>6. CASE getaddrinfo(j)
  BY <1>6 DEF getaddrinfo, Finish, Steps, Results
<1>7. CASE TakeResult(j)
  <2>1. UNCHANGED realpath_buf /\ Proceed(j, "taken")
    BY <1>7 DEF TakeResult
  <2>2. CASE kind[j] = "realpath"
    <3>1. result' = [result EXCEPT ![j] = result[j]]
      BY <1>7, <2>2 DEF TakeResult
    <3>2. UNCHANGED result
      BY <3>1 DEF JobsTypeOK
    <3> QED
      BY <2>1, <3>2 DEF Steps
  <2>3. CASE kind[j] # "realpath"
    <3>1. result' = [result EXCEPT ![j] = "taken"]
      BY <1>7, <2>3 DEF TakeResult
    <3> QED
      BY <2>1, <3>1 DEF Steps, Results
  <2> QED
    BY <2>2, <2>3
<1>8. CASE Free(j)
  BY <1>8 DEF Free, Steps, Results
<1> QED
  BY <1>1, <1>2, <1>3, <1>4, <1>5, <1>6, <1>7, <1>8 DEF WorkerStep, OneCall

(* Every step keeps what holds of the buffer.                              *)
LEMMA RaceStep == JobInv /\ RaceInv /\ [JobsNext]_jobsVars => RaceInv'
<1> SUFFICES ASSUME JobInv, RaceInv, [JobsNext]_jobsVars PROVE RaceInv'
  OBVIOUS
<1>1. JobsTypeOK
  BY DEF JobInv
<1>2. CASE UNCHANGED jobsVars
  BY <1>2 DEF jobsVars, RaceInv, RealpathMixedOnlyByRace, Windows
<1>3. ASSUME BufferUntouched, UNCHANGED <<platform, kind>> PROVE RaceInv'
  BY <1>1, <1>3 DEF JobsTypeOK, BufferUntouched, RaceInv, RealpathMixedOnlyByRace, Windows
<1>4. ASSUME NEW j \in Jobs, realpath_query(j), UNCHANGED <<platform, kind>> PROVE RaceInv'
  BY <1>1, <1>4, JobsAssumption
     DEF JobsTypeOK, JobsAssumption, realpath_query, At, Finish, Proceed, RaceInv,
         RealpathMixedOnlyByRace, Windows
<1>5. ASSUME NEW j \in Jobs, realpath_copy(j), UNCHANGED <<platform, kind>> PROVE RaceInv'
  BY <1>1, <1>5
     DEF JobsTypeOK, realpath_copy, At, Finish, Proceed, RaceInv,
         RealpathMixedOnlyByRace, Windows
<1>6. ASSUME NEW j \in Jobs, WorkerStep(j) \/ TakeResult(j) \/ Free(j),
             UNCHANGED <<platform, kind>>
      PROVE  RaceInv'
  BY <1>1, <1>3, <1>4, <1>5, <1>6, OthersMoveOn, MovesOn
<1>7. CASE JobsNext
  <2>1. PICK j \in Jobs : \/ WorkerStep(j) /\ UNCHANGED <<platform, kind>>
                         \/ TakeResult(j) \/ Free(j)
    BY <1>7 DEF JobsNext
  <2>2. UNCHANGED <<platform, kind>>
    BY <2>1 DEF TakeResult, Free
  <2> QED
    BY <1>6, <2>1, <2>2
<1> QED
  BY <1>2, <1>7

(* realpath answers with the path it was asked for off Windows, and on     *)
(* Windows unless another realpath job has begun, however many jobs of     *)
(* whatever kinds run at once.                                             *)
THEOREM RealpathMixedOnlyByRaceHolds == JobsSpec => []RealpathMixedOnlyByRace
<1>1. JobsInit => RaceInv
  BY DEF JobsInit, RaceInv, RealpathMixedOnlyByRace
<1>2. RaceInv => RealpathMixedOnlyByRace
  BY DEF RaceInv
<1> QED
  BY <1>1, <1>2, RaceStep, JobInvariance, PTL DEF JobsSpec

-----------------------------------------------------------------------------
(* The memory of the MoonBit runtime.                                      *)
(*                                                                         *)
(* The counts are right because of HeapInv: a drop is at an object it has  *)
(* to itself, and the chain of the objects it has suspended leads from     *)
(* there to its first, through slots that hold their parents (WalkInv);    *)
(* what is copied last is what was counted (LastInv); and the count of     *)
(* every other object is what refers to it, while nothing refers to one    *)
(* that is dropped, suspended or freed (CountInv).                         *)

(* Two sets with a one-to-one correspondence have as many elements.        *)
LEMMA SameSize ==
  ASSUME NEW S, NEW T, IsFiniteSet(S), NEW f \in [S -> T],
         \A x, y \in S : f[x] = f[y] => x = y,
         \A t \in T : \E x \in S : f[x] = t
  PROVE  IsFiniteSet(T) /\ Cardinality(T) = Cardinality(S)
<1>1. f \in Bijection(S, T)
  BY DEF Bijection, Injection, Surjection, IsInjective
<1> QED
  BY <1>1, FS_Bijection DEF ExistsBijection

(* How often something occurs in a list is a number.                       *)
LEMMA OccursIsNat ==
  ASSUME NEW V, NEW s \in Seq(V), NEW v
  PROVE  /\ DOMAIN s = 1 .. Len(s) /\ Len(s) \in Nat
         /\ IsFiniteSet({i \in DOMAIN s : s[i] = v})
         /\ Occurs(v, s) \in Nat
<1>1. DOMAIN s = 1 .. Len(s) /\ Len(s) \in Nat
  OBVIOUS
<1>2. IsFiniteSet(1 .. Len(s))
  BY <1>1, FS_Interval
<1>3. IsFiniteSet({i \in DOMAIN s : s[i] = v})
  BY <1>1, <1>2, FS_Subset
<1> QED
  BY <1>1, <1>3, FS_CardinalityType DEF Occurs

(* Something that does not occur in a list is nowhere in it.               *)
LEMMA OccursZero ==
  ASSUME NEW V, NEW s \in Seq(V), NEW v
  PROVE  Occurs(v, s) = 0 <=> \A i \in 1 .. Len(s) : s[i] # v
<1> DEFINE I == {i \in DOMAIN s : s[i] = v}
<1>1. IsFiniteSet(I) /\ DOMAIN s = 1 .. Len(s) /\ Occurs(v, s) = Cardinality(I)
  BY OccursIsNat DEF Occurs
<1>2. Occurs(v, s) = 0 <=> I = {}
  <2> HIDE DEF I
  <2> QED
    BY <1>1, FS_EmptySet
<1> QED
  BY <1>1, <1>2

(* Occurrences add up.                                                     *)
LEMMA OccursConcat ==
  ASSUME NEW V, NEW s \in Seq(V), NEW t \in Seq(V), NEW v
  PROVE  Occurs(v, s \o t) = Occurs(v, s) + Occurs(v, t)
<1> DEFINE n == Len(s)
           I == {i \in DOMAIN s : s[i] = v}
           J == {i \in DOMAIN t : t[i] = v}
           K == {i \in DOMAIN (s \o t) : (s \o t)[i] = v}
           M == {k \in K : k > n}
           f == [j \in J |-> j + n]
<1>1. /\ IsFiniteSet(I) /\ DOMAIN s = 1 .. n /\ Occurs(v, s) = Cardinality(I) /\ n \in Nat
      /\ IsFiniteSet(J) /\ DOMAIN t = 1 .. Len(t) /\ Occurs(v, t) = Cardinality(J) /\ Len(t) \in Nat
  BY OccursIsNat DEF Occurs
<1>2. /\ s \o t \in Seq(V) /\ Len(s \o t) = n + Len(t) /\ DOMAIN (s \o t) = 1 .. n + Len(t)
      /\ \A i \in 1 .. n + Len(t) : (s \o t)[i] = IF i <= n THEN s[i] ELSE t[i - n]
  BY ConcatProperties, LenProperties
<1>3. K = I \cup M /\ I \cap M = {}
  BY <1>1, <1>2
<1>4. IsFiniteSet(M) /\ Cardinality(M) = Cardinality(J)
  <2>1. f \in [J -> M]
    BY <1>1, <1>2
  <2>2. \A x, y \in J : f[x] = f[y] => x = y
    BY <1>1
  <2>3. ASSUME NEW k \in M PROVE \E x \in J : f[x] = k
    <3>1. k - n \in J /\ f[k - n] = k
      BY <1>1, <1>2
    <3> QED
      BY <3>1
  <2> HIDE DEF f, J, M
  <2> QED
    BY <1>1, <2>1, <2>2, <2>3, SameSize
<1>5. Cardinality(K) = Cardinality(I) + Cardinality(M)
  <2>1. Cardinality(I) \in Nat /\ Cardinality(M) \in Nat
    BY <1>1, <1>4, FS_CardinalityType
  <2>2. Cardinality(I \cap M) = 0
    BY <1>3, FS_EmptySet
  <2> HIDE DEF I, K, M
  <2>3. Cardinality(I \cup M) = Cardinality(I) + Cardinality(M) - Cardinality(I \cap M)
    BY <1>1, <1>4, FS_Union
  <2> QED
    BY <1>3, <2>1, <2>2, <2>3
<1> QED
  BY <1>1, <1>4, <1>5 DEF Occurs

(* A list of one has what it has once.                                     *)
LEMMA OccursOne ==
  ASSUME NEW v, NEW x
  PROVE  Occurs(v, <<x>>) = One(x = v) /\ Occurs(v, <<>>) = 0
<1>1. CASE x = v
  <2>1. {i \in DOMAIN <<x>> : <<x>>[i] = v} = {1}
    BY <1>1
  <2> QED
    BY <1>1, <2>1, FS_Singleton, FS_EmptySet DEF Occurs, One
<1>2. CASE x # v
  <2>1. {i \in DOMAIN <<x>> : <<x>>[i] = v} = {}
    BY <1>2
  <2> QED
    BY <1>2, <2>1, FS_EmptySet DEF Occurs, One
<1> QED
  BY <1>1, <1>2

(* Without its first, a list has its first once less.                      *)
LEMMA OccursTail ==
  ASSUME NEW V, NEW s \in Seq(V), s # <<>>, NEW v
  PROVE  Occurs(v, s) = One(Head(s) = v) + Occurs(v, Tail(s))
<1> DEFINE h == Head(s)
           t == Tail(s)
<1>1. h \in V /\ t \in Seq(V) /\ s = <<h>> \o t
  OBVIOUS
<1> HIDE DEF h, t
<1>2. <<h>> \in Seq(V)
  BY <1>1
<1>3. Occurs(v, <<h>> \o t) = Occurs(v, <<h>>) + Occurs(v, t)
  BY <1>1, <1>2, OccursConcat
<1>4. Occurs(v, s) = One(h = v) + Occurs(v, t)
  BY <1>1, <1>3, OccursOne
<1> QED
  BY <1>4 DEF h, t

(* A reference is given up as often as it is in the list.                  *)
LEMMA OccursDecrefs ==
  ASSUME NEW V, NEW s \in Seq(V), NEW v
  PROVE  /\ Decrefs(s) \in Seq({decref_op(x) : x \in V}) /\ Len(Decrefs(s)) = Len(s)
         /\ \A i \in 1 .. Len(s) : Decrefs(s)[i] = decref_op(s[i])
         /\ Occurs(decref_op(v), Decrefs(s)) = Occurs(v, s)
<1>1. DOMAIN s = 1 .. Len(s) /\ Len(s) \in Nat /\ \A i \in 1 .. Len(s) : s[i] \in V
  OBVIOUS
<1>2. /\ Decrefs(s) \in Seq({decref_op(x) : x \in V}) /\ Len(Decrefs(s)) = Len(s)
      /\ DOMAIN Decrefs(s) = 1 .. Len(s)
      /\ \A i \in 1 .. Len(s) : Decrefs(s)[i] = decref_op(s[i])
  BY <1>1 DEF Decrefs
<1>3. \A x : decref_op(x) = decref_op(v) <=> x = v
  BY DEF decref_op
<1>4. {i \in DOMAIN Decrefs(s) : Decrefs(s)[i] = decref_op(v)} = {i \in DOMAIN s : s[i] = v}
  BY <1>1, <1>2, <1>3
<1> QED
  BY <1>2, <1>4 DEF Occurs

(* Parts of a list that something occurs in, as places of an object.       *)
Places(x, s, a, b, v) == {p \in {x} \X (a + 1 .. b) : s[p[2]] = v}

(* There are as many places as it occurs in that part of the list.         *)
LEMMA PlacesCount ==
  ASSUME NEW V, NEW s \in Seq(V), NEW x, NEW v, NEW a \in Nat, NEW b \in Nat, a <= b, b <= Len(s)
  PROVE  /\ IsFiniteSet(Places(x, s, a, b, v))
         /\ Cardinality(Places(x, s, a, b, v)) = Occurs(v, SubSeq(s, a + 1, b))
<1> DEFINE n == b - a
           t == SubSeq(s, a + 1, b)
           I == {i \in DOMAIN t : t[i] = v}
           P == Places(x, s, a, b, v)
           f == [i \in I |-> <<x, i + a>>]
<1>1. t \in Seq(V) /\ Len(t) = n /\ \A i \in 1 .. n : t[i] = s[i + a]
  <2> DEFINE k == a + 1
  <2>1. k \in Int /\ \A i \in k .. b : s[i] \in V
    OBVIOUS
  <2> HIDE DEF k
  <2>2. /\ SubSeq(s, k, b) \in Seq(V)
        /\ Len(SubSeq(s, k, b)) = IF k <= b THEN b - k + 1 ELSE 0
        /\ \A i \in 1 .. b - k + 1 : SubSeq(s, k, b)[i] = s[k + i - 1]
    BY <2>1, SubSeqProperties
  <2>3. t = SubSeq(s, k, b) /\ k = a + 1
    BY DEF k
  <2> HIDE DEF t
  <2>4. ASSUME NEW i \in 1 .. n PROVE t[i] = s[i + a]
    <3>1. i \in 1 .. b - k + 1 /\ k + i - 1 = i + a
      BY <2>3
    <3> QED
      BY <2>2, <2>3, <3>1
  <2> QED
    BY <2>2, <2>3, <2>4
<1> HIDE DEF t
<1>2. IsFiniteSet(I) /\ Occurs(v, t) = Cardinality(I) /\ DOMAIN t = 1 .. n
  BY <1>1, OccursIsNat DEF Occurs
<1>3. f \in [I -> P]
  BY <1>1, <1>2 DEF Places
<1>4. \A i, j \in I : f[i] = f[j] => i = j
  BY <1>2
<1>5. ASSUME NEW p \in P PROVE \E i \in I : f[i] = p
  <2>1. p = <<x, p[2]>> /\ p[2] \in a + 1 .. b /\ s[p[2]] = v
    BY DEF Places
  <2>2. p[2] - a \in I /\ (p[2] - a) + a = p[2]
    BY <2>1, <1>1, <1>2
  <2>3. f[p[2] - a] = p
    BY <2>1, <2>2
  <2> QED
    BY <2>2, <2>3
<1>6. IsFiniteSet(P) /\ Cardinality(P) = Cardinality(I)
  <2> HIDE DEF f, P, I
  <2> QED
    BY <1>2, <1>3, <1>4, <1>5, SameSize
<1> QED
  BY <1>2, <1>6 DEF t

(* The same of a whole list.                                               *)
LEMMA PlacesWhole ==
  ASSUME NEW V, NEW s \in Seq(V), NEW x, NEW v
  PROVE  /\ IsFiniteSet(Places(x, s, 0, Len(s), v))
         /\ Cardinality(Places(x, s, 0, Len(s), v)) = Occurs(v, s)
<1> DEFINE n == Len(s)
           a == 0
<1>1. n \in Nat /\ a \in Nat /\ a <= n /\ SubSeq(s, a + 1, n) = s
  BY SubSeqFull
<1> HIDE DEF a
<1>2. /\ IsFiniteSet(Places(x, s, a, n, v))
      /\ Cardinality(Places(x, s, a, n, v)) = Occurs(v, SubSeq(s, a + 1, n))
  BY <1>1, PlacesCount
<1> QED
  BY <1>1, <1>2 DEF a

(* Disjoint finite sets.                                                   *)
LEMMA Disjoint ==
  ASSUME NEW S, NEW T, IsFiniteSet(S), IsFiniteSet(T), S \cap T = {}
  PROVE  /\ IsFiniteSet(S \cup T) /\ Cardinality(S) \in Nat /\ Cardinality(T) \in Nat
         /\ Cardinality(S \cup T) = Cardinality(S) + Cardinality(T)
<1>1. Cardinality(S) \in Nat /\ Cardinality(T) \in Nat /\ Cardinality(S \cap T) = 0
  BY FS_CardinalityType, FS_EmptySet
<1>2. /\ IsFiniteSet(S \cup T)
      /\ Cardinality(S \cup T) = Cardinality(S) + Cardinality(T) - Cardinality(S \cap T)
  BY FS_Union
<1> QED
  BY <1>1, <1>2

(* A part of a list, and the rest.                                         *)
PartOf(s, a, n) == SubSeq(s, a + 1, a + n)
RestOf(s, a, n) == SubSeq(s, 1, a) \o SubSeq(s, a + n + 1, Len(s))

(* What occurs in a list occurs in the part or in the rest.                *)
LEMMA OccursPartRest ==
  ASSUME NEW V, NEW s \in Seq(V), NEW v, NEW a \in Nat, NEW n \in Nat, a + n <= Len(s)
  PROVE  /\ PartOf(s, a, n) \in Seq(V) /\ RestOf(s, a, n) \in Seq(V)
         /\ Len(PartOf(s, a, n)) = n
         /\ \A i \in 1 .. n : PartOf(s, a, n)[i] = s[i + a]
         /\ Occurs(v, s) = Occurs(v, PartOf(s, a, n)) + Occurs(v, RestOf(s, a, n))
<1> DEFINE k == a + n
           m == Len(s)
           l == SubSeq(s, 1, a)
           p == SubSeq(s, a + 1, k)
           r == SubSeq(s, k + 1, m)
<1>1. k \in Nat /\ m \in Nat /\ a <= k /\ k <= m /\ \A i \in 1 .. m : s[i] \in V
  OBVIOUS
<1>2. /\ p \in Seq(V) /\ Len(p) = IF a + 1 <= k THEN k - (a + 1) + 1 ELSE 0
      /\ \A i \in 1 .. k - (a + 1) + 1 : p[i] = s[a + 1 + i - 1]
  <2> DEFINE c == a + 1
  <2> HIDE DEF k, m
  <2>1. c \in Int /\ \A i \in c .. k : s[i] \in V
    BY <1>1
  <2> HIDE DEF c
  <2>2. /\ SubSeq(s, c, k) \in Seq(V)
        /\ Len(SubSeq(s, c, k)) = IF c <= k THEN k - c + 1 ELSE 0
        /\ \A i \in 1 .. k - c + 1 : SubSeq(s, c, k)[i] = s[c + i - 1]
    BY <1>1, <2>1, SubSeqProperties
  <2> QED
    BY <2>2 DEF c
<1>3. l \in Seq(V) /\ r \in Seq(V)
  <2> HIDE DEF k, m
  <2>1. (\A i \in 1 .. a : s[i] \in V) /\ (\A i \in k + 1 .. m : s[i] \in V)
    BY <1>1
  <2> QED
    BY <1>1, <2>1, SubSeqProperties
<1>4. l \o p = SubSeq(s, 1, k) /\ SubSeq(s, 1, k) \o r = SubSeq(s, 1, m) /\ SubSeq(s, 1, m) = s
  <2> HIDE DEF k
  <2>1. /\ 1 \in 1 .. m + 1 /\ a \in 1 - 1 .. m /\ k \in a .. m
        /\ k \in 1 - 1 .. m /\ m \in k .. m
    BY <1>1
  <2> QED
    BY <2>1, SubSeqFull, ConcatAdjacentSubSeq
<1>5. Len(p) = n /\ \A i \in 1 .. n : p[i] = s[i + a]
  <2> HIDE DEF p
  <2>1. k - (a + 1) + 1 = n /\ (a + 1 <= k <=> n > 0)
    OBVIOUS
  <2>2. ASSUME NEW i \in 1 .. n PROVE p[i] = s[i + a]
    <3>1. i \in 1 .. k - (a + 1) + 1 /\ a + 1 + i - 1 = i + a
      BY <2>1
    <3> QED
      BY <1>2, <3>1
  <2> QED
    BY <1>2, <2>1, <2>2
<1> HIDE DEF l, p, r, k, m
<1>6. Occurs(v, (l \o p) \o r) = (Occurs(v, l) + Occurs(v, p)) + Occurs(v, r)
  <2> DEFINE lp == l \o p
  <2>1. lp \in Seq(V) /\ Occurs(v, lp) = Occurs(v, l) + Occurs(v, p)
    BY <1>2, <1>3, OccursConcat
  <2> HIDE DEF lp
  <2>2. Occurs(v, lp \o r) = Occurs(v, lp) + Occurs(v, r)
    BY <1>3, <2>1, OccursConcat
  <2> QED
    BY <2>1, <2>2 DEF lp
<1>7. Occurs(v, l \o r) = Occurs(v, l) + Occurs(v, r)
  BY <1>3, OccursConcat
<1>8. Occurs(v, l) \in Nat /\ Occurs(v, p) \in Nat /\ Occurs(v, r) \in Nat
  BY <1>2, <1>3, OccursIsNat
<1>9. /\ p \in Seq(V) /\ l \o r \in Seq(V)
      /\ Occurs(v, s) = Occurs(v, p) + Occurs(v, l \o r)
  <2>1. (l \o p) \o r = s
    BY <1>4
  <2> QED
    BY <1>2, <1>3, <2>1, <1>6, <1>7, <1>8
<1> QED
  <2>1. PartOf(s, a, n) = p /\ RestOf(s, a, n) = l \o r
    BY DEF PartOf, RestOf, l, p, r, k, m
  <2> QED
    BY <1>5, <1>9, <2>1

(* A number below n * m is one of n blocks of m and a place in it.         *)
LEMMA BlockOf ==
  ASSUME NEW n \in Nat, NEW m \in Nat \ {0}, NEW i \in 1 .. n * m
  PROVE  \E k \in 0 .. n - 1, j \in 1 .. m : i = k * m + j /\ ((i - 1) % m) + 1 = j
<1> DEFINE k == (i - 1) \div m
           r == (i - 1) % m
<1>1. n * m \in Nat /\ i - 1 \in Nat
  OBVIOUS
<1>2. i - 1 = m * k + r /\ r \in 0 .. m - 1 /\ k \in Nat
  BY <1>1
<1>3. k <= n - 1
  <2> HIDE DEF k, r
  <2>1. SUFFICES ASSUME k >= n PROVE FALSE
    BY <1>2
  <2>2. m * k >= m * n
    BY <1>2, <2>1
  <2> QED
    BY <1>1, <1>2, <2>2
<1>4. k * m = m * k
  BY <1>2
<1>5. k \in 0 .. n - 1 /\ r + 1 \in 1 .. m /\ i = k * m + (r + 1)
  BY <1>2, <1>3, <1>4
<1> QED
  BY <1>5

(* The places of a block.                                                  *)
LEMMA InBlock ==
  ASSUME NEW n \in Nat, NEW m \in Nat \ {0}, NEW k \in 0 .. n - 1, NEW j \in 1 .. m
  PROVE  /\ k * m + j \in 1 .. n * m
         /\ ((k * m + j - 1) % m) + 1 = j
<1>1. k * m \in Nat /\ n * m \in Nat /\ k * m + m <= n * m
  <2>1. (k + 1) * m <= n * m
    OBVIOUS
  <2> QED
    BY <2>1
<1>2. (k * m + (j - 1)) % m = j - 1
  OBVIOUS
<1> QED
  BY <1>1, <1>2

(* Blocks do not overlap.                                                  *)
LEMMA SameBlock ==
  ASSUME NEW m \in Nat \ {0}, NEW k \in Nat, NEW l \in Nat, NEW i \in 1 .. m, NEW j \in 1 .. m,
         k * m + i = l * m + j
  PROVE  k = l /\ i = j
<1>1. ASSUME NEW a \in Nat, NEW b \in Nat, a < b PROVE b * m >= a * m + m
  <2>1. (a + 1) * m <= b * m
    BY <1>1
  <2> QED
    BY <2>1
<1>2. ~(k < l) /\ ~(l < k)
  BY <1>1
<1> QED
  BY <1>2

(* In n copies of a list something occurs n times as often.                *)
LEMMA OccursRepeat ==
  ASSUME NEW V, NEW s \in Seq(V), s # <<>>, NEW n \in Nat, NEW v
  PROVE  /\ Repeat(s, n) \in Seq(V) /\ Len(Repeat(s, n)) = n * Len(s)
         /\ Occurs(v, Repeat(s, n)) = n * Occurs(v, s)
<1> DEFINE m == Len(s)
           r == Repeat(s, n)
           I == {i \in DOMAIN s : s[i] = v}
           K == {i \in DOMAIN r : r[i] = v}
           B == (0 .. n - 1) \X I
           f == [b \in B |-> b[1] * m + b[2]]
<1>1. m \in Nat \ {0} /\ n * m \in Nat
  BY EmptySeq
<1>2. IsFiniteSet(I) /\ Occurs(v, s) = Cardinality(I) /\ I \subseteq 1 .. m
  BY OccursIsNat DEF Occurs
<1> HIDE DEF m
<1>3. /\ DOMAIN r = 1 .. n * m
      /\ \A i \in 1 .. n * m : r[i] = s[((i - 1) % m) + 1]
  BY <1>1 DEF Repeat, m
<1>4. ASSUME NEW i \in 1 .. n * m
      PROVE  \E k \in 0 .. n - 1, j \in 1 .. m : i = k * m + j /\ r[i] = s[j] /\ r[i] \in V
  <2>1. PICK k \in 0 .. n - 1, j \in 1 .. m : i = k * m + j /\ ((i - 1) % m) + 1 = j
    BY <1>1, BlockOf
  <2>2. s[j] \in V
    BY DEF m
  <2> QED
    BY <1>3, <2>1, <2>2
<1>5. r \in Seq(V) /\ Len(r) = n * m
  <2>1. r = [i \in 1 .. n * m |-> r[i]]
    BY <1>3 DEF Repeat, m
  <2> DEFINE N == n * m
  <2> HIDE DEF r
  <2>2. N \in Nat /\ r = [i \in 1 .. N |-> r[i]] /\ \A i \in 1 .. N : r[i] \in V
    BY <1>1, <1>4, <2>1
  <2> HIDE DEF N
  <2>3. r \in Seq(V) /\ Len(r) = N
    BY <2>2
  <2> QED
    BY <2>3 DEF N
<1>6. f \in [B -> K]
  <2>1. ASSUME NEW k \in 0 .. n - 1, NEW j \in I PROVE k * m + j \in K
    <3>1. j \in 1 .. m /\ s[j] = v
      BY <1>2
    <3>2. k * m + j \in 1 .. n * m /\ ((k * m + j - 1) % m) + 1 = j
      BY <1>1, <3>1, InBlock
    <3>3. r[k * m + j] = s[j]
      <4> DEFINE i == k * m + j
      <4>1. i \in 1 .. n * m /\ ((i - 1) % m) + 1 = j
        BY <1>1, <3>1, <3>2
      <4> HIDE DEF i, r
      <4>2. r[i] = s[j]
        BY <1>3, <4>1
      <4> QED
        BY <4>2 DEF i
    <3> QED
      BY <1>3, <3>1, <3>2, <3>3
  <2> HIDE DEF K, I
  <2> QED
    BY <2>1
<1>7. ASSUME NEW a \in B, NEW b \in B, f[a] = f[b] PROVE a = b
  <2>1. /\ a = <<a[1], a[2]>> /\ a[1] \in Nat /\ a[2] \in 1 .. m
        /\ b = <<b[1], b[2]>> /\ b[1] \in Nat /\ b[2] \in 1 .. m
    BY <1>2
  <2>2. a[1] * m + a[2] = b[1] * m + b[2]
    BY <1>7
  <2>3. a[1] = b[1] /\ a[2] = b[2]
    <3> DEFINE k == a[1]
               i == a[2]
               l == b[1]
               j == b[2]
    <3>1. k \in Nat /\ i \in 1 .. m /\ l \in Nat /\ j \in 1 .. m /\ k * m + i = l * m + j
      BY <2>1, <2>2
    <3> HIDE DEF k, i, l, j
    <3>2. k = l /\ i = j
      BY <1>1, <3>1, SameBlock
    <3> QED
      BY <3>2 DEF k, i, l, j
  <2> QED
    BY <2>1, <2>3
<1>8. ASSUME NEW i \in K PROVE \E b \in B : f[b] = i
  <2>1. i \in 1 .. n * m /\ r[i] = v
    BY <1>3
  <2>2. PICK k \in 0 .. n - 1, j \in 1 .. m : i = k * m + j /\ r[i] = s[j]
    BY <1>4, <2>1
  <2>3. <<k, j>> \in B
    BY <2>1, <2>2 DEF m
  <2>4. f[<<k, j>>] = i
    BY <2>2, <2>3
  <2> QED
    BY <2>3, <2>4
<1>9. IsFiniteSet(B) /\ Cardinality(B) = n * Cardinality(I)
  <2>1. IsFiniteSet(0 .. n - 1) /\ Cardinality(0 .. n - 1) = n
    BY FS_Interval
  <2> HIDE DEF I
  <2> QED
    BY <1>2, <2>1, FS_Product
<1>10. Cardinality(K) = Cardinality(B)
  <2> HIDE DEF f, B, K
  <2> QED
    BY <1>6, <1>7, <1>8, <1>9, SameSize
<1> QED
  BY <1>2, <1>5, <1>9, <1>10 DEF Occurs, m

(* A list of n times the same.                                             *)
LEMMA RepeatOne ==
  ASSUME NEW V, NEW x \in V, NEW n \in Nat, NEW v
  PROVE  /\ Repeat(<<x>>, n) \in Seq(V) /\ Len(Repeat(<<x>>, n)) = n
         /\ Occurs(v, Repeat(<<x>>, n)) = n * One(x = v)
<1>1. <<x>> \in Seq(V) /\ <<x>> # <<>> /\ Len(<<x>>) = 1
  OBVIOUS
<1>2. /\ Repeat(<<x>>, n) \in Seq(V) /\ Len(Repeat(<<x>>, n)) = n * Len(<<x>>)
      /\ Occurs(v, Repeat(<<x>>, n)) = n * Occurs(v, <<x>>)
  BY <1>1, OccursRepeat
<1> QED
  BY <1>1, <1>2, OccursOne

(* Suspended, for any set of drops, counts and slots.                      *)
Above(S, D, R, L) ==
    /\ \A d \in D : d.parent \in S \cup {Null}
    /\ \A o \in S : R[o] + 1 \in DOMAIN L[o] => L[o][R[o] + 1] \in S \cup {Null}
Least(V, D, R, L) == {o \in V : \A S \in SUBSET V : Above(S, D, R, L) => o \in S}

(* This is how it is defined.                                              *)
LEMMA SuspendedIs == Suspended = Least(Live, Drops, rc, slots)
  BY DEF Suspended, Upward, Link, Above, Least

(* The same parents, and objects that lead to the same ones.               *)
LEMMA LeastSame ==
  ASSUME NEW V, NEW D, NEW R, NEW L, NEW W, NEW E, NEW Q, NEW M,
         Above(Least(V, D, R, L), D, R, L),
         W \subseteq V, Least(V, D, R, L) \subseteq W,
         \A e \in E : e.parent = Null \/ \E d \in D : d.parent = e.parent,
         \A d \in D : d.parent = Null \/ \E e \in E : e.parent = d.parent,
         \A x \in Least(V, D, R, L) : Q[x] = R[x] /\ M[x] = L[x]
  PROVE  Least(W, E, Q, M) = Least(V, D, R, L)
<1> DEFINE S == Least(V, D, R, L)
<1>1. S \in SUBSET W /\ Above(S, D, R, L)
  OBVIOUS
<1>2. \A T \in SUBSET V : Above(T, D, R, L) => S \subseteq T
  BY DEF Least
<1> HIDE DEF S
<1>3. Above(S, E, Q, M)
  BY <1>1 DEF Above, S
<1>4. ASSUME NEW T \in SUBSET W, Above(T, E, Q, M) PROVE S \subseteq T
  <2>1. \A d \in D : d.parent \in (T \cap S) \cup {Null}
    BY <1>1, <1>4 DEF Above
  <2>2. ASSUME NEW o \in T \cap S, R[o] + 1 \in DOMAIN L[o]
        PROVE  L[o][R[o] + 1] \in (T \cap S) \cup {Null}
    BY <1>1, <1>4, <2>2 DEF Above, S
  <2>3. Above(T \cap S, D, R, L)
    BY <2>1, <2>2 DEF Above
  <2> QED
    BY <1>2, <2>3
<1>5. Least(W, E, Q, M) = S
  BY <1>1, <1>3, <1>4 DEF Least
<1> QED
  BY <1>5 DEF S

(* A drop goes down from o, and remembers there where it came from.        *)
LEMMA LeastDown ==
  ASSUME NEW V, NEW D, NEW R, NEW L, NEW E, NEW Q, NEW M, NEW d \in D, NEW e, NEW o \in V,
         Above(Least(V, D, R, L), D, R, L),
         E = (D \ {d}) \cup {e}, e.parent = o, o # Null,
         Q[o] + 1 \in DOMAIN M[o], M[o][Q[o] + 1] = d.parent,
         o \notin Least(V, D, R, L),
         \A x \in Least(V, D, R, L) : Q[x] = R[x] /\ M[x] = L[x]
  PROVE  Least(V, E, Q, M) = Least(V, D, R, L) \cup {o}
<1> DEFINE S == Least(V, D, R, L)
<1>1. S \in SUBSET V /\ Above(S, D, R, L)
  BY DEF Least
<1>2. \A T \in SUBSET V : Above(T, D, R, L) => S \subseteq T
  BY DEF Least
<1> HIDE DEF S
<1>3. Above(S \cup {o}, E, Q, M)
  BY <1>1 DEF Above, S
<1>4. ASSUME NEW T \in SUBSET V, Above(T, E, Q, M) PROVE S \cup {o} \subseteq T
  <2>1. o \in T
    BY <1>4 DEF Above
  <2>2. ASSUME NEW c \in D PROVE c.parent \in (T \cap S) \cup {Null}
    BY <1>1, <1>4, <2>1 DEF Above
  <2>3. ASSUME NEW x \in T \cap S, R[x] + 1 \in DOMAIN L[x]
        PROVE  L[x][R[x] + 1] \in (T \cap S) \cup {Null}
    BY <1>1, <1>4, <2>3 DEF Above, S
  <2>4. Above(T \cap S, D, R, L)
    BY <2>2, <2>3 DEF Above
  <2> QED
    BY <1>2, <2>1, <2>4
<1>5. Least(V, E, Q, M) = S \cup {o}
  <2> DEFINE X == S \cup {o}
  <2>1. X \in SUBSET V /\ Above(X, E, Q, M)
    BY <1>1, <1>3
  <2>2. \A T \in SUBSET V : Above(T, E, Q, M) => X \subseteq T
    BY <1>4
  <2> HIDE DEF X
  <2>3. Least(V, E, Q, M) = X
    BY <2>1, <2>2 DEF Least
  <2> QED
    BY <2>3 DEF X
<1> QED
  BY <1>5 DEF S

(* A drop goes back to p, to which nothing else leads.                     *)
LEMMA LeastBack ==
  ASSUME NEW V, NEW D, NEW R, NEW L, NEW W, NEW E, NEW Q, NEW M, NEW d \in D, NEW e, NEW p,
         Above(Least(V, D, R, L), D, R, L),
         W \subseteq V, Least(V, D, R, L) \subseteq W, p \in Least(V, D, R, L), p # Null,
         E = (D \ {d}) \cup {e}, d.parent = p,
         R[p] + 1 \in DOMAIN L[p], e.parent = L[p][R[p] + 1], e.parent # p,
         \A c \in D \ {d} : c.parent # p,
         \A x \in Least(V, D, R, L) : x # p /\ R[x] + 1 \in DOMAIN L[x] => L[x][R[x] + 1] # p,
         \A x \in Least(V, D, R, L) : Q[x] = R[x] /\ M[x] = L[x]
  PROVE  Least(W, E, Q, M) = Least(V, D, R, L) \ {p}
<1> DEFINE S == Least(V, D, R, L)
<1>1. S \in SUBSET W /\ Above(S, D, R, L)
  OBVIOUS
<1>2. \A T \in SUBSET V : Above(T, D, R, L) => S \subseteq T
  BY DEF Least
<1> HIDE DEF S
<1>3. Above(S \ {p}, E, Q, M)
  <2>1. ASSUME NEW c \in E PROVE c.parent \in (S \ {p}) \cup {Null}
    BY <1>1 DEF Above, S
  <2>2. ASSUME NEW x \in S \ {p}, Q[x] + 1 \in DOMAIN M[x]
        PROVE  M[x][Q[x] + 1] \in (S \ {p}) \cup {Null}
    BY <1>1, <2>2 DEF Above, S
  <2> QED
    BY <2>1, <2>2 DEF Above
<1>4. ASSUME NEW T \in SUBSET W, Above(T, E, Q, M) PROVE S \ {p} \subseteq T
  <2> DEFINE U == (T \cup {p}) \cap S
  <2>1. ASSUME NEW c \in D PROVE c.parent \in U \cup {Null}
    BY <1>1, <1>4 DEF Above, S
  <2>2. ASSUME NEW x \in U, R[x] + 1 \in DOMAIN L[x]
        PROVE  L[x][R[x] + 1] \in U \cup {Null}
    <3>1. CASE x = p
      BY <3>1, <1>1, <1>4 DEF Above, S
    <3>2. CASE x # p
      BY <3>2, <1>1, <1>4, <2>2 DEF Above, S
    <3> QED
      BY <3>1, <3>2
  <2>3. Above(U, D, R, L)
    BY <2>1, <2>2 DEF Above
  <2>4. U \in SUBSET V
    BY <1>1
  <2> QED
    BY <1>2, <2>3, <2>4
<1>5. Least(W, E, Q, M) = S \ {p}
  <2> DEFINE X == S \ {p}
  <2>1. X \in SUBSET W /\ Above(X, E, Q, M)
    BY <1>1, <1>3
  <2>2. \A T \in SUBSET W : Above(T, E, Q, M) => X \subseteq T
    BY <1>4
  <2> HIDE DEF X
  <2>3. Least(W, E, Q, M) = X
    BY <2>1, <2>2 DEF Least
  <2> QED
    BY <2>3 DEF X
<1> QED
  BY <1>5 DEF S

(* What a slot may hold, and what a call may have to do.                   *)
Referents == Objects \cup {Null}
DecrefSteps == {decref_op(o) : o \in Objects \cup Static \cup {Null}}
DropSteps ==
    {drop_op(at, o, p, i) : at \in {"new", "children", "back"}, o \in Objects, p \in Referents,
                            i \in 0 .. MaxSlots}
CallSteps == DecrefSteps \cup DropSteps

(* The drops of a list of steps, no two of which are of one object.        *)
DropsIn(t) == {t[i] : i \in {k \in DOMAIN t : t[k].op = "drop"}}
Alone(t) == \A i, j \in DOMAIN t :
               i # j /\ t[i].op = "drop" /\ t[j].op = "drop" => t[i].obj # t[j].obj
ListInv == todo \in Seq(CallSteps) /\ Alone(todo)

(* The fields of a step.                                                   *)
LEMMA StepIs ==
  /\ \A s \in DecrefSteps : /\ s.op = "decref" /\ s.obj \in Objects \cup Static \cup {Null}
                            /\ s = decref_op(s.obj)
  /\ \A s \in DropSteps : /\ s.op = "drop" /\ s.at \in {"new", "children", "back"}
                          /\ s.obj \in Objects /\ s.parent \in Referents
                          /\ s.index \in 0 .. MaxSlots
                          /\ s = drop_op(s.at, s.obj, s.parent, s.index)
  /\ \A s \in CallSteps : /\ s.op = "decref" <=> s \in DecrefSteps
                          /\ s.op = "drop" <=> s \in DropSteps
  BY DEF DecrefSteps, DropSteps, CallSteps, decref_op, drop_op

(* The fields of a step that is made.                                      *)
LEMMA MadeSteps ==
  /\ \A o : decref_op(o).op = "decref" /\ decref_op(o).obj = o
  /\ \A at, o, p, i : /\ drop_op(at, o, p, i).op = "drop" /\ drop_op(at, o, p, i).at = at
                      /\ drop_op(at, o, p, i).obj = o /\ drop_op(at, o, p, i).parent = p
                      /\ drop_op(at, o, p, i).index = i
  BY DEF decref_op, drop_op

(* Drops of two lists, one behind the other.                               *)
LEMMA DropsConcat ==
  ASSUME NEW t \in Seq(CallSteps), NEW u \in Seq(CallSteps)
  PROVE  /\ t \o u \in Seq(CallSteps)
         /\ DropsIn(t \o u) = DropsIn(t) \cup DropsIn(u)
         /\ Alone(t \o u) <=> /\ Alone(t) /\ Alone(u)
                              /\ \A d \in DropsIn(t), e \in DropsIn(u) : d.obj # e.obj
<1> DEFINE n == Len(t)
           m == Len(u)
           w == t \o u
<1>1. /\ w \in Seq(CallSteps) /\ DOMAIN w = 1 .. n + m /\ n \in Nat /\ m \in Nat
      /\ DOMAIN t = 1 .. n /\ DOMAIN u = 1 .. m
      /\ \A i \in 1 .. n + m : w[i] = IF i <= n THEN t[i] ELSE u[i - n]
  BY ConcatProperties, LenProperties
<1> HIDE DEF n, m, w
<1>2. /\ \A i \in 1 .. n : i \in 1 .. n + m /\ w[i] = t[i]
      /\ \A i \in 1 .. m : i + n \in 1 .. n + m /\ i + n \notin 1 .. n /\ w[i + n] = u[i]
  <2>1. ASSUME NEW i \in 1 .. m
        PROVE  i + n \in 1 .. n + m /\ i + n \notin 1 .. n /\ w[i + n] = u[i]
    <3>1. i + n \in 1 .. n + m /\ ~(i + n <= n) /\ (i + n) - n = i
      BY <1>1
    <3> QED
      BY <1>1, <3>1
  <2> QED
    BY <1>1, <2>1
<1>3. \A k \in 1 .. n + m : \/ k \in 1 .. n
                            \/ \E i \in 1 .. m : k = i + n
  <2>1. ASSUME NEW k \in 1 .. n + m, k \notin 1 .. n PROVE k - n \in 1 .. m /\ k = (k - n) + n
    BY <1>1, <2>1
  <2> QED
    BY <2>1
<1>4. DropsIn(w) = DropsIn(t) \cup DropsIn(u)
  <2>1. ASSUME NEW d \in DropsIn(t) PROVE d \in DropsIn(w)
    BY <1>1, <1>2 DEF DropsIn
  <2>2. ASSUME NEW d \in DropsIn(u) PROVE d \in DropsIn(w)
    <3>1. PICK i \in 1 .. m : d = u[i] /\ u[i].op = "drop"
      BY <1>1 DEF DropsIn
    <3>2. i + n \in DOMAIN w /\ w[i + n] = d
      BY <1>1, <1>2, <3>1
    <3> QED
      BY <3>1, <3>2 DEF DropsIn
  <2>3. ASSUME NEW d \in DropsIn(w) PROVE d \in DropsIn(t) \cup DropsIn(u)
    <3>1. PICK k \in 1 .. n + m : d = w[k] /\ w[k].op = "drop"
      BY <1>1 DEF DropsIn
    <3>2. CASE k \in 1 .. n
      BY <1>1, <1>2, <3>1, <3>2 DEF DropsIn
    <3>3. ASSUME NEW i \in 1 .. m, k = i + n PROVE d \in DropsIn(u)
      BY <1>1, <1>2, <3>1, <3>3 DEF DropsIn
    <3> QED
      BY <1>3, <3>2, <3>3
  <2> QED
    BY <2>1, <2>2, <2>3
<1>5. ASSUME Alone(w)
      PROVE  Alone(t) /\ Alone(u) /\ \A d \in DropsIn(t), e \in DropsIn(u) : d.obj # e.obj
  <2>1. Alone(t)
    BY <1>1, <1>2, <1>5 DEF Alone
  <2>2. Alone(u)
    <3>1. SUFFICES ASSUME NEW i \in 1 .. m, NEW j \in 1 .. m, i # j, u[i].op = "drop",
                          u[j].op = "drop"
                   PROVE  u[i].obj # u[j].obj
      BY <1>1 DEF Alone
    <3>2. i + n # j + n /\ i + n \in DOMAIN w /\ j + n \in DOMAIN w
      BY <1>1, <1>2, <3>1
    <3>3. w[i + n] = u[i] /\ w[j + n] = u[j]
      BY <1>2
    <3> QED
      BY <1>5, <3>1, <3>2, <3>3 DEF Alone
  <2>3. ASSUME NEW d \in DropsIn(t), NEW e \in DropsIn(u) PROVE d.obj # e.obj
    <3>1. PICK i \in 1 .. n : d = t[i] /\ t[i].op = "drop"
      BY <1>1 DEF DropsIn
    <3>2. PICK j \in 1 .. m : e = u[j] /\ u[j].op = "drop"
      BY <1>1 DEF DropsIn
    <3>3. i \in DOMAIN w /\ j + n \in DOMAIN w /\ i # j + n /\ w[i] = d /\ w[j + n] = e
      BY <1>1, <1>2, <3>1, <3>2
    <3> QED
      BY <1>5, <3>1, <3>2, <3>3 DEF Alone
  <2> QED
    BY <2>1, <2>2, <2>3
<1>6. ASSUME Alone(t), Alone(u), \A d \in DropsIn(t), e \in DropsIn(u) : d.obj # e.obj
      PROVE  Alone(w)
  <2>1. SUFFICES ASSUME NEW k \in 1 .. n + m, NEW l \in 1 .. n + m, k # l,
                        w[k].op = "drop", w[l].op = "drop"
                 PROVE  w[k].obj # w[l].obj
    BY <1>1 DEF Alone
  <2>2. \A i \in 1 .. n : t[i].op = "drop" => t[i] \in DropsIn(t)
    BY <1>1 DEF DropsIn
  <2>3. \A i \in 1 .. m : u[i].op = "drop" => u[i] \in DropsIn(u)
    BY <1>1 DEF DropsIn
  <2>4. CASE k \in 1 .. n /\ l \in 1 .. n
    BY <1>1, <1>2, <1>6, <2>1, <2>4 DEF Alone
  <2>5. ASSUME NEW i \in 1 .. m, l = i + n, k \in 1 .. n PROVE w[k].obj # w[l].obj
    BY <1>2, <1>6, <2>1, <2>2, <2>3, <2>5
  <2>6. ASSUME NEW i \in 1 .. m, k = i + n, l \in 1 .. n PROVE w[k].obj # w[l].obj
    BY <1>2, <1>6, <2>1, <2>2, <2>3, <2>6
  <2>7. ASSUME NEW i \in 1 .. m, NEW j \in 1 .. m, k = i + n, l = j + n
        PROVE  w[k].obj # w[l].obj
    <3>1. i # j /\ w[k] = u[i] /\ w[l] = u[j]
      BY <1>2, <2>1, <2>7
    <3>2. i \in DOMAIN u /\ j \in DOMAIN u /\ u[i].op = "drop" /\ u[j].op = "drop"
      BY <1>1, <2>1, <3>1
    <3> QED
      BY <1>6, <3>1, <3>2 DEF Alone
  <2> QED
    BY <1>3, <2>4, <2>5, <2>6, <2>7
<1> QED
  BY <1>1, <1>4, <1>5, <1>6 DEF w

(* Drops of a list of one, of none, and of references given up.            *)
LEMMA DropsOne ==
  /\ \A s \in DropSteps : <<s>> \in Seq(CallSteps) /\ DropsIn(<<s>>) = {s} /\ Alone(<<s>>)
  /\ \A s \in DecrefSteps : <<s>> \in Seq(CallSteps) /\ DropsIn(<<s>>) = {} /\ Alone(<<s>>)
  /\ <<>> \in Seq(CallSteps) /\ DropsIn(<<>>) = {} /\ Alone(<<>>)
  /\ \A t \in Seq(DecrefSteps) : t \in Seq(CallSteps) /\ DropsIn(t) = {} /\ Alone(t)
<1>1. ASSUME NEW s \in DropSteps
      PROVE  <<s>> \in Seq(CallSteps) /\ DropsIn(<<s>>) = {s} /\ Alone(<<s>>)
  BY StepIs DEF CallSteps, DropsIn, Alone
<1>2. ASSUME NEW s \in DecrefSteps
      PROVE  <<s>> \in Seq(CallSteps) /\ DropsIn(<<s>>) = {} /\ Alone(<<s>>)
  BY StepIs DEF CallSteps, DropsIn, Alone
<1>3. <<>> \in Seq(CallSteps) /\ DropsIn(<<>>) = {} /\ Alone(<<>>)
  BY DEF DropsIn, Alone
<1>4. ASSUME NEW t \in Seq(DecrefSteps)
      PROVE  t \in Seq(CallSteps) /\ DropsIn(t) = {} /\ Alone(t)
  <2>1. \A i \in DOMAIN t : t[i] \in DecrefSteps
    OBVIOUS
  <2>2. t \in Seq(CallSteps)
    BY DEF CallSteps
  <2> QED
    BY <2>1, <2>2, StepIs DEF DropsIn, Alone
<1> QED
  BY <1>1, <1>2, <1>3, <1>4

(* The list without its first step.                                        *)
LEMMA ListTail ==
  ASSUME ListInv, todo # <<>>
  PROVE  /\ Now \in CallSteps /\ Tail(todo) \in Seq(CallSteps) /\ Alone(Tail(todo))
         /\ Drops = DropsIn(todo)
         /\ DropsIn(Tail(todo)) = IF Now.op = "drop" THEN Drops \ {Now} ELSE Drops
         /\ Now.op = "drop" => Now \in Drops /\ \A d \in Drops \ {Now} : d.obj # Now.obj
         /\ \A o : /\ Occurs(decref_op(o), Tail(todo)) \in Nat
                   /\ Occurs(decref_op(o), todo)
                        = One(Now = decref_op(o)) + Occurs(decref_op(o), Tail(todo))
<1> DEFINE h == Head(todo)
           t == Tail(todo)
<1>1. h \in CallSteps /\ t \in Seq(CallSteps) /\ todo = <<h>> \o t /\ Drops = DropsIn(todo)
  BY DEF ListInv, Drops, DropsIn
<1>2. \A o : /\ Occurs(decref_op(o), t) \in Nat
             /\ Occurs(decref_op(o), todo) = One(h = decref_op(o)) + Occurs(decref_op(o), t)
  <2> SUFFICES ASSUME NEW o
               PROVE  /\ Occurs(decref_op(o), t) \in Nat
                      /\ Occurs(decref_op(o), todo)
                           = One(h = decref_op(o)) + Occurs(decref_op(o), t)
    OBVIOUS
  <2>1. todo \in Seq(CallSteps)
    BY DEF ListInv
  <2>2. Occurs(decref_op(o), todo)
          = One(Head(todo) = decref_op(o)) + Occurs(decref_op(o), Tail(todo))
    BY <2>1, OccursTail
  <2>3. Occurs(decref_op(o), t) \in Nat
    <3> HIDE DEF t
    <3> QED
      BY <1>1, OccursIsNat
  <2> QED
    BY <2>2, <2>3
<1> HIDE DEF h, t
<1>3. Alone(<<h>> \o t)
  BY <1>1 DEF ListInv
<1>4. <<h>> \in Seq(CallSteps)
  BY <1>1
<1>5. /\ Drops = DropsIn(<<h>>) \cup DropsIn(t)
      /\ Alone(t) /\ \A d \in DropsIn(<<h>>), e \in DropsIn(t) : d.obj # e.obj
  BY <1>1, <1>3, <1>4, DropsConcat
<1>6. CASE h.op = "drop"
  <2>1. DropsIn(<<h>>) = {h}
    BY <1>1, <1>6, StepIs, DropsOne
  <2> QED
    BY <1>1, <1>2, <1>5, <1>6, <2>1 DEF h, t, Now
<1>7. CASE h.op # "drop"
  <2>1. DropsIn(<<h>>) = {}
    BY <1>1, <1>7, StepIs, DropsOne DEF CallSteps
  <2> QED
    BY <1>1, <1>2, <1>5, <1>7, <2>1 DEF h, t, Now
<1> QED
  BY <1>6, <1>7

(* A step is done, and nothing put in its place.                           *)
LEMMA ListNext ==
  ASSUME ListInv, todo # <<>>, todo' = Tail(todo)
  PROVE  /\ ListInv'
         /\ Drops' = IF Now.op = "drop" THEN Drops \ {Now} ELSE Drops
         /\ \A o : /\ Occurs(decref_op(o), todo') \in Nat
                   /\ Occurs(decref_op(o), todo)
                        = One(Now = decref_op(o)) + Occurs(decref_op(o), todo')
<1>1. Drops' = DropsIn(todo')
  BY DEF Drops, DropsIn
<1> QED
  BY <1>1, ListTail DEF ListInv

(* In place of a step, references to give up and a drop.                   *)
LEMMA ListReplace ==
  ASSUME ListInv, todo # <<>>, NEW pre \in Seq(DecrefSteps), NEW d \in DropSteps,
         todo' = pre \o <<d>> \o Tail(todo),
         \A e \in Drops : e.obj = d.obj => e = Now
  PROVE  /\ ListInv'
         /\ Drops' = (IF Now.op = "drop" THEN Drops \ {Now} ELSE Drops) \cup {d}
         /\ \A o : /\ Occurs(decref_op(o), pre) \in Nat /\ Occurs(decref_op(o), todo') \in Nat
                   /\ Occurs(decref_op(o), todo) + Occurs(decref_op(o), pre)
                        = One(Now = decref_op(o)) + Occurs(decref_op(o), todo')
<1> DEFINE t == Tail(todo)
           w == pre \o <<d>>
<1>1. /\ t \in Seq(CallSteps) /\ Alone(t)
      /\ DropsIn(t) = IF Now.op = "drop" THEN Drops \ {Now} ELSE Drops
      /\ \A o : /\ Occurs(decref_op(o), t) \in Nat
                /\ Occurs(decref_op(o), todo) = One(Now = decref_op(o)) + Occurs(decref_op(o), t)
  BY ListTail
<1>2. /\ <<d>> \in Seq(CallSteps) /\ DropsIn(<<d>>) = {d} /\ Alone(<<d>>)
      /\ pre \in Seq(CallSteps) /\ DropsIn(pre) = {} /\ Alone(pre)
  BY DropsOne
<1>3. w \in Seq(CallSteps) /\ DropsIn(w) = {d} /\ Alone(w)
  BY <1>2, DropsConcat
<1>4. \A o : /\ Occurs(decref_op(o), pre) \in Nat
             /\ Occurs(decref_op(o), w) = Occurs(decref_op(o), pre)
  <2> SUFFICES ASSUME NEW o PROVE  /\ Occurs(decref_op(o), pre) \in Nat
                                   /\ Occurs(decref_op(o), w) = Occurs(decref_op(o), pre)
    OBVIOUS
  <2>1. Occurs(decref_op(o), w) = Occurs(decref_op(o), pre) + Occurs(decref_op(o), <<d>>)
    BY <1>2, OccursConcat
  <2>2. Occurs(decref_op(o), <<d>>) = 0
    <3>1. d # decref_op(o)
      BY StepIs, MadeSteps
    <3> QED
      BY <3>1, OccursOne DEF One
  <2>3. Occurs(decref_op(o), pre) \in Nat
    BY <1>2, OccursIsNat
  <2> QED
    BY <2>1, <2>2, <2>3
<1>5. todo' = w \o t
  OBVIOUS
<1> HIDE DEF t, w
<1>6. /\ todo' \in Seq(CallSteps) /\ DropsIn(todo') = {d} \cup DropsIn(t)
      /\ Alone(todo') <=> \A e \in DropsIn(t) : d.obj # e.obj
  <2>1. /\ w \o t \in Seq(CallSteps) /\ DropsIn(w \o t) = DropsIn(w) \cup DropsIn(t)
        /\ Alone(w \o t) <=> /\ Alone(w) /\ Alone(t)
                             /\ \A c \in DropsIn(w), e \in DropsIn(t) : c.obj # e.obj
    BY <1>1, <1>3, DropsConcat
  <2> QED
    BY <1>1, <1>3, <1>5, <2>1
<1>7. \A e \in DropsIn(t) : d.obj # e.obj
  <2>1. CASE Now.op = "drop"
    BY <2>1, <1>1
  <2>2. CASE Now.op # "drop"
    <3>1. \A e \in Drops : e.op = "drop"
      BY DEF Drops
    <3> QED
      BY <2>2, <3>1, <1>1
  <2> QED
    BY <2>1, <2>2
<1>8. Drops' = DropsIn(todo')
  BY DEF Drops, DropsIn
<1>9. \A o : /\ Occurs(decref_op(o), todo') \in Nat
             /\ Occurs(decref_op(o), todo') = Occurs(decref_op(o), pre) + Occurs(decref_op(o), t)
  <2> SUFFICES ASSUME NEW o
               PROVE  /\ Occurs(decref_op(o), todo') \in Nat
                      /\ Occurs(decref_op(o), todo')
                             = Occurs(decref_op(o), pre) + Occurs(decref_op(o), t)
    OBVIOUS
  <2>1. Occurs(decref_op(o), w \o t) = Occurs(decref_op(o), w) + Occurs(decref_op(o), t)
    BY <1>1, <1>3, OccursConcat
  <2>2. Occurs(decref_op(o), w \o t) = Occurs(decref_op(o), todo')
    BY <1>5
  <2>3. /\ Occurs(decref_op(o), t) \in Nat
        /\ Occurs(decref_op(o), pre) \in Nat /\ Occurs(decref_op(o), w) = Occurs(decref_op(o), pre)
    BY <1>1, <1>4
  <2> QED
    BY <2>1, <2>2, <2>3
<1> QED
  <2>1. Drops' = (IF Now.op = "drop" THEN Drops \ {Now} ELSE Drops) \cup {d} /\ ListInv'
    BY <1>1, <1>6, <1>7, <1>8 DEF ListInv
  <2>2. ASSUME NEW o
        PROVE  /\ Occurs(decref_op(o), pre) \in Nat /\ Occurs(decref_op(o), todo') \in Nat
               /\ Occurs(decref_op(o), todo) + Occurs(decref_op(o), pre)
                    = One(Now = decref_op(o)) + Occurs(decref_op(o), todo')
    <3>1. One(Now = decref_op(o)) \in Nat
      BY DEF One
    <3>2. /\ Occurs(decref_op(o), t) \in Nat /\ Occurs(decref_op(o), pre) \in Nat
          /\ Occurs(decref_op(o), todo) = One(Now = decref_op(o)) + Occurs(decref_op(o), t)
      BY <1>1, <1>4
    <3>3. /\ Occurs(decref_op(o), todo') \in Nat
          /\ Occurs(decref_op(o), todo') = Occurs(decref_op(o), pre) + Occurs(decref_op(o), t)
      BY <1>9
    <3> QED
      BY <3>1, <3>2, <3>3
  <2> QED
    BY <2>1, <2>2

(* In place of a step, a drop.                                             *)
LEMMA ListGoesOn ==
  ASSUME ListInv, todo # <<>>, NEW d \in DropSteps, todo' = <<d>> \o Tail(todo),
         \A e \in Drops : e.obj = d.obj => e = Now
  PROVE  /\ ListInv'
         /\ Drops' = (IF Now.op = "drop" THEN Drops \ {Now} ELSE Drops) \cup {d}
         /\ \A o : /\ Occurs(decref_op(o), todo') \in Nat
                   /\ Occurs(decref_op(o), todo)
                        = One(Now = decref_op(o)) + Occurs(decref_op(o), todo')
<1> DEFINE pre == <<>>
<1>1. pre \in Seq(DecrefSteps) /\ pre \o <<d>> = <<d>> /\ \A o : Occurs(decref_op(o), pre) = 0
  <2>1. <<d>> \in Seq(DropSteps)
    OBVIOUS
  <2> QED
    BY <2>1, ConcatEmptySeq, OccursOne
<1>2. todo' = pre \o <<d>> \o Tail(todo)
  BY <1>1
<1> HIDE DEF pre
<1>3. /\ ListInv'
      /\ Drops' = (IF Now.op = "drop" THEN Drops \ {Now} ELSE Drops) \cup {d}
      /\ \A o : /\ Occurs(decref_op(o), todo') \in Nat
                /\ Occurs(decref_op(o), todo) + Occurs(decref_op(o), pre)
                     = One(Now = decref_op(o)) + Occurs(decref_op(o), todo')
  BY <1>1, <1>2, ListReplace
<1>4. \A o : Occurs(decref_op(o), todo) \in Nat
  BY OccursIsNat DEF ListInv
<1> QED
  BY <1>1, <1>3, <1>4

(* The objects drops are at, or have suspended, and all others.            *)
Gone == Suspended \cup Current
Steady == Live \ Gone

(* A drop is at a live object, which has a suspended parent or none, and   *)
(* has passed its first children; a suspended object is at a child that is *)
(* not its last, and has the next parent in its slot.  No two drops and    *)
(* suspended objects have the same parent.                                 *)
WalkInv ==
  /\ \A d \in Drops :
        /\ d.obj \in Live \ Suspended /\ d.parent \in Suspended \cup {Null}
        /\ d.index <= Len(slots[d.obj])
        /\ d.at = "new" => d.index = 0
        /\ d.at = "back" => d.index = Len(slots[d.obj])
  /\ \A d, e \in Drops : d # e => d.parent # e.parent \/ d.parent = Null
  /\ \A x \in Suspended :
        /\ rc[x] \in Nat /\ rc[x] + 1 < Len(slots[x]) /\ Link(x) \in Suspended \cup {Null}
        /\ \A d \in Drops : Link(x) # d.parent \/ Link(x) = Null
        /\ \A y \in Suspended : x # y => Link(x) # Link(y) \/ Link(x) = Null

(* The slots of an object.                                                 *)
LEMMA SlotsAre ==
  ASSUME HeapTypeOK, NEW o \in Objects \cup Static
  PROVE  /\ slots[o] \in Seq(Referents) /\ DOMAIN slots[o] = 1 .. Len(slots[o])
         /\ Len(slots[o]) \in Nat /\ Len(slots[o]) <= MaxSlots
         /\ \A i \in 1 .. Len(slots[o]) : slots[o][i] \in Referents
<1> DEFINE s == slots[o]
<1>1. s \in Seq(Referents) /\ Len(s) <= MaxSlots
  BY DEF HeapTypeOK, Referents
<1> HIDE DEF s
<1>2. /\ DOMAIN s = 1 .. Len(s) /\ Len(s) \in Nat
      /\ \A i \in 1 .. Len(s) : s[i] \in Referents
  BY <1>1
<1> QED
  BY <1>1, <1>2 DEF s

(* Parents of what is suspended are suspended.                             *)
LEMMA SuspendedAbove ==
  ASSUME HeapTypeOK, WalkInv
  PROVE  /\ Suspended \subseteq Live /\ Live \subseteq Objects
         /\ Null \notin Live /\ Empty \notin Live
         /\ Above(Suspended, Drops, rc, slots)
         /\ Suspended = Least(Live, Drops, rc, slots)
         /\ \A x \in Suspended : rc[x] + 1 \in DOMAIN slots[x]
<1>1. Suspended \subseteq Live /\ Live \subseteq Objects /\ Null \notin Live /\ Empty \notin Live
  BY RefCountAssumption DEF Suspended, Live, RefCountAssumption
<1>2. \A x \in Suspended : rc[x] + 1 \in DOMAIN slots[x]
  BY <1>1, SlotsAre DEF WalkInv
<1>3. Above(Suspended, Drops, rc, slots)
  BY DEF WalkInv, Above, Link
<1> QED
  BY <1>1, <1>2, <1>3, SuspendedIs

(* Steps that leave the drops and what they have suspended alone.          *)
LEMMA WalkSame ==
  ASSUME HeapTypeOK, WalkInv, Live' = Live, Drops' = Drops,
         \A x \in Gone : rc'[x] = rc[x] /\ slots'[x] = slots[x]
  PROVE  WalkInv' /\ Suspended' = Suspended /\ Current' = Current
<1>1. Current' = Current
  BY DEF Current
<1>2. Suspended' = Least(Live, Drops, rc', slots')
  BY DEF Suspended, Upward, Link, Above, Least
<1>3. Suspended' = Suspended
  <2>1. \A x \in Least(Live, Drops, rc, slots) : rc'[x] = rc[x] /\ slots'[x] = slots[x]
    BY SuspendedIs DEF Gone
  <2>2. Above(Least(Live, Drops, rc, slots), Drops, rc, slots)
    BY SuspendedAbove
  <2>3. Least(Live, Drops, rc, slots) \subseteq Live
    BY DEF Least
  <2>4. Least(Live, Drops, rc', slots') = Least(Live, Drops, rc, slots)
    BY <2>1, <2>2, <2>3, LeastSame
  <2> QED
    BY <1>2, <2>4, SuspendedIs
<1>4. \A d \in Drops : d.obj \in Gone
  BY DEF Current, Gone
<1>5. \A x \in Suspended : x \in Gone /\ Link(x)' = Link(x)
  BY DEF Gone, Link
<1> QED
  BY <1>1, <1>3, <1>4, <1>5 DEF WalkInv, Gone

(* A drop goes on at its object.                                           *)
LEMMA WalkGoesOn ==
  ASSUME HeapTypeOK, WalkInv, Live' = Live, UNCHANGED slots,
         \A x \in Gone : rc'[x] = rc[x],
         NEW d \in Drops, NEW e, Drops' = (Drops \ {d}) \cup {e},
         e.obj = d.obj, e.parent = d.parent, e.index <= Len(slots[d.obj]),
         e.at # "new", e.at = "back" => e.index = Len(slots[d.obj])
  PROVE  WalkInv' /\ Suspended' = Suspended /\ Current' = Current
<1>1. Current' = Current
  BY DEF Current
<1>2. Suspended' = Least(Live, Drops', rc', slots')
  BY DEF Suspended, Upward, Link, Above, Least
<1>3. Suspended' = Suspended
  <2>1. \A x \in Least(Live, Drops, rc, slots) : rc'[x] = rc[x] /\ slots'[x] = slots[x]
    BY SuspendedIs DEF Gone
  <2>2. Above(Least(Live, Drops, rc, slots), Drops, rc, slots)
    BY SuspendedAbove
  <2>3. Least(Live, Drops, rc, slots) \subseteq Live
    BY DEF Least
  <2>4. \A c \in Drops' : c.parent = Null \/ \E b \in Drops : b.parent = c.parent
    OBVIOUS
  <2>5. \A b \in Drops : b.parent = Null \/ \E c \in Drops' : c.parent = b.parent
    OBVIOUS
  <2>6. Least(Live, Drops', rc', slots') = Least(Live, Drops, rc, slots)
    BY <2>1, <2>2, <2>3, <2>4, <2>5, LeastSame
  <2> QED
    BY <1>2, <2>6, SuspendedIs
<1>4. \A x \in Suspended : x \in Gone /\ Link(x)' = Link(x)
  BY DEF Gone, Link
<1>5. \A c \in Drops' : /\ c.obj \in Live \ Suspended /\ c.parent \in Suspended \cup {Null}
                        /\ c.index <= Len(slots[c.obj])
                        /\ c.at = "new" => c.index = 0
                        /\ c.at = "back" => c.index = Len(slots[c.obj])
  BY DEF WalkInv
<1>6. \A b, c \in Drops' : b # c => b.parent # c.parent \/ b.parent = Null
  BY DEF WalkInv
<1>7. \A x \in Suspended, c \in Drops' : Link(x) # c.parent \/ Link(x) = Null
  BY DEF WalkInv
<1>8. \A x \in Suspended : rc'[x] = rc[x]
  BY DEF Gone
<1> QED
  BY <1>1, <1>3, <1>4, <1>5, <1>6, <1>7, <1>8 DEF WalkInv

(* A drop begins.                                                          *)
LEMMA WalkStarts ==
  ASSUME HeapTypeOK, WalkInv, UNCHANGED <<shape, rc, slots>>,
         NEW e, Drops' = Drops \cup {e},
         e.obj \in Steady, e.parent = Null, e.index = 0, e.at = "new"
  PROVE  WalkInv' /\ Suspended' = Suspended /\ Current' = Current \cup {e.obj}
<1>1. Current' = Current \cup {e.obj} /\ Live' = Live
  BY DEF Current, Live
<1>2. Suspended' = Least(Live, Drops', rc, slots)
  BY <1>1 DEF Suspended, Upward, Link, Above, Least
<1>3. Suspended' = Suspended
  <2>1. Above(Least(Live, Drops, rc, slots), Drops, rc, slots)
    BY SuspendedAbove
  <2>2. Least(Live, Drops, rc, slots) \subseteq Live
    BY DEF Least
  <2>3. \A c \in Drops' : c.parent = Null \/ \E b \in Drops : b.parent = c.parent
    OBVIOUS
  <2>4. \A b \in Drops : b.parent = Null \/ \E c \in Drops' : c.parent = b.parent
    OBVIOUS
  <2>5. Least(Live, Drops', rc, slots) = Least(Live, Drops, rc, slots)
    BY <2>1, <2>2, <2>3, <2>4, LeastSame
  <2> QED
    BY <1>2, <2>5, SuspendedIs
<1>4. \A x \in Suspended : Link(x)' = Link(x)
  BY DEF Link
<1>5. \A c \in Drops' : /\ c.obj \in Live \ Suspended /\ c.parent \in Suspended \cup {Null}
                        /\ c.index <= Len(slots[c.obj])
                        /\ c.at = "new" => c.index = 0
                        /\ c.at = "back" => c.index = Len(slots[c.obj])
  <2>1. e.obj \in Live \ Suspended /\ Len(slots[e.obj]) \in Nat
    BY SlotsAre, SuspendedAbove DEF Steady, Gone
  <2> QED
    BY <2>1 DEF WalkInv
<1>6. \A b, c \in Drops' : b # c => b.parent # c.parent \/ b.parent = Null
  BY DEF WalkInv
<1>7. \A x \in Suspended, c \in Drops' : Link(x) # c.parent \/ Link(x) = Null
  BY DEF WalkInv
<1> QED
  BY <1>1, <1>3, <1>4, <1>5, <1>6, <1>7 DEF WalkInv

(* A drop leaves its object, which is freed, for nothing or for a child    *)
(* that is dead.                                                           *)
LEMMA WalkLeaves ==
  ASSUME HeapTypeOK, WalkInv,
         NEW d \in Drops, \A c \in Drops \ {d} : c.obj # d.obj,
         Live' = Live \ {d.obj},
         \A x \in Live \ {d.obj} : rc'[x] = rc[x] /\ slots'[x] = slots[x],
         \/ Drops' = Drops \ {d} /\ d.parent = Null
         \/ \E e : /\ Drops' = (Drops \ {d}) \cup {e}
                   /\ e.obj \in Steady /\ e.parent = d.parent /\ e.index = 0 /\ e.at = "new"
  PROVE  /\ WalkInv' /\ Suspended' = Suspended
         /\ Drops' = Drops \ {d} => Current' = Current \ {d.obj}
         /\ \A e : Drops' = (Drops \ {d}) \cup {e} => Current' = (Current \ {d.obj}) \cup {e.obj}
<1>1. /\ Drops' = Drops \ {d} => Current' = Current \ {d.obj}
      /\ \A e : Drops' = (Drops \ {d}) \cup {e} => Current' = (Current \ {d.obj}) \cup {e.obj}
  BY DEF Current
<1>2. Suspended' = Least(Live', Drops', rc', slots')
  BY DEF Suspended, Upward, Link, Above, Least
<1>3. d.obj \in Live \ Suspended /\ Suspended \subseteq Live'
  BY SuspendedAbove DEF WalkInv
<1>4. \A c \in Drops' : c.parent = Null \/ \E b \in Drops : b.parent = c.parent
  OBVIOUS
<1>5. \A b \in Drops : b.parent = Null \/ \E c \in Drops' : c.parent = b.parent
  OBVIOUS
<1>6. Suspended' = Suspended
  <2>1. \A x \in Least(Live, Drops, rc, slots) : rc'[x] = rc[x] /\ slots'[x] = slots[x]
    BY <1>3, SuspendedIs
  <2>2. Above(Least(Live, Drops, rc, slots), Drops, rc, slots)
    BY SuspendedAbove
  <2>3. Least(Live, Drops, rc, slots) \subseteq Live' /\ Live' \subseteq Live
    BY <1>3, SuspendedIs
  <2>4. Least(Live', Drops', rc', slots') = Least(Live, Drops, rc, slots)
    BY <1>4, <1>5, <2>1, <2>2, <2>3, LeastSame
  <2> QED
    BY <1>2, <2>4, SuspendedIs
<1>7. \A x \in Suspended : Link(x)' = Link(x) /\ rc'[x] = rc[x] /\ slots'[x] = slots[x]
  BY <1>3 DEF Link
<1>8. \A c \in Drops' : /\ c.obj \in Live' \ Suspended /\ c.parent \in Suspended \cup {Null}
                        /\ c.index <= Len(slots'[c.obj])
                        /\ c.at = "new" => c.index = 0
                        /\ c.at = "back" => c.index = Len(slots'[c.obj])
  <2>1. ASSUME NEW c \in Drops \ {d}
        PROVE  /\ c.obj \in Live' \ Suspended /\ c.parent \in Suspended \cup {Null}
               /\ c.index <= Len(slots'[c.obj])
               /\ c.at = "new" => c.index = 0
               /\ c.at = "back" => c.index = Len(slots'[c.obj])
    BY DEF WalkInv
  <2>2. ASSUME NEW c \in Drops', c.obj \in Steady, c.index = 0, c.at = "new", c.parent = d.parent
        PROVE  /\ c.obj \in Live' \ Suspended /\ c.parent \in Suspended \cup {Null}
               /\ c.index <= Len(slots'[c.obj])
    <3>1. c.obj # d.obj /\ c.obj \in Live \ Suspended
      BY <2>2 DEF Steady, Gone, Current
    <3>2. Len(slots[c.obj]) \in Nat
      BY <3>1, SlotsAre, SuspendedAbove
    <3> QED
      BY <2>2, <3>1, <3>2 DEF WalkInv
  <2> QED
    BY <2>1, <2>2
<1>9. \A b, c \in Drops' : b # c => b.parent # c.parent \/ b.parent = Null
  BY DEF WalkInv
<1>10. \A x \in Suspended, c \in Drops' : Link(x) # c.parent \/ Link(x) = Null
  BY DEF WalkInv
<1> QED
  BY <1>1, <1>6, <1>7, <1>8, <1>9, <1>10 DEF WalkInv

(* A drop goes down to a child that is dead; its object is suspended.      *)
LEMMA WalkDown ==
  ASSUME HeapTypeOK, WalkInv,
         NEW d \in Drops, \A c \in Drops \ {d} : c.obj # d.obj,
         NEW e, Drops' = (Drops \ {d}) \cup {e},
         e.obj \in Steady, e.parent = d.obj, e.index = 0, e.at = "new",
         Live' = Live, NEW i \in Nat, i + 1 < Len(slots[d.obj]),
         \A x \in Live \ {d.obj} : rc'[x] = rc[x] /\ slots'[x] = slots[x],
         rc'[d.obj] = i, slots'[d.obj] = [slots[d.obj] EXCEPT ![i + 1] = d.parent]
  PROVE  /\ WalkInv' /\ Suspended' = Suspended \cup {d.obj}
         /\ Current' = (Current \ {d.obj}) \cup {e.obj}
<1> DEFINE o == d.obj
<1>1. Current' = (Current \ {o}) \cup {e.obj}
  BY DEF Current
<1>2. Suspended' = Least(Live, Drops', rc', slots')
  BY DEF Suspended, Upward, Link, Above, Least
<1>3. /\ o \in Live \ Suspended /\ o \in Objects /\ o # Null
      /\ d.parent \in Suspended \cup {Null}
  BY SuspendedAbove DEF WalkInv
<1>4. /\ DOMAIN slots'[o] = 1 .. Len(slots[o]) /\ Len(slots'[o]) = Len(slots[o])
      /\ rc'[o] + 1 \in DOMAIN slots'[o] /\ slots'[o][rc'[o] + 1] = d.parent
  <2>1. /\ DOMAIN slots[o] = 1 .. Len(slots[o]) /\ Len(slots[o]) \in Nat
        /\ slots[o] \in Seq(Referents)
    BY <1>3, SlotsAre
  <2>2. i + 1 \in 1 .. Len(slots[o]) /\ d.parent \in Referents
    BY <1>3, <2>1, SuspendedAbove DEF Referents
  <2> QED
    BY <2>1, <2>2
<1> HIDE DEF o
<1>5. Suspended' = Suspended \cup {o}
  <2>1. \A x \in Least(Live, Drops, rc, slots) : rc'[x] = rc[x] /\ slots'[x] = slots[x]
    BY <1>3, SuspendedAbove DEF o
  <2>2. Above(Least(Live, Drops, rc, slots), Drops, rc, slots)
    BY SuspendedAbove
  <2>3. o \in Live /\ o \notin Least(Live, Drops, rc, slots) /\ e.parent = o
    BY <1>3, SuspendedIs DEF o
  <2>4. Least(Live, Drops', rc', slots') = Least(Live, Drops, rc, slots) \cup {o}
    BY <1>3, <1>4, <2>1, <2>2, <2>3, LeastDown
  <2> QED
    BY <1>2, <2>4, SuspendedIs
<1>6. /\ \A x \in Suspended : Link(x)' = Link(x) /\ rc'[x] = rc[x] /\ slots'[x] = slots[x]
      /\ Link(o)' = d.parent
  BY <1>3, <1>4, SuspendedAbove DEF Link, o
<1>7. \A c \in Drops' : /\ c.obj \in Live \ (Suspended \cup {o})
                        /\ c.parent \in Suspended \cup {o, Null}
                        /\ c.index <= Len(slots'[c.obj])
                        /\ c.at = "new" => c.index = 0
                        /\ c.at = "back" => c.index = Len(slots'[c.obj])
  <2>1. ASSUME NEW c \in Drops \ {d}
        PROVE  /\ c.obj \in Live \ (Suspended \cup {o})
               /\ c.parent \in Suspended \cup {o, Null}
               /\ c.index <= Len(slots'[c.obj])
               /\ c.at = "new" => c.index = 0
               /\ c.at = "back" => c.index = Len(slots'[c.obj])
    BY DEF WalkInv, o
  <2>2. /\ e.obj \in Live \ (Suspended \cup {o})
        /\ e.parent \in Suspended \cup {o, Null}
        /\ e.index <= Len(slots'[e.obj])
    <3>1. e.obj # o /\ e.obj \in Live \ Suspended
      BY DEF Steady, Gone, Current, o
    <3>2. Len(slots[e.obj]) \in Nat
      BY <3>1, SlotsAre, SuspendedAbove
    <3> QED
      BY <3>1, <3>2 DEF o
  <2> QED
    BY <2>1, <2>2
<1>8. \A b, c \in Drops' : b # c => b.parent # c.parent \/ b.parent = Null
  <2>1. \A c \in Drops : c.parent # o
    BY <1>3 DEF WalkInv
  <2> QED
    BY <2>1 DEF WalkInv, o
<1>9. ASSUME NEW x \in Suspended \cup {o}
      PROVE  /\ rc'[x] \in Nat /\ rc'[x] + 1 < Len(slots'[x])
             /\ Link(x)' \in Suspended \cup {o, Null}
             /\ \A c \in Drops' : Link(x)' # c.parent \/ Link(x)' = Null
             /\ \A y \in Suspended \cup {o} : x # y => Link(x)' # Link(y)' \/ Link(x)' = Null
  <2>1. CASE x = o
    <3>1. rc'[x] \in Nat /\ rc'[x] + 1 < Len(slots'[x]) /\ Link(x)' \in Suspended \cup {o, Null}
      BY <2>1, <1>3, <1>4, <1>6 DEF o
    <3>2. \A c \in Drops' : d.parent # c.parent \/ d.parent = Null
      BY <1>3 DEF WalkInv, o
    <3>3. \A y \in Suspended : d.parent # Link(y) \/ d.parent = Null
      BY DEF WalkInv
    <3> QED
      BY <2>1, <3>1, <3>2, <3>3, <1>6
  <2>2. CASE x \in Suspended
    <3>1. /\ rc'[x] \in Nat /\ rc'[x] + 1 < Len(slots'[x])
          /\ Link(x) \in Suspended \cup {Null} /\ Link(x)' = Link(x)
      BY <2>2, <1>6 DEF WalkInv
    <3>2. \A c \in Drops' : Link(x) # c.parent \/ Link(x) = Null
      BY <2>2, <1>3, <3>1 DEF WalkInv, o
    <3>3. \A y \in Suspended : x # y => Link(x) # Link(y) \/ Link(x) = Null
      BY <2>2 DEF WalkInv
    <3>4. Link(x) # d.parent \/ Link(x) = Null
      BY <2>2 DEF WalkInv
    <3> QED
      BY <3>1, <3>2, <3>3, <3>4, <1>6
  <2> QED
    BY <2>1, <2>2
<1> QED
  BY <1>1, <1>5, <1>7, <1>8, <1>9 DEF WalkInv, o

(* A drop goes back to the parent of its object, which is freed.           *)
LEMMA WalkBack ==
  ASSUME HeapTypeOK, WalkInv,
         NEW d \in Drops, \A c \in Drops \ {d} : c.obj # d.obj, d.parent # Null,
         NEW e, Drops' = (Drops \ {d}) \cup {e},
         e.obj = d.parent, e.parent = Link(d.parent), e.index = rc[d.parent] + 1,
         e.at = "children",
         Live' = Live \ {d.obj},
         \A x \in Live \ {d.obj} : rc'[x] = rc[x] /\ slots'[x] = slots[x]
  PROVE  /\ WalkInv' /\ Suspended' = Suspended \ {d.parent}
         /\ Current' = (Current \ {d.obj}) \cup {d.parent}
         /\ d.parent \in Suspended
<1> DEFINE p == d.parent
<1>1. Current' = (Current \ {d.obj}) \cup {p}
  BY DEF Current
<1>2. Suspended' = Least(Live', Drops', rc', slots')
  BY DEF Suspended, Upward, Link, Above, Least
<1>3. /\ d.obj \in Live \ Suspended /\ Suspended \subseteq Live' /\ p \in Suspended
      /\ p # Null /\ rc[p] + 1 \in DOMAIN slots[p] /\ Link(p) \in Suspended \cup {Null}
      /\ Link(p) # p
  BY SuspendedAbove DEF WalkInv
<1>4. \A x \in Suspended : Link(x)' = Link(x) /\ rc'[x] = rc[x] /\ slots'[x] = slots[x]
  BY <1>3 DEF Link
<1> HIDE DEF p
<1>5. (\A c \in Drops \ {d} : c.parent # p) /\ \A x \in Suspended : Link(x) # p
  BY <1>3 DEF WalkInv, p
<1>6. Suspended' = Suspended \ {p}
  <2>1. \A x \in Least(Live, Drops, rc, slots) : rc'[x] = rc[x] /\ slots'[x] = slots[x]
    BY <1>4, SuspendedIs
  <2>2. Above(Least(Live, Drops, rc, slots), Drops, rc, slots)
    BY SuspendedAbove
  <2>3. Least(Live, Drops, rc, slots) \subseteq Live' /\ Live' \subseteq Live
        /\ p \in Least(Live, Drops, rc, slots)
    BY <1>3, SuspendedIs
  <2>4. e.parent = slots[p][rc[p] + 1] /\ e.parent # p /\ d.parent = p
    BY <1>3 DEF Link, p
  <2>5. \A x \in Least(Live, Drops, rc, slots) :
           x # p /\ rc[x] + 1 \in DOMAIN slots[x] => slots[x][rc[x] + 1] # p
    BY <1>5, SuspendedIs DEF Link
  <2>6. Least(Live', Drops', rc', slots') = Least(Live, Drops, rc, slots) \ {p}
    BY <1>3, <1>5, <2>1, <2>2, <2>3, <2>4, <2>5, LeastBack
  <2> QED
    BY <1>2, <2>6, SuspendedIs
<1>7. \A c \in Drops' : /\ c.obj \in Live' \ (Suspended \ {p})
                        /\ c.parent \in (Suspended \ {p}) \cup {Null}
                        /\ c.index <= Len(slots'[c.obj])
                        /\ c.at = "new" => c.index = 0
                        /\ c.at = "back" => c.index = Len(slots'[c.obj])
  <2>1. ASSUME NEW c \in Drops \ {d}
        PROVE  /\ c.obj \in Live' \ (Suspended \ {p})
               /\ c.parent \in (Suspended \ {p}) \cup {Null}
               /\ c.index <= Len(slots'[c.obj])
               /\ c.at = "new" => c.index = 0
               /\ c.at = "back" => c.index = Len(slots'[c.obj])
    BY <1>5 DEF WalkInv
  <2>2. /\ e.obj \in Live' \ (Suspended \ {p})
        /\ e.parent \in (Suspended \ {p}) \cup {Null}
        /\ e.index <= Len(slots'[e.obj])
    <3>1. Len(slots[p]) \in Nat /\ rc[p] \in Nat /\ rc[p] + 1 < Len(slots[p])
      BY <1>3, SlotsAre, SuspendedAbove DEF WalkInv
    <3> QED
      BY <1>3, <1>4, <3>1 DEF p
  <2> QED
    BY <2>1, <2>2
<1>8. \A b, c \in Drops' : b # c => b.parent # c.parent \/ b.parent = Null
  <2>1. \A c \in Drops : e.parent # c.parent \/ e.parent = Null
    BY <1>3 DEF WalkInv, p
  <2> QED
    BY <2>1 DEF WalkInv
<1>9. \A x \in Suspended \ {p} :
         /\ Link(x) \in (Suspended \ {p}) \cup {Null}
         /\ \A c \in Drops' : Link(x) # c.parent \/ Link(x) = Null
  <2>1. \A x \in Suspended \ {p} : Link(x) # e.parent \/ Link(x) = Null
    BY <1>3 DEF WalkInv, p
  <2> QED
    BY <2>1, <1>5 DEF WalkInv
<1>10. ASSUME NEW x \in Suspended \ {p}
       PROVE  /\ rc'[x] \in Nat /\ rc'[x] + 1 < Len(slots'[x])
              /\ Link(x)' \in (Suspended \ {p}) \cup {Null}
              /\ \A c \in Drops' : Link(x)' # c.parent \/ Link(x)' = Null
              /\ \A y \in Suspended \ {p} : x # y => Link(x)' # Link(y)' \/ Link(x)' = Null
  <2>1. rc'[x] = rc[x] /\ slots'[x] = slots[x] /\ Link(x)' = Link(x)
    BY <1>4
  <2>2. rc[x] \in Nat /\ rc[x] + 1 < Len(slots[x])
    BY DEF WalkInv
  <2>3. \A y \in Suspended \ {p} : x # y => Link(x) # Link(y) \/ Link(x) = Null
    BY DEF WalkInv
  <2> QED
    BY <1>4, <1>9, <2>1, <2>2, <2>3
<1> HIDE DEF p
<1>11. WalkInv'
  BY <1>6, <1>7, <1>8, <1>10 DEF WalkInv
<1> QED
  BY <1>1, <1>3, <1>6, <1>11 DEF p

(* What a call does last, with references that are there: a blit whose     *)
(* source still lives has counted what it is going to copy, a source that  *)
(* is taken apart is referred to by the call alone.                        *)
LastInv ==
  \/ last.op = "nothing"
  \/ /\ last.op = "copy"
     /\ last.dst \in Objects \cup Static /\ last.src \in Objects \cup Static
     /\ last.doff \in Nat /\ last.soff \in Nat /\ last.len \in Nat /\ last.moved \in BOOLEAN
     /\ last.counted \in Seq(Referents) /\ Len(last.counted) = last.len
     /\ last.doff + last.len <= Len(slots[last.dst])
     /\ last.src \in Steady \cup Static =>
          /\ last.soff + last.len <= Len(slots[last.src])
          /\ \A i \in 1 .. last.len : last.counted[i] = slots[last.src][last.soff + i]
     /\ last.moved => last.src \in Objects /\ last.src # last.dst /\ rc[last.src] = 1
  \/ /\ last.op = "free"
     /\ last.src \in Objects /\ last.dst \in Objects \cup Static \cup {Null} /\ rc[last.src] = 1
  \/ /\ last.op = "fill"
     /\ last.src \in Objects \cup Static /\ last.value \in Referents
     /\ last.size \in 1 .. MaxSlots
     /\ last.doff \in Nat /\ last.soff \in Nat /\ last.len \in Nat
     /\ last.doff + last.len <= last.size
     /\ last.soff + last.len <= Len(slots[last.src])

(* The count is the number of references, and what drops are at or have    *)
(* suspended, and what was freed, is referred to by nothing.               *)
CountInv ==
  \A o \in Objects : References(o, Suspended) = IF o \in Steady THEN rc[o] ELSE 0
Positive == \A o \in Steady : rc[o] >= 1

StaticInv == shape[Empty] = "array" /\ rc[Empty] = -1 /\ slots[Empty] = <<>>

HeapInv ==
  /\ HeapTypeOK /\ ListInv /\ WalkInv /\ LastInv /\ CountInv /\ Positive /\ StaticInv
  /\ fault # "other"

(* The parts of a count are numbers.                                       *)
LEMMA OutstandingIsNat ==
  ASSUME LastInv, NEW o PROVE Outstanding(o) \in Nat
<1>1. \A b : One(b) \in Nat
  BY DEF One
<1>2. CASE last.op = "copy"
  <2>1. Occurs(o, last.counted) \in Nat
    <3>1. last.counted \in Seq(Referents)
      BY <1>2 DEF LastInv
    <3> QED
      BY <3>1, OccursIsNat
  <2> QED
    BY <1>1, <1>2, <2>1 DEF Outstanding
<1>3. CASE last.op # "copy"
  BY <1>1, <1>3 DEF Outstanding
<1> QED
  BY <1>2, <1>3

(* What an object holds.                                                   *)
LEMMA HeldIs ==
  ASSUME HeapTypeOK, NEW S, NEW v
  PROVE  /\ \A x, i : <<x, i>> \in Held(v, S) <=> x \in Live /\ i \in Holds(x, S) /\ slots[x][i] = v
         /\ \A p \in Held(v, S) : p = <<p[1], p[2]>>
         /\ IsFiniteSet(Held(v, S)) /\ Cardinality(Held(v, S)) \in Nat
<1>1. \A x \in Live : x \in Objects \cup Static
  BY DEF Live
<1>2. \A x \in Live : \A i \in Holds(x, S) : i \in 1 .. MaxSlots
  <2> SUFFICES ASSUME NEW x \in Live, NEW i \in Holds(x, S) PROVE i \in 1 .. MaxSlots
    OBVIOUS
  <2>1. i \in 1 .. Len(slots[x]) /\ Len(slots[x]) \in Nat /\ Len(slots[x]) <= MaxSlots
    BY <1>1, SlotsAre DEF Holds
  <2> QED
    BY <2>1, RefCountAssumption DEF RefCountAssumption
<1>3. IsFiniteSet(Held(v, S)) /\ Cardinality(Held(v, S)) \in Nat
  <2>1. IsFiniteSet(Live) /\ IsFiniteSet(1 .. MaxSlots)
    <3>1. IsFiniteSet(Objects) /\ Live \in SUBSET Objects /\ MaxSlots \in Int
      BY RefCountAssumption DEF RefCountAssumption, Live
    <3> QED
      BY <3>1, FS_Subset, FS_Interval
  <2>2. IsFiniteSet(Live \X (1 .. MaxSlots))
    BY <2>1, FS_Product
  <2>3. Held(v, S) \in SUBSET (Live \X (1 .. MaxSlots))
    BY DEF Held
  <2> QED
    BY <2>2, <2>3, FS_Subset, FS_CardinalityType
<1> QED
  BY <1>2, <1>3 DEF Held

(* The number of references is the sum of four.                            *)
LEMMA ReferencesAre ==
  ASSUME HeapTypeOK, ListInv, LastInv, NEW v \in Objects
  PROVE  /\ owned[v] \in Nat /\ Occurs(decref_op(v), todo) \in Nat /\ Outstanding(v) \in Nat
         /\ Cardinality(Held(v, Suspended)) \in Nat
         /\ References(v, Suspended) =
              owned[v] + Occurs(decref_op(v), todo) + Outstanding(v)
                  + Cardinality(Held(v, Suspended))
<1>1. owned[v] \in Nat
  <2>1. owned[v] \in 0 .. MaxOwned
    BY DEF HeapTypeOK
  <2> QED
    BY <2>1
<1>2. Occurs(decref_op(v), todo) \in Nat
  BY OccursIsNat DEF ListInv
<1> QED
  BY <1>1, <1>2, OutstandingIsNat, HeldIs DEF References

(* Whatever is referred to is neither freed nor being dropped.             *)
LEMMA ReferredIsSteady ==
  ASSUME HeapTypeOK, ListInv, LastInv, CountInv, NEW v \in Objects,
         \/ owned[v] > 0
         \/ Occurs(decref_op(v), todo) > 0
         \/ Outstanding(v) > 0
         \/ Held(v, Suspended) # {}
  PROVE  v \in Steady /\ rc[v] >= 1 /\ rc[v] = References(v, Suspended)
<1>1. Held(v, Suspended) # {} => Cardinality(Held(v, Suspended)) > 0
  BY HeldIs, FS_EmptySet
<1> QED
  BY <1>1, ReferencesAre DEF CountInv

(* The object of a reference that is given up next.                        *)
LEMMA DecrefSteady ==
  ASSUME HeapTypeOK, ListInv, LastInv, CountInv, todo # <<>>, Now.op = "decref", Now.obj \in Objects
  PROVE  Now.obj \in Steady /\ rc[Now.obj] >= 1
<1>1. Now = decref_op(Now.obj)
  BY ListTail, StepIs
<1>2. Occurs(decref_op(Now.obj), todo) > 0
  <2>1. /\ Occurs(decref_op(Now.obj), Tail(todo)) \in Nat
        /\ Occurs(decref_op(Now.obj), todo)
             = One(Now = decref_op(Now.obj)) + Occurs(decref_op(Now.obj), Tail(todo))
    BY ListTail
  <2> QED
    BY <1>1, <2>1 DEF One
<1> QED
  BY <1>2, ReferredIsSteady

(* An object whose slots the call took over is referred to by the call.    *)
LEMMA TakenOverSteady ==
  ASSUME HeapTypeOK, ListInv, LastInv, CountInv, NEW x \in Gone, NEW i, x \in Objects
  PROVE  ~TakenOver(x, i)
<1> SUFFICES ASSUME TakenOver(x, i) PROVE FALSE
  OBVIOUS
<1>1. Outstanding(x) > 0
  <2>1. \A b : One(b) \in Nat
    BY DEF One
  <2>2. CASE last.op = "copy" /\ x = last.dst
    <3>1. Occurs(x, last.counted) \in Nat
      BY <2>2, OccursIsNat DEF LastInv
    <3> QED
      BY <2>1, <2>2, <3>1 DEF Outstanding, One
  <2>3. CASE last.op = "copy" /\ last.moved /\ x = last.src
    <3>1. Occurs(x, last.counted) \in Nat
      BY <2>3, OccursIsNat DEF LastInv
    <3> QED
      BY <2>1, <2>3, <3>1 DEF Outstanding, One
  <2>4. CASE last.op = "free" /\ x = last.src
    BY <2>1, <2>4 DEF Outstanding, One
  <2> QED
    BY <2>2, <2>3, <2>4 DEF TakenOver
<1>2. x \in Steady
  BY <1>1, ReferredIsSteady
<1> QED
  BY <1>2 DEF Steady

(* The references an object holds, that no drop has come to and the call   *)
(* has not taken over.                                                     *)
Keeps(x, i) == x \in Live /\ i \in Holds(x, Suspended)

(* Places of objects are finitely many.                                    *)
LEMMA FewPlaces ==
  ASSUME NEW P, P \subseteq Objects \X (1 .. MaxSlots)
  PROVE  IsFiniteSet(P) /\ Cardinality(P) \in Nat
<1>1. IsFiniteSet(Objects) /\ IsFiniteSet(1 .. MaxSlots)
  BY RefCountAssumption, FS_Interval DEF RefCountAssumption
<1>2. IsFiniteSet(Objects \X (1 .. MaxSlots))
  BY <1>1, FS_Product
<1> QED
  BY <1>2, FS_Subset, FS_CardinalityType

(* What is held, by what keeps it.                                         *)
LEMMA HeldKeeps ==
  ASSUME HeapTypeOK, NEW v
  PROVE  /\ \A x, i : <<x, i>> \in Held(v, Suspended) <=> Keeps(x, i) /\ slots[x][i] = v
         /\ Held(v, Suspended) \subseteq Objects \X (1 .. MaxSlots)
<1>1. \A x, i : <<x, i>> \in Held(v, Suspended) <=> Keeps(x, i) /\ slots[x][i] = v
  <2>1. \A x, i : <<x, i>> \in Held(v, Suspended)
                    <=> x \in Live /\ i \in Holds(x, Suspended) /\ slots[x][i] = v
    BY HeldIs
  <2> QED
    BY <2>1 DEF Keeps
<1>2. Live \subseteq Objects
  BY DEF Live
<1>3. Held(v, Suspended) \subseteq Live \X (1 .. MaxSlots)
  BY DEF Held
<1> QED
  BY <1>1, <1>2, <1>3

(* The same after a step.                                                  *)
LEMMA HeldKeepsNext ==
  ASSUME HeapTypeOK', NEW v
  PROVE  /\ \A x, i : <<x, i>> \in Held(v, Suspended)' <=> Keeps(x, i)' /\ slots'[x][i] = v
         /\ Held(v, Suspended)' \subseteq Objects \X (1 .. MaxSlots)
<1>1. ASSUME NEW x \in Live', NEW i \in Holds(x, Suspended)' PROVE i \in 1 .. MaxSlots
  <2>1. x \in Objects \cup Static /\ i \in DOMAIN slots'[x]
    BY DEF Live, Holds
  <2>2. slots'[x] \in Seq(Referents) /\ Len(slots'[x]) <= MaxSlots
    BY <2>1 DEF HeapTypeOK, Referents
  <2>3. DOMAIN slots'[x] = 1 .. Len(slots'[x]) /\ Len(slots'[x]) \in Nat
    BY <2>2
  <2> QED
    BY <2>1, <2>2, <2>3, RefCountAssumption DEF RefCountAssumption
<1> QED
  BY <1>1 DEF Held, Keeps, Live

(* A step that changes nothing that is kept.                               *)
LEMMA HeldSame ==
  ASSUME HeapTypeOK, HeapTypeOK', NEW v,
         \A x, i : Keeps(x, i)' <=> Keeps(x, i),
         \A x, i : Keeps(x, i) => slots'[x][i] = slots[x][i]
  PROVE  Held(v, Suspended)' = Held(v, Suspended)
<1>1. \A x, i : <<x, i>> \in Held(v, Suspended)' <=> <<x, i>> \in Held(v, Suspended)
  <2>1. \A x, i : <<x, i>> \in Held(v, Suspended) <=> Keeps(x, i) /\ slots[x][i] = v
    BY HeldKeeps
  <2>2. \A x, i : <<x, i>> \in Held(v, Suspended)' <=> Keeps(x, i)' /\ slots'[x][i] = v
    BY HeldKeepsNext
  <2>3. ASSUME NEW x, NEW i
        PROVE  <<x, i>> \in Held(v, Suspended)' <=> <<x, i>> \in Held(v, Suspended)
    <3>1. /\ <<x, i>> \in Held(v, Suspended) <=> Keeps(x, i) /\ slots[x][i] = v
          /\ <<x, i>> \in Held(v, Suspended)' <=> Keeps(x, i)' /\ slots'[x][i] = v
      BY <2>1, <2>2
    <3>2. (Keeps(x, i)' <=> Keeps(x, i)) /\ (Keeps(x, i) => slots'[x][i] = slots[x][i])
      OBVIOUS
    <3> QED
      BY <3>1, <3>2
  <2> QED
    BY <2>3
<1>2. /\ \A p \in Held(v, Suspended)' : p = <<p[1], p[2]>>
      /\ \A p \in Held(v, Suspended) : p = <<p[1], p[2]>>
  BY HeldKeeps, HeldKeepsNext
<1> QED
  BY <1>1, <1>2

(* A step after which one reference is no longer kept.                     *)
LEMMA HeldLosesOne ==
  ASSUME HeapTypeOK, HeapTypeOK', NEW v, NEW o, NEW k, Keeps(o, k),
         \A x, i : Keeps(x, i)' <=> Keeps(x, i) /\ ~(x = o /\ i = k),
         \A x, i : Keeps(x, i)' => slots'[x][i] = slots[x][i]
  PROVE  /\ Cardinality(Held(v, Suspended)') \in Nat
         /\ Cardinality(Held(v, Suspended))
              = Cardinality(Held(v, Suspended)') + One(slots[o][k] = v)
<1> DEFINE H == Held(v, Suspended)
           N == Held(v, Suspended)'
           p == <<o, k>>
<1>1. \A x, i : <<x, i>> \in N <=> <<x, i>> \in H /\ ~(x = o /\ i = k)
  <2>1. \A x, i : <<x, i>> \in H <=> Keeps(x, i) /\ slots[x][i] = v
    BY HeldKeeps
  <2>2. \A x, i : <<x, i>> \in N <=> Keeps(x, i)' /\ slots'[x][i] = v
    BY HeldKeepsNext
  <2>3. ASSUME NEW x, NEW i
        PROVE  <<x, i>> \in N <=> <<x, i>> \in H /\ ~(x = o /\ i = k)
    <3>1. /\ <<x, i>> \in H <=> Keeps(x, i) /\ slots[x][i] = v
          /\ <<x, i>> \in N <=> Keeps(x, i)' /\ slots'[x][i] = v
      BY <2>1, <2>2
    <3>2. /\ Keeps(x, i)' <=> Keeps(x, i) /\ ~(x = o /\ i = k)
          /\ Keeps(x, i)' => slots'[x][i] = slots[x][i]
      OBVIOUS
    <3> QED
      BY <3>1, <3>2
  <2> QED
    BY <2>3
<1>2. H \subseteq Objects \X (1 .. MaxSlots) /\ N \subseteq Objects \X (1 .. MaxSlots)
  BY HeldKeeps, HeldKeepsNext
<1>3. p \in H <=> slots[o][k] = v
  BY HeldKeeps
<1> HIDE DEF H, N
<1>4. N = H \ {p}
  <2>1. (\A q \in N : q = <<q[1], q[2]>>) /\ \A q \in H : q = <<q[1], q[2]>>
    BY <1>2
  <2> QED
    BY <1>1, <2>1
<1>5. IsFiniteSet(H) /\ Cardinality(H) \in Nat /\ IsFiniteSet(N) /\ Cardinality(N) \in Nat
  BY <1>2, FewPlaces
<1> HIDE DEF p
<1>6. Cardinality(H) = Cardinality(N) + One(p \in H)
  <2>1. CASE p \in H
    BY <1>4, <1>5, <2>1, FS_RemoveElement DEF One
  <2>2. CASE p \notin H
    <3>1. N = H
      BY <1>4, <2>2
    <3> QED
      BY <1>5, <2>2, <3>1 DEF One
  <2> QED
    BY <2>1, <2>2
<1> QED
  BY <1>3, <1>5, <1>6 DEF H, N

(* A step after which part of an object is kept that was not before.       *)
LEMMA HeldGains ==
  ASSUME HeapTypeOK, HeapTypeOK', NEW v, NEW o \in Objects, NEW f \in Nat, NEW b \in Nat,
         0 < f, f <= b + 1, b <= Len(slots'[o]),
         \A i \in f .. b : ~Keeps(o, i) /\ Keeps(o, i)',
         \A x, i : ~(x = o /\ i \in f .. b) =>
                      /\ Keeps(x, i)' <=> Keeps(x, i)
                      /\ Keeps(x, i) => slots'[x][i] = slots[x][i]
  PROVE  /\ Cardinality(Held(v, Suspended)) \in Nat
         /\ Occurs(v, SubSeq(slots'[o], f, b)) \in Nat
         /\ Cardinality(Held(v, Suspended)')
              = Cardinality(Held(v, Suspended)) + Occurs(v, SubSeq(slots'[o], f, b))
<1> DEFINE H == Held(v, Suspended)
           N == Held(v, Suspended)'
           s == slots'[o]
           a == f - 1
           P == Places(o, s, a, b, v)
<1>1. a \in Nat /\ a <= b /\ a + 1 = f
  OBVIOUS
<1> HIDE DEF a
<1>2. /\ \A x, i : <<x, i>> \in N <=> Keeps(x, i)' /\ slots'[x][i] = v
      /\ \A x, i : <<x, i>> \in H <=> Keeps(x, i) /\ slots[x][i] = v
  BY HeldKeeps, HeldKeepsNext
<1>3. H \subseteq Objects \X (1 .. MaxSlots) /\ N \subseteq Objects \X (1 .. MaxSlots)
  BY HeldKeeps, HeldKeepsNext
<1>4. \A x, i : <<x, i>> \in P <=> x = o /\ i \in f .. b /\ slots'[x][i] = v
  BY <1>1 DEF Places
<1>5. \A q \in P : q = <<q[1], q[2]>>
  BY DEF Places
<1>6. s \in Seq(Referents) /\ b <= Len(s)
  BY DEF HeapTypeOK, Referents
<1> HIDE DEF s
<1>7. IsFiniteSet(P) /\ Cardinality(P) = Occurs(v, SubSeq(s, f, b))
  <2>1. /\ IsFiniteSet(Places(o, s, a, b, v))
        /\ Cardinality(Places(o, s, a, b, v)) = Occurs(v, SubSeq(s, a + 1, b))
    BY <1>1, <1>6, PlacesCount
  <2> QED
    BY <1>1, <2>1
<1> HIDE DEF H, N, P
<1>8. \A x, i : <<x, i>> \in N <=> <<x, i>> \in H \cup P
  BY <1>2, <1>4
<1>9. \A x, i : ~(<<x, i>> \in H /\ <<x, i>> \in P)
  BY <1>2, <1>4
<1>10. N = H \cup P /\ H \cap P = {}
  <2>1. (\A q \in N : q = <<q[1], q[2]>>) /\ \A q \in H : q = <<q[1], q[2]>>
    BY <1>3
  <2> QED
    BY <1>5, <1>8, <1>9, <2>1
<1>11. IsFiniteSet(H)
  BY <1>3, FewPlaces
<1> QED
  BY <1>7, <1>10, <1>11, Disjoint DEF H, N, P, s

(* A step after which part of an object is no longer kept.                 *)
LEMMA HeldLoses ==
  ASSUME HeapTypeOK, HeapTypeOK', NEW v, NEW o \in Objects, NEW f \in Nat, NEW b \in Nat,
         0 < f, f <= b + 1, b <= Len(slots[o]),
         \A i \in f .. b : Keeps(o, i) /\ ~Keeps(o, i)',
         \A x, i : ~(x = o /\ i \in f .. b) =>
                      /\ Keeps(x, i)' <=> Keeps(x, i)
                      /\ Keeps(x, i) => slots'[x][i] = slots[x][i]
  PROVE  /\ Cardinality(Held(v, Suspended)') \in Nat
         /\ Occurs(v, SubSeq(slots[o], f, b)) \in Nat
         /\ Cardinality(Held(v, Suspended))
              = Cardinality(Held(v, Suspended)') + Occurs(v, SubSeq(slots[o], f, b))
<1> DEFINE H == Held(v, Suspended)
           N == Held(v, Suspended)'
           s == slots[o]
           a == f - 1
           P == Places(o, s, a, b, v)
<1>1. a \in Nat /\ a <= b /\ a + 1 = f
  OBVIOUS
<1> HIDE DEF a
<1>2. /\ \A x, i : <<x, i>> \in N <=> Keeps(x, i)' /\ slots'[x][i] = v
      /\ \A x, i : <<x, i>> \in H <=> Keeps(x, i) /\ slots[x][i] = v
  BY HeldKeeps, HeldKeepsNext
<1>3. H \subseteq Objects \X (1 .. MaxSlots) /\ N \subseteq Objects \X (1 .. MaxSlots)
  BY HeldKeeps, HeldKeepsNext
<1>4. \A x, i : <<x, i>> \in P <=> x = o /\ i \in f .. b /\ slots[x][i] = v
  BY <1>1 DEF Places
<1>5. \A q \in P : q = <<q[1], q[2]>>
  BY DEF Places
<1>6. s \in Seq(Referents) /\ b <= Len(s)
  BY DEF HeapTypeOK, Referents
<1> HIDE DEF s
<1>7. IsFiniteSet(P) /\ Cardinality(P) = Occurs(v, SubSeq(s, f, b))
  <2>1. /\ IsFiniteSet(Places(o, s, a, b, v))
        /\ Cardinality(Places(o, s, a, b, v)) = Occurs(v, SubSeq(s, a + 1, b))
    BY <1>1, <1>6, PlacesCount
  <2> QED
    BY <1>1, <2>1
<1> HIDE DEF H, N, P
<1>8. \A x, i : <<x, i>> \in H <=> <<x, i>> \in N \cup P
  BY <1>2, <1>4
<1>9. \A x, i : ~(<<x, i>> \in N /\ <<x, i>> \in P)
  BY <1>2, <1>4
<1>10. H = N \cup P /\ N \cap P = {}
  <2>1. (\A q \in N : q = <<q[1], q[2]>>) /\ \A q \in H : q = <<q[1], q[2]>>
    BY <1>3
  <2> QED
    BY <1>5, <1>8, <1>9, <2>1
<1>11. IsFiniteSet(N)
  BY <1>3, FewPlaces
<1> QED
  BY <1>7, <1>10, <1>11, Disjoint DEF H, N, P, s

(* A step after which an object is kept that was not before.               *)
LEMMA HeldGainsAll ==
  ASSUME HeapTypeOK, HeapTypeOK', NEW v, NEW o \in Objects,
         \A i : ~Keeps(o, i),
         \A i : Keeps(o, i)' <=> i \in 1 .. Len(slots'[o]),
         \A x, i : x # o => /\ Keeps(x, i)' <=> Keeps(x, i)
                            /\ Keeps(x, i) => slots'[x][i] = slots[x][i]
  PROVE  /\ Cardinality(Held(v, Suspended)) \in Nat /\ Occurs(v, slots'[o]) \in Nat
         /\ Cardinality(Held(v, Suspended)')
              = Cardinality(Held(v, Suspended)) + Occurs(v, slots'[o])
<1> DEFINE n == Len(slots'[o])
           f == 1
<1>1. slots'[o] \in Seq(Referents)
  BY DEF HeapTypeOK, Referents
<1>2. /\ n \in Nat /\ f \in Nat /\ 0 < f /\ f <= n + 1 /\ f = 1 /\ n <= Len(slots'[o])
      /\ SubSeq(slots'[o], f, n) = slots'[o]
  BY <1>1, SubSeqFull
<1> HIDE DEF n, f
<1>3. \A i \in f .. n : ~Keeps(o, i) /\ Keeps(o, i)'
  BY <1>2 DEF n
<1>4. \A x, i : ~(x = o /\ i \in f .. n) =>
                      /\ Keeps(x, i)' <=> Keeps(x, i)
                      /\ Keeps(x, i) => slots'[x][i] = slots[x][i]
  BY <1>2 DEF n
<1>5. /\ Cardinality(Held(v, Suspended)) \in Nat
      /\ Occurs(v, SubSeq(slots'[o], f, n)) \in Nat
      /\ Cardinality(Held(v, Suspended)')
           = Cardinality(Held(v, Suspended)) + Occurs(v, SubSeq(slots'[o], f, n))
  BY <1>2, <1>3, <1>4, HeldGains
<1> QED
  BY <1>2, <1>5

(* A step after which an object is no longer kept.                         *)
LEMMA HeldLosesAll ==
  ASSUME HeapTypeOK, HeapTypeOK', NEW v, NEW o \in Objects,
         \A i : Keeps(o, i) <=> i \in 1 .. Len(slots[o]),
         \A i : ~Keeps(o, i)',
         \A x, i : x # o => /\ Keeps(x, i)' <=> Keeps(x, i)
                            /\ Keeps(x, i) => slots'[x][i] = slots[x][i]
  PROVE  /\ Cardinality(Held(v, Suspended)') \in Nat /\ Occurs(v, slots[o]) \in Nat
         /\ Cardinality(Held(v, Suspended))
              = Cardinality(Held(v, Suspended)') + Occurs(v, slots[o])
<1> DEFINE n == Len(slots[o])
           f == 1
<1>1. slots[o] \in Seq(Referents)
  BY DEF HeapTypeOK, Referents
<1>2. /\ n \in Nat /\ f \in Nat /\ 0 < f /\ f <= n + 1 /\ f = 1 /\ n <= Len(slots[o])
      /\ SubSeq(slots[o], f, n) = slots[o]
  BY <1>1, SubSeqFull
<1> HIDE DEF n, f
<1>3. \A i \in f .. n : Keeps(o, i) /\ ~Keeps(o, i)'
  BY <1>2 DEF n
<1>4. \A x, i : ~(x = o /\ i \in f .. n) =>
                      /\ Keeps(x, i)' <=> Keeps(x, i)
                      /\ Keeps(x, i) => slots'[x][i] = slots[x][i]
  BY <1>2 DEF n
<1>5. /\ Cardinality(Held(v, Suspended)') \in Nat
      /\ Occurs(v, SubSeq(slots[o], f, n)) \in Nat
      /\ Cardinality(Held(v, Suspended))
           = Cardinality(Held(v, Suspended)') + Occurs(v, SubSeq(slots[o], f, n))
  BY <1>2, <1>3, <1>4, HeldLoses
<1> QED
  BY <1>2, <1>5

(* The references after a step, by the same four parts.                    *)
LEMMA ReferencesNext ==
  ASSUME NEW v
  PROVE  References(v, Suspended)'
           = owned'[v] + Occurs(decref_op(v), todo') + Outstanding(v)'
               + Cardinality(Held(v, Suspended)')
  BY DEF References

(* A reference is given up.                                                *)
LEMMA DecrefKeeps ==
  ASSUME HeapInv, Decref PROVE HeapInv'
<1> DEFINE o == Now.obj
           d == drop_op("new", o, Null, 0)
<1>1. /\ HeapTypeOK /\ ListInv /\ WalkInv /\ LastInv /\ CountInv /\ Positive /\ StaticInv
      /\ fault # "other"
  BY DEF HeapInv
<1>2. /\ todo # <<>> /\ Now.op = "decref" /\ UNCHANGED <<shape, slots, owned, last, fault>>
      /\ \/ is_dynamic(o) /\ ~is_shared(o) /\ todo' = <<d>> \o Tail(todo) /\ UNCHANGED rc
         \/ is_shared(o) /\ rc' = [rc EXCEPT ![o] = @ - 1] /\ todo' = Tail(todo)
         \/ ~is_dynamic(o) /\ todo' = Tail(todo) /\ UNCHANGED rc
  BY DEF Decref, Doing
<1>3. Now \in DecrefSteps /\ o \in Objects \cup Static \cup {Null} /\ Now = decref_op(o)
  <2>1. Now \in CallSteps
    BY <1>1, <1>2, ListTail
  <2> QED
    BY <1>2, <2>1, StepIs
<1>4. \A v : Now = decref_op(v) <=> v = o
  BY <1>3, MadeSteps
<1> HIDE DEF o, d
<1>5. o \in Objects => o \in Steady /\ rc[o] >= 1
  <2> QED
    BY <1>1, <1>2, DecrefSteady DEF o
<1>6. rc[Empty] = -1 /\ (o # Null => rc[o] \in Int)
  BY <1>1, <1>3 DEF StaticInv, HeapTypeOK
<1>7. \A v \in Objects :
         /\ owned[v] \in Nat /\ Occurs(decref_op(v), todo) \in Nat /\ Outstanding(v) \in Nat
         /\ Cardinality(Held(v, Suspended)) \in Nat
         /\ References(v, Suspended) =
              owned[v] + Occurs(decref_op(v), todo) + Outstanding(v)
                  + Cardinality(Held(v, Suspended))
         /\ References(v, Suspended) = IF v \in Steady THEN rc[v] ELSE 0
  BY <1>1, ReferencesAre DEF CountInv
<1>8. Live' = Live /\ \A v : Outstanding(v)' = Outstanding(v)
  BY <1>2 DEF Live, Outstanding
<1>9. CASE is_dynamic(o) /\ ~is_shared(o)
  <2>1. o \in Objects /\ o # Null /\ rc[o] = 1 /\ todo' = <<d>> \o Tail(todo) /\ UNCHANGED rc
    BY <1>2, <1>3, <1>6, <1>9 DEF is_dynamic, is_shared, Static
  <2>2. /\ d \in DropSteps /\ d.obj = o /\ d.parent = Null /\ d.index = 0 /\ d.at = "new"
    BY <2>1, MadeSteps, RefCountAssumption DEF d, DropSteps, Referents, RefCountAssumption
  <2>3. \A e \in Drops : e.obj # o
    BY <1>5, <2>1 DEF Steady, Gone, Current
  <2>4. /\ ListInv' /\ Drops' = Drops \cup {d}
        /\ \A v : /\ Occurs(decref_op(v), todo') \in Nat
                  /\ Occurs(decref_op(v), todo)
                       = One(Now = decref_op(v)) + Occurs(decref_op(v), todo')
    BY <1>1, <1>2, <2>1, <2>2, <2>3, ListGoesOn
  <2>5. /\ WalkInv' /\ Suspended' = Suspended /\ Current' = Current \cup {o}
    BY <1>1, <1>2, <1>5, <2>1, <2>2, <2>4, WalkStarts
  <2>6. Steady' = Steady \ {o}
    BY <1>8, <2>5 DEF Steady, Gone
  <2>7. HeapTypeOK' /\ StaticInv' /\ Positive'
    BY <1>1, <1>2, <2>1, <2>6 DEF HeapTypeOK, StaticInv, Positive
  <2>8. LastInv'
    BY <1>1, <1>2, <2>1, <2>6 DEF LastInv
  <2>9. \A x, i : Keeps(x, i)' <=> Keeps(x, i)
    <3>1. ASSUME NEW x \in Live, NEW i
          PROVE  i \in Holds(x, Suspended)' <=> i \in Holds(x, Suspended)
      <4>1. \A j \in DOMAIN slots[x] : j > 0
        BY <1>1, SlotsAre DEF Live
      <4>2. TakenOver(x, i)' <=> TakenOver(x, i)
        BY <1>2 DEF TakenOver
      <4> QED
        BY <1>2, <2>1, <2>2, <2>4, <2>5, <4>1, <4>2 DEF Holds
    <3> QED
      BY <1>8, <3>1 DEF Keeps
  <2>10. \A v : Held(v, Suspended)' = Held(v, Suspended)
    BY <1>1, <1>2, <2>7, <2>9, HeldSame
  <2>11. CountInv'
    <3> SUFFICES ASSUME NEW v \in Objects
                 PROVE  References(v, Suspended)' = IF v \in Steady' THEN rc'[v] ELSE 0
      BY DEF CountInv
    <3>1. References(v, Suspended)' = References(v, Suspended) - One(v = o)
      <4>1. /\ Occurs(decref_op(v), todo') \in Nat
            /\ Occurs(decref_op(v), todo) = One(v = o) + Occurs(decref_op(v), todo')
        BY <1>4, <2>4
      <4>2. One(v = o) \in Nat
        BY DEF One
      <4> QED
        BY <1>2, <1>7, <1>8, <2>10, <4>1, <4>2, ReferencesNext
    <3>2. CASE v = o
      BY <1>5, <1>7, <2>1, <2>6, <3>1, <3>2 DEF One
    <3>3. CASE v # o
      <4>1. References(v, Suspended) \in Int
        BY <1>7
      <4> QED
        BY <1>7, <2>1, <2>6, <3>1, <3>3, <4>1 DEF One
    <3> QED
      BY <3>2, <3>3
  <2> QED
    BY <1>1, <1>2, <2>4, <2>5, <2>7, <2>8, <2>11 DEF HeapInv
<1>10. CASE ~(is_dynamic(o) /\ ~is_shared(o))
  <2>1. todo' = Tail(todo)
    BY <1>2, <1>10
  <2>2. /\ o \in Objects => rc[o] >= 2 /\ rc' = [rc EXCEPT ![o] = @ - 1]
        /\ o \notin Objects => UNCHANGED rc
    <3>1. o \in Objects => o # Null
      BY RefCountAssumption DEF RefCountAssumption
    <3>2. o \notin Objects => o = Null \/ rc[o] = -1
      BY <1>3, <1>6 DEF Static
    <3> QED
      BY <1>2, <1>5, <1>6, <1>10, <3>1, <3>2 DEF is_dynamic, is_shared
  <2>3. /\ ListInv' /\ Drops' = Drops
        /\ \A v : /\ Occurs(decref_op(v), todo') \in Nat
                  /\ Occurs(decref_op(v), todo)
                       = One(Now = decref_op(v)) + Occurs(decref_op(v), todo')
    BY <1>1, <1>2, <2>1, ListNext
  <2>4. HeapTypeOK' /\ \A x \in Objects : x # o => rc'[x] = rc[x]
    <3>1. rc \in [Objects \cup Static -> Int]
      BY <1>1 DEF HeapTypeOK
    <3>2. /\ rc' \in [Objects \cup Static -> Int]
          /\ \A x \in Objects : x # o => rc'[x] = rc[x]
      <4>1. CASE o \in Objects
        BY <2>2, <3>1, <4>1
      <4>2. CASE o \notin Objects
        BY <2>2, <3>1, <4>2
      <4> QED
        BY <4>1, <4>2
    <3> QED
      BY <1>1, <1>2, <3>2 DEF HeapTypeOK
  <2>5. /\ WalkInv' /\ Suspended' = Suspended /\ Current' = Current
    <3>1. \A x \in Gone : rc'[x] = rc[x] /\ slots'[x] = slots[x]
      <4>1. \A x \in Gone : x \in Objects
        BY <1>1, SuspendedAbove DEF Gone, Current, WalkInv
      <4> QED
        BY <1>2, <1>5, <2>2, <2>4, <4>1 DEF Steady
    <3> QED
      BY <1>1, <1>2, <1>8, <2>3, <3>1, WalkSame
  <2>6. Steady' = Steady
    BY <1>8, <2>5 DEF Steady, Gone
  <2>7. /\ \A v \in Objects : rc'[v] = IF v = o THEN rc[v] - 1 ELSE rc[v]
        /\ rc'[Empty] = -1
    <3>1. Empty \notin Objects
      BY RefCountAssumption DEF RefCountAssumption
    <3>2. rc \in [Objects \cup Static -> Int]
      BY <1>1 DEF HeapTypeOK
    <3>3. o \in Objects => rc'[o] = rc[o] - 1
      BY <2>2, <3>2
    <3>4. rc'[Empty] = rc[Empty]
      BY <2>2, <3>1, <3>2 DEF Static
    <3> QED
      BY <1>6, <2>4, <3>3, <3>4
  <2>8. StaticInv' /\ Positive'
    <3>1. \A v \in Steady : v \in Objects /\ rc[v] \in Int
      BY <1>1 DEF Steady, Live, HeapTypeOK
    <3> QED
      BY <1>1, <1>2, <2>2, <2>6, <2>7, <3>1 DEF StaticInv, Positive
  <2>9. \A x, i : Keeps(x, i)' <=> Keeps(x, i)
    <3>1. ASSUME NEW x \in Live, NEW i
          PROVE  i \in Holds(x, Suspended)' <=> i \in Holds(x, Suspended)
      <4>1. x \in Suspended => rc'[x] = rc[x]
        BY <1>5, <2>2, <2>4 DEF Steady, Gone, Live
      <4>2. TakenOver(x, i)' <=> TakenOver(x, i)
        BY <1>2 DEF TakenOver
      <4> QED
        BY <1>2, <2>3, <2>5, <4>1, <4>2 DEF Holds
    <3> QED
      BY <1>8, <3>1 DEF Keeps
  <2>10. \A v : Held(v, Suspended)' = Held(v, Suspended)
    BY <1>1, <1>2, <2>4, <2>9, HeldSame
  <2>11. LastInv'
    <3>1. \A x \in Objects : Outstanding(x) > 0 /\ rc[x] = 1 => rc'[x] = 1
      BY <1>7, <2>7, <2>2
    <3>2. last.op = "copy" /\ last.moved => rc'[last.src] = 1
      <4> SUFFICES ASSUME last.op = "copy", last.moved PROVE rc'[last.src] = 1
        OBVIOUS
      <4>1. last.src \in Objects /\ rc[last.src] = 1
        BY <1>1 DEF LastInv
      <4> QED
        BY <4>1, <2>2, <2>7
    <3>3. last.op = "free" => rc'[last.src] = 1
      <4> SUFFICES ASSUME last.op = "free" PROVE rc'[last.src] = 1
        OBVIOUS
      <4>1. last.src \in Objects /\ rc[last.src] = 1
        BY <1>1 DEF LastInv
      <4> QED
        BY <4>1, <2>2, <2>7
    <3> QED
      BY <1>1, <1>2, <2>6, <3>2, <3>3 DEF LastInv
  <2>12. CountInv'
    <3> SUFFICES ASSUME NEW v \in Objects
                 PROVE  References(v, Suspended)' = IF v \in Steady' THEN rc'[v] ELSE 0
      BY DEF CountInv
    <3>1. References(v, Suspended)' = References(v, Suspended) - One(v = o)
      <4>1. /\ Occurs(decref_op(v), todo') \in Nat
            /\ Occurs(decref_op(v), todo) = One(v = o) + Occurs(decref_op(v), todo')
        BY <1>4, <2>3
      <4>2. One(v = o) \in Nat
        BY DEF One
      <4> QED
        BY <1>2, <1>7, <1>8, <2>10, <4>1, <4>2, ReferencesNext
    <3>2. CASE v = o
      BY <1>5, <1>7, <2>6, <2>7, <3>1, <3>2 DEF One
    <3>3. CASE v # o
      <4>1. References(v, Suspended) \in Int /\ rc'[v] = rc[v]
        BY <1>7, <2>7, <3>3
      <4> QED
        BY <1>7, <2>6, <3>1, <3>3, <4>1 DEF One
    <3> QED
      BY <3>2, <3>3
  <2> QED
    BY <1>1, <1>2, <2>3, <2>4, <2>5, <2>8, <2>11, <2>12 DEF HeapInv
<1> QED
  BY <1>9, <1>10

(* A call refers to the objects of what it does last.                      *)
LEMMA CallRefers ==
  ASSUME LastInv
  PROVE  /\ last.op = "copy" => Outstanding(last.dst) > 0
         /\ last.op = "copy" /\ last.moved => Outstanding(last.src) > 0
         /\ last.op = "free" => Outstanding(last.src) > 0
         /\ last.op = "fill" => Outstanding(last.src) > 0
<1>1. (\A b : One(b) \in Nat) /\ One(TRUE) = 1
  BY DEF One
<1>2. CASE last.op = "copy"
  <2>1. \A v : Occurs(v, last.counted) \in Nat
    <3> SUFFICES ASSUME NEW v PROVE Occurs(v, last.counted) \in Nat
      OBVIOUS
    <3>1. last.counted \in Seq(Referents)
      BY <1>2 DEF LastInv
    <3> QED
      BY <3>1, OccursIsNat
  <2>2. last.moved \in BOOLEAN
    BY <1>2 DEF LastInv
  <2>3. \A v : Outstanding(v)
                 = One(last.dst = v) + One(last.moved /\ last.src = v) + Occurs(v, last.counted)
    BY <1>2 DEF Outstanding
  <2>4. Outstanding(last.dst) > 0
    <3>1. One(last.dst = last.dst) = 1
      BY <1>1
    <3> QED
      BY <1>1, <2>1, <2>3, <3>1
  <2>5. last.moved => Outstanding(last.src) > 0
    <3> SUFFICES ASSUME last.moved PROVE Outstanding(last.src) > 0
      OBVIOUS
    <3>1. One(last.moved /\ last.src = last.src) = 1
      BY DEF One
    <3> QED
      BY <1>1, <2>1, <2>3, <3>1
  <2> QED
    BY <1>2, <2>4, <2>5
<1>3. CASE last.op = "free"
  BY <1>1, <1>3 DEF Outstanding, One
<1>4. CASE last.op = "fill"
  BY <1>1, <1>4 DEF Outstanding, One
<1> QED
  BY <1>2, <1>3, <1>4

(* These objects are live, if they are not the static array.               *)
LEMMA CallSteady ==
  ASSUME HeapTypeOK, ListInv, LastInv, CountInv
  PROVE  /\ last.op = "copy" => last.dst \in Steady \cup Static
         /\ last.op = "copy" /\ last.moved => last.src \in Steady
         /\ last.op = "free" => last.src \in Steady
         /\ last.op = "fill" => last.src \in Steady \cup Static
<1>1. \A v \in Objects : Outstanding(v) > 0 => v \in Steady
  BY ReferredIsSteady
<1>2. last.op = "copy" => last.dst \in Steady \cup Static
  BY <1>1, CallRefers DEF LastInv
<1>3. last.op = "copy" /\ last.moved => last.src \in Steady
  BY <1>1, CallRefers DEF LastInv
<1>4. last.op = "free" => last.src \in Steady
  BY <1>1, CallRefers DEF LastInv
<1>5. last.op = "fill" => last.src \in Steady \cup Static
  BY <1>1, CallRefers DEF LastInv
<1> QED
  BY <1>2, <1>3, <1>4, <1>5

(* What a call does last is still possible when drops have gone on.        *)
LEMMA LastKept ==
  ASSUME HeapTypeOK, ListInv, LastInv, CountInv, last' = last, Steady' \subseteq Steady,
         \A x \in Steady \cup Static : slots'[x] = slots[x],
         \A x \in Steady : rc[x] = 1 => rc'[x] = 1
  PROVE  LastInv'
<1>1. CASE last.op = "nothing"
  BY <1>1 DEF LastInv
<1>2. CASE last.op = "copy"
  <2>1. slots'[last.dst] = slots[last.dst]
    BY <1>2, CallSteady
  <2>2. last.src \in Steady' \cup Static => last.src \in Steady \cup Static
    OBVIOUS
  <2>3. last.moved => rc'[last.src] = 1
    BY <1>2, CallSteady DEF LastInv
  <2> QED
    BY <1>2, <2>1, <2>2, <2>3 DEF LastInv
<1>3. CASE last.op = "free"
  BY <1>3, CallSteady DEF LastInv
<1>4. CASE last.op = "fill"
  BY <1>4, CallSteady DEF LastInv
<1> QED
  BY <1>1, <1>2, <1>3, <1>4 DEF LastInv

(* The drop a call is at, and what its object still holds.                 *)
LEMMA DropIs ==
  ASSUME HeapInv, todo # <<>>, Now.op = "drop"
  PROVE  /\ Now \in DropSteps /\ Now \in Drops /\ \A d \in Drops \ {Now} : d.obj # Now.obj
         /\ \A v : Now # decref_op(v)
         /\ Now.obj \in Live /\ Now.obj \in Objects /\ Now.obj \in Gone /\ Now.obj \notin Suspended
         /\ Now.parent \in Suspended \cup {Null} /\ Now.index \in Nat
         /\ Now.index <= Len(slots[Now.obj]) /\ Len(slots[Now.obj]) \in Nat
         /\ Len(slots[Now.obj]) <= MaxSlots
         /\ Now.at = "back" => Now.index = Len(slots[Now.obj])
         /\ \A i : Keeps(Now.obj, i) <=> i \in Now.index + 1 .. Len(slots[Now.obj])
<1>1. HeapTypeOK /\ ListInv /\ WalkInv /\ LastInv /\ CountInv
  BY DEF HeapInv
<1>2. Now \in DropSteps /\ Now \in Drops /\ \A d \in Drops \ {Now} : d.obj # Now.obj
  BY <1>1, ListTail, StepIs
<1>3. /\ Now.obj \in Live /\ Now.obj \in Objects /\ Now.obj \in Gone /\ Now.obj \notin Suspended
      /\ Now.parent \in Suspended \cup {Null} /\ Now.index \in Nat
      /\ Now.index <= Len(slots[Now.obj])
      /\ Now.at = "back" => Now.index = Len(slots[Now.obj])
  BY <1>1, <1>2, StepIs DEF WalkInv, Gone, Current, Live
<1>4. \A v : Now # decref_op(v)
  BY MadeSteps
<1>5. /\ Len(slots[Now.obj]) \in Nat /\ DOMAIN slots[Now.obj] = 1 .. Len(slots[Now.obj])
      /\ Len(slots[Now.obj]) <= MaxSlots
  BY <1>1, <1>3, SlotsAre
<1>6. ASSUME NEW i PROVE Keeps(Now.obj, i) <=> i \in Now.index + 1 .. Len(slots[Now.obj])
  <2>1. ~TakenOver(Now.obj, i)
    BY <1>1, <1>3, TakenOverSteady
  <2>2. (\A d \in Drops : d.obj = Now.obj => i > d.index) <=> i > Now.index
    BY <1>2
  <2> QED
    BY <1>3, <1>5, <2>1, <2>2 DEF Keeps, Holds
<1> QED
  BY <1>2, <1>3, <1>4, <1>5, <1>6

(* The counts after a step of a drop, by which one reference is gone, or   *)
(* none: the object that it was to, if any, has one less.                  *)
LEMMA DropCounts ==
  ASSUME HeapInv, NEW c, UNCHANGED <<owned, last>>,
         \A v \in Objects :
            /\ Occurs(decref_op(v), todo') \in Nat /\ Cardinality(Held(v, Suspended)') \in Nat
            /\ Occurs(decref_op(v), todo) + Cardinality(Held(v, Suspended))
                 = Occurs(decref_op(v), todo') + Cardinality(Held(v, Suspended)') + One(c = v),
         \A v \in Objects \ {c} : v \in Steady' <=> v \in Steady,
         \A v \in Steady \ {c} : rc'[v] = rc[v],
         c \in Objects => /\ c \in Steady
                          /\ \/ rc[c] = 1 /\ c \notin Steady'
                             \/ rc'[c] = rc[c] - 1 /\ c \in Steady'
  PROVE  CountInv'
<1> SUFFICES ASSUME NEW v \in Objects
             PROVE  References(v, Suspended)' = IF v \in Steady' THEN rc'[v] ELSE 0
  BY DEF CountInv
<1>1. HeapTypeOK /\ ListInv /\ LastInv /\ CountInv
  BY DEF HeapInv
<1>2. /\ owned[v] \in Nat /\ Occurs(decref_op(v), todo) \in Nat /\ Outstanding(v) \in Nat
      /\ Cardinality(Held(v, Suspended)) \in Nat
      /\ References(v, Suspended) =
           owned[v] + Occurs(decref_op(v), todo) + Outstanding(v) + Cardinality(Held(v, Suspended))
  BY <1>1, ReferencesAre
<1>3. References(v, Suspended) = IF v \in Steady THEN rc[v] ELSE 0
  BY <1>1 DEF CountInv
<1>4. Outstanding(v)' = Outstanding(v) /\ owned'[v] = owned[v]
  BY DEF Outstanding
<1>5. /\ Occurs(decref_op(v), todo') \in Nat /\ Cardinality(Held(v, Suspended)') \in Nat
      /\ Occurs(decref_op(v), todo) + Cardinality(Held(v, Suspended))
           = Occurs(decref_op(v), todo') + Cardinality(Held(v, Suspended)') + One(c = v)
  OBVIOUS
<1>6. One(c = v) = IF c = v THEN 1 ELSE 0
  BY DEF One
<1>7. References(v, Suspended)' = References(v, Suspended) - One(c = v)
  BY <1>2, <1>4, <1>5, <1>6, ReferencesNext
<1>8. CASE c = v
  BY <1>3, <1>6, <1>7, <1>8
<1>9. CASE c # v
  <2>1. References(v, Suspended) \in Nat
    BY <1>2
  <2>2. v \in Steady' <=> v \in Steady
    BY <1>9
  <2>3. v \in Steady => rc'[v] = rc[v]
    BY <1>9
  <2> QED
    BY <1>3, <1>6, <1>7, <1>9, <2>1, <2>2, <2>3
<1> QED
  BY <1>8, <1>9

(* A drop goes on at its object, and changes nothing else.                 *)
LEMMA GoesOnKeeps ==
  ASSUME HeapInv, todo # <<>>, Now.op = "drop", NEW e \in DropSteps,
         todo' = <<e>> \o Tail(todo), UNCHANGED <<shape, rc, slots, owned, last, fault>>,
         e.obj = Now.obj, e.parent = Now.parent, e.index = Now.index, e.at # "new",
         e.at = "back" => e.index = Len(slots[Now.obj])
  PROVE  HeapInv'
<1>1. /\ HeapTypeOK /\ ListInv /\ WalkInv /\ LastInv /\ CountInv /\ Positive /\ StaticInv
      /\ fault # "other"
  BY DEF HeapInv
<1>2. /\ Now \in Drops /\ \A d \in Drops \ {Now} : d.obj # Now.obj
      /\ Now.index <= Len(slots[Now.obj]) /\ \A v : Now # decref_op(v)
  BY DropIs
<1>3. /\ ListInv' /\ Drops' = (Drops \ {Now}) \cup {e}
      /\ \A v : /\ Occurs(decref_op(v), todo') \in Nat
                /\ Occurs(decref_op(v), todo)
                     = One(Now = decref_op(v)) + Occurs(decref_op(v), todo')
  BY <1>1, <1>2, ListGoesOn
<1>4. Live' = Live
  BY DEF Live
<1>5. WalkInv' /\ Suspended' = Suspended /\ Current' = Current
  BY <1>1, <1>2, <1>3, <1>4, WalkGoesOn
<1>6. Steady' = Steady
  BY <1>4, <1>5 DEF Steady, Gone
<1>7. HeapTypeOK' /\ StaticInv' /\ Positive' /\ LastInv'
  BY <1>1, <1>6 DEF HeapTypeOK, StaticInv, Positive, LastInv
<1>8. ASSUME NEW x, NEW i PROVE Keeps(x, i)' <=> Keeps(x, i)
  <2>1. TakenOver(x, i)' <=> TakenOver(x, i)
    BY DEF TakenOver
  <2>2. (\A d \in Drops' : d.obj = x => i > d.index) <=> (\A d \in Drops : d.obj = x => i > d.index)
    BY <1>2, <1>3
  <2> QED
    BY <1>4, <1>5, <2>1, <2>2 DEF Keeps, Holds
<1>9. ASSUME NEW v \in Objects
      PROVE  /\ Occurs(decref_op(v), todo') \in Nat /\ Held(v, Suspended)' = Held(v, Suspended)
             /\ Occurs(decref_op(v), todo') = Occurs(decref_op(v), todo)
  <2>1. One(Now = decref_op(v)) = 0
    BY <1>2 DEF One
  <2>2. Held(v, Suspended)' = Held(v, Suspended)
    BY <1>1, <1>7, <1>8, HeldSame
  <2> QED
    BY <1>3, <2>1, <2>2
<1>10. CountInv'
  <2>1. ASSUME NEW v \in Objects PROVE References(v, Suspended)' = References(v, Suspended)
    BY <1>9 DEF References, Outstanding
  <2> QED
    BY <1>1, <1>6, <2>1 DEF CountInv
<1> QED
  BY <1>1, <1>3, <1>5, <1>7, <1>10 DEF HeapInv

(* All children of an object are done.                                     *)
LEMMA DoneKeeps ==
  ASSUME HeapInv, process_children_done PROVE HeapInv'
<1> DEFINE e == drop_op("back", Now.obj, Now.parent, Now.index)
<1>1. /\ todo # <<>> /\ Now.op = "drop" /\ Now.index = Len(slots[Now.obj])
      /\ todo' = <<e>> \o Tail(todo) /\ UNCHANGED <<shape, rc, slots, owned, last, fault>>
  BY DEF process_children_done, Dropping, Doing, Continue
<1>2. e \in DropSteps
  <2>1. Now \in DropSteps
    BY <1>1, DropIs
  <2> QED
    BY <2>1, StepIs DEF DropSteps
<1>3. e.obj = Now.obj /\ e.parent = Now.parent /\ e.index = Now.index /\ e.at = "back"
  BY MadeSteps
<1> HIDE DEF e
<1> QED
  BY <1>1, <1>2, <1>3, GoesOnKeeps

(* A drop comes to an object: if that is an external one, its finalizer    *)
(* gives up what it holds.                                                 *)
LEMMA NewKeeps ==
  ASSUME HeapInv, handle_new_object PROVE HeapInv'
<1>1. PICK o : o = Now.obj
  OBVIOUS
<1> DEFINE pre == Decrefs(slots[o])
           n == Len(slots[o])
           b == drop_op("back", o, Now.parent, n)
           e == drop_op(IF slots[o] = <<>> THEN "back" ELSE "children", o, Now.parent, 0)
<1>2. /\ todo # <<>> /\ Now.op = "drop" /\ Now.at = "new"
      /\ UNCHANGED <<shape, rc, slots, owned, last, fault>>
      /\ \/ shape[o] = "external" /\ todo' = pre \o <<b>> \o Tail(todo)
         \/ shape[o] # "external" /\ todo' = <<e>> \o Tail(todo)
  BY <1>1 DEF handle_new_object, Dropping, Doing, Continue
<1>3. /\ HeapTypeOK /\ ListInv /\ WalkInv /\ LastInv /\ CountInv /\ Positive /\ StaticInv
      /\ fault # "other"
  BY DEF HeapInv
<1>4. /\ Now \in DropSteps /\ Now \in Drops /\ \A d \in Drops \ {Now} : d.obj # o
      /\ o \in Objects /\ o \in Gone /\ o \notin Suspended /\ Now.index = 0
      /\ n \in Nat /\ n <= MaxSlots
      /\ \A v : Now # decref_op(v)
      /\ \A i : Keeps(o, i) <=> i \in 1 .. n
  BY <1>1, <1>2, <1>3, DropIs DEF WalkInv
<1>5. /\ b \in DropSteps /\ e \in DropSteps
      /\ b.obj = o /\ b.parent = Now.parent /\ b.at = "back" /\ b.index = n
      /\ e.obj = o /\ e.parent = Now.parent /\ e.index = 0 /\ e.at # "new"
      /\ e.at = "back" => n = 0
  <2>1. n \in 0 .. MaxSlots /\ 0 \in 0 .. MaxSlots
    BY <1>4, RefCountAssumption DEF RefCountAssumption
  <2>2. b \in DropSteps /\ e \in DropSteps
    <3> HIDE DEF n
    <3> QED
      BY <1>4, <2>1, StepIs DEF DropSteps
  <2>3. slots[o] = <<>> => n = 0
    OBVIOUS
  <2> QED
    BY <2>2, <2>3, MadeSteps
<1>6. pre \in Seq(DecrefSteps)
  <2>1. slots[o] \in Seq(Referents)
    BY <1>3, <1>4, SlotsAre
  <2>2. pre \in Seq({decref_op(x) : x \in Referents})
    BY <2>1, OccursDecrefs
  <2>3. {decref_op(x) : x \in Referents} \subseteq DecrefSteps
    BY DEF DecrefSteps, Referents
  <2> HIDE DEF pre
  <2> QED
    BY <2>2, <2>3
<1> HIDE DEF pre, b, e, n
<1>7. CASE shape[o] # "external"
  <2>1. todo' = <<e>> \o Tail(todo)
    BY <1>2, <1>7
  <2> QED
    BY <1>1, <1>2, <1>4, <1>5, <2>1, GoesOnKeeps DEF n
<1>8. CASE shape[o] = "external"
  <2>1. todo' = pre \o <<b>> \o Tail(todo)
    BY <1>2, <1>8
  <2>2. \A d \in Drops : d.obj = b.obj => d = Now
    BY <1>1, <1>4, <1>5
  <2>3. /\ ListInv' /\ Drops' = (Drops \ {Now}) \cup {b}
        /\ \A v : /\ Occurs(decref_op(v), pre) \in Nat /\ Occurs(decref_op(v), todo') \in Nat
                  /\ Occurs(decref_op(v), todo) + Occurs(decref_op(v), pre)
                       = One(Now = decref_op(v)) + Occurs(decref_op(v), todo')
    BY <1>2, <1>3, <1>5, <1>6, <2>1, <2>2, ListReplace
  <2>4. Live' = Live
    BY <1>2 DEF Live
  <2>5. WalkInv' /\ Suspended' = Suspended /\ Current' = Current
    <3>1. b.index <= Len(slots[Now.obj]) /\ b.index = Len(slots[Now.obj])
      BY <1>1, <1>4, <1>5 DEF n
    <3> QED
      BY <1>1, <1>2, <1>3, <1>4, <1>5, <2>3, <2>4, <3>1, WalkGoesOn
  <2>6. Steady' = Steady
    BY <2>4, <2>5 DEF Steady, Gone
  <2>7. HeapTypeOK' /\ StaticInv' /\ Positive' /\ LastInv'
    BY <1>2, <1>3, <2>6 DEF HeapTypeOK, StaticInv, Positive, LastInv
  <2>8. \A i \in 1 .. n : Keeps(o, i) /\ ~Keeps(o, i)'
    <3>1. ASSUME NEW i \in 1 .. n PROVE ~Keeps(o, i)'
      <4>1. \E d \in Drops' : d.obj = o /\ ~(i > d.index)
        <5>1. b \in Drops' /\ b.obj = o /\ ~(i > b.index)
          BY <1>4, <1>5, <2>3
        <5> QED
          BY <5>1
      <4> QED
        BY <4>1 DEF Keeps, Holds
    <3> QED
      BY <1>4, <3>1
  <2>9. ASSUME NEW x, NEW i, ~(x = o /\ i \in 1 .. n) PROVE Keeps(x, i)' <=> Keeps(x, i)
    <3>1. CASE x = o
      <4>1. ~Keeps(o, i)
        BY <1>4, <2>9, <3>1
      <4>2. i \in DOMAIN slots[o] <=> i \in 1 .. n
        BY <1>3, <1>4, SlotsAre DEF n
      <4> QED
        BY <1>2, <2>9, <3>1, <4>1, <4>2 DEF Keeps, Holds
    <3>2. CASE x # o
      <4>1. TakenOver(x, i)' <=> TakenOver(x, i)
        BY <1>2 DEF TakenOver
      <4>2. (\A d \in Drops' : d.obj = x => i > d.index)
            <=> (\A d \in Drops : d.obj = x => i > d.index)
        BY <1>1, <1>4, <1>5, <2>3, <3>2
      <4> QED
        BY <1>2, <2>4, <2>5, <4>1, <4>2 DEF Keeps, Holds
    <3> QED
      BY <3>1, <3>2
  <2>10. ASSUME NEW v \in Objects
         PROVE  References(v, Suspended)' = References(v, Suspended)
    <3> DEFINE z == 1
    <3>1. /\ z \in Nat /\ 0 < z /\ z <= n + 1 /\ n \in Nat /\ n <= Len(slots[o])
          /\ n = Len(slots[o]) /\ z = 1
      BY <1>4 DEF n
    <3>2. \A i \in z .. n : Keeps(o, i) /\ ~Keeps(o, i)'
      BY <2>8, <3>1
    <3>3. \A x, i : ~(x = o /\ i \in z .. n) =>
                      /\ Keeps(x, i)' <=> Keeps(x, i)
                      /\ Keeps(x, i) => slots'[x][i] = slots[x][i]
      BY <1>2, <2>9
    <3>4. SubSeq(slots[o], z, n) = slots[o]
      <4>1. slots[o] \in Seq(Referents)
        BY <1>3, <1>4, SlotsAre
      <4> QED
        BY <3>1, <4>1, SubSeqFull
    <3> HIDE DEF z
    <3>5. /\ Cardinality(Held(v, Suspended)') \in Nat
          /\ Occurs(v, SubSeq(slots[o], z, n)) \in Nat
          /\ Cardinality(Held(v, Suspended))
               = Cardinality(Held(v, Suspended)') + Occurs(v, SubSeq(slots[o], z, n))
      BY <1>3, <1>4, <2>7, <3>1, <3>2, <3>3, HeldLoses
    <3>6. Occurs(decref_op(v), pre) = Occurs(v, slots[o])
      <4>1. slots[o] \in Seq(Referents)
        BY <1>3, <1>4, SlotsAre
      <4> QED
        BY <4>1, OccursDecrefs DEF pre
    <3>7. /\ Occurs(decref_op(v), todo') \in Nat /\ Occurs(decref_op(v), todo) \in Nat
          /\ Occurs(decref_op(v), todo) + Occurs(decref_op(v), pre) = Occurs(decref_op(v), todo')
      <4>1. One(Now = decref_op(v)) = 0
        BY <1>4 DEF One
      <4>2. Occurs(decref_op(v), todo) \in Nat
        BY <1>3, ReferencesAre
      <4> QED
        BY <2>3, <4>1, <4>2
    <3>8. /\ owned[v] \in Nat /\ Outstanding(v) \in Nat
          /\ References(v, Suspended) =
               owned[v] + Occurs(decref_op(v), todo) + Outstanding(v)
                   + Cardinality(Held(v, Suspended))
      BY <1>3, ReferencesAre
    <3>9. Outstanding(v)' = Outstanding(v) /\ owned'[v] = owned[v]
      BY <1>2 DEF Outstanding
    <3>10. Occurs(v, SubSeq(slots[o], z, n)) = Occurs(decref_op(v), pre)
      BY <3>4, <3>6
    <3>11. Occurs(decref_op(v), pre) \in Nat
      BY <2>3
    <3>12. References(v, Suspended)'
             = owned'[v] + Occurs(decref_op(v), todo') + Outstanding(v)'
                 + Cardinality(Held(v, Suspended)')
      BY ReferencesNext
    <3> QED
      BY <3>5, <3>7, <3>8, <3>9, <3>10, <3>11, <3>12
  <2>11. CountInv'
    BY <1>2, <1>3, <2>6, <2>10 DEF CountInv
  <2> QED
    BY <1>2, <1>3, <2>3, <2>5, <2>7, <2>11 DEF HeapInv
<1> QED
  BY <1>7, <1>8

(* The child a drop comes to: no reference, or one that is still counted.  *)
LEMMA ChildIs ==
  ASSUME HeapInv, todo # <<>>, Now.op = "drop", Now.index < Len(slots[Now.obj])
  PROVE  /\ Keeps(Now.obj, Now.index + 1)
         /\ slots[Now.obj][Now.index + 1] \in Referents
         /\ slots[Now.obj][Now.index + 1] \in Objects =>
              /\ slots[Now.obj][Now.index + 1] \in Steady
              /\ rc[slots[Now.obj][Now.index + 1]] \in Int
              /\ rc[slots[Now.obj][Now.index + 1]] >= 1
<1> DEFINE o == Now.obj
           k == Now.index + 1
           c == slots[o][k]
<1>1. HeapTypeOK /\ ListInv /\ LastInv /\ CountInv
  BY DEF HeapInv
<1>2. Keeps(o, k) /\ k \in 1 .. Len(slots[o]) /\ o \in Objects
  BY DropIs
<1>3. c \in Referents
  BY <1>1, <1>2, SlotsAre
<1> HIDE DEF o, k
<1>4. c \in Objects => c \in Steady /\ rc[c] \in Int /\ rc[c] >= 1
  <2> SUFFICES ASSUME c \in Objects PROVE c \in Steady /\ rc[c] \in Int /\ rc[c] >= 1
    OBVIOUS
  <2>1. <<o, k>> \in Held(c, Suspended)
    BY <1>1, <1>2, HeldKeeps
  <2>2. Held(c, Suspended) # {}
    BY <2>1
  <2>3. rc[c] \in Int
    BY <1>1 DEF HeapTypeOK
  <2> HIDE DEF c
  <2> QED
    BY <1>1, <2>2, <2>3, ReferredIsSteady
<1> QED
  BY <1>2, <1>3, <1>4 DEF o, k

(* A child is passed over, or loses the reference that its parent had.     *)
LEMMA PassedKeeps ==
  ASSUME HeapInv, todo # <<>>, Now.op = "drop", Now.at = "children",
         Now.index < Len(slots[Now.obj]),
         NEW o, o = Now.obj, NEW k, k = Now.index + 1, NEW c, c = slots[o][k],
         todo' = <<drop_op("children", o, Now.parent, k)>> \o Tail(todo),
         UNCHANGED <<shape, slots, owned, last, fault>>,
         \/ ~is_dynamic(c) /\ UNCHANGED rc
         \/ is_shared(c) /\ rc' = [rc EXCEPT ![c] = @ - 1]
  PROVE  HeapInv'
<1> DEFINE e == drop_op("children", o, Now.parent, k)
           n == Len(slots[o])
<1>1. /\ HeapTypeOK /\ ListInv /\ WalkInv /\ LastInv /\ CountInv /\ Positive /\ StaticInv
      /\ fault # "other"
  BY DEF HeapInv
<1>2. /\ Now \in DropSteps /\ Now \in Drops /\ \A d \in Drops \ {Now} : d.obj # o
      /\ o \in Objects /\ o \in Gone /\ o \notin Suspended
      /\ n \in Nat /\ n <= MaxSlots /\ k \in 1 .. n
      /\ \A v : Now # decref_op(v)
      /\ \A i : Keeps(o, i) <=> i \in k .. n
  BY DropIs
<1>3. /\ Keeps(o, k) /\ c \in Referents
      /\ (c \in Objects => c \in Steady /\ rc[c] \in Int /\ rc[c] >= 1)
  BY ChildIs
<1>4. /\ e \in DropSteps /\ e.obj = o /\ e.parent = Now.parent /\ e.index = k /\ e.at = "children"
  <2>1. k \in 0 .. MaxSlots
    BY <1>2, RefCountAssumption DEF RefCountAssumption
  <2> HIDE DEF n
  <2>2. e \in DropSteps
    BY <1>2, <2>1, StepIs DEF DropSteps
  <2> QED
    BY <2>2, MadeSteps
<1> HIDE DEF e
<1>5. /\ c \in Objects => rc[c] >= 2 /\ rc' = [rc EXCEPT ![c] = @ - 1]
      /\ c \notin Objects => UNCHANGED rc
  <2>1. c \in Objects => c # Null
    BY RefCountAssumption DEF RefCountAssumption
  <2> QED
    BY <1>3, <2>1 DEF is_dynamic, is_shared, Referents
<1>6. /\ HeapTypeOK'
      /\ \A x \in Objects \cup Static : rc'[x] = IF x \in Objects /\ x = c THEN rc[x] - 1 ELSE rc[x]
  <2>1. rc \in [Objects \cup Static -> Int]
    BY <1>1 DEF HeapTypeOK
  <2>2. /\ rc' \in [Objects \cup Static -> Int]
        /\ \A x \in Objects \cup Static :
              rc'[x] = IF x \in Objects /\ x = c THEN rc[x] - 1 ELSE rc[x]
    <3>1. CASE c \in Objects
      BY <1>5, <2>1, <3>1
    <3>2. CASE c \notin Objects
      BY <1>5, <2>1, <3>2
    <3> QED
      BY <3>1, <3>2
  <2> QED
    BY <1>1, <2>2 DEF HeapTypeOK
<1>7. /\ ListInv' /\ Drops' = (Drops \ {Now}) \cup {e}
      /\ \A v : /\ Occurs(decref_op(v), todo') \in Nat
                /\ Occurs(decref_op(v), todo)
                     = One(Now = decref_op(v)) + Occurs(decref_op(v), todo')
  <2>1. todo' = <<e>> \o Tail(todo)
    BY DEF e
  <2>2. \A d \in Drops : d.obj = e.obj => d = Now
    BY <1>2, <1>4
  <2> QED
    BY <1>1, <1>2, <1>4, <2>1, <2>2, ListGoesOn
<1>8. Live' = Live
  BY DEF Live
<1>9. \A x \in Gone : x \in Objects /\ rc'[x] = rc[x]
  <2>1. \A x \in Gone : x \in Objects /\ x # c
    BY <1>1, <1>3, SuspendedAbove DEF Gone, Current, WalkInv, Steady
  <2> QED
    BY <1>6, <2>1
<1>10. WalkInv' /\ Suspended' = Suspended /\ Current' = Current
  <2>1. e.obj = Now.obj /\ e.index <= Len(slots[Now.obj]) /\ e.at # "new" /\ e.at # "back"
    BY <1>2, <1>4
  <2> QED
    BY <1>1, <1>2, <1>4, <1>7, <1>8, <1>9, <2>1, WalkGoesOn
<1>11. Steady' = Steady
  BY <1>8, <1>10 DEF Steady, Gone
<1>12. StaticInv' /\ Positive' /\ LastInv'
  <2>1. \A x \in Steady : x \in Objects /\ rc[x] \in Int
    BY <1>1 DEF Steady, Live, HeapTypeOK
  <2>2. Positive'
    BY <1>1, <1>5, <1>6, <1>11, <2>1 DEF Positive
  <2>3. StaticInv'
    BY <1>1, <1>6, RefCountAssumption DEF StaticInv, RefCountAssumption, Static
  <2>4. LastInv'
    BY <1>1, <1>5, <1>6, <1>11, <2>1, LastKept
  <2> QED
    BY <2>2, <2>3, <2>4
<1>13. ASSUME NEW x, NEW i PROVE Keeps(x, i)' <=> Keeps(x, i) /\ ~(x = o /\ i = k)
  <2>1. TakenOver(x, i)' <=> TakenOver(x, i)
    BY DEF TakenOver
  <2>2. x \in Suspended => rc'[x] = rc[x]
    BY <1>9 DEF Gone
  <2>3. CASE x = o
    <3>1. (\A d \in Drops' : d.obj = o => i > d.index) <=> i > k
      BY <1>2, <1>4, <1>7
    <3>2. ~TakenOver(o, i)
      BY <1>1, <1>2, TakenOverSteady
    <3>3. DOMAIN slots[o] = 1 .. n /\ o \in Live
      BY <1>1, <1>2, <1>3, SlotsAre DEF Keeps
    <3>4. Keeps(o, i)' <=> i \in 1 .. n /\ i > k
      BY <1>2, <1>8, <1>10, <2>1, <2>3, <3>1, <3>2, <3>3 DEF Keeps, Holds
    <3>5. Keeps(o, i) <=> i \in k .. n
      BY <1>2
    <3> QED
      BY <1>2, <2>3, <3>4, <3>5
  <2>4. CASE x # o
    <3>1. (\A d \in Drops' : d.obj = x => i > d.index)
          <=> (\A d \in Drops : d.obj = x => i > d.index)
      BY <1>2, <1>4, <1>7, <2>4
    <3> QED
      BY <1>8, <1>10, <2>1, <2>2, <2>4, <3>1 DEF Keeps, Holds
  <2> QED
    BY <2>3, <2>4
<1>14. ASSUME NEW v \in Objects
       PROVE  /\ Occurs(decref_op(v), todo') \in Nat /\ Cardinality(Held(v, Suspended)') \in Nat
              /\ Occurs(decref_op(v), todo) + Cardinality(Held(v, Suspended))
                   = Occurs(decref_op(v), todo') + Cardinality(Held(v, Suspended)') + One(c = v)
  <2>1. One(Now = decref_op(v)) = 0 /\ One(c = v) \in Nat
    BY <1>2 DEF One
  <2>2. /\ Cardinality(Held(v, Suspended)') \in Nat
        /\ Cardinality(Held(v, Suspended))
             = Cardinality(Held(v, Suspended)') + One(slots[o][k] = v)
    BY <1>1, <1>3, <1>6, <1>13, HeldLosesOne
  <2>3. One(slots[o][k] = v) = One(c = v)
    OBVIOUS
  <2>4. Occurs(decref_op(v), todo) = Occurs(decref_op(v), todo')
        /\ Occurs(decref_op(v), todo') \in Nat
    BY <1>7, <2>1
  <2> QED
    BY <2>1, <2>2, <2>3, <2>4
<1>15. CountInv'
  <2>1. \A v \in Steady \ {c} : rc'[v] = rc[v]
    BY <1>6 DEF Steady, Live
  <2>2. c \in Objects => c \in Steady /\ c \in Steady' /\ rc'[c] = rc[c] - 1
    BY <1>3, <1>6, <1>11
  <2>3. \A v \in Objects \ {c} : v \in Steady' <=> v \in Steady
    BY <1>11
  <2>4. UNCHANGED <<owned, last>>
    OBVIOUS
  <2>5. c \in Objects => /\ c \in Steady
                         /\ \/ rc[c] = 1 /\ c \notin Steady'
                            \/ rc'[c] = rc[c] - 1 /\ c \in Steady'
    BY <2>2
  <2> QED
    BY <1>14, <2>1, <2>3, <2>4, <2>5, DropCounts
<1> QED
  BY <1>1, <1>6, <1>7, <1>10, <1>12, <1>15 DEF HeapInv

(* The walk goes down into a child that is dead, to come back later.       *)
LEMMA DownKeeps ==
  ASSUME HeapInv, process_child,
         NEW o, o = Now.obj, NEW k, k = Now.index + 1, NEW c, c = slots[o][k],
         is_dynamic(c), ~is_shared(c), k < Len(slots[o])
  PROVE  HeapInv'
<1>1. /\ todo # <<>> /\ Now.op = "drop" /\ Now.at = "children"
      /\ todo' = <<drop_op("new", c, o, 0)>> \o Tail(todo)
      /\ rc' = [rc EXCEPT ![o] = Now.index]
      /\ slots' = [slots EXCEPT ![o] = [@ EXCEPT ![k] = Now.parent]]
      /\ UNCHANGED <<shape, owned, last, fault>>
  BY DEF process_child, Dropping, Doing, Continue
<1> DEFINE e == drop_op("new", c, o, 0)
           n == Len(slots[o])
           p == Now.parent
<1>2. /\ HeapTypeOK /\ ListInv /\ WalkInv /\ LastInv /\ CountInv /\ Positive /\ StaticInv
      /\ fault # "other"
  BY DEF HeapInv
<1>3. /\ Now \in DropSteps /\ Now \in Drops /\ \A d \in Drops \ {Now} : d.obj # o
      /\ o \in Objects /\ o \in Live /\ o \in Gone /\ o \notin Suspended
      /\ n \in Nat /\ n <= MaxSlots /\ k \in 1 .. n /\ k < n /\ Now.index \in Nat
      /\ \A v : Now # decref_op(v)
      /\ \A i : Keeps(o, i) <=> i \in k .. n
      /\ p \in Referents
  <2>1. p \in Suspended \cup {Null}
    BY <1>1, DropIs
  <2>2. p \in Referents
    BY <1>2, <2>1, SuspendedAbove DEF Referents
  <2> QED
    BY <1>1, <2>2, DropIs
<1>4. /\ Keeps(o, k) /\ c \in Referents
      /\ (c \in Objects => c \in Steady /\ rc[c] \in Int /\ rc[c] >= 1)
  <2>1. Now.index < Len(slots[Now.obj])
    BY <1>3
  <2> QED
    BY <1>1, <2>1, ChildIs
<1>5. c \in Objects /\ c \in Steady /\ rc[c] = 1 /\ c # o
  BY <1>3, <1>4 DEF is_dynamic, is_shared, Referents, Steady
<1>6. e \in DropSteps /\ e.obj = c /\ e.parent = o /\ e.index = 0 /\ e.at = "new"
  <2>1. 0 \in 0 .. MaxSlots /\ o \in Referents
    BY <1>3, RefCountAssumption DEF RefCountAssumption, Referents
  <2>2. e \in DropSteps
    BY <1>5, <2>1 DEF DropSteps
  <2> QED
    BY <2>2, MadeSteps
<1> HIDE DEF e
<1>7. /\ HeapTypeOK'
      /\ \A x \in Objects \cup Static : x # o => rc'[x] = rc[x] /\ slots'[x] = slots[x]
      /\ rc'[o] = Now.index /\ slots'[o] = [slots[o] EXCEPT ![k] = p]
      /\ DOMAIN slots'[o] = 1 .. n /\ \A i \in 1 .. n : i # k => slots'[o][i] = slots[o][i]
  <2>1. /\ rc \in [Objects \cup Static -> Int]
        /\ slots \in [Objects \cup Static -> Seq(Referents)]
        /\ \A x \in Objects \cup Static : Len(slots[x]) <= MaxSlots
    BY <1>2 DEF HeapTypeOK, Referents
  <2>2. slots[o] \in Seq(Referents) /\ DOMAIN slots[o] = 1 .. n
    BY <1>2, <1>3, SlotsAre
  <2> DEFINE s == [slots[o] EXCEPT ![k] = p]
  <2>3. s \in Seq(Referents) /\ Len(s) = n /\ DOMAIN s = 1 .. n
    BY <1>3, <2>2
  <2>4. \A i \in 1 .. n : i # k => s[i] = slots[o][i]
    BY <2>2
  <2> HIDE DEF s
  <2>5. slots' = [slots EXCEPT ![o] = s]
    BY <1>1 DEF s
  <2>6. /\ slots' \in [Objects \cup Static -> Seq(Referents)] /\ slots'[o] = s
        /\ \A x \in Objects \cup Static : x # o => slots'[x] = slots[x]
    BY <1>3, <2>1, <2>3, <2>5
  <2>7. \A x \in Objects \cup Static : Len(slots'[x]) <= MaxSlots
    <3>1. ASSUME NEW x \in Objects \cup Static PROVE Len(slots'[x]) <= MaxSlots
      BY <1>3, <2>1, <2>3, <2>6
    <3> QED
      BY <3>1
  <2>8. /\ rc' \in [Objects \cup Static -> Int] /\ rc'[o] = Now.index
        /\ \A x \in Objects \cup Static : x # o => rc'[x] = rc[x]
    BY <1>1, <1>3, <2>1
  <2> QED
    BY <1>1, <1>2, <2>3, <2>4, <2>6, <2>7, <2>8 DEF HeapTypeOK, Referents, s
<1>8. /\ ListInv' /\ Drops' = (Drops \ {Now}) \cup {e}
      /\ \A v : /\ Occurs(decref_op(v), todo') \in Nat
                /\ Occurs(decref_op(v), todo)
                     = One(Now = decref_op(v)) + Occurs(decref_op(v), todo')
  <2>1. todo' = <<e>> \o Tail(todo)
    BY <1>1 DEF e
  <2>2. \A d \in Drops : d.obj = e.obj => d = Now
    BY <1>5, <1>6 DEF Steady, Gone, Current
  <2> QED
    BY <1>1, <1>2, <1>3, <1>6, <2>1, <2>2, ListGoesOn
<1>9. Live' = Live /\ Live \subseteq Objects
  BY <1>1 DEF Live
<1>10. WalkInv' /\ Suspended' = Suspended \cup {o} /\ Current' = (Current \ {o}) \cup {c}
  <2> DEFINE d == Now
             i == Now.index
  <2>1. /\ d \in Drops /\ (\A x \in Drops \ {d} : x.obj # d.obj) /\ d.obj = o /\ d.parent = p
        /\ Drops' = (Drops \ {d}) \cup {e}
        /\ e.obj \in Steady /\ e.parent = d.obj /\ e.index = 0 /\ e.at = "new"
        /\ i \in Nat /\ i + 1 < Len(slots[d.obj])
        /\ \A x \in Live \ {d.obj} : rc'[x] = rc[x] /\ slots'[x] = slots[x]
        /\ rc'[d.obj] = i /\ slots'[d.obj] = [slots[d.obj] EXCEPT ![i + 1] = d.parent]
    BY <1>3, <1>5, <1>6, <1>7, <1>8, <1>9
  <2> HIDE DEF d, i
  <2>2. /\ WalkInv' /\ Suspended' = Suspended \cup {d.obj}
        /\ Current' = (Current \ {d.obj}) \cup {e.obj}
    BY <1>2, <1>9, <2>1, WalkDown
  <2> QED
    BY <1>6, <2>1, <2>2
<1>11. Steady' = Steady \ {c}
  BY <1>3, <1>5, <1>9, <1>10 DEF Steady, Gone
<1>12. \A x \in Steady : x \in Objects /\ x # o /\ rc'[x] = rc[x] /\ slots'[x] = slots[x]
  BY <1>3, <1>7, <1>9 DEF Steady
<1>13. StaticInv' /\ Positive' /\ LastInv'
  <2>1. Empty # o /\ \A x \in Steady \cup Static : slots'[x] = slots[x]
    BY <1>3, <1>7, <1>12, RefCountAssumption DEF RefCountAssumption, Static
  <2>2. Positive'
    BY <1>2, <1>11, <1>12 DEF Positive
  <2>3. StaticInv'
    BY <1>1, <1>2, <1>7, <2>1 DEF StaticInv, Static
  <2>4. LastInv'
    BY <1>1, <1>2, <1>11, <1>12, <2>1, LastKept
  <2> QED
    BY <2>2, <2>3, <2>4
<1>14. ASSUME NEW x, NEW i PROVE Keeps(x, i)' <=> Keeps(x, i) /\ ~(x = o /\ i = k)
  <2>1. TakenOver(x, i)' <=> TakenOver(x, i)
    BY <1>1 DEF TakenOver
  <2>2. CASE x = o
    <3>1. \A d \in Drops' : d.obj # o
      BY <1>3, <1>5, <1>6, <1>8
    <3>2. ~TakenOver(o, i)
      BY <1>2, <1>3, TakenOverSteady
    <3>3. Keeps(o, i)' <=> i \in 1 .. n /\ i > rc'[o] + 1
      BY <1>3, <1>7, <1>9, <1>10, <2>1, <2>2, <3>1, <3>2 DEF Keeps, Holds
    <3>4. Keeps(o, i) <=> i \in k .. n
      BY <1>3
    <3> QED
      BY <1>3, <1>7, <2>2, <3>3, <3>4
  <2>3. CASE x # o
    <3>1. x \in Live => rc'[x] = rc[x] /\ slots'[x] = slots[x] /\ \A j \in DOMAIN slots[x] : j > 0
      BY <1>2, <1>7, <1>9, <2>3, SlotsAre
    <3>2. i > 0 => ((\A d \in Drops' : d.obj = x => i > d.index)
                      <=> (\A d \in Drops : d.obj = x => i > d.index))
      <4>1. ASSUME NEW d \in Drops, d.obj = c PROVE FALSE
        BY <1>5, <4>1 DEF Steady, Gone, Current
      <4> QED
        BY <1>3, <1>6, <1>8, <2>3, <4>1
    <3>3. x \in Suspended' <=> x \in Suspended
      BY <1>10, <2>3
    <3> QED
      BY <1>9, <2>1, <2>3, <3>1, <3>2, <3>3 DEF Keeps, Holds
  <2> QED
    BY <2>2, <2>3
<1>15. ASSUME NEW v \in Objects
       PROVE  /\ Occurs(decref_op(v), todo') \in Nat /\ Cardinality(Held(v, Suspended)') \in Nat
              /\ Occurs(decref_op(v), todo) + Cardinality(Held(v, Suspended))
                   = Occurs(decref_op(v), todo') + Cardinality(Held(v, Suspended)') + One(c = v)
  <2>1. One(Now = decref_op(v)) = 0 /\ One(c = v) \in Nat
    BY <1>3 DEF One
  <2>2. \A x, i : Keeps(x, i)' => slots'[x][i] = slots[x][i]
    <3>1. ASSUME NEW x, NEW i, Keeps(x, i)' PROVE slots'[x][i] = slots[x][i]
      <4>1. Keeps(x, i) /\ ~(x = o /\ i = k) /\ x \in Objects
        BY <1>9, <1>14, <3>1 DEF Keeps
      <4> QED
        BY <1>3, <1>7, <4>1
    <3> QED
      BY <3>1
  <2>3. /\ Cardinality(Held(v, Suspended)') \in Nat
        /\ Cardinality(Held(v, Suspended))
             = Cardinality(Held(v, Suspended)') + One(slots[o][k] = v)
    <3>1. HeapTypeOK /\ HeapTypeOK' /\ Keeps(o, k)
      BY <1>2, <1>4, <1>7
    <3> QED
      BY <1>14, <2>2, <3>1, HeldLosesOne
  <2>4. One(slots[o][k] = v) = One(c = v)
    OBVIOUS
  <2> QED
    BY <1>8, <2>1, <2>3, <2>4
<1>16. CountInv'
  <2>1. \A v \in Steady \ {c} : rc'[v] = rc[v]
    BY <1>12
  <2>2. c \in Objects => /\ c \in Steady
                         /\ \/ rc[c] = 1 /\ c \notin Steady'
                            \/ rc'[c] = rc[c] - 1 /\ c \in Steady'
    BY <1>5, <1>11
  <2>3. \A v \in Objects \ {c} : v \in Steady' <=> v \in Steady
    BY <1>11
  <2>4. UNCHANGED <<owned, last>>
    BY <1>1
  <2> QED
    BY <1>15, <2>1, <2>2, <2>3, <2>4, DropCounts
<1> QED
  BY <1>1, <1>2, <1>7, <1>8, <1>10, <1>13, <1>16 DEF HeapInv

(* An object is freed.                                                     *)
LEMMA FreeIs ==
  ASSUME HeapTypeOK, NEW o \in Objects, free(o)
  PROVE  /\ HeapTypeOK' \/ UNCHANGED <<owned, fault>> => HeapTypeOK'
         /\ Live' = Live \ {o}
         /\ \A x \in Objects \cup Static : x # o => rc'[x] = rc[x] /\ slots'[x] = slots[x]
<1>1. /\ rc \in [Objects \cup Static -> Int] /\ slots \in [Objects \cup Static -> Seq(Referents)]
      /\ shape \in [Objects \cup Static -> {"free", "block", "array", "external"}]
      /\ \A x \in Objects \cup Static : Len(slots[x]) <= MaxSlots
  BY DEF HeapTypeOK, Referents
<1>2. /\ shape' = [shape EXCEPT ![o] = "free"] /\ slots' = [slots EXCEPT ![o] = <<>>]
      /\ rc' = [rc EXCEPT ![o] = 0]
  BY DEF free
<1>3. /\ rc' \in [Objects \cup Static -> Int]
      /\ \A x \in Objects \cup Static : x # o => rc'[x] = rc[x]
  BY <1>1, <1>2
<1>4. /\ slots' \in [Objects \cup Static -> Seq(Referents)] /\ slots'[o] = <<>>
      /\ \A x \in Objects \cup Static : x # o => slots'[x] = slots[x]
  BY <1>1, <1>2
<1>5. /\ shape' \in [Objects \cup Static -> {"free", "block", "array", "external"}]
      /\ shape'[o] = "free" /\ \A x \in Objects \cup Static : x # o => shape'[x] = shape[x]
  BY <1>1, <1>2
<1>6. \A x \in Objects \cup Static : Len(slots'[x]) <= MaxSlots
  <2>1. ASSUME NEW x \in Objects \cup Static PROVE Len(slots'[x]) <= MaxSlots
    <3>1. CASE x = o
      BY <1>4, <3>1, RefCountAssumption DEF RefCountAssumption
    <3>2. CASE x # o
      BY <1>1, <1>4, <3>2
    <3> QED
      BY <3>1, <3>2
  <2> QED
    BY <2>1
<1>7. Live' = Live \ {o}
  BY <1>5 DEF Live
<1> QED
  BY <1>3, <1>4, <1>5, <1>6, <1>7 DEF HeapTypeOK, Referents

(* An object that is freed at its last step: the walk goes on with e, if   *)
(* with anything, and one reference, to c, is gone, if any.                *)
LEMMA LeaveKeeps ==
  ASSUME HeapInv, todo # <<>>, Now.op = "drop", NEW o, o = Now.obj, free(o),
         UNCHANGED <<owned, last, fault>>, ListInv', WalkInv',
         \A v \in Objects :
            /\ Occurs(decref_op(v), todo') \in Nat
            /\ Occurs(decref_op(v), todo) = Occurs(decref_op(v), todo'),
         NEW c, c \in Steady \cup {Null}, c \in Objects => rc[c] = 1,
         Gone' = (Gone \ {o}) \cup ({c} \ {Null}),
         \A x, i : Keeps(x, i)' <=> Keeps(x, i) /\ x # o,
         \/ c = Null /\ \A i : ~Keeps(o, i)
         \/ \E k : /\ Keeps(o, k) /\ slots[o][k] = c
                   /\ \A i : Keeps(o, i) => i = k
  PROVE  HeapInv'
<1>1. /\ HeapTypeOK /\ ListInv /\ WalkInv /\ LastInv /\ CountInv /\ Positive /\ StaticInv
      /\ fault # "other"
  BY DEF HeapInv
<1>2. o \in Objects /\ o \in Live /\ o \in Gone /\ Live \subseteq Objects /\ Null \notin Objects
  BY <1>1, DropIs, SuspendedAbove, RefCountAssumption DEF RefCountAssumption
<1>3. /\ HeapTypeOK' /\ Live' = Live \ {o}
      /\ \A x \in Objects \cup Static : x # o => rc'[x] = rc[x] /\ slots'[x] = slots[x]
  BY <1>1, <1>2, FreeIs
<1>4. Steady' = Steady \ {c}
  BY <1>2, <1>3 DEF Steady
<1>5. \A x \in Steady : x \in Objects /\ x # o /\ rc'[x] = rc[x] /\ slots'[x] = slots[x]
  BY <1>2, <1>3 DEF Steady
<1>6. Empty # o /\ shape'[Empty] = shape[Empty]
  <2>1. Empty # o
    BY <1>2, RefCountAssumption DEF RefCountAssumption
  <2>2. shape \in [Objects \cup Static -> {"free", "block", "array", "external"}]
    BY <1>1 DEF HeapTypeOK
  <2> QED
    BY <2>1, <2>2 DEF free, Static
<1>7. \A x \in Steady \cup Static : slots'[x] = slots[x]
  BY <1>3, <1>5, <1>6 DEF Static
<1>8. Positive' /\ StaticInv' /\ LastInv'
  <2>1. Positive'
    BY <1>1, <1>4, <1>5 DEF Positive
  <2>2. StaticInv'
    BY <1>1, <1>3, <1>6 DEF StaticInv, Static
  <2>3. LastInv'
    BY <1>1, <1>4, <1>5, <1>7, LastKept
  <2> QED
    BY <2>1, <2>2, <2>3
<1>9. \A x, i : Keeps(x, i)' => slots'[x][i] = slots[x][i]
  BY <1>2, <1>3 DEF Keeps
<1>10. ASSUME NEW v \in Objects
       PROVE  /\ Cardinality(Held(v, Suspended)') \in Nat
              /\ Cardinality(Held(v, Suspended)) = Cardinality(Held(v, Suspended)') + One(c = v)
  <2>1. CASE c = Null /\ \A i : ~Keeps(o, i)
    <3>1. \A x, i : Keeps(x, i)' <=> Keeps(x, i)
      BY <2>1
    <3>2. Held(v, Suspended)' = Held(v, Suspended)
      BY <1>1, <1>3, <1>9, <3>1, HeldSame
    <3>3. One(c = v) = 0
      BY <1>2, <2>1 DEF One
    <3>4. Cardinality(Held(v, Suspended)) \in Nat
      BY <1>1, ReferencesAre
    <3> QED
      BY <3>2, <3>3, <3>4
  <2>2. ASSUME NEW k, Keeps(o, k), slots[o][k] = c, \A i : Keeps(o, i) => i = k
        PROVE  /\ Cardinality(Held(v, Suspended)') \in Nat
               /\ Cardinality(Held(v, Suspended)) = Cardinality(Held(v, Suspended)') + One(c = v)
    <3>1. \A x, i : Keeps(x, i)' <=> Keeps(x, i) /\ ~(x = o /\ i = k)
      BY <2>2
    <3>2. /\ Cardinality(Held(v, Suspended)') \in Nat
          /\ Cardinality(Held(v, Suspended))
               = Cardinality(Held(v, Suspended)') + One(slots[o][k] = v)
      BY <1>1, <1>3, <1>9, <2>2, <3>1, HeldLosesOne
    <3> QED
      BY <2>2, <3>2
  <2> QED
    BY <2>1, <2>2
<1>11. CountInv'
  <2>1. \A v \in Objects :
            /\ Occurs(decref_op(v), todo') \in Nat /\ Cardinality(Held(v, Suspended)') \in Nat
            /\ Occurs(decref_op(v), todo) + Cardinality(Held(v, Suspended))
                 = Occurs(decref_op(v), todo') + Cardinality(Held(v, Suspended)') + One(c = v)
    <3> SUFFICES ASSUME NEW v \in Objects
                 PROVE  /\ Occurs(decref_op(v), todo') \in Nat
                        /\ Cardinality(Held(v, Suspended)') \in Nat
                        /\ Occurs(decref_op(v), todo) + Cardinality(Held(v, Suspended))
                             = Occurs(decref_op(v), todo') + Cardinality(Held(v, Suspended)')
                               + One(c = v)
      OBVIOUS
    <3>1. One(c = v) \in Nat
      BY DEF One
    <3>2. /\ Occurs(decref_op(v), todo') \in Nat
          /\ Occurs(decref_op(v), todo) = Occurs(decref_op(v), todo')
      OBVIOUS
    <3>3. /\ Cardinality(Held(v, Suspended)') \in Nat
          /\ Cardinality(Held(v, Suspended)) = Cardinality(Held(v, Suspended)') + One(c = v)
      BY <1>10
    <3> QED
      BY <3>1, <3>2, <3>3
  <2>2. \A v \in Steady \ {c} : rc'[v] = rc[v]
    BY <1>5
  <2>3. c \in Objects => /\ c \in Steady
                         /\ \/ rc[c] = 1 /\ c \notin Steady'
                            \/ rc'[c] = rc[c] - 1 /\ c \in Steady'
    BY <1>2, <1>4
  <2>4. \A v \in Objects \ {c} : v \in Steady' <=> v \in Steady
    BY <1>4
  <2> QED
    BY <2>1, <2>2, <2>3, <2>4, DropCounts
<1> QED
  BY <1>1, <1>3, <1>8, <1>11 DEF HeapInv

(* The walk leaves an object at its last child, which is dead.             *)
LEMMA LastChildKeeps ==
  ASSUME HeapInv, process_child,
         NEW o, o = Now.obj, NEW k, k = Now.index + 1, NEW c, c = slots[o][k],
         is_dynamic(c), ~is_shared(c), k = Len(slots[o])
  PROVE  HeapInv'
<1> DEFINE e == drop_op("new", c, Now.parent, 0)
<1>1. /\ todo # <<>> /\ Now.op = "drop" /\ Now.at = "children"
      /\ todo' = <<e>> \o Tail(todo) /\ free(o)
      /\ UNCHANGED <<owned, last, fault>>
  BY DEF process_child, Dropping, Doing, Continue
<1>2. HeapTypeOK /\ ListInv /\ WalkInv /\ LastInv /\ CountInv
  BY DEF HeapInv
<1>3. /\ Now \in DropSteps /\ Now \in Drops /\ \A d \in Drops \ {Now} : d.obj # o
      /\ o \in Objects /\ o \in Live /\ o \in Gone /\ o \notin Suspended
      /\ \A v : Now # decref_op(v)
      /\ \A i : Keeps(o, i) <=> i \in k .. k
      /\ Now.parent \in Referents /\ k \in Nat
  <2>1. Now.parent \in Suspended \cup {Null}
    BY <1>1, DropIs
  <2>2. Now.parent \in Referents
    BY <1>2, <2>1, SuspendedAbove DEF Referents
  <2> QED
    BY <1>1, <2>2, DropIs
<1>4. /\ Keeps(o, k) /\ c \in Referents
      /\ (c \in Objects => c \in Steady /\ rc[c] \in Int /\ rc[c] >= 1)
  <2>1. Now.index \in Nat /\ Now.index < Len(slots[Now.obj])
    BY <1>1, DropIs
  <2> QED
    BY <1>1, <2>1, ChildIs
<1>5. c \in Objects /\ c \in Steady /\ rc[c] = 1 /\ c # o /\ c # Null
  BY <1>3, <1>4 DEF is_dynamic, is_shared, Referents, Steady
<1>6. e \in DropSteps /\ e.obj = c /\ e.parent = Now.parent /\ e.index = 0 /\ e.at = "new"
  <2>1. 0 \in 0 .. MaxSlots
    BY RefCountAssumption DEF RefCountAssumption
  <2>2. e \in DropSteps
    BY <1>3, <1>5, <2>1 DEF DropSteps
  <2> QED
    BY <2>2, MadeSteps
<1> HIDE DEF e
<1>7. /\ ListInv' /\ Drops' = (Drops \ {Now}) \cup {e}
      /\ \A v : /\ Occurs(decref_op(v), todo') \in Nat
                /\ Occurs(decref_op(v), todo)
                     = One(Now = decref_op(v)) + Occurs(decref_op(v), todo')
  <2>1. \A d \in Drops : d.obj = e.obj => d = Now
    BY <1>5, <1>6 DEF Steady, Gone, Current
  <2> QED
    BY <1>1, <1>2, <1>3, <1>6, <2>1, ListGoesOn
<1>8. /\ Live' = Live \ {o} /\ Live \subseteq Objects
      /\ \A x \in Objects \cup Static : x # o => rc'[x] = rc[x] /\ slots'[x] = slots[x]
  BY <1>1, <1>2, <1>3, FreeIs, SuspendedAbove
<1>9. WalkInv' /\ Suspended' = Suspended /\ Current' = (Current \ {o}) \cup {c}
  <2> DEFINE d == Now
  <2>1. /\ d \in Drops /\ (\A x \in Drops \ {d} : x.obj # d.obj) /\ d.obj = o
        /\ Drops' = (Drops \ {d}) \cup {e}
        /\ e.obj \in Steady /\ e.parent = d.parent /\ e.index = 0 /\ e.at = "new"
        /\ Live' = Live \ {d.obj}
        /\ \A x \in Live \ {d.obj} : rc'[x] = rc[x] /\ slots'[x] = slots[x]
    BY <1>3, <1>5, <1>6, <1>7, <1>8
  <2> HIDE DEF d
  <2>2. /\ WalkInv' /\ Suspended' = Suspended
        /\ Current' = (Current \ {d.obj}) \cup {e.obj}
    BY <1>2, <2>1, WalkLeaves
  <2> QED
    BY <1>6, <2>1, <2>2
<1>10. Gone' = (Gone \ {o}) \cup ({c} \ {Null})
  BY <1>3, <1>5, <1>9 DEF Gone
<1>11. ASSUME NEW x, NEW i PROVE Keeps(x, i)' <=> Keeps(x, i) /\ x # o
  <2>1. TakenOver(x, i)' <=> TakenOver(x, i)
    BY <1>1 DEF TakenOver
  <2>2. CASE x = o
    BY <1>8, <2>2 DEF Keeps
  <2>3. CASE x # o
    <3>1. x \in Live => rc'[x] = rc[x] /\ slots'[x] = slots[x] /\ \A j \in DOMAIN slots[x] : j > 0
      BY <1>2, <1>8, <2>3, SlotsAre
    <3>2. i > 0 => ((\A d \in Drops' : d.obj = x => i > d.index)
                      <=> (\A d \in Drops : d.obj = x => i > d.index))
      <4>1. ASSUME NEW d \in Drops, d.obj = c PROVE FALSE
        BY <1>5, <4>1 DEF Steady, Gone, Current
      <4> QED
        BY <1>3, <1>6, <1>7, <2>3, <4>1
    <3> QED
      BY <1>8, <1>9, <2>1, <2>3, <3>1, <3>2 DEF Keeps, Holds
  <2> QED
    BY <2>2, <2>3
<1>12. \E j : /\ Keeps(o, j) /\ slots[o][j] = c
              /\ \A i : Keeps(o, i) => i = j
  BY <1>3, <1>4
<1>13. \A v \in Objects : /\ Occurs(decref_op(v), todo') \in Nat
                          /\ Occurs(decref_op(v), todo) = Occurs(decref_op(v), todo')
  <2>1. \A v : One(Now = decref_op(v)) = 0
    BY <1>3 DEF One
  <2> QED
    BY <1>7, <2>1
<1> QED
  BY <1>1, <1>5, <1>7, <1>9, <1>10, <1>11, <1>12, <1>13, LeaveKeeps

(* One child of an object.                                                 *)
LEMMA ChildKeeps ==
  ASSUME HeapInv, process_child PROVE HeapInv'
<1>1. PICK o : o = Now.obj
  OBVIOUS
<1>2. PICK k : k = Now.index + 1
  OBVIOUS
<1>3. PICK c : c = slots[o][k]
  OBVIOUS
<1>4. /\ todo # <<>> /\ Now.op = "drop" /\ Now.at = "children" /\ Now.index < Len(slots[Now.obj])
      /\ UNCHANGED <<owned, last, fault>>
      /\ \/ /\ ~is_dynamic(c) \/ is_shared(c)
            /\ todo' = <<drop_op("children", o, Now.parent, k)>> \o Tail(todo)
            /\ UNCHANGED <<shape, slots>>
            /\ \/ ~is_dynamic(c) /\ UNCHANGED rc
               \/ is_shared(c) /\ rc' = [rc EXCEPT ![c] = @ - 1]
         \/ is_dynamic(c) /\ ~is_shared(c)
  BY <1>1, <1>2, <1>3 DEF process_child, Dropping, Doing, Continue
<1>5. CASE is_dynamic(c) /\ ~is_shared(c)
  <2>1. k \in Nat /\ k <= Len(slots[o]) /\ Len(slots[o]) \in Nat
    BY <1>1, <1>2, <1>4, DropIs
  <2>2. CASE k < Len(slots[o])
    BY <1>1, <1>2, <1>3, <1>5, <2>2, DownKeeps
  <2>3. CASE k = Len(slots[o])
    BY <1>1, <1>2, <1>3, <1>5, <2>3, LastChildKeeps
  <2> QED
    BY <2>1, <2>2, <2>3
<1>6. CASE ~(is_dynamic(c) /\ ~is_shared(c))
  BY <1>1, <1>2, <1>3, <1>4, <1>6, PassedKeeps
<1> QED
  BY <1>5, <1>6

(* The walk goes back from an object, or ends there.                       *)
LEMMA BackKeeps ==
  ASSUME HeapInv, back_to_parent PROVE HeapInv'
<1>1. PICK o : o = Now.obj
  OBVIOUS
<1>2. PICK p : p = Now.parent
  OBVIOUS
<1> DEFINE e == drop_op("children", p, Link(p), rc[p] + 1)
<1>3. /\ todo # <<>> /\ Now.op = "drop" /\ Now.at = "back" /\ free(o)
      /\ UNCHANGED <<owned, last, fault>>
      /\ todo' = IF p = Null THEN Tail(todo) ELSE <<e>> \o Tail(todo)
  BY <1>1, <1>2 DEF back_to_parent, Dropping, Doing, Continue, Link
<1>4. HeapTypeOK /\ ListInv /\ WalkInv /\ LastInv /\ CountInv
  BY DEF HeapInv
<1>5. /\ Now \in DropSteps /\ Now \in Drops /\ \A d \in Drops \ {Now} : d.obj # o
      /\ o \in Objects /\ o \in Live /\ o \in Gone /\ o \notin Suspended
      /\ \A v : Now # decref_op(v)
      /\ p \in Suspended \cup {Null}
  BY <1>1, <1>2, <1>3, DropIs
<1>6. \A i : ~Keeps(o, i)
  <2>1. Now.index = Len(slots[Now.obj]) /\ Now.index \in Nat
    BY <1>3, DropIs
  <2>2. \A i : Keeps(Now.obj, i) <=> i \in Now.index + 1 .. Len(slots[Now.obj])
    BY <1>3, DropIs
  <2> QED
    BY <1>1, <2>1, <2>2
<1>7. /\ Live' = Live \ {o} /\ Live \subseteq Objects /\ Suspended \subseteq Live
      /\ Null \notin Live
      /\ \A x \in Objects \cup Static : x # o => rc'[x] = rc[x] /\ slots'[x] = slots[x]
  BY <1>3, <1>4, <1>5, FreeIs, SuspendedAbove
<1>8. Null \in Steady \cup {Null} /\ Null \notin Objects
  BY RefCountAssumption DEF RefCountAssumption
<1> HIDE DEF e
<1>9. CASE p = Null
  <2>1. /\ ListInv' /\ Drops' = Drops \ {Now}
        /\ \A v : /\ Occurs(decref_op(v), todo') \in Nat
                  /\ Occurs(decref_op(v), todo)
                       = One(Now = decref_op(v)) + Occurs(decref_op(v), todo')
    <3>1. todo' = Tail(todo)
      BY <1>3, <1>9
    <3> QED
      BY <1>3, <1>4, <3>1, ListNext
  <2>2. WalkInv' /\ Suspended' = Suspended /\ Current' = Current \ {o}
    <3> DEFINE d == Now
    <3>1. /\ d \in Drops /\ (\A x \in Drops \ {d} : x.obj # d.obj) /\ d.obj = o
          /\ Drops' = Drops \ {d} /\ d.parent = Null /\ Live' = Live \ {d.obj}
          /\ \A x \in Live \ {d.obj} : rc'[x] = rc[x] /\ slots'[x] = slots[x]
      BY <1>1, <1>2, <1>5, <1>7, <1>9, <2>1
    <3> HIDE DEF d
    <3>2. WalkInv' /\ Suspended' = Suspended /\ Current' = Current \ {d.obj}
      BY <1>4, <3>1, WalkLeaves
    <3> QED
      BY <3>1, <3>2
  <2>3. Gone' = (Gone \ {o}) \cup ({Null} \ {Null})
    BY <1>5, <2>2 DEF Gone
  <2>4. ASSUME NEW x, NEW i PROVE Keeps(x, i)' <=> Keeps(x, i) /\ x # o
    <3>1. TakenOver(x, i)' <=> TakenOver(x, i)
      BY <1>3 DEF TakenOver
    <3>2. CASE x = o
      BY <1>7, <3>2 DEF Keeps
    <3>3. CASE x # o
      <4>1. x \in Live => rc'[x] = rc[x] /\ slots'[x] = slots[x]
        BY <1>7, <3>3
      <4>2. (\A d \in Drops' : d.obj = x => i > d.index)
            <=> (\A d \in Drops : d.obj = x => i > d.index)
        BY <1>1, <1>5, <2>1, <3>3
      <4> QED
        BY <1>7, <2>2, <3>1, <3>3, <4>1, <4>2 DEF Keeps, Holds
    <3> QED
      BY <3>2, <3>3
  <2>5. \A v \in Objects : /\ Occurs(decref_op(v), todo') \in Nat
                           /\ Occurs(decref_op(v), todo) = Occurs(decref_op(v), todo')
    <3>1. \A v : One(Now = decref_op(v)) = 0
      BY <1>5 DEF One
    <3> QED
      BY <2>1, <3>1
  <2> QED
    BY <1>1, <1>3, <1>6, <1>8, <2>1, <2>2, <2>3, <2>4, <2>5, LeaveKeeps
<1>10. CASE p # Null
  <2>1. /\ p \in Suspended /\ p \in Objects /\ p # o /\ rc[p] \in Nat
        /\ rc[p] + 1 < Len(slots[p]) /\ Len(slots[p]) \in Nat /\ Len(slots[p]) <= MaxSlots
        /\ Link(p) \in Referents /\ \A d \in Drops : d.obj # p
    <3>1. p \in Suspended /\ p \in Objects
      BY <1>5, <1>7, <1>10
    <3>2. /\ rc[p] \in Nat /\ rc[p] + 1 < Len(slots[p]) /\ Link(p) \in Suspended \cup {Null}
          /\ \A d \in Drops : d.obj # p
      BY <1>4, <3>1 DEF WalkInv
    <3>3. Link(p) \in Referents
      BY <1>7, <3>2 DEF Referents
    <3> QED
      BY <1>4, <1>5, <3>1, <3>2, <3>3, SlotsAre
  <2>2. /\ e \in DropSteps /\ e.obj = p /\ e.parent = Link(p) /\ e.index = rc[p] + 1
        /\ e.at = "children"
    <3>1. rc[p] + 1 \in 0 .. MaxSlots
      BY <2>1, RefCountAssumption DEF RefCountAssumption
    <3>2. e \in DropSteps
      BY <2>1, <3>1 DEF DropSteps, e
    <3> QED
      BY <3>2, MadeSteps DEF e
  <2>3. /\ ListInv' /\ Drops' = (Drops \ {Now}) \cup {e}
        /\ \A v : /\ Occurs(decref_op(v), todo') \in Nat
                  /\ Occurs(decref_op(v), todo)
                       = One(Now = decref_op(v)) + Occurs(decref_op(v), todo')
    <3>1. todo' = <<e>> \o Tail(todo)
      BY <1>3, <1>10
    <3>2. \A d \in Drops : d.obj = e.obj => d = Now
      BY <2>1, <2>2
    <3> QED
      BY <1>3, <1>4, <2>2, <3>1, <3>2, ListGoesOn
  <2>4. WalkInv' /\ Suspended' = Suspended \ {p} /\ Current' = (Current \ {o}) \cup {p}
    <3> DEFINE d == Now
    <3>1. /\ d \in Drops /\ (\A x \in Drops \ {d} : x.obj # d.obj) /\ d.obj = o
          /\ d.parent = p /\ d.parent # Null
          /\ Drops' = (Drops \ {d}) \cup {e} /\ Live' = Live \ {d.obj}
          /\ e.obj = d.parent /\ e.parent = Link(d.parent) /\ e.index = rc[d.parent] + 1
          /\ e.at = "children"
          /\ \A x \in Live \ {d.obj} : rc'[x] = rc[x] /\ slots'[x] = slots[x]
      BY <1>1, <1>2, <1>5, <1>7, <1>10, <2>2, <2>3
    <3> HIDE DEF d
    <3>2. /\ WalkInv' /\ Suspended' = Suspended \ {d.parent}
          /\ Current' = (Current \ {d.obj}) \cup {d.parent}
      BY <1>4, <3>1, WalkBack
    <3> QED
      BY <3>1, <3>2
  <2>5. Gone' = (Gone \ {o}) \cup ({Null} \ {Null})
    BY <1>5, <2>1, <2>4 DEF Gone
  <2>6. ASSUME NEW x, NEW i PROVE Keeps(x, i)' <=> Keeps(x, i) /\ x # o
    <3>1. TakenOver(x, i)' <=> TakenOver(x, i)
      BY <1>3 DEF TakenOver
    <3>2. CASE x = o
      BY <1>7, <3>2 DEF Keeps
    <3>3. CASE x # o /\ x # p
      <4>1. x \in Live => rc'[x] = rc[x] /\ slots'[x] = slots[x]
        BY <1>7, <3>3
      <4>2. (\A d \in Drops' : d.obj = x => i > d.index)
            <=> (\A d \in Drops : d.obj = x => i > d.index)
        BY <1>1, <1>5, <2>2, <2>3, <3>3
      <4>3. x \in Suspended' <=> x \in Suspended
        BY <2>4, <3>3
      <4> QED
        BY <1>7, <3>1, <3>3, <4>1, <4>2, <4>3 DEF Keeps, Holds
    <3>4. CASE x = p
      <4>1. rc'[p] = rc[p] /\ slots'[p] = slots[p] /\ p \in Live /\ p \in Live'
        BY <1>7, <2>1
      <4>2. (\A d \in Drops' : d.obj = p => i > d.index) <=> i > rc[p] + 1
        <5>1. e \in Drops' /\ \A d \in Drops' : d.obj = p => d = e
          BY <2>1, <2>3
        <5> QED
          BY <2>2, <5>1
      <4>3. \A d \in Drops : d.obj = p => i > d.index
        BY <2>1
      <4>4. p \in Suspended /\ p \notin Suspended'
        BY <2>1, <2>4
      <4> QED
        BY <2>1, <3>1, <3>4, <4>1, <4>2, <4>3, <4>4 DEF Keeps, Holds
    <3> QED
      BY <3>2, <3>3, <3>4
  <2>7. \A v \in Objects : /\ Occurs(decref_op(v), todo') \in Nat
                           /\ Occurs(decref_op(v), todo) = Occurs(decref_op(v), todo')
    <3>1. \A v : One(Now = decref_op(v)) = 0
      BY <1>5 DEF One
    <3> QED
      BY <2>3, <3>1
  <2> QED
    BY <1>1, <1>3, <1>6, <1>8, <2>3, <2>4, <2>5, <2>6, <2>7, LeaveKeeps
<1> QED
  BY <1>9, <1>10

(* No step touches an object that was freed, but for a blit that copies.   *)
LEMMA TouchKeeps ==
  ASSUME HeapInv, TouchFreed PROVE HeapInv'
<1>1. /\ HeapTypeOK /\ ListInv /\ WalkInv /\ LastInv /\ CountInv /\ Positive /\ StaticInv
      /\ fault # "other"
  BY DEF HeapInv
<1>2. UNCHANGED <<shape, rc, slots, owned, todo, last>>
  BY DEF TouchFreed
<1>3. \A x : x \in Live => ~Freed(x)
  BY DEF Live, Freed
<1>4. \A x \in Steady : ~Freed(x)
  BY <1>3 DEF Steady
<1>5. ~Freed(Empty) /\ ~Freed(Null)
  BY RefCountAssumption DEF RefCountAssumption, Freed
<1>6. ASSUME todo # <<>>, Now.op = "decref" PROVE ~Freed(Now.obj)
  BY <1>1, <1>4, <1>6, DecrefSteady DEF Freed
<1>7. ASSUME todo # <<>>, Now.op = "drop"
      PROVE  /\ ~Freed(Now.obj) /\ ~Freed(Now.parent)
             /\ Now.index < Len(slots[Now.obj]) => ~Freed(slots[Now.obj][Now.index + 1])
  <2>1. ~Freed(Now.obj)
    BY <1>3, <1>7, DropIs
  <2>2. ~Freed(Now.parent)
    <3>1. Now.parent \in Suspended \cup {Null} /\ Suspended \subseteq Live
      BY <1>1, <1>7, DropIs, SuspendedAbove
    <3> QED
      BY <1>3, <1>5, <3>1
  <2>3. Now.index < Len(slots[Now.obj]) => ~Freed(slots[Now.obj][Now.index + 1])
    BY <1>4, <1>7, ChildIs DEF Freed
  <2> QED
    BY <2>1, <2>2, <2>3
<1>8. last.op = "copy" => ~Freed(last.dst)
  BY <1>1, <1>4, <1>5, CallSteady DEF Static
<1>9. last.op \in {"free", "fill"} => ~Freed(last.src)
  BY <1>1, <1>4, <1>5, CallSteady DEF Static
<1>10. fault' # "other" /\ fault' = "blit source"
  BY <1>6, <1>7, <1>8, <1>9 DEF TouchFreed, Doing, Finishing
<1>11. ListInv' /\ WalkInv' /\ CountInv' /\ Positive' /\ LastInv' /\ StaticInv'
  <2>1. Live' = Live /\ Drops' = Drops
    BY <1>2 DEF Live, Drops
  <2>2. WalkInv' /\ Suspended' = Suspended /\ Current' = Current
    BY <1>1, <1>2, <2>1, WalkSame
  <2>3. Steady' = Steady
    BY <2>1, <2>2 DEF Steady, Gone
  <2>4. ListInv' /\ Positive' /\ LastInv' /\ StaticInv'
    BY <1>1, <1>2, <2>3 DEF ListInv, Alone, Positive, LastInv, StaticInv
  <2>5. HeapTypeOK'
    BY <1>1, <1>2, <1>10 DEF HeapTypeOK
  <2>6. ASSUME NEW x, NEW i PROVE Keeps(x, i)' <=> Keeps(x, i)
    BY <1>2, <2>1, <2>2 DEF Keeps, Holds, TakenOver
  <2>7. \A v : References(v, Suspended)' = References(v, Suspended)
    <3> SUFFICES ASSUME NEW v PROVE References(v, Suspended)' = References(v, Suspended)
      OBVIOUS
    <3>1. Held(v, Suspended)' = Held(v, Suspended)
      BY <1>1, <1>2, <2>5, <2>6, HeldSame
    <3> QED
      BY <1>2, <3>1 DEF References, Outstanding
  <2>8. CountInv'
    BY <1>1, <1>2, <2>3, <2>7 DEF CountInv
  <2> QED
    BY <2>2, <2>4, <2>8
<1> QED
  BY <1>1, <1>2, <1>10, <1>11 DEF HeapInv, HeapTypeOK

(* Nothing is being dropped when a list has no drop in it.                 *)
LEMMA NoDrops ==
  ASSUME NEW D, NEW V, NEW R, NEW L, D = {} PROVE Least(V, D, R, L) = {}
<1>1. {} \in SUBSET V /\ Above({}, D, R, L)
  BY DEF Above
<1> QED
  BY <1>1 DEF Least

(* Between the calls, and when a call has nothing more to give up.         *)
LEMMA Quiet ==
  ASSUME HeapInv, todo = <<>>
  PROVE  /\ Drops = {} /\ Current = {} /\ Suspended = {} /\ Steady = Live
         /\ Live \subseteq Objects /\ Null \notin Live /\ Empty \notin Live
         /\ \A x \in Live : \A i : Keeps(x, i) <=> i \in 1 .. Len(slots[x]) /\ ~TakenOver(x, i)
         /\ \A v \in Objects :
               /\ owned[v] \in Nat /\ Outstanding(v) \in Nat
               /\ Cardinality(Held(v, Suspended)) \in Nat
               /\ rc[v] \in Int /\ (v \in Live => rc[v] >= 1)
               /\ owned[v] + Outstanding(v) + Cardinality(Held(v, Suspended))
                    = IF v \in Live THEN rc[v] ELSE 0
<1>1. HeapTypeOK /\ ListInv /\ WalkInv /\ LastInv /\ CountInv /\ Positive
  BY DEF HeapInv
<1>2. Drops = {} /\ Current = {}
  BY DEF Drops, Current
<1>3. Suspended = {}
  BY <1>2, NoDrops, SuspendedIs
<1>4. Steady = Live /\ Live \subseteq Objects /\ Null \notin Live /\ Empty \notin Live
  BY <1>1, <1>2, <1>3, SuspendedAbove DEF Steady, Gone
<1>5. ASSUME NEW x \in Live, NEW i
      PROVE  Keeps(x, i) <=> i \in 1 .. Len(slots[x]) /\ ~TakenOver(x, i)
  <2>1. DOMAIN slots[x] = 1 .. Len(slots[x])
    BY <1>1, <1>4, SlotsAre
  <2> QED
    BY <1>2, <1>3, <2>1 DEF Keeps, Holds
<1>6. ASSUME NEW v \in Objects
      PROVE  /\ owned[v] \in Nat /\ Outstanding(v) \in Nat
             /\ Cardinality(Held(v, Suspended)) \in Nat
             /\ rc[v] \in Int /\ (v \in Live => rc[v] >= 1)
             /\ owned[v] + Outstanding(v) + Cardinality(Held(v, Suspended))
                  = IF v \in Live THEN rc[v] ELSE 0
  <2>1. /\ owned[v] \in Nat /\ Outstanding(v) \in Nat
        /\ Cardinality(Held(v, Suspended)) \in Nat
        /\ References(v, Suspended) =
             owned[v] + Occurs(decref_op(v), todo) + Outstanding(v)
                 + Cardinality(Held(v, Suspended))
    BY <1>1, ReferencesAre
  <2>2. Occurs(decref_op(v), todo) = 0
    BY OccursOne
  <2>3. References(v, Suspended) = IF v \in Live THEN rc[v] ELSE 0
    BY <1>1, <1>4 DEF CountInv
  <2>4. rc[v] \in Int /\ (v \in Live => rc[v] >= 1)
    BY <1>1, <1>4 DEF Positive, HeapTypeOK
  <2> QED
    BY <2>1, <2>2, <2>3, <2>4
<1> QED
  BY <1>2, <1>3, <1>4, <1>5, <1>6

(* A step that leaves references to give up, and no drop.                  *)
LEMMA QuietNext ==
  ASSUME todo' \in Seq(DecrefSteps), HeapTypeOK'
  PROVE  /\ ListInv' /\ WalkInv' /\ Steady' = Live'
         /\ \A x \in Live' : \A i : Keeps(x, i)' <=> i \in 1 .. Len(slots'[x]) /\ ~TakenOver(x, i)'
         /\ \A x, i : Keeps(x, i)' => x \in Live'
<1>1. todo' \in Seq(CallSteps) /\ DropsIn(todo') = {} /\ Alone(todo')
  BY DropsOne
<1>2. ListInv' /\ Drops' = {} /\ Current' = {}
  BY <1>1 DEF ListInv, Drops, DropsIn, Current
<1>3. Suspended' = {}
  <2>1. Suspended' = Least(Live', Drops', rc', slots')
    BY DEF Suspended, Upward, Link, Above, Least
  <2> QED
    BY <1>2, <2>1, NoDrops
<1>4. WalkInv' /\ Steady' = Live'
  BY <1>2, <1>3 DEF WalkInv, Steady, Gone
<1>5. ASSUME NEW x \in Live', NEW i
      PROVE  Keeps(x, i)' <=> i \in 1 .. Len(slots'[x]) /\ ~TakenOver(x, i)'
  <2>1. slots'[x] \in Seq(Referents)
    BY DEF HeapTypeOK, Live, Referents
  <2>2. DOMAIN slots'[x] = 1 .. Len(slots'[x])
    BY <2>1
  <2> QED
    BY <1>2, <1>3, <2>2 DEF Keeps, Holds
<1> QED
  BY <1>2, <1>4, <1>5 DEF Keeps

(* What such a step has to show.                                           *)
LEMMA QuietKeeps ==
  ASSUME todo' \in Seq(DecrefSteps), HeapTypeOK', LastInv', StaticInv', fault' # "other",
         \A v \in Live' : rc'[v] >= 1,
         \A v \in Objects :
            owned'[v] + Occurs(decref_op(v), todo') + Outstanding(v)'
                + Cardinality(Held(v, Suspended)') = IF v \in Live' THEN rc'[v] ELSE 0
  PROVE  HeapInv'
<1>1. ListInv' /\ WalkInv' /\ Steady' = Live'
  BY QuietNext
<1>2. CountInv' /\ Positive'
  BY <1>1, ReferencesNext DEF CountInv, Positive
<1> QED
  BY <1>1, <1>2 DEF HeapInv

(* What the program passes it has, and what it gets it has room for.       *)
LEMMA PassIs ==
  ASSUME HeapInv, NEW V, NEW args \in Seq(V), NEW W, NEW results \in Seq(W), Pass(args, results)
  PROVE  /\ todo = <<>> /\ last = Nothing /\ fault = "none"
         /\ owned' \in [Objects -> 0 .. MaxOwned]
         /\ \A v \in Objects : /\ Occurs(v, args) \in Nat /\ Occurs(v, results) \in Nat
                               /\ Occurs(v, args) <= owned[v]
                               /\ owned'[v] = owned[v] - Occurs(v, args) + Occurs(v, results)
         /\ \A v : Outstanding(v) = 0
         /\ \A x, i : ~TakenOver(x, i)
<1>1. todo = <<>> /\ last = Nothing /\ fault = "none"
  BY DEF Pass
<1>2. ASSUME NEW v \in Objects
      PROVE  /\ Occurs(v, args) \in Nat /\ Occurs(v, results) \in Nat
             /\ Occurs(v, args) <= owned[v]
             /\ owned'[v] = owned[v] - Occurs(v, args) + Occurs(v, results)
             /\ owned'[v] \in 0 .. MaxOwned
  <2>1. Occurs(v, args) \in Nat /\ Occurs(v, results) \in Nat
    BY OccursIsNat
  <2>2. /\ Occurs(v, args) <= owned[v] /\ owned'[v] <= MaxOwned
        /\ owned'[v] = owned[v] - Occurs(v, args) + Occurs(v, results)
    BY DEF Pass
  <2>3. owned[v] \in Nat
    BY <1>1, Quiet
  <2>4. MaxOwned \in Nat
    BY RefCountAssumption DEF RefCountAssumption
  <2> QED
    BY <2>1, <2>2, <2>3, <2>4
<1>3. owned' \in [Objects -> 0 .. MaxOwned]
  <2>1. owned' = [v \in Objects |-> owned'[v]]
    BY DEF Pass
  <2> QED
    BY <1>2, <2>1
<1>4. /\ \A v : Outstanding(v) = 0
      /\ \A x, i : ~TakenOver(x, i)
  BY <1>1 DEF Nothing, Outstanding, TakenOver
<1> QED
  BY <1>1, <1>2, <1>3, <1>4

(* An object is made.                                                      *)
LEMMA MallocIs ==
  ASSUME HeapTypeOK, NEW a \in Objects \ Live, NEW s \in Seq(Referents), Len(s) <= MaxSlots,
         NEW k \in {"block", "array", "external"}, malloc(a, k, s)
  PROVE  /\ shape' \in [Objects \cup Static -> {"free", "block", "array", "external"}]
         /\ slots' \in [Objects \cup Static -> Seq(Referents)]
         /\ \A x \in Objects \cup Static : Len(slots'[x]) <= MaxSlots
         /\ Live' = Live \cup {a} /\ slots'[a] = s
         /\ \A x \in Objects \cup Static : x # a => shape'[x] = shape[x] /\ slots'[x] = slots[x]
<1>1. /\ slots \in [Objects \cup Static -> Seq(Referents)]
      /\ shape \in [Objects \cup Static -> {"free", "block", "array", "external"}]
      /\ \A x \in Objects \cup Static : Len(slots[x]) <= MaxSlots
  BY DEF HeapTypeOK, Referents
<1>2. shape' = [shape EXCEPT ![a] = k] /\ slots' = [slots EXCEPT ![a] = s]
  BY DEF malloc
<1>3. /\ slots' \in [Objects \cup Static -> Seq(Referents)] /\ slots'[a] = s
      /\ \A x \in Objects \cup Static : x # a => slots'[x] = slots[x]
  BY <1>1, <1>2
<1>4. /\ shape' \in [Objects \cup Static -> {"free", "block", "array", "external"}]
      /\ shape'[a] = k /\ \A x \in Objects \cup Static : x # a => shape'[x] = shape[x]
  BY <1>1, <1>2
<1>5. \A x \in Objects \cup Static : Len(slots'[x]) <= MaxSlots
  BY <1>1, <1>3
<1>6. Live' = Live \cup {a}
  BY <1>4 DEF Live
<1> QED
  BY <1>3, <1>4, <1>5, <1>6

(* The program makes an object of references it has.                       *)
LEMMA CreatesKeeps ==
  ASSUME HeapInv, NEW a \in Objects \ Live, NEW s \in Seq(Live \cup {Null}), Len(s) <= MaxSlots,
         NEW V, NEW args \in Seq(V), Pass(args, <<a>>),
         NEW k \in {"block", "array", "external"}, malloc(a, k, s),
         rc' \in [Objects \cup Static -> Int], rc'[a] = 1, rc'[Empty] = -1,
         \A v \in Live : /\ Occurs(v, args) <= Occurs(v, s)
                         /\ rc'[v] = rc[v] - Occurs(v, args) + Occurs(v, s),
         UNCHANGED <<todo, last, fault>>
  PROVE  HeapInv'
<1>1. HeapTypeOK /\ StaticInv
  BY DEF HeapInv
<1>2. <<a>> \in Seq({a})
  OBVIOUS
<1>3. /\ todo = <<>> /\ last = Nothing /\ fault = "none"
      /\ owned' \in [Objects -> 0 .. MaxOwned]
      /\ \A v \in Objects : /\ Occurs(v, args) \in Nat /\ Occurs(v, <<a>>) \in Nat
                            /\ Occurs(v, args) <= owned[v]
                            /\ owned'[v] = owned[v] - Occurs(v, args) + Occurs(v, <<a>>)
      /\ \A v : Outstanding(v) = 0
      /\ \A x, i : ~TakenOver(x, i)
  BY <1>2, PassIs
<1>4. /\ Live \subseteq Objects /\ Null \notin Live /\ Empty \notin Live
      /\ \A x \in Live : \A i : Keeps(x, i) <=> i \in 1 .. Len(slots[x]) /\ ~TakenOver(x, i)
      /\ \A v \in Objects :
            /\ owned[v] \in Nat /\ Outstanding(v) \in Nat
            /\ Cardinality(Held(v, Suspended)) \in Nat
            /\ rc[v] \in Int /\ (v \in Live => rc[v] >= 1)
            /\ owned[v] + Outstanding(v) + Cardinality(Held(v, Suspended))
                 = IF v \in Live THEN rc[v] ELSE 0
  BY <1>3, Quiet
<1>5. s \in Seq(Referents)
  BY <1>4 DEF Referents
<1>6. /\ shape' \in [Objects \cup Static -> {"free", "block", "array", "external"}]
      /\ slots' \in [Objects \cup Static -> Seq(Referents)]
      /\ \A x \in Objects \cup Static : Len(slots'[x]) <= MaxSlots
      /\ Live' = Live \cup {a} /\ slots'[a] = s
      /\ \A x \in Objects \cup Static : x # a => shape'[x] = shape[x] /\ slots'[x] = slots[x]
  BY <1>1, <1>5, MallocIs
<1>7. HeapTypeOK'
  BY <1>1, <1>3, <1>6 DEF HeapTypeOK, Referents
<1>8. todo' \in Seq(DecrefSteps) /\ todo' = <<>>
  BY <1>3
<1>9. /\ \A x \in Live' : \A i : Keeps(x, i)' <=> i \in 1 .. Len(slots'[x]) /\ ~TakenOver(x, i)'
      /\ \A x, i : Keeps(x, i)' => x \in Live'
  BY <1>7, <1>8, QuietNext
<1>10. \A x, i : ~TakenOver(x, i)'
  BY <1>3 DEF TakenOver, Nothing
<1>11. \A v : Outstanding(v)' = 0
  BY <1>3 DEF Outstanding, Nothing
<1>12. \A i : Keeps(a, i)' <=> i \in 1 .. Len(slots'[a])
  <2>1. a \in Live'
    BY <1>6
  <2> QED
    BY <1>9, <1>10, <2>1
<1>13. \A i : ~Keeps(a, i)
  BY DEF Keeps
<1>14. ASSUME NEW x, NEW i, x # a
       PROVE  /\ Keeps(x, i)' <=> Keeps(x, i)
              /\ Keeps(x, i) => slots'[x][i] = slots[x][i]
  <2>1. CASE x \in Live
    <3>1. slots'[x] = slots[x] /\ x \in Live'
      BY <1>4, <1>6, <1>14, <2>1
    <3> QED
      BY <1>3, <1>4, <1>9, <1>10, <2>1, <3>1
  <2>2. CASE x \notin Live
    <3>1. x \notin Live'
      BY <1>6, <1>14, <2>2
    <3> QED
      BY <2>2, <3>1 DEF Keeps
  <2> QED
    BY <2>1, <2>2
<1>15. ASSUME NEW v \in Objects
       PROVE  /\ Cardinality(Held(v, Suspended)) \in Nat /\ Occurs(v, s) \in Nat
              /\ Cardinality(Held(v, Suspended)') = Cardinality(Held(v, Suspended)) + Occurs(v, s)
  <2>1. \A x, i : x # a => /\ Keeps(x, i)' <=> Keeps(x, i)
                           /\ Keeps(x, i) => slots'[x][i] = slots[x][i]
    BY <1>14
  <2>2. /\ Cardinality(Held(v, Suspended)) \in Nat /\ Occurs(v, slots'[a]) \in Nat
        /\ Cardinality(Held(v, Suspended)')
             = Cardinality(Held(v, Suspended)) + Occurs(v, slots'[a])
    BY <1>1, <1>7, <1>12, <1>13, <2>1, HeldGainsAll
  <2> QED
    BY <1>6, <2>2
<1>16. ASSUME NEW v \in Objects \ Live PROVE Occurs(v, s) = 0
  <2>1. \A i \in 1 .. Len(s) : s[i] # v
    <3>1. v # Null
      BY RefCountAssumption DEF RefCountAssumption
    <3> QED
      BY <3>1
  <2> QED
    BY <2>1, OccursZero
<1>17. ASSUME NEW v \in Objects
       PROVE  /\ owned'[v] + Occurs(decref_op(v), todo') + Outstanding(v)'
                    + Cardinality(Held(v, Suspended)') = IF v \in Live' THEN rc'[v] ELSE 0
              /\ v \in Live' => rc'[v] >= 1
  <2>1. Occurs(decref_op(v), todo') = 0 /\ Outstanding(v)' = 0
    BY <1>8, <1>11, OccursOne
  <2>2. /\ owned[v] \in Nat /\ Cardinality(Held(v, Suspended)) \in Nat
        /\ rc[v] \in Int /\ (v \in Live => rc[v] >= 1)
        /\ owned[v] + Cardinality(Held(v, Suspended)) = IF v \in Live THEN rc[v] ELSE 0
    BY <1>3, <1>4
  <2>3. /\ Occurs(v, args) \in Nat /\ Occurs(v, args) <= owned[v]
        /\ owned'[v] = owned[v] - Occurs(v, args) + Occurs(v, <<a>>)
    BY <1>3
  <2>4. Occurs(v, <<a>>) = IF a = v THEN 1 ELSE 0
    BY OccursOne DEF One
  <2>5. /\ Occurs(v, s) \in Nat
        /\ Cardinality(Held(v, Suspended)') = Cardinality(Held(v, Suspended)) + Occurs(v, s)
    BY <1>15
  <2>6. CASE v \in Live
    <3>1. a # v /\ v \in Live' /\ rc'[v] = rc[v] - Occurs(v, args) + Occurs(v, s)
          /\ Occurs(v, args) <= Occurs(v, s)
      BY <1>6, <2>6
    <3>2. owned'[v] = owned[v] - Occurs(v, args)
      BY <2>2, <2>3, <2>4, <3>1
    <3>3. /\ owned[v] + Cardinality(Held(v, Suspended)) = rc[v]
          /\ owned[v] \in Nat /\ Cardinality(Held(v, Suspended)) \in Nat
          /\ rc[v] \in Int /\ rc[v] >= 1 /\ Occurs(v, args) \in Nat
      BY <2>2, <2>3, <2>6
    <3>4. rc'[v] >= 1
      BY <2>5, <3>1, <3>3
    <3> QED
      BY <2>1, <2>5, <3>1, <3>2, <3>3, <3>4
  <2>7. CASE v \notin Live
    <3>1. Occurs(v, s) = 0 /\ owned[v] = 0 /\ Cardinality(Held(v, Suspended)) = 0
          /\ Occurs(v, args) = 0
      BY <1>16, <2>2, <2>3, <2>7
    <3>2. v \in Live' <=> v = a
      BY <1>6, <2>7
    <3> QED
      BY <2>1, <2>3, <2>4, <2>5, <2>7, <3>1, <3>2
  <2> QED
    BY <2>6, <2>7
<1>18. LastInv' /\ StaticInv' /\ fault' # "other"
  <2>1. Empty \in Objects \cup Static /\ Empty # a
    BY RefCountAssumption DEF RefCountAssumption, Static
  <2> QED
    BY <1>1, <1>3, <1>6, <2>1 DEF LastInv, StaticInv, Nothing
<1>19. \A v \in Live' : rc'[v] >= 1
  <2>1. Live' \subseteq Objects
    BY <1>4, <1>6
  <2> QED
    BY <1>17, <2>1
<1> QED
  BY <1>7, <1>8, <1>17, <1>18, <1>19, QuietKeeps

(* References to give up are steps of a call.                              *)
LEMMA DecrefsAre ==
  ASSUME NEW s \in Seq(Objects \cup Static \cup {Null})
  PROVE  /\ Decrefs(s) \in Seq(DecrefSteps)
         /\ \A v : /\ Occurs(decref_op(v), Decrefs(s)) = Occurs(v, s)
                   /\ Occurs(v, s) \in Nat
<1>1. Decrefs(s) \in Seq({decref_op(x) : x \in Objects \cup Static \cup {Null}})
  BY OccursDecrefs
<1>2. ASSUME NEW v PROVE Occurs(decref_op(v), Decrefs(s)) = Occurs(v, s) /\ Occurs(v, s) \in Nat
  BY OccursDecrefs, OccursIsNat
<1> QED
  BY <1>1, <1>2 DEF DecrefSteps

(* The program gives references up.                                        *)
LEMMA GivesUpKeeps ==
  ASSUME HeapInv, NEW args \in Seq(Referents), Pass(args, <<>>), todo' = Decrefs(args),
         UNCHANGED <<shape, rc, slots, last, fault>>
  PROVE  HeapInv'
<1>1. HeapTypeOK /\ StaticInv
  BY DEF HeapInv
<1>2. <<>> \in Seq(Referents)
  OBVIOUS
<1>3. /\ todo = <<>> /\ last = Nothing /\ fault = "none"
      /\ owned' \in [Objects -> 0 .. MaxOwned]
      /\ \A v \in Objects : /\ Occurs(v, args) \in Nat /\ Occurs(v, <<>>) \in Nat
                            /\ Occurs(v, args) <= owned[v]
                            /\ owned'[v] = owned[v] - Occurs(v, args) + Occurs(v, <<>>)
      /\ \A v : Outstanding(v) = 0
      /\ \A x, i : ~TakenOver(x, i)
  BY <1>2, PassIs
<1>4. /\ Live \subseteq Objects
      /\ \A x \in Live : \A i : Keeps(x, i) <=> i \in 1 .. Len(slots[x]) /\ ~TakenOver(x, i)
      /\ \A v \in Objects :
            /\ owned[v] \in Nat /\ Outstanding(v) \in Nat
            /\ Cardinality(Held(v, Suspended)) \in Nat
            /\ rc[v] \in Int /\ (v \in Live => rc[v] >= 1)
            /\ owned[v] + Outstanding(v) + Cardinality(Held(v, Suspended))
                 = IF v \in Live THEN rc[v] ELSE 0
  BY <1>3, Quiet
<1>5. Live' = Live
  BY DEF Live
<1>6. HeapTypeOK' /\ StaticInv' /\ LastInv' /\ fault' # "other"
  BY <1>1, <1>3 DEF HeapTypeOK, StaticInv, LastInv, Nothing
<1>7. /\ todo' \in Seq(DecrefSteps)
      /\ \A v : Occurs(decref_op(v), todo') = Occurs(v, args)
  <2>1. args \in Seq(Objects \cup Static \cup {Null})
    BY DEF Referents
  <2> QED
    BY <2>1, DecrefsAre
<1>8. /\ \A x \in Live' : \A i : Keeps(x, i)' <=> i \in 1 .. Len(slots'[x]) /\ ~TakenOver(x, i)'
      /\ \A x, i : Keeps(x, i)' => x \in Live'
  BY <1>6, <1>7, QuietNext
<1>9. (\A x, i : ~TakenOver(x, i)') /\ \A v : Outstanding(v)' = 0
  BY <1>3 DEF TakenOver, Nothing, Outstanding
<1>10. ASSUME NEW x, NEW i PROVE Keeps(x, i)' <=> Keeps(x, i)
  <2>1. CASE x \in Live
    BY <1>3, <1>4, <1>5, <1>8, <1>9, <2>1
  <2>2. CASE x \notin Live
    BY <1>5, <2>2 DEF Keeps
  <2> QED
    BY <2>1, <2>2
<1>11. ASSUME NEW v \in Objects
       PROVE  owned'[v] + Occurs(decref_op(v), todo') + Outstanding(v)'
                    + Cardinality(Held(v, Suspended)') = IF v \in Live' THEN rc'[v] ELSE 0
  <2>1. Held(v, Suspended)' = Held(v, Suspended)
    BY <1>1, <1>6, <1>10, HeldSame
  <2>2. Occurs(v, <<>>) = 0
    BY OccursOne
  <2>3. /\ owned[v] \in Nat /\ Cardinality(Held(v, Suspended)) \in Nat
        /\ owned[v] + Cardinality(Held(v, Suspended)) = IF v \in Live THEN rc[v] ELSE 0
    BY <1>3, <1>4
  <2>4. /\ Occurs(v, args) \in Nat
        /\ owned'[v] = owned[v] - Occurs(v, args) + Occurs(v, <<>>)
    BY <1>3
  <2>5. Occurs(decref_op(v), todo') = Occurs(v, args) /\ Outstanding(v)' = 0
    BY <1>7, <1>9
  <2> QED
    BY <1>5, <2>1, <2>2, <2>3, <2>4, <2>5
<1>12. \A v \in Live' : rc'[v] >= 1
  BY <1>4, <1>5
<1> QED
  BY <1>6, <1>7, <1>11, <1>12, QuietKeeps

(* moonbit_decref.                                                         *)
LEMMA GiveUpKeeps ==
  ASSUME HeapInv, NEW o \in Live, moonbit_decref(o) PROVE HeapInv'
<1>1. Pass(<<o>>, <<>>) /\ todo' = <<decref_op(o)>> /\ UNCHANGED <<shape, rc, slots, last, fault>>
  BY DEF moonbit_decref
<1>2. <<o>> \in Seq(Referents)
  BY DEF Referents, Live
<1>3. todo' = Decrefs(<<o>>)
  BY <1>1 DEF Decrefs
<1> QED
  BY <1>1, <1>2, <1>3, GivesUpKeeps

(* Arrays of what the program passes.                                      *)
LEMMA CopiesKeep ==
  ASSUME HeapInv, NEW a \in Objects \ Live, NEW s \in Seq(Live \cup {Null}), s # <<>>,
         NEW n \in Nat \ {0}, n * Len(s) <= MaxSlots,
         Pass(s, <<a>>), NEW k \in {"block", "array", "external"}, malloc(a, k, Repeat(s, n)),
         rc' \in [Objects \cup Static -> Int], rc'[a] = 1, rc'[Empty] = -1,
         \A v \in Live : rc'[v] = rc[v] + (n - 1) * Occurs(v, s),
         UNCHANGED <<todo, last, fault>>
  PROVE  HeapInv'
<1> DEFINE r == Repeat(s, n)
<1>1. r \in Seq(Live \cup {Null}) /\ Len(r) <= MaxSlots
  BY OccursRepeat
<1>2. ASSUME NEW v \in Live
      PROVE  /\ Occurs(v, s) <= Occurs(v, r)
             /\ rc'[v] = rc[v] - Occurs(v, s) + Occurs(v, r)
  <2>1. Occurs(v, s) \in Nat /\ Occurs(v, r) = n * Occurs(v, s)
    BY OccursRepeat, OccursIsNat
  <2>2. rc[v] \in Int
    BY DEF HeapInv, HeapTypeOK, Live
  <2> DEFINE c == Occurs(v, s)
             q == Occurs(v, r)
  <2>3. c \in Nat /\ q = n * c /\ rc'[v] = rc[v] + (n - 1) * c
    BY <2>1
  <2> HIDE DEF c, q
  <2>4. (n - 1) * c = n * c - c /\ n * c >= c
    BY <2>3
  <2>5. c <= q /\ rc'[v] = rc[v] - c + q
    BY <2>2, <2>3, <2>4
  <2> QED
    BY <2>5 DEF c, q
<1> HIDE DEF r
<1>3. malloc(a, k, r)
  BY DEF r
<1> QED
  BY <1>1, <1>2, <1>3, CreatesKeeps

(* The references in a list of what can be passed.                         *)
LEMMA ChildrenAre ==
  ASSUME NEW c \in Children
  PROVE  /\ c \in Seq(Live \cup {Null}) /\ c \in Seq(Referents) /\ c # <<>>
         /\ Len(c) \in 1 .. MaxSlots
<1>1. PICK n \in 1 .. MaxSlots : c \in [1 .. n -> Live \cup {Null}]
  BY DEF Children, Values
<1>2. MaxSlots \in Nat
  BY RefCountAssumption DEF RefCountAssumption
<1>3. c \in Seq(Live \cup {Null}) /\ Len(c) = n /\ c # <<>>
  BY <1>1, <1>2
<1>4. Live \cup {Null} \subseteq Referents
  BY DEF Live, Referents
<1> QED
  BY <1>1, <1>3, <1>4

(* moonbit_malloc.                                                         *)
LEMMA MallocKeeps ==
  ASSUME HeapInv, NEW a \in Objects \ Live, NEW c \in Children, NEW k \in {"block", "external"},
         Pass(c, <<a>>), malloc(a, k, c), rc' = [rc EXCEPT ![a] = 1],
         UNCHANGED <<todo, last, fault>>
  PROVE  HeapInv'
<1>1. c \in Seq(Live \cup {Null}) /\ Len(c) <= MaxSlots
  BY ChildrenAre
<1>2. /\ rc' \in [Objects \cup Static -> Int] /\ rc'[a] = 1 /\ rc'[Empty] = -1
      /\ \A v \in Live : rc'[v] = rc[v] /\ rc[v] \in Int
  <2>1. rc \in [Objects \cup Static -> Int] /\ rc[Empty] = -1
    BY DEF HeapInv, HeapTypeOK, StaticInv
  <2>2. Empty # a /\ Empty \in Objects \cup Static
    BY RefCountAssumption DEF RefCountAssumption, Static
  <2> QED
    BY <2>1, <2>2 DEF Live
<1>3. ASSUME NEW v \in Live
      PROVE  Occurs(v, c) <= Occurs(v, c) /\ rc'[v] = rc[v] - Occurs(v, c) + Occurs(v, c)
  <2>1. Occurs(v, c) \in Nat
    BY <1>1, OccursIsNat
  <2>2. rc'[v] = rc[v] /\ rc[v] \in Int
    BY <1>2
  <2> QED
    BY <2>1, <2>2
<1> QED
  BY <1>1, <1>2, <1>3, CreatesKeeps

(* moonbit_incref.                                                         *)
LEMMA IncrefKeeps ==
  ASSUME HeapInv, NEW o \in Live, NEW j \in 1 .. MaxSlots, moonbit_incref(o, j) PROVE HeapInv'
<1>1. PICK c : c = slots[o][j]
  OBVIOUS
<1>2. /\ j \in DOMAIN slots[o] /\ c # Null /\ Pass(<<>>, <<c>>)
      /\ rc' = [rc EXCEPT ![c] = IF is_dynamic(c) THEN @ + 1 ELSE @]
      /\ UNCHANGED <<shape, slots, todo, last, fault>>
  BY <1>1 DEF moonbit_incref
<1>3. HeapTypeOK /\ StaticInv
  BY DEF HeapInv
<1>4. <<>> \in Seq(Referents) /\ <<c>> \in Seq({c})
  OBVIOUS
<1>5. /\ todo = <<>> /\ last = Nothing /\ fault = "none"
      /\ owned' \in [Objects -> 0 .. MaxOwned]
      /\ \A v \in Objects : /\ Occurs(v, <<>>) \in Nat /\ Occurs(v, <<c>>) \in Nat
                            /\ Occurs(v, <<>>) <= owned[v]
                            /\ owned'[v] = owned[v] - Occurs(v, <<>>) + Occurs(v, <<c>>)
      /\ \A v : Outstanding(v) = 0
      /\ \A x, i : ~TakenOver(x, i)
  BY <1>2, <1>4, PassIs
<1>6. /\ Live \subseteq Objects
      /\ \A x \in Live : \A i : Keeps(x, i) <=> i \in 1 .. Len(slots[x]) /\ ~TakenOver(x, i)
      /\ \A v \in Objects :
            /\ owned[v] \in Nat /\ Outstanding(v) \in Nat
            /\ Cardinality(Held(v, Suspended)) \in Nat
            /\ rc[v] \in Int /\ (v \in Live => rc[v] >= 1)
            /\ owned[v] + Outstanding(v) + Cardinality(Held(v, Suspended))
                 = IF v \in Live THEN rc[v] ELSE 0
  BY <1>5, Quiet
<1>7. c \in Objects /\ c \in Live /\ rc[c] >= 1
  <2>1. o \in Objects \cup Static /\ j \in 1 .. Len(slots[o])
    BY <1>2, <1>3, <1>6, SlotsAre
  <2>2. c \in Objects
    BY <1>1, <1>2, <1>3, <2>1, SlotsAre DEF Referents
  <2>3. Keeps(o, j)
    BY <1>5, <1>6, <2>1
  <2>4. <<o, j>> \in Held(c, Suspended)
    BY <1>1, <1>3, <2>3, HeldKeeps
  <2>5. Held(c, Suspended) # {}
    BY <2>4
  <2>6. c \in Steady
    BY <2>2, <2>5, ReferredIsSteady DEF HeapInv
  <2> QED
    BY <1>6, <2>2, <2>6 DEF Steady
<1>8. /\ rc' \in [Objects \cup Static -> Int] /\ rc'[Empty] = -1
      /\ \A v \in Objects : rc'[v] = IF v = c THEN rc[v] + 1 ELSE rc[v]
  <2>1. rc \in [Objects \cup Static -> Int] /\ rc[Empty] = -1
    BY <1>3 DEF HeapTypeOK, StaticInv
  <2>2. Empty # c /\ Empty \in Objects \cup Static
    BY <1>7, RefCountAssumption DEF RefCountAssumption, Static
  <2>3. rc' = [rc EXCEPT ![c] = @ + 1]
    BY <1>2, <1>7 DEF is_dynamic
  <2> QED
    BY <1>7, <2>1, <2>2, <2>3
<1>9. Live' = Live
  BY <1>2 DEF Live
<1>10. HeapTypeOK' /\ StaticInv' /\ LastInv' /\ fault' # "other"
  BY <1>2, <1>3, <1>5, <1>8 DEF HeapTypeOK, StaticInv, LastInv, Nothing
<1>11. todo' \in Seq(DecrefSteps) /\ todo' = <<>>
  BY <1>2, <1>5
<1>12. /\ \A x \in Live' : \A i : Keeps(x, i)' <=> i \in 1 .. Len(slots'[x]) /\ ~TakenOver(x, i)'
       /\ \A x, i : Keeps(x, i)' => x \in Live'
  BY <1>10, <1>11, QuietNext
<1>13. (\A x, i : ~TakenOver(x, i)') /\ \A v : Outstanding(v)' = 0
  BY <1>2, <1>5 DEF TakenOver, Nothing, Outstanding
<1>14. ASSUME NEW x, NEW i PROVE Keeps(x, i)' <=> Keeps(x, i)
  <2>1. CASE x \in Live
    BY <1>2, <1>5, <1>6, <1>9, <1>12, <1>13, <2>1
  <2>2. CASE x \notin Live
    BY <1>9, <2>2 DEF Keeps
  <2> QED
    BY <2>1, <2>2
<1>15. ASSUME NEW v \in Objects
       PROVE  /\ owned'[v] + Occurs(decref_op(v), todo') + Outstanding(v)'
                    + Cardinality(Held(v, Suspended)') = IF v \in Live' THEN rc'[v] ELSE 0
              /\ v \in Live' => rc'[v] >= 1
  <2>1. Held(v, Suspended)' = Held(v, Suspended)
    BY <1>2, <1>3, <1>10, <1>14, HeldSame
  <2>2. /\ Occurs(v, <<>>) = 0 /\ Occurs(decref_op(v), todo') = 0
        /\ Occurs(v, <<c>>) = IF c = v THEN 1 ELSE 0
    BY <1>11, OccursOne DEF One
  <2>3. /\ owned[v] \in Nat /\ Cardinality(Held(v, Suspended)) \in Nat /\ rc[v] \in Int
        /\ owned[v] + Cardinality(Held(v, Suspended)) = IF v \in Live THEN rc[v] ELSE 0
        /\ v \in Live => rc[v] >= 1
    BY <1>5, <1>6
  <2>4. owned'[v] = owned[v] - Occurs(v, <<>>) + Occurs(v, <<c>>) /\ Outstanding(v)' = 0
    BY <1>5, <1>13
  <2>5. rc'[v] = IF v = c THEN rc[v] + 1 ELSE rc[v]
    BY <1>8
  <2> QED
    BY <1>7, <1>9, <2>1, <2>2, <2>3, <2>4, <2>5
<1>16. \A v \in Live' : rc'[v] >= 1
  BY <1>6, <1>9, <1>15
<1> QED
  BY <1>10, <1>11, <1>15, <1>16, QuietKeeps

(* The counts of what a list refers to, n higher for each reference.       *)
LEMMA IncrefsAre ==
  ASSUME NEW count \in [Objects \cup Static -> Int], NEW s \in Seq(Referents), NEW n \in Nat
  PROVE  /\ Increfs(s, count, n) \in [Objects \cup Static -> Int]
         /\ \A v \in Objects \cup Static :
               /\ Occurs(v, s) \in Nat
               /\ Increfs(s, count, n)[v]
                    = IF count[v] > 0 THEN count[v] + n * Occurs(v, s) ELSE count[v]
<1>1. ASSUME NEW v \in Objects \cup Static
      PROVE  /\ Occurs(v, s) \in Nat
             /\ (IF count[v] > 0 THEN count[v] + n * Occurs(v, s) ELSE count[v]) \in Int
  <2> DEFINE q == Occurs(v, s)
  <2>1. q \in Nat
    BY OccursIsNat
  <2> HIDE DEF q
  <2>2. (IF count[v] > 0 THEN count[v] + n * q ELSE count[v]) \in Int
    BY <2>1
  <2> QED
    BY <2>1, <2>2 DEF q
<1>2. Increfs(s, count, n)
        = [v \in Objects \cup Static |-> IF count[v] > 0 THEN count[v] + n * Occurs(v, s)
                                         ELSE count[v]]
  BY DEF Increfs
<1> QED
  BY <1>1, <1>2

(* The count of a new object, and those of what lives.                     *)
LEMMA NewCount ==
  ASSUME HeapInv, NEW a \in Objects \ Live
  PROVE  LET count == [rc EXCEPT ![a] = 1]
         IN /\ count \in [Objects \cup Static -> Int] /\ count[a] = 1 /\ count[Empty] = -1
            /\ \A v \in Objects \cup Static : v # a => count[v] = rc[v]
            /\ Live \subseteq Objects /\ Empty # a /\ Empty \in Objects \cup Static
<1>1. rc \in [Objects \cup Static -> Int] /\ rc[Empty] = -1
  BY DEF HeapInv, HeapTypeOK, StaticInv
<1>2. Empty # a /\ Empty \in Objects \cup Static
  BY RefCountAssumption DEF RefCountAssumption, Static
<1> QED
  BY <1>1, <1>2 DEF Live

(* moonbit_make_ref_valtype_array.                                         *)
LEMMA ValtypesKeep ==
  ASSUME HeapInv, NEW a \in Objects \ Live, NEW c \in Children, NEW n \in 0 .. MaxSlots,
         n * Len(c) <= MaxSlots, moonbit_make_ref_valtype_array(a, n, c)
  PROVE  HeapInv'
<1>1. /\ c \in Seq(Live \cup {Null}) /\ c \in Seq(Referents) /\ c # <<>> /\ n \in Nat
  BY ChildrenAre
<1>2. CASE n = 0
  <2>1. Pass(c, <<>>) /\ todo' = Decrefs(c) /\ UNCHANGED <<shape, rc, slots, last, fault>>
    BY <1>2 DEF moonbit_make_ref_valtype_array
  <2> QED
    BY <1>1, <2>1, GivesUpKeeps
<1>3. CASE n # 0
  <2> DEFINE count == [rc EXCEPT ![a] = 1]
             m == n - 1
  <2>1. /\ Pass(c, <<a>>) /\ malloc(a, "block", Repeat(c, n))
        /\ rc' = Increfs(c, count, m) /\ UNCHANGED <<todo, last, fault>>
    BY <1>1, <1>3 DEF moonbit_make_ref_valtype_array
  <2>2. /\ count \in [Objects \cup Static -> Int] /\ count[a] = 1 /\ count[Empty] = -1
        /\ \A v \in Objects \cup Static : v # a => count[v] = rc[v]
        /\ Live \subseteq Objects /\ Empty # a /\ Empty \in Objects \cup Static
    BY NewCount
  <2>3. m \in Nat /\ n - 1 = m
    BY <1>1, <1>3
  <2> HIDE DEF count, m
  <2>4. /\ rc' \in [Objects \cup Static -> Int]
        /\ \A v \in Objects \cup Static :
              /\ Occurs(v, c) \in Nat
              /\ rc'[v] = IF count[v] > 0 THEN count[v] + m * Occurs(v, c) ELSE count[v]
    BY <1>1, <2>1, <2>2, <2>3, IncrefsAre
  <2>5. rc'[a] = 1
    <3>1. \A i \in 1 .. Len(c) : c[i] # a
      <4>1. a # Null
        BY RefCountAssumption DEF RefCountAssumption
      <4> QED
        BY <1>1, <4>1
    <3>2. Occurs(a, c) = 0
      BY <1>1, <3>1, OccursZero
    <3>3. rc'[a] = 1 + m * Occurs(a, c)
      BY <2>2, <2>4
    <3> QED
      BY <2>3, <3>2, <3>3
  <2>6. rc'[Empty] = -1
    BY <2>2, <2>4
  <2>7. \A v \in Live : rc'[v] = rc[v] + (n - 1) * Occurs(v, c)
    <3>1. \A v \in Live : rc[v] >= 1 /\ rc[v] \in Int
      <4>1. todo = <<>>
        BY <2>1 DEF Pass
      <4> QED
        BY <4>1, Quiet
    <3>2. ASSUME NEW v \in Live PROVE rc'[v] = rc[v] + m * Occurs(v, c)
      <4>1. count[v] = rc[v] /\ v \in Objects \cup Static
        BY <2>2
      <4>2. rc[v] >= 1 /\ rc[v] \in Int
        BY <3>1
      <4>3. count[v] > 0
        BY <4>1, <4>2
      <4> QED
        BY <2>4, <4>1, <4>3
    <3> QED
      BY <2>3, <3>2
  <2> QED
    BY <1>1, <1>3, <2>1, <2>4, <2>5, <2>6, <2>7, CopiesKeep
<1> QED
  BY <1>2, <1>3

(* moonbit_make_ref_array.                                                 *)
LEMMA ArraysKeep ==
  ASSUME HeapInv, NEW a \in Objects \ Live, NEW c \in Children, NEW n \in 0 .. MaxSlots,
         Len(c) = 1, moonbit_make_ref_array(a, n, c[1])
  PROVE  HeapInv'
<1> DEFINE x == c[1]
<1>1. /\ c \in Seq(Live \cup {Null}) /\ c \in Seq(Referents) /\ c # <<>> /\ n \in Nat
      /\ c = <<x>> /\ x \in Live \cup {Null}
  BY ChildrenAre
<1>2. CASE n = 0
  <2>1. Pass(c, <<>>) /\ todo' = Decrefs(c) /\ UNCHANGED <<shape, rc, slots, last, fault>>
    BY <1>1, <1>2 DEF moonbit_make_ref_array
  <2> QED
    BY <1>1, <2>1, GivesUpKeeps
<1>3. CASE n # 0
  <2> DEFINE count == [rc EXCEPT ![a] = 1]
  <2>1. /\ Pass(c, <<a>>) /\ malloc(a, "array", Repeat(c, n))
        /\ rc' = AddTo(count, x, n) /\ UNCHANGED <<todo, last, fault>>
    BY <1>1, <1>3 DEF moonbit_make_ref_array
  <2>2. /\ count \in [Objects \cup Static -> Int] /\ count[a] = 1 /\ count[Empty] = -1
        /\ \A v \in Objects \cup Static : v # a => count[v] = rc[v]
        /\ Live \subseteq Objects /\ Empty # a /\ Empty \in Objects \cup Static
    BY NewCount
  <2> HIDE DEF count, x
  <2>3. \A v \in Live : rc[v] >= 1 /\ rc[v] \in Int /\ v # Null /\ v # Empty
    <3>1. todo = <<>>
      BY <2>1 DEF Pass
    <3> QED
      BY <3>1, Quiet
  <2>4. /\ x # Null => rc' = [count EXCEPT ![x] = @ + n - 1]
        /\ x = Null => rc' = count
    BY <1>1, <2>1, <2>2, <2>3 DEF AddTo
  <2>5. /\ rc' \in [Objects \cup Static -> Int] /\ rc'[a] = 1 /\ rc'[Empty] = -1
        /\ \A v \in Live : rc'[v] = IF v = x THEN rc[v] + (n - 1) ELSE rc[v]
    <3>1. CASE x = Null
      BY <2>2, <2>3, <2>4, <3>1
    <3>2. CASE x # Null
      <4>1. x \in Live /\ x \in Objects \cup Static /\ x # a /\ x # Empty
        BY <1>1, <2>2, <2>3, <3>2
      <4>2. rc' = [count EXCEPT ![x] = @ + n - 1]
        BY <2>4, <3>2
      <4>3. rc' \in [Objects \cup Static -> Int] /\ rc'[a] = 1 /\ rc'[Empty] = -1
        BY <1>1, <2>2, <4>1, <4>2
      <4>4. ASSUME NEW v \in Live PROVE rc'[v] = IF v = x THEN rc[v] + (n - 1) ELSE rc[v]
        <5>1. v \in Objects \cup Static /\ v # a /\ count[v] = rc[v] /\ rc[v] \in Int
          BY <2>2, <2>3
        <5>2. CASE v = x
          BY <1>1, <2>2, <4>1, <4>2, <5>1, <5>2
        <5>3. CASE v # x
          BY <1>1, <2>2, <4>1, <4>2, <5>1, <5>3
        <5> QED
          BY <5>2, <5>3
      <4> QED
        BY <4>3, <4>4
    <3> QED
      BY <3>1, <3>2
  <2>6. ASSUME NEW v \in Live PROVE rc'[v] = rc[v] + (n - 1) * Occurs(v, c)
    <3>1. Occurs(v, c) = IF x = v THEN 1 ELSE 0
      BY <1>1, OccursOne DEF One
    <3>2. rc'[v] = IF v = x THEN rc[v] + (n - 1) ELSE rc[v]
      BY <2>5
    <3>3. rc[v] \in Int
      BY <2>3
    <3>4. CASE x = v
      BY <1>1, <3>1, <3>2, <3>3, <3>4
    <3>5. CASE x # v
      BY <1>1, <3>1, <3>2, <3>3, <3>5
    <3> QED
      BY <3>4, <3>5
  <2>7. n * Len(c) <= MaxSlots
    BY <1>1, RefCountAssumption DEF RefCountAssumption
  <2>8. /\ rc' \in [Objects \cup Static -> Int] /\ rc'[a] = 1 /\ rc'[Empty] = -1
        /\ \A v \in Live : rc'[v] = rc[v] + (n - 1) * Occurs(v, c)
    BY <2>5, <2>6
  <2>9. n \in Nat \ {0} /\ c \in Seq(Live \cup {Null}) /\ c # <<>>
    BY <1>1, <1>3
  <2> QED
    BY <2>1, <2>7, <2>8, <2>9, CopiesKeep
<1> QED
  BY <1>2, <1>3

(* A list of two has what each of them has.                                *)
LEMMA OccursTwo ==
  ASSUME NEW v, NEW x, NEW y
  PROVE  Occurs(v, <<x, y>>) = One(x = v) + One(y = v) /\ One(x = v) \in Nat /\ One(y = v) \in Nat
<1>1. <<x, y>> \in Seq({x, y}) /\ <<x, y>> # <<>>
  OBVIOUS
<1>2. Head(<<x, y>>) = x /\ Tail(<<x, y>>) = <<y>>
  OBVIOUS
<1>3. Occurs(v, <<x, y>>) = One(Head(<<x, y>>) = v) + Occurs(v, Tail(<<x, y>>))
  BY <1>1, OccursTail
<1>4. Occurs(v, <<y>>) = One(y = v)
  BY OccursOne
<1>5. One(x = v) \in Nat /\ One(y = v) \in Nat
  BY DEF One
<1> QED
  BY <1>2, <1>3, <1>4, <1>5

(* One reference to give up, or none.                                      *)
LEMMA OneDecref ==
  ASSUME NEW x \in Objects \cup Static \cup {Null}
  PROVE  /\ <<decref_op(x)>> \in Seq(DecrefSteps) /\ Decrefs(<<x>>) = <<decref_op(x)>>
         /\ <<>> \in Seq(DecrefSteps)
         /\ \A v : /\ Occurs(decref_op(v), <<decref_op(x)>>) = One(x = v)
                   /\ Occurs(decref_op(v), <<>>) = 0
<1>1. Decrefs(<<x>>) = <<decref_op(x)>>
  BY DEF Decrefs
<1>2. <<decref_op(x)>> \in Seq(DecrefSteps)
  BY DEF DecrefSteps
<1>3. ASSUME NEW v PROVE Occurs(decref_op(v), <<decref_op(x)>>) = One(x = v)
  <2>1. Occurs(decref_op(v), <<decref_op(x)>>) = One(decref_op(x) = decref_op(v))
    BY OccursOne
  <2>2. decref_op(x) = decref_op(v) <=> x = v
    BY MadeSteps
  <2> QED
    BY <2>1, <2>2 DEF One
<1> QED
  BY <1>1, <1>2, <1>3, OccursOne

(* moonbit_make_ref_array_with_blit, up to where the array is made.        *)
LEMMA WithBlitKeeps ==
  ASSUME HeapInv, NEW size \in 1 .. MaxSlots, NEW x \in Values, NEW src \in Arrays,
         NEW soff \in Nat, NEW doff \in Nat, NEW len \in Nat,
         moonbit_make_ref_array_with_blit(size, x, src, soff, doff, len)
  PROVE  HeapInv'
<1>1. HeapTypeOK /\ StaticInv
  BY DEF HeapInv
<1>2. /\ doff + len <= size /\ soff + len <= Len(slots[src])
      /\ Pass(<<x, src>>, <<>>)
      /\ todo' = IF size = len THEN Decrefs(<<x>>) ELSE <<>>
      /\ last' = fill_op(size, x, doff, src, soff, len)
      /\ UNCHANGED <<shape, rc, slots, fault>>
  BY DEF moonbit_make_ref_array_with_blit
<1>3. x \in Referents /\ src \in Objects \cup Static
  BY DEF Values, Arrays, Live, Referents
<1>4. <<x, src>> \in Seq({x, src}) /\ <<>> \in Seq({x})
  OBVIOUS
<1>5. /\ todo = <<>> /\ last = Nothing /\ fault = "none"
      /\ owned' \in [Objects -> 0 .. MaxOwned]
      /\ \A v \in Objects : /\ Occurs(v, <<x, src>>) \in Nat /\ Occurs(v, <<>>) \in Nat
                            /\ Occurs(v, <<x, src>>) <= owned[v]
                            /\ owned'[v] = owned[v] - Occurs(v, <<x, src>>) + Occurs(v, <<>>)
      /\ \A v : Outstanding(v) = 0
      /\ \A y, i : ~TakenOver(y, i)
  BY <1>2, <1>4, PassIs
<1>6. /\ Live \subseteq Objects
      /\ \A y \in Live : \A i : Keeps(y, i) <=> i \in 1 .. Len(slots[y]) /\ ~TakenOver(y, i)
      /\ \A v \in Objects :
            /\ owned[v] \in Nat /\ Outstanding(v) \in Nat
            /\ Cardinality(Held(v, Suspended)) \in Nat
            /\ rc[v] \in Int /\ (v \in Live => rc[v] >= 1)
            /\ owned[v] + Outstanding(v) + Cardinality(Held(v, Suspended))
                 = IF v \in Live THEN rc[v] ELSE 0
  BY <1>5, Quiet
<1>7. Live' = Live
  BY <1>2 DEF Live
<1>8. HeapTypeOK' /\ StaticInv' /\ fault' # "other"
  BY <1>1, <1>2, <1>5 DEF HeapTypeOK, StaticInv
<1>9. /\ last'.op = "fill" /\ last'.src = src /\ last'.value = x /\ last'.size = size
      /\ last'.doff = doff /\ last'.soff = soff /\ last'.len = len
  BY <1>2 DEF fill_op
<1>10. LastInv'
  BY <1>2, <1>3, <1>9 DEF LastInv
<1>11. x \in Objects \cup Static \cup {Null}
  BY <1>3 DEF Referents
<1>12. /\ todo' \in Seq(DecrefSteps)
       /\ \A v : Occurs(decref_op(v), todo') = IF size = len THEN One(x = v) ELSE 0
  <2>1. /\ <<decref_op(x)>> \in Seq(DecrefSteps) /\ Decrefs(<<x>>) = <<decref_op(x)>>
        /\ <<>> \in Seq(DecrefSteps)
        /\ \A v : /\ Occurs(decref_op(v), <<decref_op(x)>>) = One(x = v)
                  /\ Occurs(decref_op(v), <<>>) = 0
    BY <1>11, OneDecref
  <2>2. CASE size = len
    <3>1. todo' = <<decref_op(x)>>
      BY <1>2, <2>1, <2>2
    <3> QED
      BY <2>1, <2>2, <3>1
  <2>3. CASE size # len
    <3>1. todo' = <<>>
      BY <1>2, <2>3
    <3> QED
      BY <2>1, <2>3, <3>1
  <2> QED
    BY <2>2, <2>3
<1>13. /\ \A y \in Live' : \A i : Keeps(y, i)' <=> i \in 1 .. Len(slots'[y]) /\ ~TakenOver(y, i)'
       /\ \A y, i : Keeps(y, i)' => y \in Live'
  BY <1>8, <1>12, QuietNext
<1>14. /\ \A y, i : ~TakenOver(y, i)'
       /\ \A v : Outstanding(v)' = One(src = v) + One(size # len /\ x = v)
  BY <1>9 DEF TakenOver, Outstanding
<1>15. ASSUME NEW y, NEW i PROVE Keeps(y, i)' <=> Keeps(y, i)
  <2>1. CASE y \in Live
    BY <1>2, <1>5, <1>6, <1>7, <1>13, <1>14, <2>1
  <2>2. CASE y \notin Live
    BY <1>7, <2>2 DEF Keeps
  <2> QED
    BY <2>1, <2>2
<1>16. ASSUME NEW v \in Objects
       PROVE  owned'[v] + Occurs(decref_op(v), todo') + Outstanding(v)'
                    + Cardinality(Held(v, Suspended)') = IF v \in Live' THEN rc'[v] ELSE 0
  <2>1. Held(v, Suspended)' = Held(v, Suspended)
    BY <1>1, <1>2, <1>8, <1>15, HeldSame
  <2>2. Occurs(v, <<>>) = 0
    BY OccursOne
  <2>3. /\ owned[v] \in Nat /\ Cardinality(Held(v, Suspended)) \in Nat
        /\ owned[v] + Cardinality(Held(v, Suspended)) = IF v \in Live THEN rc[v] ELSE 0
    BY <1>5, <1>6
  <2>4. /\ Occurs(v, <<x, src>>) = One(x = v) + One(src = v)
        /\ One(x = v) \in Nat /\ One(src = v) \in Nat
        /\ One(size # len /\ x = v) = IF size = len THEN 0 ELSE One(x = v)
    BY OccursTwo DEF One
  <2>5. owned'[v] = owned[v] - Occurs(v, <<x, src>>) + Occurs(v, <<>>)
    BY <1>5
  <2>6. /\ Occurs(decref_op(v), todo') = IF size = len THEN One(x = v) ELSE 0
        /\ Outstanding(v)' = One(src = v) + One(size # len /\ x = v)
    BY <1>12, <1>14
  <2>7. rc'[v] = rc[v] /\ rc[v] \in Int
    BY <1>2, <1>6
  <2> QED
    BY <1>7, <2>1, <2>2, <2>3, <2>4, <2>5, <2>6, <2>7
<1>17. \A v \in Live' : rc'[v] >= 1
  BY <1>2, <1>6, <1>7
<1> QED
  BY <1>8, <1>10, <1>12, <1>16, <1>17, QuietKeeps

(* The source that was taken apart is freed.                               *)
LEMMA FreeSourceKeeps ==
  ASSUME HeapInv, FreeSource PROVE HeapInv'
<1>1. HeapTypeOK /\ StaticInv /\ LastInv /\ fault # "other"
  BY DEF HeapInv
<1>2. PICK o, d : o = last.src /\ d = last.dst
  OBVIOUS
<1>3. /\ todo = <<>> /\ fault = "none" /\ last.op = "free" /\ free(o)
      /\ todo' = IF d = Null THEN <<>> ELSE <<decref_op(d)>>
      /\ last' = Nothing /\ UNCHANGED <<owned, fault>>
  BY <1>2 DEF FreeSource, Finishing
<1>4. /\ Live \subseteq Objects /\ Steady = Live
      /\ \A y \in Live : \A i : Keeps(y, i) <=> i \in 1 .. Len(slots[y]) /\ ~TakenOver(y, i)
      /\ \A v \in Objects :
            /\ owned[v] \in Nat /\ Outstanding(v) \in Nat
            /\ Cardinality(Held(v, Suspended)) \in Nat
            /\ rc[v] \in Int /\ (v \in Live => rc[v] >= 1)
            /\ owned[v] + Outstanding(v) + Cardinality(Held(v, Suspended))
                 = IF v \in Live THEN rc[v] ELSE 0
  BY <1>3, Quiet
<1>5. o \in Live /\ o \in Objects /\ d \in Objects \cup Static \cup {Null} /\ rc[o] = 1
  <2>1. last.src \in Steady
    BY <1>3, CallSteady DEF HeapInv
  <2> QED
    BY <1>1, <1>2, <1>3, <1>4, <2>1 DEF LastInv
<1>6. \A v : Outstanding(v) = One(o = v) + One(d = v)
  BY <1>2, <1>3 DEF Outstanding
<1>7. /\ HeapTypeOK' /\ Live' = Live \ {o}
      /\ \A x \in Objects \cup Static : x # o => rc'[x] = rc[x] /\ slots'[x] = slots[x]
  BY <1>1, <1>3, <1>5, FreeIs
<1>8. \A v \in Objects \cup Static \cup {Null} : Occurs(decref_op(v), todo')
          = IF d = Null THEN 0 ELSE One(d = v)
  BY <1>3, <1>5, OneDecref
<1>9. todo' \in Seq(DecrefSteps)
  BY <1>3, <1>5, OneDecref
<1>10. /\ \A y \in Live' : \A i : Keeps(y, i)' <=> i \in 1 .. Len(slots'[y]) /\ ~TakenOver(y, i)'
       /\ \A y, i : Keeps(y, i)' => y \in Live'
  BY <1>7, <1>9, QuietNext
<1>11. /\ \A y, i : ~TakenOver(y, i)'
       /\ \A v : Outstanding(v)' = 0
       /\ \A y, i : TakenOver(y, i) <=> y = o
  BY <1>2, <1>3 DEF TakenOver, Outstanding, Nothing
<1>12. ASSUME NEW y, NEW i PROVE (Keeps(y, i)' <=> Keeps(y, i)) /\ (Keeps(y, i) => y # o)
  <2>1. CASE y = o
    BY <1>4, <1>5, <1>7, <1>10, <1>11, <2>1
  <2>2. CASE y # o /\ y \in Live
    <3>1. y \in Live' /\ slots'[y] = slots[y]
      BY <1>4, <1>7, <2>2
    <3> QED
      BY <1>4, <1>10, <1>11, <2>2, <3>1
  <2>3. CASE y \notin Live
    BY <1>7, <1>10, <2>3 DEF Keeps
  <2> QED
    BY <2>1, <2>2, <2>3
<1>13. ASSUME NEW v \in Objects
       PROVE  owned'[v] + Occurs(decref_op(v), todo') + Outstanding(v)'
                    + Cardinality(Held(v, Suspended)') = IF v \in Live' THEN rc'[v] ELSE 0
  <2>1. Held(v, Suspended)' = Held(v, Suspended)
    <3>1. \A y, i : Keeps(y, i)' <=> Keeps(y, i)
      BY <1>12
    <3>2. \A y, i : Keeps(y, i) => slots'[y][i] = slots[y][i]
      BY <1>4, <1>7, <1>12 DEF Keeps
    <3> QED
      BY <1>1, <1>7, <3>1, <3>2, HeldSame
  <2>2. /\ owned[v] \in Nat /\ Cardinality(Held(v, Suspended)) \in Nat /\ rc[v] \in Int
        /\ owned[v] + Outstanding(v) + Cardinality(Held(v, Suspended))
             = IF v \in Live THEN rc[v] ELSE 0
    BY <1>4
  <2>3. /\ Outstanding(v) = One(o = v) + One(d = v)
        /\ Occurs(decref_op(v), todo') = IF d = Null THEN 0 ELSE One(d = v)
        /\ Outstanding(v)' = 0 /\ owned'[v] = owned[v]
    BY <1>3, <1>6, <1>8, <1>11
  <2>4. /\ One(o = v) = IF o = v THEN 1 ELSE 0
        /\ One(d = v) = IF d = v THEN 1 ELSE 0
    BY DEF One
  <2>5. v # Null
    BY RefCountAssumption DEF RefCountAssumption
  <2>6. CASE v = o
    BY <1>5, <1>7, <2>1, <2>2, <2>3, <2>4, <2>5, <2>6
  <2>7. CASE v # o
    <3>1. v \in Live' <=> v \in Live
      BY <1>7, <2>7
    <3>2. rc'[v] = rc[v]
      BY <1>7, <2>7
    <3> QED
      BY <2>1, <2>2, <2>3, <2>4, <2>5, <2>7, <3>1, <3>2
  <2> QED
    BY <2>6, <2>7
<1>14. LastInv' /\ StaticInv' /\ fault' # "other"
  <2>1. Empty # o /\ Empty \in Objects \cup Static
    BY <1>5, RefCountAssumption DEF RefCountAssumption, Static
  <2>2. shape'[Empty] = shape[Empty]
    BY <1>1, <1>3, <1>5, <2>1 DEF free, HeapTypeOK
  <2>3. LastInv'
    BY <1>3 DEF LastInv, Nothing
  <2> QED
    BY <1>1, <1>3, <1>7, <2>1, <2>2, <2>3 DEF StaticInv
<1>15. \A v \in Live' : rc'[v] >= 1
  BY <1>4, <1>7
<1> QED
  BY <1>7, <1>9, <1>13, <1>14, <1>15, QuietKeeps

(* A part of a list.                                                       *)
LEMMA PartIs ==
  ASSUME NEW V, NEW s \in Seq(V), NEW a \in Nat, NEW n \in Nat, a + n <= Len(s)
  PROVE  /\ SubSeq(s, a + 1, a + n) \in Seq(V) /\ Len(SubSeq(s, a + 1, a + n)) = n
         /\ \A i \in 1 .. n : SubSeq(s, a + 1, a + n)[i] = s[i + a]
  BY OccursPartRest DEF PartOf

(* A list by its elements.                                                 *)
LEMMA ListIs ==
  ASSUME NEW V, NEW m \in Nat, NEW t, t = [i \in 1 .. m |-> t[i]], \A i \in 1 .. m : t[i] \in V
  PROVE  t \in Seq(V) /\ Len(t) = m
  OBVIOUS

(* What a copy of n elements leaves in the array it writes to.             *)
LEMMA CopyIs ==
  ASSUME HeapTypeOK, StaticInv, NEW d \in Objects \cup Static, NEW c \in Seq(Referents),
         NEW f \in Nat, NEW n \in Nat, Len(c) = n, f + n <= Len(slots[d]),
         slots' = [slots EXCEPT ![d] =
                      [i \in DOMAIN @ |-> IF i > f /\ i <= f + n THEN c[i - f] ELSE @[i]]]
  PROVE  /\ slots' \in [Objects \cup Static -> Seq(Referents)]
         /\ \A x \in Objects \cup Static : Len(slots'[x]) = Len(slots[x])
         /\ \A x \in Objects \cup Static : x # d => slots'[x] = slots[x]
         /\ \A i : ~(i \in f + 1 .. f + n) /\ i \in 1 .. Len(slots[d]) => slots'[d][i] = slots[d][i]
         /\ SubSeq(slots'[d], f + 1, f + n) = c
         /\ slots'[Empty] = <<>>
<1> DEFINE s == slots[d]
           m == Len(s)
           t == [i \in 1 .. m |-> IF i > f /\ i <= f + n THEN c[i - f] ELSE s[i]]
<1>1. /\ s \in Seq(Referents) /\ DOMAIN s = 1 .. m /\ m \in Nat
      /\ \A i \in 1 .. m : s[i] \in Referents
  BY SlotsAre
<1>2. n \in Nat /\ \A i \in 1 .. n : c[i] \in Referents
  OBVIOUS
<1>3. slots' = [slots EXCEPT ![d] = t]
  BY <1>1
<1>4. slots \in [Objects \cup Static -> Seq(Referents)]
  BY DEF HeapTypeOK, Referents
<1> HIDE DEF s, m
<1>5. \A i \in 1 .. m : (IF i > f /\ i <= f + n THEN c[i - f] ELSE s[i]) \in Referents
  <2>1. \A i \in 1 .. m : i > f /\ i <= f + n => i - f \in 1 .. n
    BY <1>1, <1>2
  <2> QED
    BY <1>1, <1>2, <2>1
<1>6. t \in Seq(Referents) /\ Len(t) = m
  <2>1. t = [i \in 1 .. m |-> t[i]] /\ \A i \in 1 .. m : t[i] \in Referents
    BY <1>5
  <2>2. m \in Nat
    BY <1>1
  <2> HIDE DEF t
  <2> QED
    BY <2>1, <2>2, ListIs
<1>7. \A i \in 1 .. m : t[i] = IF i > f /\ i <= f + n THEN c[i - f] ELSE s[i]
  OBVIOUS
<1> HIDE DEF t
<1>8. /\ slots' \in [Objects \cup Static -> Seq(Referents)] /\ slots'[d] = t
      /\ \A x \in Objects \cup Static : x # d => slots'[x] = slots[x]
  BY <1>3, <1>4, <1>6
<1>9. \A x \in Objects \cup Static : Len(slots'[x]) = Len(slots[x])
  BY <1>6, <1>8 DEF m, s
<1>10. f + n <= m
  BY DEF m, s
<1>11. SubSeq(t, f + 1, f + n) = c
  <2>1. /\ SubSeq(t, f + 1, f + n) \in Seq(Referents) /\ Len(SubSeq(t, f + 1, f + n)) = n
        /\ \A i \in 1 .. n : SubSeq(t, f + 1, f + n)[i] = t[i + f]
    <3>1. f + n <= Len(t)
      BY <1>6, <1>10
    <3> QED
      BY <1>2, <1>6, <3>1, PartIs
  <2> DEFINE u == SubSeq(t, f + 1, f + n)
  <2> HIDE DEF u
  <2>2. ASSUME NEW i \in 1 .. n PROVE u[i] = c[i]
    <3>1. i + f \in 1 .. m /\ i + f > f /\ i + f <= f + n /\ (i + f) - f = i
      BY <1>1, <1>2, <1>10
    <3>2. t[i + f] = c[(i + f) - f]
      BY <1>7, <3>1
    <3> QED
      BY <2>1, <3>1, <3>2 DEF u
  <2>3. u \in Seq(Referents) /\ Len(u) = Len(c)
    BY <2>1 DEF u
  <2>4. u = c
    BY <2>1, <2>2, <2>3, SeqEqual
  <2> QED
    BY <2>4 DEF u
<1>12. \A i : ~(i \in f + 1 .. f + n) /\ i \in 1 .. m => t[i] = s[i]
  BY <1>1, <1>2, <1>7
<1>13. slots'[Empty] = <<>>
  <2>1. slots[Empty] = <<>> /\ Empty \in Objects \cup Static
    BY DEF StaticInv, Static
  <2>2. Len(slots'[Empty]) = 0
    BY <1>9, <2>1
  <2>3. slots'[Empty] \in Seq(Referents)
    BY <1>8, <2>1
  <2> QED
    BY <2>2, <2>3, EmptySeq
<1> QED
  BY <1>8, <1>9, <1>11, <1>12, <1>13 DEF m, s

(* Copy, where a blit moves or copies its elements.                        *)
LEMMA CopyKeeps ==
  ASSUME HeapInv, Copy PROVE HeapInv'
<1>1. HeapTypeOK /\ StaticInv /\ LastInv /\ fault # "other"
  BY DEF HeapInv
<1>2. PICK d, s, f, g, n, m, c :
         /\ d = last.dst /\ s = last.src /\ f = last.doff /\ g = last.soff /\ n = last.len
         /\ m = last.moved /\ c = last.counted
  OBVIOUS
<1>3. /\ todo = <<>> /\ fault = "none" /\ last.op = "copy" /\ ~Freed(s) /\ ~Freed(d)
      /\ slots' = [slots EXCEPT ![d] =
                      [i \in DOMAIN @ |-> IF i > f /\ i <= f + n THEN slots[s][i - f + g]
                                          ELSE @[i]]]
      /\ m => last' = free_op(s, d) /\ UNCHANGED todo
      /\ ~m => todo' = <<decref_op(d)>> /\ last' = Nothing
      /\ UNCHANGED <<shape, rc, owned, fault>>
  BY <1>2 DEF Copy, Finishing
<1>4. /\ Live \subseteq Objects /\ Empty \notin Live /\ Steady = Live
      /\ \A y \in Live : \A i : Keeps(y, i) <=> i \in 1 .. Len(slots[y]) /\ ~TakenOver(y, i)
      /\ \A v \in Objects :
            /\ owned[v] \in Nat /\ Outstanding(v) \in Nat
            /\ Cardinality(Held(v, Suspended)) \in Nat
            /\ rc[v] \in Int /\ (v \in Live => rc[v] >= 1)
            /\ owned[v] + Outstanding(v) + Cardinality(Held(v, Suspended))
                 = IF v \in Live THEN rc[v] ELSE 0
  BY <1>3, Quiet
<1>5. /\ d \in Objects \cup Static /\ s \in Objects \cup Static
      /\ f \in Nat /\ g \in Nat /\ n \in Nat /\ m \in BOOLEAN
      /\ c \in Seq(Referents) /\ Len(c) = n
      /\ f + n <= Len(slots[d])
      /\ s \in Live \cup Static =>
           g + n <= Len(slots[s]) /\ \A i \in 1 .. n : c[i] = slots[s][g + i]
      /\ m => s \in Objects /\ s # d /\ rc[s] = 1
  BY <1>1, <1>2, <1>3, <1>4 DEF LastInv
<1>6. d \in Live \cup Static /\ s \in Live \cup Static
  BY <1>3, <1>5 DEF Freed, Live
<1>7. slots' = [slots EXCEPT ![d] =
                   [i \in DOMAIN @ |-> IF i > f /\ i <= f + n THEN c[i - f] ELSE @[i]]]
  <2> DEFINE D == DOMAIN slots[d]
             A == [i \in D |-> IF i > f /\ i <= f + n THEN slots[s][i - f + g] ELSE slots[d][i]]
             B == [i \in D |-> IF i > f /\ i <= f + n THEN c[i - f] ELSE slots[d][i]]
  <2>1. D \subseteq Nat
    BY <1>1, <1>5, SlotsAre
  <2>2. ASSUME NEW i \in D, i > f /\ i <= f + n PROVE slots[s][i - f + g] = c[i - f]
    <3> DEFINE k == i - f
    <3>1. k \in 1 .. n /\ g + k = i - f + g
      BY <1>5, <2>1, <2>2
    <3> HIDE DEF k
    <3>2. c[k] = slots[s][g + k]
      BY <1>5, <1>6, <3>1
    <3> QED
      BY <3>1, <3>2 DEF k
  <2>3. A = B
    BY <2>2
  <2>4. slots' = [slots EXCEPT ![d] = A]
    BY <1>3
  <2> QED
    BY <2>3, <2>4
<1>8. /\ slots' \in [Objects \cup Static -> Seq(Referents)]
      /\ \A x \in Objects \cup Static : Len(slots'[x]) = Len(slots[x])
      /\ \A x \in Objects \cup Static : x # d => slots'[x] = slots[x]
      /\ \A i : ~(i \in f + 1 .. f + n) /\ i \in 1 .. Len(slots[d]) => slots'[d][i] = slots[d][i]
      /\ SubSeq(slots'[d], f + 1, f + n) = c
      /\ slots'[Empty] = <<>>
  BY <1>1, <1>5, <1>7, CopyIs
<1>9. HeapTypeOK' /\ StaticInv' /\ fault' # "other" /\ Live' = Live
  BY <1>1, <1>3, <1>8 DEF HeapTypeOK, StaticInv, Live, Referents
<1>10. /\ todo' \in Seq(DecrefSteps)
       /\ \A v : Occurs(decref_op(v), todo') = IF m THEN 0 ELSE One(d = v)
  <2>1. CASE m
    <3>1. todo' = <<>>
      BY <1>3, <2>1
    <3>2. todo' \in Seq(DecrefSteps) /\ \A v : Occurs(decref_op(v), todo') = 0
      BY <1>5, <3>1, OneDecref
    <3> QED
      BY <2>1, <3>2
  <2>2. CASE ~m
    <3>1. todo' = <<decref_op(d)>>
      BY <1>3, <2>2
    <3>2. todo' \in Seq(DecrefSteps) /\ \A v : Occurs(decref_op(v), todo') = One(d = v)
      BY <1>5, <3>1, OneDecref
    <3> QED
      BY <2>2, <3>2
  <2> QED
    BY <2>1, <2>2
<1>11. /\ LastInv'
       /\ \A y, i : TakenOver(y, i)' <=> m /\ y = s
       /\ \A v : Outstanding(v)' = IF m THEN One(s = v) + One(d = v) ELSE 0
  <2>1. CASE m
    <3>1. last'.op = "free" /\ last'.src = s /\ last'.dst = d
      BY <1>3, <2>1 DEF free_op
    <3> QED
      BY <1>3, <1>5, <2>1, <3>1 DEF LastInv, TakenOver, Outstanding
  <2>2. CASE ~m
    <3>1. last'.op = "nothing"
      BY <1>3, <2>2 DEF Nothing
    <3> QED
      BY <2>2, <3>1 DEF LastInv, TakenOver, Outstanding
  <2> QED
    BY <2>1, <2>2
<1>12. /\ \A y, i : TakenOver(y, i) <=> (m /\ y = s) \/ (y = d /\ i > f /\ i <= f + n)
       /\ \A v : Outstanding(v) = One(d = v) + One(m /\ s = v) + Occurs(v, c)
  <2>1. ASSUME NEW y, NEW i
        PROVE  TakenOver(y, i) <=> (m /\ y = s) \/ (y = d /\ i > f /\ i <= f + n)
    <3>1. last.op = "copy" /\ last.op # "free"
      BY <1>3
    <3> QED
      BY <1>2, <3>1, Zenon DEF TakenOver
  <2>2. ASSUME NEW v PROVE Outstanding(v) = One(d = v) + One(m /\ s = v) + Occurs(v, c)
    BY <1>2, <1>3, Zenon DEF Outstanding
  <2> QED
    BY <2>1, <2>2
<1>13. /\ \A y \in Live' : \A i : Keeps(y, i)' <=> i \in 1 .. Len(slots'[y]) /\ ~TakenOver(y, i)'
       /\ \A y, i : Keeps(y, i)' => y \in Live'
  BY <1>9, <1>10, QuietNext
<1>14. ASSUME NEW y, NEW i
       PROVE  Keeps(y, i) <=> Keeps(y, i)' /\ ~(y = d /\ i \in f + 1 .. f + n)
  <2>1. CASE y \in Live
    <3>1. Len(slots'[y]) = Len(slots[y]) /\ Len(slots[y]) \in Nat
      BY <1>1, <1>4, <1>8, <2>1, SlotsAre
    <3>2. i \in 1 .. Len(slots[y]) => ((i > f /\ i <= f + n) <=> i \in f + 1 .. f + n)
      BY <1>5, <3>1
    <3>3. Keeps(y, i) <=> i \in 1 .. Len(slots[y]) /\ ~TakenOver(y, i)
      BY <1>4, <2>1
    <3>4. Keeps(y, i)' <=> i \in 1 .. Len(slots[y]) /\ ~TakenOver(y, i)'
      BY <1>9, <1>13, <2>1, <3>1
    <3>5. TakenOver(y, i)' <=> m /\ y = s
      BY <1>11
    <3>6. TakenOver(y, i) <=> (m /\ y = s) \/ (y = d /\ i > f /\ i <= f + n)
      BY <1>12
    <3>7. TakenOver(y, i) <=> TakenOver(y, i)' \/ (y = d /\ i > f /\ i <= f + n)
      BY <3>5, <3>6, Zenon
    <3> QED
      BY <3>2, <3>3, <3>4, <3>7
  <2>2. CASE y \notin Live
    BY <1>9, <1>13, <2>2 DEF Keeps
  <2> QED
    BY <2>1, <2>2
<1>15. ASSUME NEW y, NEW i, Keeps(y, i) PROVE slots'[y][i] = slots[y][i]
  <2>1. y \in Live /\ i \in 1 .. Len(slots[y]) /\ ~(y = d /\ i \in f + 1 .. f + n)
    BY <1>4, <1>14, <1>15 DEF Keeps
  <2> QED
    BY <1>4, <1>8, <2>1
<1>16. ASSUME NEW v \in Objects
       PROVE  /\ Occurs(v, c) \in Nat
              /\ Cardinality(Held(v, Suspended)') = Cardinality(Held(v, Suspended)) + Occurs(v, c)
  <2>1. CASE d \in Objects
    <3> DEFINE a == f + 1
               b == f + n
    <3>1. /\ a \in Nat /\ b \in Nat /\ 0 < a /\ a <= b + 1 /\ b <= Len(slots'[d])
          /\ SubSeq(slots'[d], a, b) = c
      BY <1>5, <1>8
    <3>2. \A i \in a .. b : ~Keeps(d, i) /\ Keeps(d, i)'
      <4>1. d \in Live
        BY <1>6, <2>1, RefCountAssumption DEF RefCountAssumption, Static
      <4>2. \A i \in a .. b : ~Keeps(d, i)
        BY <1>14
      <4>3. \A i \in a .. b : i \in 1 .. Len(slots'[d])
        BY <1>5, <1>8
      <4>4. \A i : ~TakenOver(d, i)'
        BY <1>5, <1>11
      <4> QED
        BY <1>9, <1>13, <4>1, <4>2, <4>3, <4>4
    <3>3. \A x, i : ~(x = d /\ i \in a .. b) =>
                       /\ Keeps(x, i)' <=> Keeps(x, i)
                       /\ Keeps(x, i) => slots'[x][i] = slots[x][i]
      BY <1>14, <1>15
    <3> HIDE DEF a, b
    <3>4. /\ Occurs(v, SubSeq(slots'[d], a, b)) \in Nat
          /\ Cardinality(Held(v, Suspended)')
               = Cardinality(Held(v, Suspended)) + Occurs(v, SubSeq(slots'[d], a, b))
      BY <1>1, <1>9, <2>1, <3>1, <3>2, <3>3, HeldGains
    <3> QED
      BY <3>1, <3>4
  <2>2. CASE d \notin Objects
    <3>1. d = Empty /\ d \notin Live
      BY <1>4, <1>5, <2>2 DEF Static
    <3>2. n = 0
      BY <1>1, <1>5, <3>1 DEF StaticInv
    <3>3. Occurs(v, c) = 0
      <4>1. \A i \in 1 .. Len(c) : c[i] # v
        BY <1>5, <3>2
      <4> QED
        BY <1>5, <4>1, OccursZero
    <3>4. \A x, i : Keeps(x, i)' <=> Keeps(x, i)
      BY <1>9, <1>13, <1>14, <3>1
    <3>5. \A x, i : Keeps(x, i) => slots'[x][i] = slots[x][i]
      BY <1>15
    <3>6. Held(v, Suspended)' = Held(v, Suspended)
      BY <1>1, <1>9, <3>4, <3>5, HeldSame
    <3>7. Cardinality(Held(v, Suspended)) \in Nat
      BY <1>4
    <3> QED
      BY <3>3, <3>6, <3>7
  <2> QED
    BY <2>1, <2>2
<1>17. ASSUME NEW v \in Objects
       PROVE  owned'[v] + Occurs(decref_op(v), todo') + Outstanding(v)'
                    + Cardinality(Held(v, Suspended)') = IF v \in Live' THEN rc'[v] ELSE 0
  <2>1. /\ owned[v] \in Nat /\ Cardinality(Held(v, Suspended)) \in Nat
        /\ owned[v] + Outstanding(v) + Cardinality(Held(v, Suspended))
             = IF v \in Live THEN rc[v] ELSE 0
    BY <1>4
  <2>2. Outstanding(v) = One(d = v) + One(m /\ s = v) + Occurs(v, c)
    BY <1>12
  <2>3. /\ Outstanding(v)' = IF m THEN One(s = v) + One(d = v) ELSE 0
        /\ Occurs(decref_op(v), todo') = IF m THEN 0 ELSE One(d = v)
    BY <1>10, <1>11
  <2>4. /\ One(m /\ s = v) = IF m THEN One(s = v) ELSE 0
        /\ One(d = v) \in Nat /\ One(s = v) \in Nat
    BY DEF One
  <2>5. /\ Occurs(v, c) \in Nat
        /\ Cardinality(Held(v, Suspended)') = Cardinality(Held(v, Suspended)) + Occurs(v, c)
    BY <1>16
  <2>6. owned'[v] = owned[v] /\ rc'[v] = rc[v]
    BY <1>3
  <2> QED
    BY <1>9, <2>1, <2>2, <2>3, <2>4, <2>5, <2>6
<1>18. \A v \in Live' : rc'[v] >= 1
  BY <1>3, <1>4, <1>9
<1> QED
  BY <1>9, <1>10, <1>11, <1>17, <1>18, QuietKeeps

(* A list of n times the same has nothing else.                            *)
LEMMA RepeatIs ==
  ASSUME NEW V, NEW x \in V, NEW n \in Nat, NEW v
  PROVE  /\ Repeat(<<x>>, n) \in Seq(V) /\ Len(Repeat(<<x>>, n)) = n
         /\ Occurs(v, Repeat(<<x>>, n)) = n * One(x = v)
         /\ \A i \in 1 .. n : Repeat(<<x>>, n)[i] = x
<1> DEFINE W == {x}
           r == Repeat(<<x>>, n)
<1>1. r \in Seq(V) /\ Len(r) = n /\ Occurs(v, r) = n * One(x = v)
  BY RepeatOne
<1>2. x \in W
  OBVIOUS
<1> HIDE DEF W
<1>3. Repeat(<<x>>, n) \in Seq(W)
  BY <1>2, RepeatOne
<1> HIDE DEF r
<1>4. r \in Seq(W)
  BY <1>3 DEF r
<1>5. \A i \in 1 .. n : r[i] \in W
  BY <1>1, <1>4
<1> QED
  BY <1>1, <1>5 DEF r, W

(* One list behind another.                                                *)
LEMMA ConcatIs ==
  ASSUME NEW V, NEW s \in Seq(V), NEW t \in Seq(V), NEW n \in Nat, NEW m \in Nat,
         Len(s) = n, Len(t) = m, NEW v
  PROVE  /\ s \o t \in Seq(V) /\ Len(s \o t) = n + m
         /\ Occurs(v, s \o t) = Occurs(v, s) + Occurs(v, t)
         /\ \A i \in 1 .. n + m : (s \o t)[i] = IF i <= n THEN s[i] ELSE t[i - n]
  BY ConcatProperties, OccursConcat

(* A list with p in the middle, and x in the rest.                         *)
FilledWith(t, z, p, f, n, x) ==
    /\ Len(p) = n /\ f + n <= z /\ Len(t) = z
    /\ \A i \in 1 .. z : t[i] = IF i > f /\ i <= f + n THEN p[i - f] ELSE x

(* What occurs in such a list.                                             *)
LEMMA OccursFilled ==
  ASSUME NEW V, NEW p \in Seq(V), NEW x \in V, NEW f \in Nat, NEW n \in Nat, NEW z \in Nat,
         NEW t \in Seq(V), FilledWith(t, z, p, f, n, x), NEW v
  PROVE  /\ Occurs(v, p) \in Nat
         /\ Occurs(v, t) = Occurs(v, p) + (IF x = v THEN z - n ELSE 0)
<1>1. Len(p) = n /\ f + n <= z /\ Len(t) = z
  BY DEF FilledWith
<1>2. \A i \in 1 .. z : t[i] = IF i > f /\ i <= f + n THEN p[i - f] ELSE x
  BY DEF FilledWith
<1>3. PICK m : m \in Nat /\ f + n + m = z
  <2>1. z - n - f \in Nat /\ f + n + (z - n - f) = z
    BY <1>1
  <2> QED
    BY <2>1
<1> DEFINE l == Repeat(<<x>>, f)
           r == Repeat(<<x>>, m)
           lp == l \o p
           u == lp \o r
<1>4. ASSUME NEW k \in Nat
      PROVE  /\ Repeat(<<x>>, k) \in Seq(V) /\ Len(Repeat(<<x>>, k)) = k
             /\ Occurs(v, Repeat(<<x>>, k)) = k * One(x = v)
             /\ \A i \in 1 .. k : Repeat(<<x>>, k)[i] = x
  <2> DEFINE w == Repeat(<<x>>, k)
  <2>1. w \in Seq(V) /\ Len(w) = k /\ Occurs(v, w) = k * One(x = v)
    BY RepeatIs
  <2>2. \A i \in 1 .. k : w[i] = x
    BY RepeatIs
  <2> QED
    BY <2>1, <2>2
<1>5. /\ l \in Seq(V) /\ Len(l) = f /\ Occurs(v, l) = f * One(x = v)
      /\ \A i \in 1 .. f : l[i] = x
  BY <1>4
<1>6. /\ r \in Seq(V) /\ Len(r) = m /\ Occurs(v, r) = m * One(x = v)
      /\ \A i \in 1 .. m : r[i] = x
  BY <1>3, <1>4
<1> HIDE DEF l, r
<1>7. /\ lp \in Seq(V) /\ Len(lp) = f + n /\ Occurs(v, lp) = Occurs(v, l) + Occurs(v, p)
      /\ \A i \in 1 .. f + n : lp[i] = IF i <= f THEN l[i] ELSE p[i - f]
  <2>1. Len(p) = n /\ l \in Seq(V) /\ Len(l) = f
    BY <1>1, <1>5
  <2> QED
    BY <2>1, ConcatIs
<1> HIDE DEF lp
<1>8. /\ u \in Seq(V) /\ Len(u) = z /\ Occurs(v, u) = Occurs(v, lp) + Occurs(v, r)
      /\ \A i \in 1 .. z : u[i] = IF i <= f + n THEN lp[i] ELSE r[i - (f + n)]
  <2> DEFINE k == f + n
  <2>1. k \in Nat /\ Len(lp) = k /\ z = k + m
    BY <1>1, <1>3, <1>7
  <2> HIDE DEF k
  <2>2. /\ lp \o r \in Seq(V) /\ Len(lp \o r) = k + m
        /\ Occurs(v, lp \o r) = Occurs(v, lp) + Occurs(v, r)
        /\ \A i \in 1 .. k + m : (lp \o r)[i] = IF i <= k THEN lp[i] ELSE r[i - k]
    <3>1. m \in Nat /\ lp \in Seq(V) /\ r \in Seq(V) /\ Len(r) = m
      BY <1>1, <1>3, <1>6, <1>7
    <3> QED
      BY <1>1, <2>1, <3>1, ConcatIs
  <2> QED
    BY <1>1, <2>1, <2>2 DEF k
<1> HIDE DEF u
<1>9. ASSUME NEW i \in 1 .. z PROVE t[i] = u[i]
  <2>1. CASE i <= f
    <3>1. i \in 1 .. f /\ i \in 1 .. f + n /\ ~(i > f) /\ i <= f + n
      BY <1>1, <2>1
    <3>2. l[i] = x
      BY <1>1, <1>5, <3>1
    <3> QED
      BY <1>1, <1>2, <1>7, <1>8, <3>1, <3>2
  <2>2. CASE i > f /\ i <= f + n
    <3>1. i \in 1 .. f + n /\ ~(i <= f)
      BY <1>1, <2>2
    <3> QED
      BY <1>1, <1>2, <1>7, <1>8, <2>2, <3>1
  <2>3. CASE i > f + n
    <3> DEFINE k == i - (f + n)
    <3>1. k \in 1 .. m /\ ~(i <= f + n)
      BY <1>1, <1>3, <2>3
    <3> HIDE DEF k
    <3>2. r[k] = x
      BY <1>1, <1>6, <3>1
    <3>3. u[i] = r[k]
      BY <1>1, <1>8, <3>1 DEF k
    <3> QED
      BY <1>1, <1>2, <3>1, <3>2, <3>3
  <2> QED
    BY <1>1, <2>1, <2>2, <2>3
<1>10. t = u
  BY <1>1, <1>8, <1>9, SeqEqual
<1>11. Occurs(v, p) \in Nat
  BY <1>1, OccursIsNat
<1>12. CASE x = v
  <2>1. One(x = v) = 1
    BY <1>1, <1>12 DEF One
  <2>2. Occurs(v, l) = f /\ Occurs(v, r) = m
    BY <1>3, <1>5, <1>6, <2>1
  <2>3. Occurs(v, t) = f + Occurs(v, p) + m
    BY <1>7, <1>8, <1>10, <2>2
  <2> QED
    BY <1>1, <1>3, <1>11, <1>12, <2>3
<1>13. CASE x # v
  <2>1. One(x = v) = 0
    BY <1>1, <1>13 DEF One
  <2>2. Occurs(v, l) = 0 /\ Occurs(v, r) = 0
    BY <1>1, <1>3, <1>5, <1>6, <2>1
  <2> QED
    BY <1>1, <1>7, <1>8, <1>10, <1>11, <1>13, <2>2
<1> QED
  BY <1>1, <1>12, <1>13

(* Sets of which one loses L and gains G.                                  *)
LEMMA SizeChanges ==
  ASSUME NEW H, NEW K, NEW L, NEW G, IsFiniteSet(H), IsFiniteSet(L), IsFiniteSet(G),
         L \subseteq H, G \cap H = {}, K = (H \ L) \cup G
  PROVE  /\ Cardinality(H) \in Nat /\ Cardinality(K) \in Nat
         /\ Cardinality(L) \in Nat /\ Cardinality(G) \in Nat
         /\ Cardinality(K) + Cardinality(L) = Cardinality(H) + Cardinality(G)
<1> DEFINE R == H \ L
<1>1. IsFiniteSet(R)
  BY FS_Subset
<1>2. H = R \cup L /\ R \cap L = {} /\ R \cap G = {} /\ K = R \cup G
  OBVIOUS
<1> HIDE DEF R
<1>3. /\ Cardinality(R) \in Nat /\ Cardinality(L) \in Nat
      /\ Cardinality(R \cup L) = Cardinality(R) + Cardinality(L)
  BY <1>1, <1>2, Disjoint
<1>4. /\ Cardinality(G) \in Nat
      /\ Cardinality(R \cup G) = Cardinality(R) + Cardinality(G)
  BY <1>1, <1>2, Disjoint
<1> QED
  BY <1>2, <1>3, <1>4

(* What one object held, another holds.                                    *)
LEMMA HeldMoves ==
  ASSUME HeapTypeOK, HeapTypeOK', NEW v, NEW o \in Objects, NEW q \in Objects, o # q,
         \A i : Keeps(o, i) <=> i \in 1 .. Len(slots[o]),
         \A i : ~Keeps(o, i)',
         \A i : ~Keeps(q, i),
         \A i : Keeps(q, i)' <=> i \in 1 .. Len(slots'[q]),
         \A x, i : x # o /\ x # q => /\ Keeps(x, i)' <=> Keeps(x, i)
                                     /\ Keeps(x, i) => slots'[x][i] = slots[x][i]
  PROVE  /\ Cardinality(Held(v, Suspended)') \in Nat
         /\ Occurs(v, slots[o]) \in Nat /\ Occurs(v, slots'[q]) \in Nat
         /\ Cardinality(Held(v, Suspended)') + Occurs(v, slots[o])
              = Cardinality(Held(v, Suspended)) + Occurs(v, slots'[q])
<1> DEFINE H == Held(v, Suspended)
           K == Held(v, Suspended)'
           L == Places(o, slots[o], 0, Len(slots[o]), v)
           G == Places(q, slots'[q], 0, Len(slots'[q]), v)
<1>1. /\ \A x, i : <<x, i>> \in H <=> Keeps(x, i) /\ slots[x][i] = v
      /\ H \subseteq Objects \X (1 .. MaxSlots)
  BY HeldKeeps
<1>2. /\ \A x, i : <<x, i>> \in K <=> Keeps(x, i)' /\ slots'[x][i] = v
      /\ K \subseteq Objects \X (1 .. MaxSlots)
  BY HeldKeepsNext
<1>3. slots[o] \in Seq(Referents) /\ slots'[q] \in Seq(Referents)
  BY DEF HeapTypeOK, Referents
<1>4. /\ IsFiniteSet(L) /\ Cardinality(L) = Occurs(v, slots[o])
      /\ IsFiniteSet(G) /\ Cardinality(G) = Occurs(v, slots'[q])
  BY <1>3, PlacesWhole
<1>5. IsFiniteSet(H)
  BY <1>1, FewPlaces
<1>6. /\ \A x, i : <<x, i>> \in L <=> x = o /\ i \in 1 .. Len(slots[o]) /\ slots[o][i] = v
      /\ \A x, i : <<x, i>> \in G <=> x = q /\ i \in 1 .. Len(slots'[q]) /\ slots'[q][i] = v
      /\ \A p \in L \cup G : p = <<p[1], p[2]>>
  <2>1. 0 + 1 = 1
    OBVIOUS
  <2> QED
    BY <2>1 DEF Places
<1>7. \A p \in H \cup K : p = <<p[1], p[2]>>
  BY <1>1, <1>2
<1> HIDE DEF H, K, L, G
<1>8. ASSUME NEW x, NEW i
      PROVE  /\ <<x, i>> \in L => <<x, i>> \in H
             /\ ~(<<x, i>> \in G /\ <<x, i>> \in H)
             /\ <<x, i>> \in K <=> <<x, i>> \in (H \ L) \cup G
  <2>1. CASE x = o
    BY <1>1, <1>2, <1>6, <2>1
  <2>2. CASE x = q
    BY <1>1, <1>2, <1>6, <2>2
  <2>3. CASE x # o /\ x # q
    BY <1>1, <1>2, <1>6, <2>3
  <2> QED
    BY <2>1, <2>2, <2>3
<1>9. L \subseteq H /\ G \cap H = {} /\ K = (H \ L) \cup G
  BY <1>6, <1>7, <1>8
<1>10. /\ Cardinality(K) \in Nat /\ Cardinality(L) \in Nat /\ Cardinality(G) \in Nat
       /\ Cardinality(K) + Cardinality(L) = Cardinality(H) + Cardinality(G)
  BY <1>4, <1>5, <1>9, SizeChanges
<1> QED
  BY <1>4, <1>10 DEF H, K

(* Between calls, what is freed is in no slot of what lives.               *)
LEMMA NotDangling ==
  ASSUME HeapInv, todo = <<>>, NEW x \in Live \cup Static, \A i : ~TakenOver(x, i),
         NEW v \in Objects \ Live
  PROVE  \A i \in 1 .. Len(slots[x]) : slots[x][i] # v
<1>1. /\ \A y \in Live : \A i : Keeps(y, i) <=> i \in 1 .. Len(slots[y]) /\ ~TakenOver(y, i)
      /\ owned[v] \in Nat /\ Outstanding(v) \in Nat /\ Cardinality(Held(v, Suspended)) \in Nat
      /\ owned[v] + Outstanding(v) + Cardinality(Held(v, Suspended)) = 0
  BY Quiet
<1>2. HeapTypeOK /\ StaticInv
  BY DEF HeapInv
<1>3. CASE x \in Live
  <2>1. SUFFICES ASSUME NEW i \in 1 .. Len(slots[x]), slots[x][i] = v PROVE FALSE
    OBVIOUS
  <2>2. <<x, i>> \in Held(v, Suspended)
    BY <1>1, <1>2, <1>3, <2>1, HeldKeeps
  <2>3. IsFiniteSet(Held(v, Suspended))
    BY <1>2, HeldIs
  <2>4. Cardinality(Held(v, Suspended)) = 0
    BY <1>1
  <2> DEFINE H == Held(v, Suspended)
  <2> HIDE DEF H
  <2>5. <<x, i>> \in H /\ IsFiniteSet(H) /\ Cardinality(H) = 0
    BY <2>2, <2>3, <2>4 DEF H
  <2> QED
    BY <2>5, FS_EmptySet
<1>4. CASE x \in Static
  BY <1>2, <1>4 DEF StaticInv, Static
<1> QED
  BY <1>3, <1>4

(* A part of an object and the rest of it.                                 *)
LEMMA PartRestAre ==
  ASSUME HeapTypeOK, NEW s \in Objects \cup Static, NEW g \in Nat, NEW n \in Nat,
         g + n <= Len(slots[s])
  PROVE  /\ Part(s, g, n) \in Seq(Referents) /\ Rest(s, g, n) \in Seq(Referents)
         /\ Len(Part(s, g, n)) = n
         /\ \A i \in 1 .. n : Part(s, g, n)[i] = slots[s][i + g]
         /\ \A v : Occurs(v, slots[s]) = Occurs(v, Part(s, g, n)) + Occurs(v, Rest(s, g, n))
<1>1. slots[s] \in Seq(Referents)
  BY SlotsAre
<1>2. Part(s, g, n) = PartOf(slots[s], g, n) /\ Rest(s, g, n) = RestOf(slots[s], g, n)
  BY DEF Part, Rest, PartOf, RestOf
<1> DEFINE t == slots[s]
<1>3. t \in Seq(Referents) /\ g + n <= Len(t)
  BY <1>1
<1> HIDE DEF t
<1>4. ASSUME NEW v
      PROVE  /\ PartOf(t, g, n) \in Seq(Referents) /\ RestOf(t, g, n) \in Seq(Referents)
             /\ Len(PartOf(t, g, n)) = n
             /\ \A i \in 1 .. n : PartOf(t, g, n)[i] = t[i + g]
             /\ Occurs(v, t) = Occurs(v, PartOf(t, g, n)) + Occurs(v, RestOf(t, g, n))
  BY <1>3, OccursPartRest
<1> QED
  BY <1>2, <1>4 DEF t

(* The counts when a new array a holds a value k times.                    *)
FillCounts(a, x, k) == [IF k > 1 THEN AddTo(rc, x, k) ELSE rc EXCEPT ![a] = 1]

(* Only the counts of the new array and of its value change.               *)
LEMMA FillCountsAre ==
  ASSUME rc \in [Objects \cup Static -> Int], rc[Empty] = -1, NEW a \in Objects,
         NEW x \in Referents, NEW k \in Nat, k > 0 /\ x # Null => x # a /\ rc[x] >= 1
  PROVE  /\ FillCounts(a, x, k) \in [Objects \cup Static -> Int]
         /\ FillCounts(a, x, k)[a] = 1 /\ FillCounts(a, x, k)[Empty] = -1
         /\ \A v \in Objects : v # a =>
               FillCounts(a, x, k)[v] = rc[v] + (IF k > 0 /\ x = v THEN k - 1 ELSE 0)
<1>1. Empty # a /\ Empty \in Objects \cup Static /\ Empty # x /\ Null \notin Objects
  BY RefCountAssumption DEF RefCountAssumption, Static, Referents
<1>2. CASE k > 1 /\ x # Null
  <2>1. x \in Objects /\ rc[x] > 0 /\ x # a
    BY <1>2 DEF Referents
  <2> DEFINE c == [rc EXCEPT ![x] = @ + k - 1]
  <2>2. AddTo(rc, x, k) = c
    BY <1>2, <2>1 DEF AddTo
  <2>3. /\ c \in [Objects \cup Static -> Int] /\ c[Empty] = -1 /\ c[x] = rc[x] + (k - 1)
        /\ \A v \in Objects : v # x => c[v] = rc[v]
    BY <1>1, <2>1
  <2> HIDE DEF c
  <2>4. FillCounts(a, x, k) = [c EXCEPT ![a] = 1]
    BY <1>2, <2>2 DEF FillCounts
  <2>5. ASSUME NEW v \in Objects, v # a
        PROVE  FillCounts(a, x, k)[v] = rc[v] + (IF k > 0 /\ x = v THEN k - 1 ELSE 0)
    <3>1. FillCounts(a, x, k)[v] = c[v] /\ rc[v] \in Int
      BY <2>3, <2>4, <2>5
    <3>2. CASE x = v
      BY <1>2, <2>3, <3>1, <3>2
    <3>3. CASE x # v
      BY <2>3, <3>1, <3>3
    <3> QED
      BY <3>2, <3>3
  <2>6. /\ FillCounts(a, x, k) \in [Objects \cup Static -> Int]
        /\ FillCounts(a, x, k)[a] = 1 /\ FillCounts(a, x, k)[Empty] = -1
    BY <1>1, <2>3, <2>4
  <2> QED
    BY <2>5, <2>6
<1>3. CASE ~(k > 1 /\ x # Null)
  <2>1. FillCounts(a, x, k) = [rc EXCEPT ![a] = 1]
    BY <1>3 DEF FillCounts, AddTo
  <2>2. ASSUME NEW v \in Objects, v # a
        PROVE  FillCounts(a, x, k)[v] = rc[v] + (IF k > 0 /\ x = v THEN k - 1 ELSE 0)
    <3>1. FillCounts(a, x, k)[v] = rc[v] /\ rc[v] \in Int
      BY <2>1, <2>2
    <3>2. k > 0 /\ x = v => k = 1
      BY <1>1, <1>3
    <3> QED
      BY <3>1, <3>2
  <2>3. /\ FillCounts(a, x, k) \in [Objects \cup Static -> Int]
        /\ FillCounts(a, x, k)[a] = 1 /\ FillCounts(a, x, k)[Empty] = -1
    BY <1>1, <2>1
  <2> QED
    BY <2>2, <2>3
<1> QED
  BY <1>2, <1>3

(* Fill: the array is made, of a source that is taken apart or that is     *)
(* counted again.                                                          *)
LEMMA FillKeeps ==
  ASSUME HeapInv, NEW a \in Objects \ Live, Fill(a) PROVE HeapInv'
<1>1. HeapTypeOK /\ StaticInv /\ LastInv /\ fault # "other"
  BY DEF HeapInv
<1>2. PICK s, x, z, f, g, n :
         /\ s = last.src /\ x = last.value /\ z = last.size
         /\ f = last.doff /\ g = last.soff /\ n = last.len
  OBVIOUS
<1> DEFINE count == FillCounts(a, x, z - n)
           new == [i \in 1 .. z |-> IF i > f /\ i <= f + n THEN slots[s][i - f + g] ELSE x]
           taken == count[s] = 1
           p == Part(s, g, n)
           D(v) == One(z # n /\ x = v)
           E(v) == IF z # n /\ x = v THEN z - n - 1 ELSE 0
<1>3. /\ todo = <<>> /\ fault = "none" /\ last.op = "fill" /\ ~Freed(s)
      /\ malloc(a, "array", new)
      /\ taken => /\ rc' = count /\ todo' = Decrefs(Rest(s, g, n)) /\ last' = free_op(s, Null)
      /\ ~taken => /\ rc' = Increfs(p, [count EXCEPT ![s] = IF @ >= 2 THEN @ - 1 ELSE @], 1)
                   /\ last' = Nothing /\ UNCHANGED todo
      /\ owned' = [owned EXCEPT ![a] = 1] /\ UNCHANGED fault
  BY <1>2 DEF Fill, Finishing, FillCounts
<1>4. /\ Live \subseteq Objects /\ Empty \notin Live /\ Null \notin Live /\ Steady = Live
      /\ \A y \in Live : \A i : Keeps(y, i) <=> i \in 1 .. Len(slots[y]) /\ ~TakenOver(y, i)
      /\ \A v \in Objects :
            /\ owned[v] \in Nat /\ Outstanding(v) \in Nat
            /\ Cardinality(Held(v, Suspended)) \in Nat
            /\ rc[v] \in Int /\ (v \in Live => rc[v] >= 1)
            /\ owned[v] + Outstanding(v) + Cardinality(Held(v, Suspended))
                 = IF v \in Live THEN rc[v] ELSE 0
  BY <1>3, Quiet
<1>5. /\ x \in Referents /\ z \in 1 .. MaxSlots /\ f \in Nat /\ g \in Nat /\ n \in Nat
      /\ f + n <= z /\ g + n <= Len(slots[s]) /\ s \in Live \cup Static
  <2>1. s \in Steady \cup Static
    BY <1>2, <1>3, CallSteady DEF HeapInv
  <2> QED
    BY <1>1, <1>2, <1>3, <1>4, <2>1 DEF LastInv
<1>6. /\ \A v : Outstanding(v) = One(s = v) + One(z # n /\ x = v)
      /\ \A y, i : ~TakenOver(y, i)
  BY <1>2, <1>3 DEF TakenOver, Outstanding
<1>7. s # a /\ s \in Objects \cup Static /\ a \in Objects /\ a \notin Live
  BY <1>4, <1>5, RefCountAssumption DEF RefCountAssumption, Static
<1>8. z - n \in Nat /\ (z # n <=> z - n > 0) /\ z \in Nat /\ z <= MaxSlots
  BY <1>5, RefCountAssumption DEF RefCountAssumption
<1>9. z # n /\ x # Null => x \in Live
  <2>1. SUFFICES ASSUME z # n, x # Null PROVE x \in Live
    OBVIOUS
  <2>2. x \in Objects /\ One(z # n /\ x = x) = 1 /\ One(s = x) \in Nat
    BY <1>5, <2>1 DEF Referents, One
  <2>3. Outstanding(x) = One(s = x) + One(z # n /\ x = x)
    BY <1>6
  <2> QED
    BY <1>4, <2>2, <2>3
<1>10. /\ count \in [Objects \cup Static -> Int] /\ count[a] = 1 /\ count[Empty] = -1
       /\ \A v \in Objects : v # a =>
             count[v] = rc[v] + (IF z # n /\ x = v THEN z - n - 1 ELSE 0)
  <2> DEFINE k == z - n
  <2>1. k \in Nat /\ (k > 0 /\ x # Null => x # a /\ rc[x] >= 1) /\ (k > 0 <=> z # n)
    BY <1>4, <1>8, <1>9
  <2>2. rc \in [Objects \cup Static -> Int] /\ rc[Empty] = -1
    BY <1>1 DEF HeapTypeOK, StaticInv
  <2> HIDE DEF k
  <2>3. /\ FillCounts(a, x, k) \in [Objects \cup Static -> Int]
        /\ FillCounts(a, x, k)[a] = 1 /\ FillCounts(a, x, k)[Empty] = -1
        /\ \A v \in Objects : v # a =>
              FillCounts(a, x, k)[v] = rc[v] + (IF k > 0 /\ x = v THEN k - 1 ELSE 0)
    BY <1>5, <2>1, <2>2, FillCountsAre
  <2> QED
    BY <2>1, <2>3 DEF k
<1> HIDE DEF count
<1>11. slots[s] \in Seq(Referents) /\ Len(slots[s]) \in Nat
  BY <1>1, <1>7, SlotsAre
<1>12. /\ p \in Seq(Referents) /\ Rest(s, g, n) \in Seq(Referents) /\ Len(p) = n
       /\ \A i \in 1 .. n : p[i] = slots[s][i + g]
       /\ \A v : Occurs(v, slots[s]) = Occurs(v, p) + Occurs(v, Rest(s, g, n))
  BY <1>1, <1>5, <1>7, PartRestAre
<1> HIDE DEF p
<1>13. /\ new \in Seq(Referents) /\ Len(new) = z
       /\ \A i \in 1 .. z : new[i] = IF i > f /\ i <= f + n THEN p[i - f] ELSE x
  <2>1. ASSUME NEW i \in 1 .. z
        PROVE  /\ new[i] = IF i > f /\ i <= f + n THEN p[i - f] ELSE x
               /\ new[i] \in Referents
    <3>1. CASE i > f /\ i <= f + n
      <4> DEFINE k == i - f
      <4>1. k \in 1 .. n /\ k + g = i - f + g
        BY <1>5, <1>8, <3>1
      <4>2. new[i] = slots[s][i - f + g]
        BY <3>1
      <4> HIDE DEF k, new
      <4>3. p[k] = slots[s][k + g] /\ p[k] \in Referents
        BY <1>12, <4>1
      <4> QED
        BY <3>1, <4>1, <4>2, <4>3 DEF k
    <3>2. CASE ~(i > f /\ i <= f + n)
      BY <1>5, <3>2
    <3> QED
      BY <3>1, <3>2
  <2>2. new = [i \in 1 .. z |-> new[i]]
    OBVIOUS
  <2> HIDE DEF new
  <2>3. \A i \in 1 .. z : new[i] \in Referents
    BY <2>1
  <2>4. new \in Seq(Referents) /\ Len(new) = z
    BY <1>8, <2>2, <2>3, ListIs
  <2> QED
    BY <2>1, <2>4
<1> HIDE DEF new
<1>14. /\ shape' \in [Objects \cup Static -> {"free", "block", "array", "external"}]
       /\ slots' \in [Objects \cup Static -> Seq(Referents)]
       /\ \A y \in Objects \cup Static : Len(slots'[y]) <= MaxSlots
       /\ Live' = Live \cup {a} /\ slots'[a] = new
       /\ \A y \in Objects \cup Static : y # a => shape'[y] = shape[y] /\ slots'[y] = slots[y]
  <2>1. Len(new) <= MaxSlots
    BY <1>8, <1>13
  <2> QED
    BY <1>1, <1>3, <1>13, <2>1, MallocIs
<1>15. ASSUME NEW v
       PROVE  Occurs(v, p) \in Nat /\ Occurs(v, new) = Occurs(v, p) + (IF x = v THEN z - n ELSE 0)
  <2>1. p \in Seq(Referents) /\ Len(p) = n /\ f + n <= z /\ n \in Nat /\ f \in Nat /\ z \in Nat
    BY <1>5, <1>8, <1>12
  <2>2. x \in Referents
    BY <1>5
  <2> QED
    <3>1. FilledWith(new, z, p, f, n, x)
      BY <1>13, <2>1 DEF FilledWith
    <3>2. new \in Seq(Referents)
      BY <1>13
    <3> QED
      BY <2>1, <2>2, <3>1, <3>2, OccursFilled
<1>16. /\ owned' \in [Objects -> 0 .. MaxOwned] /\ owned'[a] = 1
       /\ \A v \in Objects : v # a => owned'[v] = owned[v]
  <2>1. MaxOwned \in Nat \ {0}
    BY RefCountAssumption DEF RefCountAssumption
  <2>2. 1 \in 0 .. MaxOwned
    BY <2>1
  <2>3. owned \in [Objects -> 0 .. MaxOwned]
    BY <1>1 DEF HeapTypeOK
  <2> QED
    BY <1>3, <1>7, <2>2, <2>3
<1>17. StaticInv' \/ rc'[Empty] # -1
  <2>1. Empty \in Objects \cup Static /\ Empty # a
    BY <1>7, RefCountAssumption DEF RefCountAssumption, Static
  <2> QED
    BY <1>1, <1>14, <2>1 DEF StaticInv
<1>18. ASSUME NEW y, NEW i, y # a
       PROVE  /\ Keeps(y, i) <=> y \in Live /\ i \in 1 .. Len(slots[y])
              /\ Keeps(y, i) => slots'[y][i] = slots[y][i]
              /\ y \in Live => y \in Live' /\ slots'[y] = slots[y]
              /\ y \in Live' => y \in Live
  <2>1. Keeps(y, i) <=> y \in Live /\ i \in 1 .. Len(slots[y])
    <3>1. CASE y \in Live
      BY <1>4, <1>6, <3>1
    <3>2. CASE y \notin Live
      BY <3>2 DEF Keeps
    <3> QED
      BY <3>1, <3>2
  <2> QED
    BY <1>4, <1>14, <1>18, <2>1
<1>19. \A i : ~Keeps(a, i)
  BY DEF Keeps
<1>20. ASSUME NEW v \in Objects
       PROVE  /\ owned[v] \in Nat /\ Cardinality(Held(v, Suspended)) \in Nat /\ rc[v] \in Int
              /\ One(s = v) \in Nat /\ D(v) \in Nat /\ E(v) \in Nat /\ Occurs(v, p) \in Nat
              /\ Occurs(v, new) = Occurs(v, p) + E(v) + D(v)
              /\ v # a => count[v] = rc[v] + E(v)
              /\ v \in Live =>
                   /\ rc[v] >= 1
                   /\ owned[v] + One(s = v) + D(v) + Cardinality(Held(v, Suspended)) = rc[v]
              /\ v \notin Live =>
                   /\ owned[v] = 0 /\ Cardinality(Held(v, Suspended)) = 0
                   /\ One(s = v) = 0 /\ D(v) = 0 /\ E(v) = 0
  <2>1. One(s = v) \in Nat /\ D(v) = IF z # n /\ x = v THEN 1 ELSE 0
    BY DEF One
  <2>2. /\ D(v) \in Nat /\ E(v) \in Nat /\ (D(v) = 0 => E(v) = 0)
        /\ (IF x = v THEN z - n ELSE 0) = E(v) + D(v)
    <3>1. CASE z # n /\ x = v
      BY <1>8, <2>1, <3>1
    <3>2. CASE ~(z # n /\ x = v)
      BY <1>8, <2>1, <3>2
    <3> QED
      BY <3>1, <3>2
  <2>3. v # a => count[v] = rc[v] + E(v)
    BY <1>10
  <2> HIDE DEF E
  <2>4. Occurs(v, p) \in Nat /\ Occurs(v, new) = Occurs(v, p) + E(v) + D(v)
    <3>1. Occurs(v, p) \in Nat /\ Occurs(v, new) = Occurs(v, p) + (IF x = v THEN z - n ELSE 0)
      BY <1>15
    <3> HIDE DEF D
    <3>2. Occurs(v, new) = Occurs(v, p) + (E(v) + D(v))
      BY <2>2, <3>1
    <3> QED
      BY <2>2, <3>1, <3>2
  <2>5. Outstanding(v) = One(s = v) + D(v)
    BY <1>6
  <2> HIDE DEF D
  <2>6. /\ owned[v] \in Nat /\ Cardinality(Held(v, Suspended)) \in Nat
        /\ rc[v] \in Int /\ (v \in Live => rc[v] >= 1)
        /\ owned[v] + Outstanding(v) + Cardinality(Held(v, Suspended))
             = IF v \in Live THEN rc[v] ELSE 0
    BY <1>4
  <2>7. CASE v \in Live
    BY <2>1, <2>2, <2>3, <2>4, <2>5, <2>6, <2>7
  <2>8. CASE v \notin Live
    <3>1. owned[v] = 0 /\ One(s = v) = 0 /\ D(v) = 0 /\ Cardinality(Held(v, Suspended)) = 0
      <4>1. owned[v] + Outstanding(v) + Cardinality(Held(v, Suspended)) = 0
        BY <2>6, <2>8
      <4>2. owned[v] \in Nat /\ Cardinality(Held(v, Suspended)) \in Nat
        BY <2>6
      <4>3. One(s = v) \in Nat /\ D(v) \in Nat
        BY <2>1, <2>2
      <4> QED
        BY <2>5, <4>1, <4>2, <4>3
    <3> QED
      BY <2>1, <2>2, <2>3, <2>4, <2>6, <2>8, <3>1
  <2> QED
    BY <2>7, <2>8
<1>21. \A v : One(s = v) = IF s = v THEN 1 ELSE 0
  BY DEF One
<1> HIDE DEF D, E
<1>22. ASSUME taken PROVE HeapInv'
  <2> DEFINE r == Rest(s, g, n)
  <2>1. rc' = count /\ todo' = Decrefs(r) /\ last' = free_op(s, Null)
    BY <1>3, <1>22
  <2>2. s \in Live /\ s \in Objects /\ s # a
    BY <1>4, <1>5, <1>7, <1>10, <1>22 DEF Static
  <2>3. rc[s] = 1 /\ rc'[s] = 1
    <3>1. count[s] = 1 /\ rc'[s] = count[s]
      BY <1>22, <2>1
    <3>2. count[s] = rc[s] + E(s) /\ rc[s] \in Int /\ rc[s] >= 1 /\ E(s) \in Nat
      BY <1>20, <2>2
    <3> QED
      BY <3>1, <3>2
  <2>4. HeapTypeOK' /\ StaticInv' /\ fault' # "other"
    BY <1>1, <1>3, <1>10, <1>14, <1>16, <1>17, <2>1 DEF HeapTypeOK, Referents
  <2>5. last'.op = "free" /\ last'.src = s /\ last'.dst = Null
    BY <2>1 DEF free_op
  <2>6. /\ LastInv'
        /\ \A y, i : TakenOver(y, i)' <=> y = s
        /\ \A v : Outstanding(v)' = One(s = v) + One(Null = v)
    BY <2>2, <2>3, <2>5 DEF LastInv, TakenOver, Outstanding
  <2>7. r \in Seq(Objects \cup Static \cup {Null})
    BY <1>12 DEF Referents
  <2> HIDE DEF r
  <2>8. /\ todo' \in Seq(DecrefSteps)
        /\ \A v : Occurs(decref_op(v), todo') = Occurs(v, r) /\ Occurs(v, r) \in Nat
    BY <2>1, <2>7, DecrefsAre
  <2>9. /\ \A y \in Live' : \A i : Keeps(y, i)' <=> i \in 1 .. Len(slots'[y]) /\ ~TakenOver(y, i)'
        /\ \A y, i : Keeps(y, i)' => y \in Live'
    BY <2>4, <2>8, QuietNext
  <2>10. /\ \A i : Keeps(s, i) <=> i \in 1 .. Len(slots[s])
         /\ \A i : ~Keeps(s, i)'
         /\ \A i : Keeps(a, i)' <=> i \in 1 .. Len(slots'[a])
    BY <1>14, <1>18, <2>2, <2>6, <2>9
  <2>11. \A y, i : y # s /\ y # a => /\ Keeps(y, i)' <=> Keeps(y, i)
                                     /\ Keeps(y, i) => slots'[y][i] = slots[y][i]
    BY <1>18, <2>6, <2>9
  <2>12. ASSUME NEW v \in Objects
         PROVE  owned'[v] + Occurs(decref_op(v), todo') + Outstanding(v)'
                    + Cardinality(Held(v, Suspended)') = IF v \in Live' THEN rc'[v] ELSE 0
    <3>1. /\ Cardinality(Held(v, Suspended)') \in Nat
          /\ Occurs(v, slots[s]) \in Nat /\ Occurs(v, slots'[a]) \in Nat
          /\ Cardinality(Held(v, Suspended)') + Occurs(v, slots[s])
               = Cardinality(Held(v, Suspended)) + Occurs(v, slots'[a])
      BY <1>1, <1>7, <1>19, <2>2, <2>4, <2>10, <2>11, HeldMoves
    <3>2. Occurs(v, slots[s]) = Occurs(v, p) + Occurs(v, r) /\ slots'[a] = new
      BY <1>12, <1>14 DEF r
    <3>3. Occurs(decref_op(v), todo') = Occurs(v, r) /\ Occurs(v, r) \in Nat
      BY <2>8
    <3>4. Outstanding(v)' = One(s = v)
      <4>1. One(Null = v) = 0
        BY RefCountAssumption DEF RefCountAssumption, One
      <4>2. One(s = v) \in Nat
        BY <1>20
      <4>3. Outstanding(v)' = One(s = v) + One(Null = v)
        BY <2>6
      <4> QED
        BY <4>1, <4>2, <4>3
    <3>5. /\ owned[v] \in Nat /\ Cardinality(Held(v, Suspended)) \in Nat /\ rc[v] \in Int
          /\ One(s = v) \in Nat /\ D(v) \in Nat /\ E(v) \in Nat /\ Occurs(v, p) \in Nat
          /\ Occurs(v, slots'[a]) = Occurs(v, p) + E(v) + D(v)
      BY <1>20, <3>2
    <3>6. CASE v = a
      <4>1. rc'[v] = 1 /\ v \in Live' /\ owned'[v] = 1
        BY <1>10, <1>14, <1>16, <2>1, <3>6
      <4>2. /\ owned[v] = 0 /\ One(s = v) = 0 /\ D(v) = 0 /\ E(v) = 0
            /\ Cardinality(Held(v, Suspended)) = 0
        BY <1>7, <1>20, <3>6
      <4> QED
        BY <3>1, <3>2, <3>3, <3>4, <3>5, <4>1, <4>2
    <3>7. CASE v # a /\ v \in Live
      <4>1. owned'[v] = owned[v] /\ v \in Live' /\ rc'[v] = rc[v] + E(v)
        BY <1>14, <1>16, <1>20, <2>1, <3>7
      <4>2. owned[v] + One(s = v) + D(v) + Cardinality(Held(v, Suspended)) = rc[v]
        BY <1>20, <3>7
      <4> QED
        BY <3>1, <3>2, <3>3, <3>4, <3>5, <4>1, <4>2
    <3>8. CASE v # a /\ v \notin Live
      <4>1. owned'[v] = owned[v] /\ v \notin Live'
        BY <1>14, <1>16, <3>8
      <4>2. /\ owned[v] = 0 /\ One(s = v) = 0 /\ D(v) = 0 /\ E(v) = 0
            /\ Cardinality(Held(v, Suspended)) = 0
        BY <1>20, <3>8
      <4> QED
        BY <3>1, <3>2, <3>3, <3>4, <3>5, <4>1, <4>2
    <3> QED
      BY <3>6, <3>7, <3>8
  <2>13. \A v \in Live' : rc'[v] >= 1
    <3>1. ASSUME NEW v \in Live PROVE rc'[v] >= 1
      <4>1. v \in Objects /\ v # a
        BY <1>4, <1>7, <3>1
      <4>2. rc'[v] = rc[v] + E(v) /\ rc[v] \in Int /\ rc[v] >= 1 /\ E(v) \in Nat
        BY <1>20, <2>1, <3>1, <4>1
      <4> QED
        BY <4>2
    <3>2. rc'[a] >= 1
      BY <1>10, <2>1
    <3> QED
      BY <1>14, <3>1, <3>2
  <2> QED
    BY <2>4, <2>6, <2>8, <2>12, <2>13, QuietKeeps
<1>23. ASSUME ~taken PROVE HeapInv'
  <2> DEFINE k == [count EXCEPT ![s] = IF @ >= 2 THEN @ - 1 ELSE @]
  <2>1. rc' = Increfs(p, k, 1) /\ last' = Nothing /\ todo' = <<>>
    BY <1>3, <1>23
  <2>2. /\ \A v \in Live : v \in Objects /\ v # a /\ count[v] \in Int /\ count[v] >= 1
        /\ s \in Live => count[s] >= 2
    <3>1. ASSUME NEW v \in Live
          PROVE  v \in Objects /\ v # a /\ count[v] \in Int /\ count[v] >= 1
      <4>1. v \in Objects /\ v # a
        BY <1>4, <1>7
      <4>2. count[v] = rc[v] + E(v) /\ rc[v] \in Int /\ rc[v] >= 1 /\ E(v) \in Nat
        BY <1>20, <4>1
      <4> QED
        BY <4>1, <4>2
    <3>2. count[s] # 1
      BY <1>23
    <3> QED
      BY <3>1, <3>2
  <2>3. /\ k \in [Objects \cup Static -> Int] /\ k[a] = 1 /\ k[Empty] = -1
        /\ \A v \in Live : k[v] = count[v] - One(s = v) /\ k[v] >= 1
    <3>1. k \in [Objects \cup Static -> Int] /\ k[a] = 1
      BY <1>7, <1>10
    <3>2. k[Empty] = -1
      <4>1. Empty \in Objects \cup Static
        BY DEF Static
      <4> QED
        BY <1>7, <1>10, <4>1
    <3>3. ASSUME NEW v \in Live PROVE k[v] = count[v] - One(s = v) /\ k[v] >= 1
      <4>1. v \in Objects /\ v # a /\ count[v] \in Int /\ count[v] >= 1
        BY <2>2
      <4>2. One(s = v) = IF s = v THEN 1 ELSE 0
        BY <1>21
      <4>3. k[v] = IF v = s THEN IF count[v] >= 2 THEN count[v] - 1 ELSE count[v] ELSE count[v]
        BY <1>7, <1>10, <4>1
      <4> QED
        BY <2>2, <4>1, <4>2, <4>3
    <3> QED
      BY <3>1, <3>2, <3>3
  <2> HIDE DEF k
  <2>4. /\ rc' \in [Objects \cup Static -> Int]
        /\ \A v \in Objects \cup Static :
              /\ Occurs(v, p) \in Nat
              /\ rc'[v] = IF k[v] > 0 THEN k[v] + 1 * Occurs(v, p) ELSE k[v]
    <3> DEFINE q == 1
    <3>1. q \in Nat /\ rc' = Increfs(p, k, q)
      BY <2>1
    <3> HIDE DEF q
    <3>2. /\ Increfs(p, k, q) \in [Objects \cup Static -> Int]
          /\ \A v \in Objects \cup Static :
                /\ Occurs(v, p) \in Nat
                /\ Increfs(p, k, q)[v] = IF k[v] > 0 THEN k[v] + q * Occurs(v, p) ELSE k[v]
      <4>1. p \in Seq(Referents) /\ k \in [Objects \cup Static -> Int] /\ q \in Nat
        BY <1>12, <2>3, <3>1
      <4> QED
        BY <4>1, IncrefsAre
    <3> QED
      BY <3>1, <3>2 DEF q
  <2>5. rc'[a] = 1 + Occurs(a, p) /\ rc'[Empty] = -1
    <3>1. Empty \in Objects \cup Static
      BY DEF Static
    <3> QED
      BY <1>7, <2>3, <2>4, <3>1
  <2>6. HeapTypeOK' /\ StaticInv' /\ fault' # "other"
    BY <1>1, <1>3, <1>14, <1>16, <1>17, <2>4, <2>5 DEF HeapTypeOK, Referents
  <2>7. last'.op = "nothing"
    BY <2>1 DEF Nothing
  <2>8. /\ LastInv'
        /\ \A y, i : ~TakenOver(y, i)'
        /\ \A v : Outstanding(v)' = 0
    BY <2>7 DEF LastInv, TakenOver, Outstanding
  <2>9. /\ todo' \in Seq(DecrefSteps)
        /\ \A v : Occurs(decref_op(v), todo') = 0
    <3>1. s \in Objects \cup Static \cup {Null}
      BY <1>7
    <3> QED
      BY <2>1, <3>1, OneDecref
  <2>10. /\ \A y \in Live' : \A i : Keeps(y, i)' <=> i \in 1 .. Len(slots'[y]) /\ ~TakenOver(y, i)'
         /\ \A y, i : Keeps(y, i)' => y \in Live'
    BY <2>6, <2>9, QuietNext
  <2>11. \A i : Keeps(a, i)' <=> i \in 1 .. Len(slots'[a])
    BY <1>14, <2>8, <2>10
  <2>12. \A y, i : y # a => /\ Keeps(y, i)' <=> Keeps(y, i)
                            /\ Keeps(y, i) => slots'[y][i] = slots[y][i]
    BY <1>18, <2>8, <2>10
  <2>13. ASSUME NEW v \in Objects
         PROVE  owned'[v] + Occurs(decref_op(v), todo') + Outstanding(v)'
                    + Cardinality(Held(v, Suspended)') = IF v \in Live' THEN rc'[v] ELSE 0
    <3>1. /\ Cardinality(Held(v, Suspended)) \in Nat /\ Occurs(v, slots'[a]) \in Nat
          /\ Cardinality(Held(v, Suspended)')
               = Cardinality(Held(v, Suspended)) + Occurs(v, slots'[a])
      BY <1>1, <1>7, <1>19, <2>6, <2>11, <2>12, HeldGainsAll
    <3>2. slots'[a] = new
      BY <1>14
    <3>3. Occurs(decref_op(v), todo') = 0 /\ Outstanding(v)' = 0
      BY <2>8, <2>9
    <3>4. /\ owned[v] \in Nat /\ rc[v] \in Int
          /\ One(s = v) \in Nat /\ D(v) \in Nat /\ E(v) \in Nat /\ Occurs(v, p) \in Nat
          /\ Occurs(v, slots'[a]) = Occurs(v, p) + E(v) + D(v)
      BY <1>20, <3>2
    <3>5. CASE v = a
      <4>1. v \in Live' /\ owned'[v] = 1 /\ rc'[v] = 1 + Occurs(v, p)
        BY <1>14, <1>16, <2>5, <3>5
      <4>2. D(v) = 0 /\ E(v) = 0 /\ Cardinality(Held(v, Suspended)) = 0
        BY <1>7, <1>20, <3>5
      <4> QED
        BY <3>1, <3>3, <3>4, <4>1, <4>2
    <3>6. CASE v # a /\ v \in Live
      <4>1. owned'[v] = owned[v] /\ v \in Live' /\ count[v] = rc[v] + E(v)
        BY <1>14, <1>16, <1>20, <3>6
      <4>2. k[v] = count[v] - One(s = v) /\ k[v] >= 1 /\ v \in Objects \cup Static
        BY <2>3, <3>6
      <4>3. k[v] \in Int /\ k[v] > 0
        BY <3>4, <4>1, <4>2
      <4>4. rc'[v] = k[v] + Occurs(v, p)
        BY <2>4, <3>4, <4>2, <4>3
      <4>5. owned[v] + One(s = v) + D(v) + Cardinality(Held(v, Suspended)) = rc[v]
        BY <1>20, <3>6
      <4> QED
        BY <3>1, <3>3, <3>4, <4>1, <4>2, <4>4, <4>5
    <3>7. CASE v # a /\ v \notin Live
      <4>1. owned'[v] = owned[v] /\ v \notin Live'
        BY <1>14, <1>16, <3>7
      <4>2. owned[v] = 0 /\ D(v) = 0 /\ E(v) = 0 /\ Cardinality(Held(v, Suspended)) = 0
        BY <1>20, <3>7
      <4>3. Occurs(v, p) = 0
        <5>1. \A i \in 1 .. Len(slots[s]) : slots[s][i] # v
          BY <1>3, <1>5, <1>6, <3>7, NotDangling
        <5>2. ASSUME NEW i \in 1 .. Len(p) PROVE p[i] # v
          <6>1. i \in 1 .. n /\ i + g \in 1 .. Len(slots[s])
            BY <1>5, <1>11, <1>12
          <6>2. p[i] = slots[s][i + g]
            BY <1>12, <6>1
          <6> QED
            BY <5>1, <6>1, <6>2
        <5> QED
          BY <1>12, <5>2, OccursZero
      <4> QED
        BY <3>1, <3>3, <3>4, <4>1, <4>2, <4>3
    <3> QED
      BY <3>5, <3>6, <3>7
  <2>14. \A v \in Live' : rc'[v] >= 1
    <3>1. ASSUME NEW v \in Live PROVE rc'[v] >= 1
      <4>1. v \in Objects \cup Static /\ k[v] \in Int /\ k[v] >= 1
        BY <1>4, <2>3, <3>1
      <4>2. k[v] > 0 /\ Occurs(v, p) \in Nat
        BY <1>15, <4>1
      <4>3. rc'[v] = k[v] + Occurs(v, p)
        BY <2>4, <4>1, <4>2
      <4> QED
        BY <4>1, <4>2, <4>3
    <3>2. rc'[a] >= 1
      BY <1>15, <2>5
    <3> QED
      BY <1>14, <3>1, <3>2
  <2> QED
    BY <2>6, <2>8, <2>9, <2>13, <2>14, QuietKeeps
<1> QED
  BY <1>22, <1>23

(* What is left of a finite set.                                           *)
LEMMA SizeShrinks ==
  ASSUME NEW H, NEW L, IsFiniteSet(H), L \subseteq H
  PROVE  /\ Cardinality(H) \in Nat /\ Cardinality(L) \in Nat /\ Cardinality(H \ L) \in Nat
         /\ Cardinality(H) = Cardinality(H \ L) + Cardinality(L)
<1> DEFINE R == H \ L
<1>1. IsFiniteSet(R) /\ IsFiniteSet(L)
  BY FS_Subset
<1>2. H = R \cup L /\ R \cap L = {}
  OBVIOUS
<1> HIDE DEF R
<1>3. /\ Cardinality(R) \in Nat /\ Cardinality(L) \in Nat
      /\ Cardinality(R \cup L) = Cardinality(R) + Cardinality(L)
  BY <1>1, <1>2, Disjoint
<1>4. Cardinality(H) = Cardinality(R) + Cardinality(L) /\ Cardinality(H) \in Nat
  BY <1>2, <1>3
<1> QED
  BY <1>3, <1>4 DEF R

(* A step after which a range of an object is no longer kept.              *)
LEMMA HeldLosesRange ==
  ASSUME HeapTypeOK, HeapTypeOK', NEW v, NEW q \in Objects \cup Static, NEW f \in Nat,
         NEW n \in Nat,
         f + n <= Len(slots[q]), UNCHANGED slots,
         \A i \in f + 1 .. f + n : Keeps(q, i),
         \A x, i : Keeps(x, i)' <=> Keeps(x, i) /\ ~(x = q /\ i \in f + 1 .. f + n)
  PROVE  /\ Cardinality(Held(v, Suspended)') \in Nat /\ Occurs(v, Part(q, f, n)) \in Nat
         /\ Cardinality(Held(v, Suspended))
              = Cardinality(Held(v, Suspended)') + Occurs(v, Part(q, f, n))
<1> DEFINE H == Held(v, Suspended)
           K == Held(v, Suspended)'
           b == f + n
           L == Places(q, slots[q], f, b, v)
<1>1. /\ \A x, i : <<x, i>> \in H <=> Keeps(x, i) /\ slots[x][i] = v
      /\ H \subseteq Objects \X (1 .. MaxSlots)
  BY HeldKeeps
<1>2. /\ \A x, i : <<x, i>> \in K <=> Keeps(x, i)' /\ slots'[x][i] = v
      /\ K \subseteq Objects \X (1 .. MaxSlots)
  BY HeldKeepsNext
<1>3. slots[q] \in Seq(Referents) /\ b \in Nat /\ f <= b /\ b <= Len(slots[q])
  BY SlotsAre
<1>4. IsFiniteSet(L) /\ Cardinality(L) = Occurs(v, SubSeq(slots[q], f + 1, b))
  <2> HIDE DEF b
  <2> QED
    BY <1>3, PlacesCount
<1>5. IsFiniteSet(H)
  BY <1>1, FewPlaces
<1>6. /\ \A x, i : <<x, i>> \in L <=> x = q /\ i \in f + 1 .. f + n /\ slots[q][i] = v
      /\ \A p \in L : p = <<p[1], p[2]>>
  BY DEF Places
<1>7. \A p \in H \cup K : p = <<p[1], p[2]>>
  BY <1>1, <1>2
<1> HIDE DEF H, K, L
<1>8. ASSUME NEW x, NEW i
      PROVE  /\ <<x, i>> \in L => <<x, i>> \in H
             /\ <<x, i>> \in K <=> <<x, i>> \in H \ L
  BY <1>1, <1>2, <1>6
<1>9. L \subseteq H /\ K = H \ L
  BY <1>6, <1>7, <1>8
<1>10. /\ Cardinality(H) \in Nat /\ Cardinality(L) \in Nat /\ Cardinality(K) \in Nat
       /\ Cardinality(H) = Cardinality(K) + Cardinality(L)
  BY <1>5, <1>9, SizeShrinks
<1>11. Cardinality(L) = Occurs(v, Part(q, f, n))
  BY <1>4 DEF Part, b
<1> QED
  BY <1>10, <1>11 DEF H, K

(* A step after which an object and a range of another are no longer kept. *)
LEMMA HeldLosesBoth ==
  ASSUME HeapTypeOK, HeapTypeOK', NEW v, NEW o \in Objects, NEW q \in Objects \cup Static,
         o # q, NEW f \in Nat, NEW n \in Nat, f + n <= Len(slots[q]), UNCHANGED slots,
         \A i : Keeps(o, i) <=> i \in 1 .. Len(slots[o]),
         \A i \in f + 1 .. f + n : Keeps(q, i),
         \A x, i : Keeps(x, i)' <=> Keeps(x, i) /\ x # o /\ ~(x = q /\ i \in f + 1 .. f + n)
  PROVE  /\ Cardinality(Held(v, Suspended)') \in Nat
         /\ Occurs(v, Part(q, f, n)) \in Nat /\ Occurs(v, slots[o]) \in Nat
         /\ Cardinality(Held(v, Suspended))
              = Cardinality(Held(v, Suspended)') + Occurs(v, Part(q, f, n)) + Occurs(v, slots[o])
<1> DEFINE H == Held(v, Suspended)
           K == Held(v, Suspended)'
           b == f + n
           M == Places(o, slots[o], 0, Len(slots[o]), v)
           L == Places(q, slots[q], f, b, v)
<1>1. /\ \A x, i : <<x, i>> \in H <=> Keeps(x, i) /\ slots[x][i] = v
      /\ H \subseteq Objects \X (1 .. MaxSlots)
  BY HeldKeeps
<1>2. /\ \A x, i : <<x, i>> \in K <=> Keeps(x, i)' /\ slots'[x][i] = v
      /\ K \subseteq Objects \X (1 .. MaxSlots)
  BY HeldKeepsNext
<1>3. /\ slots[q] \in Seq(Referents) /\ b \in Nat /\ f <= b /\ b <= Len(slots[q])
      /\ slots[o] \in Seq(Referents)
  BY SlotsAre
<1>4. IsFiniteSet(L) /\ Cardinality(L) = Occurs(v, SubSeq(slots[q], f + 1, b))
  <2> HIDE DEF b
  <2> QED
    BY <1>3, PlacesCount
<1>5. IsFiniteSet(M) /\ Cardinality(M) = Occurs(v, slots[o])
  BY <1>3, PlacesWhole
<1>6. IsFiniteSet(H)
  BY <1>1, FewPlaces
<1>7. /\ \A x, i : <<x, i>> \in L <=> x = q /\ i \in f + 1 .. f + n /\ slots[q][i] = v
      /\ \A p \in L : p = <<p[1], p[2]>>
  BY DEF Places
<1>8. /\ \A x, i : <<x, i>> \in M <=> x = o /\ i \in 1 .. Len(slots[o]) /\ slots[o][i] = v
      /\ \A p \in M : p = <<p[1], p[2]>>
  <2>1. 0 + 1 = 1
    OBVIOUS
  <2> QED
    BY <2>1 DEF Places
<1>9. \A p \in H \cup K : p = <<p[1], p[2]>>
  BY <1>1, <1>2
<1> HIDE DEF H, K, L, M
<1>10. L \cap M = {}
  BY <1>7, <1>8
<1>11. ASSUME NEW x, NEW i
       PROVE  /\ <<x, i>> \in L \cup M => <<x, i>> \in H
              /\ <<x, i>> \in K <=> <<x, i>> \in H \ (L \cup M)
  <2>1. CASE x = o
    BY <1>1, <1>2, <1>7, <1>8, <2>1
  <2>2. CASE x # o
    BY <1>1, <1>2, <1>7, <1>8, <2>2
  <2> QED
    BY <2>1, <2>2
<1>12. L \cup M \subseteq H /\ K = H \ (L \cup M)
  BY <1>7, <1>8, <1>9, <1>11
<1>13. /\ Cardinality(L) \in Nat /\ Cardinality(M) \in Nat
       /\ Cardinality(L \cup M) = Cardinality(L) + Cardinality(M)
  BY <1>4, <1>5, <1>10, Disjoint
<1>14. /\ Cardinality(H) \in Nat /\ Cardinality(K) \in Nat
       /\ Cardinality(H) = Cardinality(K) + Cardinality(L \cup M)
  BY <1>6, <1>12, SizeShrinks
<1>15. Cardinality(L) = Occurs(v, Part(q, f, n))
  BY <1>4 DEF Part, b
<1> QED
  BY <1>5, <1>13, <1>14, <1>15 DEF H, K

(* moonbit_unsafe_ref_array_blit, up to where the elements are copied.     *)
LEMMA BlitKeeps ==
  ASSUME HeapInv, NEW d \in Arrays, NEW s \in Arrays, NEW f \in Nat, NEW g \in Nat, NEW n \in Nat,
         moonbit_unsafe_ref_array_blit(d, f, s, g, n)
  PROVE  HeapInv'
<1> DEFINE moved == is_dynamic(s) /\ ~is_shared(s)
           p == Part(s, g, n)
           q == Part(d, f, n)
           r == Rest(s, g, n)
<1>1. HeapTypeOK /\ StaticInv
  BY DEF HeapInv
<1>2. /\ f + n <= Len(slots[d]) /\ g + n <= Len(slots[s])
      /\ Pass(<<d, s>>, <<>>)
      /\ last' = copy_op(d, f, s, g, n, moved)
      /\ moved => todo' = Decrefs(r) \o Decrefs(q) /\ UNCHANGED rc
      /\ ~moved => /\ todo' = Decrefs(q)
                   /\ rc' = Increfs(p, [rc EXCEPT ![s] = IF is_shared(s) THEN @ - 1 ELSE @], 1)
      /\ UNCHANGED <<shape, slots, fault>>
  BY DEF moonbit_unsafe_ref_array_blit
<1>3. /\ d \in Objects \cup Static /\ s \in Objects \cup Static
      /\ d \in Live \cup Static /\ s \in Live \cup Static /\ s # Null
  BY RefCountAssumption DEF RefCountAssumption, Arrays, Live, Static
<1>4. <<d, s>> \in Seq({d, s}) /\ <<>> \in Seq({d})
  OBVIOUS
<1>5. /\ todo = <<>> /\ last = Nothing /\ fault = "none"
      /\ owned' \in [Objects -> 0 .. MaxOwned]
      /\ \A v \in Objects : /\ Occurs(v, <<d, s>>) \in Nat /\ Occurs(v, <<>>) \in Nat
                            /\ Occurs(v, <<d, s>>) <= owned[v]
                            /\ owned'[v] = owned[v] - Occurs(v, <<d, s>>) + Occurs(v, <<>>)
      /\ \A v : Outstanding(v) = 0
      /\ \A y, i : ~TakenOver(y, i)
  BY <1>2, <1>4, PassIs
<1>6. /\ Live \subseteq Objects /\ Empty \notin Live
      /\ \A y \in Live : \A i : Keeps(y, i) <=> i \in 1 .. Len(slots[y]) /\ ~TakenOver(y, i)
      /\ \A v \in Objects :
            /\ owned[v] \in Nat /\ Outstanding(v) \in Nat
            /\ Cardinality(Held(v, Suspended)) \in Nat
            /\ rc[v] \in Int /\ (v \in Live => rc[v] >= 1)
            /\ owned[v] + Outstanding(v) + Cardinality(Held(v, Suspended))
                 = IF v \in Live THEN rc[v] ELSE 0
  BY <1>5, Quiet
<1>7. Live' = Live
  BY <1>2 DEF Live
<1>8. /\ p \in Seq(Referents) /\ r \in Seq(Referents) /\ Len(p) = n
      /\ \A i \in 1 .. n : p[i] = slots[s][i + g]
      /\ \A v : Occurs(v, slots[s]) = Occurs(v, p) + Occurs(v, r)
  BY <1>1, <1>2, <1>3, PartRestAre
<1>9. q \in Seq(Referents)
  BY <1>1, <1>2, <1>3, PartRestAre
<1>10. /\ last'.op = "copy" /\ last'.dst = d /\ last'.src = s /\ last'.doff = f /\ last'.soff = g
       /\ last'.len = n /\ last'.counted = p
  BY <1>2 DEF copy_op
<1> HIDE DEF p, q, r
<1>11. \A v \in Objects :
          /\ owned[v] \in Nat /\ rc[v] \in Int /\ One(d = v) \in Nat /\ One(s = v) \in Nat
          /\ Cardinality(Held(v, Suspended)) \in Nat
          /\ owned'[v] + One(d = v) + One(s = v) = owned[v] /\ owned'[v] \in Nat
          /\ Occurs(v, p) \in Nat /\ Occurs(v, q) \in Nat /\ Occurs(v, r) \in Nat
          /\ v \in Live => owned[v] + Cardinality(Held(v, Suspended)) = rc[v] /\ rc[v] >= 1
          /\ v \notin Live => /\ owned[v] = 0 /\ Cardinality(Held(v, Suspended)) = 0
                              /\ One(s = v) = 0 /\ One(d = v) = 0
  <2> SUFFICES ASSUME NEW v \in Objects
               PROVE  /\ owned[v] \in Nat /\ rc[v] \in Int /\ One(d = v) \in Nat
                      /\ One(s = v) \in Nat
                      /\ Cardinality(Held(v, Suspended)) \in Nat
                      /\ owned'[v] + One(d = v) + One(s = v) = owned[v] /\ owned'[v] \in Nat
                      /\ Occurs(v, p) \in Nat /\ Occurs(v, q) \in Nat /\ Occurs(v, r) \in Nat
                      /\ v \in Live => /\ owned[v] + Cardinality(Held(v, Suspended)) = rc[v]
                                       /\ rc[v] >= 1
                      /\ v \notin Live => /\ owned[v] = 0 /\ Cardinality(Held(v, Suspended)) = 0
                                          /\ One(s = v) = 0 /\ One(d = v) = 0
    OBVIOUS
  <2>1. Occurs(v, <<d, s>>) = One(d = v) + One(s = v) /\ One(d = v) \in Nat /\ One(s = v) \in Nat
    BY OccursTwo
  <2>2. Occurs(v, <<>>) = 0
    BY OccursOne
  <2>3. /\ Occurs(v, <<d, s>>) <= owned[v]
        /\ owned'[v] = owned[v] - Occurs(v, <<d, s>>) + Occurs(v, <<>>)
        /\ Outstanding(v) = 0
    BY <1>5
  <2>4. /\ owned[v] \in Nat /\ Cardinality(Held(v, Suspended)) \in Nat
        /\ rc[v] \in Int /\ (v \in Live => rc[v] >= 1)
        /\ owned[v] + Outstanding(v) + Cardinality(Held(v, Suspended))
             = IF v \in Live THEN rc[v] ELSE 0
    BY <1>6
  <2>5. Occurs(v, p) \in Nat /\ Occurs(v, q) \in Nat /\ Occurs(v, r) \in Nat
    BY <1>8, <1>9, OccursIsNat
  <2>6. owned'[v] + One(d = v) + One(s = v) = owned[v] /\ owned'[v] \in Nat
    <3>1. owned'[v] \in Nat
      BY <1>5
    <3>2. owned'[v] = owned[v] - (One(d = v) + One(s = v))
      BY <2>1, <2>2, <2>3, <2>4
    <3> HIDE DEF moved
    <3> QED
      BY <2>1, <2>4, <3>1, <3>2
  <2>7. CASE v \in Live
    BY <2>1, <2>3, <2>4, <2>5, <2>6, <2>7
  <2>8. CASE v \notin Live
    <3>1. owned[v] = 0 /\ Cardinality(Held(v, Suspended)) = 0
      BY <2>3, <2>4, <2>8
    <3>2. One(s = v) = 0 /\ One(d = v) = 0
      BY <2>1, <2>6, <3>1
    <3> QED
      BY <2>1, <2>4, <2>5, <2>6, <2>8, <3>1, <3>2
  <2> QED
    BY <2>7, <2>8
<1>12. ASSUME NEW y, NEW i PROVE Keeps(y, i) <=> y \in Live /\ i \in 1 .. Len(slots[y])
  <2>1. CASE y \in Live
    BY <1>5, <1>6, <2>1
  <2>2. CASE y \notin Live
    BY <2>2 DEF Keeps
  <2> QED
    BY <2>1, <2>2
<1>13. \A i \in f + 1 .. f + n : Keeps(d, i)
  <2>1. SUFFICES ASSUME NEW i \in f + 1 .. f + n PROVE Keeps(d, i)
    OBVIOUS
  <2>2. i \in 1 .. Len(slots[d]) /\ Len(slots[d]) > 0
    BY <1>1, <1>2, <1>3, SlotsAre
  <2>3. d # Empty
    BY <1>1, <2>2 DEF StaticInv
  <2> QED
    BY <1>3, <1>12, <2>2, <2>3 DEF Static
<1>14. \A v : One(s = v) = IF s = v THEN 1 ELSE 0
  BY DEF One
<1>15. \A v \in Objects : Occurs(v, p) > 0 => v \in Live
  <2>1. SUFFICES ASSUME NEW v \in Objects \ Live PROVE Occurs(v, p) = 0
    BY <1>11
  <2>2. \A i \in 1 .. Len(slots[s]) : slots[s][i] # v
    BY <1>3, <1>5, NotDangling
  <2>3. ASSUME NEW i \in 1 .. Len(p) PROVE p[i] # v
    <3>1. i \in 1 .. n /\ i + g \in 1 .. Len(slots[s])
      BY <1>1, <1>2, <1>3, <1>8, SlotsAre
    <3>2. p[i] = slots[s][i + g]
      BY <1>8, <3>1
    <3> QED
      BY <2>2, <3>1, <3>2
  <2> QED
    BY <1>8, <2>3, OccursZero
<1>16. \A i \in 1 .. n : p[i] = slots[s][g + i]
  BY <1>8
<1>17. ASSUME moved PROVE HeapInv'
  <2>1. todo' = Decrefs(r) \o Decrefs(q) /\ UNCHANGED rc
    BY <1>2, <1>17
  <2>2. s \in Live /\ s \in Objects /\ rc[s] = 1
    <3>1. s \in Live /\ s \in Objects
      BY <1>1, <1>3, <1>6, <1>17 DEF Static, StaticInv, is_dynamic
    <3> QED
      BY <1>3, <1>11, <1>17, <3>1 DEF is_dynamic, is_shared
  <2>3. s # d
    <3>1. SUFFICES ASSUME s = d PROVE FALSE
      OBVIOUS
    <3>2. One(d = s) = 1 /\ One(s = s) = 1
      BY <3>1 DEF One
    <3>3. /\ owned'[s] + One(d = s) + One(s = s) = owned[s] /\ owned'[s] \in Nat
          /\ owned[s] \in Nat /\ Cardinality(Held(s, Suspended)) \in Nat
          /\ owned[s] + Cardinality(Held(s, Suspended)) = rc[s]
      BY <1>11, <2>2
    <3> QED
      BY <2>2, <3>2, <3>3
  <2>4. last'.moved = TRUE
    BY <1>2, <1>17 DEF copy_op
  <2>5. HeapTypeOK' /\ StaticInv' /\ fault' # "other"
    BY <1>1, <1>2, <1>5, <2>1 DEF HeapTypeOK, StaticInv
  <2>6. LastInv'
    <3>1. /\ last'.dst \in Objects \cup Static /\ last'.src \in Objects \cup Static
          /\ last'.doff \in Nat /\ last'.soff \in Nat /\ last'.len \in Nat
          /\ last'.moved \in BOOLEAN
          /\ last'.counted \in Seq(Referents) /\ Len(last'.counted) = last'.len
      BY <1>3, <1>8, <1>10, <2>4
    <3>2. /\ last'.doff + last'.len <= Len(slots'[last'.dst])
          /\ last'.soff + last'.len <= Len(slots'[last'.src])
      BY <1>2, <1>10
    <3>3. \A i \in 1 .. last'.len : last'.counted[i] = slots'[last'.src][last'.soff + i]
      BY <1>2, <1>10, <1>16
    <3>4. last'.src \in Objects /\ last'.src # last'.dst /\ rc'[last'.src] = 1
      BY <1>10, <2>1, <2>2, <2>3
    <3> QED
      BY <1>10, <3>1, <3>2, <3>3, <3>4 DEF LastInv
  <2>7. /\ \A y, i : TakenOver(y, i)' <=> y = s \/ (y = d /\ i > f /\ i <= f + n)
        /\ \A v : Outstanding(v)' = One(d = v) + One(s = v) + Occurs(v, p)
    BY <1>10, <2>4 DEF TakenOver, Outstanding
  <2>8. /\ todo' \in Seq(DecrefSteps)
        /\ \A v \in Objects : Occurs(decref_op(v), todo') = Occurs(v, r) + Occurs(v, q)
    <3>1. r \in Seq(Objects \cup Static \cup {Null}) /\ q \in Seq(Objects \cup Static \cup {Null})
      BY <1>8, <1>9 DEF Referents
    <3>2. /\ Decrefs(r) \in Seq(DecrefSteps)
          /\ \A v : Occurs(decref_op(v), Decrefs(r)) = Occurs(v, r)
      BY <3>1, DecrefsAre
    <3>3. /\ Decrefs(q) \in Seq(DecrefSteps)
          /\ \A v : Occurs(decref_op(v), Decrefs(q)) = Occurs(v, q)
      BY <3>1, DecrefsAre
    <3> DEFINE t == Decrefs(r)
               u == Decrefs(q)
    <3>4. t \in Seq(DecrefSteps) /\ u \in Seq(DecrefSteps) /\ todo' = t \o u
      BY <2>1, <3>2, <3>3
    <3> HIDE DEF t, u
    <3>5. \A v : Occurs(decref_op(v), t \o u) = Occurs(decref_op(v), t) + Occurs(decref_op(v), u)
      BY <3>4, OccursConcat
    <3>6. t \o u \in Seq(DecrefSteps)
      BY <3>4
    <3> QED
      BY <3>2, <3>3, <3>4, <3>5, <3>6 DEF t, u
  <2>9. /\ \A y \in Live' : \A i : Keeps(y, i)' <=> i \in 1 .. Len(slots'[y]) /\ ~TakenOver(y, i)'
        /\ \A y, i : Keeps(y, i)' => y \in Live'
    BY <2>5, <2>8, QuietNext
  <2>10. ASSUME NEW y, NEW i
         PROVE  Keeps(y, i)' <=> Keeps(y, i) /\ y # s /\ ~(y = d /\ i \in f + 1 .. f + n)
    <3>1. CASE y \in Live
      <4>1. Len(slots[y]) \in Nat /\ slots' = slots
        BY <1>1, <1>2, <1>6, <3>1, SlotsAre
      <4>2. i \in 1 .. Len(slots[y]) => ((i > f /\ i <= f + n) <=> i \in f + 1 .. f + n)
        BY <4>1
      <4>3. Keeps(y, i)' <=> i \in 1 .. Len(slots[y]) /\ ~TakenOver(y, i)'
        BY <1>7, <2>9, <3>1, <4>1
      <4> QED
        BY <1>12, <2>7, <3>1, <4>2, <4>3
    <3>2. CASE y \notin Live
      BY <1>7, <1>12, <2>9, <3>2
    <3> QED
      BY <3>1, <3>2
  <2>11. ASSUME NEW v \in Objects
         PROVE  owned'[v] + Occurs(decref_op(v), todo') + Outstanding(v)'
                    + Cardinality(Held(v, Suspended)') = IF v \in Live' THEN rc'[v] ELSE 0
    <3>1. /\ \A i : Keeps(s, i) <=> i \in 1 .. Len(slots[s])
          /\ \A y, i : Keeps(y, i)' <=> Keeps(y, i) /\ y # s /\ ~(y = d /\ i \in f + 1 .. f + n)
          /\ UNCHANGED slots
          /\ HeapTypeOK /\ HeapTypeOK' /\ s \in Objects /\ d \in Objects \cup Static /\ s # d
          /\ f + n <= Len(slots[d])
      BY <1>1, <1>2, <1>3, <1>12, <2>2, <2>3, <2>5, <2>10
    <3>2. /\ Cardinality(Held(v, Suspended)') \in Nat
          /\ Occurs(v, Part(d, f, n)) \in Nat /\ Occurs(v, slots[s]) \in Nat
          /\ Cardinality(Held(v, Suspended))
               = Cardinality(Held(v, Suspended)') + Occurs(v, Part(d, f, n)) + Occurs(v, slots[s])
      BY <1>13, <3>1, HeldLosesBoth
    <3>3. Occurs(v, slots[s]) = Occurs(v, p) + Occurs(v, r)
      BY <1>8
    <3>4. Occurs(v, Part(d, f, n)) = Occurs(v, q)
      BY DEF q
    <3>5. /\ Occurs(decref_op(v), todo') = Occurs(v, r) + Occurs(v, q)
          /\ Outstanding(v)' = One(d = v) + One(s = v) + Occurs(v, p)
      BY <2>7, <2>8
    <3>6. rc'[v] = rc[v] /\ (v \in Live' <=> v \in Live)
      BY <1>7, <2>1
    <3>7. /\ owned[v] \in Nat /\ rc[v] \in Int /\ One(d = v) \in Nat /\ One(s = v) \in Nat
          /\ owned'[v] \in Nat /\ owned'[v] + One(d = v) + One(s = v) = owned[v]
          /\ Occurs(v, p) \in Nat /\ Occurs(v, q) \in Nat /\ Occurs(v, r) \in Nat
          /\ v \in Live => owned[v] + Cardinality(Held(v, Suspended)) = rc[v]
          /\ v \notin Live => owned[v] = 0 /\ Cardinality(Held(v, Suspended)) = 0
      BY <1>11
    <3>8. CASE v \in Live
      BY <3>2, <3>3, <3>4, <3>5, <3>6, <3>7, <3>8
    <3>9. CASE v \notin Live
      <4>1. owned[v] = 0 /\ Cardinality(Held(v, Suspended)) = 0
        BY <3>7, <3>9
      <4>2. owned'[v] = 0 /\ One(d = v) = 0 /\ One(s = v) = 0
        BY <3>7, <4>1
      <4>3. /\ Cardinality(Held(v, Suspended)') = 0
            /\ Occurs(v, Part(d, f, n)) = 0 /\ Occurs(v, slots[s]) = 0
        BY <3>2, <4>1
      <4>4. Occurs(v, p) = 0 /\ Occurs(v, q) = 0 /\ Occurs(v, r) = 0
        BY <3>3, <3>4, <3>7, <4>3
      <4> QED
        BY <3>5, <3>6, <3>9, <4>2, <4>3, <4>4
    <3> QED
      BY <3>8, <3>9
  <2>12. \A v \in Live' : rc'[v] >= 1
    BY <1>6, <1>7, <2>1
  <2> QED
    BY <2>5, <2>6, <2>8, <2>11, <2>12, QuietKeeps
<1>18. ASSUME ~moved PROVE HeapInv'
  <2> DEFINE k == [rc EXCEPT ![s] = IF is_shared(s) THEN @ - 1 ELSE @]
             N(v) == One(last'.moved /\ s = v)
  <2>1. rc' = Increfs(p, k, 1) /\ todo' = Decrefs(q) /\ last'.moved = FALSE
    BY <1>2, <1>18 DEF copy_op
  <2>2. /\ k \in [Objects \cup Static -> Int] /\ k[Empty] = -1
        /\ \A v \in Live : k[v] = rc[v] - One(s = v) /\ k[v] >= 1
    <3>1. k \in [Objects \cup Static -> Int]
      <4>1. rc \in [Objects \cup Static -> Int]
        BY <1>1 DEF HeapTypeOK
      <4>2. (IF is_shared(s) THEN rc[s] - 1 ELSE rc[s]) \in Int
        BY <1>3, <4>1
      <4>3. k = [rc EXCEPT ![s] = IF is_shared(s) THEN rc[s] - 1 ELSE rc[s]]
        OBVIOUS
      <4> HIDE DEF k
      <4> QED
        BY <1>3, <4>1, <4>2, <4>3
    <3>2. k[Empty] = -1
      <4>1. Empty \in Objects \cup Static /\ rc \in [Objects \cup Static -> Int] /\ rc[Empty] = -1
        BY <1>1 DEF Static, HeapTypeOK, StaticInv
      <4>2. CASE s = Empty
        <5>1. ~is_shared(s)
          BY <4>1, <4>2 DEF is_shared
        <5> QED
          BY <4>1, <4>2, <5>1
      <4>3. CASE s # Empty
        BY <4>1, <4>3
      <4> QED
        BY <4>2, <4>3
    <3>3. ASSUME NEW v \in Live PROVE k[v] = rc[v] - One(s = v) /\ k[v] >= 1
      <4>1. v \in Objects /\ rc[v] \in Int /\ rc[v] >= 1
        BY <1>6
      <4>2. s = v => rc[v] >= 2
        BY <1>3, <1>18, <4>1 DEF is_dynamic, is_shared
      <4>3. k[v] = IF s = v THEN rc[v] - 1 ELSE rc[v]
        BY <1>1, <1>3, <4>1, <4>2 DEF HeapTypeOK, is_shared
      <4>4. One(s = v) = IF s = v THEN 1 ELSE 0
        BY <1>14
      <4> QED
        BY <4>1, <4>2, <4>3, <4>4
    <3> QED
      BY <3>1, <3>2, <3>3
  <2> HIDE DEF k
  <2>3. /\ rc' \in [Objects \cup Static -> Int]
        /\ \A v \in Objects \cup Static :
              /\ Occurs(v, p) \in Nat
              /\ rc'[v] = IF k[v] > 0 THEN k[v] + 1 * Occurs(v, p) ELSE k[v]
    <3> DEFINE m == 1
    <3>1. m \in Nat /\ rc' = Increfs(p, k, m)
      BY <2>1
    <3> HIDE DEF m
    <3>2. /\ Increfs(p, k, m) \in [Objects \cup Static -> Int]
          /\ \A v \in Objects \cup Static :
                /\ Occurs(v, p) \in Nat
                /\ Increfs(p, k, m)[v] = IF k[v] > 0 THEN k[v] + m * Occurs(v, p) ELSE k[v]
      <4>1. p \in Seq(Referents) /\ k \in [Objects \cup Static -> Int] /\ m \in Nat
        BY <1>8, <2>2, <3>1
      <4> QED
        BY <4>1, IncrefsAre
    <3> QED
      BY <3>1, <3>2 DEF m
  <2>4. rc'[Empty] = -1
    <3>1. Empty \in Objects \cup Static
      BY DEF Static
    <3> QED
      BY <2>2, <2>3, <3>1
  <2>5. HeapTypeOK' /\ StaticInv' /\ fault' # "other"
    BY <1>1, <1>2, <1>5, <2>3, <2>4 DEF HeapTypeOK, StaticInv
  <2>6. LastInv'
    <3>1. /\ last'.dst \in Objects \cup Static /\ last'.src \in Objects \cup Static
          /\ last'.doff \in Nat /\ last'.soff \in Nat /\ last'.len \in Nat
          /\ last'.moved \in BOOLEAN
          /\ last'.counted \in Seq(Referents) /\ Len(last'.counted) = last'.len
      BY <1>3, <1>8, <1>10, <2>1
    <3>2. /\ last'.doff + last'.len <= Len(slots'[last'.dst])
          /\ last'.soff + last'.len <= Len(slots'[last'.src])
      BY <1>2, <1>10
    <3>3. \A i \in 1 .. last'.len : last'.counted[i] = slots'[last'.src][last'.soff + i]
      BY <1>2, <1>10, <1>16
    <3> QED
      BY <1>10, <2>1, <3>1, <3>2, <3>3 DEF LastInv
  <2>7. /\ \A y, i : TakenOver(y, i)' <=> y = d /\ i > f /\ i <= f + n
        /\ \A v : Outstanding(v)' = One(d = v) + N(v) + Occurs(v, p)
        /\ \A v : N(v) = 0
    BY <1>10, <2>1 DEF TakenOver, Outstanding, One
  <2> HIDE DEF N
  <2>8. /\ todo' \in Seq(DecrefSteps)
        /\ \A v : Occurs(decref_op(v), todo') = Occurs(v, q)
    <3>1. q \in Seq(Objects \cup Static \cup {Null})
      BY <1>9 DEF Referents
    <3> QED
      BY <2>1, <3>1, DecrefsAre
  <2>9. /\ \A y \in Live' : \A i : Keeps(y, i)' <=> i \in 1 .. Len(slots'[y]) /\ ~TakenOver(y, i)'
        /\ \A y, i : Keeps(y, i)' => y \in Live'
    BY <2>5, <2>8, QuietNext
  <2>10. ASSUME NEW y, NEW i
         PROVE  Keeps(y, i)' <=> Keeps(y, i) /\ ~(y = d /\ i \in f + 1 .. f + n)
    <3>1. CASE y \in Live
      <4>1. Len(slots[y]) \in Nat /\ slots' = slots
        BY <1>1, <1>2, <1>6, <3>1, SlotsAre
      <4>2. i \in 1 .. Len(slots[y]) => ((i > f /\ i <= f + n) <=> i \in f + 1 .. f + n)
        BY <4>1
      <4>3. Keeps(y, i)' <=> i \in 1 .. Len(slots[y]) /\ ~TakenOver(y, i)'
        BY <1>7, <2>9, <3>1, <4>1
      <4> QED
        BY <1>12, <2>7, <3>1, <4>2, <4>3
    <3>2. CASE y \notin Live
      BY <1>7, <1>12, <2>9, <3>2
    <3> QED
      BY <3>1, <3>2
  <2>11. ASSUME NEW v \in Objects
         PROVE  owned'[v] + Occurs(decref_op(v), todo') + Outstanding(v)'
                    + Cardinality(Held(v, Suspended)') = IF v \in Live' THEN rc'[v] ELSE 0
    <3>1. /\ \A y, i : Keeps(y, i)' <=> Keeps(y, i) /\ ~(y = d /\ i \in f + 1 .. f + n)
          /\ UNCHANGED slots
          /\ HeapTypeOK /\ HeapTypeOK' /\ d \in Objects \cup Static /\ f + n <= Len(slots[d])
      BY <1>1, <1>2, <1>3, <2>5, <2>10
    <3>2. /\ Cardinality(Held(v, Suspended)') \in Nat /\ Occurs(v, Part(d, f, n)) \in Nat
          /\ Cardinality(Held(v, Suspended))
               = Cardinality(Held(v, Suspended)') + Occurs(v, Part(d, f, n))
      BY <1>13, <3>1, HeldLosesRange
    <3>3. Occurs(v, Part(d, f, n)) = Occurs(v, q)
      BY DEF q
    <3>4. Occurs(decref_op(v), todo') = Occurs(v, q)
      BY <2>8
    <3>5. Outstanding(v)' = One(d = v) + Occurs(v, p) /\ One(d = v) \in Nat /\ Occurs(v, p) \in Nat
      <4>1. One(d = v) \in Nat /\ Occurs(v, p) \in Nat
        BY <1>11
      <4> QED
        BY <2>7, <4>1
    <3>6. /\ owned[v] \in Nat /\ rc[v] \in Int /\ One(s = v) \in Nat
          /\ owned'[v] \in Nat /\ owned'[v] + One(d = v) + One(s = v) = owned[v]
          /\ Occurs(v, q) \in Nat
          /\ v \in Live => owned[v] + Cardinality(Held(v, Suspended)) = rc[v]
          /\ v \notin Live => /\ owned[v] = 0 /\ Cardinality(Held(v, Suspended)) = 0
                              /\ One(s = v) = 0 /\ One(d = v) = 0
      BY <1>11
    <3>7. CASE v \in Live
      <4>1. rc'[v] = rc[v] - One(s = v) + Occurs(v, p) /\ v \in Live'
        <5>1. k[v] = rc[v] - One(s = v) /\ k[v] >= 1
          BY <2>2, <3>7
        <5>2. rc'[v] = IF k[v] > 0 THEN k[v] + 1 * Occurs(v, p) ELSE k[v]
          BY <2>3
        <5> QED
          BY <1>7, <3>5, <3>6, <3>7, <5>1, <5>2
      <4> QED
        BY <3>2, <3>3, <3>4, <3>5, <3>6, <3>7, <4>1
    <3>8. CASE v \notin Live
      <4>1. Occurs(v, p) = 0
        BY <1>15, <3>5, <3>8
      <4>2. /\ owned[v] = 0 /\ Cardinality(Held(v, Suspended)) = 0
            /\ One(s = v) = 0 /\ One(d = v) = 0
        BY <3>6, <3>8
      <4>3. owned'[v] = 0 /\ Occurs(v, q) = 0 /\ Cardinality(Held(v, Suspended)') = 0
        BY <3>2, <3>3, <3>6, <4>2
      <4> QED
        BY <1>7, <3>4, <3>5, <3>8, <4>1, <4>2, <4>3
    <3> QED
      BY <3>7, <3>8
  <2>12. \A v \in Live' : rc'[v] >= 1
    <3>1. SUFFICES ASSUME NEW v \in Live PROVE rc'[v] >= 1
      BY <1>7
    <3>2. v \in Objects \cup Static /\ rc[v] \in Int /\ One(s = v) \in Nat
      BY <1>6, <1>11
    <3>3. k[v] \in Int /\ k[v] >= 1
      BY <2>2, <3>2
    <3>4. Occurs(v, p) \in Nat /\ rc'[v] = IF k[v] > 0 THEN k[v] + 1 * Occurs(v, p) ELSE k[v]
      BY <2>3, <3>2
    <3> QED
      BY <3>3, <3>4
  <2> QED
    BY <2>5, <2>6, <2>8, <2>11, <2>12, QuietKeeps
<1> QED
  BY <1>17, <1>18

(* No object is live, and no call is in progress.                          *)
LEMMA HeapInitInv == HeapInit => HeapInv
<1>1. SUFFICES ASSUME HeapInit PROVE HeapInv
  OBVIOUS
<1>2. /\ todo = <<>> /\ last = Nothing /\ fault = "none"
      /\ shape = [o \in Objects \cup Static |-> IF o = Empty THEN "array" ELSE "free"]
      /\ rc = [o \in Objects \cup Static |-> IF o = Empty THEN -1 ELSE 0]
      /\ slots = [o \in Objects \cup Static |-> <<>>]
      /\ owned = [o \in Objects |-> 0]
  BY <1>1 DEF HeapInit
<1>3. Empty \notin Objects /\ Empty \in Objects \cup Static /\ MaxSlots \in Nat /\ MaxOwned \in Nat
  BY RefCountAssumption DEF RefCountAssumption, Static
<1>4. HeapTypeOK
  <2>1. \A o \in Objects \cup Static : <<>> \in Seq(Objects \cup {Null}) /\ Len(<<>>) <= MaxSlots
    BY <1>3
  <2>2. 0 \in 0 .. MaxOwned
    BY <1>3
  <2> QED
    BY <1>2, <2>1, <2>2 DEF HeapTypeOK
<1>5. StaticInv
  BY <1>2, <1>3 DEF StaticInv
<1>6. last.op = "nothing"
  BY <1>2 DEF Nothing
<1>7. LastInv
  BY <1>6 DEF LastInv
<1>8. Live = {}
  BY <1>2, <1>3 DEF Live
<1>9. Drops = {} /\ Current = {}
  BY <1>2 DEF Drops, Current
<1>10. Suspended = {}
  BY <1>9, NoDrops, SuspendedIs
<1>11. ListInv
  <2>1. todo \in Seq(CallSteps)
    BY <1>2
  <2> QED
    BY <1>2, <2>1 DEF ListInv, Alone
<1>12. WalkInv
  BY <1>9, <1>10 DEF WalkInv
<1>13. Steady = {}
  BY <1>8 DEF Steady
<1>14. Positive
  BY <1>13 DEF Positive
<1>15. ASSUME NEW o \in Objects PROVE References(o, Suspended) = 0
  <2>1. Held(o, Suspended) = {}
    BY <1>8 DEF Held
  <2>2. Cardinality(Held(o, Suspended)) = 0
    BY <2>1, FS_EmptySet
  <2>3. owned[o] = 0 /\ Outstanding(o) = 0
    BY <1>2, <1>6 DEF Outstanding
  <2>4. Occurs(decref_op(o), todo) = 0
    BY <1>2, OccursOne
  <2> QED
    BY <2>2, <2>3, <2>4 DEF References
<1>16. CountInv
  BY <1>13, <1>15 DEF CountInv
<1> QED
  BY <1>2, <1>4, <1>5, <1>7, <1>11, <1>12, <1>14, <1>16 DEF HeapInv

(* What the program calls.                                                 *)
LEMMA ProgramKeeps ==
  ASSUME HeapInv, Program PROVE HeapInv'
<1>1. ASSUME NEW a \in Objects \ Live, NEW c \in Children, moonbit_malloc(a, c) PROVE HeapInv'
  <2>1. /\ Pass(c, <<a>>) /\ malloc(a, "block", c) /\ rc' = [rc EXCEPT ![a] = 1]
        /\ UNCHANGED <<todo, last, fault>>
    BY <1>1 DEF moonbit_malloc
  <2> QED
    BY <2>1, MallocKeeps
<1>2. ASSUME NEW a \in Objects \ Live, NEW c \in Children, Len(c) = 1,
             moonbit_make_external_object(a, c[1])
      PROVE  HeapInv'
  <2>1. c = <<c[1]>>
    BY <1>2, ChildrenAre
  <2>2. /\ Pass(<<c[1]>>, <<a>>) /\ malloc(a, "external", <<c[1]>>)
        /\ rc' = [rc EXCEPT ![a] = 1] /\ UNCHANGED <<todo, last, fault>>
    BY <1>2 DEF moonbit_make_external_object
  <2>3. Pass(c, <<a>>) /\ malloc(a, "external", c)
    BY <2>1, <2>2
  <2> QED
    BY <2>2, <2>3, MallocKeeps
<1>3. MaxSlots \in Nat
  BY RefCountAssumption DEF RefCountAssumption
<1>4. ASSUME NEW src \in Arrays, NEW r \in Ranges,
             \/ \E dst \in Arrays : moonbit_unsafe_ref_array_blit(dst, r[1], src, r[2], r[3])
             \/ \E size \in 1 .. MaxSlots, v \in Values :
                   moonbit_make_ref_array_with_blit(size, v, src, r[2], r[1], r[3])
      PROVE  HeapInv'
  <2>1. PICK f, g, n : f = r[1] /\ g = r[2] /\ n = r[3]
    OBVIOUS
  <2>2. f \in Nat /\ g \in Nat /\ n \in Nat
    BY <1>3, <2>1 DEF Ranges
  <2>3. ASSUME NEW dst \in Arrays, moonbit_unsafe_ref_array_blit(dst, f, src, g, n)
        PROVE  HeapInv'
    BY <2>2, <2>3, BlitKeeps
  <2>4. ASSUME NEW size \in 1 .. MaxSlots, NEW v \in Values,
               moonbit_make_ref_array_with_blit(size, v, src, g, f, n)
        PROVE  HeapInv'
    BY <2>2, <2>4, WithBlitKeeps
  <2> QED
    BY <1>4, <2>1, <2>3, <2>4
<1> QED
  BY <1>1, <1>2, <1>4, GiveUpKeeps, IncrefKeeps, ArraysKeep, ValtypesKeep DEF Program

(* The steps of a call.                                                    *)
LEMMA RuntimeKeeps ==
  ASSUME HeapInv, Runtime PROVE HeapInv'
  BY DecrefKeeps, CopyKeeps, FreeSourceKeeps, TouchKeeps, FillKeeps, NewKeeps, BackKeeps,
     ChildKeeps, DoneKeeps DEF Runtime

(* Every step keeps the counts right, and touches nothing that was freed.  *)
LEMMA HeapNextKeeps == HeapInv /\ [HeapNext]_heapVars => HeapInv'
<1>1. SUFFICES ASSUME HeapInv, [HeapNext]_heapVars PROVE HeapInv'
  OBVIOUS
<1>2. CASE HeapNext
  BY <1>1, <1>2, ProgramKeeps, RuntimeKeeps DEF HeapNext
<1>3. CASE UNCHANGED heapVars
  <2>1. /\ shape' = shape /\ rc' = rc /\ slots' = slots /\ owned' = owned
        /\ todo' = todo /\ last' = last /\ fault' = fault
    BY <1>3 DEF heapVars
  <2>2. Live' = Live /\ Drops' = Drops /\ Current' = Current
    BY <2>1 DEF Live, Drops, Current
  <2>3. Suspended' = Suspended
    <3>1. Suspended' = Least(Live', Drops', rc', slots')
      BY DEF Suspended, Upward, Link, Above, Least
    <3> QED
      BY <2>1, <2>2, <3>1, SuspendedIs
  <2>4. Steady' = Steady
    BY <2>2, <2>3 DEF Steady, Gone
  <2>5. HeapTypeOK' /\ ListInv' /\ StaticInv' /\ fault' # "other"
    BY <1>1, <2>1 DEF HeapInv, HeapTypeOK, ListInv, Alone, StaticInv
  <2>6. WalkInv'
    BY <1>1, <2>1, <2>2, <2>3 DEF HeapInv, WalkInv, Link
  <2>7. LastInv' /\ Positive'
    BY <1>1, <2>1, <2>4 DEF HeapInv, LastInv, Positive
  <2>8. ASSUME NEW v PROVE References(v, Suspended)' = References(v, Suspended)
    <3>1. Outstanding(v)' = Outstanding(v)
      BY <2>1 DEF Outstanding
    <3>2. \A x : Holds(x, Suspended)' = Holds(x, Suspended)
      BY <2>1, <2>2, <2>3 DEF Holds, TakenOver
    <3>3. Held(v, Suspended)' = Held(v, Suspended)
      BY <2>1, <2>2, <2>3, <3>2 DEF Held
    <3> QED
      BY <2>1, <3>1, <3>3 DEF References
  <2>9. CountInv'
    BY <1>1, <2>1, <2>4, <2>8 DEF HeapInv, CountInv
  <2> QED
    BY <2>5, <2>6, <2>7, <2>9 DEF HeapInv
<1> QED
  BY <1>1, <1>2, <1>3

(* The type invariant of the heap.                                         *)
THEOREM HeapTypeCorrect == HeapSpec => []HeapTypeOK
<1>1. HeapInv => HeapTypeOK
  BY DEF HeapInv
<1> QED
  BY <1>1, HeapInitInv, HeapNextKeeps, PTL DEF HeapSpec

(* At every step of every call, in the middle of any drop, nested or not,  *)
(* the count of an object that is not being dropped is the number of       *)
(* references to it, however many objects there are and whatever refers to *)
(* what: so an object dies exactly when its last reference goes.           *)
THEOREM CountsRightHolds == HeapSpec => []CountsRight
<1>1. ASSUME HeapInv PROVE CountsRight
  <2>1. CountInv /\ Positive /\ HeapTypeOK
    BY <1>1 DEF HeapInv
  <2>2. ASSUME NEW o \in Live \ (Suspended \cup Current)
        PROVE  rc[o] = References(o, Suspended) /\ rc[o] > 0
    <3>1. o \in Objects /\ o \in Steady
      BY <2>2 DEF Steady, Gone, Live
    <3>2. References(o, Suspended) = rc[o] /\ rc[o] >= 1 /\ rc[o] \in Int
      BY <2>1, <3>1 DEF CountInv, Positive, HeapTypeOK
    <3> QED
      BY <3>2
  <2> QED
    BY <2>2 DEF CountsRight
<1> QED
  BY <1>1, HeapInitInv, HeapNextKeeps, PTL DEF HeapSpec

(* No call of the runtime reads, counts or frees an object it has freed,   *)
(* but for a blit whose source an overwritten element alone kept alive.    *)
THEOREM FreedIsNotTouchedHolds == HeapSpec => []FreedIsNotTouched
<1>1. HeapInv => FreedIsNotTouched
  BY DEF HeapInv, FreedIsNotTouched
<1> QED
  BY <1>1, HeapInitInv, HeapNextKeeps, PTL DEF HeapSpec
=============================================================================
