-------------------------------- MODULE Jobs --------------------------------
(***************************************************************************)
(* The concrete jobs of thread_pool.c: what each kind of job does on its   *)
(* worker thread, system call by system call, what it leaves in ret and    *)
(* err, what it opens and allocates on the way, and what its free function *)
(* releases.  Several jobs run at once, each on its own thread; they share *)
(* one thing, the static buffer of realpath on Windows.                    *)
(*                                                                         *)
(* A system call succeeds or fails as it likes.  A resource is a pair of   *)
(* the job that made it and its name; err keeps no more than whether it is *)
(* zero, and "aborted" for ERROR_OPERATION_ABORTED and EINTR.              *)
(***************************************************************************)
EXTENDS Integers

CONSTANTS
    Jobs,
    Kinds,        \* the kinds of job an instance looks at
    NoJob        \* realpath's buffer before its first use

Platforms == {"windows", "windows7", "linux", "macos"}
UnixOnly == {"chmod", "sigwait", "inotify_add_watch"}
AllKinds == UnixOnly \cup
    {"sleep", "read", "write", "open", "kind_of_fd", "file_kind_by_path", "file_size",
     "file_time", "file_time_by_path", "fsync", "flock", "remove", "access", "rename",
     "symlink", "mkdir", "rmdir", "readdir", "realpath", "spawn", "wait_for_process",
     "bind", "getaddrinfo"}

ASSUME JobsAssumption == Kinds \subseteq AllKinds /\ NoJob \notin Jobs

VARIABLES
    platform,     \* windows7: built without PROC_THREAD_ATTRIBUTE_JOB_LIST
    kind,
    call,         \* the next call of the job; then "done", "taken", "freed"
    ret, err,     \* the fields of struct job
    result,       \* the payload some jobs leave beside ret
    owed,         \* handles and memory that somebody has to release
    realpath_buf, \* whose path is in the static buffer of realpath
    worked        \* history: the operation the job stands for took place

jobsVars == <<platform, kind, call, ret, err, result, owed, realpath_buf, worked>>

Windows == platform \in {"windows", "windows7"}

(* Jobs whose coroutine passes cancel: and may leave without the result.   *)
CancellableKinds ==
    {"read", "write", "open", "flock", "wait_for_process", "sigwait", "getaddrinfo"}

(* The managed objects make_*_job stores, which free_*_job must release.   *)
Owns(k) ==
    CASE k \in {"read", "write"} -> {"buf"}
      [] k \in {"file_time", "readdir"} -> {"out"}
      [] k = "file_time_by_path" -> {"path", "out"}
      [] k \in {"rename", "symlink"} -> {"from", "to"}
      [] k = "spawn" -> {"command", "environment", "cwd"}
      [] k \in {"open", "file_kind_by_path", "chmod", "remove", "access", "mkdir", "rmdir",
                "realpath", "bind", "getaddrinfo", "inotify_add_watch"} -> {"path"}
      [] OTHER -> {}

Of(j, names) == {j} \X names

JobsInit ==
    /\ platform \in Platforms
    /\ kind \in [Jobs -> Kinds]
    /\ Windows => \A j \in Jobs : kind[j] \notin UnixOnly
    /\ call = [j \in Jobs |-> "start"]
    /\ ret = [j \in Jobs |-> 0] /\ err = [j \in Jobs |-> "none"]
    /\ result = [j \in Jobs |-> "none"]
    /\ owed = (UNION {Of(j, Owns(kind[j])) : j \in Jobs}) \cup
              {<<j, "cancel">> : j \in {i \in Jobs : Windows /\ kind[i] = "wait_for_process"}}
    /\ realpath_buf = NoJob
    /\ worked = [j \in Jobs |-> FALSE]

-----------------------------------------------------------------------------
At(j, k, step) == kind[j] = k /\ call[j] = step
Proceed(j, step) == call' = [call EXCEPT ![j] = step]

Finish(j, r, e) ==
    /\ Proceed(j, "done")
    /\ ret' = [ret EXCEPT ![j] = r]
    /\ err' = [err EXCEPT ![j] = e]

Worked(j) == worked' = [worked EXCEPT ![j] = TRUE]
StillOpen == UNCHANGED worked
Opens(j, names) == owed' = owed \cup Of(j, names)
Closes(j, names) == owed' = owed \ Of(j, names)

(* A Windows call: on failure err is GetLastError() and ret stays 0.       *)
win_call(j, value) ==
    \/ Finish(j, value, "none") /\ Worked(j)
    \/ \E e \in {"error", "aborted"} : Finish(j, 0, e) /\ StillOpen

(* A POSIX call: ret is its value, and errno is kept when it is negative.  *)
posix_call(j, value) ==
    \/ Finish(j, value, "none") /\ Worked(j)
    \/ \E e \in {"error", "aborted"} : Finish(j, -1, e) /\ StillOpen

os_call(j, value) == IF Windows THEN win_call(j, value) ELSE posix_call(j, value)

NoPayload == UNCHANGED <<result, owed, realpath_buf>>

(* The kinds that are one system call.  read and write transfer at least   *)
(* one byte here.                                                          *)
sleep(j) == At(j, "sleep", "start") /\ Finish(j, 0, "none") /\ Worked(j) /\ NoPayload
read(j) == At(j, "read", "start") /\ os_call(j, 1) /\ NoPayload
write(j) == At(j, "write", "start") /\ os_call(j, 1) /\ NoPayload
file_size(j) == At(j, "file_size", "start") /\ os_call(j, 0) /\ NoPayload
file_time(j) == At(j, "file_time", "start") /\ os_call(j, 0) /\ NoPayload
chmod(j) == At(j, "chmod", "start") /\ posix_call(j, 0) /\ NoPayload
fsync(j) == At(j, "fsync", "start") /\ os_call(j, 0) /\ NoPayload
remove(j) == At(j, "remove", "start") /\ os_call(j, 0) /\ NoPayload
mkdir(j) == At(j, "mkdir", "start") /\ os_call(j, 0) /\ NoPayload
rmdir(j) == At(j, "rmdir", "start") /\ os_call(j, 0) /\ NoPayload
bind(j) == At(j, "bind", "start") /\ posix_call(j, 0) /\ NoPayload
inotify_add_watch(j) ==
    /\ At(j, "inotify_add_watch", "start")
    /\ IF platform = "linux" THEN posix_call(j, 1) ELSE Finish(j, 0, "error") /\ StillOpen
    /\ NoPayload

(* Mutant of flock: whether the file is locked is not looked at.           *)
flock_unchecked(j) ==
    /\ At(j, "flock", "start") /\ NoPayload
    /\ Finish(j, 0, "none") /\ (Worked(j) \/ StillOpen)

(* flock keeps the value of its call to itself: ret is 0 either way.       *)
flock(j) == At(j, "flock", "start") /\ win_call(j, 0) /\ NoPayload

(* moonbitlang_async_kind_of_fd, from GetFileType or fstat: a kind, or -1. *)
kind_of_fd_call(j) == posix_call(j, 1)
kind_of_fd(j) == At(j, "kind_of_fd", "start") /\ kind_of_fd_call(j) /\ NoPayload

(* Kinds that open the path on Windows first, and close it on every way.   *)
OpenPath(j, next) ==
    /\ UNCHANGED <<result, realpath_buf, worked>>
    /\ \/ Opens(j, {"probe"}) /\ Proceed(j, next) /\ UNCHANGED <<ret, err>>
       \/ \E e \in {"error", "aborted"} : Finish(j, 0, e) /\ UNCHANGED owed

file_kind_by_path(j) ==
    \/ At(j, "file_kind_by_path", "start") /\ ~Windows /\ win_call(j, 1) /\ NoPayload
    \/ At(j, "file_kind_by_path", "start") /\ Windows /\ OpenPath(j, "probed")
    \/ /\ At(j, "file_kind_by_path", "probed")
       /\ kind_of_fd_call(j) /\ Closes(j, {"probe"})
       /\ UNCHANGED <<result, realpath_buf>>

file_time_by_path(j) ==
    \/ At(j, "file_time_by_path", "start") /\ ~Windows /\ posix_call(j, 0) /\ NoPayload
    \/ At(j, "file_time_by_path", "start") /\ Windows /\ OpenPath(j, "probed")
    \/ /\ At(j, "file_time_by_path", "probed")
       /\ win_call(j, 0) /\ Closes(j, {"probe"})
       /\ UNCHANGED <<result, realpath_buf>>

access(j) ==
    \/ At(j, "access", "start") /\ ~Windows /\ posix_call(j, 0) /\ NoPayload
    \/ At(j, "access", "start") /\ Windows /\ OpenPath(j, "probed")
    \/ /\ At(j, "access", "probed")
       /\ Finish(j, 0, "none") /\ Worked(j) /\ Closes(j, {"probe"})
       /\ UNCHANGED <<result, realpath_buf>>

(* rename: on Windows by handle, and by MoveFileEx where the file system   *)
(* answers ERROR_INVALID_PARAMETER; handle and info are gone by then.      *)
rename(j) ==
    \/ At(j, "rename", "start") /\ ~Windows /\ posix_call(j, 0) /\ NoPayload
    \/ At(j, "rename", "start") /\ Windows /\ OpenPath(j, "info")
    \/ /\ At(j, "rename", "info") /\ Opens(j, {"info"}) /\ Proceed(j, "set")
       /\ UNCHANGED <<ret, err, result, realpath_buf, worked>>
    \/ /\ At(j, "rename", "set") /\ Closes(j, {"probe", "info"})
       /\ win_call(j, 0) \/ (Proceed(j, "move") /\ StillOpen /\ UNCHANGED <<ret, err>>)
       /\ UNCHANGED <<result, realpath_buf>>
    \/ At(j, "rename", "move") /\ win_call(j, 0) /\ NoPayload

(* symlink: Windows asks for the target's attributes first.                *)
symlink(j) ==
    \/ At(j, "symlink", "start") /\ ~Windows /\ posix_call(j, 0) /\ NoPayload
    \/ /\ At(j, "symlink", "start") /\ Windows /\ NoPayload /\ StillOpen
       /\ Finish(j, 0, "error") \/ (Proceed(j, "link") /\ UNCHANGED <<ret, err>>)
    \/ At(j, "symlink", "link") /\ win_call(j, 0) /\ NoPayload

(* readdir: the end of the directory is a success with 0 bytes; a restart  *)
(* is a seek of its own on Unix.                                           *)
readdir(j) ==
    /\ At(j, "readdir", "start") /\ NoPayload
    /\ \/ Finish(j, 0, "none") /\ Worked(j)
       \/ os_call(j, 1)
       \/ ~Windows /\ Finish(j, 0, "error") /\ StillOpen

-----------------------------------------------------------------------------
(* open                                                                    *)

(* The first call.  On Windows a busy pipe is waited for.                  *)
open_create(j) ==
    /\ At(j, "open", "start") /\ UNCHANGED <<realpath_buf, worked>>
    /\ \/ /\ Opens(j, {"file"}) /\ Proceed(j, "stat")
          /\ result' = [result EXCEPT ![j] = "file"] /\ UNCHANGED <<ret, err>>
       \/ /\ \E e \in {"error", "aborted"} : Finish(j, 0, e)
          /\ result' = [result EXCEPT ![j] = "invalid"] /\ UNCHANGED owed
       \/ /\ Windows /\ Proceed(j, "pipe")
          /\ err' = [err EXCEPT ![j] = "error"]
          /\ result' = [result EXCEPT ![j] = "invalid"] /\ UNCHANGED <<ret, owed>>

(* WaitNamedPipe.  When it succeeds, "continue" goes to the condition of   *)
(* do ... while (0): the loop ends and the file has not been opened.       *)
open_wait_pipe(j) ==
    /\ At(j, "open", "pipe") /\ NoPayload /\ StillOpen
    /\ \/ \E e \in {"error", "aborted"} : Finish(j, 0, e)
       \/ Proceed(j, "stat") /\ UNCHANGED <<ret, err>>

(* Mutant of open_stat: the file stays open when its kind cannot be found. *)
open_stat_leaks(j) ==
    /\ At(j, "open", "stat") /\ UNCHANGED <<result, realpath_buf, owed>>
    /\ \/ result[j] = "file" /\ Finish(j, 0, err[j]) /\ Worked(j)
       \/ Finish(j, 0, "error") /\ StillOpen

(* GetFileInformationByHandle or fstat; the file is closed if it fails, as *)
(* it does for a handle that is invalid.                                   *)
open_stat(j) ==
    /\ At(j, "open", "stat") /\ UNCHANGED <<result, realpath_buf>>
    /\ \/ /\ result[j] = "file" /\ Finish(j, 0, err[j]) /\ Worked(j) /\ UNCHANGED owed
       \/ Finish(j, 0, "error") /\ StillOpen /\ Closes(j, {"file"})

-----------------------------------------------------------------------------
(* realpath                                                                *)

(* Mutant of realpath_query: a path too long for the buffer, which is then *)
(* left as it was, is copied from it all the same.                         *)
realpath_query_unmeasured(j) ==
    /\ At(j, "realpath", "start") /\ Windows /\ UNCHANGED <<result, worked>>
    /\ \/ Finish(j, 0, "error") /\ UNCHANGED <<owed, realpath_buf>>
       \/ /\ realpath_buf' \in {j, realpath_buf} /\ Proceed(j, "copy")
          /\ Opens(j, {"string"}) /\ UNCHANGED <<ret, err>>

(* On Windows the path goes into a buffer that all threads share, then     *)
(* into a string; a path that does not fit is asked for again, into a      *)
(* string as long as the terminated path.                                  *)
realpath_query(j) ==
    /\ At(j, "realpath", "start") /\ Windows /\ UNCHANGED <<result, worked>>
    /\ \/ Finish(j, 0, "error") /\ UNCHANGED <<owed, realpath_buf>>
       \/ /\ realpath_buf' = j /\ Proceed(j, "copy")
          /\ Opens(j, {"string"}) /\ UNCHANGED <<ret, err>>
       \/ /\ Proceed(j, "long") /\ Opens(j, {"string"}) /\ UNCHANGED <<ret, err, realpath_buf>>

realpath_copy(j) ==
    /\ At(j, "realpath", "copy")
    /\ result' = [result EXCEPT ![j] = IF realpath_buf = j THEN "own" ELSE "other"]
    /\ Finish(j, 0, "none") /\ Worked(j) /\ UNCHANGED <<owed, realpath_buf>>

realpath_long(j) ==
    /\ At(j, "realpath", "long") /\ UNCHANGED realpath_buf
    /\ \/ /\ result' = [result EXCEPT ![j] = "own_and_null"]
          /\ Finish(j, 0, "none") /\ Worked(j) /\ UNCHANGED owed
       \/ Finish(j, 0, "error") /\ Closes(j, {"string"}) /\ StillOpen /\ UNCHANGED result

realpath_posix(j) ==
    /\ At(j, "realpath", "start") /\ ~Windows /\ UNCHANGED realpath_buf
    /\ \/ /\ result' = [result EXCEPT ![j] = "own"] /\ Opens(j, {"string"})
          /\ Finish(j, 0, "none") /\ Worked(j)
       \/ Finish(j, -1, "error") /\ StillOpen /\ UNCHANGED <<result, owed>>

-----------------------------------------------------------------------------
(* spawn and wait_for_process                                              *)

(* The standard handles are made inheritable; on Windows 10 an attribute   *)
(* list puts a child that is no orphan into the job object.                *)
spawn_prepare(j) ==
    /\ At(j, "spawn", "start") /\ Windows /\ UNCHANGED <<result, realpath_buf, worked>>
    /\ \/ Finish(j, 0, "error") /\ UNCHANGED owed
       \/ Proceed(j, "create") /\ UNCHANGED <<ret, err, owed>>
       \/ /\ platform = "windows" /\ Opens(j, {"attributes"})
          /\ Proceed(j, "attributes") /\ UNCHANGED <<ret, err>>

spawn_attributes(j) ==
    /\ At(j, "spawn", "attributes") /\ UNCHANGED <<result, realpath_buf, worked>>
    /\ \/ Finish(j, 0, "error") /\ Closes(j, {"attributes"})
       \/ Proceed(j, "create") /\ UNCHANGED <<ret, err, owed>>

(* CreateProcess, then the attribute list is released.  Without it a child *)
(* starts suspended, to be put into the job object before it runs.         *)
spawn_create(j) ==
    /\ At(j, "spawn", "create") /\ Windows /\ UNCHANGED <<result, realpath_buf, worked>>
    /\ \/ Finish(j, 0, "error") /\ Closes(j, {"attributes"})
       \/ /\ \/ Proceed(j, "return")
             \/ platform = "windows7" /\ Proceed(j, "assign")
          /\ owed' = (owed \ Of(j, {"attributes"})) \cup Of(j, {"process", "thread"})
          /\ UNCHANGED <<ret, err>>

spawn_assign(j) ==
    /\ At(j, "spawn", "assign") /\ NoPayload /\ StillOpen
    /\ \/ Finish(j, 0, "error")
       \/ Proceed(j, "return") /\ UNCHANGED <<ret, err>>

spawn_return(j) ==
    /\ At(j, "spawn", "return") /\ UNCHANGED realpath_buf
    /\ Closes(j, {"thread"})
    /\ result' = [result EXCEPT ![j] = "process"]
    /\ Finish(j, 1, "none") /\ Worked(j)

(* posix_spawn reports its error in its value; the attributes and actions  *)
(* are destroyed whichever step failed.                                    *)
spawn_posix(j) ==
    /\ ~Windows /\ kind[j] = "spawn" /\ UNCHANGED <<result, realpath_buf>>
    /\ \/ /\ call[j] = "start" /\ Opens(j, {"attributes"}) /\ Proceed(j, "create")
          /\ StillOpen /\ UNCHANGED <<ret, err>>
       \/ /\ call[j] = "create" /\ Closes(j, {"attributes"})
          /\ \/ Finish(j, 1, "none") /\ Worked(j)
             \/ Finish(j, 0, "error") /\ StillOpen

wait_for_process(j) ==
    /\ At(j, "wait_for_process", "start") /\ NoPayload
    /\ win_call(j, 0)

-----------------------------------------------------------------------------
(* getaddrinfo: failures to find the name are in ret, others in err.       *)
getaddrinfo(j) ==
    /\ At(j, "getaddrinfo", "start") /\ UNCHANGED realpath_buf
    /\ \/ /\ Opens(j, {"addrinfo"}) /\ result' = [result EXCEPT ![j] = "addrinfo"]
          /\ Finish(j, 0, "none") /\ Worked(j)
       \/ /\ Finish(j, 1, "none") \/ Finish(j, IF Windows THEN 0 ELSE 1, "error")
          /\ StillOpen /\ UNCHANGED <<result, owed>>

(* sigwait: signals are posted until SIGUSR2 cancels the job.              *)
sigwait(j) ==
    /\ At(j, "sigwait", "start") /\ NoPayload
    /\ \/ Finish(j, 0, "none") /\ Worked(j)
       \/ Finish(j, 0, "error") /\ StillOpen

-----------------------------------------------------------------------------
(* The coroutine                                                           *)

Failed(j) == err[j] # "none" \/ (kind[j] = "getaddrinfo" /\ ret[j] # 0)

(* What a successful job hands over: OpenResult::fd, the process handle,   *)
(* the string of realpath, the address list.                               *)
Payload(k) ==
    CASE k = "open" -> {"file"} [] k = "realpath" -> {"string"}
      [] k = "spawn" -> {"process"} [] k = "getaddrinfo" -> {"addrinfo"} [] OTHER -> {}

TakeResult(j) ==
    /\ call[j] = "done" /\ ~Failed(j)
    /\ Proceed(j, "taken") /\ Closes(j, Payload(kind[j]))
    /\ result' = [result EXCEPT ![j] = IF kind[j] = "realpath" THEN @ ELSE "taken"]
    /\ UNCHANGED <<platform, kind, ret, err, realpath_buf, worked>>

(* What free_*_job releases beside the arguments: the process handle and   *)
(* the addresses, unless they were taken, and the event of the waiter.     *)
FreedPayload(j) ==
    CASE kind[j] = "spawn" /\ Windows /\ result[j] = "process" -> {"process"}
      [] kind[j] = "getaddrinfo" /\ result[j] = "addrinfo" -> {"addrinfo"}
      [] kind[j] = "wait_for_process" /\ Windows -> {"cancel"}
      [] OTHER -> {}

(* The job's last reference goes, its result taken, failed, or left by a   *)
(* coroutine that was cancelled when the job had finished.                 *)
Free(j) ==
    /\ call[j] = "taken" \/ (call[j] = "done" /\ (Failed(j) \/ kind[j] \in CancellableKinds))
    /\ Proceed(j, "freed")
    /\ Closes(j, Owns(kind[j]) \cup FreedPayload(j))
    /\ UNCHANGED <<platform, kind, ret, err, result, realpath_buf, worked>>

-----------------------------------------------------------------------------
WorkerStep(j) ==
    \/ sleep(j) \/ read(j) \/ write(j) \/ file_size(j) \/ file_time(j) \/ chmod(j)
    \/ fsync(j) \/ remove(j) \/ mkdir(j) \/ rmdir(j) \/ bind(j) \/ inotify_add_watch(j)
    \/ flock(j) \/ kind_of_fd(j) \/ file_kind_by_path(j) \/ file_time_by_path(j)
    \/ access(j) \/ rename(j) \/ symlink(j) \/ readdir(j)
    \/ open_create(j) \/ open_wait_pipe(j) \/ open_stat(j)
    \/ realpath_query(j) \/ realpath_copy(j) \/ realpath_long(j) \/ realpath_posix(j)
    \/ spawn_prepare(j) \/ spawn_attributes(j) \/ spawn_create(j) \/ spawn_assign(j)
    \/ spawn_return(j) \/ spawn_posix(j) \/ wait_for_process(j)
    \/ getaddrinfo(j) \/ sigwait(j)

JobsNext ==
    \E j \in Jobs : (WorkerStep(j) /\ UNCHANGED <<platform, kind>>) \/ TakeResult(j) \/ Free(j)

JobsSpec == JobsInit /\ [][JobsNext]_jobsVars

-----------------------------------------------------------------------------
Over(j) == call[j] \in {"done", "taken", "freed"}

Steps == {"start", "probed", "info", "set", "move", "link", "pipe", "stat", "copy", "long",
          "attributes", "create", "assign", "return", "done", "taken", "freed"}
Results == {"none", "file", "invalid", "own", "other", "own_and_null", "process",
            "addrinfo", "taken"}
Names == {"buf", "out", "path", "from", "to", "command", "environment", "cwd", "cancel",
          "probe", "info", "file", "string", "attributes", "process", "thread", "addrinfo"}

JobsTypeOK ==
    /\ platform \in Platforms /\ kind \in [Jobs -> Kinds] /\ call \in [Jobs -> Steps]
    /\ ret \in [Jobs -> {-1, 0, 1}] /\ err \in [Jobs -> {"none", "error", "aborted"}]
    /\ result \in [Jobs -> Results] /\ owed \subseteq Jobs \X Names
    /\ realpath_buf \in Jobs \cup {NoJob} /\ worked \in [Jobs -> BOOLEAN]

\* What perform_job_in_worker makes of ret and err is what happened: a job
\* whose operation took place never raises, one that failed at any of its
\* calls never passes for a success, and a negative value is never returned.
OutcomeIsTrue ==
    \A j \in Jobs : Over(j) => (Failed(j) <=> ~worked[j]) /\ (~Failed(j) => ret[j] >= 0)

\* When a job is gone nothing it opened or allocated is left, on any of its
\* ways out, with two exceptions: the file of an open whose task was
\* cancelled after the job had finished, which free_open_job does not close
\* (free_spawn_job and free_getaddrinfo_job do it for theirs), and the
\* handles of a child that could not be put into the job object.
NothingLeaks ==
    \A j \in Jobs : call[j] = "freed" =>
        \A x \in owed : x[1] = j =>
            \/ kind[j] = "open" /\ x[2] = "file" /\ result[j] = "file" /\ ~Failed(j)
            \/ kind[j] = "spawn" /\ platform = "windows7" /\ Failed(j)
               /\ x[2] \in {"process", "thread"}

(* realpath answers with the path it was asked for, except that on Windows *)
(* another realpath job that has begun can have put its own path in the    *)
(* buffer they share.                                                      *)
RealpathMixedOnlyByRace ==
    \A j \in Jobs : result[j] = "other" =>
        Windows /\ \E i \in Jobs \ {j} : kind[i] = "realpath" /\ call[i] # "start"

\* realpath answers with the path it was asked for: "get canonical
\* representation of a path".
RealpathIsOwn == \A j \in Jobs : result[j] # "other"
=============================================================================
