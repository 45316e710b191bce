----------------------------- MODULE EnumBuffer -----------------------------
(***************************************************************************)
(* The memory behind the listings of lib/platform/cwrap.c: the growing     *)
(* array g_enum_files with g_enum_count and g_enum_cap, shared by          *)
(* jk100_enum_files, jk100_get_enum_file, jk100_free_enum_files, the       *)
(* one-shot scan and the guard, called in any order.  A path is the heap   *)
(* block _strdup returned for it.                                          *)
(***************************************************************************)
EXTENDS Integers, Sequences, Functions

CONSTANTS
  Blocks,    (* Heap blocks.  Bound: no more files than there are blocks.    *)
  NULL,
  FirstCap   (* Capacity of the first array (256 in the source).             *)

ASSUME EnumBufferAssumption ==
  /\ NULL \notin Blocks
  /\ NULL \notin Seq(Blocks \cup {NULL})
  /\ FirstCap \in Nat \ {0}

VARIABLES
  running,      (* The function that is running, "idle" for none.            *)
  g_enum_files, (* The array, or NULL; a cell never written holds NULL.      *)
  g_enum_count,
  g_enum_cap,
  live          (* The blocks allocated and not freed.                       *)

bufferVars == <<running, g_enum_files, g_enum_count, g_enum_cap, live>>

Cell == Blocks \cup {NULL}
Enumerating == {"enum_files", "run_scan", "baseline", "round"}
Locations == Enumerating \cup {"idle", "pause"}

(* The entries below g_enum_count: what jk100_get_enum_file hands out.      *)
Entries == IF g_enum_files = NULL THEN <<>> ELSE SubSeq(g_enum_files, 1, g_enum_count)

BufferInit ==
  /\ running = "idle"
  /\ g_enum_files = NULL
  /\ g_enum_count = 0
  /\ g_enum_cap = 0
  /\ live = {}

-----------------------------------------------------------------------------
(* The loop that frees every entry. *)
FreeEntries == live' = live \ Range(Entries)

(* Mutant of Clear: the entries stay counted. *)
ClearKeepsCount ==
  /\ FreeEntries
  /\ UNCHANGED <<g_enum_files, g_enum_count, g_enum_cap>>

(* The start of an enumeration: entries go, the array stays for the next.   *)
Clear ==
  /\ IF g_enum_files # NULL THEN FreeEntries /\ g_enum_count' = 0
     ELSE UNCHANGED <<live, g_enum_count>>
  /\ UNCHANGED <<g_enum_files, g_enum_cap>>

(* jk100_free_enum_files, and the same lines at the end of a scan or round. *)
ReleaseBuffer ==
  IF g_enum_files # NULL
    THEN FreeEntries /\ g_enum_files' = NULL /\ g_enum_count' = 0 /\ g_enum_cap' = 0
    ELSE UNCHANGED <<live, g_enum_files, g_enum_count, g_enum_cap>>

(* realloc: the old cells, and new ones behind them.                        *)
Grown(cap) ==
  [i \in 1 .. cap |-> IF i <= g_enum_cap THEN g_enum_files[i] ELSE NULL]

(* jk100_enum_add with the block _strdup returned.                          *)
Add(block) ==
  /\ running \in Enumerating
  /\ block \notin live
  /\ LET full == g_enum_count >= g_enum_cap
         cap == IF g_enum_cap = 0 THEN FirstCap ELSE g_enum_cap * 2
         array == IF full THEN Grown(cap) ELSE g_enum_files
     IN /\ g_enum_cap' = IF full THEN cap ELSE g_enum_cap
        /\ g_enum_files' = [array EXCEPT ![g_enum_count + 1] = block]
  /\ g_enum_count' = g_enum_count + 1
  /\ live' = live \cup {block}
  /\ UNCHANGED running

-----------------------------------------------------------------------------
(* An enumeration on behalf of the library's caller, a scan, or the guard.  *)
BeginEnumeration ==
  /\ running = "idle"
  /\ Clear
  /\ running' \in {"enum_files", "run_scan", "baseline"}

(* jk100_enum_files returns the count; its caller may ask for the entries.  *)
EnumFilesReturns ==
  /\ running = "enum_files"
  /\ running' = "idle"
  /\ UNCHANGED <<g_enum_files, g_enum_count, g_enum_cap, live>>

free_enum_files ==
  /\ running = "idle"
  /\ ReleaseBuffer
  /\ UNCHANGED running

(* jk100_run_scan returns early, without a release, if it listed nothing.   *)
ScanReturns ==
  /\ running = "run_scan"
  /\ IF g_enum_count = 0 THEN UNCHANGED <<g_enum_files, g_enum_count, g_enum_cap, live>>
     ELSE ReleaseBuffer
  /\ running' = "idle"

(* The guard has taken its baseline, or has looked at a round's listing.    *)
GuardListed ==
  /\ running \in {"baseline", "round"}
  /\ ReleaseBuffer
  /\ running' = "pause"

(* A round enumerates without clearing first; a stop ends the guard.        *)
GuardGoesOn ==
  /\ running = "pause"
  /\ running' \in {"round", "idle"}
  /\ UNCHANGED <<g_enum_files, g_enum_count, g_enum_cap, live>>

BufferNext ==
  \/ BeginEnumeration
  \/ \E block \in Blocks : Add(block)
  \/ EnumFilesReturns
  \/ free_enum_files
  \/ ScanReturns
  \/ GuardListed \/ GuardGoesOn

BufferSpec == BufferInit /\ [][BufferNext]_bufferVars

-----------------------------------------------------------------------------
(* Properties. *)

(***************************************************************************)
(* Every variable has its type, and the capacity is that of the array:     *)
(* whenever jk100_enum_add does not grow it, there is an array, with a     *)
(* cell for the entry.                                                     *)
(***************************************************************************)
BufferTypeOK ==
  /\ running \in Locations
  /\ g_enum_cap \in Nat
  /\ g_enum_count \in 0 .. g_enum_cap
  /\ IF g_enum_cap = 0 THEN g_enum_files = NULL
     ELSE g_enum_files \in [1 .. g_enum_cap -> Cell]
  /\ live \in SUBSET Blocks

(***************************************************************************)
(* Every entry is a live block of its own, so that reading it is sound and *)
(* freeing the entries frees each block once; and every live block is an   *)
(* entry, so that nothing leaks, in whatever order the functions are       *)
(* called.                                                                 *)
(***************************************************************************)
EntriesOwnTheHeap ==
  /\ Range(Entries) = live
  /\ \A i, j \in 1 .. g_enum_count : Entries[i] = Entries[j] => i = j

(***************************************************************************)
(* To its readers the buffer is a list that is emptied or grows at its     *)
(* end: when the array is reallocated, no entry changes.                   *)
(***************************************************************************)
GrowsAtItsEnd ==
  [][Entries' # Entries =>
       Entries' = <<>> \/ \E b \in Blocks : Entries' = Append(Entries, b)]_bufferVars
=============================================================================
