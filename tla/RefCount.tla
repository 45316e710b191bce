------------------------------ MODULE RefCount ------------------------------
(***************************************************************************)
(* Memory management of the MoonBit runtime (runtime.c), which every       *)
(* object the scanner allocates goes through: reference counting, and      *)
(* moonbit_drop_object, which walks a dying graph without a stack.  It     *)
(* keeps its place in the objects it is about to free: in a suspended      *)
(* object rc holds the index of the child being dropped and the slot of    *)
(* that child holds the object's own parent.                               *)
(*                                                                         *)
(* The program owns references and passes them to the runtime's functions, *)
(* which consume them.  What a call gives up is a list of steps, todo: a   *)
(* drop started by the finalizer of an external object in the middle of    *)
(* another drop is put in front of what remains.  Once the list is empty   *)
(* the call goes on with what is left of it, last.                         *)
(***************************************************************************)
EXTENDS Integers, FiniteSets, SequencesExt, FiniteSetsExt

CONSTANTS
    Objects,      \* addresses malloc gives out
    Empty,        \* moonbit_empty_ref_array: static, its count is negative
    Null,
    MaxSlots,     \* bound: references in an object
    MaxOwned      \* bound: references the program holds to one object

ASSUME RefCountAssumption ==
    /\ IsFiniteSet(Objects) /\ Empty \notin Objects /\ Null \notin Objects \cup {Empty}
    /\ MaxSlots \in Nat /\ MaxOwned \in Nat \ {0}

VARIABLES
    shape,        \* of each object: "free", "block", "array", "external"
    rc, slots,    \* the reference count; the children
    owned,        \* references the program holds
    todo,         \* references the call in progress is giving up
    last,         \* what the call does after that
    fault         \* whether the call touched freed memory

heapVars == <<shape, rc, slots, owned, todo, last, fault>>

Live == {o \in Objects : shape[o] # "free"}
Static == {Empty}
Nothing == [op |-> "nothing"]

HeapInit ==
    /\ shape = [o \in Objects \cup Static |-> IF o = Empty THEN "array" ELSE "free"]
    /\ rc = [o \in Objects \cup Static |-> IF o = Empty THEN -1 ELSE 0]
    /\ slots = [o \in Objects \cup Static |-> <<>>]
    /\ owned = [o \in Objects |-> 0]
    /\ todo = <<>> /\ last = Nothing /\ fault = "none"

(* raw_rc_is_dynamic and raw_rc_is_shared; a null reference is neither.    *)
is_dynamic(o) == o # Null /\ rc[o] >= 1
is_shared(o) == o # Null /\ rc[o] >= 2

Occurs(o, s) == Cardinality({i \in DOMAIN s : s[i] = o})
Repeat(s, n) == [i \in 1..(n * Len(s)) |-> s[((i - 1) % Len(s)) + 1]]

\* The program passes the references in args, and gets those in results.
Pass(args, results) ==
    /\ todo = <<>> /\ last = Nothing /\ fault = "none"
    /\ \A o \in Objects : Occurs(o, args) <= owned[o]
    /\ owned' = [o \in Objects |-> owned[o] - Occurs(o, args) + Occurs(o, results)]
    /\ \A o \in Objects : owned'[o] <= MaxOwned

malloc(a, k, children) ==
    /\ shape[a] = "free"
    /\ shape' = [shape EXCEPT ![a] = k]
    /\ slots' = [slots EXCEPT ![a] = children]

decref_op(o) == [op |-> "decref", obj |-> o]
Decrefs(s) == [i \in DOMAIN s |-> decref_op(s[i])]
drop_op(at, o, p, i) == [op |-> "drop", at |-> at, obj |-> o, parent |-> p, index |-> i]

Part(a, from, n) == SubSeq(slots[a], from + 1, from + n)
Rest(a, from, n) == SubSeq(slots[a], 1, from) \o SubSeq(slots[a], from + n + 1, Len(slots[a]))

\* What a call does last: counted are the elements it has counted for dst, or
\* moves there from a source that it takes apart.
copy_op(dst, doff, src, soff, n, moved) ==
    [op |-> "copy", dst |-> dst, doff |-> doff, src |-> src, soff |-> soff, len |-> n,
     moved |-> moved, counted |-> Part(src, soff, n)]
free_op(src, dst) == [op |-> "free", src |-> src, dst |-> dst]
fill_op(size, v, doff, src, soff, n) ==
    [op |-> "fill", size |-> size, value |-> v,
     doff |-> doff, src |-> src, soff |-> soff, len |-> n]

-----------------------------------------------------------------------------
(* What the program calls.                                                 *)

Values == Live \cup {Null}
Children == UNION {[1..n -> Values] : n \in 1..MaxSlots}

(* moonbit_malloc, and the stores that initialise the block. *)
moonbit_malloc(a, children) ==
    /\ Pass(children, <<a>>) /\ malloc(a, "block", children)
    /\ rc' = [rc EXCEPT ![a] = 1]
    /\ UNCHANGED <<todo, last, fault>>

(* An object whose finalizer releases what its payload refers to. *)
moonbit_make_external_object(a, payload) ==
    /\ Pass(<<payload>>, <<a>>) /\ malloc(a, "external", <<payload>>)
    /\ rc' = [rc EXCEPT ![a] = 1]
    /\ UNCHANGED <<todo, last, fault>>

(* moonbit_incref of a child that was read from an object the program has. *)
moonbit_incref(o, i) ==
    /\ owned[o] > 0 /\ shape[o] # "external" /\ i \in DOMAIN slots[o] /\ slots[o][i] # Null
    /\ Pass(<<>>, <<slots[o][i]>>)
    /\ rc' = [rc EXCEPT ![slots[o][i]] = IF is_dynamic(slots[o][i]) THEN @ + 1 ELSE @]
    /\ UNCHANGED <<shape, slots, todo, last, fault>>

moonbit_decref(o) ==
    /\ Pass(<<o>>, <<>>)
    /\ todo' = <<decref_op(o)>>
    /\ UNCHANGED <<shape, rc, slots, last, fault>>

(* n copies of a reference where there was one; static counts stay.  The   *)
(* counts after every reference in s was increased n times.                *)
AddTo(count, o, n) == IF o # Null /\ count[o] > 0 THEN [count EXCEPT ![o] = @ + n - 1] ELSE count
Increfs(s, count, n) ==
    [o \in DOMAIN count |-> IF count[o] > 0 THEN count[o] + n * Occurs(o, s) ELSE count[o]]

(* moonbit_make_ref_array; an empty array is the static one, and consumes  *)
(* the value.                                                              *)
moonbit_make_ref_array(a, len, value) ==
    \/ /\ len = 0 /\ Pass(<<value>>, <<>>)
       /\ todo' = Decrefs(<<value>>)
       /\ UNCHANGED <<shape, rc, slots, last, fault>>
    \/ /\ len > 0 /\ Pass(<<value>>, <<a>>)
       /\ malloc(a, "array", Repeat(<<value>>, len))
       /\ rc' = AddTo([rc EXCEPT ![a] = 1], value, len)
       /\ UNCHANGED <<todo, last, fault>>

(* moonbit_update_ref_valtype_rc, then moonbit_make_ref_valtype_array: len *)
(* copies of a value that holds several references; its children, like     *)
(* those of a block, are numbered through.                                 *)
moonbit_make_ref_valtype_array(a, len, value) ==
    \/ /\ len = 0 /\ Pass(value, <<>>)
       /\ todo' = Decrefs(value)
       /\ UNCHANGED <<shape, rc, slots, last, fault>>
    \/ /\ len > 0 /\ Pass(value, <<a>>)
       /\ malloc(a, "block", Repeat(value, len))
       /\ rc' = Increfs(value, [rc EXCEPT ![a] = 1], len - 1)
       /\ UNCHANGED <<todo, last, fault>>

Arrays == {o \in Live : shape[o] = "array"} \cup Static

(* Mutant of moonbit_unsafe_ref_array_blit: the elements of a source that  *)
(* goes on living are copied without being counted again.                  *)
BlitUncounted(dst, doff, src, soff, len) ==
    /\ doff + len <= Len(slots[dst]) /\ soff + len <= Len(slots[src])
    /\ Pass(<<dst, src>>, <<>>)
    /\ todo' = Decrefs(Part(dst, doff, len)) \o <<decref_op(src)>>
    /\ last' = copy_op(dst, doff, src, soff, len, FALSE)
    /\ UNCHANGED <<shape, rc, slots, fault>>

(* moonbit_unsafe_ref_array_blit, for the ranges it does not panic on.     *)
(* Both arrays are consumed.  A source that only the call refers to is     *)
(* taken apart, its elements moved; otherwise they are counted again, with *)
(* the call's reference to the source given up before anything else.       *)
moonbit_unsafe_ref_array_blit(dst, doff, src, soff, len) ==
    /\ doff + len <= Len(slots[dst]) /\ soff + len <= Len(slots[src])
    /\ Pass(<<dst, src>>, <<>>)
    /\ LET moved == is_dynamic(src) /\ ~is_shared(src)
       IN /\ last' = copy_op(dst, doff, src, soff, len, moved)
          /\ IF moved
             THEN /\ todo' = Decrefs(Rest(src, soff, len)) \o Decrefs(Part(dst, doff, len))
                  /\ UNCHANGED rc
             ELSE /\ todo' = Decrefs(Part(dst, doff, len))
                  /\ rc' = Increfs(Part(src, soff, len),
                                   [rc EXCEPT ![src] = IF is_shared(src) THEN @ - 1 ELSE @], 1)
    /\ UNCHANGED <<shape, slots, fault>>

(* moonbit_make_ref_array_with_blit: a new array, part of it copied from   *)
(* src, the rest filled with value, which is given up first when there is  *)
(* no rest.                                                                *)
moonbit_make_ref_array_with_blit(size, value, src, soff, doff, len) ==
    /\ Live # Objects /\ size > 0
    /\ doff + len <= size /\ soff + len <= Len(slots[src])
    /\ Pass(<<value, src>>, <<>>)
    /\ todo' = IF size = len THEN Decrefs(<<value>>) ELSE <<>>
    /\ last' = fill_op(size, value, doff, src, soff, len)
    /\ UNCHANGED <<shape, rc, slots, fault>>

-----------------------------------------------------------------------------
(* The steps of a call.                                                    *)

Now == Head(todo)
Doing(op) == todo # <<>> /\ fault = "none" /\ Now.op = op
Finishing(op) == todo = <<>> /\ fault = "none" /\ last.op = op

\* free of an object; free of a freed one is a fault.
free(o) ==
    /\ shape' = [shape EXCEPT ![o] = "free"]
    /\ slots' = [slots EXCEPT ![o] = <<>>]
    /\ rc' = [rc EXCEPT ![o] = 0]

Freed(o) == o \in Objects /\ shape[o] = "free"

Decref ==
    /\ Doing("decref") /\ ~Freed(Now.obj)
    /\ LET o == Now.obj
       IN \/ /\ is_dynamic(o) /\ ~is_shared(o)
             /\ todo' = <<drop_op("new", o, Null, 0)>> \o Tail(todo) /\ UNCHANGED rc
          \/ /\ is_shared(o)
             /\ rc' = [rc EXCEPT ![o] = @ - 1] /\ todo' = Tail(todo)
          \/ /\ ~is_dynamic(o)
             /\ todo' = Tail(todo) /\ UNCHANGED rc
    /\ UNCHANGED <<shape, slots, owned, last, fault>>

(* memcpy or memmove between the arrays. *)
Copy ==
    /\ Finishing("copy") /\ ~Freed(last.src) /\ ~Freed(last.dst)
    /\ slots' = [slots EXCEPT ![last.dst] =
                    [i \in DOMAIN @ |-> IF i > last.doff /\ i <= last.doff + last.len
                                        THEN slots[last.src][i - last.doff + last.soff] ELSE @[i]]]
    /\ IF last.moved THEN last' = free_op(last.src, last.dst) /\ UNCHANGED todo
       ELSE todo' = <<decref_op(last.dst)>> /\ last' = Nothing
    /\ UNCHANGED <<shape, rc, owned, fault>>

(* The new array is filled; its source is taken apart or counted again.    *)
Fill(a) ==
    /\ Finishing("fill") /\ ~Freed(last.src)
    /\ LET src == last.src
           fill == last.size - last.len
           counts == [IF fill > 1 THEN AddTo(rc, last.value, fill) ELSE rc EXCEPT ![a] = 1]
       IN /\ malloc(a, "array", [i \in 1..last.size |->
                                IF i > last.doff /\ i <= last.doff + last.len
                                THEN slots[src][i - last.doff + last.soff] ELSE last.value])
          /\ IF counts[src] = 1
             THEN /\ rc' = counts
                  /\ todo' = Decrefs(Rest(src, last.soff, last.len))
                  /\ last' = free_op(src, Null)
             ELSE /\ rc' = Increfs(Part(src, last.soff, last.len),
                                   [counts EXCEPT ![src] = IF @ >= 2 THEN @ - 1 ELSE @], 1)
                  /\ last' = Nothing /\ UNCHANGED todo
    /\ owned' = [owned EXCEPT ![a] = 1]
    /\ UNCHANGED fault

FreeSource ==
    /\ Finishing("free") /\ ~Freed(last.src)
    /\ free(last.src)
    /\ todo' = IF last.dst = Null THEN <<>> ELSE <<decref_op(last.dst)>>
    /\ last' = Nothing
    /\ UNCHANGED <<owned, fault>>

(* The call is about to touch memory it has freed; what happens then is    *)
(* undefined, and the model ends here.  A blit whose source is gone when   *)
(* it copies is told apart from everything else.                           *)
TouchFreed ==
    /\ \/ Doing("decref") /\ Freed(Now.obj)
       \/ Doing("drop") /\ Freed(Now.obj)
       \/ Doing("drop") /\ Now.at = "back" /\ Now.parent # Null /\ Freed(Now.parent)
       \/ /\ Doing("drop") /\ Now.at = "children" /\ Now.index < Len(slots[Now.obj])
          /\ Freed(slots[Now.obj][Now.index + 1])
       \/ Finishing("copy") /\ (Freed(last.src) \/ Freed(last.dst))
       \/ Finishing("free") /\ Freed(last.src)
       \/ Finishing("fill") /\ Freed(last.src)
    /\ fault' = IF Finishing("copy") /\ ~Freed(last.dst) THEN "blit source" ELSE "other"
    /\ UNCHANGED <<shape, rc, slots, owned, todo, last>>

-----------------------------------------------------------------------------
(* moonbit_drop_object                                                     *)
Dropping(at) == Doing("drop") /\ Now.at = at /\ ~Freed(Now.obj)
Continue(op) == todo' = <<op>> \o Tail(todo)

(* handle_new_object: an external object is finalized and has no children. *)
handle_new_object ==
    /\ Dropping("new")
    /\ LET o == Now.obj
       IN \/ /\ shape[o] = "external"
             /\ todo' = Decrefs(slots[o]) \o
                        <<drop_op("back", o, Now.parent, Len(slots[o]))>> \o Tail(todo)
          \/ /\ shape[o] # "external"
             /\ Continue(drop_op(IF slots[o] = <<>> THEN "back" ELSE "children", o, Now.parent, 0))
    /\ UNCHANGED <<shape, rc, slots, owned, last, fault>>

(* Mutant of back_to_parent: the walk goes on with the child it came from. *)
BackToSameChild ==
    /\ Dropping("back") /\ (Now.parent = Null \/ ~Freed(Now.parent))
    /\ free(Now.obj)
    /\ LET p == Now.parent
       IN IF p = Null THEN todo' = Tail(todo)
          ELSE Continue(drop_op("children", p, slots[p][rc[p] + 1], rc[p]))
    /\ UNCHANGED <<owned, last, fault>>

(* back_to_parent: the object is freed, and the state of the walk is read  *)
(* back from the parent.                                                   *)
back_to_parent ==
    /\ Dropping("back") /\ (Now.parent = Null \/ ~Freed(Now.parent))
    /\ free(Now.obj)
    /\ LET p == Now.parent
       IN IF p = Null THEN todo' = Tail(todo)
          ELSE Continue(drop_op("children", p, slots[p][rc[p] + 1], rc[p] + 1))
    /\ UNCHANGED <<owned, last, fault>>

(* Mutant of process_child: a child that others refer to keeps its count.  *)
ChildKeepsCount ==
    /\ Dropping("children") /\ Now.index < Len(slots[Now.obj])
    /\ LET o == Now.obj
           next == slots[o][Now.index + 1]
           dying == is_dynamic(next) /\ ~is_shared(next)
       IN /\ ~Freed(next)
          /\ \/ /\ dying = FALSE
                /\ Continue(drop_op("children", o, Now.parent, Now.index + 1))
                /\ UNCHANGED <<shape, rc, slots>>
             \/ /\ dying = TRUE /\ Now.index + 1 < Len(slots[o])
                /\ rc' = [rc EXCEPT ![o] = Now.index]
                /\ slots' = [slots EXCEPT ![o] = [@ EXCEPT ![Now.index + 1] = Now.parent]]
                /\ Continue(drop_op("new", next, o, 0))
                /\ UNCHANGED shape
             \/ /\ dying = TRUE /\ Now.index + 1 = Len(slots[o])
                /\ free(o) /\ Continue(drop_op("new", next, Now.parent, 0))
    /\ UNCHANGED <<owned, last, fault>>

(* process_children, one child: null and static ones are passed over, a    *)
(* shared one loses a reference, and the walk goes down into one that is   *)
(* dead: from the last child of its object it never comes back.            *)
process_child ==
    /\ Dropping("children") /\ Now.index < Len(slots[Now.obj])
    /\ LET o == Now.obj
           i == Now.index
           next == slots[o][i + 1]
           NextChild == Continue(drop_op("children", o, Now.parent, i + 1))
       IN /\ ~Freed(next)
          /\ \/ /\ ~is_dynamic(next)
                /\ NextChild /\ UNCHANGED <<shape, rc, slots>>
             \/ /\ is_shared(next)
                /\ rc' = [rc EXCEPT ![next] = @ - 1]
                /\ NextChild /\ UNCHANGED <<shape, slots>>
             \/ /\ is_dynamic(next) /\ ~is_shared(next)
                /\ IF i + 1 < Len(slots[o])
                   THEN /\ rc' = [rc EXCEPT ![o] = i]
                        /\ slots' = [slots EXCEPT ![o] = [@ EXCEPT ![i + 1] = Now.parent]]
                        /\ Continue(drop_op("new", next, o, 0))
                        /\ UNCHANGED shape
                   ELSE /\ free(o)
                        /\ Continue(drop_op("new", next, Now.parent, 0))
    /\ UNCHANGED <<owned, last, fault>>

process_children_done ==
    /\ Dropping("children") /\ Now.index = Len(slots[Now.obj])
    /\ Continue(drop_op("back", Now.obj, Now.parent, Now.index))
    /\ UNCHANGED <<shape, rc, slots, owned, last, fault>>

-----------------------------------------------------------------------------
Ranges == {r \in (0..MaxSlots) \X (0..MaxSlots) \X (0..MaxSlots) :
              r[3] = 0 => r[1] = 0 /\ r[2] = 0}

Program ==
    /\ todo = <<>> /\ last = Nothing
    /\ \/ \E a \in Objects \ Live : \E c \in Children :
             \/ moonbit_malloc(a, c)
             \/ Len(c) = 1 /\ moonbit_make_external_object(a, c[1])
             \/ \E n \in 0..MaxSlots :
                   \/ Len(c) = 1 /\ moonbit_make_ref_array(a, n, c[1])
                   \/ n * Len(c) <= MaxSlots /\ moonbit_make_ref_valtype_array(a, n, c)
       \/ \E o \in Live : moonbit_decref(o) \/ \E i \in 1..MaxSlots : moonbit_incref(o, i)
       \/ \E src \in Arrays, r \in Ranges :
             \/ \E dst \in Arrays : moonbit_unsafe_ref_array_blit(dst, r[1], src, r[2], r[3])
             \/ \E size \in 1..MaxSlots, v \in Values :
                   moonbit_make_ref_array_with_blit(size, v, src, r[2], r[1], r[3])

Runtime ==
    \/ Decref \/ Copy \/ FreeSource \/ TouchFreed \/ (\E a \in Objects \ Live : Fill(a))
    \/ handle_new_object \/ back_to_parent \/ process_child \/ process_children_done

HeapNext == Program \/ Runtime

HeapSpec == HeapInit /\ [][HeapNext]_heapVars

-----------------------------------------------------------------------------
HeapTypeOK ==
    /\ shape \in [Objects \cup Static -> {"free", "block", "array", "external"}]
    /\ rc \in [Objects \cup Static -> Int]
    /\ slots \in [Objects \cup Static -> Seq(Objects \cup {Null})]
    /\ \A o \in Objects \cup Static : Len(slots[o]) <= MaxSlots
    /\ owned \in [Objects -> 0..MaxOwned]
    /\ fault \in {"none", "blit source", "other"}

Drops == {todo[i] : i \in {k \in DOMAIN todo : todo[k].op = "drop"}}
Current == {d.obj : d \in Drops}

\* The objects a drop has suspended: the parents of those it is at, and the
\* parents of these, which it finds in their slots.
Link(o) == slots[o][rc[o] + 1]
Upward(S) ==
    /\ \A d \in Drops : d.parent \in S \cup {Null}
    /\ \A o \in S : rc[o] + 1 \in DOMAIN slots[o] => Link(o) \in S \cup {Null}
Suspended == {o \in Live : \A S \in SUBSET Live : Upward(S) => o \in S}

\* Slots the call has taken over: a source it takes apart, and the range it
\* is going to overwrite.
TakenOver(o, i) ==
    \/ last.op = "copy" /\ last.moved /\ o = last.src
    \/ last.op = "copy" /\ o = last.dst /\ i > last.doff /\ i <= last.doff + last.len
    \/ last.op = "free" /\ o = last.src

\* The references an object holds: all of them, or those a drop has not come
\* to.
Holds(o, suspended) ==
    {i \in DOMAIN slots[o] :
        /\ o \in suspended => i > rc[o] + 1
        /\ \A d \in Drops : d.obj = o => i > d.index
        /\ ~TakenOver(o, i)}
Held(o, suspended) ==
    {s \in Live \X (1..MaxSlots) : s[2] \in Holds(s[1], suspended) /\ slots[s[1]][s[2]] = o}

\* The references a call has to give up, or to store, when it is done with todo.
One(b) == IF b THEN 1 ELSE 0
Outstanding(o) ==
    IF last.op = "copy"
    THEN One(last.dst = o) + One(last.moved /\ last.src = o) + Occurs(o, last.counted)
    ELSE IF last.op = "free" THEN One(last.src = o) + One(last.dst = o)
    ELSE IF last.op = "fill" THEN One(last.src = o) + One(last.size # last.len /\ last.value = o)
    ELSE 0

References(o, suspended) ==
    owned[o] + Occurs(decref_op(o), todo) + Outstanding(o) + Cardinality(Held(o, suspended))

\* At every step of every call, in the middle of any drop, nested or not, the
\* count of an object that is not being dropped is the number of references to
\* it: what the program owns, what live objects hold, what the call has still
\* to give up or to store.  So an object dies exactly when its last reference
\* goes, shared children of dying parents included, whatever the drop has
\* written over rc and slots.
CountsRight ==
    LET suspended == Suspended
    IN \A o \in Live \ (suspended \cup Current) :
          rc[o] = References(o, suspended) /\ rc[o] > 0

\* No call reads, counts or frees what it has freed, but for one: a blit
\* whose source is kept alive by nothing but an element it overwrites.
FreedIsNotTouched == fault # "other"

\* The same without the exception: a blit copies from an array that is there.
SourceOutlivesBlit == fault # "blit source"

\* Every call returns: each of its steps brings it nearer to its end, in a
\* graph of any shape, with cycles and nested drops.
Weight(d) ==
    CASE d.op = "decref" -> 4
      [] d.op = "drop" -> (CASE d.at = "new" -> 3 [] d.at = "children" -> 2 [] OTHER -> 1)
      [] d.op = "fill" -> 8 * (MaxSlots + 1) [] d.op = "copy" -> 6 + 3 * d.len
      [] d.op = "free" -> 5 [] OTHER -> 0
Distance ==
    LET suspended == Suspended
    IN 3 * MapThenSumSet(LAMBDA o : 1 + Cardinality(Holds(o, suspended)), Live)
       + FoldSeq(LAMBDA d, n : n + Weight(d), Weight(last), todo)
EachStepShortens ==
    [][(todo # <<>> \/ last # Nothing) /\ fault' = "none" => Distance' < Distance]_heapVars
=============================================================================
