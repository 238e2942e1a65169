------------------------------- MODULE KLists -------------------------------
(***************************************************************************)
(* The kernel's intrusive priority list, k/list.h, as pure operators.      *)
(*                                                                         *)
(* A List holds one circular sublist per priority level; level 0 is served *)
(* first.  The model keeps each sublist as the sequence of owners found by *)
(* walking it from the root, so a List is a function from priority levels  *)
(* to sequences.  The pointers of Itemoid (next, prev, container) are      *)
(* abstracted to membership: an Item is linked exactly when its owner      *)
(* occurs in a list.                                                       *)
(***************************************************************************)
EXTENDS Naturals, SequencesExt

CONSTANT NPrio                  \* config::n_priorities

ASSUME NPrioAssumption == NPrio \in Nat \ {0}

Prio == 0 .. (NPrio - 1)

\* The lists over a set S of owners.
List(S) == [Prio -> Seq(S)]

EmptyList == [p \in Prio |-> << >>]

\* The owners linked into a list.
Linked(l) == UNION {Range(l[p]) : p \in Prio}

\* List::is_empty: every root is linked to itself.
IsEmpty(l) == \A p \in Prio : l[p] = << >>

\* List::insert: append to the sublist of the owner's priority.
Insert(l, x, p) == [l EXCEPT ![p] = Append(@, x)]

\* Item::unlink: the neighbours of x are joined, whichever sublist holds x.
Unlink(l, x) == [p \in Prio |-> RemoveFirst(l[p], x)]

\* Item::reinsert: unlink, then insert at the owner's present priority.
Reinsert(l, x, p) == Insert(Unlink(l, x), x, p)

\* The first nonempty level, the one List::peek and List::take stop at.
TopPrio(l) == CHOOSE p \in Prio : /\ l[p] # << >>
                                  /\ \A q \in Prio : q < p => l[q] = << >>

\* List::peek: the first item of the first nonempty level.  List::take is
\* Peek followed by Unlink of what it returned.
Peek(l) == Head(l[TopPrio(l)])

(***************************************************************************)
(* What it means for a list to be in order: no owner is linked twice, and  *)
(* each is filed under its own priority.                                   *)
(***************************************************************************)
NoDuplicates(l) ==
  \A p, q \in Prio : \A i \in DOMAIN l[p], j \in DOMAIN l[q] :
    l[p][i] = l[q][j] => p = q /\ i = j

FiledUnder(l, level) ==
  \A p \in Prio : \A x \in Range(l[p]) : level[x] = p

Orderly(l, level) == NoDuplicates(l) /\ FiledUnder(l, level)
=============================================================================
