----------------------------- MODULE ItemStore -----------------------------
(***************************************************************************)
(* What Items (src/fzx/items.hpp) promises: a list that grows at its end,  *)
(* whose copies are values.  The owner appends; a copy is a snapshot that  *)
(* changes only when it is replaced or dropped, however many share it.     *)
(***************************************************************************)
EXTENDS Sequences

CONSTANTS
  Texts,       \* what may be pushed
  Holders,     \* the variables of type Items
  Owner,       \* the one that pushes
  SourceOf(_)  \* SourceOf(h): the one h is a copy of

VARIABLE list  \* list[h]: the items of h

Init == list = [h \in Holders |-> <<>>]

Push(s) == list' = [list EXCEPT ![Owner] = Append(@, s)]

Copy(h) == list' = [list EXCEPT ![h] = list[SourceOf(h)]]

Drop(h) == list' = [list EXCEPT ![h] = <<>>]

Next ==
  \/ \E s \in Texts : Push(s)
  \/ \E h \in Holders \ {Owner} : Copy(h) \/ Drop(h)

Spec == Init /\ [][Next]_list
=============================================================================
