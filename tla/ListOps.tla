------------------------------ MODULE ListOps ------------------------------
(***************************************************************************)
(* What the operations of src/linkedlist.h do to the list of entries they  *)
(* stand for, as operators on sequences.  They mean what the code does as  *)
(* long as an entry handed to a push or an insert is in no list yet, which *)
(* linkedlist.h asserts in part and LinkedList.tla relies on in full.      *)
(***************************************************************************)
EXTENDS Integers, SequencesExt

ll_push_back(list, value) == Append(list, value)

ll_push_front(list, value) == <<value>> \o list

ll_pop_front(list) == Tail(list)

ll_peek_head(list) == Head(list)

\* The position ll_sorted_insert puts value at: before the first entry whose
\* key is not lower than key[value], at the end when there is none.
InsertPosition(list, value, key) ==
  LET notLower == {i \in 1..Len(list) : key[value] <= key[list[i]]}
  IN  IF notLower = {} THEN Len(list) + 1 ELSE Min(notLower)

ll_sorted_insert(list, value, key) ==
  InsertAt(list, InsertPosition(list, value, key), value)

ll_remove(list, value) == RemoveFirst(list, value)
=============================================================================
