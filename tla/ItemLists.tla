------------------------------- MODULE ItemLists -------------------------------
(***************************************************************************)
(* What intrusive_list promises: lists of items, each in one list at most, *)
(* with both ends open, removal from anywhere, and one list put before or  *)
(* after another.                                                          *)
(***************************************************************************)
EXTENDS SequencesExt

CONSTANTS Items, Lists

VARIABLE lists               \* the items of each list, in order

Listed == UNION {ToSet(lists[l]) : l \in Lists}

Init == lists = [l \in Lists |-> <<>>]

Insert(l, i) == /\ i \notin Listed
                /\ lists' \in {[lists EXCEPT ![l] = <<i>> \o @],
                               [lists EXCEPT ![l] = Append(@, i)]}

TakeOut(l) == /\ lists[l] # <<>>
              /\ \E n \in DOMAIN lists[l] : lists' = [lists EXCEPT ![l] = RemoveAt(@, n)]

(* The other list is left empty. *)
Join(l, other) == /\ l # other
                  /\ lists' \in {[lists EXCEPT ![l] = @ \o lists[other], ![other] = <<>>],
                                 [lists EXCEPT ![l] = lists[other] \o @, ![other] = <<>>]}

Next == \E l \in Lists : \/ \E i \in Items : Insert(l, i)
                         \/ TakeOut(l)
                         \/ \E other \in Lists : Join(l, other)

Spec == Init /\ [][Next]_lists
=============================================================================
