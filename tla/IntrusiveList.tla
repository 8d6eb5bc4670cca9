----------------------------- MODULE IntrusiveList -----------------------------
(***************************************************************************)
(* intrusive_list: head and tail, and a pointer to the next and to the     *)
(* previous item in the items themselves.  Pointers of items that were     *)
(* taken out keep what they held.                                          *)
(***************************************************************************)
EXTENDS Naturals, FiniteSets, SequencesExt

CONSTANTS Items, Lists

VARIABLES head, tail,        \* head_ and tail_ of each list
          next, prev         \* item->*Next and item->*Prev

vars == <<head, tail, next, prev>>

Null == "nullptr"

Init == /\ head = [l \in Lists |-> Null] /\ tail = [l \in Lists |-> Null]
        /\ next = [i \in Items |-> Null] /\ prev = [i \in Items |-> Null]

Empty(l) == head[l] = Null

(* The items from i on; cut off after as many as there are *)
Walk(link, i) ==
    LET from[n \in 0..Cardinality(Items)] ==
            IF n = 0 THEN <<>>
            ELSE LET rest == from[n - 1]
                     j == IF rest = <<>> THEN i ELSE link[Last(rest)]
                 IN  IF j = Null THEN rest ELSE Append(rest, j)
    IN  from[Cardinality(Items)]

Listed == UNION {ToSet(Walk(next, head[l])) : l \in Lists}

-----------------------------------------------------------------------------
(* The caller inserts an item that is in no list.                          *)

push_front(l, i) ==
    /\ i \notin Listed
    /\ next' = [next EXCEPT ![i] = head[l]]
    /\ prev' = [j \in Items |-> IF j = i THEN Null ELSE IF j = head[l] THEN i ELSE prev[j]]
    /\ tail' = IF Empty(l) THEN [tail EXCEPT ![l] = i] ELSE tail
    /\ head' = [head EXCEPT ![l] = i]

push_back(l, i) ==
    /\ i \notin Listed
    /\ prev' = [prev EXCEPT ![i] = tail[l]]
    /\ next' = [j \in Items |-> IF j = i THEN Null ELSE IF j = tail[l] THEN i ELSE next[j]]
    /\ head' = IF tail[l] = Null THEN [head EXCEPT ![l] = i] ELSE head
    /\ tail' = [tail EXCEPT ![l] = i]

pop_front(l) ==
    /\ ~Empty(l)
    /\ LET second == next[head[l]] IN
       /\ head' = [head EXCEPT ![l] = second]
       /\ IF second = Null THEN tail' = [tail EXCEPT ![l] = Null] /\ UNCHANGED prev
                           ELSE prev' = [prev EXCEPT ![second] = Null] /\ UNCHANGED tail
    /\ UNCHANGED next

pop_back(l) ==
    /\ ~Empty(l)
    /\ LET last == prev[tail[l]] IN
       /\ tail' = [tail EXCEPT ![l] = last]
       /\ IF last = Null THEN head' = [head EXCEPT ![l] = Null] /\ UNCHANGED next
                         ELSE next' = [next EXCEPT ![last] = Null] /\ UNCHANGED head
    /\ UNCHANGED prev

(* The item is known to be in the list by its address only. *)
remove(l, i) ==
    /\ i \in ToSet(Walk(next, head[l]))
    /\ IF prev[i] # Null THEN next' = [next EXCEPT ![prev[i]] = next[i]] /\ UNCHANGED head
                         ELSE head' = [head EXCEPT ![l] = next[i]] /\ UNCHANGED next
    /\ IF next[i] # Null THEN prev' = [prev EXCEPT ![next[i]] = prev[i]] /\ UNCHANGED tail
                         ELSE tail' = [tail EXCEPT ![l] = prev[i]] /\ UNCHANGED prev

(* The other list is emptied when it is moved into the parameter.          *)
Move(l, other, h, t) == /\ head' = [head EXCEPT ![l] = h, ![other] = Null]
                        /\ tail' = [tail EXCEPT ![l] = t, ![other] = Null]

TakeOver(l, other) == /\ Empty(l)
                      /\ Move(l, other, head[other], tail[other])
                      /\ UNCHANGED <<next, prev>>

(* Mutant: the first item that is appended does not point back. *)
append_one_way(l, other) ==
    /\ l # other
    /\ \/ TakeOver(l, other)
       \/ /\ ~Empty(l) /\ ~Empty(other)
          /\ next' = [next EXCEPT ![tail[l]] = head[other]]
          /\ UNCHANGED prev
          /\ Move(l, other, head[l], tail[other])

append(l, other) ==
    /\ l # other
    /\ \/ TakeOver(l, other)
       \/ /\ ~Empty(l) /\ ~Empty(other)
          /\ next' = [next EXCEPT ![tail[l]] = head[other]]
          /\ prev' = [prev EXCEPT ![head[other]] = tail[l]]
          /\ Move(l, other, head[l], tail[other])

prepend(l, other) ==
    /\ l # other
    /\ \/ TakeOver(l, other)
       \/ /\ ~Empty(l) /\ ~Empty(other)
          /\ next' = [next EXCEPT ![tail[other]] = head[l]]
          /\ prev' = [prev EXCEPT ![head[l]] = tail[other]]
          /\ Move(l, other, head[other], tail[l])

Next == \E l \in Lists :
           \/ \E i \in Items : push_front(l, i) \/ push_back(l, i) \/ remove(l, i)
           \/ pop_front(l) \/ pop_back(l)
           \/ \E other \in Lists : append(l, other) \/ prepend(l, other)

Spec == Init /\ [][Next]_vars

-----------------------------------------------------------------------------
(* Properties *)

(* The pointers point to items. *)
TypeOk == /\ {head, tail} \subseteq [Lists -> Items \cup {Null}]
          /\ {next, prev} \subseteq [Items -> Items \cup {Null}]

(* The items of a list, if they are the same in both directions *)
Content(l) == LET forth == Walk(next, head[l])
                  back == Walk(prev, tail[l])
              IN  IF forth = Reverse(back) THEN forth ELSE <<Null>>

(* Whatever stale pointers there are, the lists are the sequences that the *)
(* operations make of them, forwards and backwards.                        *)
Abstract == INSTANCE ItemLists WITH lists <- [l \in Lists |-> Content(l)]
ImplementsList == Abstract!Spec
=============================================================================
