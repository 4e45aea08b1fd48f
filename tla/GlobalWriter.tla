----------------------------- MODULE GlobalWriter ---------------------------
(***************************************************************************)
(* Two algorithms of the global writer: how store merges the containers of *)
(* kinds that share an id space, and how it numbers the members of a       *)
(* comm_group, with the way back in the callback of the reader.            *)
(***************************************************************************)
EXTENDS Naturals, Sequences

-----------------------------------------------------------------------------
(* The merge.  There are n iterators, numbered from 0.                     *)

(* refs[i] has the references of the definitions in container i, of which  *)
(* the iterator has passed at[i].                                          *)
AtDefinition(refs, at, i) == at[i] < Len(refs[i])

RefAt(refs, at, i) == refs[i][at[i] + 1]

(* What the iterators are compared by; end is the greatest reference.      *)
KeyAt(refs, at, end, i) ==
  IF AtDefinition(refs, at, i) THEN RefAt(refs, at, i) ELSE end

(* The iterator that the recursion of apply_to_tuple_min has chosen after  *)
(* k comparisons: it starts with the first and goes from the last to the   *)
(* second.                                                                 *)
Minimum(keys, n) ==
  LET min[k \in Nat] ==
        IF k = 0 THEN 0
        ELSE IF keys[min[k - 1]] < keys[n - k] THEN min[k - 1] ELSE n - k
  IN min

Chosen(keys, n) == Minimum(keys, n)[n - 1]

(* store stores the definition of one iterator and moves it on, while an   *)
(* iterator is at a definition.                                            *)
NextToStore(refs, at, n, end) ==
  Chosen([i \in 0 .. n - 1 |-> KeyAt(refs, at, end, i)], n)

AfterStore(refs, at, n, end) ==
  [at EXCEPT ![NextToStore(refs, at, n, end)] = @ + 1]

-----------------------------------------------------------------------------
(* The members of a comm_group.  A group has a paradigm and members, which *)
(* are references of locations.                                            *)

HasMember(group, m) == \E j \in 1 .. Len(group.members) : group.members[j] = m

(* The member's first position in the group, from 0.  One that is not in   *)
(* the group stays as it is.                                               *)
PositionIn(group, m) ==
  IF HasMember(group, m)
    THEN (CHOOSE j \in 1 .. Len(group.members) :
            /\ group.members[j] = m
            /\ \A i \in 1 .. j - 1 : group.members[i] # m) - 1
    ELSE m

(* The groups are those of all<comm_locations_group>(): the writer takes   *)
(* the last one with the paradigm, ...                                     *)
LastOf(groups, paradigm) ==
  LET i == CHOOSE i \in 1 .. Len(groups) :
             /\ groups[i].paradigm = paradigm
             /\ \A j \in i + 1 .. Len(groups) : groups[j].paradigm # paradigm
  IN groups[i]

(* ... the reader asserts that it is the only one.                         *)
OnlyOf(groups, paradigm) ==
  LET i == CHOOSE i \in 1 .. Len(groups) : groups[i].paradigm = paradigm
  IN groups[i]

StoredMembers(groups, data) ==
  [i \in 1 .. Len(data.members) |->
     PositionIn(LastOf(groups, data.paradigm), data.members[i])]

ReadMembers(groups, paradigm, stored) ==
  [i \in 1 .. Len(stored) |->
     OnlyOf(groups, paradigm).members[stored[i] + 1]]
=============================================================================
