---------------------------- MODULE MCGlobalWriter --------------------------
(***************************************************************************)
(* The algorithms of the global writer, compared with what they are meant  *)
(* to compute for all small inputs.                                        *)
(***************************************************************************)
EXTENDS GlobalWriter, FiniteSets
LOCAL INSTANCE SequencesExt

Containers == [0 .. 2 -> {SetToSortSeq(S, <) : S \in SUBSET (0 .. 2)}]

NumberOf(refs) == Len(refs[0]) + Len(refs[1]) + Len(refs[2])

(* The references in the order in which store takes them.                  *)
Merged(refs) ==
  LET at[k \in 0 .. NumberOf(refs)] ==
        IF k = 0 THEN [i \in 0 .. 2 |-> 0]
                 ELSE AfterStore(refs, at[k - 1], 3, 3)
  IN [k \in 1 .. NumberOf(refs) |->
        RefAt(refs, at[k - 1], NextToStore(refs, at[k - 1], 3, 3))]

(* Three containers are merged into one sorted sequence.                   *)
ASSUME MergeSorts ==
  \A refs \in Containers :
    Merged(refs) = SortSeq(refs[0] \o refs[1] \o refs[2], <)

Members(n) == UNION {[1 .. k -> 0 .. 2] : k \in 0 .. n}

(* The members of a comm_group come back if the group of locations has     *)
(* them, also if it has some of them twice and there are other groups.     *)
ASSUME ThereAndBackAgain ==
  \A group, members \in Members(3), other \in Members(1) :
    LET groups == << [paradigm |-> "other", members |-> other],
                     [paradigm |-> "mpi", members |-> group] >>
        data   == [paradigm |-> "mpi", members |-> members]
    IN ToSet(members) \subseteq ToSet(group) =>
         ReadMembers(groups, "mpi", StoredMembers(groups, data)) = members

(* A member that the group of locations lacks is written as it is, and     *)
(* comes back as the location at that position.                            *)
ASSUME StrangersAreReplaced ==
  LET groups == << [paradigm |-> "mpi", members |-> <<0, 2>>] >>
      data   == [paradigm |-> "mpi", members |-> <<1>>]
  IN ReadMembers(groups, "mpi", StoredMembers(groups, data)) = <<2>>
=============================================================================
