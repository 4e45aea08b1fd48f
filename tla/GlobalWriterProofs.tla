-------------------------- MODULE GlobalWriterProofs -------------------------
(***************************************************************************)
(* Theorems about the algorithms of the global writer, for any number of   *)
(* containers and groups of any size.                                      *)
(***************************************************************************)
EXTENDS GlobalWriter, Integers, WellFoundedInduction, TLAPS

(* A set of numbers has a least one.                                       *)
LEMMA LeastElement ==
  ASSUME NEW S, S \subseteq Nat, S # {}
  PROVE  \E m \in S : \A n \in S : m <= n
<1> DEFINE R == OpToRel(<, Nat)
<1>1. IsWellFoundedOn(R, Nat)
  BY NatLessThanWellFounded
<1>2. PICK m \in S : \A n \in S : <<n, m>> \notin R
  BY <1>1, WFMin
<1>3. \A n \in S : ~(n < m)
  BY <1>2 DEF OpToRel
<1> QED
  BY <1>3

-----------------------------------------------------------------------------
(* There is a sequence with a first value and a step from each value to    *)
(* the next.  Its beginnings are finite.                                   *)

Beginning(n, V, v, step) ==
  {f \in [0 .. n -> V] :
     /\ f[0] = v
     /\ \A k \in 0 .. n : k # 0 => f[k] = step[<<k - 1, f[k - 1]>>]}

LEMMA BeginningExists ==
  ASSUME NEW V, NEW v \in V, NEW step \in [Nat \X V -> V], NEW n \in Nat
  PROVE  Beginning(n, V, v, step) # {}
<1> DEFINE Bad == {k \in Nat : Beginning(k, V, v, step) = {}}
<1>1. SUFFICES ASSUME Bad # {} PROVE FALSE
  OBVIOUS
<1>2. PICK m \in Bad : \A k \in Bad : m <= k
  <2>1. Bad \subseteq Nat
    OBVIOUS
  <2> HIDE DEF Bad
  <2> QED
    BY <1>1, <2>1, LeastElement
<1>3. CASE m = 0
  <2>1. [k \in 0 .. 0 |-> v] \in Beginning(0, V, v, step)
    BY DEF Beginning
  <2> QED
    BY <1>2, <1>3, <2>1
<1>4. CASE m # 0
  <2>1. m - 1 \in Nat /\ m - 1 \notin Bad
    BY <1>2, <1>4
  <2>2. PICK f : f \in Beginning(m - 1, V, v, step)
    BY <2>1
  <2> DEFINE g == [k \in 0 .. m |->
                     IF k = m THEN step[<<m - 1, f[m - 1]>>] ELSE f[k]]
  <2>3. /\ f \in [0 .. m - 1 -> V] /\ f[0] = v
        /\ \A k \in 0 .. m - 1 : k # 0 => f[k] = step[<<k - 1, f[k - 1]>>]
    BY <2>2 DEF Beginning
  <2>4. g \in [0 .. m -> V]
    <3>1. f[m - 1] \in V
      BY <2>1, <2>3
    <3>2. step[<<m - 1, f[m - 1]>>] \in V
      BY <2>1, <3>1
    <3>3. \A k \in 0 .. m : k # m => f[k] \in V
      BY <2>1, <2>3
    <3> QED
      BY <3>2, <3>3
  <2>5. /\ g[0] = v
        /\ \A k \in 0 .. m : k # 0 => g[k] = step[<<k - 1, g[k - 1]>>]
    <3>1. g[0] = v
      BY <1>4, <2>1, <2>3
    <3>2. ASSUME NEW k \in 0 .. m, k # 0, k = m
          PROVE  g[k] = step[<<k - 1, g[k - 1]>>]
      <4>1. g[m - 1] = f[m - 1] /\ g[m] = step[<<m - 1, f[m - 1]>>]
        BY <2>1
      <4> QED
        BY <3>2, <4>1
    <3>3. ASSUME NEW k \in 0 .. m, k # 0, k # m
          PROVE  g[k] = step[<<k - 1, g[k - 1]>>]
      <4>1. k \in 0 .. m - 1 /\ k - 1 \in 0 .. m /\ k - 1 # m
        BY <2>1, <3>3
      <4>2. g[k] = f[k] /\ g[k - 1] = f[k - 1]
        BY <3>3, <4>1
      <4>3. f[k] = step[<<k - 1, f[k - 1]>>]
        BY <2>3, <3>3, <4>1
      <4> QED
        BY <4>2, <4>3
    <3> QED
      BY <3>1, <3>2, <3>3
  <2>6. g \in Beginning(m, V, v, step)
    BY <2>4, <2>5 DEF Beginning
  <2> QED
    BY <1>2, <2>6
<1> QED
  BY <1>3, <1>4

LEMMA BeginningsAgree ==
  ASSUME NEW V, NEW v \in V, NEW step \in [Nat \X V -> V],
         NEW n \in Nat, NEW m \in Nat, NEW f \in Beginning(n, V, v, step),
         NEW g \in Beginning(m, V, v, step), NEW k \in 0 .. n, k <= m
  PROVE  f[k] = g[k]
<1> DEFINE Bad == {j \in 0 .. k : f[j] # g[j]}
<1>1. SUFFICES ASSUME Bad # {} PROVE FALSE
  OBVIOUS
<1>2. PICK j \in Bad : \A i \in Bad : j <= i
  <2>1. Bad \subseteq Nat
    OBVIOUS
  <2> HIDE DEF Bad
  <2> QED
    BY <1>1, <2>1, LeastElement
<1>3. /\ f[0] = v /\ g[0] = v
      /\ j # 0 => /\ f[j] = step[<<j - 1, f[j - 1]>>]
                  /\ g[j] = step[<<j - 1, g[j - 1]>>]
  BY <1>2 DEF Beginning
<1>4. j # 0 => j - 1 \in 0 .. k /\ j - 1 \notin Bad
  BY <1>2
<1> QED
  BY <1>2, <1>3, <1>4

Sequence(V, v, step) ==
  {f \in [Nat -> V] :
     /\ f[0] = v
     /\ \A k \in Nat : k # 0 => f[k] = step[<<k - 1, f[k - 1]>>]}

LEMMA SequenceExists ==
  ASSUME NEW V, NEW v \in V, NEW step \in [Nat \X V -> V]
  PROVE  Sequence(V, v, step) # {}
<1> DEFINE B(k) == CHOOSE f : f \in Beginning(k, V, v, step)
           F == [k \in Nat |-> B(k)[k]]
<1>1. \A k \in Nat : B(k) \in Beginning(k, V, v, step)
  BY BeginningExists
<1> HIDE DEF B
<1>2. F \in [Nat -> V] /\ F[0] = v
  <2>1. ASSUME NEW k \in Nat PROVE F[k] \in V
    <3>1. B(k) \in [0 .. k -> V]
      BY <1>1 DEF Beginning
    <3> QED
      BY <3>1
  <2>2. B(0)[0] = v
    BY <1>1 DEF Beginning
  <2> QED
    BY <2>1, <2>2
<1>3. ASSUME NEW k \in Nat, k # 0
      PROVE  F[k] = step[<<k - 1, F[k - 1]>>]
  <2>1. k - 1 \in Nat /\ k - 1 \in 0 .. k /\ k \in 0 .. k
    BY <1>3
  <2>2. B(k)[k] = step[<<k - 1, B(k)[k - 1]>>]
    BY <1>1, <1>3, <2>1 DEF Beginning
  <2>3. B(k)[k - 1] = B(k - 1)[k - 1]
    BY <1>1, <2>1, BeginningsAgree
  <2> QED
    BY <2>1, <2>2, <2>3
<1>4. F \in Sequence(V, v, step)
  BY <1>2, <1>3 DEF Sequence
<1> QED
  BY <1>4

-----------------------------------------------------------------------------
(* The merge.                                                              *)

LEMMA MinimumEquation ==
  ASSUME NEW n \in Nat, NEW keys
  PROVE  /\ Minimum(keys, n)[0] = 0
         /\ \A k \in Nat : k # 0 =>
              Minimum(keys, n)[k] =
                IF keys[Minimum(keys, n)[k - 1]] < keys[n - k]
                  THEN Minimum(keys, n)[k - 1] ELSE n - k
<1> DEFINE Next(k, i) == IF keys[i] < keys[n - k] THEN i ELSE n - k
           step == [p \in Nat \X Int |-> Next(p[1] + 1, p[2])]
           Is(f) == f = [k \in Nat |->
                           IF k = 0 THEN 0 ELSE Next(k, f[k - 1])]
           min == CHOOSE f : Is(f)
<1>1. \A k \in Nat, i \in Int : Next(k, i) \in Int
  OBVIOUS
<1>2. \A k \in Nat, i \in Int : step[<<k, i>>] = Next(k + 1, i)
  OBVIOUS
<1>3. step \in [Nat \X Int -> Int]
  <2> HIDE DEF Next
  <2>1. \A p \in Nat \X Int : p[1] + 1 \in Nat /\ p[2] \in Int
    OBVIOUS
  <2> QED
    BY <1>1, <2>1
<1> HIDE DEF Next, step
<1>4. PICK f \in [Nat -> Int] :
        /\ f[0] = 0
        /\ \A k \in Nat : k # 0 => f[k] = step[<<k - 1, f[k - 1]>>]
  <2>1. 0 \in Int
    OBVIOUS
  <2>2. Sequence(Int, 0, step) # {}
    BY <1>3, <2>1, SequenceExists
  <2> QED
    BY <2>2 DEF Sequence
<1>5. ASSUME NEW k \in Nat, k # 0
      PROVE  f[k] = Next(k, f[k - 1])
  <2>1. k - 1 \in Nat /\ k - 1 + 1 = k /\ f[k - 1] \in Int
    BY <1>4, <1>5
  <2> QED
    BY <1>2, <1>4, <1>5, <2>1
<1>6. Is(f)
  BY <1>4, <1>5
<1>7. Is(min)
  <2> HIDE DEF Is
  <2> QED
    BY <1>6
<1>8. Minimum(keys, n) = min
  BY DEF Minimum, Next
<1>9. min[0] = 0 /\ \A k \in Nat : k # 0 => min[k] = Next(k, min[k - 1])
  <2> HIDE DEF min
  <2> QED
    BY <1>7
<1> QED
  BY <1>8, <1>9 DEF Next

(* The recursion of apply_to_tuple_min finds an iterator with the least    *)
(* key.                                                                    *)
LEMMA ChosenIsLeast ==
  ASSUME NEW n \in Nat \ {0}, NEW keys \in [0 .. n - 1 -> Nat]
  PROVE  /\ Chosen(keys, n) \in 0 .. n - 1
         /\ \A i \in 0 .. n - 1 : keys[Chosen(keys, n)] <= keys[i]
<1> DEFINE min == Minimum(keys, n)
           Least(k) == /\ min[k] \in 0 .. n - 1
                       /\ keys[min[k]] <= keys[0]
                       /\ \A i \in n - k .. n - 1 : keys[min[k]] <= keys[i]
           Bad == {k \in 0 .. n - 1 : ~Least(k)}
<1>1. /\ min[0] = 0
      /\ \A k \in Nat : k # 0 =>
           min[k] = IF keys[min[k - 1]] < keys[n - k] THEN min[k - 1]
                                                      ELSE n - k
  BY MinimumEquation
<1> HIDE DEF min
<1>2. Least(0)
  BY <1>1
<1>3. ASSUME NEW k \in 1 .. n - 1, Least(k - 1)
      PROVE  Least(k)
  <2>1. n - k \in 0 .. n - 1 /\ k \in Nat /\ k # 0 /\ n - (k - 1) = n - k + 1
    OBVIOUS
  <2>2. \A i \in n - k .. n - 1 : i = n - k \/ i \in n - k + 1 .. n - 1
    OBVIOUS
  <2>3. \A i \in 0 .. n - 1 : keys[i] \in Nat
    OBVIOUS
  <2>4. n - k + 1 .. n - 1 \subseteq 0 .. n - 1
    BY <2>1
  <2>5. CASE keys[min[k - 1]] < keys[n - k]
    <3>1. min[k] = min[k - 1]
      BY <1>1, <2>1, <2>5
    <3> QED
      BY <1>3, <2>1, <2>2, <2>3, <2>5, <3>1
  <2>6. CASE ~(keys[min[k - 1]] < keys[n - k])
    <3>1. min[k] = n - k
      BY <1>1, <2>1, <2>6
    <3>2. keys[n - k] <= keys[min[k - 1]]
      BY <1>3, <2>1, <2>3, <2>6
    <3>3. \A i \in n - k + 1 .. n - 1 : keys[n - k] <= keys[i]
      BY <1>3, <2>1, <2>3, <2>4, <3>2
    <3>4. keys[n - k] <= keys[0]
      BY <1>3, <2>1, <2>3, <3>2
    <3> QED
      BY <2>1, <2>2, <2>3, <3>1, <3>3, <3>4
  <2> QED
    BY <2>5, <2>6
<1>4. Bad = {}
  <2>1. SUFFICES ASSUME Bad # {} PROVE FALSE
    OBVIOUS
  <2>2. PICK k \in Bad : \A j \in Bad : k <= j
    <3>1. Bad \subseteq Nat
      OBVIOUS
    <3> HIDE DEF Bad
    <3> QED
      BY <2>1, <3>1, LeastElement
  <2> HIDE DEF Least
  <2>3. k \in 1 .. n - 1 /\ k - 1 \in 0 .. n - 1 /\ k - 1 \notin Bad
    BY <1>2, <2>2
  <2> QED
    BY <1>3, <2>2, <2>3
<1>5. Least(n - 1)
  <2> HIDE DEF Least
  <2> QED
    BY <1>4
<1>6. \A i \in 0 .. n - 1 : i = 0 \/ i \in n - (n - 1) .. n - 1
  OBVIOUS
<1>7. Chosen(keys, n) = min[n - 1]
  BY DEF Chosen, min
<1> QED
  BY <1>5, <1>6, <1>7

LEMMA LessIsLeq ==
  ASSUME NEW a \in Nat, NEW b \in Nat, a < b
  PROVE  a <= b
OBVIOUS

LEMMA LeqTransitive ==
  ASSUME NEW a \in Nat, NEW b \in Nat, NEW c \in Nat, a <= b, b <= c
  PROVE  a <= c
OBVIOUS

(* The containers of n kinds, each in the order of its references, and     *)
(* iterators that have not all come to the end.                            *)
Merging(refs, at, n, end) ==
  /\ n \in Nat \ {0}
  /\ end \in Nat
  /\ refs \in [0 .. n - 1 -> Seq(Nat)]
  /\ \A i \in 0 .. n - 1 : \A j \in 1 .. Len(refs[i]) : refs[i][j] < end
  /\ \A i \in 0 .. n - 1 : \A j, k \in 1 .. Len(refs[i]) :
       j < k => refs[i][j] < refs[i][k]
  /\ at \in [0 .. n - 1 -> Nat]
  /\ \E i \in 0 .. n - 1 : AtDefinition(refs, at, i)

(* While an iterator is not at its end, the merge stores a definition that *)
(* is left, and none that is left has a smaller reference.  This needs     *)
(* references below the greatest, which stands for the end of a container. *)
THEOREM MergeTakesTheLeast ==
  ASSUME NEW refs, NEW at, NEW n, NEW end, Merging(refs, at, n, end)
  PROVE  LET c == NextToStore(refs, at, n, end)
         IN /\ c \in 0 .. n - 1
            /\ AtDefinition(refs, at, c)
            /\ \A i \in 0 .. n - 1 : \A j \in at[i] + 1 .. Len(refs[i]) :
                 RefAt(refs, at, c) <= refs[i][j]
<1> DEFINE c == NextToStore(refs, at, n, end)
           keys == [i \in 0 .. n - 1 |-> KeyAt(refs, at, end, i)]
<1>1. ASSUME NEW i \in 0 .. n - 1
      PROVE  /\ at[i] \in Nat
             /\ Len(refs[i]) \in Nat
             /\ \A j \in 1 .. Len(refs[i]) : refs[i][j] \in Nat
             /\ \A j \in 1 .. Len(refs[i]) : refs[i][j] < end
             /\ \A j, k \in 1 .. Len(refs[i]) :
                  j < k => refs[i][j] < refs[i][k]
  <2>1. refs[i] \in Seq(Nat) /\ at[i] \in Nat
    BY DEF Merging
  <2> QED
    BY <2>1, SMTT(30) DEF Merging
<1>2. ASSUME NEW i \in 0 .. n - 1, AtDefinition(refs, at, i)
      PROVE  /\ at[i] + 1 \in 1 .. Len(refs[i])
             /\ keys[i] = RefAt(refs, at, i)
             /\ keys[i] \in Nat
             /\ keys[i] < end
  <2>1. at[i] + 1 \in 1 .. Len(refs[i])
    BY <1>1, <1>2 DEF AtDefinition
  <2>2. keys[i] = RefAt(refs, at, i)
    BY <1>2 DEF KeyAt
  <2> QED
    BY <1>1, <2>1, <2>2 DEF RefAt
<1>3. ASSUME NEW i \in 0 .. n - 1, ~AtDefinition(refs, at, i)
      PROVE  keys[i] = end
  BY <1>3 DEF KeyAt
<1>4. n \in Nat \ {0} /\ end \in Nat
  BY DEF Merging
<1>5. c \in 0 .. n - 1 /\ \A i \in 0 .. n - 1 : keys[c] <= keys[i]
  <2>1. \A i \in 0 .. n - 1 : keys[i] \in Nat
    BY <1>2, <1>3, <1>4
  <2>2. keys \in [0 .. n - 1 -> Nat]
    BY <2>1
  <2>3. c = Chosen(keys, n)
    BY DEF NextToStore
  <2> HIDE DEF keys, c
  <2> QED
    BY <1>4, <2>2, <2>3, ChosenIsLeast
<1> HIDE DEF keys, c
<1>6. AtDefinition(refs, at, c)
  <2>1. PICK i \in 0 .. n - 1 : AtDefinition(refs, at, i)
    BY DEF Merging
  <2>2. keys[c] <= keys[i] /\ keys[i] < end /\ keys[i] \in Nat
    BY <1>2, <1>5, <2>1
  <2>3. keys[c] # end
    BY <1>4, <2>2
  <2> QED
    BY <1>3, <1>5, <2>3
<1>7. ASSUME NEW i \in 0 .. n - 1, NEW j \in at[i] + 1 .. Len(refs[i])
      PROVE  RefAt(refs, at, c) <= refs[i][j]
  <2>1. /\ AtDefinition(refs, at, i)
        /\ j \in 1 .. Len(refs[i])
        /\ at[i] + 1 \in 1 .. Len(refs[i])
    BY <1>1 DEF AtDefinition
  <2>2. RefAt(refs, at, i) <= refs[i][j]
    <3>1. CASE j = at[i] + 1
      BY <1>1, <2>1, <3>1 DEF RefAt
    <3>2. CASE at[i] + 1 < j
      <4>1. RefAt(refs, at, i) < refs[i][j]
        BY <1>1, <2>1, <3>2 DEF RefAt
      <4>2. RefAt(refs, at, i) \in Nat /\ refs[i][j] \in Nat
        BY <1>1, <2>1 DEF RefAt
      <4> QED
        BY <4>1, <4>2, LessIsLeq
    <3> QED
      BY <1>1, <3>1, <3>2
  <2>3. /\ RefAt(refs, at, c) <= RefAt(refs, at, i)
        /\ RefAt(refs, at, c) \in Nat
        /\ RefAt(refs, at, i) \in Nat
    BY <1>2, <1>5, <1>6, <2>1
  <2>4. refs[i][j] \in Nat
    BY <1>1, <2>1
  <2> QED
    BY <2>2, <2>3, <2>4, LeqTransitive
<1> QED
  BY <1>5, <1>6, <1>7 DEF c

(* Definitions of kinds that share an id space are stored in the order of  *)
(* their references: the one that store takes next has no smaller          *)
(* reference than the one before.                                          *)
THEOREM MergeAscends ==
  ASSUME NEW refs, NEW at, NEW n, NEW end,
         Merging(refs, at, n, end),
         Merging(refs, AfterStore(refs, at, n, end), n, end)
  PROVE  LET next == AfterStore(refs, at, n, end)
         IN RefAt(refs, at, NextToStore(refs, at, n, end))
              <= RefAt(refs, next, NextToStore(refs, next, n, end))
<1> DEFINE next == AfterStore(refs, at, n, end)
           c == NextToStore(refs, at, n, end)
           d == NextToStore(refs, next, n, end)
<1>1. /\ c \in 0 .. n - 1
      /\ \A i \in 0 .. n - 1 : \A j \in at[i] + 1 .. Len(refs[i]) :
           RefAt(refs, at, c) <= refs[i][j]
  BY MergeTakesTheLeast
<1>2. d \in 0 .. n - 1 /\ AtDefinition(refs, next, d)
  <2> HIDE DEF next
  <2> QED
    BY MergeTakesTheLeast DEF next
<1>3. at \in [0 .. n - 1 -> Nat] /\ next = [at EXCEPT ![c] = @ + 1]
  BY DEF Merging, AfterStore
<1> HIDE DEF c, d, next
<1>4. at[d] \in Nat /\ (next[d] = at[d] \/ next[d] = at[d] + 1)
  BY <1>1, <1>2, <1>3
<1>5. Len(refs[d]) \in Nat
  <2>1. refs[d] \in Seq(Nat)
    BY <1>2 DEF Merging
  <2> QED
    BY <2>1
<1>6. next[d] + 1 \in at[d] + 1 .. Len(refs[d])
  BY <1>2, <1>4, <1>5 DEF AtDefinition
<1>7. RefAt(refs, at, c) <= RefAt(refs, next, d)
  BY <1>1, <1>2, <1>6 DEF RefAt
<1> QED
  BY <1>7 DEF c, d, next

-----------------------------------------------------------------------------
(* The members of a comm_group.                                            *)

CommLocationsGroup(P) == [paradigm : P, members : Seq(Nat)]

LEMMA PositionIsOf ==
  ASSUME NEW P, NEW group \in CommLocationsGroup(P), NEW m \in Nat,
         HasMember(group, m)
  PROVE  /\ PositionIn(group, m) \in 0 .. Len(group.members) - 1
         /\ group.members[PositionIn(group, m) + 1] = m
<1> DEFINE At == {j \in 1 .. Len(group.members) : group.members[j] = m}
           First(j) == /\ group.members[j] = m
                       /\ \A i \in 1 .. j - 1 : group.members[i] # m
           first == CHOOSE j \in 1 .. Len(group.members) : First(j)
<1>1. Len(group.members) \in Nat
  BY DEF CommLocationsGroup
<1>2. PICK j \in At : \A i \in At : j <= i
  <2>1. At \subseteq Nat /\ At # {}
    BY <1>1 DEF HasMember
  <2> HIDE DEF At
  <2> QED
    BY <2>1, LeastElement
<1>3. j \in 1 .. Len(group.members) /\ First(j)
  BY <1>1, <1>2
<1>4. first \in 1 .. Len(group.members) /\ First(first)
  <2> HIDE DEF First
  <2> QED
    BY <1>3
<1>5. PositionIn(group, m) = first - 1
  BY DEF PositionIn
<1> HIDE DEF first
<1> QED
  BY <1>1, <1>4, <1>5

(* If one group of locations has the paradigm of a comm_group, and all its *)
(* members, the reader gets the members back.                              *)
THEOREM MembersComeBack ==
  ASSUME NEW P, NEW groups \in Seq(CommLocationsGroup(P)),
         NEW data \in CommLocationsGroup(P), NEW g \in 1 .. Len(groups),
         \A i \in 1 .. Len(groups) :
           groups[i].paradigm = data.paradigm <=> i = g,
         \A i \in 1 .. Len(data.members) :
           HasMember(groups[g], data.members[i])
  PROVE  ReadMembers(groups, data.paradigm, StoredMembers(groups, data))
           = data.members
<1> DEFINE Last(i) == /\ groups[i].paradigm = data.paradigm
                      /\ \A j \in i + 1 .. Len(groups) :
                           groups[j].paradigm # data.paradigm
           last == CHOOSE i \in 1 .. Len(groups) : Last(i)
           Has(i) == groups[i].paradigm = data.paradigm
           only == CHOOSE i \in 1 .. Len(groups) : Has(i)
           stored == StoredMembers(groups, data)
<1>1. Len(groups) \in Nat /\ Len(data.members) \in Nat
  BY DEF CommLocationsGroup
<1>2. last = g
  <2>1. Last(g)
    BY <1>1
  <2>2. \A i \in 1 .. Len(groups) : Last(i) => i = g
    OBVIOUS
  <2> HIDE DEF Last
  <2> QED
    BY <2>1, <2>2
<1>3. only = g
  <2>1. Has(g) /\ \A i \in 1 .. Len(groups) : Has(i) => i = g
    OBVIOUS
  <2> HIDE DEF Has
  <2> QED
    BY <2>1
<1>4. /\ LastOf(groups, data.paradigm) = groups[g]
      /\ OnlyOf(groups, data.paradigm) = groups[g]
  BY <1>2, <1>3 DEF LastOf, OnlyOf
<1>5. groups[g] \in CommLocationsGroup(P)
  OBVIOUS
<1>6. stored = [i \in 1 .. Len(data.members) |->
                  PositionIn(groups[g], data.members[i])]
  BY <1>4 DEF StoredMembers
<1>7. /\ Len(stored) = Len(data.members)
      /\ \A i \in 1 .. Len(data.members) :
           stored[i] = PositionIn(groups[g], data.members[i])
  BY <1>1, <1>6
<1> HIDE DEF stored
<1>8. ReadMembers(groups, data.paradigm, stored)
        = [i \in 1 .. Len(data.members) |-> groups[g].members[stored[i] + 1]]
  BY <1>4, <1>7 DEF ReadMembers
<1>9. ASSUME NEW i \in 1 .. Len(data.members)
      PROVE  groups[g].members[stored[i] + 1] = data.members[i]
  <2>1. data.members[i] \in Nat
    BY DEF CommLocationsGroup
  <2> QED
    BY <1>5, <1>7, <2>1, PositionIsOf
<1>10. data.members = [i \in 1 .. Len(data.members) |-> data.members[i]]
  BY DEF CommLocationsGroup
<1> QED
  BY <1>8, <1>9, <1>10 DEF stored
=============================================================================
