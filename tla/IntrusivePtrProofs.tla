------------------------- MODULE IntrusivePtrProofs --------------------------
(***************************************************************************)
(* Theorems about IntrusivePtr, for every number of threads, handles,      *)
(* objects and members.                                                    *)
(***************************************************************************)
EXTENDS IntrusivePtr, FiniteSetTheorems, SequenceTheorems,
        WellFoundedInduction, TLAPS

(* A set of numbers has a least one.                                       *)
LEMMA LeastElement ==
  ASSUME NEW S, S \subseteq Nat, S # {}
  PROVE  \E m \in S : \A n \in S : m <= n
<1> DEFINE R == OpToRel(<, Nat)
<1>1. IsWellFoundedOn(R, Nat)
  BY NatLessThanWellFounded
<1>2. PICK m \in S : \A n \in S : <<n, m>> \notin R
  BY <1>1, WFMin
<1>3. \A n \in S : ~(n < m)
  BY <1>2 DEF OpToRel
<1> QED
  BY <1>3

-----------------------------------------------------------------------------
(* How many pointers point to an object                                    *)

Pointers == [Pointer -> Objects \cup {Null}]

Hold(f, o) == {x \in Pointer : f[x] = o}

LEMMA HoldFinite ==
  ASSUME NEW f, NEW o
  PROVE  IsFiniteSet(Hold(f, o)) /\ Cardinality(Hold(f, o)) \in Nat
<1>1. Hold(f, o) \in SUBSET Pointer
  BY DEF Hold
<1> QED
  BY <1>1, PointersAssumption, FS_Subset, FS_CardinalityType

(* A null pointer gets an object: that has one pointer more.               *)
LEMMA Gain ==
  ASSUME NEW f \in Pointers, NEW x \in Pointer, f[x] = Null,
         NEW p \in Objects, NEW o \in Objects
  PROVE  Cardinality(Hold([f EXCEPT ![x] = p], o)) =
           IF o = p THEN Cardinality(Hold(f, o)) + 1
                    ELSE Cardinality(Hold(f, o))
<1> DEFINE g == [f EXCEPT ![x] = p]
<1>1. x \notin Hold(f, o)
  BY NullAssumption DEF Hold
<1>2. CASE o = p
  <2>1. Hold(g, o) = Hold(f, o) \cup {x}
    BY <1>2 DEF Hold, Pointers
  <2> QED
    BY <1>1, <1>2, <2>1, HoldFinite, FS_AddElement
<1>3. CASE o # p
  <2>1. Hold(g, o) = Hold(f, o)
    BY <1>1, <1>3 DEF Hold, Pointers
  <2> QED
    BY <1>3, <2>1
<1> QED
  BY <1>2, <1>3

(* A pointer becomes null: the object it pointed to has one pointer less.  *)
LEMMA Lose ==
  ASSUME NEW f \in Pointers, NEW x \in Pointer,
         NEW p \in Objects, f[x] = p, NEW o \in Objects
  PROVE  /\ Cardinality(Hold([f EXCEPT ![x] = Null], o)) =
              IF o = p THEN Cardinality(Hold(f, o)) - 1
                       ELSE Cardinality(Hold(f, o))
         /\ Cardinality(Hold(f, p)) \in Nat \ {0}
<1> DEFINE g == [f EXCEPT ![x] = Null]
<1>1. x \in Hold(f, p)
  BY DEF Hold
<1>2. Cardinality(Hold(f, p)) \in Nat \ {0}
  BY <1>1, HoldFinite, FS_EmptySet
<1>3. CASE o = p
  <2>1. Hold(g, o) = Hold(f, o) \ {x}
    BY <1>3, NullAssumption DEF Hold, Pointers
  <2> QED
    BY <1>1, <1>2, <1>3, <2>1, HoldFinite, FS_RemoveElement
<1>4. CASE o # p
  <2>1. Hold(g, o) = Hold(f, o)
    BY <1>4, NullAssumption DEF Hold, Pointers
  <2> QED
    BY <1>2, <1>4, <2>1
<1> QED
  BY <1>3, <1>4

(* Two pointers are swapped: no object has more or fewer pointers.         *)
LEMMA Exchange ==
  ASSUME NEW f \in Pointers, NEW x \in Pointer, NEW y \in Pointer,
         NEW o \in Objects
  PROVE  Cardinality(Hold([f EXCEPT ![x] = f[y], ![y] = f[x]], o)) =
           Cardinality(Hold(f, o))
<1> DEFINE g == [f EXCEPT ![x] = f[y], ![y] = f[x]]
<1>1. CASE (f[x] = o) <=> (f[y] = o)
  <2>1. Hold(g, o) = Hold(f, o)
    BY <1>1 DEF Hold, Pointers
  <2> QED
    BY <2>1
<1>2. ASSUME NEW a \in Pointer, NEW b \in Pointer, f[a] = o, f[b] # o,
             {a, b} = {x, y}
      PROVE  Cardinality(Hold(g, o)) = Cardinality(Hold(f, o))
  <2>1. Hold(g, o) = (Hold(f, o) \ {a}) \cup {b}
    BY <1>2 DEF Hold, Pointers
  <2>2. a \in Hold(f, o) /\ b \notin Hold(f, o)
    BY <1>2 DEF Hold
  <2>3. /\ IsFiniteSet(Hold(f, o) \ {a})
        /\ Cardinality(Hold(f, o) \ {a}) = Cardinality(Hold(f, o)) - 1
    BY <2>2, HoldFinite, FS_RemoveElement
  <2>4. Cardinality((Hold(f, o) \ {a}) \cup {b})
          = Cardinality(Hold(f, o) \ {a}) + 1
    BY <2>2, <2>3, FS_AddElement
  <2>5. Cardinality(Hold(f, o)) \in Nat
    BY HoldFinite
  <2> HIDE DEF g
  <2> QED
    BY <2>1, <2>3, <2>4, <2>5
<1>3. CASE f[x] = o /\ f[y] # o
  BY <1>2, <1>3
<1>4. CASE f[x] # o /\ f[y] = o
  BY <1>2, <1>4
<1> QED
  BY <1>1, <1>3, <1>4

-----------------------------------------------------------------------------
(* The invariant                                                           *)

(* What a thread is in the middle of determines what it works on: it holds *)
(* a pointer of its own in swap and release, it will assign a handle that  *)
(* is its own, and what it retains or deletes is alive.                    *)
Working(t) ==
  /\ pc[t] \in {"swap", "release"} <=> ref[t] # Null
  /\ pc[t] \in {"construct", "retain", "swap"} =>
       dest[t] \in Handles /\ owner[dest[t]] = t
  /\ pc[t] \in {"construct", "retain", "released"} => raw[t] \in Objects
  /\ Busy(t) => life[raw[t]] = "alive"
  /\ pc[t] = "unwind" => dying[t] # <<>>

(* A thread has its object for itself: nothing points to it and no other   *)
(* thread is about to change that.                                         *)
Sole(t) ==
  /\ Holding(raw[t]) = {}
  /\ \A u \in Threads \ {t} : Busy(u) => raw[u] # raw[t]

(* Or one of its own handles keeps the object alive.                       *)
Backed(t) == \E g \in Handles : owner[g] = t /\ ref[g] = raw[t]

Claims(t) ==
  Busy(t) => Sole(t) \/ (pc[t] = "retain" /\ Backed(t))

StackGone ==
  \A t \in Threads : \A k \in 1 .. Len(dying[t]) : Gone(dying[t][k])

Inv ==
  /\ TypeOK
  /\ CountIsHolders
  /\ NoDanglingPointer
  /\ \A t \in Threads : Working(t)
  /\ \A t \in Threads : Claims(t)
  /\ StackGone

LEMMA InitInv == Init => Inv
<1> SUFFICES ASSUME Init PROVE Inv
  OBVIOUS
<1>1. TypeOK
  BY DEF Init, TypeOK, States
<1>2. CountIsHolders
  <2>1. \A o \in Objects : Holding(o) = {}
    BY NullAssumption DEF Init, Holding
  <2> QED
    BY <2>1, FS_EmptySet DEF Init, CountIsHolders
<1>3. NoDanglingPointer
  BY DEF Init, NoDanglingPointer
<1>4. \A t \in Threads : ~Busy(t)
  BY DEF Init, Busy
<1>5. \A t \in Threads : Working(t)
  BY <1>4 DEF Init, Working, Pointer
<1>6. \A t \in Threads : Claims(t)
  BY <1>4 DEF Claims
<1>7. StackGone
  BY DEF Init, StackGone
<1> QED
  BY <1>1, <1>2, <1>3, <1>5, <1>6, <1>7 DEF Inv

(* The steps of the threads, one by one.                                   *)
LEMMA StepCases ==
  ASSUME [Next]_vars
  PROVE
    \/ \E t \in Threads, h \in Handles, o \in Objects : New(t, h, o)
    \/ \E t \in Threads, i \in Slots, g \in Handles : InitMember(t, i, g)
    \/ \E t \in Threads : Constructed(t)
    \/ \E t \in Threads, h \in Handles, g \in Handles : Copy(t, h, g)
    \/ \E t \in Threads, h \in Handles, g \in Handles : Move(t, h, g)
    \/ \E t \in Threads, h \in Handles : Drop(t, h)
    \/ \E t \in Threads, h \in Handles, u \in Threads : Give(t, h, u)
    \/ \E t \in Threads, h \in Handles, i \in Slots, g \in Handles :
         AddMember(t, h, i, g)
    \/ \E t \in Threads, h \in Handles, i \in Slots : RemoveMember(t, h, i)
    \/ \E t \in Threads : Retain(t)
    \/ \E t \in Threads : Swap(t)
    \/ \E t \in Threads : Release(t)
    \/ \E t \in Threads : Delete(t)
    \/ \E t \in Threads : Keep(t)
    \/ \E t \in Threads, i \in Slots : DestroyMember(t, i)
    \/ \E t \in Threads : Free(t)
    \/ UNCHANGED vars
BY DEF Next, Begin, Continue

-----------------------------------------------------------------------------
(* The counter and the pointers                                            *)

(* The ways a step changes the pointers and the counters: not at all, one  *)
(* pointer more, one pointer less, or pointers swapped.                    *)
Counted(f, c) == \A o \in Objects : c[o] = Cardinality(Hold(f, o))

LEMMA CountedGain ==
  ASSUME NEW f \in Pointers, NEW c \in [Objects -> Nat], Counted(f, c),
         NEW x \in Pointer, f[x] = Null, NEW p \in Objects
  PROVE  Counted([f EXCEPT ![x] = p], [c EXCEPT ![p] = @ + 1])
BY Gain DEF Counted

LEMMA CountedLose ==
  ASSUME NEW f \in Pointers, NEW c \in [Objects -> Nat], Counted(f, c),
         NEW x \in Pointer, NEW p \in Objects, f[x] = p
  PROVE  /\ Counted([f EXCEPT ![x] = Null], [c EXCEPT ![p] = @ - 1])
         /\ c[p] - 1 \in Nat
<1> DEFINE g == [f EXCEPT ![x] = Null]
           d == [c EXCEPT ![p] = @ - 1]
<1>1. \A o \in Objects :
        Cardinality(Hold(g, o)) = IF o = p THEN c[o] - 1 ELSE c[o]
  BY Lose DEF Counted
<1>2. c[p] \in Nat \ {0}
  BY Lose DEF Counted
<1>3. \A o \in Objects : d[o] = IF o = p THEN c[o] - 1 ELSE c[o]
  OBVIOUS
<1> HIDE DEF g, d
<1>4. Counted(g, d)
  BY <1>1, <1>3 DEF Counted
<1> QED
  BY <1>2, <1>4 DEF g, d

LEMMA CountedExchange ==
  ASSUME NEW f \in Pointers, NEW c, Counted(f, c),
         NEW x \in Pointer, NEW y \in Pointer
  PROVE  Counted([f EXCEPT ![x] = f[y], ![y] = f[x]], c)
BY Exchange DEF Counted

LEMMA CountStep ==
  ASSUME Inv, [Next]_vars
  PROVE  /\ ref' \in Pointers
         /\ count' \in [Objects -> Nat]
         /\ Counted(ref', count')
<1>0. /\ ref \in Pointers /\ count \in [Objects -> Nat] /\ Counted(ref, count)
      /\ \A t \in Threads : Working(t) /\ t \in Pointer /\ ref[t] \in Objects \cup {Null}
      /\ \A h \in Handles : h \in Pointer /\ h \notin Threads /\ ref[h] \in Objects \cup {Null}
  BY PointersAssumption
     DEF Inv, TypeOK, CountIsHolders, Holding, Hold, Counted, Pointers, Pointer
<1> DEFINE Goal == /\ ref' \in Pointers
                   /\ count' \in [Objects -> Nat]
                   /\ Counted(ref', count')
<1>1. CASE UNCHANGED <<ref, count>>
  BY <1>0, <1>1
<1>2. ASSUME NEW t \in Threads, NEW i \in Slots, NEW g \in Handles,
             InitMember(t, i, g)
      PROVE  Goal
  <2>1. raw[t] \in Objects
    BY <1>0, <1>2 DEF InitMember, Working
  <2>2. <<raw[t], i>> \in Pointer
    BY <2>1 DEF Pointer, Member
  <2>3. ref[g] \in Objects
    BY <1>0, <1>2 DEF InitMember
  <2>4. Counted(ref', count')
    BY <1>0, <1>2, <2>2, <2>3, CountedGain DEF InitMember
  <2> QED
    BY <1>0, <1>2, <2>2, <2>3, <2>4 DEF InitMember, Pointers
<1>3. ASSUME NEW t \in Threads, NEW h \in Handles, NEW g \in Handles,
             Move(t, h, g)
      PROVE  Goal
  <2>1. ref[t] = Null
    BY <1>0, <1>3 DEF Move, Working
  <2> DEFINE f == [ref EXCEPT ![h] = ref[g], ![g] = ref[h]]
  <2>2. f \in Pointers /\ f[g] = ref[h] /\ f[t] = Null /\ f[h] = ref[g]
    BY <1>0, <1>3, <2>1 DEF Pointers, Move
  <2>3. Counted(f, count)
    BY <1>0, CountedExchange
  <2>4. ref' = [f EXCEPT ![g] = f[t], ![t] = f[g]]
    BY <1>0, <1>3, <2>2 DEF Move, Pointers
  <2> HIDE DEF f
  <2>5. Counted(ref', count)
    BY <1>0, <2>2, <2>3, <2>4, CountedExchange
  <2> QED
    BY <1>0, <1>3, <2>2, <2>4, <2>5 DEF Move, Pointers
<1>4. ASSUME NEW t \in Threads, NEW h \in Handles, Drop(t, h)
      PROVE  Goal
  <2>1. ref[t] = Null
    BY <1>0, <1>4 DEF Drop, Working
  <2>2. ref' = [ref EXCEPT ![h] = ref[t], ![t] = ref[h]]
    BY <1>4, <2>1 DEF Drop
  <2>3. Counted(ref', count)
    BY <1>0, <2>2, CountedExchange
  <2> QED
    BY <1>0, <1>4, <2>2, <2>3 DEF Drop, Pointers
<1>5. ASSUME NEW t \in Threads, Retain(t)
      PROVE  Goal
  <2>1. ref[t] = Null /\ raw[t] \in Objects
    BY <1>0, <1>5 DEF Retain, Working
  <2>2. Counted(ref', count')
    BY <1>0, <1>5, <2>1, CountedGain DEF Retain
  <2> QED
    BY <1>0, <1>5, <2>1, <2>2 DEF Retain, Pointers
<1>6. ASSUME NEW t \in Threads, Swap(t)
      PROVE  Goal
  <2>1. dest[t] \in Handles
    BY <1>0, <1>6 DEF Swap, Working
  <2> QED
    BY <1>0, <1>6, <2>1, CountedExchange DEF Swap, Pointers
<1>7. ASSUME NEW t \in Threads, Release(t)
      PROVE  Goal
  <2>1. ref[t] \in Objects
    BY <1>0, <1>7 DEF Release, Working
  <2>2. Counted(ref', count') /\ count[ref[t]] - 1 \in Nat
    BY <1>0, <1>7, <2>1, CountedLose DEF Release
  <2> QED
    BY <1>0, <1>7, <2>1, <2>2 DEF Release, Pointers
<1>8. ASSUME NEW t \in Threads, NEW i \in Slots, DestroyMember(t, i)
      PROVE  Goal
  <2>1. ref[t] = Null /\ dying[t] # <<>> /\ dying[t] \in Seq(Objects)
    BY <1>0, <1>8 DEF DestroyMember, Working, Inv, TypeOK
  <2>2. Innermost(t) \in Objects
    BY <2>1 DEF Innermost
  <2> DEFINE x == <<Innermost(t), i>>
  <2>3. x \in Pointer
    BY <2>2 DEF Pointer, Member
  <2>4. ref' = [ref EXCEPT ![x] = ref[t], ![t] = ref[x]]
    BY <1>8, <2>1 DEF DestroyMember
  <2> HIDE DEF x
  <2>5. Counted(ref', count) /\ ref' \in Pointers
    BY <1>0, <2>3, <2>4, CountedExchange DEF Pointers
  <2> QED
    BY <1>0, <1>8, <2>5 DEF DestroyMember
<1>9. ASSUME NEW t \in Threads, NEW h \in Handles, NEW i \in Slots,
             NEW g \in Handles, AddMember(t, h, i, g)
      PROVE  Goal
  <2>1. ref[h] \in Objects /\ ref[g] \in Objects
    BY <1>0, <1>9 DEF AddMember
  <2>2. <<ref[h], i>> \in Pointer
    BY <2>1 DEF Pointer, Member
  <2>3. Counted(ref', count')
    BY <1>0, <1>9, <2>1, <2>2, CountedGain DEF AddMember
  <2> QED
    BY <1>0, <1>9, <2>1, <2>2, <2>3 DEF AddMember, Pointers
<1>10. ASSUME NEW t \in Threads, NEW h \in Handles, NEW i \in Slots,
              RemoveMember(t, h, i)
       PROVE  Goal
  <2>1. ref[t] = Null /\ ref[h] \in Objects
    BY <1>0, <1>10 DEF RemoveMember, Working
  <2> DEFINE x == <<ref[h], i>>
  <2>2. x \in Pointer
    BY <2>1 DEF Pointer, Member
  <2>3. ref' = [ref EXCEPT ![x] = ref[t], ![t] = ref[x]]
    BY <1>10, <2>1 DEF RemoveMember
  <2> HIDE DEF x
  <2>4. Counted(ref', count) /\ ref' \in Pointers
    BY <1>0, <2>2, <2>3, CountedExchange DEF Pointers
  <2> QED
    BY <1>0, <1>10, <2>4 DEF RemoveMember
<1> QED
  BY <1>1, <1>2, <1>3, <1>4, <1>5, <1>6, <1>7, <1>8, <1>9, <1>10, StepCases
     DEF New, Constructed, Copy, Give, Delete, Keep, Free, vars

-----------------------------------------------------------------------------
(* The rest of the invariant                                               *)

LEMMA TypeStep ==
  ASSUME Inv, [Next]_vars
  PROVE  TypeOK'
<1>0. TypeOK /\ \A t \in Threads : Working(t)
  BY DEF Inv
<1>1. ref' \in [Pointer -> Objects \cup {Null}] /\ count' \in [Objects -> Nat]
  BY CountStep DEF Pointers
<1>2. life' \in [Objects -> {"none", "alive", "dying", "freed"}]
  <2>1. ASSUME NEW t \in Threads, Delete(t)
        PROVE  life' \in [Objects -> {"none", "alive", "dying", "freed"}]
    BY <1>0, <2>1 DEF Delete, TypeOK
  <2>2. ASSUME NEW t \in Threads, Free(t)
        PROVE  life' \in [Objects -> {"none", "alive", "dying", "freed"}]
    BY <1>0, <2>2 DEF Free, TypeOK
  <2>3. ASSUME NEW t \in Threads, NEW h \in Handles, NEW o \in Objects,
               New(t, h, o)
        PROVE  life' \in [Objects -> {"none", "alive", "dying", "freed"}]
    BY <1>0, <2>3 DEF New, TypeOK
  <2> QED
    BY <1>0, <2>1, <2>2, <2>3, StepCases
       DEF TypeOK, InitMember, Constructed, Copy, Move, Drop, Give, AddMember,
           RemoveMember, Retain, Swap, Release, Keep, DestroyMember, vars
<1>3. owner' \in [Handles -> Threads]
  BY <1>0, StepCases
     DEF TypeOK, New, InitMember, Constructed, Copy, Move, Drop, Give,
         AddMember, RemoveMember, Retain, Swap, Release, Delete, Keep,
         DestroyMember, Free, vars
<1>4. pc' \in [Threads -> States]
  BY <1>0, StepCases, ZenonT(60)
     DEF TypeOK, New, InitMember, Constructed, Copy, Move, Drop, Give,
         AddMember, RemoveMember, Retain, Swap, Release, Delete, Keep,
         DestroyMember, Free, vars, Goto, States, Resume
<1>5. raw' \in [Threads -> Objects \cup {Null}]
  <2>1. /\ \A h \in Handles : ref[h] \in Objects \cup {Null}
        /\ \A t \in Threads : ref[t] \in Objects \cup {Null}
    BY <1>0 DEF TypeOK, Pointer
  <2>2. ASSUME NEW t \in Threads, Release(t)
        PROVE  raw' \in [Threads -> Objects \cup {Null}]
    <3>1. ref[t] \in Objects \cup {Null}
      BY <2>1
    <3> QED
      BY <1>0, <2>2, <3>1 DEF Release, TypeOK
  <2>3. ASSUME NEW t \in Threads, NEW h \in Handles, NEW g \in Handles,
               Copy(t, h, g)
        PROVE  raw' \in [Threads -> Objects \cup {Null}]
    <3>1. ref[g] \in Objects \cup {Null}
      BY <2>1
    <3> QED
      BY <1>0, <2>3, <3>1 DEF Copy, TypeOK
  <2>4. ASSUME NEW t \in Threads, NEW h \in Handles, NEW o \in Objects,
               New(t, h, o)
        PROVE  raw' \in [Threads -> Objects \cup {Null}]
    BY <1>0, <2>4 DEF New, TypeOK
  <2> QED
    BY <1>0, <2>2, <2>3, <2>4, StepCases
       DEF TypeOK, InitMember, Constructed, Move, Drop, Give, AddMember,
           RemoveMember, Retain, Swap, Delete, Keep, DestroyMember, Free, vars
<1>6. result' \in [Threads -> Nat]
  <2>1. ASSUME NEW t \in Threads, Release(t)
        PROVE  result' \in [Threads -> Nat]
    <3>1. ref[t] \in Objects
      BY <1>0, <2>1 DEF Release, TypeOK, Working, Pointer
    <3>2. count'[ref[t]] = count[ref[t]] - 1
      BY <1>0, <2>1, <3>1 DEF Release, TypeOK
    <3>3. count[ref[t]] - 1 \in Nat
      BY <1>1, <3>1, <3>2
    <3> QED
      BY <1>0, <2>1, <3>3 DEF Release, TypeOK
  <2> QED
    BY <1>0, <2>1, StepCases
       DEF TypeOK, New, InitMember, Constructed, Copy, Move, Drop, Give,
           AddMember, RemoveMember, Retain, Swap, Delete, Keep, DestroyMember,
           Free, vars
<1>7. dest' \in [Threads -> Handles \cup {Null}]
  BY <1>0, StepCases
     DEF TypeOK, New, InitMember, Constructed, Copy, Move, Drop, Give,
         AddMember, RemoveMember, Retain, Swap, Release, Delete, Keep,
         DestroyMember, Free, vars
<1>8. dying' \in [Threads -> Seq(Objects)]
  <2>1. ASSUME NEW t \in Threads, Delete(t)
        PROVE  dying' \in [Threads -> Seq(Objects)]
    <3>1. raw[t] \in Objects
      BY <1>0, <2>1 DEF Delete, Working
    <3>2. Append(dying[t], raw[t]) \in Seq(Objects)
      BY <1>0, <3>1 DEF TypeOK
    <3> QED
      BY <1>0, <2>1, <3>2 DEF Delete, TypeOK
  <2>2. ASSUME NEW t \in Threads, Free(t)
        PROVE  dying' \in [Threads -> Seq(Objects)]
    <3>1. dying[t] \in Seq(Objects) /\ dying[t] # <<>>
      BY <1>0, <2>2 DEF Free, TypeOK, Working
    <3>2. SubSeq(dying[t], 1, Len(dying[t]) - 1) \in Seq(Objects)
      BY <3>1, SubSeqProperties
    <3> QED
      BY <1>0, <2>2, <3>2 DEF Free, TypeOK
  <2> QED
    BY <1>0, <2>1, <2>2, StepCases
       DEF TypeOK, New, InitMember, Constructed, Copy, Move, Drop, Give,
           AddMember, RemoveMember, Retain, Swap, Release, Keep,
           DestroyMember, vars
<1> QED
  BY <1>1, <1>2, <1>3, <1>4, <1>5, <1>6, <1>7, <1>8 DEF TypeOK

LEMMA Types ==
  ASSUME TypeOK
  PROVE  /\ \A x \in Pointer : ref[x] \in Objects \cup {Null}
         /\ \A h \in Handles : /\ h \in Pointer \ Threads
                               /\ ref[h] \in Objects \cup {Null}
                               /\ owner[h] \in Threads
         /\ \A t \in Threads : /\ t \in Pointer \ Handles
                               /\ ref[t] \in Objects \cup {Null}
                               /\ raw[t] \in Objects \cup {Null}
                               /\ result[t] \in Nat
                               /\ dying[t] \in Seq(Objects)
         /\ \A m \in Member : m \in Pointer /\ m \notin Handles \cup Threads
BY PointersAssumption DEF TypeOK, Pointer

(* What a thread works on and the pointers it has are changed by no other  *)
(* thread.                                                                 *)
LEMMA Frame ==
  ASSUME Inv, NEW u \in Threads, Begin(u) \/ Continue(u),
         NEW t \in Threads, t # u
  PROVE  /\ pc'[t] = pc[t] /\ raw'[t] = raw[t] /\ result'[t] = result[t]
         /\ dest'[t] = dest[t] /\ dying'[t] = dying[t] /\ ref'[t] = ref[t]
         /\ \A h \in Handles :
              owner[h] = t => owner'[h] = t /\ ref'[h] = ref[h]
<1>0. TypeOK /\ Working(u)
  BY DEF Inv
<1>1. /\ pc'[t] = pc[t] /\ raw'[t] = raw[t] /\ result'[t] = result[t]
      /\ dest'[t] = dest[t] /\ dying'[t] = dying[t]
  BY <1>0, ZenonT(60)
     DEF TypeOK, Begin, Continue, New, InitMember, Constructed, Copy, Move,
         Drop, Give, AddMember, RemoveMember, Retain, Swap, Release, Delete,
         Keep, DestroyMember, Free, Goto
<1>2. \A h \in Handles : owner[h] = t => owner'[h] = t
  BY <1>0
     DEF TypeOK, Begin, Continue, New, InitMember, Constructed, Copy, Move,
         Drop, Give, AddMember, RemoveMember, Retain, Swap, Release, Delete,
         Keep, DestroyMember, Free
<1>3. ASSUME NEW x \in Pointer, x # u, x \notin Member,
             x \in Handles => owner[x] # u
      PROVE  ref'[x] = ref[x]
  <2>1. pc[u] = "construct" => raw[u] \in Objects
    BY <1>0 DEF Working
  <2>2. pc[u] = "unwind" => Innermost(u) \in Objects
    BY <1>0, Types DEF Working, Innermost
  <2>3. pc[u] = "swap" => owner[dest[u]] = u /\ dest[u] \in Handles
    BY <1>0 DEF Working
  <2>4. \A i \in Slots :
          /\ pc[u] = "construct" => x # <<raw[u], i>>
          /\ pc[u] = "unwind" => x # <<Innermost(u), i>>
    BY <1>3, <2>1, <2>2 DEF Member
  <2>5. CASE Begin(u)
    <3>1. \A h \in Handles, i \in Slots :
            ref[h] # Null => x # <<ref[h], i>>
      BY <1>0, <1>3, Types DEF Member
    <3> QED
      BY <1>0, <1>3, <2>5, <3>1
         DEF TypeOK, Begin, New, Copy, Move, Drop, Give, AddMember,
             RemoveMember
  <2>6. CASE Continue(u)
    BY <1>0, <1>3, <2>3, <2>4, <2>6
       DEF TypeOK, Continue, InitMember, Constructed, Retain, Swap, Release,
           Delete, Keep, DestroyMember, Free
  <2> QED
    BY <2>5, <2>6
<1>4. ref'[t] = ref[t]
  BY <1>0, <1>3, Types
<1>5. \A h \in Handles : owner[h] = t => ref'[h] = ref[h]
  BY <1>0, <1>3, Types
<1> QED
  BY <1>1, <1>2, <1>4, <1>5

(* The life of an object goes on in one direction.                         *)
LEMMA LifeStep ==
  ASSUME Inv, NEW u \in Threads, Begin(u) \/ Continue(u), NEW o \in Objects
  PROVE  /\ Gone(o) => Gone(o)'
         /\ life[o] = "alive" =>
              life'[o] = "alive" \/ (Delete(u) /\ o = raw[u])
<1>0. TypeOK /\ Working(u) /\ StackGone
  BY DEF Inv
<1>1. pc[u] = "unwind" => Gone(Innermost(u))
  <2>1. SUFFICES ASSUME pc[u] = "unwind" PROVE Gone(Innermost(u))
    OBVIOUS
  <2>2. dying[u] # <<>> /\ dying[u] \in Seq(Objects)
    BY <1>0, <2>1, Types DEF Working
  <2>3. Len(dying[u]) \in 1 .. Len(dying[u])
    BY <2>2, EmptySeq
  <2> QED
    BY <1>0, <2>3 DEF StackGone, Innermost
<1>2. ASSUME NEW h \in Handles, NEW p \in Objects, New(u, h, p)
      PROVE  \/ life'[o] = life[o]
             \/ life[o] = "none" /\ life'[o] = "alive"
  BY <1>0, <1>2 DEF New, TypeOK
<1>3. ASSUME Delete(u)
      PROVE  \/ life'[o] = life[o]
             \/ o = raw[u] /\ life'[o] = "dying"
  BY <1>0, <1>3 DEF Delete, TypeOK
<1>4. ASSUME Free(u)
      PROVE  \/ life'[o] = life[o]
             \/ Gone(o) /\ life'[o] = "freed"
  BY <1>0, <1>1, <1>4 DEF Free, TypeOK
<1>5. \/ life'[o] = life[o]
      \/ life[o] = "none" /\ life'[o] = "alive"
      \/ Delete(u) /\ o = raw[u] /\ life'[o] = "dying"
      \/ Gone(o) /\ life'[o] = "freed"
  BY <1>2, <1>3, <1>4
     DEF Begin, Continue, InitMember, Constructed, Copy, Move, Drop, Give,
         AddMember, RemoveMember, Retain, Swap, Release, Keep, DestroyMember
<1> QED
  BY <1>5 DEF Gone

LEMMA StackStep ==
  ASSUME Inv, NEW u \in Threads, Begin(u) \/ Continue(u)
  PROVE  StackGone'
<1>0. /\ TypeOK /\ Working(u) /\ StackGone
      /\ \A o \in Objects : Gone(o) => life'[o] \in {"dying", "freed"}
  BY LifeStep DEF Inv, Gone
<1>1. SUFFICES ASSUME NEW t \in Threads, NEW k \in 1 .. Len(dying'[t])
               PROVE  life'[dying'[t][k]] \in {"dying", "freed"}
  BY DEF StackGone, Gone
<1>2. dying[t] \in Seq(Objects)
  BY <1>0, Types
<1>3. CASE dying'[t] = dying[t]
  <2>1. dying[t][k] \in Objects /\ Gone(dying[t][k])
    BY <1>0, <1>1, <1>2, <1>3, ElementOfSeq DEF StackGone
  <2> QED
    BY <1>0, <1>3, <2>1
<1>4. CASE Delete(u) /\ t = u
  <2>1. raw[t] \in Objects
    BY <1>0, <1>4 DEF Delete, Working
  <2>2. /\ dying'[t] = Append(dying[t], raw[t])
        /\ life'[raw[t]] = "dying"
    BY <1>0, <1>4, <2>1 DEF Delete, TypeOK
  <2>3. CASE k = Len(dying[t]) + 1
    BY <1>2, <2>1, <2>2, <2>3, AppendProperties
  <2>4. CASE k \in 1 .. Len(dying[t])
    <3>1. dying'[t][k] = dying[t][k] /\ dying[t][k] \in Objects
      BY <1>2, <2>1, <2>2, <2>4, AppendProperties, ElementOfSeq
    <3>2. Gone(dying[t][k])
      BY <1>0, <2>4 DEF StackGone
    <3> QED
      BY <1>0, <3>1, <3>2
  <2> QED
    BY <1>1, <1>2, <2>1, <2>2, <2>3, <2>4, AppendProperties
<1>5. CASE Free(u) /\ t = u
  <2>1. dying'[t] = SubSeq(dying[t], 1, Len(dying[t]) - 1)
    BY <1>0, <1>5 DEF Free, TypeOK
  <2>2. Len(dying[t]) \in Nat \ {0}
    BY <1>0, <1>2, <1>5, EmptySeq DEF Free, Working
  <2>3. \A i \in 1 .. Len(dying[t]) - 1 : dying[t][i] \in Objects
    BY <1>2, <2>2, ElementOfSeq
  <2>4. /\ Len(dying'[t]) = Len(dying[t]) - 1
        /\ \A i \in 1 .. Len(dying[t]) - 1 : dying'[t][i] = dying[t][i]
    BY <2>1, <2>2, <2>3, SubSeqProperties
  <2>5. k \in 1 .. Len(dying[t]) - 1 /\ k \in 1 .. Len(dying[t])
    BY <1>1, <2>2, <2>4
  <2>6. Gone(dying[t][k]) /\ dying[t][k] \in Objects
    BY <1>0, <2>3, <2>5 DEF StackGone
  <2> QED
    BY <1>0, <2>4, <2>5, <2>6
<1>6. \/ dying'[t] = dying[t]
      \/ t = u /\ (Delete(u) \/ Free(u))
  BY <1>0
     DEF TypeOK, Begin, Continue, New, InitMember, Constructed, Copy, Move,
         Drop, Give, AddMember, RemoveMember, Retain, Swap, Release, Delete,
         Keep, DestroyMember, Free
<1> QED
  BY <1>3, <1>4, <1>5, <1>6

(* A pointer only gets what another pointer had, or what the thread was    *)
(* about to retain.                                                        *)
LEMMA WhereFrom ==
  ASSUME Inv, NEW u \in Threads, Begin(u) \/ Continue(u), NEW x \in Pointer
  PROVE  \/ ref'[x] = Null
         \/ \E y \in Pointer : ref'[x] = ref[y]
         \/ Busy(u) /\ ref'[x] = raw[u]
<1>0. ref \in [Pointer -> Objects \cup {Null}] /\ Working(u)
  BY DEF Inv, TypeOK
<1> DEFINE Goal == \/ ref'[x] = Null
                   \/ \E y \in Pointer : ref'[x] = ref[y]
                   \/ Busy(u) /\ ref'[x] = raw[u]
<1>1. u \in Pointer /\ \A h \in Handles : h \in Pointer
  BY DEF Pointer
<1>2. CASE UNCHANGED ref
  BY <1>2
<1>3. ASSUME NEW h \in Handles, NEW g \in Handles, Move(u, h, g)
      PROVE  Goal
  BY <1>0, <1>1, <1>3 DEF Move
<1>4. ASSUME NEW h \in Handles, Drop(u, h)
      PROVE  Goal
  BY <1>0, <1>1, <1>4 DEF Drop
<1>5. ASSUME NEW i \in Slots, NEW g \in Handles, InitMember(u, i, g)
      PROVE  Goal
  <2> DEFINE m == <<raw[u], i>>
  <2>1. ref' = [ref EXCEPT ![m] = ref[g]]
    BY <1>5 DEF InitMember
  <2> HIDE DEF m
  <2> QED
    BY <1>0, <1>1, <2>1
<1>6. CASE Retain(u)
  BY <1>0, <1>1, <1>6 DEF Retain, Busy
<1>7. CASE Swap(u)
  <2>1. dest[u] \in Pointer
    BY <1>0, <1>1, <1>7 DEF Swap, Working
  <2> QED
    BY <1>0, <1>1, <1>7, <2>1 DEF Swap
<1>8. CASE Release(u)
  BY <1>0, <1>1, <1>8 DEF Release
<1>9. ASSUME NEW i \in Slots, DestroyMember(u, i)
      PROVE  Goal
  <2> DEFINE m == <<Innermost(u), i>>
  <2>1. ref' = [ref EXCEPT ![m] = Null, ![u] = ref[m]]
    BY <1>9 DEF DestroyMember
  <2>2. m \in Pointer
    BY <1>0, <1>9, Types
       DEF Inv, DestroyMember, Working, Innermost, Member
  <2> HIDE DEF m
  <2> QED
    BY <1>0, <1>1, <2>1, <2>2
<1>10. ASSUME NEW h \in Handles, NEW i \in Slots, NEW g \in Handles,
              AddMember(u, h, i, g)
       PROVE  Goal
  <2> DEFINE m == <<ref[h], i>>
  <2>1. ref' = [ref EXCEPT ![m] = ref[g]]
    BY <1>10 DEF AddMember
  <2> HIDE DEF m
  <2> QED
    BY <1>0, <1>1, <2>1
<1>11. ASSUME NEW h \in Handles, NEW i \in Slots, RemoveMember(u, h, i)
       PROVE  Goal
  <2> DEFINE m == <<ref[h], i>>
  <2>1. ref' = [ref EXCEPT ![m] = Null, ![u] = ref[m]]
    BY <1>11 DEF RemoveMember
  <2>2. m \in Pointer
    BY <1>11, Types DEF Inv, RemoveMember, Member
  <2> HIDE DEF m
  <2> QED
    BY <1>0, <1>1, <2>1, <2>2
<1> QED
  BY <1>2, <1>3, <1>4, <1>5, <1>6, <1>7, <1>8, <1>9, <1>10, <1>11
     DEF Begin, Continue, New, Constructed, Copy, Give, Delete, Keep, Free

(* An object nobody holds and only one thread works on is left to it by    *)
(* the steps of every other thread.                                        *)
LEMMA Untouched ==
  ASSUME Inv, NEW u \in Threads, Begin(u) \/ Continue(u),
         NEW o \in Objects, Holding(o) = {}, life[o] = "alive",
         Busy(u) => raw[u] # o
  PROVE  /\ Holding(o)' = {}
         /\ Busy(u)' => raw'[u] # o
<1>0. TypeOK /\ Working(u)
  BY DEF Inv
<1>1. \A x \in Pointer : ref[x] # o
  BY DEF Holding
<1>2. /\ u \in Pointer /\ \A h \in Handles : h \in Pointer
  BY <1>0, Types
<1>3. \A x \in Pointer : ref'[x] # o
  BY <1>1, WhereFrom, NullAssumption
<1>4. Busy(u)' => raw'[u] # o
  <2>1. CASE Begin(u)
    <3>1. ASSUME NEW h \in Handles, NEW p \in Objects, New(u, h, p)
          PROVE  raw'[u] # o
      BY <1>0, <3>1 DEF TypeOK, New
    <3>2. ASSUME NEW h \in Handles, NEW g \in Handles, Copy(u, h, g)
          PROVE  raw'[u] # o
      BY <1>0, <1>1, <1>2, <3>2 DEF TypeOK, Copy
    <3>3. \/ \E h \in Handles, p \in Objects : New(u, h, p)
          \/ \E h, g \in Handles : Copy(u, h, g)
          \/ ~Busy(u)'
      BY <1>0, <2>1
         DEF TypeOK, Begin, Move, Drop, Give, AddMember, RemoveMember, Busy,
             Goto
    <3> QED
      BY <3>1, <3>2, <3>3
  <2>2. CASE Release(u)
    BY <1>0, <1>1, <1>2, <2>2 DEF TypeOK, Release
  <2>3. CASE Continue(u) /\ ~Release(u)
    BY <1>0, <2>3
       DEF TypeOK, Continue, InitMember, Constructed, Retain, Swap, Delete,
           Keep, DestroyMember, Free, Busy, Goto, Resume
  <2> QED
    BY <2>1, <2>2, <2>3
<1> QED
  BY <1>3, <1>4 DEF Holding

LEMMA DanglingStep ==
  ASSUME Inv, NEW u \in Threads, Begin(u) \/ Continue(u)
  PROVE  NoDanglingPointer'
<1>0. /\ TypeOK /\ Working(u) /\ NoDanglingPointer /\ Claims(u)
      /\ ref' \in [Pointer -> Objects \cup {Null}]
  BY CountStep DEF Inv, Pointers, Next
<1>1. SUFFICES ASSUME NEW x \in Pointer, ref'[x] # Null
               PROVE  life'[ref'[x]] = "alive"
  BY DEF NoDanglingPointer
<1>2. ref'[x] \in Objects
  BY <1>0, <1>1
<1>3. life[ref'[x]] = "alive"
  BY <1>0, <1>1, WhereFrom DEF NoDanglingPointer, Working
<1>4. ASSUME Delete(u)
      PROVE  ref'[x] # raw[u]
  BY <1>0, <1>4 DEF Delete, Claims, Sole, Busy, Holding
<1> QED
  BY <1>2, <1>3, <1>4, LifeStep

(* The thread that steps keeps to what it works on, ...                    *)
LEMMA WorkingOwn ==
  ASSUME Inv, NEW u \in Threads, Begin(u) \/ Continue(u)
  PROVE  Working(u)'
<1>0. /\ TypeOK /\ TypeOK' /\ Working(u) /\ NoDanglingPointer /\ Claims(u)
  BY TypeStep DEF Inv, Next
<1>1. /\ u \in Pointer /\ u \notin Handles
      /\ ref[u] \in Objects \cup {Null} /\ raw[u] \in Objects \cup {Null}
      /\ \A h \in Handles : /\ h \in Pointer /\ h # u
                            /\ ref[h] \in Objects \cup {Null}
      /\ dying[u] \in Seq(Objects)
  BY <1>0, Types
<1>2. \A o \in Objects :
        life[o] = "alive" /\ ~Delete(u) => life'[o] = "alive"
  BY LifeStep
<1>3. ASSUME NEW h \in Handles, NEW o \in Objects, New(u, h, o)
      PROVE  Working(u)'
  BY <1>0, <1>1, <1>3 DEF TypeOK, New, Working, Busy, Goto
<1>4. ASSUME NEW h \in Handles, NEW g \in Handles, Copy(u, h, g)
      PROVE  Working(u)'
  BY <1>0, <1>1, <1>4
     DEF TypeOK, NoDanglingPointer, Copy, Working, Busy, Goto
<1>5. ASSUME NEW h \in Handles, NEW g \in Handles, Move(u, h, g)
      PROVE  Working(u)'
  BY <1>0, <1>1, <1>5 DEF TypeOK, Move, Working, Busy, Goto
<1>6. ASSUME NEW h \in Handles, Drop(u, h)
      PROVE  Working(u)'
  BY <1>0, <1>1, <1>6 DEF TypeOK, Drop, Working, Busy, Goto
<1>7. ASSUME NEW h \in Handles, NEW v \in Threads, Give(u, h, v)
      PROVE  Working(u)'
  BY <1>0, <1>1, <1>7 DEF TypeOK, Give, Working, Busy, Goto
<1>8. ASSUME NEW i \in Slots, NEW g \in Handles, InitMember(u, i, g)
      PROVE  Working(u)'
  <2>1. raw[u] \in Objects
    BY <1>0, <1>8 DEF InitMember, Working
  <2>2. <<raw[u], i>> # u
    BY <2>1, Types, <1>0 DEF Member
  <2> QED
    BY <1>0, <1>1, <1>2, <1>8, <2>1, <2>2
       DEF TypeOK, InitMember, Working, Busy
<1>9. CASE Constructed(u)
  BY <1>0, <1>1, <1>9 DEF TypeOK, Constructed, Working, Busy, Goto
<1>10. CASE Retain(u)
  <2>1. raw[u] # Null
    BY <1>0, <1>10, NullAssumption DEF Retain, Working
  <2> QED
    BY <1>0, <1>1, <1>10, <2>1 DEF TypeOK, Retain, Working, Busy, Goto
<1>11. CASE Swap(u)
  <2>1. dest[u] \in Handles
    BY <1>0, <1>11 DEF Swap, Working
  <2>2. dest[u] # u /\ dest[u] \in Pointer
    BY <1>1, <2>1
  <2> QED
    BY <1>0, <1>1, <1>11, <2>1, <2>2 DEF TypeOK, Swap, Working, Busy, Goto
<1>12. CASE Release(u)
  <2>1. ref[u] \in Objects
    BY <1>0, <1>1, <1>12 DEF Release, Working
  <2> QED
    BY <1>0, <1>1, <1>12, <2>1
       DEF TypeOK, NoDanglingPointer, Release, Working, Busy, Goto
<1>13. CASE Delete(u)
  <2>1. raw[u] \in Objects
    BY <1>0, <1>13 DEF Delete, Working
  <2>2. dying'[u] = Append(dying[u], raw[u])
    BY <1>0, <1>13 DEF Delete, TypeOK
  <2>3. dying'[u] # <<>>
    BY <1>1, <2>1, <2>2, AppendProperties
  <2> QED
    BY <1>0, <1>1, <1>13, <2>3 DEF TypeOK, Delete, Working, Busy, Goto
<1>14. CASE Keep(u)
  BY <1>0, <1>1, <1>14 DEF TypeOK, Keep, Working, Busy, Goto, Resume
<1>15. ASSUME NEW i \in Slots, DestroyMember(u, i)
      PROVE  Working(u)'
  <2>1. Innermost(u) \in Objects
    BY <1>0, <1>1, <1>15 DEF DestroyMember, Working, Innermost
  <2>2. <<Innermost(u), i>> # u /\ <<Innermost(u), i>> \in Pointer
    BY <2>1, Types, <1>0 DEF Member
  <2> QED
    BY <1>0, <1>1, <1>15, <2>2 DEF TypeOK, DestroyMember, Working, Busy, Goto
<1>16. CASE Free(u)
  BY <1>0, <1>1, <1>16 DEF TypeOK, Free, Working, Busy, Goto, Resume
<1>17. ASSUME NEW h \in Handles, NEW i \in Slots, NEW g \in Handles,
              AddMember(u, h, i, g)
       PROVE  Working(u)'
  <2>1. <<ref[h], i>> # u
    BY <1>0, <1>1, <1>17, Types DEF AddMember, Member
  <2> QED
    BY <1>0, <1>1, <1>17, <2>1 DEF TypeOK, AddMember, Working, Busy
<1>18. ASSUME NEW h \in Handles, NEW i \in Slots, RemoveMember(u, h, i)
       PROVE  Working(u)'
  <2>1. <<ref[h], i>> # u /\ <<ref[h], i>> \in Pointer
    BY <1>0, <1>1, <1>18, Types DEF RemoveMember, Member
  <2> QED
    BY <1>0, <1>1, <1>18, <2>1 DEF TypeOK, RemoveMember, Working, Busy, Goto
<1> QED
  BY <1>3, <1>4, <1>5, <1>6, <1>7, <1>8, <1>9, <1>10, <1>11, <1>12, <1>13,
     <1>14, <1>15, <1>16, <1>17, <1>18 DEF Begin, Continue

(* ... and so do the others.                                               *)
LEMMA WorkingOther ==
  ASSUME Inv, NEW u \in Threads, Begin(u) \/ Continue(u),
         NEW t \in Threads, t # u
  PROVE  Working(t)'
<1>0. TypeOK /\ Working(t) /\ Working(u) /\ Claims(u)
  BY DEF Inv
<1>1. /\ pc'[t] = pc[t] /\ raw'[t] = raw[t] /\ result'[t] = result[t]
      /\ dest'[t] = dest[t] /\ dying'[t] = dying[t] /\ ref'[t] = ref[t]
      /\ \A h \in Handles : owner[h] = t => owner'[h] = t
  BY Frame
<1>2. ASSUME Busy(t)
      PROVE  life'[raw[t]] = "alive"
  <2>1. raw[t] \in Objects /\ life[raw[t]] = "alive"
    BY <1>0, <1>2 DEF Working, Busy
  <2>2. ASSUME Delete(u)
        PROVE  raw[t] # raw[u]
    BY <1>0, <1>2, <2>2 DEF Delete, Claims, Busy, Sole
  <2> QED
    BY <2>1, <2>2, LifeStep
<1> QED
  BY <1>0, <1>1, <1>2 DEF Working, Busy

(* A thread that steps has its object for itself or has a handle to it.    *)
LEMMA ClaimsOwn ==
  ASSUME Inv, NEW u \in Threads, Begin(u) \/ Continue(u)
  PROVE  Claims(u)'
<1>0. /\ TypeOK /\ Working(u) /\ NoDanglingPointer /\ Claims(u)
      /\ \A t \in Threads : Working(t) /\ Claims(t)
  BY DEF Inv
<1>1. \A t \in Threads \ {u} :
        /\ Busy(t)' <=> Busy(t)
        /\ raw'[t] = raw[t]
  BY Frame DEF Busy
<1>2. ASSUME NEW h \in Handles, NEW o \in Objects, New(u, h, o)
      PROVE  Claims(u)'
  <2>1. raw'[u] = o /\ ref' = ref /\ life[o] = "none"
    BY <1>0, <1>2 DEF New, TypeOK
  <2>2. \A x \in Pointer : ref[x] # o
    BY <1>0, <2>1, NullAssumption DEF NoDanglingPointer
  <2>3. \A t \in Threads \ {u} : Busy(t) => raw[t] # o
    BY <1>0, <2>1 DEF Working
  <2>4. Sole(u)'
    BY <1>1, <2>1, <2>2, <2>3 DEF Sole, Holding
  <2> QED
    BY <2>4 DEF Claims
<1>3. ASSUME NEW h \in Handles, NEW g \in Handles, Copy(u, h, g)
      PROVE  Claims(u)'
  <2>1. /\ pc'[u] = "retain" /\ raw'[u] = ref[g]
        /\ ref' = ref /\ owner' = owner /\ owner[g] = u
    BY <1>0, <1>3 DEF Copy, TypeOK, Goto
  <2> QED
    BY <2>1 DEF Claims, Backed
<1>4. ASSUME NEW i \in Slots, NEW g \in Handles, InitMember(u, i, g)
      PROVE  Claims(u)'
  <2>1. /\ pc[u] = "construct" /\ pc' = pc /\ raw' = raw
        /\ raw[u] \in Objects /\ Sole(u)
    BY <1>0, <1>4 DEF InitMember, Claims, Busy, Working
  <2>2. ref' = [ref EXCEPT ![<<raw[u], i>>] = ref[g]]
    BY <1>4 DEF InitMember
  <2>3. ref[g] # raw[u]
    BY <2>1, Types, <1>0 DEF Sole, Holding
  <2>4. \A x \in Pointer : ref'[x] # raw[u]
    BY <1>0, <2>1, <2>2, <2>3 DEF Sole, Holding, TypeOK
  <2>5. Sole(u)'
    BY <1>1, <2>1, <2>4 DEF Sole, Holding
  <2> QED
    BY <2>5 DEF Claims
<1>5. CASE Constructed(u)
  <2>1. Sole(u) /\ ref' = ref /\ raw' = raw
    BY <1>0, <1>5 DEF Constructed, Claims, Busy
  <2>2. Sole(u)'
    BY <1>1, <2>1 DEF Sole, Holding
  <2> QED
    BY <2>2 DEF Claims
<1>6. CASE Release(u)
  <2> DEFINE o == ref[u]
  <2>1. /\ o \in Objects /\ u \in Pointer
        /\ raw'[u] = o /\ pc'[u] = "released"
        /\ result'[u] = count[o] - 1 /\ count'[o] = count[o] - 1
        /\ \A h \in Handles : ref'[h] = ref[h] /\ h \in Pointer
    BY <1>0, <1>6, Types DEF Release, TypeOK, Working, Goto
  <2>2. SUFFICES ASSUME Busy(u)' PROVE Sole(u)'
    BY DEF Claims
  <2>3. count'[o] = 0
    BY <2>1, <2>2 DEF Busy
  <2>4. Hold(ref', o) = {}
    BY <2>1, <2>3, CountStep, HoldFinite, FS_EmptySet DEF Counted, Next
  <2>5. ASSUME NEW t \in Threads, t # u, Busy(t), raw[t] = o
        PROVE  FALSE
    <3>1. u \in Holding(raw[t])
      BY <2>1, <2>5 DEF Holding
    <3>2. Backed(t)
      BY <1>0, <2>5, <3>1 DEF Claims, Sole
    <3>3. PICK g \in Handles : ref[g] = o
      BY <2>5, <3>2 DEF Backed
    <3> QED
      BY <2>1, <2>4, <3>3 DEF Hold
  <2> QED
    BY <1>1, <2>1, <2>4, <2>5 DEF Sole, Holding, Hold
<1>7. CASE \/ Retain(u) \/ Swap(u) \/ Delete(u) \/ Keep(u) \/ Free(u)
           \/ \E h \in Handles :
                \/ \E g \in Handles : Move(u, h, g)
                \/ Drop(u, h)
                \/ \E v \in Threads : Give(u, h, v)
                \/ \E i \in Slots, g \in Handles : AddMember(u, h, i, g)
                \/ \E i \in Slots : RemoveMember(u, h, i)
           \/ \E i \in Slots : DestroyMember(u, i)
  <2>1. ~Busy(u)'
    BY <1>0, <1>7
       DEF Retain, Swap, Delete, Keep, Free, Move, Drop, Give, AddMember,
           RemoveMember, DestroyMember, Busy, Goto, Resume, TypeOK
  <2> QED
    BY <2>1 DEF Claims
<1> QED
  BY <1>2, <1>3, <1>4, <1>5, <1>6, <1>7 DEF Begin, Continue

LEMMA ClaimsOther ==
  ASSUME Inv, NEW u \in Threads, Begin(u) \/ Continue(u),
         NEW t \in Threads, t # u
  PROVE  Claims(t)'
<1>0. /\ TypeOK /\ Working(t) /\ Claims(t)
  BY DEF Inv
<1>1. \A v \in Threads \ {u} :
        /\ pc'[v] = pc[v] /\ raw'[v] = raw[v]
        /\ Busy(v)' <=> Busy(v)
  BY Frame DEF Busy
<1>2. SUFFICES ASSUME Busy(t)
               PROVE  Sole(t)' \/ (pc[t] = "retain" /\ Backed(t)')
  BY <1>1 DEF Claims
<1>3. raw[t] \in Objects /\ life[raw[t]] = "alive"
  BY <1>0, <1>2 DEF Working, Busy
<1>4. CASE Sole(t)
  <2>1. Busy(u) => raw[u] # raw[t]
    BY <1>4 DEF Sole
  <2>2. Holding(raw[t]) = {}
    BY <1>4 DEF Sole
  <2> DEFINE o == raw[t]
  <2>3. Holding(o) = {} /\ life[o] = "alive" /\ o \in Objects
        /\ (Busy(u) => raw[u] # o)
    BY <1>3, <2>1, <2>2
  <2>4. (\A x \in Pointer : ref'[x] # o) /\ (Busy(u)' => raw'[u] # o)
    <3> HIDE DEF o
    <3> QED
      BY <2>3, Untouched DEF Holding
  <2>5. raw'[t] = o
    BY <1>1
  <2> QED
    BY <1>1, <1>4, <2>4, <2>5 DEF Sole, Holding
<1>5. CASE pc[t] = "retain" /\ Backed(t)
  <2>1. PICK g \in Handles : owner[g] = t /\ ref[g] = raw[t]
    BY <1>5 DEF Backed
  <2>2. owner'[g] = t /\ ref'[g] = ref[g]
    BY <2>1, Frame
  <2> QED
    BY <1>1, <1>5, <2>1, <2>2 DEF Backed
<1> QED
  BY <1>0, <1>2, <1>4, <1>5 DEF Claims

LEMMA NextInv == Inv /\ [Next]_vars => Inv'
<1>1. CASE Inv /\ UNCHANGED vars
  BY <1>1
     DEF Inv, TypeOK, CountIsHolders, Holding, NoDanglingPointer, Working,
         Busy, Claims, Sole, Backed, StackGone, Gone, vars
<1>2. ASSUME Inv, NEW u \in Threads, Begin(u) \/ Continue(u)
      PROVE  Inv'
  <2>1. Next
    BY <1>2 DEF Next
  <2>2. TypeOK'
    BY <1>2, <2>1, TypeStep
  <2>3. CountIsHolders'
    BY <1>2, <2>1, CountStep DEF CountIsHolders, Holding, Counted, Hold
  <2>4. NoDanglingPointer'
    BY <1>2, DanglingStep
  <2>5. \A t \in Threads : Working(t)'
    BY <1>2, WorkingOwn, WorkingOther
  <2>6. \A t \in Threads : Claims(t)'
    BY <1>2, ClaimsOwn, ClaimsOther
  <2>7. StackGone'
    BY <1>2, StackStep
  <2> QED
    BY <2>2, <2>3, <2>4, <2>5, <2>6, <2>7 DEF Inv
<1> QED
  BY <1>1, <1>2 DEF Next

-----------------------------------------------------------------------------
(* No object is forgotten                                                  *)

(* The graph of the objects and their members has no ring: of any set of   *)
(* objects, one is not a member of the others.                             *)
NoRing ==
  \A S \in SUBSET Objects :
    S # {} => \E o \in S : \A m \in Member : m[1] \in S => ref[m] # o

(* A member is of a class at least as deep as the one of its object, ...   *)
MembersBelow ==
  \A m \in Member : ref[m] # Null => Depth[ref[m]] >= Depth[m[1]]

(* ... and the object has its memory.                                      *)
MembersInMemory ==
  \A m \in Member : ref[m] # Null => life[m[1]] \in {"alive", "dying"}

(* Every living object has a pointer or a thread that works on it.         *)
Attended(o) == Holding(o) # {} \/ \E t \in Threads : Busy(t) /\ raw[t] = o

AllAttended == \A o \in Objects : life[o] = "alive" => Attended(o)

MemoryInv ==
  /\ NoRing
  /\ MembersBelow
  /\ MembersInMemory
  /\ AllAttended
  /\ UnwoundByOne

LEMMA MemoryInit == Init => MemoryInv
<1> SUFFICES ASSUME Init PROVE MemoryInv
  OBVIOUS
<1>1. \A m \in Member : ref[m] = Null
  BY DEF Init, Pointer
<1>2. NoRing
  BY <1>1, NullAssumption DEF NoRing
<1>3. MembersBelow /\ MembersInMemory
  BY <1>1 DEF MembersBelow, MembersInMemory
<1>4. AllAttended
  BY DEF Init, AllAttended
<1>5. UnwoundByOne
  BY DEF Init, UnwoundByOne
<1> QED
  BY <1>2, <1>3, <1>4, <1>5 DEF MemoryInv

(* Members come from the constructor and from add_member.                  *)
LEMMA MemberStep ==
  ASSUME Inv, NEW u \in Threads, Begin(u) \/ Continue(u)
  PROVE  \/ \E i \in Slots, g \in Handles : InitMember(u, i, g)
         \/ \E h \in Handles, i \in Slots, g \in Handles :
              AddMember(u, h, i, g)
         \/ \A m \in Member : ref'[m] \in {ref[m], Null}
<1>0. /\ TypeOK /\ Working(u)
      /\ ref \in [Pointer -> Objects \cup {Null}]
      /\ \A m \in Member : m # u /\ m \notin Handles /\ m \in Pointer
  BY Types DEF Inv, TypeOK
<1>1. ASSUME NEW x, ref' = [ref EXCEPT ![x] = Null, ![u] = ref[x]]
      PROVE  \A m \in Member : ref'[m] \in {ref[m], Null}
  BY <1>0, <1>1
<1>2. CASE \E h \in Handles, g \in Handles : Move(u, h, g)
  BY <1>0, <1>2 DEF Move
<1>3. CASE \E h \in Handles : Drop(u, h)
  BY <1>1, <1>3 DEF Drop
<1>4. CASE \E h \in Handles, i \in Slots : RemoveMember(u, h, i)
  BY <1>1, <1>4 DEF RemoveMember
<1>5. CASE Retain(u) \/ Swap(u) \/ Release(u)
  BY <1>0, <1>5 DEF Retain, Swap, Release, Working
<1>6. CASE \E i \in Slots : DestroyMember(u, i)
  BY <1>1, <1>6 DEF DestroyMember
<1>7. CASE UNCHANGED ref
  BY <1>7
<1> QED
  BY <1>2, <1>3, <1>4, <1>5, <1>6, <1>7
     DEF Begin, Continue, New, Constructed, Copy, Give, Delete, Keep, Free

(* What the two do to the members.                                         *)
LEMMA NewMember ==
  ASSUME Inv, NEW u \in Threads,
         NEW o, NEW i \in Slots, NEW g \in Handles,
         \/ InitMember(u, i, g) /\ o = raw[u]
         \/ \E h \in Handles : AddMember(u, h, i, g) /\ o = ref[h]
  PROVE  /\ o \in Objects /\ life[o] = "alive"
         /\ ref[g] \in Objects /\ <<o, i>> \in Member
         /\ ref[<<o, i>>] = Null /\ life' = life
         /\ ref' = [ref EXCEPT ![<<o, i>>] = ref[g]]
         /\ Depth[ref[g]] >= Depth[o]
         /\ \/ Depth[ref[g]] > Depth[o]
            \/ Holding(o) = {} /\ ref[g] # o
<1>0. /\ TypeOK /\ Working(u) /\ NoDanglingPointer /\ Claims(u)
      /\ \A h \in Handles : h \in Pointer /\ ref[h] \in Objects \cup {Null}
  BY Types DEF Inv
<1>1. CASE InitMember(u, i, g) /\ o = raw[u]
  <2>1. o \in Objects /\ life[o] = "alive" /\ Sole(u)
    BY <1>0, <1>1 DEF InitMember, Working, Busy, Claims
  <2>2. Holding(o) = {} /\ ref[g] # o
    BY <1>0, <1>1, <2>1 DEF Sole, Holding
  <2> QED
    BY <1>0, <1>1, <2>1, <2>2 DEF InitMember, Member
<1>2. ASSUME NEW h \in Handles, AddMember(u, h, i, g), o = ref[h]
      PROVE  /\ o \in Objects /\ life[o] = "alive"
             /\ ref[g] \in Objects /\ <<o, i>> \in Member
             /\ ref[<<o, i>>] = Null /\ life' = life
             /\ ref' = [ref EXCEPT ![<<o, i>>] = ref[g]]
             /\ Depth[ref[g]] > Depth[o]
  BY <1>0, <1>2 DEF AddMember, NoDanglingPointer, Member
<1>3. \A d, e \in Nat : d > e => d >= e
  OBVIOUS
<1> QED
  BY <1>1, <1>2, <1>3, DepthAssumption

LEMMA NoRingStep ==
  ASSUME Inv, MemoryInv, NEW u \in Threads, Begin(u) \/ Continue(u)
  PROVE  NoRing'
<1>0. /\ \A m \in Member : m \in Pointer /\ m[1] \in Objects
      /\ ref \in [Pointer -> Objects \cup {Null}]
      /\ NoRing /\ MembersBelow
  BY DEF Inv, TypeOK, MemoryInv, Member, Pointer
<1>1. SUFFICES ASSUME NEW S \in SUBSET Objects, S # {}
               PROVE  \E o \in S : \A m \in Member :
                        m[1] \in S => ref'[m] # o
  BY DEF NoRing
<1>2. CASE \A m \in Member : ref'[m] \in {ref[m], Null}
  <2>1. PICK o \in S : \A m \in Member : m[1] \in S => ref[m] # o
    BY <1>0, <1>1 DEF NoRing
  <2> QED
    BY <1>2, <2>1, NullAssumption
<1>3. ASSUME NEW p, NEW i \in Slots, NEW g \in Handles,
             \/ InitMember(u, i, g) /\ p = raw[u]
             \/ \E h \in Handles : AddMember(u, h, i, g) /\ p = ref[h]
      PROVE  \E o \in S : \A m \in Member : m[1] \in S => ref'[m] # o
  <2> DEFINE q == ref[g]
             n == <<p, i>>
  <2>1. /\ p \in Objects /\ q \in Objects /\ n \in Member
        /\ ref' = [ref EXCEPT ![n] = q] /\ n[1] = p
        /\ Depth[q] > Depth[p] \/ (Holding(p) = {} /\ q # p)
    BY <1>3, NewMember
  <2> HIDE DEF q, n
  <2>2. \A m \in Member : ref'[m] = IF m = n THEN q ELSE ref[m]
    BY <1>0, <2>1
  <2>3. CASE Holding(p) = {} /\ q # p
    <3>1. CASE p \in S
      BY <1>0, <2>2, <2>3, <3>1 DEF Holding
    <3>2. CASE p \notin S
      <4>1. PICK o \in S : \A m \in Member : m[1] \in S => ref[m] # o
        BY <1>0, <1>1 DEF NoRing
      <4> QED
        BY <2>1, <2>2, <3>2, <4>1
    <3> QED
      BY <3>1, <3>2
  <2>4. CASE Depth[q] > Depth[p]
    <3>1. PICK d \in {Depth[o] : o \in S} :
                 \A o \in S : d <= Depth[o]
      <4> DEFINE D == {Depth[o] : o \in S}
      <4>1. D \subseteq Nat /\ D # {}
        BY <1>1, DepthAssumption
      <4>2. \A o \in S : Depth[o] \in D
        OBVIOUS
      <4> HIDE DEF D
      <4>3. \E d \in D : \A k \in D : d <= k
        BY <4>1, LeastElement
      <4> QED
        BY <4>2, <4>3 DEF D
    <3> DEFINE T == {o \in S : Depth[o] = d}
    <3>2. T \in SUBSET Objects /\ T # {}
      BY <3>1
    <3>3. PICK o \in T : \A m \in Member : m[1] \in T => ref[m] # o
      BY <1>0, <3>2 DEF NoRing
    <3>4. ASSUME NEW m \in Member, m[1] \in S, ref'[m] = o
          PROVE  FALSE
      <4>1. /\ d \in Nat /\ Depth[o] = d /\ Depth[m[1]] \in Nat
            /\ Depth[p] \in Nat /\ d <= Depth[m[1]] /\ o \in Objects
        BY <2>1, <3>1, <3>4, DepthAssumption
      <4>2. CASE m = n
        BY <2>1, <2>2, <2>4, <3>4, <4>1, <4>2
      <4>3. CASE m # n
        <5>1. ref[m] = o
          BY <2>2, <3>4, <4>3
        <5>2. Depth[o] >= Depth[m[1]]
          BY <1>0, <4>1, <5>1, NullAssumption DEF MembersBelow
        <5>3. Depth[m[1]] = d
          BY <4>1, <5>2
        <5> QED
          BY <3>3, <3>4, <5>1, <5>3
      <4> QED
        BY <4>2, <4>3
    <3> QED
      BY <3>4
  <2> QED
    BY <2>1, <2>3, <2>4
<1> QED
  BY <1>2, <1>3, MemberStep

LEMMA MembersBelowStep ==
  ASSUME Inv, MemoryInv, NEW u \in Threads, Begin(u) \/ Continue(u)
  PROVE  MembersBelow'
<1>0. /\ \A m \in Member : m \in Pointer
      /\ ref \in [Pointer -> Objects \cup {Null}] /\ MembersBelow
  BY DEF Inv, TypeOK, MemoryInv, Pointer
<1>1. ASSUME NEW p, NEW i \in Slots, NEW g \in Handles,
             \/ InitMember(u, i, g) /\ p = raw[u]
             \/ \E h \in Handles : AddMember(u, h, i, g) /\ p = ref[h]
      PROVE  MembersBelow'
  <2> DEFINE n == <<p, i>>
  <2>1. /\ n \in Member /\ n[1] = p
        /\ ref' = [ref EXCEPT ![n] = ref[g]] /\ Depth[ref[g]] >= Depth[p]
    BY <1>1, NewMember
  <2> HIDE DEF n
  <2> QED
    BY <1>0, <2>1 DEF MembersBelow
<1> QED
  BY <1>0, <1>1, MemberStep DEF MembersBelow

(* The steps in the life of an object                                      *)
LEMMA LifeChange ==
  ASSUME Inv, NEW u \in Threads, Begin(u) \/ Continue(u), NEW o \in Objects
  PROVE  \/ life'[o] = life[o]
         \/ life[o] = "none" /\ life'[o] = "alive" /\ Busy(u)' /\ raw'[u] = o
         \/ Delete(u) /\ o = raw[u] /\ life'[o] = "dying"
         \/ Free(u) /\ o = Innermost(u) /\ life'[o] = "freed"
<1>0. TypeOK /\ Working(u)
  BY DEF Inv
<1>1. ASSUME NEW h \in Handles, NEW p \in Objects, New(u, h, p)
      PROVE  \/ life'[o] = life[o]
             \/ life[o] = "none" /\ life'[o] = "alive" /\ Busy(u)'
                /\ raw'[u] = o
  BY <1>0, <1>1 DEF New, TypeOK, Busy, Goto
<1>2. CASE Delete(u)
  BY <1>0, <1>2 DEF Delete, TypeOK
<1>3. CASE Free(u)
  BY <1>0, <1>3 DEF Free, TypeOK
<1> QED
  BY <1>1, <1>2, <1>3
     DEF Begin, Continue, InitMember, Constructed, Copy, Move, Drop, Give,
         AddMember, RemoveMember, Retain, Swap, Release, Keep, DestroyMember

LEMMA MembersInMemoryStep ==
  ASSUME Inv, MemoryInv, NEW u \in Threads, Begin(u) \/ Continue(u)
  PROVE  MembersInMemory'
<1>0. /\ \A m \in Member : m \in Pointer /\ m[1] \in Objects
                          /\ \E i \in Slots : m = <<m[1], i>>
      /\ ref \in [Pointer -> Objects \cup {Null}] /\ MembersInMemory
  BY DEF Inv, TypeOK, MemoryInv, Pointer, Member
<1>1. SUFFICES ASSUME NEW m \in Member, ref'[m] # Null
               PROVE  life'[m[1]] \in {"alive", "dying"}
  BY DEF MembersInMemory
<1>2. ASSUME NEW p, NEW i \in Slots, NEW g \in Handles,
             \/ InitMember(u, i, g) /\ p = raw[u]
             \/ \E h \in Handles : AddMember(u, h, i, g) /\ p = ref[h]
      PROVE  life'[m[1]] \in {"alive", "dying"}
  <2> DEFINE n == <<p, i>>
  <2>1. /\ n \in Member /\ n[1] = p
        /\ ref' = [ref EXCEPT ![n] = ref[g]]
        /\ life' = life /\ life[p] = "alive"
    BY <1>2, NewMember
  <2> HIDE DEF n
  <2> QED
    BY <1>0, <1>1, <2>1 DEF MembersInMemory
<1>3. ASSUME ref'[m] \in {ref[m], Null}
      PROVE  life'[m[1]] \in {"alive", "dying"}
  <2>1. ref[m] # Null /\ life[m[1]] \in {"alive", "dying"}
    BY <1>0, <1>1, <1>3 DEF MembersInMemory
  <2>2. ASSUME Free(u)
        PROVE  m[1] # Innermost(u)
    BY <1>0, <2>1, <2>2 DEF Free
  <2> QED
    BY <1>0, <2>1, <2>2, LifeChange
<1> QED
  BY <1>2, <1>3, MemberStep

(* The counter tells whether there are pointers.                           *)
LEMMA CountAttends ==
  ASSUME CountIsHolders, NEW o \in Objects
  PROVE  Holding(o) = {} <=> count[o] = 0
<1>1. count[o] = Cardinality(Hold(ref, o)) /\ Hold(ref, o) = Holding(o)
  BY DEF CountIsHolders, Holding, Hold
<1> QED
  BY <1>1, HoldFinite, FS_EmptySet

LEMMA AttendedStep ==
  ASSUME Inv, Inv', MemoryInv, NEW u \in Threads, Begin(u) \/ Continue(u)
  PROVE  AllAttended'
<1>0. /\ TypeOK /\ Working(u) /\ CountIsHolders /\ CountIsHolders'
      /\ AllAttended
      /\ u \in Pointer /\ ref[u] \in Objects \cup {Null}
  BY Types DEF Inv, MemoryInv
<1> DEFINE Goal(o) == \/ count'[o] # 0
                      \/ \E t \in Threads : Busy(t)' /\ raw'[t] = o
<1>1. ASSUME NEW o \in Objects, life'[o] = "alive" PROVE Goal(o)
  <2>1. CASE life[o] = "none" /\ Busy(u)' /\ raw'[u] = o
    BY <2>1
  <2>2. CASE life[o] = "alive" /\ Holding(o) # {}
    <3>1. count[o] \in Nat /\ count[o] # 0
      BY <1>0, <2>2, CountAttends DEF TypeOK
    <3>2. CASE Release(u) /\ ref[u] = o
      <4>1. /\ pc'[u] = "released" /\ raw'[u] = o
            /\ count'[o] = count[o] - 1 /\ result'[u] = count[o] - 1
        BY <1>0, <3>2 DEF Release, Goto, TypeOK
      <4> QED
        BY <4>1 DEF Busy
    <3>3. CASE ~(Release(u) /\ ref[u] = o)
      <4>1. ASSUME NEW p, p \in Objects \cup {Null},
                   count' = [count EXCEPT ![p] = @ + 1]
            PROVE  count'[o] # 0
        BY <1>0, <3>1, <4>1 DEF TypeOK
      <4>2. ASSUME Release(u)
            PROVE  count'[o] # 0
        BY <1>0, <3>1, <3>3, <4>2 DEF TypeOK, Release
      <4>3. /\ raw[u] \in Objects \cup {Null}
            /\ \A g \in Handles : ref[g] \in Objects \cup {Null}
        BY <1>0, Types
      <4> QED
        BY <3>1, <4>1, <4>2, <4>3
           DEF Begin, Continue, New, InitMember, Constructed, Copy, Move, Drop,
               Give, AddMember, RemoveMember, Retain, Swap, Delete, Keep,
               DestroyMember, Free
    <3> QED
      BY <3>2, <3>3
  <2>3. ASSUME life[o] = "alive", NEW t \in Threads, Busy(t), raw[t] = o
        PROVE  Goal(o)
    <3>1. CASE t # u
      <4>1. Busy(t)' /\ raw'[t] = o
        BY <2>3, <3>1, Frame DEF Busy
      <4> QED
        BY <4>1
    <3>2. CASE t = u /\ Retain(u)
      <4>1. count'[o] = count[o] + 1 /\ count[o] \in Nat
        BY <1>0, <2>3, <3>2 DEF Retain, TypeOK
      <4> QED
        BY <4>1
    <3>3. CASE t = u /\ Delete(u)
      BY <1>0, <1>1, <2>3, <3>3 DEF Delete, TypeOK
    <3>4. CASE t = u /\ ~Retain(u) /\ ~Delete(u)
      <4>1. Busy(u)' /\ raw'[u] = raw[u]
        BY <1>0, <2>3, <3>4
           DEF Begin, Continue, New, InitMember, Constructed, Copy, Move, Drop,
               Give, AddMember, RemoveMember, Swap, Release, Keep,
               DestroyMember, Free, Busy, Goto, TypeOK
      <4> QED
        BY <2>3, <3>4, <4>1
    <3> QED
      BY <3>1, <3>2, <3>3, <3>4
  <2>4. life[o] = "alive" \/ (life[o] = "none" /\ Busy(u)' /\ raw'[u] = o)
    BY <1>1, LifeChange
  <2> QED
    BY <1>0, <2>1, <2>2, <2>3, <2>4 DEF AllAttended, Attended
<1>2. ASSUME NEW o \in Objects PROVE Holding(o)' = {} <=> count'[o] = 0
  <2>1. CountIsHolders'
    BY <1>0
  <2>2. count'[o] = Cardinality(Hold(ref', o)) /\ Hold(ref', o) = Holding(o)'
    BY <2>1 DEF CountIsHolders, Holding, Hold
  <2> QED
    BY <2>2, HoldFinite, FS_EmptySet
<1> QED
  BY <1>1, <1>2 DEF AllAttended, Attended

LEMMA UnwoundStep ==
  ASSUME Inv, MemoryInv, NEW u \in Threads, Begin(u) \/ Continue(u)
  PROVE  UnwoundByOne'
<1>0. /\ TypeOK /\ Working(u) /\ UnwoundByOne
      /\ \A t \in Threads : dying[t] \in Seq(Objects)
      /\ \A t \in Threads \ {u} : dying'[t] = dying[t]
  BY Types, Frame DEF Inv, MemoryInv
<1>1. \A t \in Threads : \A k \in 1 .. Len(dying[t]) :
        dying[t][k] \in Objects /\ life[dying[t][k]] = "dying"
  BY <1>0, ElementOfSeq DEF UnwoundByOne
<1>2. CASE Delete(u)
  <2> DEFINE r == raw[u]
  <2>1. /\ r \in Objects /\ life[r] = "alive"
        /\ life' = [life EXCEPT ![r] = "dying"]
        /\ dying'[u] = Append(dying[u], r)
    BY <1>0, <1>2 DEF Delete, Working, Busy, TypeOK
  <2> HIDE DEF r
  <2>2. /\ Len(dying'[u]) = Len(dying[u]) + 1 /\ Len(dying[u]) \in Nat
        /\ dying'[u][Len(dying[u]) + 1] = r
        /\ \A k \in 1 .. Len(dying[u]) : dying'[u][k] = dying[u][k]
    BY <1>0, <2>1, AppendProperties
  <2>3. \A t \in Threads : \A k \in 1 .. Len(dying'[t]) :
          \/ k \in 1 .. Len(dying[t]) /\ dying'[t][k] = dying[t][k]
          \/ t = u /\ k = Len(dying[u]) + 1 /\ dying'[t][k] = r
    BY <1>0, <2>2
  <2>4. \A t \in Threads : \A k \in 1 .. Len(dying[t]) :
          k \in 1 .. Len(dying'[t]) /\ dying'[t][k] = dying[t][k]
    BY <1>0, <2>2
  <2>5. ASSUME NEW o \in Objects, life'[o] = "dying"
        PROVE  \E t \in Threads : \E k \in 1 .. Len(dying'[t]) :
                 dying'[t][k] = o
    <3>1. CASE o = r
      BY <2>2, <3>1
    <3>2. CASE o # r
      <4>1. life[o] = "dying"
        BY <1>0, <2>1, <2>5, <3>2 DEF TypeOK
      <4>2. PICK t \in Threads : \E k \in 1 .. Len(dying[t]) : dying[t][k] = o
        BY <1>0, <4>1 DEF UnwoundByOne
      <4> QED
        BY <2>4, <4>2
    <3> QED
      BY <3>1, <3>2
  <2>6. ASSUME NEW t \in Threads, NEW v \in Threads,
               NEW k \in 1 .. Len(dying'[t]), NEW l \in 1 .. Len(dying'[v])
        PROVE  /\ life'[dying'[t][k]] = "dying"
               /\ dying'[t][k] = dying'[v][l] => t = v /\ k = l
    <3>1. life'[dying'[t][k]] = "dying"
      <4>1. CASE k \in 1 .. Len(dying[t]) /\ dying'[t][k] = dying[t][k]
        BY <1>0, <1>1, <2>1, <4>1 DEF TypeOK
      <4>2. CASE dying'[t][k] = r
        BY <1>0, <2>1, <4>2 DEF TypeOK
      <4> QED
        BY <2>3, <4>1, <4>2
    <3>2. \A x \in Threads : \A n \in 1 .. Len(dying[x]) : dying[x][n] # r
      BY <1>1, <2>1
    <3>3. dying'[t][k] = dying'[v][l] => t = v /\ k = l
      BY <1>0, <2>3, <3>2 DEF UnwoundByOne
    <3> QED
      BY <3>1, <3>3
  <2> QED
    BY <2>5, <2>6 DEF UnwoundByOne
<1>3. CASE Free(u)
  <2> DEFINE n == Len(dying[u])
             r == dying[u][n]
  <2>1. n \in Nat \ {0}
    BY <1>0, <1>3, EmptySeq DEF Free, Working
  <2>2. /\ dying'[u] = SubSeq(dying[u], 1, n - 1)
        /\ life' = [life EXCEPT ![r] = "freed"]
        /\ r \in Objects
    BY <1>0, <1>1, <1>3, <2>1 DEF Free, TypeOK, Innermost
  <2>3. /\ Len(dying'[u]) = n - 1
        /\ \A k \in 1 .. n - 1 : dying'[u][k] = dying[u][k]
    <3>1. \A k \in 1 .. n - 1 : dying[u][k] \in Objects
      BY <1>1, <2>1
    <3> QED
      BY <2>1, <2>2, <3>1, SubSeqProperties
  <2>4. \A t \in Threads : \A k \in 1 .. Len(dying'[t]) :
          /\ k \in 1 .. Len(dying[t]) /\ dying'[t][k] = dying[t][k]
          /\ t = u => k # n
    BY <1>0, <2>1, <2>3
  <2>5. \A t \in Threads : \A k \in 1 .. Len(dying[t]) :
          (t = u => k # n) =>
            /\ k \in 1 .. Len(dying'[t]) /\ dying'[t][k] = dying[t][k]
            /\ dying[t][k] # r
    BY <1>0, <2>1, <2>3 DEF UnwoundByOne
  <2>6. n \in 1 .. Len(dying[u])
    BY <2>1
  <2> HIDE DEF n
  <2>7. ASSUME NEW o \in Objects, life'[o] = "dying"
        PROVE  \E t \in Threads : \E k \in 1 .. Len(dying'[t]) :
                 dying'[t][k] = o
    <3>1. life[o] = "dying" /\ o # r
      BY <1>0, <2>2, <2>7 DEF TypeOK
    <3>2. PICK t \in Threads : \E k \in 1 .. Len(dying[t]) : dying[t][k] = o
      BY <1>0, <3>1 DEF UnwoundByOne
    <3> QED
      BY <2>5, <3>1, <3>2
  <2>8. ASSUME NEW t \in Threads, NEW v \in Threads,
               NEW k \in 1 .. Len(dying'[t]), NEW l \in 1 .. Len(dying'[v])
        PROVE  /\ life'[dying'[t][k]] = "dying"
               /\ dying'[t][k] = dying'[v][l] => t = v /\ k = l
    <3>1. /\ dying'[t][k] = dying[t][k] /\ dying'[v][l] = dying[v][l]
          /\ k \in 1 .. Len(dying[t]) /\ l \in 1 .. Len(dying[v])
          /\ dying[t][k] # r
      BY <2>4, <2>5
    <3>2. life'[dying[t][k]] = life[dying[t][k]]
      BY <1>0, <1>1, <2>2, <3>1 DEF TypeOK
    <3> QED
      BY <1>0, <1>1, <3>1, <3>2 DEF UnwoundByOne
  <2> QED
    BY <2>7, <2>8 DEF UnwoundByOne
<1>4. CASE ~Delete(u) /\ ~Free(u)
  <2>1. dying' = dying
    BY <1>4
       DEF Begin, Continue, New, InitMember, Constructed, Copy, Move, Drop,
           Give, AddMember, RemoveMember, Retain, Swap, Release, Keep,
           DestroyMember
  <2>2. \A o \in Objects : life'[o] = "dying" <=> life[o] = "dying"
    BY <1>4, LifeChange
  <2>3. \A t \in Threads : \A k \in 1 .. Len(dying[t]) :
          life'[dying[t][k]] = "dying"
    BY <1>1, <2>2
  <2> QED
    BY <1>0, <2>1, <2>2, <2>3 DEF UnwoundByOne
<1> QED
  BY <1>2, <1>3, <1>4

LEMMA MemoryNext == Inv /\ Inv' /\ MemoryInv /\ [Next]_vars => MemoryInv'
<1>1. ASSUME MemoryInv, UNCHANGED vars PROVE MemoryInv'
  <2>1. /\ ref' = ref /\ life' = life /\ pc' = pc /\ raw' = raw
        /\ result' = result /\ dying' = dying
    BY <1>1 DEF vars
  <2>2. NoRing'
    BY <1>1, <2>1 DEF MemoryInv, NoRing
  <2>5. MembersBelow' /\ MembersInMemory'
    BY <1>1, <2>1 DEF MemoryInv, MembersBelow, MembersInMemory
  <2>6. UnwoundByOne'
    BY <1>1, <2>1 DEF MemoryInv, UnwoundByOne
  <2>3. \A o \in Objects : Attended(o)' <=> Attended(o)
    BY <2>1 DEF Attended, Holding, Busy
  <2>4. AllAttended'
    BY <1>1, <2>1, <2>3 DEF MemoryInv, AllAttended
  <2> QED
    BY <2>2, <2>4, <2>5, <2>6 DEF MemoryInv
<1>2. ASSUME Inv, Inv', MemoryInv, NEW u \in Threads, Begin(u) \/ Continue(u)
      PROVE  MemoryInv'
  BY <1>2, NoRingStep, MembersBelowStep, MembersInMemoryStep, AttendedStep,
     UnwoundStep DEF MemoryInv
<1> QED
  BY <1>1, <1>2 DEF Next

-----------------------------------------------------------------------------
(* Theorems                                                                *)

LEMMA Invariance == Spec => []Inv
BY InitInv, NextInv, PTL DEF Spec

(* Every variable keeps its type; no counter becomes negative.             *)
THEOREM TypeCorrect == Spec => []TypeOK
<1>1. Inv => TypeOK
  BY DEF Inv
<1> QED
  BY <1>1, Invariance, PTL

(* An object's counter is the number of pointers to it.                    *)
THEOREM CountCorrect == Spec => []CountIsHolders
<1>1. Inv => CountIsHolders
  BY DEF Inv
<1> QED
  BY <1>1, Invariance, PTL

(* No pointer points to an object whose destructor has started.            *)
THEOREM PointersAreAlive == Spec => []NoDanglingPointer
<1>1. Inv => NoDanglingPointer
  BY DEF Inv
<1> QED
  BY <1>1, Invariance, PTL

(* An object is deleted by one thread, when nothing else can reach it.     *)
THEOREM DeletedOnce == Spec => []DeletedByOne
<1>1. Inv => DeletedByOne
  BY DEF Inv, Working, Claims, Sole, DeletedByOne, Busy
<1> QED
  BY <1>1, Invariance, PTL

LEMMA MemoryInvariance == Spec => [](Inv /\ MemoryInv)
BY Invariance, MemoryInit, MemoryNext, PTL DEF Spec

(* No objects keep one another alive with nothing else to hold them.       *)
THEOREM RingsAreImpossible == Spec => []NoGarbage
<1>1. ASSUME Inv, MemoryInv PROVE NoGarbage
  <2>1. SUFFICES ASSUME NEW S \in SUBSET {o \in Objects : life[o] = "alive"},
                        S # {}
                 PROVE  \E o \in S : Kept(o, S)
    BY DEF NoGarbage
  <2>2. S \in SUBSET Objects
    BY <2>1
  <2>3. PICK o \in S : \A m \in Member : m[1] \in S => ref[m] # o
    BY <1>1, <2>1, <2>2 DEF MemoryInv, NoRing
  <2>4. o \in Objects /\ life[o] = "alive"
    BY <2>1
  <2>5. ASSUME NEW x \in Holding(o)
        PROVE  x \in Member => x[1] \notin S /\ life[x[1]] # "freed"
    BY <1>1, <2>3, <2>4, <2>5, NullAssumption
       DEF MemoryInv, MembersInMemory, Holding
  <2> QED
    BY <1>1, <2>4, <2>5 DEF MemoryInv, AllAttended, Attended, Kept
<1> QED
  BY <1>1, MemoryInvariance, PTL

(* A dying object is on one stack, once: its memory is given back once.    *)
THEOREM FreedOnce == Spec => []UnwoundByOne
<1>1. MemoryInv => UnwoundByOne
  BY DEF MemoryInv
<1> QED
  BY <1>1, MemoryInvariance, PTL

(* What is deleted stays deleted and its counter is not touched again.     *)
THEOREM GoneForGood == Spec => NeverRevived
<1>1. Inv /\ Inv' /\ [Next]_vars
        => [\A o \in Objects : Gone(o) => count'[o] = 0 /\ Gone(o)']_vars
  <2> SUFFICES ASSUME Inv, Inv', [Next]_vars, NEW o \in Objects, Gone(o),
                      ~UNCHANGED vars
               PROVE  count'[o] = 0 /\ Gone(o)'
    OBVIOUS
  <2>1. Gone(o)'
    BY LifeStep DEF Next
  <2>2. Holding(o)' = {}
    BY <2>1, NullAssumption DEF Inv, NoDanglingPointer, Holding, Gone
  <2>3. count'[o] = 0
    BY <2>2, FS_EmptySet DEF Inv, CountIsHolders
  <2> QED
    BY <2>1, <2>3
<1> QED
  BY <1>1, Invariance, PTL DEF Spec, NeverRevived
=============================================================================
