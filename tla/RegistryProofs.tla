--------------------------- MODULE RegistryProofs ----------------------------
(***************************************************************************)
(* Theorems about Registry, for every width of the references, every       *)
(* number of holders, keys and calls.                                      *)
(***************************************************************************)
EXTENDS Registry, SequenceTheorems, TLAPS

-----------------------------------------------------------------------------
(* Facts about the operators of the model *)

Maps(S) == [S -> Definition \cup {None}]

(* emplace changes at most the entry it is called for, and only if that    *)
(* was empty.                                                              *)
LEMMA EmplacedFact ==
  ASSUME NEW S, NEW map \in Maps(S), NEW x \in S, NEW d \in Definition
  PROVE  /\ Emplaced(map, x, d) \in Maps(S)
         /\ Emplaced(map, x, d)[x] = IF map[x] = None THEN d ELSE map[x]
         /\ \A y \in S \ {x} : Emplaced(map, x, d)[y] = map[y]
         /\ \A y \in S : map[y] # None => Emplaced(map, x, d)[y] = map[y]
BY NoneAssumption DEF Emplaced, Maps

(* What register_reference and next() do to the greatest known reference.  *)
LEMMA RegisteredFact ==
  ASSUME NEW old \in AnyRef, NEW r \in Ref
  PROVE  /\ Registered(old, r) \in Ref
         /\ r <= Registered(old, r)
         /\ old # Undefined => old <= Registered(old, r)
BY UndefinedAssumption DEF Registered, AnyRef, Ref

LEMMA FollowingFact ==
  ASSUME NEW old \in AnyRef, ~Exhausted(old)
  PROVE  /\ Following(old) \in Ref
         /\ old # Undefined => old < Following(old)
BY UndefinedAssumption DEF Following, Exhausted, AnyRef, Ref

-----------------------------------------------------------------------------
(* The invariant *)

(* The generator knows every reference of a definition and every one it    *)
(* has drawn.                                                              *)
Covers(old, r) == old # Undefined /\ r <= old

Covered ==
  /\ \A h \in Holders, r \in Ref : definitions[h][r] # None => Covers(oldMax, r)
  /\ \A i \in 1 .. Len(issued) : issued[i] \in Ref /\ Covers(oldMax, issued[i])

Inv == TypeOK /\ Covered /\ KeyedIsStored

(* Every step but one that burns a reference files a definition d in the   *)
(* holder h, and under a key what the key then has; the reference of d is  *)
(* drawn or registered.                                                    *)
Burns ==
  /\ Draw
  /\ UNCHANGED <<definitions, lookup>>

Draws(d) == Draw /\ d = New(NextRef)

Registers(h, d) ==
  /\ oldMax' = Registered(oldMax, d.ref)
  /\ UNCHANGED issued
  /\ careful' \in BOOLEAN
  /\ careful' => careful /\ (d.ref \notin Used \/ d \in Known(h))

Looks(h, k, d) ==
  /\ h \in Keyed
  /\ lookup' = [lookup EXCEPT ![h] = Emplaced(@, k, d)]

Files(h, d) ==
  /\ AddDefinition(h, d)
  /\ Draws(d) \/ Registers(h, d)
  /\ UNCHANGED lookup \/ \E k \in Keys : Looks(h, k, d)

LEMMA NewFact ==
  ASSUME TypeOK
  PROVE  /\ \A r \in Ref : New(r) \in Definition /\ New(r).ref = r
         /\ ~Exhausted(oldMax) => New(NextRef) \in Definition
         /\ \A h \in Holders : Passed(h) \subseteq Definition
<1>1. calls + 1 \in Nat
  BY CallsAssumption DEF TypeOK
<1>2. \A r \in Ref : New(r) \in Definition /\ New(r).ref = r
  BY <1>1 DEF New, Definition
<1>3. ~Exhausted(oldMax) => New(NextRef) \in Definition
  BY <1>2, FollowingFact DEF NextRef, TypeOK
<1>4. \A h \in Holders : Known(h) \subseteq Definition
  BY HoldersAssumption DEF Known, TypeOK, Map
<1> QED
  BY <1>2, <1>3, <1>4 DEF Passed

LEMMA StepCases ==
  ASSUME Inv, Next
  PROVE  Call /\ (Burns \/ \E h \in Holders, d \in Definition : Files(h, d))
<1>0. TypeOK
  BY DEF Inv
<1> DEFINE Goal == Burns \/ \E h \in Holders, d \in Definition : Files(h, d)
<1>1. Call
  BY DEF Next, OnRefs, OnKeys, Register, Create, CreateRef, EmplaceRef,
         RegisterKey, CreateKey, EmplaceKey, CreateKeyRef
<1>2. ASSUME NEW h \in Holders, NEW d \in Passed(h), Register(h, d)
      PROVE  Goal
  <2>1. d \in Definition
    BY <1>0, NewFact
  <2>2. Files(h, d)
    BY <1>0, <1>2 DEF Register, Files, Registers, Pass, TypeOK
  <2> QED
    BY <2>1, <2>2
<1>3. ASSUME NEW h \in Holders, Create(h)
      PROVE  Goal
  <2>1. New(NextRef) \in Definition
    BY <1>0, <1>3, NewFact DEF Create, Draw
  <2>2. Files(h, New(NextRef))
    BY <1>3 DEF Create, Files, Draws
  <2> QED
    BY <2>1, <2>2
<1>4. ASSUME NEW h \in Holders, NEW r \in Ref, CreateRef(h, r)
      PROVE  Goal
  <2>1. New(r) \in Definition /\ New(r).ref = r
    BY <1>0, NewFact
  <2>2. Files(h, New(r))
    BY <1>0, <1>4, <2>1 DEF CreateRef, Files, Registers, Choose, TypeOK
  <2> QED
    BY <2>1, <2>2
<1>5. ASSUME NEW h \in Keyed, NEW k \in Keys, NEW d \in Passed(h),
             RegisterKey(h, k, d)
      PROVE  Goal
  <2>1. d \in Definition
    BY <1>0, NewFact, HoldersAssumption
  <2>2. Files(h, d)
    BY <1>0, <1>5 DEF RegisterKey, Files, Registers, Looks, Pass, TypeOK
  <2> QED
    BY <2>1, <2>2, HoldersAssumption
<1>6. ASSUME NEW h \in Keyed, NEW k \in Keys, CreateKey(h, k)
      PROVE  Goal
  <2>1. CASE lookup[h][k] # None
    BY <1>6, <2>1 DEF CreateKey, Burns
  <2>2. CASE lookup[h][k] = None
    <3>1. New(NextRef) \in Definition
      BY <1>0, <1>6, NewFact DEF CreateKey, Draw
    <3>2. Files(h, New(NextRef))
      BY <1>6, <2>2 DEF CreateKey, Files, Draws, Looks
    <3> QED
      BY <3>1, <3>2, HoldersAssumption
  <2> QED
    BY <2>1, <2>2
<1>7. ASSUME NEW h \in Keyed, NEW k \in Keys, NEW r \in Ref,
             CreateKeyRef(h, k, r)
      PROVE  Goal
  <2> DEFINE map == Emplaced(lookup[h], k, New(r))
             d == map[k]
  <2>1. lookup[h] \in Maps(Keys) /\ New(r) \in Definition /\ New(r).ref = r
    BY <1>0, NewFact DEF TypeOK, Map, Maps
  <2>2. d = IF lookup[h][k] = None THEN New(r) ELSE lookup[h][k]
    BY <2>1, EmplacedFact
  <2>3. d \in Definition
    BY <2>1, <2>2 DEF Maps
  <2>4. /\ careful' \in BOOLEAN
        /\ careful' => careful /\ (d.ref \notin Used \/ d \in Known(h))
    BY <1>0, <1>7, <2>1, <2>2 DEF CreateKeyRef, Choose, Known, TypeOK
  <2>5. map = Emplaced(lookup[h], k, d)
    BY <2>2 DEF Emplaced
  <2>6. /\ lookup' = [lookup EXCEPT ![h] = map]
        /\ AddDefinition(h, d)
        /\ oldMax' = Registered(oldMax, d.ref)
        /\ UNCHANGED issued
    BY <1>7 DEF CreateKeyRef
  <2> HIDE DEF map, d
  <2>7. Files(h, d)
    BY <2>4, <2>5, <2>6 DEF Files, Registers, Looks
  <2> QED
    BY <2>3, <2>7, HoldersAssumption
<1> QED
  BY <1>1, <1>2, <1>3, <1>4, <1>5, <1>6, <1>7
     DEF Next, OnRefs, OnKeys, EmplaceRef, EmplaceKey

-----------------------------------------------------------------------------
(* The steps *)

(* A definition is filed where nothing was, and all else stays.            *)
LEMMA FilesFact ==
  ASSUME TypeOK, NEW h \in Holders, NEW d \in Definition, Files(h, d)
  PROVE  /\ definitions' \in [Holders -> Maps(Ref)]
         /\ \A g \in Holders, r \in Ref :
              definitions'[g][r] =
                IF g = h /\ r = d.ref /\ definitions[g][r] = None THEN d
                ELSE definitions[g][r]
         /\ lookup' \in [Keyed -> Maps(Keys)]
         /\ \A g \in Keyed, k \in Keys :
              \/ lookup'[g][k] = lookup[g][k]
              \/ g = h /\ lookup[g][k] = None /\ lookup'[g][k] = d
<1>1. d.ref \in Ref
  BY DEF Definition
<1>2. definitions \in [Holders -> Maps(Ref)] /\ lookup \in [Keyed -> Maps(Keys)]
  BY DEF TypeOK, Map, Maps
<1> DEFINE filed == Emplaced(definitions[h], d.ref, d)
<1>3. /\ filed \in Maps(Ref)
      /\ \A r \in Ref :
           filed[r] = IF r = d.ref /\ definitions[h][r] = None THEN d
                      ELSE definitions[h][r]
  <2>1. definitions[h] \in Maps(Ref)
    BY <1>2
  <2>2. /\ filed \in Maps(Ref)
        /\ filed[d.ref] = IF definitions[h][d.ref] = None THEN d
                          ELSE definitions[h][d.ref]
        /\ \A y \in Ref \ {d.ref} : filed[y] = definitions[h][y]
    BY <1>1, <2>1, EmplacedFact
  <2> QED
    BY <2>2
<1>4. definitions' = [definitions EXCEPT ![h] = filed]
  BY DEF Files, AddDefinition
<1> HIDE DEF filed
<1>5. /\ definitions' \in [Holders -> Maps(Ref)]
      /\ \A g \in Holders : definitions'[g] = IF g = h THEN filed
                                              ELSE definitions[g]
  BY <1>2, <1>3, <1>4
<1>6. CASE UNCHANGED lookup
  BY <1>2, <1>3, <1>5, <1>6
<1>7. ASSUME NEW k \in Keys, Looks(h, k, d)
      PROVE  /\ lookup' \in [Keyed -> Maps(Keys)]
             /\ \A g \in Keyed, x \in Keys :
                  \/ lookup'[g][x] = lookup[g][x]
                  \/ g = h /\ lookup[g][x] = None /\ lookup'[g][x] = d
  <2> DEFINE kept == Emplaced(lookup[h], k, d)
  <2>1. h \in Keyed /\ lookup' = [lookup EXCEPT ![h] = kept]
    BY <1>7 DEF Looks
  <2>2. lookup[h] \in Maps(Keys)
    BY <1>2, <2>1
  <2>3. /\ kept \in Maps(Keys)
        /\ kept[k] = IF lookup[h][k] = None THEN d ELSE lookup[h][k]
        /\ \A y \in Keys \ {k} : kept[y] = lookup[h][y]
    BY <2>2, EmplacedFact
  <2> HIDE DEF kept
  <2> QED
    BY <1>2, <2>1, <2>3
<1> QED
  BY <1>3, <1>5, <1>6, <1>7 DEF Files

(* The generator only gains references.                                    *)
LEMMA GeneratorFact ==
  ASSUME TypeOK, Covered, NEW r \in Ref,
         \/ Draw /\ r = NextRef
         \/ oldMax' = Registered(oldMax, r) /\ UNCHANGED issued
  PROVE  /\ oldMax' \in Ref
         /\ Covers(oldMax', r)
         /\ \A x \in Ref : Covers(oldMax, x) => Covers(oldMax', x)
         /\ issued' \in Seq(AnyRef)
         /\ \A i \in 1 .. Len(issued') : issued'[i] \in Ref /\ Covers(oldMax', issued'[i])
<1>1. oldMax \in AnyRef /\ issued \in Seq(AnyRef)
  BY DEF TypeOK
<1>2. Ref \subseteq AnyRef /\ Undefined \notin Ref /\ Ref \subseteq Nat
  BY UndefinedAssumption DEF Ref, AnyRef
<1>3. /\ oldMax' \in Ref
      /\ r <= oldMax'
      /\ oldMax # Undefined => oldMax <= oldMax'
  <2>1. CASE Draw /\ r = NextRef
    <3>1. Following(oldMax) \in Ref /\ oldMax' = Following(oldMax)
      BY <1>1, <2>1, FollowingFact DEF Draw, NextRef
    <3>2. oldMax # Undefined => oldMax < Following(oldMax)
      BY <1>1, <2>1, FollowingFact DEF Draw
    <3> QED
      BY <1>1, <2>1, <3>1, <3>2 DEF NextRef, Ref, AnyRef
  <2>2. CASE oldMax' = Registered(oldMax, r) /\ UNCHANGED issued
    BY <1>1, <2>2, RegisteredFact
  <2> QED
    BY <2>1, <2>2
<1>4. Covers(oldMax', r) /\ \A x \in Ref : Covers(oldMax, x) => Covers(oldMax', x)
  BY <1>1, <1>2, <1>3, UndefinedAssumption DEF Covers, AnyRef, Ref
<1>5. CASE UNCHANGED issued
  <2>1. \A i \in 1 .. Len(issued) : issued[i] \in Ref /\ Covers(oldMax', issued[i])
    BY <1>4 DEF Covered
  <2> QED
    BY <1>1, <1>3, <1>4, <1>5, <2>1
<1>6. CASE Draw /\ r = NextRef
  <2>1. issued' = Append(issued, r)
    BY <1>6 DEF Draw
  <2>2. /\ issued' \in Seq(AnyRef)
        /\ Len(issued') = Len(issued) + 1
        /\ issued'[Len(issued) + 1] = r
        /\ \A i \in 1 .. Len(issued) : issued'[i] = issued[i]
    BY <1>1, <1>2, <2>1
  <2>3. ASSUME NEW i \in 1 .. Len(issued')
        PROVE  issued'[i] \in Ref /\ Covers(oldMax', issued'[i])
    <3>1. Len(issued) \in Nat
      BY <1>1
    <3>2. CASE i \in 1 .. Len(issued)
      <4>1. issued[i] \in Ref /\ Covers(oldMax, issued[i])
        BY <3>2 DEF Covered
      <4>2. oldMax' # Undefined /\ issued[i] <= oldMax'
        BY <1>4, <4>1 DEF Covers
      <4> QED
        BY <2>2, <3>2, <4>1, <4>2 DEF Covers
    <3>3. CASE i = Len(issued) + 1
      <4>1. oldMax' # Undefined /\ r <= oldMax'
        BY <1>4 DEF Covers
      <4> QED
        BY <2>2, <3>3, <4>1 DEF Covers
    <3> QED
      BY <2>2, <2>3, <3>1, <3>2, <3>3
  <2> QED
    BY <1>3, <1>4, <2>2, <2>3
<1> QED
  BY <1>5, <1>6

LEMMA InitInv == Init => Inv
<1> SUFFICES ASSUME Init PROVE Inv
  OBVIOUS
<1>1. TypeOK
  BY CallsAssumption, UndefinedAssumption
     DEF Init, TypeOK, NewGenerator, AnyRef, Map
<1>2. Covered /\ KeyedIsStored
  BY HoldersAssumption DEF Init, Covered, KeyedIsStored
<1> QED
  BY <1>1, <1>2 DEF Inv

LEMMA NextInv == Inv /\ [Next]_vars => Inv'
<1> SUFFICES ASSUME Inv, [Next]_vars PROVE Inv'
  OBVIOUS
<1>1. CASE UNCHANGED vars
  <2>1. TypeOK'
    BY <1>1 DEF Inv, vars, TypeOK
  <2>2. Covered'
    BY <1>1 DEF Inv, vars, Covered, Covers
  <2>3. KeyedIsStored'
    BY <1>1 DEF Inv, vars, KeyedIsStored
  <2> QED
    BY <2>1, <2>2, <2>3 DEF Inv
<1>2. CASE Next
  <2>0. TypeOK /\ Covered /\ KeyedIsStored
    BY DEF Inv
  <2>1. calls' \in 0 .. MaxCalls
    BY <1>2, <2>0, StepCases, CallsAssumption DEF Call, TypeOK
  <2>2. CASE Burns
    <3>1. Draw /\ UNCHANGED <<definitions, lookup>>
      BY <2>2 DEF Burns
    <3>2. NextRef \in Ref
      BY <2>0, <3>1, FollowingFact DEF Draw, NextRef, TypeOK
    <3>3. /\ oldMax' \in Ref
          /\ \A x \in Ref : Covers(oldMax, x) => Covers(oldMax', x)
          /\ issued' \in Seq(AnyRef)
          /\ \A i \in 1 .. Len(issued') :
               issued'[i] \in Ref /\ Covers(oldMax', issued'[i])
      BY <2>0, <3>1, <3>2, GeneratorFact
    <3>4. TypeOK'
      <4>1. oldMax' \in AnyRef
        BY <3>3, UndefinedAssumption DEF AnyRef, Ref
      <4> QED
        BY <2>0, <2>1, <3>1, <3>3, <4>1 DEF TypeOK, Draw
    <3>5. Covered'
      BY <2>0, <3>1, <3>3 DEF Covered
    <3>6. KeyedIsStored'
      BY <2>0, <3>1 DEF KeyedIsStored
    <3> QED
      BY <3>4, <3>5, <3>6 DEF Inv
  <2>3. ASSUME NEW h \in Holders, NEW d \in Definition, Files(h, d)
        PROVE  Inv'
    <3>1. d.ref \in Ref
      BY DEF Definition
    <3>2. /\ oldMax' \in Ref
          /\ Covers(oldMax', d.ref)
          /\ \A x \in Ref : Covers(oldMax, x) => Covers(oldMax', x)
          /\ issued' \in Seq(AnyRef)
          /\ \A i \in 1 .. Len(issued') :
               issued'[i] \in Ref /\ Covers(oldMax', issued'[i])
      <4>1. Draws(d) => d.ref = NextRef
        BY <2>0, NewFact, FollowingFact DEF Draws, Draw, NextRef, TypeOK
      <4> QED
        BY <2>0, <2>3, <3>1, <4>1, GeneratorFact DEF Files, Draws, Registers
    <3>3. /\ definitions' \in [Holders -> Maps(Ref)]
          /\ \A g \in Holders, r \in Ref :
               definitions'[g][r] =
                 IF g = h /\ r = d.ref /\ definitions[g][r] = None THEN d
                 ELSE definitions[g][r]
      BY <2>0, <2>3, FilesFact
    <3>4. /\ lookup' \in [Keyed -> Maps(Keys)]
          /\ \A g \in Keyed, k \in Keys :
               \/ lookup'[g][k] = lookup[g][k]
               \/ g = h /\ lookup[g][k] = None /\ lookup'[g][k] = d
      BY <2>0, <2>3, FilesFact
    <3>5. TypeOK'
      <4>1. \A g \in Holders, r \in Ref :
              definitions'[g][r] # None => definitions'[g][r].ref = r
        BY <2>0, <3>3 DEF TypeOK
      <4>2. oldMax' \in AnyRef
        BY <3>2, UndefinedAssumption DEF AnyRef, Ref
      <4>3. careful' \in BOOLEAN
        BY <2>0, <2>3 DEF Files, Draws, Draw, Registers, TypeOK
      <4> QED
        BY <2>1, <3>2, <3>3, <3>4, <4>1, <4>2, <4>3 DEF TypeOK, Map, Maps
    <3>6. Covered'
      BY <2>0, <3>1, <3>2, <3>3 DEF Covered
    <3>7. KeyedIsStored'
      <4> SUFFICES ASSUME NEW g \in Keyed, NEW k \in Keys, lookup'[g][k] # None
                   PROVE  definitions'[g][lookup'[g][k].ref] # None
        BY DEF KeyedIsStored
      <4>0. g \in Holders /\ lookup'[g][k].ref \in Ref
        BY <3>4, HoldersAssumption DEF Maps, Definition
      <4>1. CASE lookup'[g][k] = lookup[g][k]
        BY <2>0, <3>3, <4>0, <4>1, NoneAssumption DEF KeyedIsStored
      <4>2. CASE g = h /\ lookup'[g][k] = d
        BY <3>3, <4>0, <4>2, NoneAssumption
      <4> QED
        BY <3>4, <4>1, <4>2
    <3> QED
      BY <3>5, <3>6, <3>7 DEF Inv
  <2> QED
    BY <1>2, <2>2, <2>3, StepCases
<1> QED
  BY <1>1, <1>2

-----------------------------------------------------------------------------
(* Theorems *)

LEMMA InvHolds == Spec => []Inv
BY InitInv, NextInv, PTL DEF Spec

(* The generator and the maps have their types, and every definition is    *)
(* filed under its own reference.                                          *)
THEOREM TypeCorrect == Spec => []TypeOK
<1>1. Inv => TypeOK
  BY DEF Inv
<1> QED
  BY <1>1, InvHolds, PTL

(* What is found by a key is also filed under its reference.               *)
THEOREM StoredByKey == Spec => []KeyedIsStored
<1>1. Inv => KeyedIsStored
  BY DEF Inv
<1> QED
  BY <1>1, InvHolds, PTL

(* next() never returns a reference that a definition has or that it has   *)
(* returned before: every one of them is at most old_max.                  *)
THEOREM Fresh == Spec => GeneratedAreFresh
<1> DEFINE Drawn == issued'[Len(issued')]
           Step == Len(issued') > Len(issued) =>
                     LET r == issued'[Len(issued')]
                     IN  /\ r \in Ref \ Used
                         /\ \A i \in 1 .. Len(issued) : issued[i] # r
<1>1. ASSUME Inv, Draw
      PROVE  Step
  <2>1. TypeOK /\ Covered
    BY <1>1 DEF Inv
  <2>2. /\ NextRef \in Ref
        /\ oldMax # Undefined => oldMax < NextRef
    BY <1>1, <2>1, FollowingFact DEF Draw, NextRef, TypeOK
  <2>3. issued \in Seq(AnyRef) /\ issued' = Append(issued, NextRef)
    BY <1>1, <2>1 DEF Draw, TypeOK
  <2>4. Drawn = NextRef
    BY <2>3
  <2>5. ~Covers(oldMax, NextRef)
    BY <2>1, <2>2, UndefinedAssumption DEF Covers, TypeOK, AnyRef, Ref
  <2>6. NextRef \notin Used
    BY <2>1, <2>2, <2>5 DEF Covered, Used
  <2>7. \A i \in 1 .. Len(issued) : issued[i] # NextRef
    BY <2>1, <2>5 DEF Covered
  <2> QED
    BY <2>2, <2>4, <2>6, <2>7
<1>2. ASSUME Inv, UNCHANGED issued
      PROVE  Step
  <2>1. Len(issued) \in Nat
    BY <1>2 DEF Inv, TypeOK
  <2> QED
    BY <1>2, <2>1
<1>3. Inv /\ Next => Draw \/ UNCHANGED issued
  BY StepCases DEF Burns, Files, Draws, Registers
<1>4. Inv /\ [Next]_vars => [Step]_vars
  BY <1>1, <1>2, <1>3
<1>5. [Step]_vars => [Len(issued') > Len(issued) =>
                        LET r == issued'[Len(issued')]
                        IN  /\ r \in Ref \ Used
                            /\ \A i \in 1 .. Len(issued) : issued[i] # r]_vars
  OBVIOUS
<1> QED
  BY <1>4, InvHolds, PTL DEF Spec, GeneratedAreFresh

(* No call of the registry takes back or replaces what another has filed.  *)
THEOREM Stays == Spec => StaysFound
<1> DEFINE Step == /\ \A h \in Holders, r \in Ref :
                        definitions[h][r] # None =>
                          definitions'[h][r] = definitions[h][r]
                   /\ \A h \in Keyed, k \in Keys :
                        lookup[h][k] # None => lookup'[h][k] = lookup[h][k]
<1>1. ASSUME Inv, Next
      PROVE  Step
  <2>1. TypeOK
    BY <1>1 DEF Inv
  <2>2. CASE Burns
    BY <2>2 DEF Burns
  <2>3. ASSUME NEW h \in Holders, NEW d \in Definition, Files(h, d)
        PROVE  Step
    <3>1. \A g \in Holders, r \in Ref :
            definitions'[g][r] =
              IF g = h /\ r = d.ref /\ definitions[g][r] = None THEN d
              ELSE definitions[g][r]
      BY <2>1, <2>3, FilesFact
    <3>2. \A g \in Keyed, k \in Keys :
            \/ lookup'[g][k] = lookup[g][k]
            \/ g = h /\ lookup[g][k] = None /\ lookup'[g][k] = d
      BY <2>1, <2>3, FilesFact
    <3> QED
      BY <3>1, <3>2
  <2> QED
    BY <1>1, <2>2, <2>3, StepCases
<1>2. Inv /\ [Next]_vars => [Step]_vars
  BY <1>1
<1> QED
  BY <1>2, InvHolds, PTL DEF Spec, StaysFound

-----------------------------------------------------------------------------
(* As long as the program only chooses free references *)

OneHolder ==
  \A g \in Holders, h \in Holders, r \in Ref :
    definitions[g][r] # None /\ definitions[h][r] # None => g = h

CarefulInv == Inv /\ KeyAgreesWithRef /\ (careful => OneHolder)

LEMMA StaysCareful == Inv /\ [Next]_vars /\ careful' => careful
BY StepCases DEF Burns, Files, Draws, Draw, Registers, vars

(* Nothing has the reference of what is filed, or it is filed again.       *)
LEMMA FiledFact ==
  ASSUME CarefulInv, careful', NEW h \in Holders, NEW d \in Definition, Files(h, d)
  PROVE  d.ref \notin Used \/ definitions[h][d.ref] = d
<1>0. TypeOK /\ Covered /\ KeyAgreesWithRef
  BY DEF CarefulInv, Inv
<1>1. CASE Draws(d)
  <2>1. /\ NextRef \in Ref /\ d.ref = NextRef
        /\ oldMax # Undefined => oldMax < NextRef
    BY <1>0, <1>1, NewFact, FollowingFact DEF Draws, Draw, NextRef, TypeOK
  <2>2. ~Covers(oldMax, NextRef)
    BY <1>0, <2>1, UndefinedAssumption DEF Covers, TypeOK, AnyRef, Ref
  <2> QED
    BY <1>0, <2>1, <2>2 DEF Covered, Used
<1>2. CASE d \in Known(h)
  <2>1. CASE \E r \in Ref : d = definitions[h][r] /\ d # None
    BY <1>0, <2>1 DEF TypeOK
  <2>2. CASE h \in Keyed /\ \E k \in Keys : d = lookup[h][k] /\ d # None
    <3>1. careful
      BY DEF Files, Draws, Draw, Registers
    <3> QED
      BY <1>0, <2>2, <3>1 DEF KeyAgreesWithRef
  <2> QED
    BY <1>2, <2>1, <2>2 DEF Known
<1> QED
  BY <1>1, <1>2 DEF Files, Registers

LEMMA CarefulNext ==
  ASSUME CarefulInv, [Next]_vars, careful'
  PROVE  KeyAgreesWithRef' /\ OneHolder'
<1>0. Inv /\ TypeOK /\ careful /\ KeyAgreesWithRef /\ OneHolder
  BY StaysCareful DEF CarefulInv, Inv
<1>2. CASE UNCHANGED <<definitions, lookup>>
  <2>1. KeyAgreesWithRef'
    BY <1>0, <1>2 DEF KeyAgreesWithRef
  <2>2. OneHolder'
    BY <1>0, <1>2 DEF OneHolder
  <2> QED
    BY <2>1, <2>2
<1>3. ASSUME NEW h \in Holders, NEW d \in Definition, Files(h, d)
      PROVE  KeyAgreesWithRef' /\ OneHolder'
  <2>1. d.ref \notin Used \/ definitions[h][d.ref] = d
    BY <1>3, FiledFact
  <2>2. d.ref \in Ref /\ d # None
    BY NoneAssumption DEF Definition
  <2>3. \A g \in Holders, r \in Ref :
          definitions'[g][r] =
            IF g = h /\ r = d.ref /\ definitions[g][r] = None THEN d
            ELSE definitions[g][r]
    BY <1>0, <1>3, FilesFact
  <2>4. /\ lookup' \in [Keyed -> Maps(Keys)]
        /\ \A g \in Keyed, k \in Keys :
             \/ lookup'[g][k] = lookup[g][k]
             \/ g = h /\ lookup[g][k] = None /\ lookup'[g][k] = d
    BY <1>0, <1>3, FilesFact
  <2>5. definitions'[h][d.ref] = d
    BY <2>1, <2>2, <2>3 DEF Used
  <2>6. KeyAgreesWithRef'
    <3> SUFFICES ASSUME NEW g \in Keyed, NEW k \in Keys, lookup'[g][k] # None
                 PROVE  definitions'[g][lookup'[g][k].ref] = lookup'[g][k]
      BY DEF KeyAgreesWithRef
    <3>1. g \in Holders /\ lookup'[g][k].ref \in Ref
      BY <2>4, HoldersAssumption DEF Maps, Definition
    <3>2. CASE lookup'[g][k] = lookup[g][k]
      BY <1>0, <2>3, <3>1, <3>2 DEF KeyAgreesWithRef
    <3>3. CASE g = h /\ lookup'[g][k] = d
      BY <2>5, <3>3
    <3> QED
      BY <2>4, <3>2, <3>3
  <2>7. OneHolder'
    <3> SUFFICES ASSUME NEW g \in Holders, NEW f \in Holders, NEW r \in Ref,
                        definitions'[g][r] # None, definitions'[f][r] # None
                 PROVE  g = f
      BY DEF OneHolder
    <3>1. CASE r = d.ref /\ d.ref \notin Used
      BY <2>2, <2>3, <3>1 DEF Used
    <3>2. CASE r # d.ref \/ definitions[h][d.ref] = d
      BY <1>0, <2>2, <2>3, <3>2 DEF OneHolder
    <3> QED
      BY <2>1, <3>1, <3>2
  <2> QED
    BY <2>6, <2>7
<1> QED
  BY <1>0, <1>2, <1>3, StepCases DEF Burns, vars

LEMMA CarefulHolds == Spec => []CarefulInv
<1>1. Init => CarefulInv
  <2>1. Init => KeyAgreesWithRef /\ OneHolder
    BY HoldersAssumption DEF Init, KeyAgreesWithRef, OneHolder
  <2> QED
    BY <2>1, InitInv DEF CarefulInv
<1>2. CarefulInv /\ [Next]_vars => CarefulInv'
  <2>1. ASSUME CarefulInv, [Next]_vars
        PROVE  CarefulInv'
    <3>1. Inv'
      BY <2>1, NextInv DEF CarefulInv
    <3>2. careful' => KeyAgreesWithRef' /\ OneHolder'
      BY <2>1, CarefulNext
    <3> QED
      BY <3>1, <3>2 DEF CarefulInv, KeyAgreesWithRef
  <2> QED
    BY <2>1
<1> QED
  BY <1>1, <1>2, PTL DEF Spec

(* While the program chooses only free references, the definition found by *)
(* a key is the one found by its reference.                                *)
THEOREM KeysAgree == Spec => []KeyAgreesWithRef
<1>1. CarefulInv => KeyAgreesWithRef
  BY DEF CarefulInv
<1> QED
  BY <1>1, CarefulHolds, PTL

(* And a reference names one definition among all holders.                 *)
THEOREM OneMeaning == Spec => []VariantsAgree
<1>1. CarefulInv => VariantsAgree
  BY DEF CarefulInv, OneHolder, VariantsAgree, Variant
<1> QED
  BY <1>1, CarefulHolds, PTL
=============================================================================
