------------------------- MODULE DefinitionFileProofs ------------------------
(***************************************************************************)
(* Theorems about DefinitionFile, for every schema, that is, every table   *)
(* of uses and every order of the calls of store that its assumptions      *)
(* admit, and every number of definitions and references.                  *)
(***************************************************************************)
EXTENDS DefinitionFile, FiniteSetTheorems, FunctionTheorems, WellFoundedInduction, TLAPS

-----------------------------------------------------------------------------
(* Facts about the operators of the model *)

LEMMA StageFact == \A k : Stage(k) \in Nat
<1>1. Len(Order) \in Nat
  BY KindsAssumption
<1> QED
  BY <1>1 DEF Stage

(* The order of the records is strict.                                     *)
LEMMA BeforeFact ==
  ASSUME NEW d, NEW e, d.ref \in Nat, e.ref \in Nat
  PROVE  /\ Before(d, e) => ~Before(e, d) /\ ~(d.kind = e.kind /\ d.ref = e.ref)
         /\ Before(d, e) /\ d.kind = e.kind => d.ref < e.ref
         /\ d.kind = e.kind /\ Stage(d.kind) # 0 /\ d.ref < e.ref => Before(d, e)
BY StageFact DEF Before

LEMMA DefinitionFact ==
  ASSUME NEW d, IsDefinition(d)
  PROVE  /\ d.kind \in Kinds
         /\ d.ref \in Ref /\ d.ref \in Nat
         /\ DOMAIN d.uses = DOMAIN Uses[d.kind]
         /\ \A m \in DOMAIN Uses[d.kind] : d.uses[m] \in Name \cup {Nothing}
         /\ d = [kind |-> d.kind, ref |-> d.ref, uses |-> d.uses]
         /\ NameOf(d) \in Name
<1>1. PICK k \in Kinds : d \in [kind : {k}, ref : Ref, uses : Targets(k)]
  BY DEF IsDefinition, DefinitionOf
<1>2. /\ d.kind = k /\ d.ref \in Ref
      /\ d.uses \in [DOMAIN Uses[k] -> Name \cup {Nothing}]
  BY <1>1 DEF Targets
<1>3. d = [kind |-> d.kind, ref |-> d.ref, uses |-> d.uses]
  BY <1>1
<1> QED
  BY <1>2, <1>3, BoundsAssumption DEF Ref, Name, NameOf

LEMMA RecordFact ==
  ASSUME NEW d
  PROVE  /\ Record(d).kind = d.kind
         /\ Record(d).ref = d.ref
         /\ Record(d).uses = [m \in DOMAIN d.uses |->
                                Kept(Meant(d, m), d.uses[Source[d.kind][m]])]
         /\ NameOf(Record(d)) = NameOf(d)
BY DEF Record, NameOf

(* What the accessors of a definition show is another definition, which    *)
(* refers to nothing but what the first refers to.                         *)
LEMMA SeenFact ==
  ASSUME NEW d, IsDefinition(d)
  PROVE  /\ Seen(d).kind = d.kind /\ Seen(d).ref = d.ref
         /\ Seen(d).uses = [m \in DOMAIN Uses[d.kind] |->
                              d.uses[Source[d.kind][m]]]
         /\ Seen(d) = [kind |-> d.kind, ref |-> d.ref, uses |-> Seen(d).uses]
         /\ NameOf(Seen(d)) = NameOf(d)
         /\ IsDefinition(Seen(d))
<1>1. /\ d.kind \in Kinds /\ d.ref \in Ref
      /\ DOMAIN d.uses = DOMAIN Uses[d.kind]
      /\ \A m \in DOMAIN Uses[d.kind] : d.uses[m] \in Name \cup {Nothing}
      /\ d = [kind |-> d.kind, ref |-> d.ref, uses |-> d.uses]
  BY DefinitionFact
<1> DEFINE shown == [m \in DOMAIN Uses[d.kind] |-> d.uses[Source[d.kind][m]]]
<1>2. Seen(d) = [kind |-> d.kind, ref |-> d.ref, uses |-> shown]
  BY <1>1 DEF Seen
<1>3. shown \in [DOMAIN Uses[d.kind] -> Name \cup {Nothing}]
  BY <1>1, SourceAssumption
<1>4. Seen(d) \in DefinitionOf(d.kind)
  BY <1>1, <1>2, <1>3 DEF DefinitionOf, Targets
<1> QED
  BY <1>1, <1>2, <1>4 DEF IsDefinition, NameOf

LEMMA NameFact ==
  ASSUME NEW d, NEW e
  PROVE  NameOf(d) = NameOf(e) <=> d.kind = e.kind /\ d.ref = e.ref
BY DEF NameOf

LEMMA SpaceFact ==
  ASSUME NEW k, NEW l
  PROVE  SameSpace(k, k) /\ (SameSpace(k, l) => SameSpace(l, k))
BY DEF SameSpace

-----------------------------------------------------------------------------
(* The invariant *)

(* In an id space a reference is given once; the supplements of a kind are *)
(* numbered from 0; what is searched for is there once.                    *)
GivenOnce ==
  \A d, e \in registry : SameSpace(d.kind, e.kind) /\ d.ref = e.ref => d = e

Numbered ==
  \A k \in Supplements :
    {d.ref : d \in OfKind(registry, k)} = 0 .. Position(registry, k) - 1

FoundOnce ==
  \A u \in Searched : \A i \in 1 .. Len(u) :
    \A d, e \in OfKind(registry, u[i]) : d = e

RegistryInv ==
  /\ IsFiniteSet(registry)
  /\ \A d \in registry : IsDefinition(d) /\ Closed(registry, d)
  /\ GivenOnce
  /\ Numbered
  /\ FoundOnce

(* The file has the definitions of the registry in the order Before, up to *)
(* where the writer is.                                                    *)
FileInv ==
  /\ phase \in {"define", "store", "read", "failed", "done"}
  /\ file \in Seq({Record(d) : d \in registry})
  /\ \A i \in 1 .. Len(file) : Stage(file[i].kind) # 0
  /\ \A i, j \in 1 .. Len(file) : i < j => Before(file[i], file[j])
  /\ \A i \in 1 .. Len(file) : \A e \in Unwritten : Before(file[i], e)
  /\ phase = "define" => file = <<>>
  /\ phase \in {"read", "failed", "done"} => Unwritten = {}

(* The reader has the definitions of the records it has read.              *)
Done(d) == \E i \in 1 .. position : NameOf(file[i]) = NameOf(d)

Passed == {d \in registry : d.kind \notin Unread /\ Done(d)}

ReadInv ==
  /\ position \in 0 .. Len(file)
  /\ phase \in {"define", "store"} => position = 0
  /\ phase = "done" => position = Len(file)
  /\ read = {Seen(d) : d \in Passed}
  /\ \A d \in read : Closed(read, d)

Inv == RegistryInv /\ FileInv /\ ReadInv

LEMMA NamesUnique ==
  ASSUME RegistryInv, NEW d \in registry, NEW e \in registry, NameOf(d) = NameOf(e)
  PROVE  d = e
BY NameFact, SpaceFact DEF RegistryInv, GivenOnce

(* What is read has the names of what it was written from.                 *)
LEMMA ReadFact ==
  ASSUME RegistryInv, ReadInv
  PROVE  /\ Names(read) = Names(Passed)
         /\ Passed \subseteq registry
         /\ \A k : OfKind(read, k) = {Seen(d) : d \in OfKind(Passed, k)}
<1>1. \A d \in Passed : d \in registry /\ IsDefinition(d)
  BY DEF RegistryInv, Passed
<1>2. \A d \in Passed : NameOf(Seen(d)) = NameOf(d) /\ Seen(d).kind = d.kind
  BY <1>1, SeenFact
<1>3. read = {Seen(d) : d \in Passed}
  BY DEF ReadInv
<1>4. Names(read) = Names(Passed)
  BY <1>2, <1>3 DEF Names
<1>5. \A k : OfKind(read, k) = {Seen(d) : d \in OfKind(Passed, k)}
  BY <1>2, <1>3 DEF OfKind
<1> QED
  BY <1>1, <1>4, <1>5

LEMMA FileFact ==
  ASSUME RegistryInv, FileInv, NEW i \in 1 .. Len(file)
  PROVE  \E d \in registry :
           /\ file[i] = Record(d)
           /\ file[i].kind = d.kind /\ file[i].ref = d.ref
           /\ NameOf(file[i]) = NameOf(d)
           /\ file[i].ref \in Nat
<1>1. file[i] \in {Record(d) : d \in registry}
  BY DEF FileInv
<1>2. PICK d \in registry : file[i] = Record(d)
  BY <1>1
<1>3. IsDefinition(d)
  BY DEF RegistryInv
<1>4. d.ref \in Nat
  BY <1>3, DefinitionFact
<1>5. Record(d).kind = d.kind /\ Record(d).ref = d.ref /\ NameOf(Record(d)) = NameOf(d)
  BY RecordFact
<1> QED
  BY <1>2, <1>4, <1>5

-----------------------------------------------------------------------------
(* The program *)

LEMMA RegisterInv ==
  ASSUME Inv, NEW F \in Families, NEW d \in Possible(F), Register(d)
  PROVE  Inv'
<1>0. RegistryInv /\ FileInv /\ ReadInv
  BY DEF Inv
<1>1. /\ phase = "define" /\ MayHave(d.kind, d.ref) /\ Closed(registry, d)
      /\ Searchable(d)
      /\ registry' = registry \cup {d}
      /\ phase' = phase /\ file' = file /\ position' = position /\ read' = read
  BY DEF Register
<1>2. IsDefinition(d)
  <2>1. Names(registry) \subseteq Name
    BY <1>0, DefinitionFact DEF RegistryInv, Names
  <2>2. PICK k \in F : d \in [kind : {k}, ref : Ref,
                              uses : [DOMAIN Uses[k] -> Names(registry) \cup {Nothing}]]
    BY DEF Possible
  <2>3. k \in Kinds
    BY KindsAssumption
  <2>4. d \in DefinitionOf(k)
    BY <2>1, <2>2 DEF DefinitionOf, Targets
  <2> QED
    BY <2>3, <2>4 DEF IsDefinition
<1>3. file = <<>> /\ position = 0 /\ read = {}
  <2>1. file = <<>> /\ position = 0
    BY <1>0, <1>1 DEF FileInv, ReadInv
  <2> QED
    BY <1>0, <2>1 DEF ReadInv, Passed, Done
<1>4. ASSUME NEW e \in registry, SameSpace(d.kind, e.kind), d.ref = e.ref
      PROVE  FALSE
  <2>1. IsDefinition(e)
    BY <1>0 DEF RegistryInv
  <2>2. CASE d.kind \in Supplements
    <3>1. e.kind = d.kind
      BY <1>4, <2>1, <2>2, MeaningAssumption, DefinitionFact
    <3>2. e.ref \in 0 .. Position(registry, d.kind) - 1
      BY <1>0, <2>2, <3>1 DEF RegistryInv, Numbered, OfKind
    <3>3. d.ref = Position(registry, d.kind)
      BY <1>1, <2>2 DEF MayHave
    <3> QED
      BY <1>4, <2>1, <3>2, <3>3, DefinitionFact
  <2>3. CASE d.kind \notin Supplements
    BY <1>1, <1>4, <2>3, SpaceFact DEF MayHave
  <2> QED
    BY <2>2, <2>3
<1>5. RegistryInv'
  <2>1. IsFiniteSet(registry')
    BY <1>0, <1>1, FS_AddElement DEF RegistryInv
  <2>2. ASSUME NEW e \in registry'
        PROVE  IsDefinition(e) /\ Closed(registry', e)
    <3>1. IsDefinition(e) /\ Closed(registry, e)
      BY <1>0, <1>1, <1>2 DEF RegistryInv
    <3>2. Names(registry) \subseteq Names(registry')
      BY <1>1 DEF Names
    <3> QED
      BY <3>1, <3>2 DEF Closed, InClosed
  <2>3. GivenOnce'
    BY <1>0, <1>1, <1>4, SpaceFact DEF RegistryInv, GivenOnce
  <2>4. Numbered'
    <3> SUFFICES ASSUME NEW k \in Supplements
                 PROVE  {e.ref : e \in OfKind(registry', k)}
                          = 0 .. Position(registry', k) - 1
      BY DEF Numbered
    <3>1. {e.ref : e \in OfKind(registry, k)} = 0 .. Position(registry, k) - 1
      BY <1>0 DEF RegistryInv, Numbered
    <3>2. CASE d.kind # k
      <4>1. OfKind(registry', k) = OfKind(registry, k)
        BY <1>1, <3>2 DEF OfKind
      <4> QED
        BY <3>1, <4>1 DEF Position
    <3>3. CASE d.kind = k
      <4>1. OfKind(registry', k) = OfKind(registry, k) \cup {d}
        BY <1>1, <3>3 DEF OfKind
      <4>2. d \notin OfKind(registry, k)
        BY <1>4, SpaceFact DEF OfKind
      <4>3. IsFiniteSet(OfKind(registry, k))
        BY <1>0, FS_Subset DEF RegistryInv, OfKind
      <4>4. /\ Position(registry, k) \in Nat
            /\ Position(registry', k) = Position(registry, k) + 1
        BY <4>1, <4>2, <4>3, FS_AddElement, FS_CardinalityType DEF Position
      <4>5. d.ref = Position(registry, k)
        BY <1>1, <3>3 DEF MayHave
      <4>6. {e.ref : e \in OfKind(registry', k)}
              = {e.ref : e \in OfKind(registry, k)} \cup {d.ref}
        BY <4>1
      <4> QED
        BY <3>1, <4>4, <4>5, <4>6
    <3> QED
      BY <3>2, <3>3
  <2>5. FoundOnce'
    BY <1>0, <1>1 DEF RegistryInv, FoundOnce, Searchable, OfKind
  <2> QED
    BY <2>1, <2>2, <2>3, <2>4, <2>5 DEF RegistryInv
<1>6. FileInv'
  BY <1>1, <1>3 DEF FileInv
<1>7. ReadInv'
  BY <1>1, <1>3 DEF ReadInv, Passed, Done
<1> QED
  BY <1>5, <1>6, <1>7 DEF Inv

-----------------------------------------------------------------------------
(* The writer *)

LEMMA DestroyInv == Inv /\ Destroy => Inv'
<1> SUFFICES ASSUME Inv, Destroy PROVE Inv'
  OBVIOUS
<1>1. RegistryInv'
  BY DEF Inv, Destroy, RegistryInv, GivenOnce, Numbered, FoundOnce
<1>2. FileInv'
  BY DEF Inv, Destroy, FileInv, Unwritten, Written
<1>3. ReadInv'
  BY DEF Inv, Destroy, ReadInv, Passed, Done
<1> QED
  BY <1>1, <1>2, <1>3 DEF Inv

LEMMA StoredInv == Inv /\ Stored => Inv'
<1> SUFFICES ASSUME Inv, Stored PROVE Inv'
  OBVIOUS
<1>1. RegistryInv'
  BY DEF Inv, Stored, RegistryInv, GivenOnce, Numbered, FoundOnce
<1>2. FileInv'
  BY DEF Inv, Stored, FileInv, Unwritten, Written
<1>3. ReadInv'
  BY DEF Inv, Stored, ReadInv, Passed, Done
<1> QED
  BY <1>1, <1>2, <1>3 DEF Inv

LEMMA StoreInv ==
  ASSUME Inv, NEW d \in registry, Store(d)
  PROVE  Inv'
<1>0. RegistryInv /\ FileInv /\ ReadInv
  BY DEF Inv
<1>1. /\ phase = "store" /\ d \in Unwritten
      /\ \A e \in Unwritten \ {d} : Before(d, e)
      /\ file' = Append(file, Record(d))
      /\ registry' = registry /\ phase' = phase /\ position' = position /\ read' = read
  BY DEF Store
<1>2. RegistryInv'
  BY <1>0, <1>1 DEF RegistryInv, GivenOnce, Numbered, FoundOnce
<1> DEFINE n == Len(file)
<1>3. /\ n \in Nat
      /\ file' \in Seq({Record(e) : e \in registry})
      /\ Len(file') = n + 1
      /\ \A i \in 1 .. n : file'[i] = file[i]
      /\ file'[n + 1] = Record(d)
  <2>1. Record(d) \in {Record(e) : e \in registry}
    OBVIOUS
  <2> QED
    BY <1>0, <1>1, <2>1 DEF FileInv
<1>4. /\ file'[n + 1].kind = d.kind /\ file'[n + 1].ref = d.ref
      /\ NameOf(file'[n + 1]) = NameOf(d)
  BY <1>3, RecordFact
<1>5. Unwritten' \subseteq Unwritten \ {d}
  BY <1>1, <1>3, <1>4 DEF Unwritten, Written
<1> HIDE DEF n
<1>6. FileInv'
  <2>1. \A i \in 1 .. Len(file') : Stage(file'[i].kind) # 0
    <3>1. Stage(d.kind) # 0
      BY <1>1 DEF Unwritten
    <3> QED
      BY <1>0, <1>3, <1>4, <3>1 DEF FileInv, n
  <2>2. ASSUME NEW i \in 1 .. Len(file'), NEW j \in 1 .. Len(file'), i < j
        PROVE  Before(file'[i], file'[j])
    <3>1. i \in 1 .. n /\ j \in 1 .. n + 1
      BY <1>3, <2>2
    <3>2. CASE j \in 1 .. n
      BY <1>0, <1>3, <2>2, <3>1, <3>2 DEF FileInv, n
    <3>3. CASE j = n + 1
      <4>1. Before(file[i], d)
        BY <1>0, <1>1, <3>1 DEF FileInv, n
      <4> QED
        BY <1>3, <1>4, <3>1, <3>3, <4>1 DEF Before
    <3> QED
      BY <1>3, <3>1, <3>2, <3>3
  <2>3. ASSUME NEW i \in 1 .. Len(file'), NEW e \in Unwritten'
        PROVE  Before(file'[i], e)
    <3>1. CASE i \in 1 .. n
      BY <1>0, <1>3, <1>5, <3>1 DEF FileInv, n
    <3>2. CASE i = n + 1
      <4>1. Before(d, e)
        BY <1>1, <1>5
      <4> QED
        BY <1>4, <3>2, <4>1 DEF Before
    <3> QED
      BY <1>3, <3>1, <3>2
  <2> QED
    BY <1>0, <1>1, <1>3, <2>1, <2>2, <2>3 DEF FileInv
<1>7. ReadInv'
  <2>1. position = 0
    BY <1>0, <1>1 DEF ReadInv
  <2> QED
    BY <1>0, <1>1, <1>3, <2>1 DEF ReadInv, Passed, Done
<1> QED
  BY <1>2, <1>6, <1>7 DEF Inv

-----------------------------------------------------------------------------
(* The reader *)

(* The next record is that of a definition, and the reader has passed      *)
(* exactly what the writer stores before it.                               *)
LEMMA NextFact ==
  ASSUME RegistryInv, FileInv, ReadInv, Reading
  PROVE  \E d \in registry :
           /\ NextRecord = Record(d)
           /\ Stage(d.kind) # 0
           /\ NameOf(file[position + 1]) = NameOf(d)
           /\ \A e \in registry :
                Stage(e.kind) # 0 => (Before(e, d) <=> Done(e))
<1>1. /\ phase = "read" /\ position \in Nat /\ Len(file) \in Nat
      /\ position + 1 \in 1 .. Len(file)
  BY DEF Reading, ReadInv, FileInv
<1>2. PICK d \in registry : /\ file[position + 1] = Record(d)
                            /\ file[position + 1].kind = d.kind
                            /\ file[position + 1].ref = d.ref
                            /\ NameOf(file[position + 1]) = NameOf(d)
                            /\ file[position + 1].ref \in Nat
  BY <1>1, FileFact
<1>3. Stage(d.kind) # 0
  BY <1>1, <1>2 DEF FileInv
<1>4. ASSUME NEW e \in registry, Stage(e.kind) # 0
      PROVE  Before(e, d) <=> Done(e)
  <2>1. Unwritten = {}
    BY <1>1 DEF FileInv
  <2>2. PICK i \in 1 .. Len(file) : NameOf(file[i]) = NameOf(e)
    BY <1>4, <2>1 DEF Unwritten, Written
  <2>3. e.ref \in Nat /\ d.ref \in Nat
    BY DefinitionFact DEF RegistryInv
  <2>4. file[i].kind = e.kind /\ file[i].ref = e.ref
    BY <2>2, NameFact
  <2>5. CASE i <= position
    <3>1. Done(e)
      BY <1>1, <2>2, <2>5 DEF Done
    <3>2. Before(file[i], file[position + 1])
      BY <1>1, <2>5 DEF FileInv
    <3> QED
      BY <1>2, <2>4, <3>1, <3>2 DEF Before
  <2>6. CASE i > position
    <3>1. ~Before(e, d)
      <4>1. CASE i = position + 1
        BY <1>2, <2>3, <2>4, <4>1, BeforeFact
      <4>2. CASE i > position + 1
        <5>1. Before(file[position + 1], file[i])
          BY <1>1, <4>2 DEF FileInv
        <5>2. Before(d, e)
          BY <1>2, <2>4, <5>1 DEF Before
        <5> QED
          BY <2>3, <5>2, BeforeFact
      <4> QED
        BY <1>1, <2>6, <4>1, <4>2
    <3>2. ASSUME NEW j \in 1 .. position, NameOf(file[j]) = NameOf(e)
          PROVE  FALSE
      <4>1. j \in 1 .. Len(file) /\ j < i
        BY <1>1, <2>6
      <4>2. Before(file[j], file[i])
        BY <4>1 DEF FileInv
      <4>3. file[j].kind = e.kind /\ file[j].ref = e.ref
        BY <3>2, NameFact
      <4>4. Before(e, e)
        BY <2>4, <4>2, <4>3 DEF Before
      <4> QED
        BY <2>3, <4>4, BeforeFact
    <3> QED
      BY <3>1, <3>2 DEF Done
  <2> QED
    BY <1>1, <2>5, <2>6
<1> QED
  BY <1>2, <1>3, <1>4 DEF NextRecord

(* What the record keeps of a use can only mean what the definition uses,  *)
(* and if that is stored before it, it is found.                           *)
LEMMA CandidatesFact ==
  ASSUME RegistryInv, FileInv, ReadInv, Reading,
         NEW d \in registry, NextRecord = Record(d),
         NEW m \in DOMAIN Uses[d.kind], NEW u, u = Uses[d.kind][m],
         NEW n, n = d.uses[Source[d.kind][m]], n # Nothing
  PROVE  /\ Kept(u, n) # Nothing
         /\ Candidates(u, Kept(u, n)) \subseteq {n}
         /\ \E i \in 1 .. Len(u) : u[i] = n.kind
         /\ StoredByThen(u, d.kind) /\ ~Forward(d, m)
              => n \in Candidates(u, Kept(u, n))
<1> DEFINE from == Source[d.kind][m]
<1>1. /\ d.kind \in Kinds /\ DOMAIN d.uses = DOMAIN Uses[d.kind]
      /\ from \in DOMAIN d.uses /\ Meant(d, from) = u
      /\ n \in Name /\ Closed(registry, d)
  <2>1. /\ d.kind \in Kinds /\ DOMAIN d.uses = DOMAIN Uses[d.kind]
        /\ Closed(registry, d)
        /\ \A v \in DOMAIN Uses[d.kind] : d.uses[v] \in Name \cup {Nothing}
    BY DefinitionFact DEF RegistryInv
  <2>2. from \in DOMAIN Uses[d.kind] /\ Uses[d.kind][from] = u
    BY <2>1, SourceAssumption
  <2> QED
    BY <2>1, <2>2 DEF Meant
<1>2. n \in Names(registry) /\ \E i \in 1 .. Len(u) : u[i] = n.kind
  BY <1>1 DEF Closed, InClosed
<1>3. PICK e \in registry : n = NameOf(e)
  BY <1>2 DEF Names
<1>4. n.kind = e.kind /\ n.ref = e.ref
  BY <1>3 DEF NameOf
<1> DEFINE x == Kept(u, n)
<1>5. x.ref = n.ref /\ (u \in Tagged => x.kind = n.kind)
  BY DEF Kept
<1>6. x # Nothing
  <2>1. n.ref \in Ref /\ n = [kind |-> n.kind, ref |-> n.ref]
    BY <1>1 DEF Name
  <2> QED
    BY <1>1, <2>1, NothingAssumption DEF Kept
<1> HIDE DEF x
<1>7. Names(read) = Names(Passed) /\ Passed \subseteq registry
  BY ReadFact
<1>8. Unambiguous(u) /\ u \in Seq(Kinds)
  BY <1>1, MeaningAssumption, KindsAssumption
<1>9. ASSUME NEW l \in Candidates(u, x)
      PROVE  l = n
  <2>1. PICK f \in registry : l = NameOf(f)
    BY <1>7 DEF Candidates, Names
  <2>2. l.kind = f.kind /\ l.ref = f.ref
    BY <2>1 DEF NameOf
  <2>3. PICK i \in 1 .. Len(u), j \in 1 .. Len(u) : u[i] = n.kind /\ u[j] = l.kind
    BY <1>2 DEF Candidates
  <2>4. CASE u \in Searched
    <3>1. i = 1 /\ j = 1
      <4>1. Len(u) = 1
        BY <1>8, <2>4 DEF Unambiguous
      <4>2. i \in 1 .. Len(u) /\ j \in 1 .. Len(u)
        BY <2>3
      <4> QED
        BY <4>1, <4>2
    <3>2. e \in OfKind(registry, u[i]) /\ f \in OfKind(registry, u[i])
      BY <1>4, <2>2, <2>3, <3>1 DEF OfKind
    <3>3. e = f
      BY <2>4, <3>2 DEF RegistryInv, FoundOnce
    <3> QED
      BY <1>3, <2>1, <3>3
  <2>5. CASE u \notin Searched
    <3>1. l.ref = n.ref
      BY <1>5, <2>5 DEF Candidates
    <3>2. SameSpace(n.kind, l.kind)
      <4>1. CASE u \in Tagged
        <5>1. l.kind = n.kind
          BY <1>5, <4>1 DEF Candidates
        <5> QED
          BY <5>1, SpaceFact
      <4>2. CASE u \notin Tagged
        BY <1>8, <2>3, <4>2 DEF Unambiguous
      <4> QED
        BY <4>1, <4>2
    <3>3. e = f
      BY <1>4, <2>2, <3>1, <3>2 DEF RegistryInv, GivenOnce
    <3> QED
      BY <1>3, <2>1, <3>3
  <2> QED
    BY <2>4, <2>5
<1>10. ASSUME StoredByThen(u, d.kind), ~Forward(d, m)
       PROVE  n \in Candidates(u, x)
  <2>1. e.kind \notin Unread /\ Stage(e.kind) \in 1 .. Stage(d.kind)
    BY <1>2, <1>4, <1>10 DEF StoredByThen
  <2>2. ASSUME Stage(e.kind) = Stage(d.kind)
        PROVE  e.ref < d.ref
    <3>1. SameSpace(n.kind, d.kind)
      BY <1>4, <2>1, <2>2 DEF SameSpace
    <3>2. e.ref \in Nat /\ d.ref \in Nat
      BY DefinitionFact DEF RegistryInv
    <3> QED
      BY <1>4, <1>10, <3>1, <3>2 DEF Forward
  <2>3. Before(e, d) /\ Stage(e.kind) # 0
    <3>1. Stage(e.kind) \in Nat /\ Stage(d.kind) \in Nat
      BY StageFact
    <3> QED
      BY <2>1, <2>2, <3>1 DEF Before
  <2>4. PICK g \in registry : /\ NextRecord = Record(g)
                              /\ NameOf(file[position + 1]) = NameOf(g)
                              /\ \A h \in registry :
                                   Stage(h.kind) # 0 => (Before(h, g) <=> Done(h))
    BY NextFact
  <2>5. g.kind = d.kind /\ g.ref = d.ref
    <3>1. Record(g).kind = g.kind /\ Record(g).ref = g.ref
      BY RecordFact
    <3>2. Record(d).kind = d.kind /\ Record(d).ref = d.ref
      BY RecordFact
    <3> QED
      BY <2>4, <3>1, <3>2
  <2>6. Done(e)
    BY <2>1, <2>3, <2>4, <2>5 DEF Before
  <2>7. e \in Passed
    BY <2>1, <2>6 DEF Passed
  <2> QED
    BY <1>2, <1>3, <1>5, <1>7, <2>7 DEF Candidates, Names
<1> QED
  BY <1>2, <1>6, <1>9, <1>10 DEF x

(* If a use is answered, then with what the definition uses.               *)
LEMMA AnswerFact ==
  ASSUME RegistryInv, FileInv, ReadInv, Reading,
         NEW d \in registry, NextRecord = Record(d),
         NEW m \in DOMAIN Uses[d.kind], NEW u, u = Uses[d.kind][m],
         NEW n, n = d.uses[Source[d.kind][m]], Answered(u, Kept(u, n))
  PROVE  /\ Answer(u, Kept(u, n)) = n
         /\ InClosed(read, u, n)
<1>1. CASE n = Nothing
  <2>1. Kept(u, n) = Nothing
    BY <1>1 DEF Kept
  <2> QED
    BY <1>1, <2>1 DEF Answer, InClosed
<1>2. CASE n # Nothing
  <2>1. /\ Kept(u, n) # Nothing
        /\ Candidates(u, Kept(u, n)) \subseteq {n}
        /\ \E i \in 1 .. Len(u) : u[i] = n.kind
    BY <1>2, CandidatesFact, SMTT(60)
  <2>2. Candidates(u, Kept(u, n)) = {n}
    BY <2>1 DEF Answered
  <2>3. n \in Names(read)
    BY <2>2 DEF Candidates
  <2>4. \E i \in 1 .. Len(u) : u[i] = n.kind /\ \A j \in 1 .. i - 1 : u[j] # n.kind
    <3> DEFINE T == {i \in 1 .. Len(u) : u[i] = n.kind}
    <3>1. T \subseteq Nat /\ T # {}
      BY <2>1, SMTT(30)
    <3>2. PICK i \in T : \A j \in T : ~(<<j, i>> \in OpToRel(<, Nat))
      BY <3>1, WFMin, NatLessThanWellFounded
    <3>3. \A j \in T : ~(j < i)
      BY <3>1, <3>2 DEF OpToRel
    <3>4. Len(u) \in Nat
      <4>1. d.kind \in Kinds
        BY DefinitionFact DEF RegistryInv
      <4> QED
        BY <4>1, KindsAssumption
    <3> QED
      BY <3>3, <3>4
  <2> DEFINE First(p) == \A l \in {n} :
                           \E i \in 1 .. Len(u) :
                             u[i] = p.kind /\ \A j \in 1 .. i - 1 : u[j] # l.kind
  <2>5. Answer(u, Kept(u, n)) = CHOOSE p \in {n} : First(p)
    BY <2>1, <2>2 DEF Answer
  <2>6. First(n)
    BY <2>4
  <2> HIDE DEF First
  <2>7. Answer(u, Kept(u, n)) = n
    BY <2>5, <2>6
  <2> QED
    BY <2>1, <2>3, <2>7 DEF InClosed
<1> QED
  BY <1>1, <1>2

(* A supplement gets the position it had in the registry of the writer,    *)
(* because the supplements of a kind are stored in their order.            *)
LEMMA PositionFact ==
  ASSUME RegistryInv, FileInv, ReadInv, Reading,
         NEW d \in registry, NextRecord = Record(d),
         d.kind \in Supplements, d.kind \notin Unread
  PROVE  Position(read, d.kind) = d.ref
<1> DEFINE k == d.kind
           Below == {e \in OfKind(registry, k) : e.ref < d.ref}
<1>1. PICK g0 \in registry : /\ NextRecord = Record(g0)
                             /\ Stage(g0.kind) # 0
                             /\ \A e \in registry :
                                  Stage(e.kind) # 0 => (Before(e, g0) <=> Done(e))
  BY NextFact
<1>2. g0.kind = k /\ g0.ref = d.ref
  <2>1. Record(g0).kind = g0.kind /\ Record(g0).ref = g0.ref
    BY RecordFact
  <2>2. Record(d).kind = d.kind /\ Record(d).ref = d.ref
    BY RecordFact
  <2> QED
    BY <1>1, <2>1, <2>2
<1>3. OfKind(Passed, k) = Below
  <2>1. \A e \in OfKind(registry, k) : Done(e) <=> e.ref < d.ref
    <3> SUFFICES ASSUME NEW e \in OfKind(registry, k)
                 PROVE  Done(e) <=> e.ref < d.ref
      OBVIOUS
    <3>1. e \in registry /\ e.kind = k
      BY DEF OfKind
    <3>2. Done(e) <=> Before(e, g0)
      BY <1>1, <1>2, <3>1
    <3>3. e.ref \in Nat /\ g0.ref \in Nat
      BY <3>1, DefinitionFact DEF RegistryInv
    <3>4. Before(e, g0) <=> e.ref < g0.ref
      BY <1>1, <1>2, <3>1, <3>3, BeforeFact
    <3> QED
      BY <1>2, <3>2, <3>4
  <2> QED
    BY <2>1 DEF OfKind, Passed
<1>4. {e.ref : e \in OfKind(registry, k)} = 0 .. Position(registry, k) - 1
  BY DEF RegistryInv, Numbered
<1>5. d.ref \in Nat /\ \A e \in OfKind(registry, k) : e.ref \in Nat
  BY DefinitionFact DEF RegistryInv, OfKind
<1>6. Position(registry, k) \in Nat /\ IsFiniteSet(OfKind(registry, k))
  <2>1. IsFiniteSet(OfKind(registry, k))
    BY FS_Subset DEF RegistryInv, OfKind
  <2> QED
    BY <2>1, FS_CardinalityType DEF Position
<1>7. {e.ref : e \in Below} = 0 .. d.ref - 1
  <2>1. d.ref \in 0 .. Position(registry, k) - 1
    <3>1. d \in OfKind(registry, k)
      BY DEF OfKind
    <3> QED
      BY <1>4, <3>1
  <2>2. ASSUME NEW r \in 0 .. d.ref - 1
        PROVE  \E e \in Below : e.ref = r
    <3>1. r \in 0 .. Position(registry, k) - 1
      BY <1>5, <1>6, <2>1
    <3>2. PICK e \in OfKind(registry, k) : e.ref = r
      BY <1>4, <3>1
    <3> QED
      BY <1>5, <3>2
  <2>3. ASSUME NEW e \in Below
        PROVE  e.ref \in 0 .. d.ref - 1
    BY <1>5
  <2> QED
    BY <2>2, <2>3
<1>8. \A e, f \in Below : e.ref = f.ref => e = f
  BY SpaceFact DEF RegistryInv, GivenOnce, OfKind
<1>9. Cardinality(Below) = d.ref
  <2> DEFINE b == [e \in Below |-> e.ref]
  <2>1. b \in Bijection(Below, 0 .. d.ref - 1)
    <3>1. b \in [Below -> 0 .. d.ref - 1]
      BY <1>7
    <3>2. \A e, f \in Below : b[e] = b[f] => e = f
      BY <1>8
    <3>3. \A r \in 0 .. d.ref - 1 : \E e \in Below : b[e] = r
      BY <1>7
    <3> QED
      BY <3>1, <3>2, <3>3, Fun_IsBij
  <2>2. IsFiniteSet(Below)
    BY <1>6, FS_Subset
  <2>3. Cardinality(Below) = Cardinality(0 .. d.ref - 1)
    <3> HIDE DEF b, Below
    <3> QED
      BY <2>1, <2>2, FS_Bijection DEF ExistsBijection
  <2>4. Cardinality(0 .. d.ref - 1) = d.ref
    BY <1>5, FS_Interval
  <2> QED
    BY <2>3, <2>4
<1>10. Cardinality(OfKind(read, k)) = Cardinality(Below)
  <2>1. OfKind(read, k) = {Seen(e) : e \in Below}
    BY <1>3, ReadFact
  <2>2. IsFiniteSet(Below)
    BY <1>6, FS_Subset
  <2>3. \A e \in Below : Seen(e).ref = e.ref
    BY SeenFact DEF RegistryInv, OfKind
  <2> DEFINE s == [e \in Below |-> Seen(e)]
  <2>4. s \in Bijection(Below, OfKind(read, k))
    <3>1. s \in [Below -> OfKind(read, k)]
      BY <2>1
    <3>2. \A e, f \in Below : s[e] = s[f] => e = f
      BY <1>8, <2>3
    <3>3. \A g \in OfKind(read, k) : \E e \in Below : s[e] = g
      BY <2>1
    <3> QED
      BY <3>1, <3>2, <3>3, Fun_IsBij
  <2> HIDE DEF s, Below
  <2> QED
    BY <2>2, <2>4, FS_Bijection DEF ExistsBijection
<1> QED
  BY <1>9, <1>10 DEF Position

(* So the callback creates the definition again, as its accessors show it. *)
LEMMA CreatedFact ==
  ASSUME RegistryInv, FileInv, ReadInv, Reading,
         NEW d \in registry, NextRecord = Record(d), d.kind \notin Unread,
         \A m \in DOMAIN NextRecord.uses : Found(m)
  PROVE  Created(NextRecord) = Seen(d) /\ Closed(read, Seen(d))
<1> DEFINE n(m) == d.uses[Source[d.kind][m]]
           u(m) == Uses[d.kind][m]
<1>1. /\ DOMAIN d.uses = DOMAIN Uses[d.kind]
      /\ Seen(d).kind = d.kind
      /\ Seen(d).uses = [m \in DOMAIN Uses[d.kind] |-> n(m)]
      /\ Seen(d) = [kind |-> d.kind, ref |-> d.ref, uses |-> Seen(d).uses]
  BY DefinitionFact, SeenFact DEF RegistryInv
<1>2. /\ NextRecord.kind = d.kind /\ NextRecord.ref = d.ref
      /\ NextRecord.uses = [m \in DOMAIN Uses[d.kind] |-> Kept(u(m), n(m))]
  BY <1>1, RecordFact DEF Meant
<1>3. ASSUME NEW m \in DOMAIN Uses[d.kind]
      PROVE  /\ Answer(Meant(NextRecord, m), NextRecord.uses[m]) = n(m)
             /\ InClosed(read, u(m), n(m))
  <2>1. /\ NextRecord.uses[m] = Kept(u(m), n(m))
        /\ Meant(NextRecord, m) = u(m)
        /\ Answered(u(m), NextRecord.uses[m])
    BY <1>2 DEF Found, Meant
  <2> QED
    BY <2>1, AnswerFact
<1>4. [m \in DOMAIN NextRecord.uses |->
         Answer(Meant(NextRecord, m), NextRecord.uses[m])] = Seen(d).uses
  <2> HIDE DEF n
  <2> QED
    BY <1>1, <1>2, <1>3
<1>5. (IF NextRecord.kind \in Supplements
        THEN Position(read, NextRecord.kind) ELSE NextRecord.ref) = d.ref
  BY <1>2, PositionFact
<1>6. Created(NextRecord) = Seen(d)
  BY <1>1, <1>2, <1>4, <1>5 DEF Created
<1>7. Closed(read, Seen(d))
  BY <1>1, <1>3 DEF Closed, Meant
<1> QED
  BY <1>6, <1>7

(* What is stored before the definition is found.                          *)
LEMMA InOrderFact ==
  ASSUME RegistryInv, FileInv, ReadInv
  PROVE  ResolvedInOrder
<1> SUFFICES ASSUME Reading, NEW d \in registry,
                    NextRecord = Record(d), d.kind \notin Unread,
                    NEW m \in DOMAIN d.uses,
                    Meant(d, m) \notin Late, ~Forward(d, m)
             PROVE  Found(m)
  BY DEF ResolvedInOrder
<1>1. Stage(d.kind) # 0
  <2>1. PICK g \in registry : NextRecord = Record(g) /\ Stage(g.kind) # 0
    BY NextFact
  <2>2. Record(g).kind = g.kind /\ Record(d).kind = d.kind
    BY RecordFact
  <2> QED
    BY <2>1, <2>2
<1>2. d.kind \in Kinds /\ DOMAIN d.uses = DOMAIN Uses[d.kind]
  BY DefinitionFact DEF RegistryInv
<1> DEFINE u == Uses[d.kind][m]
           n == d.uses[Source[d.kind][m]]
<1>3. /\ NextRecord.kind = d.kind /\ Meant(NextRecord, m) = u
      /\ m \in DOMAIN Uses[d.kind] /\ NextRecord.uses[m] = Kept(u, n)
  BY <1>2, RecordFact DEF Meant
<1>4. StoredByThen(u, d.kind)
  BY <1>1, <1>2, OrderAssumption DEF Meant
<1>5. CASE n = Nothing
  <2>1. Kept(u, n) = Nothing
    BY <1>5 DEF Kept
  <2> QED
    BY <1>3, <2>1 DEF Found, Answered
<1>6. CASE n # Nothing
  <2>1. n \in Candidates(u, Kept(u, n))
    BY <1>1, <1>3, <1>4, <1>6, CandidatesFact
  <2> QED
    BY <1>3, <2>1 DEF Found, Answered
<1> QED
  BY <1>5, <1>6

LEMMA ReadStepInv ==
  ASSUME Inv, Read \/ Skip
  PROVE  Inv'
<1>0. RegistryInv /\ FileInv /\ ReadInv /\ Reading
  BY DEF Inv, Read, Skip
<1>1. PICK d \in registry :
        NextRecord = Record(d) /\ NameOf(file[position + 1]) = NameOf(d)
  BY <1>0, NextFact
<1>2. NextRecord.kind = d.kind
  BY <1>1, RecordFact
<1>3. /\ registry' = registry /\ phase' = phase /\ file' = file
      /\ position' = position + 1
  BY DEF Read, Skip
<1>4. RegistryInv'
  BY <1>0, <1>3 DEF RegistryInv, GivenOnce, Numbered, FoundOnce
<1>5. FileInv'
  BY <1>0, <1>3 DEF FileInv, Unwritten, Written
<1>6. position' \in 0 .. Len(file') /\ phase' = "read" /\ position \in Nat
  BY <1>0, <1>3 DEF Reading, ReadInv, FileInv
<1>7. \A e \in registry : Done(e)' <=> Done(e) \/ e = d
  <2> SUFFICES ASSUME NEW e \in registry
               PROVE  Done(e)' <=> Done(e) \/ e = d
    OBVIOUS
  <2>1. Done(e)' <=> Done(e) \/ NameOf(file[position + 1]) = NameOf(e)
    BY <1>3, <1>6 DEF Done
  <2>2. NameOf(file[position + 1]) = NameOf(e) <=> e = d
    BY <1>0, <1>1, NamesUnique
  <2> QED
    BY <2>1, <2>2
<1>8. CASE Read
  <2>1. /\ d.kind \notin Unread
        /\ \A m \in DOMAIN NextRecord.uses : Found(m)
        /\ read' = read \cup {Created(NextRecord)}
    BY <1>2, <1>8 DEF Read
  <2>2. Created(NextRecord) = Seen(d) /\ Closed(read, Seen(d))
    BY <1>0, <1>1, <2>1, CreatedFact
  <2>3. Passed' = Passed \cup {d}
    BY <1>3, <1>7, <2>1 DEF Passed
  <2>4. read' = {Seen(e) : e \in Passed'}
    BY <1>0, <2>1, <2>2, <2>3 DEF ReadInv
  <2>5. \A e \in read' : Closed(read', e)
    <3>1. Names(read) \subseteq Names(read')
      BY <2>1 DEF Names
    <3>2. \A e \in read' : Closed(read, e)
      BY <1>0, <2>1, <2>2 DEF ReadInv
    <3> QED
      BY <3>1, <3>2 DEF Closed, InClosed
  <2>6. ReadInv'
    BY <1>6, <2>4, <2>5 DEF ReadInv
  <2> QED
    BY <1>4, <1>5, <2>6 DEF Inv
<1>9. CASE Skip
  <2>1. d.kind \in Unread /\ read' = read
    BY <1>2, <1>9 DEF Skip
  <2>2. Passed' = Passed
    BY <1>3, <1>7, <2>1 DEF Passed
  <2>3. ReadInv'
    BY <1>0, <1>6, <2>1, <2>2 DEF ReadInv, Closed
  <2> QED
    BY <1>4, <1>5, <2>3 DEF Inv
<1> QED
  BY <1>8, <1>9

LEMMA EndInv ==
  ASSUME Inv, Fail \/ Finish \/ UNCHANGED vars
  PROVE  Inv'
<1>1. /\ registry' = registry /\ file' = file /\ position' = position
      /\ read' = read
  BY DEF Fail, Finish, vars
<1>2. RegistryInv'
  BY <1>1 DEF Inv, RegistryInv, GivenOnce, Numbered, FoundOnce
<1>3. FileInv'
  BY <1>1 DEF Inv, FileInv, Unwritten, Written, Fail, Finish, Reading, vars
<1>4. ReadInv'
  BY <1>1 DEF Inv, ReadInv, Passed, Done, Fail, Finish, Reading, vars
<1> QED
  BY <1>2, <1>3, <1>4 DEF Inv

LEMMA InitInv == Init => Inv
<1> SUFFICES ASSUME Init PROVE Inv
  OBVIOUS
<1>1. RegistryInv
  <2>1. IsFiniteSet({}) /\ Cardinality({}) = 0
    BY FS_EmptySet
  <2>2. Numbered
    <3> SUFFICES ASSUME NEW k \in Supplements
                 PROVE  {d.ref : d \in OfKind(registry, k)}
                          = 0 .. Position(registry, k) - 1
      BY DEF Numbered
    <3>1. OfKind(registry, k) = {}
      BY DEF Init, OfKind
    <3> QED
      BY <2>1, <3>1 DEF Position
  <2> QED
    BY <2>1, <2>2 DEF Init, RegistryInv, GivenOnce, FoundOnce, OfKind
<1>2. FileInv
  BY DEF Init, FileInv
<1>3. ReadInv
  BY DEF Init, ReadInv, Passed
<1> QED
  BY <1>1, <1>2, <1>3 DEF Inv

LEMMA NextInv == Inv /\ [Next]_vars => Inv'
<1> SUFFICES ASSUME Inv, [Next]_vars PROVE Inv'
  OBVIOUS
<1>1. CASE Define
  BY <1>1, RegisterInv DEF Define
<1>2. CASE Write
  BY <1>2, StoreInv DEF Write
<1> QED
  BY <1>1, <1>2, DestroyInv, StoredInv, ReadStepInv, EndInv DEF Next, Finished

LEMMA InvHolds == Spec => []Inv
BY InitInv, NextInv, PTL DEF Spec

-----------------------------------------------------------------------------
(* Theorems *)

(* Registry, file and position are well formed, and no id space has a      *)
(* reference twice.                                                        *)
THEOREM TypeCorrect == Spec => []TypeOK
<1>1. ASSUME Inv
      PROVE  TypeOK
  <2>1. RegistryInv /\ FileInv /\ ReadInv
    BY <1>1 DEF Inv
  <2>2. \A i \in 1 .. Len(file) : \E d \in registry : file[i] = Record(d)
    BY <2>1, FileFact
  <2>3. \A d \in read : IsDefinition(d)
    BY <2>1, SeenFact DEF RegistryInv, ReadInv, Passed
  <2> QED
    BY <2>1, <2>2, <2>3 DEF TypeOK, RegistryInv, GivenOnce, FileInv, ReadInv
<1> QED
  BY <1>1, InvHolds, PTL

(* The reader finds whatever the order of the calls of store puts before   *)
(* the record that asks for it.                                            *)
THEOREM InOrderIsResolved == Spec => []ResolvedInOrder
<1>1. Inv => ResolvedInOrder
  BY InOrderFact DEF Inv
<1> QED
  BY <1>1, InvHolds, PTL

(* A look-up throws only out of a trace with a definition that uses what   *)
(* is stored behind it, by a call later in store or for its reference.     *)
THEOREM OnlyForwardUsesFail == Spec => []FailsOnlyBehind
<1> DEFINE Good == Inv /\ FailsOnlyBehind
<1>1. Init => Good
  BY InitInv DEF Init, FailsOnlyBehind
<1>2. Good /\ [Next]_vars => Good'
  <2> SUFFICES ASSUME Good, [Next]_vars PROVE Good'
    OBVIOUS
  <2>1. Inv'
    BY NextInv
  <2>2. CASE Fail
    <3>1. /\ Reading /\ NextRecord.kind \notin Unread
          /\ \E m \in DOMAIN NextRecord.uses : ~Found(m)
          /\ registry' = registry
      BY <2>2 DEF Fail
    <3>2. PICK d \in registry : NextRecord = Record(d)
      BY <3>1, NextFact DEF Inv
    <3>3. NextRecord.kind = d.kind /\ DOMAIN NextRecord.uses = DOMAIN d.uses
      BY <3>2, RecordFact
    <3>4. PICK m \in DOMAIN d.uses : ~Found(m)
      BY <3>1, <3>3
    <3>5. Meant(d, m) \in Late \/ Forward(d, m)
      BY <3>1, <3>2, <3>3, <3>4, InOrderFact DEF Inv, ResolvedInOrder
    <3>6. d.uses[Source[d.kind][m]] # Nothing
      <4>1. NextRecord.uses[m] = Kept(Meant(d, m), d.uses[Source[d.kind][m]])
        <5>1. NextRecord.uses = [v \in DOMAIN d.uses |->
                 Kept(Meant(d, v), d.uses[Source[d.kind][v]])]
          BY <3>2, RecordFact
        <5> QED
          BY <5>1
      <4> QED
        BY <3>4, <4>1 DEF Found, Answered, Kept
    <3> QED
      BY <2>1, <3>1, <3>5, <3>6 DEF FailsOnlyBehind, Forward, Meant
  <2>3. CASE ~Fail
    <3>1. phase' = "failed" => phase = "failed" /\ registry' = registry
      BY <2>3 DEF Next, Define, Register, Destroy, Write, Store, Stored, Read, Skip,
                  Finish, Finished, vars, Reading
    <3> QED
      BY <2>1, <3>1 DEF FailsOnlyBehind, Forward, Meant
  <2> QED
    BY <2>2, <2>3
<1>3. Good => FailsOnlyBehind
  OBVIOUS
<1> QED
  BY <1>1, <1>2, <1>3, PTL DEF Spec

(* Whatever the reader has is what the accessors of the writer's           *)
(* definitions show, with all it refers to.                                *)
THEOREM ReadIsRight == Spec => []ReadIsClosedPart
<1>1. Inv => ReadIsClosedPart
  BY DEF Inv, ReadInv, Passed, ReadIsClosedPart
<1> QED
  BY <1>1, InvHolds, PTL

(* What is read is what was written, with every member where it was, but   *)
(* for the kinds of which an accessor returns another member.              *)
THEOREM ReadAsItWasDefined == Spec => []ReadAsDefined
<1>1. ASSUME Inv, NEW d \in registry, d.kind \notin Misread
      PROVE  Seen(d) = d
  <2>1. d.kind \in Kinds /\ d \in DefinitionOf(d.kind)
    <3>1. IsDefinition(d)
      BY <1>1 DEF Inv, RegistryInv
    <3> QED
      BY <3>1 DEF IsDefinition, DefinitionOf
  <2>2. IsDefinition(d)
    BY <2>1 DEF IsDefinition
  <2>3. d.uses = [m \in DOMAIN Uses[d.kind] |-> d.uses[m]]
    BY <2>1 DEF DefinitionOf, Targets
  <2>4. \A m \in DOMAIN Uses[d.kind] : Source[d.kind][m] = m
    BY <1>1, <2>1, AccessorAssumption
  <2>5. Seen(d).uses = d.uses
    BY <2>2, <2>3, <2>4, SeenFact
  <2>6. d = [kind |-> d.kind, ref |-> d.ref, uses |-> d.uses]
    BY <2>2, DefinitionFact
  <2>7. Seen(d) = [kind |-> d.kind, ref |-> d.ref, uses |-> Seen(d).uses]
    BY <2>2, SeenFact
  <2> QED
    BY <2>5, <2>6, <2>7
<1>2. ASSUME Inv PROVE ReadAsDefined
  <2>1. read = {Seen(d) : d \in Passed} /\ Passed \subseteq registry
    BY <1>2 DEF Inv, ReadInv, Passed
  <2>2. ASSUME NEW d \in Passed, Seen(d).kind \notin Misread
        PROVE  Seen(d) \in registry
    <3>1. d \in registry /\ IsDefinition(d)
      BY <1>2, <2>1 DEF Inv, RegistryInv
    <3>2. Seen(d).kind = d.kind
      BY <3>1, SeenFact
    <3> QED
      BY <1>1, <1>2, <2>2, <3>1, <3>2
  <2> QED
    BY <2>1, <2>2 DEF ReadAsDefined
<1> QED
  BY <1>2, InvHolds, PTL

(* A reader that comes to the end has all that is stored and has a         *)
(* callback.                                                               *)
THEOREM TraceIsReadBack == Spec => []RoundTrip
<1> DEFINE Stays == {d \in registry : Stage(d.kind) # 0 /\ d.kind \notin Unread}
<1>1. ASSUME Inv, phase = "done"
      PROVE  Passed = Stays
  <2>1. RegistryInv /\ FileInv /\ ReadInv
    BY <1>1 DEF Inv
  <2>2. ASSUME NEW d \in registry
        PROVE  Done(d) <=> Stage(d.kind) # 0
    <3>1. Unwritten = {} /\ position = Len(file)
      BY <1>1, <2>1 DEF FileInv, ReadInv
    <3>2. Stage(d.kind) # 0 => Done(d)
      BY <3>1 DEF Unwritten, Written, Done
    <3>3. ASSUME NEW i \in 1 .. Len(file), NameOf(file[i]) = NameOf(d)
          PROVE  Stage(d.kind) # 0
      <4>1. file[i].kind = d.kind
        BY <3>3, NameFact
      <4> QED
        BY <2>1, <4>1 DEF FileInv
    <3> QED
      BY <3>1, <3>2, <3>3 DEF Done
  <2> QED
    BY <2>2 DEF Passed
<1>2. ASSUME Inv PROVE RoundTrip
  BY <1>1, <1>2 DEF RoundTrip, Inv, ReadInv
<1> QED
  BY <1>2, InvHolds, PTL
=============================================================================
