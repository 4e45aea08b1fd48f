---------------------------- MODULE DefinitionFile ---------------------------
(***************************************************************************)
(* The way of the definitions of a trace through a file: a program fills   *)
(* the registry of otf2::writer::global, whose destructor stores it, and   *)
(* otf2::reader::reader fills its registry from the records.  A record     *)
(* names the definitions it uses by their references, and the callback     *)
(* that reads it looks them up at once: container::operator[] throws where *)
(* one is missing.  So the writer has to store every definition behind     *)
(* those it uses.                                                          *)
(*                                                                         *)
(* The OTF2 library, which is external, hands the records to the reader in *)
(* the order in which they were written.                                   *)
(***************************************************************************)
EXTENDS Naturals, Sequences, FiniteSets

CONSTANTS
  Kinds,        (* the kinds of definition                                 *)
  Uses,         (* the members of each kind that refer to definitions, and *)
                (* the kinds that may be meant, see DefinitionSchema       *)
  Source,       (* the member written that each member read comes from     *)
  Searched,     (* the uses that are answered by search                    *)
  Tagged,       (* the uses that are recorded with their kind              *)
  Supplements,  (* the kinds without an id space                           *)
  Unread,       (* the kinds the reader has no callback for                *)
  Order,        (* the kinds in the order of the calls of store            *)
  Families,     (* the sets of kinds that a program uses together          *)
  Misread,      (* the kinds of which an accessor returns another member   *)
  Late,         (* the uses that are looked up before they are stored      *)
  Nothing,      (* the undefined reference                                 *)
  MaxRef,       (* bound: the greatest reference                           *)
  MaxDefs       (* bound: the number of definitions                        *)

ASSUME BoundsAssumption == MaxRef \in Nat /\ MaxDefs \in Nat
ASSUME KindsAssumption ==
  /\ Order \in Seq(SUBSET Kinds)
  /\ \A F \in Families : F \subseteq Kinds
  /\ \A k \in Kinds : \A m \in DOMAIN Uses[k] : Uses[k][m] \in Seq(Kinds)

(* What is handed from member to member is of the right kind.              *)
ASSUME SourceAssumption ==
  \A k \in Kinds : \A m \in DOMAIN Uses[k] :
    /\ Source[k][m] \in DOMAIN Uses[k]
    /\ Uses[k][Source[k][m]] = Uses[k][m]

(* But for the kinds Misread, each accessor returns its own member.        *)
ASSUME AccessorAssumption ==
  \A k \in Kinds \ Misread : \A m \in DOMAIN Uses[k] : Source[k][m] = m

Ref == 0 .. MaxRef
Name == [kind : Kinds, ref : Ref]
Targets(k) == [DOMAIN Uses[k] -> Name \cup {Nothing}]

(* A definition of the kind k; for a supplement, which has no reference,   *)
(* ref is its position in the container.                                   *)
DefinitionOf(k) == [kind : {k}, ref : Ref, uses : Targets(k)]
IsDefinition(d) == \E k \in Kinds : d \in DefinitionOf(k)

NameOf(d) == [kind |-> d.kind, ref |-> d.ref]
Names(S) == {NameOf(d) : d \in S}

(* The undefined reference is none of the references a record may keep.    *)
ASSUME NothingAssumption == Nothing \notin Name \cup [ref : Ref]

VARIABLES
  registry,     (* reg_ of the writer: the definitions in it               *)
  phase,        (* define: the program runs; store: ~global runs; read:    *)
                (* read_definitions runs; failed: a callback has thrown;   *)
                (* done: definitions_done was called                       *)
  file,         (* the records, in the order in which they were written    *)
  position,     (* how many of them were read                              *)
  read          (* the registry of the reader, and what its callback saw   *)

vars == <<registry, phase, file, position, read>>

Init ==
  /\ registry = {}
  /\ phase = "define"
  /\ file = <<>>
  /\ position = 0
  /\ read = {}

-----------------------------------------------------------------------------
(* The program *)

(* The call of store that stores the kind, 0 if none does.                 *)
Stage(k) ==
  IF \E i \in 1 .. Len(Order) : k \in Order[i]
    THEN CHOOSE i \in 1 .. Len(Order) : k \in Order[i]
    ELSE 0

(* The kinds that one call merges are those that share an id space.        *)
SameSpace(k, l) == k = l \/ (Stage(k) = Stage(l) /\ Stage(k) # 0)

(* What a record keeps says which definition is meant: a supplement shares *)
(* its call of store with no other kind, a search is for one kind, and     *)
(* where the kind is not recorded, the kinds that may be meant share an id *)
(* space.                                                                  *)
Unambiguous(u) ==
  /\ u \in Searched => Len(u) = 1
  /\ u \notin Tagged => \A i, j \in 1 .. Len(u) : SameSpace(u[i], u[j])

ASSUME MeaningAssumption ==
  /\ \A k \in Supplements, l \in Kinds : SameSpace(k, l) => k = l
  /\ \A k \in Kinds : \A m \in DOMAIN Uses[k] : Unambiguous(Uses[k][m])

(* The kinds that may be meant by the use u have callbacks and are stored  *)
(* by no later call than the kind k, whose definitions have it.            *)
StoredByThen(u, k) ==
  \A i \in 1 .. Len(u) :
    u[i] \notin Unread /\ Stage(u[i]) \in 1 .. Stage(k)

ASSUME OrderAssumption ==
  \A k \in Kinds \ Unread :
    Stage(k) # 0 =>
      \A m \in DOMAIN Uses[k] :
        Uses[k][m] \notin Late => StoredByThen(Uses[k][m], k)

OfKind(S, k) == {d \in S : d.kind = k}

(* The next free position in the container of supplements.                 *)
Position(S, k) == Cardinality(OfKind(S, k))

(* A wrong variant of MayHave, with an id space for every kind.            *)
MayHaveOfKind(k, r) ==
  IF k \in Supplements
    THEN r = Position(registry, k)
    ELSE \A d \in OfKind(registry, k) : d.ref # r

(* A reference that is free, as Registry shows the generator's to be.      *)
MayHave(k, r) ==
  IF k \in Supplements
    THEN r = Position(registry, k)
    ELSE \A d \in registry : SameSpace(d.kind, k) => d.ref # r

(* The use u of a definition is answered by one of the definitions S.      *)
InClosed(S, u, n) ==
  n # Nothing => n \in Names(S) /\ \E i \in 1 .. Len(u) : u[i] = n.kind

(* The kinds that may be meant by the member m of d                        *)
Meant(d, m) == Uses[d.kind][m]

Closed(S, d) ==
  \A m \in DOMAIN d.uses : InClosed(S, Meant(d, m), d.uses[m])

(* What is searched for is there, as store asserts, and once: the model    *)
(* has one paradigm, and there is one group of its locations.  A metric    *)
(* instance has a scope: its constructor wants one.                        *)
Searchable(d) ==
  /\ \A m \in DOMAIN d.uses :
       Meant(d, m) \in Searched \cup Tagged => d.uses[m] # Nothing
  /\ \A u \in Searched :
       \A i \in 1 .. Len(u) : d.kind = u[i] => OfKind(registry, d.kind) = {}

(* A definition enters the registry, by write or from the registry itself. *)
(* What it uses is there: a program may register in another order, but the *)
(* registry that is stored, whole, is the same.                            *)
Register(d) ==
  /\ phase = "define"
  /\ Cardinality(registry) < MaxDefs
  /\ MayHave(d.kind, d.ref)
  /\ Closed(registry, d)
  /\ Searchable(d)
  /\ registry' = registry \cup {d}
  /\ UNCHANGED <<phase, file, position, read>>

-----------------------------------------------------------------------------
(* The writer *)

(* ~Archive destroys the global writer.                                    *)
Destroy ==
  /\ phase = "define"
  /\ phase' = "store"
  /\ UNCHANGED <<registry, file, position, read>>

Written(d) == \E i \in 1 .. Len(file) : NameOf(file[i]) = NameOf(d)

Unwritten == {d \in registry : Stage(d.kind) # 0 /\ ~Written(d)}

(* A wrong variant of Before, which takes the greatest reference first.    *)
BeforeGreatest(d, e) ==
  \/ Stage(d.kind) < Stage(e.kind)
  \/ Stage(d.kind) = Stage(e.kind) /\ d.ref > e.ref

(* store stores d earlier than e: the calls follow each other, and one     *)
(* call stores what it merges in the order of the references.              *)
Before(d, e) ==
  \/ Stage(d.kind) < Stage(e.kind)
  \/ Stage(d.kind) = Stage(e.kind) /\ d.ref < e.ref

(* The record of a definition: of each use it keeps the reference of what  *)
(* the accessor returns.                                                   *)
Kept(u, n) ==
  IF n = Nothing THEN Nothing
  ELSE IF u \in Tagged THEN [kind |-> n.kind, ref |-> n.ref]
  ELSE [ref |-> n.ref]

Record(d) ==
  [kind |-> d.kind, ref |-> d.ref,
   uses |-> [m \in DOMAIN d.uses |->
               Kept(Meant(d, m), d.uses[Source[d.kind][m]])]]

Store(d) ==
  /\ phase = "store"
  /\ d \in Unwritten
  /\ \A e \in Unwritten \ {d} : Before(d, e)
  /\ file' = Append(file, Record(d))
  /\ UNCHANGED <<registry, phase, position, read>>

(* A wrong variant of Stored, which leaves out what has no reference.      *)
StoredReferable ==
  /\ phase = "store"
  /\ \A d \in Unwritten : d.kind \in Supplements
  /\ phase' = "read"
  /\ UNCHANGED <<registry, file, position, read>>

Stored ==
  /\ phase = "store"
  /\ Unwritten = {}
  /\ phase' = "read"
  /\ UNCHANGED <<registry, file, position, read>>

-----------------------------------------------------------------------------
(* The reader *)

(* The definitions read so far that may be meant by the use u, of which    *)
(* the record keeps x: those that has, get and the search of group find.   *)
(* In this wrong variant the kind of a scope is not looked at.             *)
CandidatesUntagged(u, x) ==
  {n \in Names(read) :
     /\ \E i \in 1 .. Len(u) : u[i] = n.kind
     /\ u \notin Searched => n.ref = x.ref}

Candidates(u, x) ==
  {n \in Names(read) :
     /\ \E i \in 1 .. Len(u) : u[i] = n.kind
     /\ u \notin Searched => n.ref = x.ref
     /\ u \in Tagged => n.kind = x.kind}

Answered(u, x) == x # Nothing => Candidates(u, x) # {}

(* Where several are meant, the kind is taken that is asked first.         *)
Answer(u, x) ==
  IF x = Nothing THEN Nothing
  ELSE CHOOSE n \in Candidates(u, x) :
         \A m \in Candidates(u, x) :
           \E i \in 1 .. Len(u) : u[i] = n.kind /\ \A j \in 1 .. i - 1 : u[j] # m.kind

(* The definition that the callback creates from the record r, and shows   *)
(* to the callback of the user.                                            *)
Created(r) ==
  [kind |-> r.kind,
   ref  |-> IF r.kind \in Supplements THEN Position(read, r.kind) ELSE r.ref,
   uses |-> [m \in DOMAIN r.uses |-> Answer(Meant(r, m), r.uses[m])]]

Reading == phase = "read" /\ position < Len(file)

NextRecord == file[position + 1]

(* The look-up for the member m of the next definition finds something.    *)
Found(m) == Answered(Meant(NextRecord, m), NextRecord.uses[m])

(* The callback of the record                                              *)
Read ==
  /\ Reading
  /\ NextRecord.kind \notin Unread
  /\ \A m \in DOMAIN NextRecord.uses : Found(m)
  /\ read' = read \cup {Created(NextRecord)}
  /\ position' = position + 1
  /\ UNCHANGED <<registry, phase, file>>

(* A record without a callback is skipped.                                 *)
Skip ==
  /\ Reading
  /\ NextRecord.kind \in Unread
  /\ position' = position + 1
  /\ UNCHANGED <<registry, phase, file, read>>

(* A look-up throws, or the search asserts, out of read_definitions.  The  *)
(* half-made definition, which groups, metric classes and topologies leave *)
(* in the registry, is left out.                                           *)
Fail ==
  /\ Reading
  /\ NextRecord.kind \notin Unread
  /\ \E m \in DOMAIN NextRecord.uses : ~Found(m)
  /\ phase' = "failed"
  /\ UNCHANGED <<registry, file, position, read>>

(* All records are read: definitions_done                                  *)
Finish ==
  /\ phase = "read"
  /\ position = Len(file)
  /\ phase' = "done"
  /\ UNCHANGED <<registry, file, position, read>>

Finished == phase \in {"failed", "done"} /\ UNCHANGED vars

-----------------------------------------------------------------------------
(* The definitions of a family that a program can make of what it has      *)
Possible(F) ==
  UNION {[kind : {k}, ref : Ref,
          uses : [DOMAIN Uses[k] -> Names(registry) \cup {Nothing}]] : k \in F}

Define ==
  \E F \in Families :
    /\ {d.kind : d \in registry} \subseteq F
    /\ \E d \in Possible(F) : Register(d)

Write == \E d \in registry : Store(d)

Next ==
  \/ Define \/ Destroy \/ Write \/ Stored
  \/ Read \/ Skip \/ Fail \/ Finish \/ Finished

Spec == Init /\ [][Next]_vars

-----------------------------------------------------------------------------
(* The state is well formed: definitions of the right shape, and in the    *)
(* registry no reference twice in an id space.                             *)
TypeOK ==
  /\ \A d \in registry : IsDefinition(d)
  /\ \A d, e \in registry : SameSpace(d.kind, e.kind) /\ d.ref = e.ref => d = e
  /\ phase \in {"define", "store", "read", "failed", "done"}
  /\ \A i \in 1 .. Len(file) : \E d \in registry : file[i] = Record(d)
  /\ position \in 0 .. Len(file)
  /\ \A d \in read : IsDefinition(d)

(* What the accessor of m returns is stored by the same call as d, which   *)
(* goes by the references, and not before d.                               *)
Forward(d, m) ==
  LET n == d.uses[Source[d.kind][m]]
  IN n # Nothing /\ SameSpace(n.kind, d.kind) /\ n.ref >= d.ref

(* Every look-up of the reader finds what it asks for: the writer stores a *)
(* definition behind all that it uses, but for the uses Late, and those in *)
(* which the program has given the used one the greater reference.         *)
ResolvedInOrder ==
  Reading =>
    \A d \in registry : NextRecord = Record(d) /\ d.kind \notin Unread =>
      \A m \in DOMAIN d.uses :
        Meant(d, m) \notin Late /\ ~Forward(d, m) => Found(m)

(* A look-up throws only out of a trace with a definition that makes such  *)
(* a use: a program that numbers what it uses first, and has no dimensions *)
(* of a topology, can read all that it writes.                             *)
FailsOnlyBehind ==
  phase = "failed" =>
    \E d \in registry : \E m \in DOMAIN d.uses :
      \/ Forward(d, m)
      \/ Meant(d, m) \in Late /\ d.uses[Source[d.kind][m]] # Nothing

(* No look-up throws.                                                      *)
Resolved == phase # "failed"

(* A definition as its accessors show it.                                  *)
Seen(d) ==
  [d EXCEPT !.uses = [m \in DOMAIN d.uses |-> d.uses[Source[d.kind][m]]]]

(* At any moment, what the reader has is right and complete in itself:     *)
(* each definition is one of the registry of the writer, as its accessors  *)
(* show it, and everything it refers to is there.  The callback of the     *)
(* user, called after each record, may follow any reference.               *)
ReadIsClosedPart ==
  /\ read \subseteq {Seen(d) : d \in registry}
  /\ \A d \in read : Closed(read, d)

(* In the end the reader has every definition that is stored at all and    *)
(* has a callback, as its accessors show it, and nothing else.             *)
RoundTrip ==
  phase = "done" =>
    read = {Seen(d) : d \in {e \in registry : /\ Stage(e.kind) # 0
                                            /\ e.kind \notin Unread}}

(* What is read is what was written, with every member where it was, but   *)
(* for the kinds Misread.                                                  *)
ReadAsDefined == {d \in read : d.kind \notin Misread} \subseteq registry

(* Every accessor returns the member it is named for.                      *)
EveryAccessorTrue == read \subseteq registry

(* The writer stores every definition that was written to it.              *)
EveryDefinitionStored ==
  phase = "read" => Names(registry) = {NameOf(file[i]) : i \in 1 .. Len(file)}

(* The callback is called for each record.                                 *)
CallbackForEach ==
  phase = "done" => Names(read) = {NameOf(file[i]) : i \in 1 .. Len(file)}
=============================================================================
