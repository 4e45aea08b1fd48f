------------------------------ MODULE Registry -------------------------------
(***************************************************************************)
(* otf2::registry: the holders of the definitions of one id space and the  *)
(* generator they share.  A holder maps references to definitions; a       *)
(* lookup_definition_holder also maps keys of the program to them.  Several*)
(* kinds of definition have one id space: comm and inter_comm, the groups, *)
(* metric_class and metric_instance, io_regular_file and io_directory.     *)
(*                                                                         *)
(* One step is one call of the registry by the program that builds or      *)
(* reads a trace; calls that only read, or that throw before they change   *)
(* anything, are no steps.  The maps are std::map and are only ever        *)
(* written by emplace, which leaves an entry that exists as it is.         *)
(***************************************************************************)
EXTENDS References, Sequences

CONSTANTS
  Holders,      (* the kinds of definition that share the id space         *)
  Keyed,        (* those whose holder is a lookup_definition_holder        *)
  Keys,         (* the keys of the program                                 *)
  None,         (* no definition                                           *)
  MaxCalls      (* bound: the number of calls                              *)

ASSUME HoldersAssumption == Keyed \subseteq Holders
ASSUME CallsAssumption == MaxCalls \in Nat

(* A definition: its reference and the identity of its impl object, here   *)
(* the number of the call that made it.                                    *)
Definition == [ref : Ref, impl : Nat]
ASSUME NoneAssumption == None \notin Definition

VARIABLES
  oldMax,       (* refs_: old_max of the generator of the id space         *)
  definitions,  (* definitions_ of every holder                            *)
  lookup,       (* lookup_maps_ of every holder with keys                  *)
  issued,       (* history: what next() has returned, in order             *)
  careful,      (* history: the program has only chosen references that no *)
                (* definition of the id space had                          *)
  calls         (* history: the number of calls                            *)

vars == <<oldMax, definitions, lookup, issued, careful, calls>>

New(r) == [ref |-> r, impl |-> calls + 1]

(* A wrong variant of Emplaced that assigns.                               *)
Assigned(map, x, d) == [map EXCEPT ![x] = d]

(* std::map::emplace                                                       *)
Emplaced(map, x, d) == IF map[x] = None THEN [map EXCEPT ![x] = d] ELSE map

(* add_definition of the holder h                                          *)
AddDefinition(h, d) ==
  definitions' = [definitions EXCEPT ![h] = Emplaced(@, d.ref, d)]

Used == {r \in Ref : \E h \in Holders : definitions[h][r] # None}

(* The program makes a definition with a reference of its choice.  It is   *)
(* not the undefined one: operator() asserts that, and of create(ref, ...),*)
(* which does not, the model assumes it.                                   *)
Choose(r) == careful' = (careful /\ r \notin Used)

(* The definitions it may pass: new ones and those the holder has.         *)
Known(h) ==
  ({definitions[h][r] : r \in Ref} \cup
   IF h \in Keyed THEN {lookup[h][k] : k \in Keys} ELSE {}) \ {None}

Passed(h) == {New(r) : r \in Ref} \cup Known(h)

Pass(h, d) ==
  /\ d \in Passed(h)
  /\ careful' = (careful /\ (d \notin Known(h) => d.ref \notin Used))

Init ==
  /\ oldMax = NewGenerator
  /\ definitions = [h \in Holders |-> [r \in Ref |-> None]]
  /\ lookup = [h \in Keyed |-> [k \in Keys |-> None]]
  /\ issued = <<>>
  /\ careful = TRUE
  /\ calls = 0

Call == calls < MaxCalls /\ calls' = calls + 1

(* What next() returns, unless it throws, and what it changes.             *)
NextRef == Following(oldMax)

Draw ==
  /\ ~Exhausted(oldMax)
  /\ oldMax' = NextRef
  /\ issued' = Append(issued, NextRef)
  /\ UNCHANGED careful

-----------------------------------------------------------------------------
(* definition_holder *)

(* operator()(def) and its overload for a weak_ref, which does the same in *)
(* another order                                                           *)
Register(h, d) ==
  /\ Call
  /\ Pass(h, d)
  /\ AddDefinition(h, d)
  /\ oldMax' = Registered(oldMax, d.ref)
  /\ UNCHANGED <<lookup, issued>>

(* create(args...) and emplace(args...)                                    *)
Create(h) ==
  /\ Call
  /\ Draw
  /\ AddDefinition(h, New(NextRef))
  /\ UNCHANGED lookup

(* create(ref, args...): returns the older definition with that reference, *)
(* if there is one.                                                        *)
CreateRef(h, r) ==
  /\ Call
  /\ Choose(r)
  /\ AddDefinition(h, New(r))
  /\ oldMax' = Registered(oldMax, r)
  /\ UNCHANGED <<lookup, issued>>

(* emplace(ref, args...), which a lookup_definition_holder hides, changes  *)
(* nothing if there is one.                                                *)
EmplaceRef(h, r) ==
  /\ h \notin Keyed
  /\ definitions[h][r] = None
  /\ CreateRef(h, r)

-----------------------------------------------------------------------------
(* lookup_definition_holder *)

(* operator()(key, def) and its overload for a weak_ref                    *)
RegisterKey(h, k, d) ==
  /\ Call
  /\ Pass(h, d)
  /\ lookup' = [lookup EXCEPT ![h] = Emplaced(@, k, d)]
  /\ AddDefinition(h, d)
  /\ oldMax' = Registered(oldMax, d.ref)
  /\ UNCHANGED issued

(* A wrong variant of CreateKey: the definition is put only where it is    *)
(* looked up by its key.                                                   *)
CreateKeyOnly(h, k) ==
  /\ Call
  /\ Draw
  /\ lookup' = [lookup EXCEPT ![h] = Emplaced(@, k, New(NextRef))]
  /\ UNCHANGED definitions

(* create(key, args...): the reference is drawn before it turns out that   *)
(* the key is taken, which ends the call with an exception.                *)
CreateKey(h, k) ==
  /\ Call
  /\ Draw
  /\ IF lookup[h][k] # None
       THEN UNCHANGED <<definitions, lookup>>
       ELSE /\ lookup' = [lookup EXCEPT ![h] = Emplaced(@, k, New(NextRef))]
            /\ AddDefinition(h, New(NextRef))

(* Wrong variants of CreateKeyRef: where the key is taken, its definition  *)
(* is filed under the new reference; a new definition gets the reference.  *)
CreateKeyRefMisfiled(h, k, r) ==
  /\ Call
  /\ Choose(r)
  /\ LET map == Emplaced(lookup[h], k, New(r))
     IN  /\ lookup' = [lookup EXCEPT ![h] = map]
         /\ definitions' = [definitions EXCEPT ![h] = Emplaced(@, r, map[k])]
         /\ oldMax' = Registered(oldMax, r)
  /\ UNCHANGED issued

CreateKeyRefNew(h, k, r) ==
  /\ Call
  /\ Choose(r)
  /\ LET map == Emplaced(lookup[h], k, New(r))
     IN  /\ lookup' = [lookup EXCEPT ![h] = [map EXCEPT ![k].ref = r]]
         /\ AddDefinition(h, New(r))
         /\ oldMax' = Registered(oldMax, r)
  /\ UNCHANGED issued

(* create(key, ref, args...): where the key is taken, it goes on with the  *)
(* definition the key has, whose reference may be another one.             *)
CreateKeyRef(h, k, r) ==
  /\ Call
  /\ Choose(r)
  /\ LET map == Emplaced(lookup[h], k, New(r))
     IN  /\ lookup' = [lookup EXCEPT ![h] = map]
         /\ AddDefinition(h, map[k])
         /\ oldMax' = Registered(oldMax, map[k].ref)
  /\ UNCHANGED issued

(* emplace(key, args...) creates where the key is new.                     *)
EmplaceKey(h, k) == lookup[h][k] = None /\ CreateKey(h, k)

OnRefs(h) ==
  \/ Create(h)
  \/ \E d \in Passed(h) : Register(h, d)
  \/ \E r \in Ref : CreateRef(h, r) \/ EmplaceRef(h, r)

OnKeys(h) ==
  \E k \in Keys :
    \/ CreateKey(h, k) \/ EmplaceKey(h, k)
    \/ \E d \in Passed(h) : RegisterKey(h, k, d)
    \/ \E r \in Ref : CreateKeyRef(h, k, r)

Next == \/ \E h \in Holders : OnRefs(h)
        \/ \E h \in Keyed : OnKeys(h)

Spec == Init /\ [][Next]_vars

-----------------------------------------------------------------------------
(* What the registry answers *)

(* get_variant over the holders first and second, in this order            *)
Variant(first, second, r) ==
  IF definitions[first][r] # None THEN definitions[first][r]
  ELSE definitions[second][r]

-----------------------------------------------------------------------------
(* Properties *)

Map(S) == [S -> Definition \cup {None}]

(* Every definition is filed under its own reference.                      *)
TypeOK ==
  /\ oldMax \in AnyRef
  /\ definitions \in [Holders -> Map(Ref)]
  /\ \A h \in Holders, r \in Ref :
       definitions[h][r] # None => definitions[h][r].ref = r
  /\ lookup \in [Keyed -> Map(Keys)]
  /\ issued \in Seq(AnyRef)
  /\ careful \in BOOLEAN
  /\ calls \in 0 .. MaxCalls

(* A reference drawn from the generator is a valid one, and no definition  *)
(* of the id space has it, of whatever kind and however it got its own; nor*)
(* was it drawn before.                                                    *)
GeneratedAreFresh ==
  [][Len(issued') > Len(issued) =>
       LET r == issued'[Len(issued')]
       IN  r \in Ref \ Used /\ \A i \in 1 .. Len(issued) : issued[i] # r]_vars

(* Whatever can be looked up, by reference or by key, stays what it is: the*)
(* Definition& that create and get return are not swapped for another.     *)
StaysFound ==
  [][/\ \A h \in Holders, r \in Ref :
          definitions[h][r] # None => definitions'[h][r] = definitions[h][r]
     /\ \A h \in Keyed, k \in Keys :
          lookup[h][k] # None => lookup'[h][k] = lookup[h][k]]_vars

(* What is found by a key is also known by its reference, so that a writer *)
(* that stores the definitions does not miss it.                           *)
KeyedIsStored ==
  \A h \in Keyed, k \in Keys :
    lookup[h][k] # None => definitions[h][lookup[h][k].ref] # None

(* And it is the same definition, as long as the program chooses only      *)
(* references that are free.                                               *)
KeyAgreesWithRef ==
  careful =>
    \A h \in Keyed, k \in Keys :
      lookup[h][k] # None => definitions[h][lookup[h][k].ref] = lookup[h][k]

(* Then a reference also means one definition in the id space: get_variant *)
(* finds the same one in whatever order it asks the holders.               *)
VariantsAgree ==
  careful =>
    \A first \in Holders, second \in Holders, r \in Ref :
      Variant(first, second, r) = Variant(second, first, r)

(* "Cannot generate a new unused reference number": next() gives up only   *)
(* when every reference is used.                                           *)
GivesUpWhenFull == Exhausted(oldMax) => Used = Ref
=============================================================================
