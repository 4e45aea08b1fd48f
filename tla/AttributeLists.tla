---------------------------- MODULE AttributeLists --------------------------
(***************************************************************************)
(* The attributes of events: otf2::attribute_list, a pointer to an         *)
(* OTF2_AttributeList and whether it is owned, as the member of every      *)
(* event::base.                                                            *)
(*                                                                         *)
(* The event a callback is called with borrows the list of the library,    *)
(* which is gone when the callback returns; those of calling contexts are  *)
(* forwarded, with a clone of the list that lives as long as the call.     *)
(* An event a program makes has no list until it adds to it.  Copies are   *)
(* clones; moves hand on the pointer.                                      *)
(*                                                                         *)
(* A list that does not exist is kept empty in content.                    *)
(***************************************************************************)
EXTENDS Naturals, Sequences, AttributeTypes

CONSTANTS
  Objects,      (* the places for events of the program                    *)
  Lists,        (* bound: the lists that exist at one time                 *)
  Attributes,
  Types,        (* bound: the types of values that are used                *)
  Values,       (* bound: the values                                       *)
  MaxDepth,     (* bound: callbacks in callbacks                           *)
  Null,         (* nullptr                                                 *)
  Absent        (* where a list does not have the attribute                *)

ASSUME NullAssumption == Null \notin Lists
ASSUME TypesAssumption == Types \subseteq Gettable
ASSUME DepthAssumption == MaxDepth \in Nat

Typed == [type : Types, value : Values]
ASSUME AbsentAssumption == \A x \in Typed : x # Absent

Contents == [Attributes -> Typed \cup {Absent}]
Empty == [a \in Attributes |-> Absent]

VARIABLES
  state,        (* of each object: none; valid; moved, it was moved from   *)
  list,         (* attribute_list_                                         *)
  owned,        (* owned_                                                  *)
  live,         (* the lists that exist                                    *)
  content,      (* what is in each                                         *)
  lent,         (* of each callback that runs the list of its event        *)
  answer        (* what the last has() or get() returned; threw            *)

vars == <<state, list, owned, live, content, lent, answer>>

Init ==
  /\ state = [o \in Objects |-> "none"]
  /\ list = [o \in Objects |-> Null]
  /\ owned = [o \in Objects |-> FALSE]
  /\ live = {}
  /\ content = [l \in Lists |-> Empty]
  /\ lent = <<>>
  /\ answer = "none"

-----------------------------------------------------------------------------
(* What an object sees of its list                                         *)
At(l) == IF l = Null THEN Empty ELSE content[l]

Top == lent[Len(lent)]

(* The object o is now one with this list, or without one.                 *)
Set(o, l, owns) ==
  /\ state' = [state EXCEPT ![o] = "valid"]
  /\ list' = [list EXCEPT ![o] = l]
  /\ owned' = [owned EXCEPT ![o] = owns]

(* A new list with the contents c                                          *)
Allocate(l, c) ==
  /\ l \in Lists \ live
  /\ live' = live \cup {l}
  /\ content' = [content EXCEPT ![l] = c]

Free(l) ==
  /\ live' = live \ {l}
  /\ content' = [content EXCEPT ![l] = Empty]

-----------------------------------------------------------------------------
(* A wrong variant of Construct, which takes ownership of nullptr.         *)
ConstructOwned(o) ==
  /\ state[o] = "none"
  /\ Set(o, Null, TRUE)
  /\ answer' = "none"
  /\ UNCHANGED <<live, content, lent>>

(* attribute_list()                                                        *)
Construct(o) ==
  /\ state[o] = "none"
  /\ Set(o, Null, FALSE)
  /\ answer' = "none"
  /\ UNCHANGED <<live, content, lent>>

(* An event made of the list of the innermost callback.                    *)
Borrow(o) ==
  /\ state[o] = "none"
  /\ lent # <<>>
  /\ Set(o, Top, FALSE)
  /\ answer' = "none"
  /\ UNCHANGED <<live, content, lent>>

(* A wrong variant of Clone, which shares the list.                        *)
CloneShared(o, l) ==
  /\ Set(o, l, FALSE)
  /\ UNCHANGED <<live, content>>

(* clone(), into o: an empty list is not cloned.                           *)
Clone(o, l) ==
  \/ /\ At(l) = Empty
     /\ Set(o, Null, FALSE)
     /\ UNCHANGED <<live, content>>
  \/ /\ At(l) # Empty
     /\ \E new \in Lists : Allocate(new, content[l]) /\ Set(o, new, TRUE)

(* The copy constructor, of another object or of the event shown           *)
Copy(o, p) ==
  /\ state[o] = "none"
  /\ state[p] = "valid"
  /\ Clone(o, list[p])
  /\ answer' = "none"
  /\ UNCHANGED lent

CopyShown(o) ==
  /\ state[o] = "none"
  /\ lent # <<>>
  /\ Clone(o, Top)
  /\ answer' = "none"
  /\ UNCHANGED lent

(* A wrong variant of MoveConstruct, which leaves both the owners.         *)
MoveConstructShared(o, p) ==
  /\ state[o] = "none"
  /\ state[p] = "valid"
  /\ state' = [state EXCEPT ![o] = "valid", ![p] = "moved"]
  /\ list' = [list EXCEPT ![o] = list[p]]
  /\ owned' = [owned EXCEPT ![o] = owned[p]]
  /\ answer' = "none"
  /\ UNCHANGED <<live, content, lent>>

(* p keeps its pointer, but it does not own the list any more.             *)
MoveConstruct(o, p) ==
  /\ state[o] = "none"
  /\ state[p] = "valid"
  /\ state' = [state EXCEPT ![o] = "valid", ![p] = "moved"]
  /\ list' = [list EXCEPT ![o] = list[p]]
  /\ owned' = [owned EXCEPT ![o] = owned[p], ![p] = FALSE]
  /\ answer' = "none"
  /\ UNCHANGED <<live, content, lent>>

(* A wrong variant of MoveAssign, which drops what the object had.         *)
MoveAssignDropping(o, p) ==
  /\ o # p
  /\ state[o] # "none"
  /\ state[p] = "valid"
  /\ state' = [state EXCEPT ![o] = "valid", ![p] = "moved"]
  /\ list' = [list EXCEPT ![o] = list[p]]
  /\ owned' = [owned EXCEPT ![o] = owned[p], ![p] = FALSE]
  /\ answer' = "none"
  /\ UNCHANGED <<live, content, lent>>

(* The move assignment swaps the two.                                      *)
MoveAssign(o, p) ==
  /\ o # p
  /\ state[o] # "none"
  /\ state[p] = "valid"
  /\ state' = [state EXCEPT ![o] = "valid", ![p] = "moved"]
  /\ list' = [list EXCEPT ![o] = list[p], ![p] = list[o]]
  /\ owned' = [owned EXCEPT ![o] = owned[p], ![p] = owned[o]]
  /\ answer' = "none"
  /\ UNCHANGED <<live, content, lent>>

(* A wrong variant of OwnList, which adds to a list that is only borrowed. *)
OwnListBorrowed(o) ==
  IF list[o] = Null THEN Lists \ live ELSE {list[o]}

(* The list add() adds to: the own one, or else a new one, which is a      *)
(* clone of the one that was borrowed.                                     *)
OwnList(o) ==
  IF list[o] = Null \/ ~owned[o] THEN Lists \ live ELSE {list[o]}

(* add<Type>().  The library refuses an attribute that the list has; then  *)
(* the object keeps the clone.                                             *)
Add(o, a, x) ==
  /\ state[o] = "valid"
  /\ \E l \in OwnList(o) :
       /\ list' = [list EXCEPT ![o] = l]
       /\ owned' = [owned EXCEPT ![o] = TRUE]
       /\ live' = live \cup {l}
       /\ content' = [content EXCEPT ![l] =
                        IF At(list[o])[a] = Absent
                        THEN [At(list[o]) EXCEPT ![a] = x]
                        ELSE At(list[o])]
  /\ answer' = IF At(list[o])[a] = Absent THEN "none" ELSE "threw"
  /\ UNCHANGED <<state, lent>>

Has(o, a) ==
  /\ state[o] = "valid"
  /\ answer' = IF list[o] # Null /\ content[list[o]][a] # Absent
               THEN "yes" ELSE "no"
  /\ UNCHANGED <<state, list, owned, live, content, lent>>

(* get<Type>(): the library has no value in no list, and none of another   *)
(* type.                                                                   *)
Get(o, a, type) ==
  /\ state[o] = "valid"
  /\ answer' = LET x == At(list[o])[a]
               IN IF x # Absent /\ x.type = type THEN x.value ELSE "threw"
  /\ UNCHANGED <<state, list, owned, live, content, lent>>

Destroy(o) ==
  /\ state[o] # "none"
  /\ state' = [state EXCEPT ![o] = "none"]
  /\ list' = [list EXCEPT ![o] = Null]
  /\ owned' = [owned EXCEPT ![o] = FALSE]
  /\ IF list[o] # Null /\ owned[o] THEN Free(list[o])
     ELSE UNCHANGED <<live, content>>
  /\ answer' = "none"
  /\ UNCHANGED lent

-----------------------------------------------------------------------------
(* The library calls back, with an event that has the list l.              *)
BeginCallback(l) ==
  /\ lent = <<>>
  /\ \E c \in Contents : Allocate(l, c)
  /\ lent' = <<l>>
  /\ answer' = "none"
  /\ UNCHANGED <<state, list, owned>>

(* The callback for an event of a calling context calls that for enter or  *)
(* leave, with a clone of its list.                                        *)
Forward ==
  /\ lent # <<>>
  /\ Len(lent) < MaxDepth
  /\ \/ /\ At(Top) = Empty
        /\ lent' = Append(lent, Null)
        /\ UNCHANGED <<live, content>>
     \/ /\ At(Top) # Empty
        /\ \E new \in Lists :
             /\ Allocate(new, content[Top])
             /\ lent' = Append(lent, new)
  /\ answer' = "none"
  /\ UNCHANGED <<state, list, owned>>

(* The innermost callback returns, and its list is freed.  The program has *)
(* destroyed before what it made of that list without adding to it.        *)
EndCallback ==
  /\ lent # <<>>
  /\ \A o \in Objects :
       state[o] = "valid" /\ list[o] = Top /\ Top # Null => owned[o]
  /\ lent' = SubSeq(lent, 1, Len(lent) - 1)
  /\ IF Top # Null THEN Free(Top) ELSE UNCHANGED <<live, content>>
  /\ answer' = "none"
  /\ UNCHANGED <<state, list, owned>>

-----------------------------------------------------------------------------
Next ==
  \/ \E o \in Objects : Construct(o) \/ Borrow(o) \/ CopyShown(o) \/ Destroy(o)
  \/ \E o, p \in Objects : Copy(o, p) \/ MoveConstruct(o, p) \/ MoveAssign(o, p)
  \/ \E o \in Objects, a \in Attributes :
       \/ \E x \in Typed : Add(o, a, x)
       \/ Has(o, a)
       \/ \E type \in Types : Get(o, a, type)
  \/ \E l \in Lists : BeginCallback(l)
  \/ Forward
  \/ EndCallback

Spec == Init /\ [][Next]_vars

-----------------------------------------------------------------------------
Owns(o, l) == owned[o] /\ list[o] = l

(* Only a list that is there is owned, and what is freed is empty.         *)
TypeOK ==
  /\ state \in [Objects -> {"none", "valid", "moved"}]
  /\ list \in [Objects -> Lists \cup {Null}]
  /\ owned \in [Objects -> BOOLEAN]
  /\ live \subseteq Lists
  /\ content \in [Lists -> Contents]
  /\ lent \in Seq(Lists \cup {Null})
  /\ answer \in {"none", "yes", "no", "threw"} \cup Values
  /\ \A o \in Objects : owned[o] => list[o] # Null
  /\ \A l \in Lists \ live : content[l] = Empty

(* An event that the program may use has no list, or one that exists:      *)
(* neither that of a callback that has returned nor one that another event *)
(* has freed.                                                              *)
NothingDangles ==
  \A o \in Objects : state[o] = "valid" /\ list[o] # Null => list[o] \in live

(* No list is freed twice: it has one owner, and what a callback has lent  *)
(* has none among the objects.                                             *)
OwnedOnce ==
  \A o \in Objects : owned[o] =>
    /\ \A p \in Objects : Owns(p, list[o]) => p = o
    /\ \A i \in 1 .. Len(lent) : lent[i] # list[o]

(* Every list has someone who will free it.                                *)
NothingLeaks ==
  \A l \in live :
    \/ \E o \in Objects : Owns(o, l)
    \/ \E i \in 1 .. Len(lent) : lent[i] = l

(* Each event has its own attributes, as if it held them as a value.       *)
Plain == INSTANCE AttributeValues WITH
  value <- [o \in Objects |-> IF state[o] = "valid" THEN At(list[o]) ELSE Empty],
  shown <- [i \in 1 .. Len(lent) |-> At(lent[i])]
ImplementsValues == Plain!ValueSpec
=============================================================================
