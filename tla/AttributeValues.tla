--------------------------- MODULE AttributeValues --------------------------
(***************************************************************************)
(* What the attributes of events promise: each event has its own.  Adding  *)
(* to one changes no other, neither the one it is a copy of nor the one    *)
(* that a callback was called with, and what was moved from is only there  *)
(* to be destroyed or assigned.                                            *)
(***************************************************************************)
EXTENDS Naturals, Sequences

CONSTANTS
  Objects,      (* the events of the program, or their attribute lists     *)
  Attributes,
  Types,
  Typed,        (* what an attribute may be: a type with a value           *)
  Absent        (* instead, where the list does not have the attribute     *)

Contents == [Attributes -> Typed \cup {Absent}]
Empty == [a \in Attributes |-> Absent]

VARIABLES
  state,        (* none, valid or moved                                    *)
  value,        (* the attributes of each that is valid                    *)
  shown,        (* those of the events of the callbacks that run           *)
  answer        (* what the last operation returned                        *)

valueVars == <<state, value, shown, answer>>

ValueInit ==
  /\ state = [o \in Objects |-> "none"]
  /\ value = [o \in Objects |-> Empty]
  /\ shown = <<>>
  /\ answer = "none"

Becomes(o, c) ==
  /\ state' = [state EXCEPT ![o] = "valid"]
  /\ value' = [value EXCEPT ![o] = c]
  /\ answer' = "none"
  /\ UNCHANGED shown

(* Made with the contents c: none, those of another one, or those of the   *)
(* event of the innermost callback                                         *)
Make(o, c) ==
  /\ state[o] = "none"
  /\ \/ c = Empty
     \/ \E p \in Objects : state[p] = "valid" /\ c = value[p]
     \/ shown # <<>> /\ c = shown[Len(shown)]
  /\ Becomes(o, c)

(* o, new or not, takes what p had.                                        *)
MoveTo(o, p) ==
  /\ o # p
  /\ state[p] = "valid"
  /\ state' = [state EXCEPT ![o] = "valid", ![p] = "moved"]
  /\ value' = [value EXCEPT ![o] = value[p], ![p] = Empty]
  /\ answer' = "none"
  /\ UNCHANGED shown

AddTo(o, a, x) ==
  /\ state[o] = "valid"
  /\ IF value[o][a] = Absent
       THEN /\ value' = [value EXCEPT ![o][a] = x]
            /\ answer' = "none"
       ELSE /\ answer' = "threw"
            /\ UNCHANGED value
  /\ UNCHANGED <<state, shown>>

Answer(o, r) ==
  /\ state[o] = "valid"
  /\ answer' = r
  /\ UNCHANGED <<state, value, shown>>

Remove(o) ==
  /\ state[o] # "none"
  /\ state' = [state EXCEPT ![o] = "none"]
  /\ value' = [value EXCEPT ![o] = Empty]
  /\ answer' = "none"
  /\ UNCHANGED shown

Push(c) ==
  /\ shown' = Append(shown, c)
  /\ answer' = "none"
  /\ UNCHANGED <<state, value>>

Pop ==
  /\ shown # <<>>
  /\ shown' = SubSeq(shown, 1, Len(shown) - 1)
  /\ answer' = "none"
  /\ UNCHANGED <<state, value>>

Contained(o, a) == IF value[o][a] # Absent THEN "yes" ELSE "no"

Gotten(o, a, type) ==
  IF value[o][a] # Absent /\ value[o][a].type = type THEN value[o][a].value
  ELSE "threw"

ValueNext ==
  \/ \E o \in Objects, c \in Contents : Make(o, c)
  \/ \E o, p \in Objects : MoveTo(o, p)
  \/ \E o \in Objects, a \in Attributes :
       \/ \E x \in Typed : AddTo(o, a, x)
       \/ Answer(o, Contained(o, a))
       \/ \E type \in Types : Answer(o, Gotten(o, a, type))
  \/ \E o \in Objects : Remove(o)
  \/ \E c \in Contents : Push(c)
  \/ Pop

ValueSpec == ValueInit /\ [][ValueNext]_valueVars
=============================================================================
