------------------------- MODULE AttributeListProofs ------------------------
(***************************************************************************)
(* Theorems about AttributeLists, for any number of events, lists,         *)
(* attributes and nested callbacks.                                        *)
(***************************************************************************)
EXTENDS AttributeLists, SequenceTheorems, TLAPS

-----------------------------------------------------------------------------
(* The inductive invariant *)

Lent == {lent[i] : i \in 1 .. Len(lent)}

(* A list that is owned exists and is owned once.                          *)
OwnedInv ==
  \A o \in Objects : owned[o] =>
    /\ list[o] \in live
    /\ list[o] \notin Lent
    /\ \A p \in Objects : Owns(p, list[o]) => p = o

(* A list that is used and not owned is that of a callback.                *)
BorrowedInv ==
  \A o \in Objects : state[o] = "valid" /\ list[o] # Null /\ ~owned[o] =>
    list[o] \in Lent

(* The lists of the callbacks exist and are different.                     *)
LentInv ==
  \A i, j \in 1 .. Len(lent) : lent[i] # Null =>
    /\ lent[i] \in live
    /\ lent[i] = lent[j] => i = j

(* Where there is no object, there is nothing to be freed.                 *)
NoneInv ==
  \A o \in Objects : state[o] = "none" => list[o] = Null /\ ~owned[o]

AllHeld ==
  \A l \in live : l \in Lent \/ \E o \in Objects : Owns(o, l)

Inv == TypeOK /\ OwnedInv /\ BorrowedInv /\ LentInv /\ NoneInv /\ AllHeld

LEMMA LentType ==
  ASSUME TypeOK
  PROVE  /\ Len(lent) \in Nat
         /\ \A i \in 1 .. Len(lent) : lent[i] \in Lists \cup {Null}
         /\ Lent \subseteq Lists \cup {Null}
         /\ lent # <<>> =>
              /\ Len(lent) \in 1 .. Len(lent)
              /\ Top \in Lent /\ Top = lent[Len(lent)]
BY DEF TypeOK, Lent, Top

LEMMA EmptyFact ==
  Empty \in Contents /\ Null \notin Lists
BY NullAssumption DEF Empty, Contents

LEMMA AtFact ==
  ASSUME TypeOK, NEW l \in Lists \cup {Null}
  PROVE  At(l) \in Contents
BY EmptyFact DEF TypeOK, At

LEMMA InitInv ==
  Init => Inv
<1> SUFFICES ASSUME Init PROVE Inv
  OBVIOUS
<1>1. TypeOK
  BY EmptyFact DEF Init, TypeOK
<1>2. Lent = {}
  BY DEF Init, Lent
<1> QED
  BY <1>1, <1>2 DEF Init, Inv, OwnedInv, BorrowedInv, LentInv, NoneInv, AllHeld

(* A new list is neither owned nor lent.                                   *)
LEMMA FreshFact ==
  ASSUME Inv, NEW l \in Lists \ live
  PROVE  l \notin Lent /\ \A o \in Objects : ~Owns(o, l)
<1>1. l # Null
  BY EmptyFact
<1> QED
  BY <1>1 DEF Inv, OwnedInv, LentInv, Lent, Owns

(* Objects and lists change, the callbacks do not.                         *)
LEMMA SameLent ==
  ASSUME UNCHANGED lent
  PROVE  Lent' = Lent
BY DEF Lent

LEMMA SetNull ==
  ASSUME Inv, NEW o \in Objects, state[o] = "none", Set(o, Null, FALSE),
         UNCHANGED <<live, content, lent>>,
         answer' = "none"
  PROVE  Inv'
<1> USE DEF Inv
<1>1. TypeOK'
  BY DEF TypeOK, Set
<1>2. Lent' = Lent
  BY SameLent
<1>3. OwnedInv'
  BY <1>2 DEF OwnedInv, Owns, Set, TypeOK
<1>4. BorrowedInv' /\ NoneInv'
  BY <1>2 DEF BorrowedInv, NoneInv, Set, TypeOK
<1>5. LentInv'
  BY DEF LentInv
<1>6. AllHeld'
  BY <1>2 DEF AllHeld, Owns, Set, TypeOK, NoneInv
<1> QED
  BY <1>1, <1>3, <1>4, <1>5, <1>6

(* An object gets a list of its own.                                       *)
LEMMA SetNew ==
  ASSUME Inv, NEW o \in Objects, NEW l \in Lists \ live,
         state[o] \in {"none", "valid"}, ~owned[o],
         NEW c \in Contents,
         Set(o, l, TRUE), live' = live \cup {l},
         content' = [content EXCEPT ![l] = c],
         UNCHANGED lent, answer' \in {"none", "threw"}
  PROVE  Inv'
<1> USE DEF Inv
<1>0. l \notin Lent /\ (\A p \in Objects : ~Owns(p, l)) /\ l # Null
  BY FreshFact, EmptyFact
<1>1. TypeOK'
  BY <1>0 DEF TypeOK, Set
<1>2. Lent' = Lent
  BY SameLent
<1>3. OwnedInv'
  BY <1>0, <1>2 DEF OwnedInv, Owns, Set, TypeOK
<1>4. BorrowedInv' /\ NoneInv'
  BY <1>0, <1>2 DEF BorrowedInv, NoneInv, Set, TypeOK
<1>5. LentInv'
  BY DEF LentInv
<1>6. AllHeld'
  BY <1>0, <1>2 DEF AllHeld, Owns, Set, TypeOK
<1> QED
  BY <1>1, <1>3, <1>4, <1>5, <1>6

LEMMA CloneInv ==
  ASSUME Inv, NEW o \in Objects, state[o] = "none", NEW l \in Lists \cup {Null},
         Clone(o, l), UNCHANGED lent, answer' = "none"
  PROVE  Inv'
<1>1. CASE At(l) = Empty /\ Set(o, Null, FALSE) /\ UNCHANGED <<live, content>>
  BY <1>1, SetNull
<1>2. ASSUME At(l) # Empty, NEW new \in Lists, Allocate(new, content[l]), Set(o, new, TRUE)
      PROVE  Inv'
  <2>1. l \in Lists
    BY <1>2 DEF At
  <2>2. content[l] \in Contents /\ ~owned[o]
    BY <2>1 DEF Inv, TypeOK, NoneInv
  <2> QED
    BY <1>2, <2>2, SetNew DEF Allocate
<1> QED
  BY <1>1, <1>2 DEF Clone

LEMMA BorrowInv ==
  ASSUME Inv, NEW o \in Objects, Borrow(o)
  PROVE  Inv'
<1> USE DEF Inv, Borrow
<1>0. Top \in Lent /\ Top \in Lists \cup {Null}
  BY LentType
<1>1. TypeOK'
  BY <1>0 DEF TypeOK, Set
<1>2. Lent' = Lent
  BY SameLent
<1>3. OwnedInv'
  BY <1>2 DEF OwnedInv, Owns, Set, TypeOK
<1>4. BorrowedInv' /\ NoneInv'
  BY <1>0, <1>2 DEF BorrowedInv, NoneInv, Set, TypeOK
<1>5. LentInv'
  BY DEF LentInv
<1>6. AllHeld'
  BY <1>2 DEF AllHeld, Owns, Set, TypeOK, NoneInv
<1> QED
  BY <1>1, <1>3, <1>4, <1>5, <1>6

LEMMA MoveConstructInv ==
  ASSUME Inv, NEW o \in Objects, NEW p \in Objects, MoveConstruct(o, p)
  PROVE  Inv'
<1> USE DEF Inv, MoveConstruct
<1>0. o # p /\ ~owned[o]
  BY DEF NoneInv
<1>1. TypeOK'
  BY <1>0 DEF TypeOK
<1>2. Lent' = Lent
  BY SameLent
<1>3. OwnedInv'
  BY <1>0, <1>2 DEF OwnedInv, Owns, TypeOK
<1>4. BorrowedInv' /\ NoneInv'
  BY <1>0, <1>2 DEF BorrowedInv, NoneInv, TypeOK
<1>5. LentInv'
  BY DEF LentInv
<1>6. AllHeld'
  BY <1>0, <1>2 DEF AllHeld, Owns, TypeOK
<1> QED
  BY <1>1, <1>3, <1>4, <1>5, <1>6

LEMMA MoveAssignInv ==
  ASSUME Inv, NEW o \in Objects, NEW p \in Objects, MoveAssign(o, p)
  PROVE  Inv'
<1> USE DEF Inv, MoveAssign
<1>1. TypeOK'
  BY DEF TypeOK
<1>2. Lent' = Lent
  BY SameLent
<1>3. OwnedInv'
  BY <1>2 DEF OwnedInv, Owns, TypeOK
<1>4. BorrowedInv' /\ NoneInv'
  BY <1>2 DEF BorrowedInv, NoneInv, TypeOK
<1>5. LentInv'
  BY DEF LentInv
<1>6. AllHeld'
  BY <1>2 DEF AllHeld, Owns, TypeOK
<1> QED
  BY <1>1, <1>3, <1>4, <1>5, <1>6

LEMMA AddInv ==
  ASSUME Inv, NEW o \in Objects, NEW a \in Attributes, NEW x \in Typed, Add(o, a, x)
  PROVE  Inv'
<1> DEFINE c == IF At(list[o])[a] = Absent THEN [At(list[o]) EXCEPT ![a] = x]
                ELSE At(list[o])
<1>1. PICK l \in OwnList(o) :
        /\ list' = [list EXCEPT ![o] = l]
        /\ owned' = [owned EXCEPT ![o] = TRUE]
        /\ live' = live \cup {l}
        /\ content' = [content EXCEPT ![l] = c]
  BY DEF Add
<1>2. c \in Contents
  <2>1. At(list[o]) \in Contents
    BY AtFact DEF Inv, TypeOK
  <2> QED
    BY <2>1 DEF Contents
<1> HIDE DEF c
<1>3. state[o] = "valid" /\ state' = state /\ lent' = lent /\ answer' \in {"none", "threw"}
  BY DEF Add
<1>4. CASE list[o] = Null \/ ~owned[o]
  <2>1. l \in Lists \ live /\ ~owned[o]
    BY <1>4, EmptyFact DEF OwnList, Inv, TypeOK
  <2>2. Set(o, l, TRUE)
    BY <1>1, <1>3 DEF Set, Inv, TypeOK
  <2> QED
    BY <1>1, <1>2, <1>3, <2>1, <2>2, SetNew
<1>5. CASE list[o] # Null /\ owned[o]
  <2>1. l = list[o] /\ l \in live /\ l \in Lists
    BY <1>5, EmptyFact DEF OwnList, Inv, OwnedInv, TypeOK
  <2>2. list' = list /\ owned' = owned /\ live' = live
    BY <1>1, <1>5, <2>1 DEF Inv, TypeOK
  <2>3. TypeOK'
    BY <1>1, <1>2, <1>3, <2>1, <2>2 DEF Inv, TypeOK
  <2> QED
    BY <1>3, <2>2, <2>3 DEF Inv, OwnedInv, BorrowedInv, LentInv, NoneInv, AllHeld, Owns, Lent
<1> QED
  BY <1>4, <1>5

LEMMA DestroyInv ==
  ASSUME Inv, NEW o \in Objects, Destroy(o)
  PROVE  Inv'
<1> USE DEF Inv, Destroy
<1>2. Lent' = Lent
  BY SameLent
<1>3. CASE list[o] # Null /\ owned[o]
  <2>0. live' = live \ {list[o]} /\ content' = [content EXCEPT ![list[o]] = Empty]
    BY <1>3 DEF Free
  <2>1. TypeOK'
    BY <2>0, EmptyFact DEF TypeOK
  <2>2. OwnedInv'
    BY <1>2, <1>3, <2>0 DEF OwnedInv, Owns, TypeOK
  <2>3. BorrowedInv' /\ NoneInv'
    BY <1>2 DEF BorrowedInv, NoneInv, TypeOK
  <2>4. LentInv'
    BY <1>3, <2>0 DEF LentInv, OwnedInv, Lent
  <2>5. AllHeld'
    BY <1>2, <2>0 DEF AllHeld, Owns, TypeOK
  <2> QED
    BY <2>1, <2>2, <2>3, <2>4, <2>5
<1>4. CASE ~(list[o] # Null /\ owned[o])
  <2>0. live' = live /\ content' = content /\ ~owned[o]
    BY <1>4 DEF TypeOK
  <2>1. TypeOK'
    BY <2>0 DEF TypeOK
  <2>2. OwnedInv'
    BY <1>2, <2>0 DEF OwnedInv, Owns, TypeOK
  <2>3. BorrowedInv' /\ NoneInv'
    BY <1>2 DEF BorrowedInv, NoneInv, TypeOK
  <2>4. LentInv'
    BY <2>0 DEF LentInv
  <2>5. AllHeld'
    BY <1>2, <2>0 DEF AllHeld, Owns, TypeOK
  <2> QED
    BY <2>1, <2>2, <2>3, <2>4, <2>5
<1> QED
  BY <1>3, <1>4

LEMMA PushFact ==
  ASSUME NEW S, NEW s \in Seq(S), NEW x \in S
  PROVE  /\ Append(s, x) \in Seq(S)
         /\ Len(s) \in Nat /\ Len(Append(s, x)) = Len(s) + 1
         /\ \A i \in 1 .. Len(s) : Append(s, x)[i] = s[i]
         /\ Append(s, x)[Len(s) + 1] = x
OBVIOUS

LEMMA PopFact ==
  ASSUME NEW S, NEW s \in Seq(S), s # <<>>
  PROVE  /\ SubSeq(s, 1, Len(s) - 1) \in Seq(S)
         /\ Len(s) \in Nat \ {0} /\ Len(SubSeq(s, 1, Len(s) - 1)) = Len(s) - 1
         /\ \A i \in 1 .. Len(s) - 1 : SubSeq(s, 1, Len(s) - 1)[i] = s[i]
<1>1. Len(s) \in Nat \ {0} /\ \A i \in 1 .. Len(s) : s[i] \in S
  OBVIOUS
<1>2. \A i \in 1 .. Len(s) - 1 : i \in 1 .. Len(s)
  BY <1>1
<1>3. Len(s) - 1 \in Nat /\ 1 \in Int /\ Len(s) - 1 \in Int
  BY <1>1
<1> DEFINE n == Len(s) - 1
<1>4. \A i \in 1 .. n : s[i] \in S
  BY <1>1, <1>2
<1> HIDE DEF n
<1>5. /\ SubSeq(s, 1, n) \in Seq(S)
      /\ Len(SubSeq(s, 1, n)) = IF 1 <= n THEN n - 1 + 1 ELSE 0
      /\ \A i \in 1 .. n - 1 + 1 : SubSeq(s, 1, n)[i] = s[1 + i - 1]
  BY <1>3, <1>4, SubSeqProperties DEF n
<1>6. n \in Nat /\ n - 1 + 1 = n
  BY <1>3 DEF n
<1> QED
  BY <1>1, <1>5, <1>6 DEF n

(* A callback with a new list, or with none.                               *)
LEMMA PushInv ==
  ASSUME Inv, NEW l \in Lists \cup {Null},
         lent' = Append(lent, l), answer' = "none",
         UNCHANGED <<state, list, owned>>,
         \/ l = Null /\ UNCHANGED <<live, content>>
         \/ l \in Lists /\ \E c \in Contents : Allocate(l, c)
  PROVE  Inv'
<1> USE DEF Inv
<1>1. /\ lent' \in Seq(Lists \cup {Null})
      /\ Len(lent) \in Nat /\ Len(lent') = Len(lent) + 1
      /\ \A i \in 1 .. Len(lent) : lent'[i] = lent[i]
      /\ lent'[Len(lent) + 1] = l
  BY PushFact DEF TypeOK
<1>2. \A i \in 1 .. Len(lent') : i \in 1 .. Len(lent) \/ i = Len(lent) + 1
  BY <1>1
<1>3. Lent' = Lent \cup {l}
  <2>1. \A i \in 1 .. Len(lent) : i \in 1 .. Len(lent')
    BY <1>1
  <2>2. Len(lent) + 1 \in 1 .. Len(lent')
    BY <1>1
  <2> QED
    BY <1>1, <1>2, <2>1, <2>2 DEF Lent
<1>4. CASE l = Null /\ UNCHANGED <<live, content>>
  <2>1. TypeOK'
    BY <1>1, <1>4 DEF TypeOK
  <2>2. OwnedInv' /\ BorrowedInv' /\ NoneInv' /\ AllHeld'
    BY <1>3, <1>4 DEF OwnedInv, BorrowedInv, NoneInv, AllHeld, Owns, TypeOK
  <2>3. LentInv'
    BY <1>1, <1>2, <1>4 DEF LentInv
  <2> QED
    BY <2>1, <2>2, <2>3
<1>5. ASSUME l \in Lists, NEW c \in Contents, Allocate(l, c)
      PROVE  Inv'
  <2>0. /\ l \notin live /\ live' = live \cup {l}
        /\ content' = [content EXCEPT ![l] = c]
        /\ l \notin Lent /\ \A o \in Objects : ~Owns(o, l)
    BY <1>5, FreshFact DEF Allocate
  <2>1. TypeOK'
    BY <1>1, <2>0, <1>5 DEF TypeOK
  <2>2. OwnedInv' /\ BorrowedInv' /\ NoneInv' /\ AllHeld'
    BY <1>3, <2>0 DEF OwnedInv, BorrowedInv, NoneInv, AllHeld, Owns
  <2>3. LentInv'
    BY <1>1, <1>2, <2>0 DEF LentInv, Lent
  <2> QED
    BY <2>1, <2>2, <2>3
<1> QED
  BY <1>4, <1>5

LEMMA BeginCallbackInv ==
  ASSUME Inv, NEW l \in Lists, BeginCallback(l)
  PROVE  Inv'
<1>1. lent' = Append(lent, l)
  BY DEF BeginCallback
<1> QED
  BY <1>1, PushInv DEF BeginCallback

LEMMA ForwardInv ==
  ASSUME Inv, Forward
  PROVE  Inv'
<1>1. Top \in Lists \cup {Null}
  BY LentType DEF Forward, Inv
<1>2. CASE lent' = Append(lent, Null) /\ UNCHANGED <<live, content>>
  BY <1>2, PushInv DEF Forward
<1>3. ASSUME At(Top) # Empty, NEW new \in Lists,
             Allocate(new, content[Top]), lent' = Append(lent, new)
      PROVE  Inv'
  <2>1. content[Top] \in Contents
    BY <1>1, <1>3 DEF At, Inv, TypeOK
  <2> QED
    BY <1>3, <2>1, PushInv DEF Forward
<1> QED
  BY <1>2, <1>3 DEF Forward

LEMMA EndCallbackInv ==
  ASSUME Inv, EndCallback
  PROVE  Inv'
<1> USE DEF Inv
<1> DEFINE n == Len(lent)
<1>1. /\ lent' \in Seq(Lists \cup {Null})
      /\ n \in Nat \ {0} /\ Len(lent') = n - 1
      /\ \A i \in 1 .. n - 1 : lent'[i] = lent[i]
  BY PopFact DEF EndCallback, TypeOK
<1>2. \A i \in 1 .. n : i \in 1 .. n - 1 \/ i = n
  BY <1>1
<1>3. \A i \in 1 .. n - 1 : i \in 1 .. n
  BY <1>1
<1>4. n \in 1 .. n /\ Top = lent[n] /\ Top \in Lists \cup {Null} /\ Top \in Lent
  BY LentType DEF EndCallback
<1>5. Lent = Lent' \cup {Top}
  BY <1>1, <1>2, <1>3, <1>4 DEF Lent
<1>6. Top # Null => Top \in live /\ Top \notin Lent'
  <2>1. ASSUME Top # Null, NEW i \in 1 .. n - 1
        PROVE  lent[i] # Top
    <3>1. i \in 1 .. n /\ i # n
      BY <1>1, <1>3
    <3> QED
      BY <2>1, <3>1, <1>4 DEF LentInv
  <2>2. Top # Null => Top \in live
    BY <1>4 DEF LentInv
  <2> QED
    BY <2>1, <2>2, <1>1 DEF Lent
<1>7. UNCHANGED <<state, list, owned>> /\ answer' = "none"
  BY DEF EndCallback
<1> HIDE DEF n
<1>8. /\ live' = IF Top # Null THEN live \ {Top} ELSE live
      /\ content' = IF Top # Null THEN [content EXCEPT ![Top] = Empty] ELSE content
  BY DEF EndCallback, Free
<1>9. TypeOK'
  BY <1>1, <1>4, <1>7, <1>8, EmptyFact DEF TypeOK
<1>10. OwnedInv'
  BY <1>4, <1>5, <1>7, <1>8 DEF OwnedInv, Owns
<1>11. BorrowedInv' /\ NoneInv'
  BY <1>5, <1>7 DEF BorrowedInv, NoneInv, EndCallback
<1>12. LentInv'
  <2>1. ASSUME NEW i \in 1 .. n - 1, NEW j \in 1 .. n - 1, lent[i] # Null
        PROVE  lent[i] \in live' /\ (lent[i] = lent[j] => i = j)
    <3>1. lent[i] \in live /\ (lent[i] = lent[j] => i = j)
      BY <1>3, <2>1 DEF LentInv, n
    <3>2. lent[i] \in Lent'
      BY <1>1 DEF Lent
    <3> QED
      BY <3>1, <3>2, <1>6, <1>8
  <2> QED
    BY <2>1, <1>1 DEF LentInv
<1>13. AllHeld'
  <2>1. Null \notin live
    BY EmptyFact DEF TypeOK
  <2> QED
    BY <2>1, <1>5, <1>7, <1>8 DEF AllHeld, Owns
<1> QED
  BY <1>9, <1>10, <1>11, <1>12, <1>13

THEOREM InductiveInvariant ==
  Spec => []Inv
<1>1. Inv /\ [Next]_vars => Inv'
  <2> SUFFICES ASSUME Inv, [Next]_vars PROVE Inv'
    OBVIOUS
  <2>1. ASSUME NEW o \in Objects, Construct(o)
        PROVE  Inv'
    BY <2>1, SetNull DEF Construct
  <2>2. ASSUME NEW o \in Objects, CopyShown(o)
        PROVE  Inv'
    <3>1. Top \in Lists \cup {Null}
      BY <2>2, LentType DEF CopyShown, Inv
    <3> QED
      BY <2>2, <3>1, CloneInv DEF CopyShown
  <2>3. ASSUME NEW o \in Objects, NEW p \in Objects, Copy(o, p)
        PROVE  Inv'
    <3>1. list[p] \in Lists \cup {Null}
      BY DEF Inv, TypeOK
    <3> QED
      BY <2>3, <3>1, CloneInv DEF Copy
  <2>4. CASE UNCHANGED <<state, list, owned, live, content, lent>>
             /\ answer' \in {"none", "yes", "no", "threw"} \cup Values
    BY <2>4 DEF Inv, TypeOK, OwnedInv, BorrowedInv, LentInv, NoneInv, AllHeld, Owns, Lent
  <2>5. ASSUME NEW o \in Objects, NEW a \in Attributes, Has(o, a)
        PROVE  Inv'
    BY <2>4, <2>5 DEF Has
  <2>6. ASSUME NEW o \in Objects, NEW a \in Attributes, NEW type \in Types, Get(o, a, type)
        PROVE  Inv'
    <3>1. At(list[o])[a] \in Typed \cup {Absent}
      BY AtFact DEF Inv, TypeOK, Contents
    <3>2. \A y \in Typed : y.value \in Values
      BY DEF Typed
    <3> QED
      BY <2>4, <2>6, <3>1, <3>2 DEF Get
  <2>7. CASE UNCHANGED vars
    BY <2>4, <2>7 DEF vars, Inv, TypeOK
  <2> QED
    BY <2>1, <2>2, <2>3, <2>5, <2>6, <2>7, BorrowInv, MoveConstructInv, MoveAssignInv,
       AddInv, DestroyInv, BeginCallbackInv, ForwardInv, EndCallbackInv DEF Next
<1> QED
  BY <1>1, InitInv, PTL DEF Spec

-----------------------------------------------------------------------------
(* The properties *)

(* Only a list that is there is owned, and what is freed is empty.         *)
THEOREM TypeCorrect ==
  Spec => []TypeOK
<1>1. Inv => TypeOK
  BY DEF Inv
<1> QED
  BY <1>1, InductiveInvariant, PTL

(* An event that the program may use has no list, or one that exists.      *)
THEOREM Safe ==
  Spec => []NothingDangles
<1>1. Inv => NothingDangles
  BY DEF Inv, OwnedInv, BorrowedInv, LentInv, Lent, NothingDangles
<1> QED
  BY <1>1, InductiveInvariant, PTL

(* No list is freed twice.                                                 *)
THEOREM FreedOnce ==
  Spec => []OwnedOnce
<1>1. Inv => OwnedOnce
  BY DEF Inv, OwnedInv, Lent, OwnedOnce
<1> QED
  BY <1>1, InductiveInvariant, PTL

(* Every list has someone who will free it.                                *)
THEOREM NoLeak ==
  Spec => []NothingLeaks
<1>1. Inv => NothingLeaks
  BY DEF Inv, AllHeld, Lent, NothingLeaks
<1> QED
  BY <1>1, InductiveInvariant, PTL

-----------------------------------------------------------------------------
(* The refinement *)

Val(o) == IF state[o] = "valid" THEN At(list[o]) ELSE Empty
Value == [o \in Objects |-> Val(o)]
Shown == [i \in 1 .. Len(lent) |-> At(lent[i])]

(* The lists that can be seen: those of the valid objects and callbacks.   *)
LEMMA SeenFact ==
  ASSUME Inv
  PROVE  /\ \A o \in Objects : state[o] = "valid" =>
              list[o] = Null \/ (list[o] \in live /\ list[o] \in Lists)
         /\ \A i \in 1 .. Len(lent) :
              lent[i] = Null \/ (lent[i] \in live /\ lent[i] \in Lists)
BY LentType DEF Inv, TypeOK, OwnedInv, BorrowedInv, LentInv, Lent

(* What is seen in a list that does not change                             *)
LEMMA AtSame ==
  ASSUME NEW k, k = Null \/ content'[k] = content[k]
  PROVE  At(k)' = At(k)
BY DEF At

LEMMA ShownSame ==
  ASSUME Inv, UNCHANGED lent, \A l \in Lent : At(l)' = At(l)
  PROVE  Shown' = Shown
BY DEF Shown, Lent

LEMMA ShownFact ==
  ASSUME Inv, lent # <<>>
  PROVE  Shown # <<>> /\ Len(Shown) = Len(lent) /\ Shown[Len(Shown)] = At(Top)
<1>1. Len(lent) \in Nat \ {0} /\ Len(lent) \in 1 .. Len(lent) /\ Top = lent[Len(lent)]
  <2>1. lent \in Seq(Lists \cup {Null})
    BY DEF Inv, TypeOK
  <2> QED
    BY <2>1, LentType DEF Inv
<1>2. Len(Shown) = Len(lent)
  BY <1>1 DEF Shown
<1>3. Shown # <<>>
  BY <1>1, <1>2
<1>4. Shown[Len(lent)] = At(Top)
  BY <1>1 DEF Shown
<1> QED
  BY <1>2, <1>3, <1>4

(* An object is made, and nothing else changes.                            *)
LEMMA MakeStep ==
  ASSUME Inv, NEW o \in Objects, NEW c \in Contents,
         state[o] = "none", state' = [state EXCEPT ![o] = "valid"],
         answer' = "none", Shown' = Shown, Val(o)' = c,
         \A p \in Objects \ {o} : Val(p)' = Val(p),
         \/ c = Empty
         \/ \E p \in Objects : state[p] = "valid" /\ c = Val(p)
         \/ lent # <<>> /\ c = At(Top)
  PROVE  Plain!ValueNext
<1>1. Value' = [Value EXCEPT ![o] = c]
  BY DEF Value
<1>2. \/ c = Empty
      \/ \E p \in Objects : state[p] = "valid" /\ c = Value[p]
      \/ Shown # <<>> /\ c = Shown[Len(Shown)]
  BY ShownFact DEF Value
<1>3. Plain!Make(o, c)
  BY <1>1, <1>2 DEF Plain!Make, Plain!Becomes, Plain!Empty, Empty, Value, Val, Shown
<1> QED
  BY <1>3 DEF Plain!ValueNext, Plain!Contents, Contents

LEMMA NullStep ==
  ASSUME Inv, NEW o \in Objects, state[o] = "none", Set(o, Null, FALSE),
         UNCHANGED <<live, content, lent>>, answer' = "none"
  PROVE  Plain!ValueNext
<1>1. \A l : At(l)' = At(l)
  BY DEF At
<1>2. Shown' = Shown
  BY <1>1, ShownSame
<1>3. Val(o)' = Empty
  BY DEF Val, Set, At, Inv, TypeOK
<1>4. \A p \in Objects \ {o} : Val(p)' = Val(p)
  BY <1>1 DEF Val, Set, Inv, TypeOK, At
<1> QED
  BY <1>2, <1>3, <1>4, MakeStep, EmptyFact DEF Set

LEMMA CloneStep ==
  ASSUME Inv, NEW o \in Objects, state[o] = "none", NEW l \in Lists \cup {Null},
         Clone(o, l), UNCHANGED lent, answer' = "none",
         \/ \E p \in Objects : state[p] = "valid" /\ l = list[p]
         \/ lent # <<>> /\ l = Top
  PROVE  Plain!ValueNext
<1>1. CASE At(l) = Empty /\ Set(o, Null, FALSE) /\ UNCHANGED <<live, content>>
  BY <1>1, NullStep
<1>2. ASSUME At(l) # Empty, NEW new \in Lists, Allocate(new, content[l]), Set(o, new, TRUE)
      PROVE  Plain!ValueNext
  <2>1. l \in Lists /\ At(l) = content[l] /\ content[l] \in Contents
    BY <1>2 DEF At, Inv, TypeOK
  <2>2. new \in Lists \ live /\ content' = [content EXCEPT ![new] = content[l]]
    BY <1>2 DEF Allocate
  <2>3. \A k \in live : At(k)' = At(k)
    BY <2>2 DEF At, Inv, TypeOK
  <2>4. Shown' = Shown
    <3>1. \A k \in Lent : At(k)' = At(k)
      BY <2>3, SeenFact DEF Lent, At
    <3> QED
      BY <3>1, ShownSame
  <2>5. Val(o)' = content[l]
    BY <1>2, <2>2, EmptyFact DEF Val, Set, At, Inv, TypeOK
  <2>6. \A p \in Objects \ {o} : Val(p)' = Val(p)
    BY <1>2, <2>3, SeenFact DEF Val, Set, Inv, TypeOK, At
  <2>7. \/ \E p \in Objects : state[p] = "valid" /\ content[l] = Val(p)
        \/ lent # <<>> /\ content[l] = At(Top)
    BY <2>1 DEF Val
  <2> QED
    BY <1>2, <2>1, <2>4, <2>5, <2>6, <2>7, MakeStep DEF Set
<1> QED
  BY <1>1, <1>2 DEF Clone

LEMMA BorrowStep ==
  ASSUME Inv, NEW o \in Objects, Borrow(o)
  PROVE  Plain!ValueNext
<1>1. \A l : At(l)' = At(l)
  BY DEF At, Borrow
<1>2. Shown' = Shown
  BY <1>1, ShownSame DEF Borrow
<1>3. Top \in Lists \cup {Null} /\ At(Top) \in Contents
  BY LentType, AtFact DEF Inv, Borrow
<1>4. Val(o)' = At(Top)
  BY <1>1 DEF Val, Set, At, Inv, TypeOK, Borrow
<1>5. \A p \in Objects \ {o} : Val(p)' = Val(p)
  BY <1>1 DEF Val, Set, Inv, TypeOK, At, Borrow
<1> QED
  BY <1>2, <1>3, <1>4, <1>5, MakeStep DEF Set, Borrow

LEMMA MoveStep ==
  ASSUME Inv, NEW o \in Objects, NEW p \in Objects,
         MoveConstruct(o, p) \/ MoveAssign(o, p)
  PROVE  Plain!ValueNext
<1>1. /\ o # p /\ state[p] = "valid"
      /\ state' = [state EXCEPT ![o] = "valid", ![p] = "moved"]
      /\ list'[o] = list[p]
      /\ \A q \in Objects \ {o, p} : list'[q] = list[q]
      /\ answer' = "none" /\ UNCHANGED <<content, lent>>
  BY DEF MoveConstruct, MoveAssign, Inv, TypeOK
<1>2. \A l : At(l)' = At(l)
  BY <1>1 DEF At
<1>3. Shown' = Shown
  BY <1>1, <1>2, ShownSame
<1>4. Val(o)' = Val(p) /\ Val(p)' = Empty
  BY <1>1, <1>2 DEF Val, At, Inv, TypeOK
<1>5. \A q \in Objects \ {o, p} : Val(q)' = Val(q)
  BY <1>1, <1>2 DEF Val, At, Inv, TypeOK
<1>6. Value' = [Value EXCEPT ![o] = Value[p], ![p] = Empty]
  BY <1>1, <1>4, <1>5 DEF Value
<1>7. Plain!MoveTo(o, p)
  BY <1>1, <1>3, <1>6 DEF Plain!MoveTo, Plain!Empty, Empty, Value, Val, Shown
<1> QED
  BY <1>7 DEF Plain!ValueNext

LEMMA AddStep ==
  ASSUME Inv, NEW o \in Objects, NEW a \in Attributes, NEW x \in Typed, Add(o, a, x)
  PROVE  Plain!ValueNext
<1> DEFINE old == At(list[o])
           c == IF old[a] = Absent THEN [old EXCEPT ![a] = x] ELSE old
<1>1. PICK l \in OwnList(o) :
        /\ list' = [list EXCEPT ![o] = l]
        /\ owned' = [owned EXCEPT ![o] = TRUE]
        /\ live' = live \cup {l}
        /\ content' = [content EXCEPT ![l] = c]
  BY DEF Add
<1>2. /\ state[o] = "valid" /\ state' = state /\ lent' = lent
      /\ answer' = IF old[a] = Absent THEN "none" ELSE "threw"
  BY DEF Add
<1>3. Val(o) = old
  BY <1>2 DEF Val
<1> HIDE DEF old, c
(* The list is new, or it is the own one, which no one else sees.          *)
<1>4. /\ l \in Lists /\ l \notin Lent
      /\ \A p \in Objects \ {o} : state[p] = "valid" => list[p] # l
  <2>1. CASE list[o] = Null \/ ~owned[o]
    <3>1. l \in Lists \ live
      BY <1>1, <2>1 DEF OwnList
    <3> QED
      BY <3>1, FreshFact, SeenFact, EmptyFact
  <2>2. CASE list[o] # Null /\ owned[o]
    <3>1. l = list[o]
      BY <1>1, <2>2 DEF OwnList
    <3> QED
      BY <2>2, <3>1 DEF Inv, TypeOK, OwnedInv, BorrowedInv, Owns
  <2> QED
    BY <2>1, <2>2
<1>5. \A k : k # l => At(k)' = At(k)
  <2>1. ASSUME NEW k, k # l
        PROVE  At(k)' = At(k)
    <3>1. k # Null => content'[k] = content[k]
      BY <1>1, <2>1 DEF Inv, TypeOK
    <3> QED
      BY <3>1, AtSame
  <2> QED
    BY <2>1
<1>6. Shown' = Shown
  BY <1>2, <1>4, <1>5, ShownSame
<1>7. \A p \in Objects \ {o} : Val(p)' = Val(p)
  BY <1>1, <1>2, <1>4, <1>5 DEF Val, Inv, TypeOK
<1>8. Val(o)' = c
  BY <1>1, <1>2, <1>4, EmptyFact DEF Val, At, Inv, TypeOK
<1>9. Value[o] = old
  BY <1>3 DEF Value
<1>10. CASE old[a] = Absent
  <2>1. c = [old EXCEPT ![a] = x]
    BY <1>10 DEF c
  <2>2. Value' = [Value EXCEPT ![o] = [Value[o] EXCEPT ![a] = x]]
    BY <1>7, <1>8, <1>9, <2>1 DEF Value
  <2>3. Plain!AddTo(o, a, x)
    BY <1>2, <1>6, <1>9, <1>10, <2>2 DEF Plain!AddTo, Value, Val, Shown
  <2> QED
    BY <2>3 DEF Plain!ValueNext
<1>11. CASE old[a] # Absent
  <2>1. Value' = Value
    BY <1>3, <1>7, <1>8, <1>11 DEF Value, c
  <2>2. Plain!AddTo(o, a, x)
    BY <1>2, <1>6, <1>9, <1>11, <2>1 DEF Plain!AddTo, Value, Val, Shown
  <2> QED
    BY <2>2 DEF Plain!ValueNext
<1> QED
  BY <1>10, <1>11

LEMMA SameView ==
  ASSUME UNCHANGED <<state, list, content, lent>>
  PROVE  Value' = Value /\ Shown' = Shown
BY DEF Value, Val, Shown, At

LEMMA HasStep ==
  ASSUME Inv, NEW o \in Objects, NEW a \in Attributes, Has(o, a)
  PROVE  Plain!ValueNext
<1>1. Value' = Value /\ Shown' = Shown /\ state' = state /\ state[o] = "valid"
  BY SameView DEF Has
<1>2. Value[o] = At(list[o])
  BY <1>1 DEF Value, Val
<1>3. answer' = IF Value[o][a] # Absent THEN "yes" ELSE "no"
  BY <1>2 DEF Has, At, Empty
<1>4. Plain!Answer(o, Plain!Contained(o, a))
  BY <1>1, <1>3 DEF Plain!Answer, Plain!Contained, Value, Val, Shown
<1> QED
  BY <1>4 DEF Plain!ValueNext

LEMMA GetStep ==
  ASSUME Inv, NEW o \in Objects, NEW a \in Attributes, NEW type \in Types, Get(o, a, type)
  PROVE  Plain!ValueNext
<1>1. Value' = Value /\ Shown' = Shown /\ state' = state /\ state[o] = "valid"
  BY SameView DEF Get
<1>2. Value[o] = At(list[o])
  BY <1>1 DEF Value, Val
<1>3. answer' = IF Value[o][a] # Absent /\ Value[o][a].type = type
                THEN Value[o][a].value ELSE "threw"
  BY <1>2 DEF Get
<1>4. Plain!Answer(o, Plain!Gotten(o, a, type))
  BY <1>1, <1>3 DEF Plain!Answer, Plain!Gotten, Value, Val, Shown
<1> QED
  BY <1>4 DEF Plain!ValueNext

LEMMA DestroyStep ==
  ASSUME Inv, NEW o \in Objects, Destroy(o)
  PROVE  Plain!ValueNext
<1>1. /\ state[o] # "none" /\ state' = [state EXCEPT ![o] = "none"]
      /\ list' = [list EXCEPT ![o] = Null] /\ lent' = lent /\ answer' = "none"
  BY DEF Destroy
<1>2. ASSUME NEW k, k = Null \/ k \in Lists, owned[o] => k # list[o]
      PROVE  At(k)' = At(k)
  BY <1>2, AtSame DEF Destroy, Free, Inv, TypeOK
<1>3. ASSUME NEW p \in Objects \ {o}
      PROVE  Val(p)' = Val(p)
  <2>1. list[p] \in Lists \cup {Null} /\ state'[p] = state[p] /\ list'[p] = list[p]
    BY <1>1 DEF Inv, TypeOK
  <2>2. CASE state[p] = "valid"
    <3>1. owned[o] => list[p] # list[o]
      BY <2>2 DEF Inv, TypeOK, OwnedInv, BorrowedInv, Owns
    <3>2. \A k : k = list[p] => At(k)' = At(k)
      BY <1>2, <2>1, <3>1
    <3> QED
      BY <2>1, <2>2, <3>2 DEF Val, At
  <2>3. CASE state[p] # "valid"
    BY <2>1, <2>3 DEF Val
  <2> QED
    BY <2>2, <2>3
<1>4. Val(o)' = Empty
  BY <1>1 DEF Val, Inv, TypeOK
<1>5. Shown' = Shown
  <2>1. \A k \in Lent : (k = Null \/ k \in Lists) /\ (owned[o] => k # list[o])
    BY SeenFact DEF Lent, Inv, OwnedInv
  <2> QED
    BY <1>1, <1>2, <2>1, ShownSame
<1>6. Value' = [Value EXCEPT ![o] = Empty]
  BY <1>3, <1>4 DEF Value
<1>7. Plain!Remove(o)
  BY <1>1, <1>5, <1>6 DEF Plain!Remove, Plain!Empty, Empty, Value, Val, Shown
<1> QED
  BY <1>7 DEF Plain!ValueNext

(* A callback begins, with these attributes.                               *)
LEMMA PushStep ==
  ASSUME Inv, NEW l \in Lists \cup {Null}, NEW c \in Contents,
         lent' = Append(lent, l), answer' = "none",
         UNCHANGED <<state, list, owned>>,
         \/ l = Null /\ c = Empty /\ UNCHANGED <<live, content>>
         \/ l \in Lists /\ Allocate(l, c)
  PROVE  Plain!ValueNext
<1>1. /\ lent' \in Seq(Lists \cup {Null})
      /\ Len(lent) \in Nat /\ Len(lent') = Len(lent) + 1
      /\ \A i \in 1 .. Len(lent) : lent'[i] = lent[i]
      /\ lent'[Len(lent) + 1] = l
  BY PushFact DEF Inv, TypeOK
<1>2. ASSUME NEW k, k = Null \/ k \in live
      PROVE  At(k)' = At(k)
  BY <1>2, AtSame DEF Allocate, Inv, TypeOK
<1>3. At(l)' = c
  BY EmptyFact DEF Allocate, At, Inv, TypeOK
<1>4. Value' = Value
  <2>1. ASSUME NEW p \in Objects
        PROVE  Val(p)' = Val(p)
    <3>1. state[p] = "valid" => \A k : k = list[p] => At(k)' = At(k)
      BY <1>2, SeenFact
    <3> QED
      BY <3>1 DEF Val, At
  <2> QED
    BY <2>1 DEF Value
<1>5. Shown' = Append(Shown, c)
  <2> DEFINE later(k) == IF k = Null THEN Empty ELSE content'[k]
  <2>1. ASSUME NEW i \in 1 .. Len(lent)
        PROVE  later(lent'[i]) = At(lent[i])
    <3>1. \A k : k = lent[i] => At(k)' = At(k)
      BY <1>2, SeenFact
    <3> QED
      BY <3>1, <1>1 DEF At
  <2>2. later(lent'[Len(lent) + 1]) = c
    BY <1>1, <1>3 DEF At
  <2>3. Shown \in Seq(Contents) /\ Len(Shown) = Len(lent)
    <3>1. \A i \in 1 .. Len(lent) : At(lent[i]) \in Contents
      BY LentType, AtFact DEF Inv
    <3> QED
      BY <1>1, <3>1 DEF Shown
  <2>4. /\ Append(Shown, c) \in Seq(Contents)
        /\ Len(Append(Shown, c)) = Len(lent) + 1
        /\ \A i \in 1 .. Len(lent) : Append(Shown, c)[i] = Shown[i]
        /\ Append(Shown, c)[Len(lent) + 1] = c
    BY <2>3, PushFact
  <2>5. Append(Shown, c) = [i \in 1 .. Len(lent) + 1 |-> Append(Shown, c)[i]]
    <3> DEFINE u == Append(Shown, c)
    <3>1. u \in Seq(Contents) /\ Len(u) = Len(lent) + 1
      BY <2>4
    <3> HIDE DEF u
    <3>2. u = [i \in 1 .. Len(u) |-> u[i]]
      BY <3>1
    <3> QED
      BY <3>1, <3>2 DEF u
  <2>6. Shown' = [i \in 1 .. Len(lent) + 1 |-> later(lent'[i])]
    BY <1>1 DEF Shown, At
  <2>7. ASSUME NEW i \in 1 .. Len(lent) + 1
        PROVE  Append(Shown, c)[i] = later(lent'[i])
    <3>1. CASE i \in 1 .. Len(lent)
      <4>1. Shown[i] = At(lent[i])
        BY <3>1 DEF Shown
      <4>2. Append(Shown, c)[i] = Shown[i] /\ later(lent'[i]) = At(lent[i])
        BY <2>1, <2>4, <3>1
      <4> QED
        BY <4>1, <4>2
    <3>2. CASE i = Len(lent) + 1
      <4>1. Append(Shown, c)[i] = c
        BY <2>4, <3>2
      <4>2. later(lent'[i]) = c
        BY <2>2, <3>2
      <4> QED
        BY <4>1, <4>2
    <3>3. i \in 1 .. Len(lent) \/ i = Len(lent) + 1
      BY <1>1
    <3> QED
      BY <3>1, <3>2, <3>3
  <2> QED
    BY <2>5, <2>6, <2>7
<1>6. Plain!Push(c)
  BY <1>4, <1>5 DEF Plain!Push, Value, Val, Shown
<1> QED
  BY <1>6 DEF Plain!ValueNext, Plain!Contents, Contents

LEMMA BeginCallbackStep ==
  ASSUME Inv, NEW l \in Lists, BeginCallback(l)
  PROVE  Plain!ValueNext
<1>1. lent' = Append(lent, l)
  BY DEF BeginCallback
<1> QED
  BY <1>1, PushStep DEF BeginCallback

LEMMA ForwardStep ==
  ASSUME Inv, Forward
  PROVE  Plain!ValueNext
<1>1. Top \in Lists \cup {Null}
  BY LentType DEF Forward, Inv
<1>2. CASE lent' = Append(lent, Null) /\ UNCHANGED <<live, content>>
  BY <1>2, PushStep, EmptyFact DEF Forward
<1>3. ASSUME At(Top) # Empty, NEW new \in Lists,
             Allocate(new, content[Top]), lent' = Append(lent, new)
      PROVE  Plain!ValueNext
  <2>1. content[Top] \in Contents
    BY <1>1, <1>3 DEF At, Inv, TypeOK
  <2> QED
    BY <1>3, <2>1, PushStep DEF Forward
<1> QED
  BY <1>2, <1>3 DEF Forward

LEMMA EndCallbackStep ==
  ASSUME Inv, EndCallback
  PROVE  Plain!ValueNext
<1> DEFINE n == Len(lent)
<1>1. /\ lent' = SubSeq(lent, 1, n - 1) /\ lent # <<>>
      /\ lent' \in Seq(Lists \cup {Null})
      /\ n \in Nat \ {0} /\ Len(lent') = n - 1
      /\ \A i \in 1 .. n - 1 : lent'[i] = lent[i]
  BY PopFact DEF EndCallback, Inv, TypeOK
<1>2. n \in 1 .. n /\ Top = lent[n] /\ Top \in Lists \cup {Null}
  BY LentType, <1>1 DEF Inv
<1>3. UNCHANGED <<state, list, owned>> /\ answer' = "none"
  BY DEF EndCallback
<1>4. ASSUME NEW k, k = Null \/ k \in Lists, k # Null => k # Top
      PROVE  At(k)' = At(k)
  BY <1>4, AtSame DEF EndCallback, Free, Inv, TypeOK
<1>5. Value' = Value
  <2>1. ASSUME NEW p \in Objects
        PROVE  Val(p)' = Val(p)
    <3>1. ASSUME state[p] = "valid", list[p] # Null
          PROVE  list[p] # Top
      BY <1>2, <3>1, LentType DEF EndCallback, Inv, OwnedInv
    <3>2. state[p] = "valid" => \A k : k = list[p] => At(k)' = At(k)
      BY <1>4, <3>1, SeenFact
    <3> QED
      BY <3>2, <1>3 DEF Val, At
  <2> QED
    BY <2>1 DEF Value
<1>6. ASSUME NEW i \in 1 .. n - 1
      PROVE  i \in 1 .. n /\ Shown'[i] = At(lent[i])
  <2>1. i \in 1 .. n /\ i # n /\ i \in 1 .. Len(lent')
    BY <1>1
  <2>2. lent[i] # Null => lent[i] # Top
    BY <2>1, <1>2 DEF Inv, LentInv
  <2>3. \A k : k = lent[i] => At(k)' = At(k)
    BY <2>1, <2>2, <1>4, SeenFact
  <2>4. Shown'[i] = IF lent'[i] = Null THEN Empty ELSE content'[lent'[i]]
    BY <2>1 DEF Shown, At
  <2> QED
    BY <2>1, <2>3, <2>4, <1>1 DEF At
<1> HIDE DEF n
<1>7. Shown \in Seq(Contents) /\ Len(Shown) = n /\ Shown # <<>>
  <2>1. \A i \in 1 .. n : At(lent[i]) \in Contents
    BY LentType, AtFact DEF Inv, n
  <2> QED
    BY <1>1, <2>1 DEF Shown, n
<1>8. /\ SubSeq(Shown, 1, n - 1) \in Seq(Contents)
      /\ Len(SubSeq(Shown, 1, n - 1)) = n - 1
      /\ \A i \in 1 .. n - 1 : SubSeq(Shown, 1, n - 1)[i] = Shown[i]
  BY <1>7, PopFact
<1>9. Shown' = SubSeq(Shown, 1, n - 1)
  <2> DEFINE u == SubSeq(Shown, 1, n - 1)
  <2>1. u = [i \in 1 .. n - 1 |-> u[i]]
    <3>1. u \in Seq(Contents) /\ Len(u) = n - 1
      BY <1>8
    <3> HIDE DEF u
    <3>2. u = [i \in 1 .. Len(u) |-> u[i]]
      BY <3>1
    <3> QED
      BY <3>1, <3>2
  <2>2. ASSUME NEW i \in 1 .. n - 1
        PROVE  u[i] = Shown'[i]
    <3>1. Shown[i] = At(lent[i])
      BY <1>6 DEF Shown, n
    <3> QED
      BY <3>1, <1>6, <1>8
  <2>3. Shown' = [i \in 1 .. n - 1 |-> Shown'[i]]
    BY <1>1 DEF Shown
  <2> HIDE DEF u
  <2>4. u = Shown'
    BY <2>1, <2>2, <2>3
  <2> QED
    BY <2>4 DEF u
<1>10. Shown' = SubSeq(Shown, 1, Len(Shown) - 1) /\ Shown # <<>>
  BY <1>7, <1>9
<1>11. Plain!Pop
  BY <1>3, <1>5, <1>10 DEF Plain!Pop, Value, Val, Shown
<1> QED
  BY <1>11 DEF Plain!ValueNext

(* The lists that are shared, lent and handed on look as if each event had *)
(* its attributes as a value.                                              *)
THEOREM Refinement ==
  Spec => ImplementsValues
<1>1. Init => Plain!ValueInit
  <2> SUFFICES ASSUME Init PROVE Plain!ValueInit
    OBVIOUS
  <2>1. Value = [o \in Objects |-> Empty] /\ Shown = <<>>
    BY DEF Init, Value, Val, Shown
  <2> QED
    BY <2>1 DEF Init, Plain!ValueInit, Plain!Empty, Empty, Value, Val, Shown
<1>2. Inv /\ [Next]_vars => [Plain!ValueNext]_(Plain!valueVars)
  <2> SUFFICES ASSUME Inv, [Next]_vars PROVE [Plain!ValueNext]_(Plain!valueVars)
    OBVIOUS
  <2>1. ASSUME NEW o \in Objects, Construct(o)
        PROVE  Plain!ValueNext
    BY <2>1, NullStep DEF Construct
  <2>2. ASSUME NEW o \in Objects, CopyShown(o)
        PROVE  Plain!ValueNext
    <3>1. Top \in Lists \cup {Null}
      BY <2>2, LentType DEF CopyShown, Inv
    <3> QED
      BY <2>2, <3>1, CloneStep DEF CopyShown
  <2>3. ASSUME NEW o \in Objects, NEW p \in Objects, Copy(o, p)
        PROVE  Plain!ValueNext
    <3>1. list[p] \in Lists \cup {Null}
      BY DEF Inv, TypeOK
    <3> QED
      BY <2>3, <3>1, CloneStep DEF Copy
  <2>4. CASE UNCHANGED vars
    <3>1. Value' = Value /\ Shown' = Shown /\ state' = state /\ answer' = answer
      BY <2>4, SameView DEF vars
    <3> QED
      BY <3>1 DEF Plain!valueVars, Value, Val, Shown
  <2>5. CASE Next
    BY <2>1, <2>2, <2>3, <2>5, BorrowStep, MoveStep, AddStep, HasStep, GetStep,
       DestroyStep, BeginCallbackStep, ForwardStep, EndCallbackStep DEF Next
  <2> QED
    BY <2>4, <2>5
<1> QED
  BY <1>1, <1>2, InductiveInvariant, PTL DEF Spec, ImplementsValues, Plain!ValueSpec
=============================================================================
