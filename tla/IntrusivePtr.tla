---------------------------- MODULE IntrusivePtr -----------------------------
(***************************************************************************)
(* The ownership of definition records: otf2::intrusive_ptr over an impl   *)
(* object that derives from otf2::definition::detail::ref_counted.  Every  *)
(* definition (definition::detail::base) is such a pointer, and an impl    *)
(* object has pointers of its own as members (a region its strings, a      *)
(* calling context its parent), so that deleting one object may release    *)
(* and delete others.                                                      *)
(*                                                                         *)
(* The counter is atomic and pointers are copied and destroyed in several  *)
(* threads.  One step is one atomic access of a counter or one piece of    *)
(* code of one thread between two such accesses.  A pointer itself is not  *)
(* atomic: it belongs to one thread at a time, which may hand it on.       *)
(***************************************************************************)
EXTENDS Integers, FiniteSets, Sequences

CONSTANTS
  Threads,
  Handles,      (* the pointers in variables, containers and registries    *)
  Objects,      (* impl objects; an address is not used twice              *)
  Slots,        (* the members of an impl object that are pointers         *)
  Depth,        (* of an object: how far its class is from the classes     *)
                (* that nothing has for a member                           *)
  Null          (* nullptr                                                 *)

(* Everything that is an intrusive_ptr: the handles, the temporary or the  *)
(* destroyed pointer each thread works on, the members of the objects.     *)
Member == Objects \X Slots
Pointer == Handles \cup Threads \cup Member

ASSUME PointersAssumption ==
  /\ IsFiniteSet(Pointer)
  /\ Handles \cap Threads = {}
  /\ (Handles \cup Threads) \cap Member = {}
ASSUME NullAssumption == Null \notin Objects
ASSUME DepthAssumption == Depth \in [Objects -> Nat]

VARIABLES
  ref,          (* data_ of every pointer that counts in its object        *)
  count,        (* ref_count_ of every object                              *)
  life,         (* of every object: none, alive, dying (in its destructor  *)
                (* or those of its members) or freed                       *)
  owner,        (* the thread that may access a handle                     *)
  pc,           (* where a thread is, see States                           *)
  raw,          (* the raw pointer a thread works on                       *)
  result,       (* what its last release() returned                        *)
  dest,         (* the handle its operation assigns                        *)
  dying         (* the objects whose destructors it runs, innermost last   *)

vars == <<ref, count, life, owner, pc, raw, result, dest, dying>>

(* idle: outside of every pointer operation; construct: in the constructor *)
(* of raw; retain: about to retain raw in a new temporary; swap: about to  *)
(* swap the temporary with dest; release: about to release a pointer that  *)
(* is being destroyed; released: release() has returned; unwind: in the    *)
(* destructor of the innermost dying object.                               *)
States ==
  {"idle", "construct", "retain", "swap", "release", "released", "unwind"}

Holding(o) == {x \in Pointer : ref[x] = o}

Resume(stack) == IF stack = <<>> THEN "idle" ELSE "unwind"

Goto(t, state) == pc' = [pc EXCEPT ![t] = state]

Init ==
  /\ ref = [x \in Pointer |-> Null]
  /\ count = [o \in Objects |-> 0]
  /\ life = [o \in Objects |-> "none"]
  /\ owner \in [Handles -> Threads]
  /\ pc = [t \in Threads |-> "idle"]
  /\ raw = [t \in Threads |-> Null]
  /\ result = [t \in Threads |-> 0]
  /\ dest = [t \in Threads |-> Null]
  /\ dying = [t \in Threads |-> <<>>]

-----------------------------------------------------------------------------
(* Operations a thread begins *)

(* h = definition(ref, new impl(...)): the constructor of the impl object  *)
(* starts, with the counter at 0.                                          *)
New(t, h, o) ==
  /\ pc[t] = "idle"
  /\ owner[h] = t
  /\ life[o] = "none"
  /\ life' = [life EXCEPT ![o] = "alive"]
  /\ raw' = [raw EXCEPT ![t] = o]
  /\ dest' = [dest EXCEPT ![t] = h]
  /\ Goto(t, "construct")
  /\ UNCHANGED <<ref, count, owner, result, dying>>

(* A member of the object under construction is copied from a definition   *)
(* that is an argument of the constructor.  It may be of the same class (a *)
(* parent), but never of one that has such an object for a member.         *)
InitMember(t, i, g) ==
  /\ pc[t] = "construct"
  /\ owner[g] = t
  /\ ref[g] # Null
  /\ Depth[ref[g]] >= Depth[raw[t]]
  /\ ref[<<raw[t], i>>] = Null
  /\ count' = [count EXCEPT ![ref[g]] = @ + 1]
  /\ ref' = [ref EXCEPT ![<<raw[t], i>>] = ref[g]]
  /\ UNCHANGED <<life, owner, pc, raw, result, dest, dying>>

(* The constructor ends; intrusive_ptr(T* data) has to retain the object.  *)
Constructed(t) ==
  /\ pc[t] = "construct"
  /\ Goto(t, "retain")
  /\ UNCHANGED <<ref, count, life, owner, raw, result, dest, dying>>

(* h = g, or the copy construction of h, which is the assignment to a null *)
(* pointer.  Where both point to the same object, operator= returns early. *)
Copy(t, h, g) ==
  /\ pc[t] = "idle"
  /\ owner[h] = t /\ owner[g] = t
  /\ ref[g] # Null /\ ref[h] # ref[g]
  /\ raw' = [raw EXCEPT ![t] = ref[g]]
  /\ dest' = [dest EXCEPT ![t] = h]
  /\ Goto(t, "retain")
  /\ UNCHANGED <<ref, count, life, owner, result, dying>>

(* A wrong variant of Move that leaves the source as it is.                *)
MoveKeepsSource(t, h, g) ==
  /\ pc[t] = "idle"
  /\ owner[h] = t /\ owner[g] = t /\ h # g
  /\ ref' = [ref EXCEPT ![h] = ref[g], ![t] = ref[h]]
  /\ Goto(t, IF ref[h] = Null THEN "idle" ELSE "release")
  /\ UNCHANGED <<count, life, owner, raw, result, dest, dying>>

(* h = std::move(g), or the move construction of h: the source is swapped  *)
(* with a null temporary and that with h; the old pointer of h goes out    *)
(* with the temporary.                                                     *)
Move(t, h, g) ==
  /\ pc[t] = "idle"
  /\ owner[h] = t /\ owner[g] = t /\ h # g
  /\ ref' = [ref EXCEPT ![h] = ref[g], ![g] = Null, ![t] = ref[h]]
  /\ Goto(t, IF ref[h] = Null THEN "idle" ELSE "release")
  /\ UNCHANGED <<count, life, owner, raw, result, dest, dying>>

(* h is destroyed, or a null pointer is assigned to it.                    *)
Drop(t, h) ==
  /\ pc[t] = "idle"
  /\ owner[h] = t
  /\ ref[h] # Null
  /\ ref' = [ref EXCEPT ![h] = Null, ![t] = ref[h]]
  /\ Goto(t, "release")
  /\ UNCHANGED <<count, life, owner, raw, result, dest, dying>>

(* The program hands a pointer to another thread, with synchronisation.    *)
Give(t, h, u) ==
  /\ pc[t] = "idle"
  /\ owner[h] = t
  /\ owner' = [owner EXCEPT ![h] = u]
  /\ UNCHANGED <<ref, count, life, pc, raw, result, dest, dying>>

(* A wrong variant of AddMember, for a class that can hold itself.         *)
AddAnyMember(t, h, i, g) ==
  /\ pc[t] = "idle"
  /\ owner[h] = t /\ owner[g] = t
  /\ ref[h] # Null /\ ref[g] # Null
  /\ ref[<<ref[h], i>>] = Null
  /\ count' = [count EXCEPT ![ref[g]] = @ + 1]
  /\ ref' = [ref EXCEPT ![<<ref[h], i>>] = ref[g]]
  /\ UNCHANGED <<life, owner, pc, raw, result, dest, dying>>

(* h.add_member(g): a group, a metric class or a topology that is already  *)
(* in use gets another member, which is of a class below its own.          *)
AddMember(t, h, i, g) ==
  /\ pc[t] = "idle"
  /\ owner[h] = t /\ owner[g] = t
  /\ ref[h] # Null /\ ref[g] # Null
  /\ Depth[ref[g]] > Depth[ref[h]]
  /\ ref[<<ref[h], i>>] = Null
  /\ count' = [count EXCEPT ![ref[g]] = @ + 1]
  /\ ref' = [ref EXCEPT ![<<ref[h], i>>] = ref[g]]
  /\ UNCHANGED <<life, owner, pc, raw, result, dest, dying>>

(* h.remove_member(...): a member of a group is destroyed; where several   *)
(* have the reference to remove, one after the other.                      *)
RemoveMember(t, h, i) ==
  /\ pc[t] = "idle"
  /\ owner[h] = t
  /\ ref[h] # Null
  /\ ref[<<ref[h], i>>] # Null
  /\ Depth[ref[<<ref[h], i>>]] > Depth[ref[h]]
  /\ ref' = [ref EXCEPT ![<<ref[h], i>>] = Null,
                        ![t] = ref[<<ref[h], i>>]]
  /\ Goto(t, "release")
  /\ UNCHANGED <<count, life, owner, raw, result, dest, dying>>

-----------------------------------------------------------------------------
(* How they go on *)

(* A wrong variant of Retain that does not count.                          *)
RetainUncounted(t) ==
  /\ pc[t] = "retain"
  /\ ref' = [ref EXCEPT ![t] = raw[t]]
  /\ Goto(t, "swap")
  /\ UNCHANGED <<count, life, owner, raw, result, dest, dying>>

(* intrusive_ptr(T* data), for a temporary                                 *)
Retain(t) ==
  /\ pc[t] = "retain"
  /\ count' = [count EXCEPT ![raw[t]] = @ + 1]
  /\ ref' = [ref EXCEPT ![t] = raw[t]]
  /\ Goto(t, "swap")
  /\ UNCHANGED <<life, owner, raw, result, dest, dying>>

(* The swap with *this, after which the temporary, with the old pointer of *)
(* the handle, goes out.                                                   *)
Swap(t) ==
  /\ pc[t] = "swap"
  /\ ref' = [ref EXCEPT ![dest[t]] = ref[t], ![t] = ref[dest[t]]]
  /\ Goto(t, IF ref[dest[t]] = Null THEN "idle" ELSE "release")
  /\ UNCHANGED <<count, life, owner, raw, result, dest, dying>>

(* ~intrusive_ptr: the call of release()                                   *)
Release(t) ==
  /\ pc[t] = "release"
  /\ raw' = [raw EXCEPT ![t] = ref[t]]
  /\ ref' = [ref EXCEPT ![t] = Null]
  /\ count' = [count EXCEPT ![ref[t]] = @ - 1]
  /\ result' = [result EXCEPT ![t] = count[ref[t]] - 1]
  /\ Goto(t, "released")
  /\ UNCHANGED <<life, owner, dest, dying>>

(* Wrong variants of Delete: the counter is read again in place of the     *)
(* returned value; the destructor is left without destroying the members.  *)
DeleteOnSecondRead(t) ==
  /\ pc[t] = "released" /\ count[raw[t]] = 0
  /\ life' = [life EXCEPT ![raw[t]] = "dying"]
  /\ dying' = [dying EXCEPT ![t] = Append(@, raw[t])]
  /\ Goto(t, "unwind")
  /\ UNCHANGED <<ref, count, owner, raw, result, dest>>

DeleteShallow(t) ==
  /\ pc[t] = "released" /\ result[t] = 0
  /\ life' = [life EXCEPT ![raw[t]] = "freed"]
  /\ Goto(t, Resume(dying[t]))
  /\ UNCHANGED <<ref, count, owner, raw, result, dest, dying>>

(* ~intrusive_ptr: delete data_                                            *)
Delete(t) ==
  /\ pc[t] = "released" /\ result[t] = 0
  /\ life' = [life EXCEPT ![raw[t]] = "dying"]
  /\ dying' = [dying EXCEPT ![t] = Append(@, raw[t])]
  /\ Goto(t, "unwind")
  /\ UNCHANGED <<ref, count, owner, raw, result, dest>>

(* ~intrusive_ptr: other pointers are left                                 *)
Keep(t) ==
  /\ pc[t] = "released" /\ result[t] # 0
  /\ Goto(t, Resume(dying[t]))
  /\ UNCHANGED <<ref, count, life, owner, raw, result, dest, dying>>

Innermost(t) == dying[t][Len(dying[t])]

(* The destructor of the innermost object destroys a member (in any order, *)
(* which covers the one of C++).                                           *)
DestroyMember(t, i) ==
  /\ pc[t] = "unwind"
  /\ ref[<<Innermost(t), i>>] # Null
  /\ ref' = [ref EXCEPT ![<<Innermost(t), i>>] = Null,
                        ![t] = ref[<<Innermost(t), i>>]]
  /\ Goto(t, "release")
  /\ UNCHANGED <<count, life, owner, raw, result, dest, dying>>

(* All its members are destroyed: its memory is given back.                *)
Free(t) ==
  /\ pc[t] = "unwind"
  /\ \A i \in Slots : ref[<<Innermost(t), i>>] = Null
  /\ life' = [life EXCEPT ![Innermost(t)] = "freed"]
  /\ dying' = [dying EXCEPT ![t] = SubSeq(@, 1, Len(@) - 1)]
  /\ Goto(t, Resume(dying'[t]))
  /\ UNCHANGED <<ref, count, owner, raw, result, dest>>

Begin(t) ==
  \E h \in Handles :
    \/ \E o \in Objects : New(t, h, o)
    \/ \E g \in Handles : Copy(t, h, g) \/ Move(t, h, g)
    \/ Drop(t, h)
    \/ \E u \in Threads : Give(t, h, u)
    \/ \E i \in Slots, g \in Handles : AddMember(t, h, i, g)
    \/ \E i \in Slots : RemoveMember(t, h, i)

Continue(t) ==
  \/ \E i \in Slots, g \in Handles : InitMember(t, i, g)
  \/ Constructed(t)
  \/ Retain(t)
  \/ Swap(t)
  \/ Release(t)
  \/ Delete(t)
  \/ Keep(t)
  \/ \E i \in Slots : DestroyMember(t, i)
  \/ Free(t)

Next == \E t \in Threads : Begin(t) \/ Continue(t)

Spec == Init /\ [][Next]_vars

(* A thread that has begun an operation ends it; none has to begin one.    *)
FairSpec == Spec /\ \A t \in Threads : WF_vars(Continue(t))

-----------------------------------------------------------------------------
(* Properties *)

TypeOK ==
  /\ ref \in [Pointer -> Objects \cup {Null}]
  /\ count \in [Objects -> Nat]
  /\ life \in [Objects -> {"none", "alive", "dying", "freed"}]
  /\ owner \in [Handles -> Threads]
  /\ pc \in [Threads -> States]
  /\ raw \in [Threads -> Objects \cup {Null}]
  /\ result \in [Threads -> Nat]
  /\ dest \in [Threads -> Handles \cup {Null}]
  /\ dying \in [Threads -> Seq(Objects)]

(* Whatever the threads do, an object's counter is the number of pointers  *)
(* to it: handles, members of other objects and pointers on their way out. *)
CountIsHolders == \A o \in Objects : count[o] = Cardinality(Holding(o))

(* No pointer ever points to an object whose destructor has started, even  *)
(* while a thread unwinds a chain of objects that others share.            *)
NoDanglingPointer ==
  \A x \in Pointer : ref[x] # Null => life[ref[x]] = "alive"

(* An object that a thread is about to retain or to delete is alive, and   *)
(* the one about to delete it has it for itself: no pointer is left and no *)
(* other thread is about to retain or to delete it.                        *)
Busy(t) ==
  \/ pc[t] \in {"construct", "retain"}
  \/ pc[t] = "released" /\ result[t] = 0

DeletedByOne ==
  \A t \in Threads : Busy(t) =>
    /\ life[raw[t]] = "alive"
    /\ pc[t] = "released" =>
         /\ Holding(raw[t]) = {}
         /\ \A u \in Threads \ {t} : Busy(u) => raw[u] # raw[t]

(* An object that is going or gone stays so, and its counter, which is 0,  *)
(* is not touched again.                                                   *)
Gone(o) == life[o] \in {"dying", "freed"}

NeverRevived ==
  [][\A o \in Objects : Gone(o) => count'[o] = 0 /\ Gone(o)']_vars

(* Counting pointers frees no ring of objects.  There is none: no objects  *)
(* are kept alive by pointers among themselves alone.  One of them has a   *)
(* pointer from elsewhere, which somebody will destroy, or a thread that   *)
(* is about to give it its first pointer or to delete it.                  *)
Kept(o, S) ==
  \/ \E x \in Holding(o) :
       x \in Member => x[1] \notin S /\ life[x[1]] # "freed"
  \/ \E t \in Threads : Busy(t) /\ raw[t] = o

NoGarbage ==
  \A S \in SUBSET {o \in Objects : life[o] = "alive"} :
    S # {} => \E o \in S : Kept(o, S)

(* An object whose destructor has started is destroyed by one thread and   *)
(* at one depth of its stack, so that its memory is given back once; and   *)
(* no other object is on a stack.                                          *)
UnwoundByOne ==
  /\ \A o \in Objects : life[o] = "dying" =>
       \E t \in Threads : \E k \in 1 .. Len(dying[t]) : dying[t][k] = o
  /\ \A t, u \in Threads :
       \A k \in 1 .. Len(dying[t]), l \in 1 .. Len(dying[u]) :
         /\ life[dying[t][k]] = "dying"
         /\ dying[t][k] = dying[u][l] => t = u /\ k = l

(* An object that no handle, no thread and no living object points to, and *)
(* that is not about to get its first pointer, is deleted, and with it     *)
(* everything only it kept alive.                                          *)
Unreachable(o) ==
  /\ life[o] = "alive"
  /\ \A x \in Holding(o) : x \in Member /\ life[x[1]] = "freed"
  /\ \A t \in Threads : raw[t] = o => pc[t] \notin {"construct", "retain"}

NothingLeaks ==
  \A o \in Objects : Unreachable(o) \/ life[o] = "dying" ~> life[o] = "freed"
=============================================================================
