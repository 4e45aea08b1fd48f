-------------------------- MODULE EventBufferProofs --------------------------
(***************************************************************************)
(* Theorems about EventBuffer, for every set of locations, request ids and *)
(* event types and every trace, however long.                              *)
(***************************************************************************)
EXTENDS EventBuffer, SequenceTheorems, WellFoundedInduction, TLAPS

-----------------------------------------------------------------------------
(* Facts about the operators of the model *)

(* A set of naturals that is not empty has a least element.                *)
LEMMA LeastElement ==
  ASSUME NEW S, S \subseteq Nat, S # {}
  PROVE  \E m \in S : \A n \in S : m <= n
<1> DEFINE R == OpToRel(<, Nat)
<1>1. IsWellFoundedOn(R, Nat)
  BY NatLessThanWellFounded
<1>2. PICK m \in S : \A n \in S : <<n, m>> \notin R
  BY <1>1, WFMin
<1>3. \A n \in S : ~(n < m)
  BY <1>2 DEF OpToRel
<1> QED
  BY <1>3

(* The request a receive is attached to is in the queue and is answered    *)
(* by it.                                                                  *)
LEMMA FirstMatchFact ==
  ASSUME NEW q \in Seq(Node), NEW r, FirstMatch(q, r) # 0
  PROVE  /\ FirstMatch(q, r) \in 1 .. Len(q)
         /\ Answers(r, q[FirstMatch(q, r)].event)
<1> DEFINE M == {k \in 1 .. Len(q) : Answers(r, q[k].event)}
<1>1. M # {}
  BY DEF FirstMatch
<1>2. M \subseteq Nat
  OBVIOUS
<1>3. \E k \in M : \A l \in M : k <= l
  BY <1>1, <1>2, LeastElement
<1>4. FirstMatch(q, r) = CHOOSE k \in M : \A l \in M : k <= l
  BY <1>1 DEF FirstMatch
<1>5. FirstMatch(q, r) \in M
  BY <1>3, <1>4
<1> QED
  BY <1>5

(* Attach changes only the completed flag and the data of one node, a      *)
(* request that the receive answers.                                       *)
LEMMA AttachFact ==
  ASSUME NEW q \in Seq(Node), NEW r, NEW pos \in Nat \ {0}
  PROVE  /\ Attach(q, r, pos) \in Seq(Node)
         /\ Len(Attach(q, r, pos)) = Len(q)
         /\ \A k \in 1 .. Len(q) :
              \/ Attach(q, r, pos)[k] = q[k]
              \/ /\ Answers(r, q[k].event)
                 /\ Attach(q, r, pos)[k] =
                      [event |-> q[k].event, completed |-> TRUE, data |-> pos]
<1>1. CASE FirstMatch(q, r) = 0
  BY <1>1 DEF Attach
<1>2. CASE FirstMatch(q, r) # 0
  <2> DEFINE m == FirstMatch(q, r)
             n == [event |-> q[m].event, completed |-> TRUE, data |-> pos]
  <2>1. m \in 1 .. Len(q) /\ Answers(r, q[m].event)
    BY <1>2, FirstMatchFact
  <2>2. n \in Node
    BY <2>1, ElementOfSeq DEF Node
  <2>3. Attach(q, r, pos) = [q EXCEPT ![m] = n]
    BY <1>2 DEF Attach
  <2> HIDE DEF m, n
  <2>4. /\ Attach(q, r, pos) \in Seq(Node)
        /\ Len(Attach(q, r, pos)) = Len(q)
        /\ \A k \in 1 .. Len(q) :
             Attach(q, r, pos)[k] = IF k = m THEN n ELSE q[k]
    BY <2>1, <2>2, <2>3, ExceptSeq
  <2> QED
    BY <2>1, <2>4 DEF m, n
<1> QED
  BY <1>1, <1>2

(* What reaches add() is an event of a type that buffer overrides.         *)
LEMMA ForwardedEvent ==
  ASSUME NEW t \in Types, NEW e \in EventOf(t),
         Forward(e).type \in Overridden
  PROVE  Forward(e) \in Event
<1>1. e.type = t /\ e.location \in Locations
  BY DEF EventOf
<1>2. e = [type |-> t, location |-> e.location, request |-> e.request]
  BY DEF EventOf
<1>3. Forward(e) = [type |-> AddedType(t), location |-> e.location,
                    request |-> e.request]
  BY <1>1, <1>2 DEF Forward
<1>4. AddedType(t) \in Overridden
  BY <1>3
<1>5. Forward(e) \in EventOf(AddedType(t))
  <2>1. CASE t \in DOMAIN Forwarded
    <3>1. t \in {"calling_context_enter", "calling_context_leave"}
      BY <2>1 DEF Forwarded
    <3>2. AddedType(t) \in {"enter", "leave"}
      BY <3>1 DEF AddedType, Forwarded
    <3> QED
      BY <1>1, <1>3, <3>1, <3>2 DEF EventOf, RequestTypes
  <2>2. CASE t \notin DOMAIN Forwarded
    BY <1>1, <1>3, <2>2 DEF EventOf, AddedType
  <2> QED
    BY <2>1, <2>2
<1> QED
  BY <1>4, <1>5 DEF Event

(* The events of a type that buffer overrides are events.                  *)
LEMMA RequestEvent ==
  ASSUME NEW t \in Types, NEW e \in EventOf(t), IsRequest(e) \/ IsReceive(e)
  PROVE  e \in Event /\ Id(e) \in Locations \X RequestIds
<1>1. t \in {"mpi_ireceive_request", "mpi_ireceive"}
  BY DEF EventOf, IsRequest, IsReceive
<1>2. t \in Overridden /\ t \in RequestTypes
  BY <1>1 DEF Overridden, Dispatched, RequestTypes
<1> QED
  BY <1>2 DEF Event, EventOf, Id

(* A new node is a node, incomplete only if it is a request.               *)
LEMMA NewNodeFact ==
  ASSUME NEW e \in Event
  PROVE  NewNode(e) \in Node
BY DEF NewNode, Node, IsRequest

-----------------------------------------------------------------------------
(* Types *)

(* What TypeOK says of the queue, for any queue.                           *)
QueueOK(q) ==
  /\ q \in Seq(Node)
  /\ \A k \in 1 .. Len(q) :
       q[k].completed <=> (IsRequest(q[k].event) => q[k].data # 0)

(* Appending a new node, attaching data and popping the head keep it.      *)
LEMMA AppendQueueOK ==
  ASSUME NEW q, QueueOK(q), NEW e \in Event
  PROVE  QueueOK(Append(q, NewNode(e)))
<1>1. NewNode(e) \in Node
  BY NewNodeFact
<1>2. /\ Append(q, NewNode(e)) \in Seq(Node)
      /\ Len(Append(q, NewNode(e))) = Len(q) + 1
      /\ \A k \in 1 .. Len(q) : Append(q, NewNode(e))[k] = q[k]
      /\ Append(q, NewNode(e))[Len(q) + 1] = NewNode(e)
  BY <1>1, AppendProperties DEF QueueOK
<1>3. NewNode(e).completed <=> (IsRequest(NewNode(e).event) =>
                                  NewNode(e).data # 0)
  BY DEF NewNode, IsRequest
<1> QED
  BY <1>2, <1>3 DEF QueueOK

LEMMA AttachQueueOK ==
  ASSUME NEW q, QueueOK(q), NEW r, NEW pos \in Nat \ {0}
  PROVE  QueueOK(Attach(q, r, pos))
<1> DEFINE a == Attach(q, r, pos)
<1>1. /\ a \in Seq(Node)
      /\ Len(a) = Len(q)
  BY AttachFact DEF QueueOK
<1>2. ASSUME NEW k \in 1 .. Len(q)
      PROVE  a[k].completed <=> (IsRequest(a[k].event) => a[k].data # 0)
  <2>1. CASE a[k] = q[k]
    BY <2>1 DEF QueueOK
  <2>2. CASE a[k] = [event |-> q[k].event, completed |-> TRUE, data |-> pos]
    BY <2>2
  <2> QED
    BY <2>1, <2>2, AttachFact DEF QueueOK
<1> QED
  BY <1>1, <1>2 DEF QueueOK

LEMMA TailQueueOK ==
  ASSUME NEW q, QueueOK(q), q # <<>>
  PROVE  QueueOK(Tail(q))
<1>1. /\ Tail(q) \in Seq(Node)
      /\ Len(Tail(q)) = Len(q) - 1
      /\ \A k \in 1 .. Len(Tail(q)) : Tail(q)[k] = q[k + 1]
  BY HeadTailProperties DEF QueueOK
<1> QED
  BY <1>1 DEF QueueOK

(* The types of the variables, and: between calls and during the loop, a   *)
(* node is incomplete exactly if it is a request without data.             *)
THEOREM TypeCorrect == Spec => []TypeOK
<1>1. Init => TypeOK
  BY DEF Init, TypeOK, States
<1>2. TypeOK /\ [Next]_vars => TypeOK'
  <2> SUFFICES ASSUME TypeOK, [Next]_vars
               PROVE  TypeOK'
    OBVIOUS
  <2>0. TypeOK /\ QueueOK(nodes)
    BY DEF TypeOK, QueueOK
  <2>1. ASSUME NEW t \in Types, NEW e \in EventOf(t), Ignore(e)
        PROVE  TypeOK'
    BY <2>0, <2>1 DEF TypeOK, Ignore, Plain
  <2>2. ASSUME NEW t \in Types, NEW e \in EventOf(t), Add(Forward(e))
        PROVE  TypeOK'
    <3> DEFINE a == Forward(e)
    <3>1. a \in Event
      BY <2>2, ForwardedEvent DEF Add
    <3> HIDE DEF a
    <3>2. Append(accepted, a) \in Seq(Event)
      BY <2>0, <3>1 DEF TypeOK
    <3>3. QueueOK(Append(nodes, NewNode(a)))
      BY <2>0, <3>1, AppendQueueOK
    <3>4. Shown(NewNode(a)) \in [event : Event, data : Nat]
      BY <3>1 DEF Shown, NewNode
    <3>5. active' \subseteq Locations \X RequestIds
      BY <2>0, <2>2 DEF Add, Closes, Plain, TypeOK
    <3>6. QueueOK(nodes')
      BY <2>0, <2>2, <3>3 DEF Add, a
    <3>7. delivered' \in Seq([event : Event, data : Nat])
      <4>1. Append(delivered, Shown(NewNode(a)))
              \in Seq([event : Event, data : Nat])
        BY <2>0, <3>4, AppendProperties DEF TypeOK
      <4> QED
        BY <2>0, <2>2, <4>1 DEF Add, a, TypeOK
    <3> QED
      BY <2>0, <2>2, <3>2, <3>5, <3>6, <3>7 DEF Add, a, TypeOK, QueueOK
  <2>3. ASSUME NEW t \in Types, NEW e \in EventOf(t), AddRequest(e)
        PROVE  TypeOK'
    <3>1. e \in Event /\ Id(e) \in Locations \X RequestIds
      BY <2>3, RequestEvent DEF AddRequest
    <3>2. Append(accepted, e) \in Seq(Event)
      BY <2>0, <3>1 DEF TypeOK
    <3>3. QueueOK(Append(nodes, NewNode(e)))
      BY <2>0, <3>1, AppendQueueOK
    <3>4. active' \subseteq Locations \X RequestIds
      BY <2>0, <2>3, <3>1 DEF AddRequest, Opens, TypeOK
    <3>5. overlaps' \subseteq Locations \X RequestIds
      BY <2>0, <2>3, <3>1 DEF AddRequest, TypeOK
    <3> QED
      BY <2>0, <2>3, <3>2, <3>3, <3>4, <3>5 DEF AddRequest, TypeOK, QueueOK
  <2>4. ASSUME NEW t \in Types, NEW e \in EventOf(t), AddReceive(e)
        PROVE  TypeOK'
    <3>1. e \in Event
      BY <2>4, RequestEvent DEF AddReceive
    <3>2. Append(accepted, e) \in Seq(Event)
      BY <2>0, <3>1 DEF TypeOK
    <3>3. Len(accepted) + 1 \in Nat \ {0}
      BY <2>0 DEF TypeOK
    <3>4. QueueOK(Append(Attach(nodes, e, Len(accepted) + 1), NewNode(e)))
      BY <2>0, <3>1, <3>3, AttachQueueOK, AppendQueueOK
    <3>5. active' \subseteq Locations \X RequestIds
      BY <2>0, <2>4 DEF AddReceive, Closes, TypeOK
    <3> QED
      BY <2>0, <2>4, <3>2, <3>4, <3>5 DEF AddReceive, TypeOK, QueueOK, States
  <2>5. CASE ProcessNode
    <3>1. nodes # <<>>
      BY <2>5 DEF ProcessNode, HeadCompleted
    <3>2. QueueOK(Tail(nodes))
      BY <2>0, <3>1, TailQueueOK
    <3>3. Head(nodes) \in Node
      BY <2>0, <3>1, HeadTailProperties DEF QueueOK
    <3>4. Shown(Head(nodes)) \in [event : Event, data : Nat]
      BY <3>3 DEF Shown, Node
    <3>5. delivered' \in Seq([event : Event, data : Nat])
      BY <2>0, <2>5, <3>4 DEF ProcessNode, TypeOK
    <3> QED
      BY <2>0, <2>5, <3>2, <3>5 DEF ProcessNode, TypeOK, QueueOK
  <2>6. CASE ProcessUnknown \/ ProcessEnd \/ EventsDone \/ Destroy
    BY <2>0, <2>6 DEF TypeOK, ProcessUnknown, ProcessEnd, EventsDone, Destroy,
                      States
  <2>7. CASE UNCHANGED vars
    BY <2>0, <2>7 DEF TypeOK, vars
  <2> QED
    BY <2>1, <2>2, <2>3, <2>4, <2>5, <2>6, <2>7
       DEF Next, ReadEvent, ProcessData, Finished
<1> QED
  BY <1>1, <1>2, PTL DEF Spec

-----------------------------------------------------------------------------
(* Order *)

(* The steps that touch the queue or what the callback saw, and the rest.  *)
LEMMA StepCases ==
  ASSUME TypeOK, [Next]_vars
  PROVE  \/ \E e \in Event : Add(e)
         \/ \E e \in Event : AddRequest(e)
         \/ \E e \in Event : AddReceive(e)
         \/ ProcessNode
         \/ UNCHANGED <<accepted, nodes, delivered, active, overlaps>>
<1>1. ASSUME NEW t \in Types, NEW e \in EventOf(t), Add(Forward(e))
      PROVE  \E a \in Event : Add(a)
  BY <1>1, ForwardedEvent DEF Add
<1>2. ASSUME NEW t \in Types, NEW e \in EventOf(t), AddRequest(e)
      PROVE  \E a \in Event : AddRequest(a)
  BY <1>2, RequestEvent DEF AddRequest
<1>3. ASSUME NEW t \in Types, NEW e \in EventOf(t), AddReceive(e)
      PROVE  \E a \in Event : AddReceive(a)
  BY <1>3, RequestEvent DEF AddReceive
<1>4. ASSUME NEW t \in Types, NEW e \in EventOf(t), Ignore(e)
      PROVE  UNCHANGED <<accepted, nodes, delivered, active, overlaps>>
  BY <1>4 DEF Ignore, Plain
<1>5. CASE ProcessUnknown \/ ProcessEnd \/ EventsDone \/ Destroy \/ UNCHANGED vars
  BY <1>5 DEF ProcessUnknown, ProcessEnd, EventsDone, Destroy, vars
<1> QED
  BY <1>1, <1>2, <1>3, <1>4, <1>5 DEF Next, ReadEvent, ProcessData, Finished

(* What appending, attaching and popping do to the events in the queue.    *)
LEMMA AppendedEvents ==
  ASSUME NEW q \in Seq(Node), NEW e \in Event
  PROVE  /\ Len(Append(q, NewNode(e))) = Len(q) + 1
         /\ \A k \in 1 .. Len(q) : Append(q, NewNode(e))[k] = q[k]
         /\ Append(q, NewNode(e))[Len(q) + 1] = NewNode(e)
         /\ NewNode(e).event = e
<1>1. NewNode(e).event = e
  BY DEF NewNode
<1>2. NewNode(e) \in Node
  BY NewNodeFact
<1> QED
  BY <1>1, <1>2, AppendProperties

LEMMA AttachedEvents ==
  ASSUME NEW q \in Seq(Node), NEW r, NEW pos \in Nat \ {0}
  PROVE  /\ Attach(q, r, pos) \in Seq(Node)
         /\ Len(Attach(q, r, pos)) = Len(q)
         /\ \A k \in 1 .. Len(q) : Attach(q, r, pos)[k].event = q[k].event
<1>1. ASSUME NEW k \in 1 .. Len(q)
      PROVE  Attach(q, r, pos)[k].event = q[k].event
  <2>1. CASE Attach(q, r, pos)[k] = q[k]
    BY <2>1
  <2>2. CASE Attach(q, r, pos)[k] =
               [event |-> q[k].event, completed |-> TRUE, data |-> pos]
    BY <2>2
  <2> QED
    BY <2>1, <2>2, AttachFact
<1> QED
  BY <1>1, AttachFact

(* InOrderOnce, for any trace a, any shown events d and any queue q; ...   *)
View == [event : Event, data : Nat]

InOrder(a, d, q) ==
  /\ Len(a) = Len(d) + Len(q)
  /\ \A i \in 1 .. Len(d) : d[i].event = a[i]
  /\ \A k \in 1 .. Len(q) : q[k].event = a[Len(d) + k]

(* ... an event that joins the trace and the queue keeps it, ...           *)
LEMMA OrderAppend ==
  ASSUME NEW a \in Seq(Event), NEW d \in Seq(View), NEW q \in Seq(Node),
         InOrder(a, d, q), NEW e \in Event
  PROVE  InOrder(Append(a, e), d, Append(q, NewNode(e)))
<1> DEFINE a1 == Append(a, e)
           q1 == Append(q, NewNode(e))
<1>1. /\ Len(a1) = Len(a) + 1
      /\ \A i \in 1 .. Len(a) : a1[i] = a[i]
      /\ a1[Len(a) + 1] = e
  BY AppendProperties
<1>2. /\ Len(q1) = Len(q) + 1
      /\ \A k \in 1 .. Len(q) : q1[k] = q[k]
      /\ q1[Len(q) + 1].event = e
  BY AppendedEvents
<1>3. Len(a) \in Nat /\ Len(d) \in Nat /\ Len(q) \in Nat
  OBVIOUS
<1> HIDE DEF a1, q1
<1>4. ASSUME NEW k \in 1 .. Len(q1)
      PROVE  q1[k].event = a1[Len(d) + k]
  <2>1. CASE k \in 1 .. Len(q)
    <3>1. q1[k] = q[k]
      BY <1>2, <2>1
    <3>2. Len(d) + k \in 1 .. Len(a)
      BY <1>3, <2>1 DEF InOrder
    <3>3. a1[Len(d) + k] = a[Len(d) + k]
      BY <1>1, <3>2
    <3> QED
      BY <2>1, <3>1, <3>3 DEF InOrder
  <2>2. CASE k = Len(q) + 1
    BY <1>1, <1>2, <1>3, <2>2 DEF InOrder
  <2> QED
    BY <1>2, <1>3, <2>1, <2>2
<1>5. ASSUME NEW i \in 1 .. Len(d)
      PROVE  d[i].event = a1[i]
  <2>1. i \in 1 .. Len(a)
    BY <1>3 DEF InOrder
  <2> QED
    BY <1>1, <2>1 DEF InOrder
<1>6. Len(a1) = Len(d) + Len(q1)
  BY <1>1, <1>2, <1>3 DEF InOrder
<1> QED
  BY <1>4, <1>5, <1>6 DEF InOrder, a1, q1

(* ... so does one that is shown at once, past an empty queue, ...         *)
LEMMA OrderPass ==
  ASSUME NEW a \in Seq(Event), NEW d \in Seq(View), InOrder(a, d, <<>>),
         NEW e \in Event, NEW v \in View, v.event = e
  PROVE  InOrder(Append(a, e), Append(d, v), <<>>)
<1> DEFINE a1 == Append(a, e)
           d1 == Append(d, v)
<1>1. /\ Len(a1) = Len(a) + 1
      /\ \A i \in 1 .. Len(a) : a1[i] = a[i]
      /\ a1[Len(a) + 1] = e
  BY AppendProperties
<1>2. /\ Len(d1) = Len(d) + 1
      /\ \A i \in 1 .. Len(d) : d1[i] = d[i]
      /\ d1[Len(d) + 1] = v
  BY AppendProperties
<1>3. Len(a) \in Nat /\ Len(d) \in Nat /\ Len(a) = Len(d)
  BY DEF InOrder
<1> HIDE DEF a1, d1
<1>4. ASSUME NEW i \in 1 .. Len(d1)
      PROVE  d1[i].event = a1[i]
  <2>1. CASE i \in 1 .. Len(d)
    BY <1>1, <1>2, <1>3, <2>1 DEF InOrder
  <2>2. CASE i = Len(d) + 1
    BY <1>1, <1>2, <1>3, <2>2
  <2> QED
    BY <1>2, <1>3, <2>1, <2>2
<1>5. Len(a1) = Len(d1) + 0
  BY <1>1, <1>2, <1>3
<1> QED
  BY <1>4, <1>5 DEF InOrder, a1, d1

(* ... and so does showing the head of the queue.                          *)
LEMMA OrderPop ==
  ASSUME NEW a \in Seq(Event), NEW d \in Seq(View), NEW q \in Seq(Node),
         InOrder(a, d, q), q # <<>>
  PROVE  InOrder(a, Append(d, Shown(Head(q))), Tail(q))
<1> DEFINE h == Head(q)
           d1 == Append(d, Shown(h))
           q1 == Tail(q)
<1>1. h = q[1] /\ h \in Node /\ Len(q) \in Nat \ {0}
  BY EmptySeq, HeadTailProperties
<1>2. Shown(h) \in View /\ Shown(h).event = h.event
  BY <1>1 DEF Shown, Node, View
<1>3. /\ Len(d1) = Len(d) + 1
      /\ \A i \in 1 .. Len(d) : d1[i] = d[i]
      /\ d1[Len(d) + 1] = Shown(h)
  BY <1>2, AppendProperties
<1>4. Len(q1) = Len(q) - 1 /\ \A k \in 1 .. Len(q1) : q1[k] = q[k + 1]
  BY HeadTailProperties
<1>5. Len(a) \in Nat /\ Len(d) \in Nat
  OBVIOUS
<1> HIDE DEF h, d1, q1
<1>6. ASSUME NEW i \in 1 .. Len(d1)
      PROVE  d1[i].event = a[i]
  <2>1. CASE i \in 1 .. Len(d)
    BY <1>3, <2>1 DEF InOrder
  <2>2. CASE i = Len(d) + 1
    BY <1>1, <1>2, <1>3, <2>2 DEF InOrder
  <2> QED
    BY <1>3, <1>5, <2>1, <2>2
<1>7. ASSUME NEW k \in 1 .. Len(q1)
      PROVE  q1[k].event = a[Len(d1) + k]
  <2>1. k + 1 \in 1 .. Len(q)
    BY <1>1, <1>4
  <2>2. q[k + 1].event = a[Len(d) + (k + 1)]
    BY <2>1 DEF InOrder
  <2>3. Len(d) + (k + 1) = Len(d1) + k
    BY <1>3, <1>5, <2>1
  <2> QED
    BY <1>4, <2>2, <2>3
<1>8. Len(a) = Len(d1) + Len(q1)
  BY <1>1, <1>3, <1>4, <1>5 DEF InOrder
<1> QED
  BY <1>6, <1>7, <1>8 DEF InOrder, h, d1, q1

(* Nothing that was added is lost, duplicated or reordered.                *)
THEOREM OrderKept == Spec => []InOrderOnce
<1>0. InOrderOnce <=> InOrder(accepted, delivered, nodes)
  BY DEF InOrderOnce, InOrder
<1>1. Init => InOrderOnce
  BY DEF Init, InOrderOnce
<1>2. TypeOK /\ InOrderOnce /\ [Next]_vars => InOrderOnce'
  <2> SUFFICES ASSUME TypeOK, InOrder(accepted, delivered, nodes), [Next]_vars
               PROVE  InOrder(accepted, delivered, nodes)'
    BY <1>0 DEF InOrderOnce, InOrder
  <2>0. /\ accepted \in Seq(Event)
        /\ nodes \in Seq(Node)
        /\ delivered \in Seq(View)
    BY DEF TypeOK, View
  <2>1. ASSUME NEW e \in Event, Add(e)
        PROVE  InOrder(accepted', delivered', nodes')
    <3>1. CASE nodes # <<>>
      BY <2>0, <2>1, <3>1, OrderAppend DEF Add
    <3>2. CASE nodes = <<>>
      <4>1. Shown(NewNode(e)) \in View /\ Shown(NewNode(e)).event = e
        BY DEF Shown, NewNode, View
      <4> QED
        BY <2>0, <2>1, <3>2, <4>1, OrderPass DEF Add
    <3> QED
      BY <3>1, <3>2
  <2>2. ASSUME NEW e \in Event, AddRequest(e)
        PROVE  InOrder(accepted', delivered', nodes')
    BY <2>0, <2>2, OrderAppend DEF AddRequest
  <2>3. ASSUME NEW e \in Event, AddReceive(e)
        PROVE  InOrder(accepted', delivered', nodes')
    <3> DEFINE q == Attach(nodes, e, Len(accepted) + 1)
    <3>1. /\ q \in Seq(Node)
          /\ Len(q) = Len(nodes)
          /\ \A k \in 1 .. Len(nodes) : q[k].event = nodes[k].event
      BY <2>0, AttachedEvents
    <3>2. nodes' = Append(q, NewNode(e))
      BY <2>3 DEF AddReceive
    <3> HIDE DEF q
    <3>3. InOrder(accepted, delivered, q)
      BY <2>0, <3>1 DEF InOrder
    <3> QED
      BY <2>0, <2>3, <3>1, <3>2, <3>3, OrderAppend DEF AddReceive
  <2>4. CASE ProcessNode
    BY <2>0, <2>4, OrderPop DEF ProcessNode, HeadCompleted
  <2>5. CASE UNCHANGED <<accepted, nodes, delivered, active, overlaps>>
    BY <2>5
  <2> QED
    BY <2>1, <2>2, <2>3, <2>4, <2>5, StepCases DEF InOrder
<1> QED
  BY <1>1, <1>2, TypeCorrect, PTL DEF Spec

(* Between two calls the head of the queue is a request that is pending.   *)
THEOREM HeadPending == Spec => []HeadIsPending
<1>1. Init => HeadIsPending
  BY DEF Init, HeadIsPending, HeadCompleted
<1>2. TypeOK /\ HeadIsPending /\ [Next]_vars => HeadIsPending'
  <2> SUFFICES ASSUME TypeOK, HeadIsPending, [Next]_vars,
                      pc' \in {"ready", "done"}
               PROVE  ~HeadCompleted'
    BY DEF HeadIsPending
  <2>0. nodes \in Seq(Node)
    BY DEF TypeOK
  <2>1. ASSUME NEW e \in Event, nodes' = Append(nodes, NewNode(e)),
               ~HeadCompleted, nodes # <<>> \/ IsRequest(e)
        PROVE  ~HeadCompleted'
    <3>1. NewNode(e) \in Node
      BY NewNodeFact
    <3>2. CASE nodes = <<>>
      <4>1. Head(nodes') = NewNode(e)
        BY <2>1, <3>1, <3>2
      <4>2. ~NewNode(e).completed
        BY <2>1, <3>2 DEF NewNode
      <4> QED
        BY <4>1, <4>2 DEF HeadCompleted
    <3>3. CASE nodes # <<>>
      <4>1. Head(nodes') = Head(nodes)
        BY <2>0, <2>1, <3>1, <3>3, HeadTailAppend
      <4> QED
        BY <2>1, <3>3, <4>1 DEF HeadCompleted
    <3> QED
      BY <3>2, <3>3
  <2>2. ASSUME NEW t \in Types, NEW e \in EventOf(t), Add(Forward(e))
        PROVE  ~HeadCompleted'
    <3> DEFINE a == Forward(e)
    <3>1. a \in Event
      BY <2>2, ForwardedEvent DEF Add
    <3> HIDE DEF a
    <3>2. Add(a) /\ ~HeadCompleted
      BY <2>2 DEF Add, HeadIsPending, a
    <3>3. CASE nodes = <<>>
      BY <3>2, <3>3 DEF Add, HeadCompleted
    <3>4. CASE nodes # <<>>
      BY <2>1, <3>1, <3>2, <3>4 DEF Add
    <3> QED
      BY <3>3, <3>4
  <2>3. ASSUME NEW t \in Types, NEW e \in EventOf(t), AddRequest(e)
        PROVE  ~HeadCompleted'
    BY <2>1, <2>3, RequestEvent DEF AddRequest, HeadIsPending
  <2>4. ASSUME NEW t \in Types, NEW e \in EventOf(t), AddReceive(e)
        PROVE  ~HeadCompleted'
    BY <2>4 DEF AddReceive
  <2>5. CASE ProcessData
    BY <2>5 DEF ProcessData, ProcessNode, ProcessUnknown, ProcessEnd,
                HeadCompleted
  <2>6. CASE EventsDone \/ Destroy \/ UNCHANGED vars
    BY <2>6 DEF EventsDone, Destroy, vars, HeadIsPending, HeadCompleted
  <2>7. ASSUME NEW t \in Types, NEW e \in EventOf(t), Ignore(e)
        PROVE  ~HeadCompleted'
    BY <2>7 DEF Ignore, HeadIsPending, HeadCompleted
  <2> QED
    BY <2>2, <2>3, <2>4, <2>5, <2>6, <2>7 DEF Next, ReadEvent, Finished
<1> QED
  BY <1>1, <1>2, TypeCorrect, PTL DEF Spec

-----------------------------------------------------------------------------
(* Attached data *)

(* The data the callback saw, and the data in the queue, is that of an     *)
(* answer; only requests carry data.                                       *)
Carried(a, d, q) ==
  /\ \A i \in 1 .. Len(d) :
       IF IsRequest(d[i].event) THEN d[i].data \in AnswersTo(a, i)
                                ELSE d[i].data = 0
  /\ \A k \in 1 .. Len(q) :
       IF IsRequest(q[k].event)
         THEN q[k].data # 0 => q[k].data \in AnswersTo(a, Len(d) + k)
         ELSE q[k].data = 0

CarriedInv == Carried(accepted, delivered, nodes)

(* An answer stays one when the trace goes on, and a receive that joins    *)
(* the trace is an answer to each earlier request it completes.            *)
LEMMA AnswersGrow ==
  ASSUME NEW a \in Seq(Event), NEW e \in Event, NEW i \in 1 .. Len(a)
  PROVE  /\ AnswersTo(a, i) \subseteq AnswersTo(Append(a, e), i)
         /\ AnswersTo(Append(a, e), i) \subseteq
              AnswersTo(a, i) \cup {Len(a) + 1}
         /\ Len(a) + 1 \in AnswersTo(Append(a, e), i) <=> Answers(e, a[i])
<1> DEFINE a1 == Append(a, e)
<1>1. /\ Len(a1) = Len(a) + 1
      /\ \A j \in 1 .. Len(a) : a1[j] = a[j]
      /\ a1[Len(a) + 1] = e
  BY AppendProperties
<1>2. Len(a) \in Nat /\ i \in Nat
  OBVIOUS
<1> HIDE DEF a1
<1>3. AnswersTo(a, i) \subseteq AnswersTo(a1, i)
  BY <1>1, <1>2 DEF AnswersTo
<1>4. AnswersTo(a1, i) \subseteq AnswersTo(a, i) \cup {Len(a) + 1}
  BY <1>1, <1>2 DEF AnswersTo
<1>5. Len(a) + 1 \in AnswersTo(a1, i) <=> Answers(e, a[i])
  <2>1. Len(a) + 1 \in i + 1 .. Len(a1)
    BY <1>1, <1>2
  <2> QED
    BY <1>1, <2>1 DEF AnswersTo
<1> QED
  BY <1>3, <1>4, <1>5 DEF a1

(* An event joins the queue; ...                                           *)
LEMMA CarriedPush ==
  ASSUME NEW a, NEW d, NEW q \in Seq(Node), Carried(a, d, q), NEW e \in Event
  PROVE  Carried(a, d, Append(q, NewNode(e)))
<1> DEFINE q1 == Append(q, NewNode(e))
<1>1. /\ Len(q1) = Len(q) + 1 /\ Len(q) \in Nat
      /\ \A k \in 1 .. Len(q) : q1[k] = q[k]
      /\ q1[Len(q) + 1] = NewNode(e)
  BY AppendedEvents
<1>2. NewNode(e).data = 0
  BY DEF NewNode
<1> HIDE DEF q1
<1>3. ASSUME NEW k \in 1 .. Len(q1)
      PROVE  IF IsRequest(q1[k].event)
               THEN q1[k].data # 0 => q1[k].data \in AnswersTo(a, Len(d) + k)
               ELSE q1[k].data = 0
  <2>1. CASE k \in 1 .. Len(q)
    BY <1>1, <2>1 DEF Carried
  <2>2. CASE k = Len(q) + 1
    BY <1>1, <1>2, <2>2
  <2> QED
    BY <1>1, <2>1, <2>2
<1> QED
  BY <1>3 DEF Carried, q1

(* ... it joins the trace.                                                 *)
LEMMA CarriedGrow ==
  ASSUME NEW a \in Seq(Event), NEW d \in Seq(View), NEW q \in Seq(Node),
         InOrder(a, d, q), Carried(a, d, q), NEW e \in Event
  PROVE  Carried(Append(a, e), d, q)
<1> DEFINE a1 == Append(a, e)
<1>1. Len(a) \in Nat /\ Len(d) \in Nat /\ Len(q) \in Nat
      /\ Len(a) = Len(d) + Len(q)
  BY DEF InOrder
<1>2. \A i \in 1 .. Len(a) : AnswersTo(a, i) \subseteq AnswersTo(a1, i)
  BY AnswersGrow
<1> HIDE DEF a1
<1>3. ASSUME NEW i \in 1 .. Len(d)
      PROVE  IF IsRequest(d[i].event) THEN d[i].data \in AnswersTo(a1, i)
                                      ELSE d[i].data = 0
  <2>1. i \in 1 .. Len(a)
    BY <1>1
  <2> QED
    BY <1>2, <2>1 DEF Carried
<1>4. ASSUME NEW k \in 1 .. Len(q)
      PROVE  IF IsRequest(q[k].event)
               THEN q[k].data # 0 => q[k].data \in AnswersTo(a1, Len(d) + k)
               ELSE q[k].data = 0
  <2>1. Len(d) + k \in 1 .. Len(a)
    BY <1>1
  <2> QED
    BY <1>2, <2>1 DEF Carried
<1> QED
  BY <1>3, <1>4 DEF Carried, a1

(* A receive joins the trace and its data is attached to a request.        *)
LEMMA CarriedAttach ==
  ASSUME NEW a \in Seq(Event), NEW d \in Seq(View), NEW q \in Seq(Node),
         InOrder(a, d, q), Carried(a, d, q), NEW e \in Event
  PROVE  Carried(Append(a, e), d, Attach(q, e, Len(a) + 1))
<1> DEFINE a1 == Append(a, e)
           q1 == Attach(q, e, Len(a) + 1)
<1>1. Len(a) \in Nat /\ Len(d) \in Nat /\ Len(q) \in Nat
      /\ Len(a) = Len(d) + Len(q) /\ Len(a) + 1 \in Nat \ {0}
  BY DEF InOrder
<1>2. \A i \in 1 .. Len(a) :
        /\ AnswersTo(a, i) \subseteq AnswersTo(a1, i)
        /\ Len(a) + 1 \in AnswersTo(a1, i) <=> Answers(e, a[i])
  BY AnswersGrow
<1>3. /\ Len(q1) = Len(q)
      /\ \A k \in 1 .. Len(q) :
           \/ q1[k] = q[k]
           \/ /\ Answers(e, q[k].event)
              /\ q1[k] = [event |-> q[k].event, completed |-> TRUE,
                          data |-> Len(a) + 1]
  BY <1>1, AttachFact
<1> HIDE DEF a1, q1
<1>4. ASSUME NEW i \in 1 .. Len(d)
      PROVE  IF IsRequest(d[i].event) THEN d[i].data \in AnswersTo(a1, i)
                                      ELSE d[i].data = 0
  <2>1. i \in 1 .. Len(a)
    BY <1>1
  <2> QED
    BY <1>2, <2>1 DEF Carried
<1>5. ASSUME NEW k \in 1 .. Len(q1)
      PROVE  IF IsRequest(q1[k].event)
               THEN q1[k].data # 0 => q1[k].data \in AnswersTo(a1, Len(d) + k)
               ELSE q1[k].data = 0
  <2>1. k \in 1 .. Len(q) /\ Len(d) + k \in 1 .. Len(a)
    BY <1>1, <1>3
  <2>2. CASE q1[k] = q[k]
    BY <1>2, <2>1, <2>2 DEF Carried
  <2>3. CASE /\ Answers(e, q[k].event)
             /\ q1[k] = [event |-> q[k].event, completed |-> TRUE,
                         data |-> Len(a) + 1]
    <3>1. q1[k].event = q[k].event /\ q1[k].data = Len(a) + 1
      BY <2>3
    <3>2. IsRequest(q[k].event) /\ q[k].event = a[Len(d) + k]
      BY <2>1, <2>3 DEF Answers, InOrder
    <3> QED
      BY <1>2, <2>1, <2>3, <3>1, <3>2
  <2> QED
    BY <1>3, <2>1, <2>2, <2>3
<1> QED
  BY <1>4, <1>5 DEF Carried, a1, q1

(* The head of the queue is shown.                                         *)
LEMMA CarriedPop ==
  ASSUME NEW a \in Seq(Event), NEW d \in Seq(View), NEW q \in Seq(Node),
         Carried(a, d, q), q # <<>>,
         IsRequest(Head(q).event) => Head(q).data # 0
  PROVE  Carried(a, Append(d, Shown(Head(q))), Tail(q))
<1> DEFINE h == Head(q)
           d1 == Append(d, Shown(h))
           q1 == Tail(q)
<1>1. h = q[1] /\ h \in Node /\ Len(q) \in Nat \ {0}
  BY EmptySeq, HeadTailProperties
<1>2. Shown(h) \in View /\ Shown(h).event = h.event /\ Shown(h).data = h.data
  BY <1>1 DEF Shown, Node, View
<1>3. /\ Len(d1) = Len(d) + 1
      /\ \A i \in 1 .. Len(d) : d1[i] = d[i]
      /\ d1[Len(d) + 1] = Shown(h)
  BY <1>2, AppendProperties
<1>4. Len(q1) = Len(q) - 1 /\ \A k \in 1 .. Len(q1) : q1[k] = q[k + 1]
  BY HeadTailProperties
<1>5. Len(d) \in Nat /\ (IsRequest(h.event) => h.data # 0)
  OBVIOUS
<1> HIDE DEF h, d1, q1
<1>6. ASSUME NEW i \in 1 .. Len(d1)
      PROVE  IF IsRequest(d1[i].event) THEN d1[i].data \in AnswersTo(a, i)
                                       ELSE d1[i].data = 0
  <2>1. CASE i \in 1 .. Len(d)
    BY <1>3, <2>1 DEF Carried
  <2>2. CASE i = Len(d) + 1
    <3>1. IF IsRequest(h.event) THEN h.data # 0 => h.data \in AnswersTo(a, i)
                                ELSE h.data = 0
      BY <1>1, <2>2 DEF Carried
    <3> QED
      BY <1>2, <1>3, <1>5, <2>2, <3>1
  <2> QED
    BY <1>3, <1>5, <2>1, <2>2
<1>7. ASSUME NEW k \in 1 .. Len(q1)
      PROVE  IF IsRequest(q1[k].event)
               THEN q1[k].data # 0 => q1[k].data \in AnswersTo(a, Len(d1) + k)
               ELSE q1[k].data = 0
  <2>1. k + 1 \in 1 .. Len(q) /\ Len(d) + (k + 1) = Len(d1) + k
    BY <1>1, <1>3, <1>4, <1>5
  <2> QED
    BY <1>4, <2>1 DEF Carried
<1> QED
  BY <1>6, <1>7 DEF Carried, h, d1, q1

(* An event is shown at once, past an empty queue.                         *)
LEMMA CarriedPass ==
  ASSUME NEW a \in Seq(Event), NEW d \in Seq(View), InOrder(a, d, <<>>),
         Carried(a, d, <<>>), NEW e \in Event, ~IsRequest(e)
  PROVE  Carried(Append(a, e), Append(d, Shown(NewNode(e))), <<>>)
<1> DEFINE a1 == Append(a, e)
           v == Shown(NewNode(e))
           d1 == Append(d, v)
<1>1. v \in View /\ v.event = e /\ v.data = 0
  BY DEF Shown, NewNode, View
<1>2. \A i \in 1 .. Len(a) : AnswersTo(a, i) \subseteq AnswersTo(a1, i)
  BY AnswersGrow
<1>3. /\ Len(d1) = Len(d) + 1
      /\ \A i \in 1 .. Len(d) : d1[i] = d[i]
      /\ d1[Len(d) + 1] = v
  BY <1>1, AppendProperties
<1>4. Len(d) \in Nat /\ Len(a) = Len(d)
  BY DEF InOrder
<1> HIDE DEF a1, v, d1
<1>5. ASSUME NEW i \in 1 .. Len(d1)
      PROVE  IF IsRequest(d1[i].event) THEN d1[i].data \in AnswersTo(a1, i)
                                       ELSE d1[i].data = 0
  <2>1. CASE i \in 1 .. Len(d)
    BY <1>2, <1>3, <1>4, <2>1 DEF Carried
  <2>2. CASE i = Len(d) + 1
    BY <1>1, <1>3, <2>2
  <2> QED
    BY <1>3, <1>4, <2>1, <2>2
<1> QED
  BY <1>5 DEF Carried, a1, v, d1

LEMMA CarriedCorrect == Spec => []CarriedInv
<1>1. Init => CarriedInv
  BY DEF Init, CarriedInv, Carried
<1>2. TypeOK /\ InOrderOnce /\ CarriedInv /\ [Next]_vars => CarriedInv'
  <2> SUFFICES ASSUME TypeOK, InOrderOnce, CarriedInv, [Next]_vars
               PROVE  Carried(accepted', delivered', nodes')
    BY DEF CarriedInv
  <2>0. /\ accepted \in Seq(Event)
        /\ nodes \in Seq(Node)
        /\ delivered \in Seq(View)
        /\ InOrder(accepted, delivered, nodes)
        /\ Carried(accepted, delivered, nodes)
    BY DEF TypeOK, View, InOrderOnce, InOrder, CarriedInv
  <2>1. ASSUME NEW e \in Event, Add(e)
        PROVE  Carried(accepted', delivered', nodes')
    <3>1. CASE nodes # <<>>
      BY <2>0, <2>1, <3>1, CarriedGrow, CarriedPush DEF Add
    <3>2. CASE nodes = <<>>
      BY <2>0, <2>1, <3>2, CarriedPass DEF Add
    <3> QED
      BY <3>1, <3>2
  <2>2. ASSUME NEW e \in Event, AddRequest(e)
        PROVE  Carried(accepted', delivered', nodes')
    BY <2>0, <2>2, CarriedGrow, CarriedPush DEF AddRequest
  <2>3. ASSUME NEW e \in Event, AddReceive(e)
        PROVE  Carried(accepted', delivered', nodes')
    <3> DEFINE q == Attach(nodes, e, Len(accepted) + 1)
    <3>1. q \in Seq(Node)
      BY <2>0, AttachedEvents
    <3>2. Carried(Append(accepted, e), delivered, q)
      BY <2>0, CarriedAttach
    <3> HIDE DEF q
    <3>3. Carried(Append(accepted, e), delivered, Append(q, NewNode(e)))
      BY <3>1, <3>2, CarriedPush
    <3> QED
      BY <2>3, <3>3 DEF AddReceive, q
  <2>4. CASE ProcessNode
    <3>1. nodes # <<>> /\ Head(nodes).completed
      BY <2>4 DEF ProcessNode, HeadCompleted
    <3>2. Head(nodes) = nodes[1] /\ Len(nodes) \in Nat \ {0}
      BY <2>0, <3>1, EmptySeq
    <3>3. IsRequest(Head(nodes).event) => Head(nodes).data # 0
      BY <3>1, <3>2 DEF TypeOK
    <3> QED
      BY <2>0, <2>4, <3>1, <3>3, CarriedPop DEF ProcessNode
  <2>5. CASE UNCHANGED <<accepted, nodes, delivered, active, overlaps>>
    BY <2>0, <2>5
  <2> QED
    BY <2>1, <2>2, <2>3, <2>4, <2>5, StepCases
<1> QED
  BY <1>1, <1>2, TypeCorrect, OrderKept, PTL DEF Spec

-----------------------------------------------------------------------------
(* Refinement *)

(* What the callback sees is what EventStream promises: also of traces     *)
(* that use request ids again, cancel requests, stop early or make         *)
(* process_data throw.                                                     *)
THEOREM BufferImplementsStream == Spec => ImplementsStream
<1>1. Init => Stream!SInit
  BY DEF Init, Stream!SInit
<1>2. ASSUME TypeOK, InOrderOnce, CarriedInv, [Next]_vars
      PROVE  [Stream!SNext]_(Stream!svars)
  <2>0. /\ accepted \in Seq(Event)
        /\ nodes \in Seq(Node)
        /\ delivered \in Seq(View)
        /\ InOrder(accepted, delivered, nodes)
        /\ Carried(accepted, delivered, nodes)
    BY <1>2 DEF TypeOK, View, InOrderOnce, InOrder, CarriedInv
  <2>1. ASSUME NEW e \in Event, Add(e)
        PROVE  Stream!SNext
    <3>1. CASE nodes # <<>>
      BY <2>1, <3>1 DEF Add, Stream!SNext, Stream!Offer
    <3>2. CASE nodes = <<>>
      <4>1. Len(delivered) = Len(accepted)
        BY <2>0, <3>2 DEF InOrder
      <4>2. Shown(NewNode(e)) = [event |-> e, data |-> 0]
        BY DEF Shown, NewNode
      <4> QED
        BY <2>1, <3>2, <4>1, <4>2
           DEF Add, Stream!SNext, Stream!PassThrough, Stream!IsRequest, IsRequest
    <3> QED
      BY <3>1, <3>2
  <2>2. ASSUME NEW e \in Event, AddRequest(e)
        PROVE  Stream!SNext
    BY <2>2 DEF AddRequest, Stream!SNext, Stream!Offer
  <2>3. ASSUME NEW e \in Event, AddReceive(e)
        PROVE  Stream!SNext
    BY <2>3 DEF AddReceive, Stream!SNext, Stream!Offer
  <2>4. CASE ProcessNode
    <3> DEFINE h == Head(nodes)
               i == Len(delivered) + 1
    <3>1. nodes # <<>> /\ h.completed
      BY <2>4 DEF ProcessNode, HeadCompleted
    <3>2. h = nodes[1] /\ h \in Node /\ Len(nodes) \in Nat \ {0}
      BY <2>0, <3>1, EmptySeq, HeadTailProperties
    <3>3. Len(delivered) < Len(accepted) /\ h.event = accepted[i]
      BY <2>0, <3>2 DEF InOrder
    <3>4. IsRequest(h.event) => h.data # 0
      BY <1>2, <3>1, <3>2 DEF TypeOK
    <3>5. h.data \in IF IsRequest(accepted[i]) THEN AnswersTo(accepted, i)
                                               ELSE {0}
      BY <2>0, <3>2, <3>3, <3>4 DEF Carried
    <3>6. Stream!AnswersTo(accepted, i) = AnswersTo(accepted, i)
      BY DEF AnswersTo, Stream!AnswersTo, Answers, Stream!Answers, IsRequest,
             Stream!IsRequest, IsReceive, Stream!IsReceive, Id, Stream!Id
    <3>7. Stream!IsRequest(accepted[i]) <=> IsRequest(accepted[i])
      BY DEF IsRequest, Stream!IsRequest
    <3>8. delivered' = Append(delivered, [event |-> h.event, data |-> h.data])
          /\ accepted' = accepted
      BY <2>4 DEF ProcessNode, Shown
    <3> HIDE DEF h
    <3>9. [event |-> h.event, data |-> h.data] \in Stream!Views(accepted, i)
      BY <3>3, <3>5, <3>6, <3>7 DEF Stream!Views
    <3> QED
      BY <3>3, <3>8, <3>9 DEF Stream!SNext, Stream!Show
  <2>5. CASE UNCHANGED <<accepted, nodes, delivered, active, overlaps>>
    BY <2>5 DEF Stream!svars
  <2> QED
    BY <1>2, <2>1, <2>2, <2>3, <2>4, <2>5, StepCases
<1> QED
  BY <1>1, <1>2, TypeCorrect, OrderKept, CarriedCorrect, PTL
     DEF Spec, ImplementsStream, Stream!SSpec

-----------------------------------------------------------------------------
(* Requests whose id is not used again while they are in the queue *)

(* What a further event does to the ends of a request.                     *)
IsEnd(e) == IsReceive(e) \/ IsCancel(e)

LEMMA EndsGrow ==
  ASSUME NEW a \in Seq(Event), NEW e \in Event, NEW i \in 1 .. Len(a)
  PROVE  Ends(Append(a, e), i) =
           IF IsEnd(e) /\ Id(e) = Id(a[i]) THEN Ends(a, i) \cup {Len(a) + 1}
           ELSE Ends(a, i)
<1> DEFINE a1 == Append(a, e)
<1>1. /\ Len(a1) = Len(a) + 1
      /\ \A j \in 1 .. Len(a) : a1[j] = a[j]
      /\ a1[Len(a) + 1] = e
  BY AppendProperties
<1>2. Len(a) \in Nat /\ i \in Nat
  OBVIOUS
<1> HIDE DEF a1
<1>3. i + 1 .. Len(a1) = (i + 1 .. Len(a)) \cup {Len(a) + 1}
  BY <1>1, <1>2
<1>4. \A j \in i + 1 .. Len(a) : a1[j] = a[j]
  BY <1>1, <1>2
<1>5. a1[i] = a[i]
  BY <1>1
<1> QED
  BY <1>1, <1>3, <1>4, <1>5 DEF Ends, IsEnd, a1

(* In the trace a, with the pairs act active, the last request of an       *)
(* active pair has not ended.                                              *)
LastRequest(a, i) ==
  \A j \in i + 1 .. Len(a) : IsRequest(a[j]) => Id(a[j]) # Id(a[i])

LastIsOpen(a, act) ==
  \A i \in 1 .. Len(a) :
    IsRequest(a[i]) /\ Id(a[i]) \in act /\ LastRequest(a, i) => Ends(a, i) = {}

OpenInv == LastIsOpen(accepted, active)

(* The trace goes on with an event that belongs to no request, with the    *)
(* start of a request, or with its end.                                    *)
LEMMA OpenGrow ==
  ASSUME NEW a \in Seq(Event), NEW act, LastIsOpen(a, act), NEW e \in Event,
         NEW act1,
         \/ ~IsRequest(e) /\ ~IsEnd(e) /\ act1 = act
         \/ IsRequest(e) /\ ~IsEnd(e) /\ act1 = act \cup {Id(e)}
         \/ ~IsRequest(e) /\ IsEnd(e) /\ act1 = act \ {Id(e)}
  PROVE  LastIsOpen(Append(a, e), act1)
<1> DEFINE a1 == Append(a, e)
<1>1. /\ Len(a) \in Nat
      /\ Len(a1) = Len(a) + 1
      /\ \A i \in 1 .. Len(a) : a1[i] = a[i]
      /\ a1[Len(a) + 1] = e
  BY AppendProperties
<1>2. \A i \in 1 .. Len(a) :
        Ends(a1, i) = IF IsEnd(e) /\ Id(e) = Id(a[i])
                        THEN Ends(a, i) \cup {Len(a) + 1} ELSE Ends(a, i)
  BY EndsGrow
<1> HIDE DEF a1
<1>3. ASSUME NEW i \in 1 .. Len(a1), IsRequest(a1[i]), Id(a1[i]) \in act1,
             LastRequest(a1, i)
      PROVE  Ends(a1, i) = {}
  <2>1. CASE i \in 1 .. Len(a)
    <3>1. IsRequest(a[i]) /\ a1[i] = a[i]
      BY <1>1, <1>3, <2>1
    <3>2. LastRequest(a, i)
      BY <1>1, <1>3, <2>1, <3>1 DEF LastRequest
    <3>3. IsRequest(e) => Id(e) # Id(a[i])
      <4>1. Len(a) + 1 \in i + 1 .. Len(a1)
        BY <1>1, <2>1
      <4> QED
        BY <1>1, <1>3, <3>1, <4>1 DEF LastRequest
    <3>4. Id(a[i]) \in act
      BY <1>3, <3>1, <3>3
    <3>5. ~(IsEnd(e) /\ Id(e) = Id(a[i]))
      BY <1>3, <3>1
    <3> QED
      BY <1>2, <2>1, <3>1, <3>2, <3>4, <3>5 DEF LastIsOpen
  <2>2. CASE i = Len(a) + 1
    BY <1>1, <2>2 DEF Ends
  <2> QED
    BY <1>1, <2>1, <2>2
<1> QED
  BY <1>3 DEF LastIsOpen, a1

LEMMA OpenCorrect == Spec => []OpenInv
<1>1. Init => OpenInv
  BY DEF Init, OpenInv, LastIsOpen
<1>2. TypeOK /\ OpenInv /\ [Next]_vars => OpenInv'
  <2> SUFFICES ASSUME TypeOK, LastIsOpen(accepted, active), [Next]_vars
               PROVE  LastIsOpen(accepted', active')
    BY DEF OpenInv
  <2>0. accepted \in Seq(Event)
    BY DEF TypeOK
  <2>1. ASSUME NEW e \in Event, Add(e)
        PROVE  LastIsOpen(accepted', active')
    <3>1. IF IsEnd(e) THEN active' = active \ {Id(e)} ELSE active' = active
      BY <2>1 DEF Add, Closes, Plain, IsEnd
    <3> QED
      BY <2>0, <2>1, <3>1, OpenGrow DEF Add
  <2>2. ASSUME NEW e \in Event, AddRequest(e)
        PROVE  LastIsOpen(accepted', active')
    <3>1. IsRequest(e) /\ ~IsEnd(e) /\ active' = active \cup {Id(e)}
      BY <2>2 DEF AddRequest, Opens, IsEnd, IsRequest, IsReceive, IsCancel
    <3> QED
      BY <2>0, <2>2, <3>1, OpenGrow DEF AddRequest
  <2>3. ASSUME NEW e \in Event, AddReceive(e)
        PROVE  LastIsOpen(accepted', active')
    <3>1. ~IsRequest(e) /\ IsEnd(e) /\ active' = active \ {Id(e)}
      BY <2>3 DEF AddReceive, Closes, IsEnd, IsRequest, IsReceive
    <3> QED
      BY <2>0, <2>3, <3>1, OpenGrow DEF AddReceive
  <2>4. CASE ProcessNode
    BY <2>4 DEF ProcessNode
  <2>5. CASE UNCHANGED <<accepted, nodes, delivered, active, overlaps>>
    BY <2>5
  <2> QED
    BY <2>1, <2>2, <2>3, <2>4, <2>5, StepCases
<1> QED
  BY <1>1, <1>2, TypeCorrect, PTL DEF Spec

(* Of a pair that is not in over, the trace a has no request behind one    *)
(* that is in the queue q, what is shown in d or queued has the data of    *)
(* the first event that ended it, and what is answered is completed.       *)
FirstEnd(a, i, p) == p \in Ends(a, i) /\ \A j \in Ends(a, i) : p <= j

Counts(e, over) == IsRequest(e) /\ Id(e) \notin over

Separate(a, d, q, over) ==
  /\ \A k \in 1 .. Len(q) :
       Counts(q[k].event, over) => LastRequest(a, Len(d) + k)
  /\ \A i \in 1 .. Len(d) :
       Counts(a[i], over) => FirstEnd(a, i, d[i].data)
  /\ \A k \in 1 .. Len(q) :
       Counts(q[k].event, over) /\ q[k].data # 0 =>
         FirstEnd(a, Len(d) + k, q[k].data)
  /\ \A k \in 1 .. Len(q) :
       Counts(q[k].event, over) /\ AnswersTo(a, Len(d) + k) # {} =>
         q[k].completed

SeparateInv == Separate(accepted, delivered, nodes, overlaps)

(* What is the first end of a request stays so.                            *)
LEMMA FirstEndStays ==
  ASSUME NEW a \in Seq(Event), NEW e \in Event, NEW i \in 1 .. Len(a), NEW p,
         FirstEnd(a, i, p)
  PROVE  FirstEnd(Append(a, e), i, p)
<1>1. p \in i + 1 .. Len(a) /\ Len(a) \in Nat /\ i \in Nat
  BY DEF FirstEnd, Ends
<1>2. p <= Len(a) + 1
  BY <1>1
<1> QED
  BY <1>2, EndsGrow DEF FirstEnd

(* A request that is not in over is the only one of its pair in the queue. *)
LEMMA OneQueued ==
  ASSUME NEW a \in Seq(Event), NEW d \in Seq(View), NEW q \in Seq(Node),
         NEW over, InOrder(a, d, q), Separate(a, d, q, over),
         NEW k \in 1 .. Len(q), NEW l \in 1 .. Len(q),
         Counts(q[k].event, over), IsRequest(q[l].event),
         Id(q[k].event) = Id(q[l].event)
  PROVE  k = l
<1>1. Len(a) \in Nat /\ Len(d) \in Nat /\ Len(q) \in Nat
      /\ Len(a) = Len(d) + Len(q) /\ k \in Nat /\ l \in Nat
  BY DEF InOrder
<1>2. q[k].event = a[Len(d) + k] /\ q[l].event = a[Len(d) + l]
  BY DEF InOrder
<1>3. LastRequest(a, Len(d) + k) /\ LastRequest(a, Len(d) + l)
  BY DEF Separate, Counts
<1>4. ASSUME k < l PROVE FALSE
  <2>1. Len(d) + l \in (Len(d) + k) + 1 .. Len(a)
    BY <1>1, <1>4
  <2> QED
    BY <1>2, <1>3, <2>1 DEF LastRequest
<1>5. ASSUME l < k PROVE FALSE
  <2>1. Len(d) + k \in (Len(d) + l) + 1 .. Len(a)
    BY <1>1, <1>5
  <2> QED
    BY <1>2, <1>3, <2>1 DEF LastRequest, Counts
<1> QED
  BY <1>1, <1>4, <1>5

(* An event joins the trace and the queue, of which it may have changed    *)
(* the node that it ends: q2 is the queue with this change.                *)
LEMMA SeparatePush ==
  ASSUME NEW a \in Seq(Event), NEW d \in Seq(View), NEW q \in Seq(Node),
         NEW over, InOrder(a, d, q), Separate(a, d, q, over),
         NEW e \in Event, NEW over1, over \subseteq over1,
         NEW q2 \in Seq(Node), Len(q2) = Len(q),
         \A k \in 1 .. Len(q) : q2[k].event = q[k].event,
         \A k \in 1 .. Len(q) :
           Counts(q[k].event, over1) =>
             /\ IsRequest(e) => Id(e) # Id(q[k].event)
             /\ IF Answers(e, q[k].event)
                  THEN /\ q2[k].completed /\ q2[k].data = Len(a) + 1
                       /\ Ends(a, Len(d) + k) = {}
                  ELSE q2[k] = q[k]
  PROVE  Separate(Append(a, e), d, Append(q2, NewNode(e)), over1)
<1> DEFINE a1 == Append(a, e)
           q1 == Append(q2, NewNode(e))
           n == Len(a) + 1
<1>1. /\ Len(a1) = n
      /\ \A i \in 1 .. Len(a) : a1[i] = a[i]
      /\ a1[n] = e
  BY AppendProperties
<1>2. /\ Len(q1) = Len(q) + 1
      /\ \A k \in 1 .. Len(q) : q1[k] = q2[k]
      /\ q1[Len(q) + 1] = NewNode(e)
  BY AppendedEvents
<1>3. Len(a) \in Nat /\ Len(d) \in Nat /\ Len(q) \in Nat
      /\ Len(a) = Len(d) + Len(q)
  BY DEF InOrder
<1>4. \A i \in 1 .. Len(a) : \A p : FirstEnd(a, i, p) => FirstEnd(a1, i, p)
  BY FirstEndStays
<1>5. \A i \in 1 .. Len(a) :
        /\ Ends(a1, i) = IF IsEnd(e) /\ Id(e) = Id(a[i])
                           THEN Ends(a, i) \cup {n} ELSE Ends(a, i)
        /\ AnswersTo(a1, i) \subseteq AnswersTo(a, i) \cup {n}
        /\ n \in AnswersTo(a1, i) <=> Answers(e, a[i])
  BY EndsGrow, AnswersGrow
<1>6. \A x : Counts(x, over1) => Counts(x, over)
  BY DEF Counts
<1>7. NewNode(e).event = e /\ NewNode(e).data = 0
  BY DEF NewNode
<1> HIDE DEF a1, q1, n
<1>8. ASSUME NEW k \in 1 .. Len(q), Counts(q1[k].event, over1)
      PROVE  /\ LastRequest(a1, Len(d) + k)
             /\ q1[k].data # 0 => FirstEnd(a1, Len(d) + k, q1[k].data)
             /\ AnswersTo(a1, Len(d) + k) # {} => q1[k].completed
  <2> DEFINE i == Len(d) + k
  <2>1. i \in 1 .. Len(a) /\ i \in Nat
    BY <1>3
  <2>2. q1[k].event = q[k].event /\ q[k].event = a[i] /\ a1[i] = a[i]
    BY <1>1, <1>2, <2>1 DEF InOrder
  <2>3. Counts(q[k].event, over) /\ LastRequest(a, i) /\ IsRequest(a[i])
    BY <1>6, <1>8, <2>2 DEF Separate, Counts
  <2> HIDE DEF i
  <2>4. LastRequest(a1, i)
    <3>1. i + 1 .. Len(a1) = (i + 1 .. Len(a)) \cup {n}
      BY <1>1, <1>3, <2>1 DEF n
    <3>2. \A j \in i + 1 .. Len(a) : a1[j] = a[j]
      BY <1>1, <2>1
    <3>3. IsRequest(e) => Id(e) # Id(a[i])
      BY <1>8, <2>2
    <3> QED
      BY <1>1, <2>2, <2>3, <3>1, <3>2, <3>3 DEF LastRequest
  <2>5. CASE Answers(e, a[i])
    <3>1. q1[k].completed /\ q1[k].data = n /\ Ends(a, i) = {}
      BY <1>2, <1>8, <2>2, <2>5 DEF i, n
    <3>2. Ends(a1, i) = {n}
      BY <1>5, <2>1, <2>5, <3>1 DEF Answers, IsEnd
    <3>3. n \in Nat
      BY <1>3 DEF n
    <3>4. FirstEnd(a1, i, n)
      BY <3>2, <3>3 DEF FirstEnd
    <3> QED
      BY <2>4, <3>1, <3>4 DEF i
  <2>6. CASE ~Answers(e, a[i])
    <3>1. q1[k] = q[k]
      BY <1>2, <1>8, <2>2, <2>6 DEF i
    <3>2. q[k].data # 0 => FirstEnd(a, i, q[k].data)
      BY <2>3 DEF Separate, i
    <3>3. AnswersTo(a1, i) # {} => AnswersTo(a, i) # {}
      BY <1>5, <2>1, <2>6
    <3>4. AnswersTo(a, i) # {} => q[k].completed
      BY <2>3 DEF Separate, i
    <3> QED
      BY <1>4, <2>1, <2>4, <3>1, <3>2, <3>3, <3>4 DEF i
  <2> QED
    BY <2>5, <2>6
<1>9. /\ LastRequest(a1, Len(d) + (Len(q) + 1))
      /\ q1[Len(q) + 1].data = 0
      /\ AnswersTo(a1, Len(d) + (Len(q) + 1)) = {}
  <2>1. Len(d) + (Len(q) + 1) = Len(a1)
    BY <1>1, <1>3 DEF n
  <2>2. Len(a1) + 1 .. Len(a1) = {}
    BY <1>1, <1>3 DEF n
  <2> QED
    BY <1>2, <1>7, <2>1, <2>2, SMTT(30) DEF LastRequest, AnswersTo
<1>10. 1 .. Len(q1) = (1 .. Len(q)) \cup {Len(q) + 1}
  BY <1>2, <1>3
<1>11. ASSUME NEW i \in 1 .. Len(d), Counts(a1[i], over1)
       PROVE  FirstEnd(a1, i, d[i].data)
  <2>1. i \in 1 .. Len(a) /\ a1[i] = a[i]
    BY <1>1, <1>3
  <2> QED
    BY <1>4, <1>6, <1>11, <2>1 DEF Separate
<1> QED
  BY <1>8, <1>9, <1>10, <1>11 DEF Separate, a1, q1

(* An event is shown at once, past an empty queue.                         *)
LEMMA SeparatePass ==
  ASSUME NEW a \in Seq(Event), NEW d \in Seq(View), NEW over,
         InOrder(a, d, <<>>), Separate(a, d, <<>>, over),
         NEW e \in Event, ~IsRequest(e)
  PROVE  Separate(Append(a, e), Append(d, Shown(NewNode(e))), <<>>, over)
<1> DEFINE a1 == Append(a, e)
           v == Shown(NewNode(e))
           d1 == Append(d, v)
<1>1. v \in View
  BY DEF Shown, NewNode, View
<1>2. /\ Len(a1) = Len(a) + 1
      /\ \A i \in 1 .. Len(a) : a1[i] = a[i]
      /\ a1[Len(a) + 1] = e
  BY AppendProperties
<1>3. /\ Len(d1) = Len(d) + 1
      /\ \A i \in 1 .. Len(d) : d1[i] = d[i]
  BY <1>1, AppendProperties
<1>4. Len(d) \in Nat /\ Len(a) = Len(d)
  BY DEF InOrder
<1>5. \A i \in 1 .. Len(a) : \A p : FirstEnd(a, i, p) => FirstEnd(a1, i, p)
  BY FirstEndStays
<1> HIDE DEF a1, v, d1
<1>6. ASSUME NEW i \in 1 .. Len(d1), Counts(a1[i], over)
      PROVE  FirstEnd(a1, i, d1[i].data)
  <2>1. CASE i \in 1 .. Len(d)
    BY <1>2, <1>3, <1>4, <1>5, <1>6, <2>1 DEF Separate
  <2>2. CASE i = Len(d) + 1
    BY <1>2, <1>4, <1>6, <2>2 DEF Counts
  <2> QED
    BY <1>3, <1>4, <2>1, <2>2
<1>7. 1 .. Len(<<>>) = {}
  OBVIOUS
<1> QED
  BY <1>6, <1>7 DEF Separate, a1, v, d1

(* The head of the queue is shown.                                         *)
LEMMA SeparatePop ==
  ASSUME NEW a \in Seq(Event), NEW d \in Seq(View), NEW q \in Seq(Node),
         NEW over, InOrder(a, d, q), Separate(a, d, q, over), q # <<>>,
         IsRequest(Head(q).event) => Head(q).data # 0
  PROVE  Separate(a, Append(d, Shown(Head(q))), Tail(q), over)
<1> DEFINE h == Head(q)
           d1 == Append(d, Shown(h))
           q1 == Tail(q)
<1>1. h = q[1] /\ h \in Node /\ Len(q) \in Nat \ {0}
  BY EmptySeq, HeadTailProperties
<1>2. Shown(h) \in View /\ Shown(h).data = h.data
  BY <1>1 DEF Shown, Node, View
<1>3. /\ Len(d1) = Len(d) + 1
      /\ \A i \in 1 .. Len(d) : d1[i] = d[i]
      /\ d1[Len(d) + 1] = Shown(h)
  BY <1>2, AppendProperties
<1>4. Len(q1) = Len(q) - 1 /\ \A k \in 1 .. Len(q1) : q1[k] = q[k + 1]
  BY HeadTailProperties
<1>5. Len(d) \in Nat /\ (IsRequest(h.event) => h.data # 0)
  OBVIOUS
<1> HIDE DEF h, d1, q1
<1>6. ASSUME NEW i \in 1 .. Len(d1), Counts(a[i], over)
      PROVE  FirstEnd(a, i, d1[i].data)
  <2>1. CASE i \in 1 .. Len(d)
    BY <1>3, <1>6, <2>1 DEF Separate
  <2>2. CASE i = Len(d) + 1
    <3>1. 1 \in 1 .. Len(q) /\ q[1].event = a[i]
      BY <1>1, <2>2 DEF InOrder
    <3>2. FirstEnd(a, Len(d) + 1, q[1].data)
      BY <1>1, <1>5, <1>6, <3>1 DEF Separate, Counts
    <3> QED
      BY <1>1, <1>2, <1>3, <2>2, <3>2
  <2> QED
    BY <1>3, <1>5, <2>1, <2>2
<1>7. ASSUME NEW k \in 1 .. Len(q1)
      PROVE  k + 1 \in 1 .. Len(q) /\ Len(d1) + k = Len(d) + (k + 1)
  <2>1. Len(q) \in Nat /\ Len(q1) = Len(q) - 1 /\ Len(d1) = Len(d) + 1
    BY <1>1, <1>3, <1>4
  <2>2. k \in Nat /\ 1 <= k /\ k <= Len(q) - 1
    BY <2>1
  <2>3. Len(d) \in Nat
    BY <1>5
  <2>4. k + 1 \in 1 .. Len(q)
    BY <2>1, <2>2
  <2>5. Len(d1) + k = Len(d) + (k + 1)
    BY <2>1, <2>2, <2>3
  <2> QED
    BY <2>4, <2>5
<1>8. ASSUME NEW k \in 1 .. Len(q1), Counts(q1[k].event, over)
      PROVE  /\ LastRequest(a, Len(d1) + k)
             /\ q1[k].data # 0 => FirstEnd(a, Len(d1) + k, q1[k].data)
             /\ AnswersTo(a, Len(d1) + k) # {} => q1[k].completed
  BY <1>4, <1>7, <1>8 DEF Separate
<1> QED
  BY <1>6, <1>8 DEF Separate, h, d1, q1

(* A receive is attached to the request of its pair, if this is not in     *)
(* over, and to no other.                                                  *)
LEMMA AttachSeparate ==
  ASSUME NEW a \in Seq(Event), NEW d \in Seq(View), NEW q \in Seq(Node),
         NEW over, InOrder(a, d, q), Separate(a, d, q, over),
         NEW act, LastIsOpen(a, act),
         NEW e \in Event, Id(e) \in act,
         NEW k \in 1 .. Len(q), Counts(q[k].event, over)
  PROVE  IF Answers(e, q[k].event)
           THEN /\ Attach(q, e, Len(a) + 1)[k].completed
                /\ Attach(q, e, Len(a) + 1)[k].data = Len(a) + 1
                /\ Ends(a, Len(d) + k) = {}
           ELSE Attach(q, e, Len(a) + 1)[k] = q[k]
<1> DEFINE m == FirstMatch(q, e)
           n == [event |-> q[m].event, completed |-> TRUE, data |-> Len(a) + 1]
           q2 == Attach(q, e, Len(a) + 1)
<1>1. Len(a) \in Nat /\ Len(d) \in Nat /\ Len(q) \in Nat
      /\ Len(a) = Len(d) + Len(q) /\ k \in Nat
  BY DEF InOrder
<1>2. m # 0 => m \in 1 .. Len(q) /\ Answers(e, q[m].event)
  BY FirstMatchFact
<1>3. Answers(e, q[k].event) => m # 0
  <2> SUFFICES ASSUME Answers(e, q[k].event), m = 0 PROVE FALSE
    OBVIOUS
  <2> DEFINE M == {l \in 1 .. Len(q) : Answers(e, q[l].event)}
  <2>1. M # {} /\ M \subseteq Nat
    OBVIOUS
  <2>2. \E x \in M : \A l \in M : x <= l
    BY <2>1, LeastElement
  <2>3. m = CHOOSE x \in M : \A l \in M : x <= l
    BY <2>1 DEF FirstMatch
  <2>4. m \in M
    BY <2>2, <2>3
  <2> QED
    BY <2>4
<1>4. m # 0 =>
        /\ q2 \in Seq(Node) /\ Len(q2) = Len(q)
        /\ \A l \in 1 .. Len(q) : q2[l] = IF l = m THEN n ELSE q[l]
  <2> SUFFICES ASSUME m # 0
               PROVE  /\ q2 \in Seq(Node) /\ Len(q2) = Len(q)
                      /\ \A l \in 1 .. Len(q) : q2[l] = IF l = m THEN n ELSE q[l]
    OBVIOUS
  <2>1. m \in 1 .. Len(q) /\ q[m] \in Node /\ Len(a) + 1 \in Nat
    BY <1>1, <1>2, ElementOfSeq
  <2>2. q2 = [q EXCEPT ![m] = n]
    BY DEF Attach
  <2> HIDE DEF m, q2
  <2>3. n \in Node
    BY <2>1 DEF Node
  <2> HIDE DEF n
  <2> QED
    BY <2>1, <2>2, <2>3, ExceptSeq
<1>5. m = 0 => q2 = q
  BY DEF Attach
<1> HIDE DEF m, q2
<1>6. CASE Answers(e, q[k].event)
  <2>1. m \in 1 .. Len(q) /\ Answers(e, q[m].event) /\ m # 0
    BY <1>2, <1>3, <1>6
  <2>2. k = m
    BY <1>6, <2>1, OneQueued DEF Answers
  <2>3. q2[k].completed /\ q2[k].data = Len(a) + 1
    BY <1>4, <2>1, <2>2
  <2>4. Ends(a, Len(d) + k) = {}
    <3>1. q[k].event = a[Len(d) + k] /\ Len(d) + k \in 1 .. Len(a)
      BY <1>1 DEF InOrder
    <3>2. LastRequest(a, Len(d) + k)
      BY DEF Separate
    <3>3. IsRequest(a[Len(d) + k]) /\ Id(a[Len(d) + k]) \in act
      BY <1>6, <3>1 DEF Answers
    <3> QED
      BY <3>1, <3>2, <3>3 DEF LastIsOpen
  <2> QED
    BY <1>6, <2>3, <2>4 DEF q2
<1>7. CASE ~Answers(e, q[k].event)
  <2>1. q2[k] = q[k]
    BY <1>2, <1>4, <1>5, <1>7
  <2> QED
    BY <1>7, <2>1 DEF q2
<1> QED
  BY <1>6, <1>7

LEMMA SeparateCorrect == Spec => []SeparateInv
<1>1. Init => SeparateInv
  BY DEF Init, SeparateInv, Separate
<1>2. TypeOK /\ InOrderOnce /\ OpenInv /\ SeparateInv /\ [Next]_vars
        => SeparateInv'
  <2> SUFFICES ASSUME TypeOK, InOrderOnce, OpenInv, SeparateInv, [Next]_vars
               PROVE  Separate(accepted', delivered', nodes', overlaps')
    BY DEF SeparateInv
  <2>0. /\ accepted \in Seq(Event)
        /\ nodes \in Seq(Node)
        /\ delivered \in Seq(View)
        /\ InOrder(accepted, delivered, nodes)
        /\ Separate(accepted, delivered, nodes, overlaps)
        /\ LastIsOpen(accepted, active)
    BY DEF TypeOK, View, InOrderOnce, InOrder, SeparateInv, OpenInv
  <2>1. ASSUME NEW e \in Event, Add(e)
        PROVE  Separate(accepted', delivered', nodes', overlaps')
    <3>0. \A x : ~Answers(e, x)
      BY <2>1 DEF Add, Answers
    <3>1. CASE nodes # <<>>
      <4>1. Separate(Append(accepted, e), delivered, Append(nodes, NewNode(e)),
                     overlaps)
        BY <2>0, <2>1, <3>0, SeparatePush DEF Add
      <4> QED
        BY <2>1, <3>1, <4>1 DEF Add
    <3>2. CASE nodes = <<>>
      BY <2>0, <2>1, <3>2, SeparatePass DEF Add
    <3> QED
      BY <3>1, <3>2
  <2>2. ASSUME NEW e \in Event, AddRequest(e)
        PROVE  Separate(accepted', delivered', nodes', overlaps')
    <3>1. \A x : ~Answers(e, x)
      BY <2>2 DEF AddRequest, Answers, IsRequest, IsReceive
    <3>2. overlaps \subseteq overlaps'
      BY <2>2 DEF AddRequest
    <3>3. ASSUME NEW k \in 1 .. Len(nodes), Counts(nodes[k].event, overlaps')
          PROVE  Id(e) # Id(nodes[k].event)
      <4> SUFFICES ASSUME Id(e) = Id(nodes[k].event) PROVE FALSE
        OBVIOUS
      <4>1. Queued(Id(e))
        BY <3>3 DEF Queued, Counts
      <4>2. Id(e) \in overlaps'
        BY <2>2, <4>1 DEF AddRequest
      <4> QED
        BY <3>3, <4>2 DEF Counts
    <3>4. Separate(Append(accepted, e), delivered, Append(nodes, NewNode(e)),
                   overlaps')
      BY <2>0, <3>1, <3>2, <3>3, SeparatePush
    <3> QED
      BY <2>2, <3>4 DEF AddRequest
  <2>3. ASSUME NEW e \in Event, AddReceive(e)
        PROVE  Separate(accepted', delivered', nodes', overlaps')
    <3> DEFINE q == Attach(nodes, e, Len(accepted) + 1)
    <3>1. /\ q \in Seq(Node)
          /\ Len(q) = Len(nodes)
          /\ \A k \in 1 .. Len(nodes) : q[k].event = nodes[k].event
      BY <2>0, AttachedEvents
    <3>2. ~IsRequest(e) /\ Id(e) \in active
      BY <2>3 DEF AddReceive, Closes, IsRequest, IsReceive
    <3>3. \A k \in 1 .. Len(nodes) :
            Counts(nodes[k].event, overlaps) =>
              IF Answers(e, nodes[k].event)
                THEN /\ q[k].completed /\ q[k].data = Len(accepted) + 1
                     /\ Ends(accepted, Len(delivered) + k) = {}
                ELSE q[k] = nodes[k]
      BY <2>0, <3>2, AttachSeparate
    <3> HIDE DEF q
    <3>4. Separate(Append(accepted, e), delivered, Append(q, NewNode(e)),
                   overlaps)
      BY <2>0, <3>1, <3>2, <3>3, SeparatePush
    <3> QED
      BY <2>3, <3>4 DEF AddReceive, q
  <2>4. CASE ProcessNode
    <3>1. nodes # <<>> /\ Head(nodes).completed
      BY <2>4 DEF ProcessNode, HeadCompleted
    <3>2. Head(nodes) = nodes[1] /\ Len(nodes) \in Nat \ {0}
      BY <2>0, <3>1, EmptySeq
    <3>3. IsRequest(Head(nodes).event) => Head(nodes).data # 0
      BY <3>1, <3>2 DEF TypeOK
    <3> QED
      BY <2>0, <2>4, <3>1, <3>3, SeparatePop DEF ProcessNode
  <2>5. CASE UNCHANGED <<accepted, nodes, delivered, active, overlaps>>
    BY <2>0, <2>5
  <2> QED
    BY <2>1, <2>2, <2>3, <2>4, <2>5, StepCases
<1> QED
  BY <1>1, <1>2, TypeCorrect, OrderKept, OpenCorrect, PTL DEF Spec

(* A request the callback sees carries the data of the receive that ended  *)
(* it, unless its id was used again while it was in the queue: whatever    *)
(* else was read in between, and however often ids are used again later.   *)
THEOREM RequestsCarryTheirReceive == Spec => []RequestCarriesItsReceive
<1>1. InOrderOnce /\ CarriedInv /\ SeparateInv => RequestCarriesItsReceive
  <2> SUFFICES ASSUME InOrderOnce, CarriedInv, SeparateInv,
                      NEW i \in 1 .. Len(delivered),
                      IsRequest(accepted[i]), Id(accepted[i]) \notin overlaps
               PROVE  CarriesItsReceive(i)
    BY DEF RequestCarriesItsReceive
  <2>1. delivered[i].event = accepted[i]
    BY DEF InOrderOnce
  <2>2. delivered[i].data \in AnswersTo(accepted, i)
    BY <2>1 DEF CarriedInv, Carried
  <2>3. IsReceive(accepted[delivered[i].data])
    BY <2>2 DEF AnswersTo, Answers
  <2>4. FirstEnd(accepted, i, delivered[i].data)
    BY DEF SeparateInv, Separate, Counts
  <2> QED
    BY <2>3, <2>4 DEF CarriesItsReceive, FirstEnd
<1> QED
  BY <1>1, OrderKept, CarriedCorrect, SeparateCorrect, PTL

(* Whatever is held back between two calls, and lost at the end of the     *)
(* trace, stands behind a request that the trace has not answered, or one  *)
(* whose id was used again while it was in the queue.                      *)
LEMMA HeadIsOpen ==
  ASSUME TypeOK, InOrderOnce, HeadIsPending, SeparateInv,
         pc \in {"ready", "done"}, nodes # <<>>
  PROVE  /\ Len(delivered) + 1 \in 1 .. Len(accepted)
         /\ IsRequest(accepted[Len(delivered) + 1])
         /\ \/ Id(accepted[Len(delivered) + 1]) \in overlaps
            \/ AnswersTo(accepted, Len(delivered) + 1) = {}
<1>1. /\ nodes \in Seq(Node) /\ delivered \in Seq(View)
      /\ accepted \in Seq(Event)
  BY DEF TypeOK, View
<1>2. 1 \in 1 .. Len(nodes) /\ Head(nodes) = nodes[1]
  BY <1>1
<1>3. ~nodes[1].completed
  BY <1>2 DEF HeadIsPending, HeadCompleted
<1>4. nodes[1].event = accepted[Len(delivered) + 1]
  BY <1>2 DEF InOrderOnce
<1>5. IsRequest(nodes[1].event)
  BY <1>2, <1>3 DEF TypeOK
<1>6. Len(delivered) + 1 \in 1 .. Len(accepted)
  BY <1>1, <1>2 DEF InOrderOnce
<1> QED
  BY <1>2, <1>3, <1>4, <1>5, <1>6 DEF SeparateInv, Separate, Counts

THEOREM HeldBackBehindOpenRequest == Spec => []HeldBackOnlyByOpenRequest
<1>1. TypeOK /\ InOrderOnce /\ HeadIsPending /\ SeparateInv
        => HeldBackOnlyByOpenRequest
  <2> SUFFICES ASSUME TypeOK, InOrderOnce, HeadIsPending, SeparateInv,
                      pc \in {"ready", "done"},
                      Len(delivered) < Len(accepted)
               PROVE  /\ IsRequest(accepted[Len(delivered) + 1])
                      /\ \/ Id(accepted[Len(delivered) + 1]) \in overlaps
                         \/ AnswersTo(accepted, Len(delivered) + 1) = {}
    BY DEF HeldBackOnlyByOpenRequest
  <2>1. nodes # <<>>
    <3>1. Len(nodes) # 0
      BY DEF TypeOK, InOrderOnce
    <3> QED
      BY <3>1
  <2> QED
    BY <2>1, HeadIsOpen
<1> QED
  BY <1>1, TypeCorrect, OrderKept, HeadPending, SeparateCorrect, PTL

-----------------------------------------------------------------------------
(* The end of a complete trace *)

(* In the trace a, with the pairs act active, every request is active or   *)
(* answered, if none was cancelled.                                        *)
NoneCancelled(a) == \A i \in 1 .. Len(a) : ~IsCancel(a[i])

ActiveOrAnswered(a, act) ==
  NoneCancelled(a) =>
    \A i \in 1 .. Len(a) :
      IsRequest(a[i]) => Id(a[i]) \in act \/ AnswersTo(a, i) # {}

PendingInv == ActiveOrAnswered(accepted, active)

(* The trace goes on with an event that ends no request, with the start of *)
(* a request, with its receive, or with a cancel.                          *)
LEMMA PendingGrow ==
  ASSUME NEW a \in Seq(Event), NEW act, ActiveOrAnswered(a, act),
         NEW e \in Event, NEW act1,
         \/ ~IsRequest(e) /\ act1 = act
         \/ act1 = act \cup {Id(e)}
         \/ IsReceive(e) /\ act1 = act \ {Id(e)}
         \/ IsCancel(e)
  PROVE  ActiveOrAnswered(Append(a, e), act1)
<1> DEFINE a1 == Append(a, e)
           n == Len(a) + 1
<1>1. /\ Len(a) \in Nat
      /\ Len(a1) = n
      /\ \A i \in 1 .. Len(a) : a1[i] = a[i]
      /\ a1[n] = e
  BY AppendProperties
<1>2. \A i \in 1 .. Len(a) :
        /\ AnswersTo(a, i) \subseteq AnswersTo(a1, i)
        /\ n \in AnswersTo(a1, i) <=> Answers(e, a[i])
  BY AnswersGrow
<1>3. 1 .. Len(a1) = (1 .. Len(a)) \cup {n}
  BY <1>1
<1> HIDE DEF a1, n
<1>4. ASSUME NoneCancelled(a1), NEW i \in 1 .. Len(a1), IsRequest(a1[i]),
             Id(a1[i]) \notin act1
      PROVE  AnswersTo(a1, i) # {}
  <2>0. NoneCancelled(a) /\ ~IsCancel(e)
    BY <1>1, <1>3, <1>4 DEF NoneCancelled
  <2>1. CASE i \in 1 .. Len(a)
    <3>1. IsRequest(a[i]) /\ a1[i] = a[i]
      BY <1>1, <1>4, <2>1
    <3>2. CASE Id(a[i]) \notin act
      BY <1>2, <2>0, <2>1, <3>1, <3>2 DEF ActiveOrAnswered
    <3>3. CASE Id(a[i]) \in act
      <4>1. IsReceive(e) /\ Id(e) = Id(a[i])
        BY <1>4, <2>0, <3>1, <3>3
      <4> QED
        BY <1>2, <2>1, <3>1, <4>1 DEF Answers
    <3> QED
      BY <3>2, <3>3
  <2>2. CASE i = n
    BY <1>1, <1>4, <2>0, <2>2 DEF IsRequest, IsReceive
  <2> QED
    BY <1>3, <2>1, <2>2
<1> QED
  BY <1>4 DEF ActiveOrAnswered, a1

LEMMA PendingCorrect == Spec => []PendingInv
<1>1. Init => PendingInv
  BY DEF Init, PendingInv, ActiveOrAnswered
<1>2. TypeOK /\ PendingInv /\ [Next]_vars => PendingInv'
  <2> SUFFICES ASSUME TypeOK, ActiveOrAnswered(accepted, active), [Next]_vars
               PROVE  ActiveOrAnswered(accepted', active')
    BY DEF PendingInv
  <2>0. accepted \in Seq(Event)
    BY DEF TypeOK
  <2>1. ASSUME NEW e \in Event, Add(e)
        PROVE  ActiveOrAnswered(accepted', active')
    <3>1. IsCancel(e) \/ (~IsRequest(e) /\ active' = active)
      BY <2>1 DEF Add, Plain
    <3>2. accepted' = Append(accepted, e)
      BY <2>1 DEF Add
    <3> QED
      BY <2>0, <3>1, <3>2, PendingGrow
  <2>2. ASSUME NEW e \in Event, AddRequest(e)
        PROVE  ActiveOrAnswered(accepted', active')
    BY <2>0, <2>2, PendingGrow DEF AddRequest, Opens
  <2>3. ASSUME NEW e \in Event, AddReceive(e)
        PROVE  ActiveOrAnswered(accepted', active')
    BY <2>0, <2>3, PendingGrow DEF AddReceive, Closes
  <2>4. CASE ProcessNode
    BY <2>4 DEF ProcessNode
  <2>5. CASE UNCHANGED <<accepted, nodes, delivered, active, overlaps>>
    BY <2>5
  <2> QED
    BY <2>1, <2>2, <2>3, <2>4, <2>5, StepCases
<1> QED
  BY <1>1, <1>2, TypeCorrect, PTL DEF Spec

(* process_data throws only of an event for which it has no case.          *)
ThrownInv ==
  pc = "thrown" =>
    \E i \in 1 .. Len(accepted) : accepted[i].type \notin Dispatched

LEMMA ThrownCorrect == Spec => []ThrownInv
<1>1. Init => ThrownInv
  BY DEF Init, ThrownInv
<1>2. TypeOK /\ InOrderOnce /\ ThrownInv /\ [Next]_vars => ThrownInv'
  <2> SUFFICES ASSUME TypeOK, InOrderOnce, ThrownInv, [Next]_vars,
                      pc' = "thrown"
               PROVE  \E i \in 1 .. Len(accepted') :
                        accepted'[i].type \notin Dispatched
    BY DEF ThrownInv
  <2>1. CASE ProcessUnknown
    <3>1. nodes # <<>> /\ Head(nodes).event.type \notin Dispatched
          /\ accepted' = accepted
      BY <2>1 DEF ProcessUnknown, HeadCompleted
    <3>2. nodes \in Seq(Node) /\ Len(delivered) \in Nat
      BY DEF TypeOK
    <3>3. 1 \in 1 .. Len(nodes) /\ Head(nodes) = nodes[1]
      BY <3>1, <3>2
    <3>4. nodes[1].event = accepted[Len(delivered) + 1]
      BY <3>3 DEF InOrderOnce
    <3>5. Len(delivered) + 1 \in 1 .. Len(accepted)
      BY <3>2, <3>3 DEF InOrderOnce
    <3> QED
      BY <3>1, <3>3, <3>4, <3>5
  <2>2. CASE UNCHANGED vars
    BY <2>2 DEF vars, ThrownInv
  <2>3. ProcessUnknown \/ UNCHANGED vars
    BY DEF Next, ReadEvent, Ignore, Add, AddRequest, AddReceive, ProcessData,
           ProcessNode, ProcessEnd, EventsDone, Destroy, Finished
  <2> QED
    BY <2>1, <2>2, <2>3
<1> QED
  BY <1>1, <1>2, TypeCorrect, OrderKept, PTL DEF Spec

(* The assertion of ~buffer holds after every complete trace: one that     *)
(* ends all its requests with a receive, uses no id again while it is in   *)
(* the queue, and has only events that process_data knows.                 *)
EmptyInv == pc \in {"done", "destroyed"} /\ Complete => nodes = <<>>

THEOREM EmptyWhenDestroyed == Spec => []EmptyAfterCompleteTrace
<1>1. Init => EmptyInv
  BY DEF Init, EmptyInv
<1>2. TypeOK /\ InOrderOnce /\ HeadIsPending /\ SeparateInv /\ PendingInv
      /\ ThrownInv /\ EmptyInv /\ [Next]_vars => EmptyInv'
  <2> SUFFICES ASSUME TypeOK, InOrderOnce, HeadIsPending, SeparateInv,
                      PendingInv, ThrownInv, EmptyInv, [Next]_vars,
                      pc' \in {"done", "destroyed"}, Complete'
               PROVE  nodes' = <<>>
    BY DEF EmptyInv
  <2>1. CASE EventsDone
    <3>1. pc = "ready" /\ nodes' = nodes /\ Complete
      BY <2>1 DEF EventsDone, Complete
    <3> SUFFICES ASSUME nodes # <<>> PROVE FALSE
      BY <3>1
    <3> DEFINE i == Len(delivered) + 1
    <3>2. i \in 1 .. Len(accepted) /\ IsRequest(accepted[i])
          /\ (Id(accepted[i]) \in overlaps \/ AnswersTo(accepted, i) = {})
      BY <3>1, HeadIsOpen
    <3> HIDE DEF i
    <3>3. NoneCancelled(accepted) /\ active = {} /\ overlaps = {}
      BY <3>1 DEF Complete, NoneCancelled
    <3> QED
      BY <3>2, <3>3 DEF PendingInv, ActiveOrAnswered
  <2>2. CASE Destroy
    <3>1. pc \in {"done", "thrown"} /\ nodes' = nodes /\ Complete
      BY <2>2 DEF Destroy, Complete
    <3>2. pc # "thrown"
      BY <3>1 DEF ThrownInv, Complete
    <3> QED
      BY <3>1, <3>2 DEF EmptyInv
  <2>3. CASE UNCHANGED vars
    BY <2>3 DEF vars, EmptyInv, Complete
  <2>4. ~ReadEvent /\ ~ProcessData
    BY DEF ReadEvent, Ignore, Add, AddRequest, AddReceive, ProcessData,
           ProcessNode, ProcessUnknown, ProcessEnd
  <2> QED
    BY <2>1, <2>2, <2>3, <2>4 DEF Next, Finished
<1>3. EmptyInv => EmptyAfterCompleteTrace
  BY DEF EmptyInv, EmptyAfterCompleteTrace, QueueEmptyWhenDestroyed
<1> QED
  BY <1>1, <1>2, <1>3, TypeCorrect, OrderKept, HeadPending, SeparateCorrect,
     PendingCorrect, ThrownCorrect, PTL DEF Spec
=============================================================================
