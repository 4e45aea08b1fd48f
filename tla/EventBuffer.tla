----------------------------- MODULE EventBuffer -----------------------------
(***************************************************************************)
(* otf2::event::buffer, the callback that otf2::reader::reader puts in     *)
(* front of the user's callback when set_callback is called with           *)
(* buffered = true.  It holds events back so that an mpi_ireceive_request  *)
(* reaches the user together with the data of the mpi_ireceive that        *)
(* completes it.                                                           *)
(*                                                                         *)
(* One step is one call of the buffer by the reader, except that the loop  *)
(* of process_data is one step per iteration: each iteration calls the     *)
(* user's callback, and one of them may throw.  Until the loop has ended   *)
(* the reader makes no other call.                                         *)
(*                                                                         *)
(* The reader's calls come from a trace.  Of a trace the model knows what  *)
(* MPI guarantees: a request id is active at one location at most once, it *)
(* ends in an mpi_ireceive or an mpi_request_cancelled, and a trace may    *)
(* stop while requests are active.                                         *)
(***************************************************************************)
EXTENDS MpiRequests, FiniteSets

CONSTANTS
  Locations,    (* the locations of the trace                              *)
  RequestIds,   (* MPI request ids                                         *)
  NoRequest,    (* the request of an event that has none                   *)
  Types,        (* the event types that occur in the trace                 *)
  Reuse,        (* may a location use a request id again once it ended?    *)
  Truncated,    (* may the trace end while requests are active?            *)
  MaxEvents     (* bound: the length of the trace                          *)

VARIABLES
  accepted,     (* history: the events handed to add(), in order           *)
  ignored,      (* history: how many events no overload of buffer took     *)
  nodes,        (* nodes_: the queue of buffer_node                        *)
  delivered,    (* history: the calls of callback_.event, in order         *)
  active,       (* environment: the active <<location, request>> pairs     *)
  overlaps,     (* history: the pairs that were used again while a request *)
                (* of theirs was in the queue                              *)
  pc            (* where the buffer is, see States                         *)

vars == <<accepted, ignored, nodes, delivered, active, overlaps, pc>>

-----------------------------------------------------------------------------
(* Event types *)

(* The case labels of process_data.                                        *)
Dispatched ==
  { "buffer_flush", "enter", "io_acquire_lock", "leave", "measurement",
    "metric", "mpi_collective_begin", "mpi_collective_end", "mpi_ireceive",
    "mpi_ireceive_request", "mpi_isend", "mpi_isend_complete",
    "mpi_receive", "mpi_request_cancelled", "mpi_request_test", "mpi_send",
    "parameter_int", "parameter_string", "parameter_unsigned_int",
    "thread_acquire_lock", "thread_fork", "thread_join",
    "thread_release_lock", "thread_task_complete", "thread_task_create",
    "thread_task_switch", "thread_team_begin", "thread_team_end" }

(* The overloads of event() that buffer overrides, each of which calls     *)
(* add(); buffer_node has a constructor for each of them.                  *)
Overridden ==
  Dispatched \cup
  { "io_change_status_flag", "io_create_handle", "io_delete_file",
    "io_destroy_handle", "io_duplicate_handle", "io_operation_begin",
    "io_operation_cancelled", "io_operation_complete",
    "io_operation_issued", "io_operation_test", "io_release_lock",
    "io_seek", "io_try_lock" }

(* The overloads the base class forwards to another overload, ...          *)
Forwarded ==
  [calling_context_enter |-> "enter", calling_context_leave |-> "leave"]

(* ... and those it defines as an empty function.                          *)
Empty ==
  { "comm_create", "comm_destroy", "non_blocking_collective_request",
    "non_blocking_collective_complete", "calling_context_sample",
    "program_begin", "program_end", "thread_begin", "thread_create",
    "thread_end", "thread_wait", "rma_acquire_lock", "rma_atomic",
    "rma_collective_begin", "rma_collective_end", "rma_get",
    "rma_group_sync", "rma_op_complete_blocking",
    "rma_op_complete_non_blocking", "rma_op_complete_remote",
    "rma_op_test", "rma_put", "rma_release_lock", "rma_request_lock",
    "rma_sync", "rma_try_lock", "rma_wait_change", "rma_win_create",
    "rma_win_destroy", "unknown" }

(* The type under which an event reaches add().                            *)
AddedType(t) == IF t \in DOMAIN Forwarded THEN Forwarded[t] ELSE t

(* The types of the events that belong to an MPI request.                  *)
RequestTypes ==
  {"mpi_ireceive_request", "mpi_ireceive", "mpi_request_cancelled"}

(* The events of a type: only those of a request name one.                 *)
EventOf(t) ==
  [type : {t}, location : Locations,
   request : IF t \in RequestTypes THEN RequestIds ELSE {NoRequest}]

Event == UNION {EventOf(t) : t \in Overridden}

ASSUME TypesAssumption ==
  Types \subseteq Overridden \cup DOMAIN Forwarded \cup Empty
ASSUME SwitchAssumption == Reuse \in BOOLEAN /\ Truncated \in BOOLEAN
ASSUME BoundAssumption == MaxEvents \in Nat

-----------------------------------------------------------------------------
(* The queue *)

(* ready: between two calls; processing: in the loop of process_data;      *)
(* thrown: process_data threw; done: events_done was called; destroyed.    *)
States == {"ready", "processing", "thrown", "done", "destroyed"}

(* A buffer_node; data is the position in accepted of the mpi_ireceive     *)
(* whose data the request carries, 0 if it carries none.                   *)
Node == [event : Event, completed : BOOLEAN, data : Nat]

NewNode(e) == [event |-> e, completed |-> ~IsRequest(e), data |-> 0]

Shown(n) == [event |-> n.event, data |-> n.data]

(* Wrong variants of FirstMatch, which compare only the request id or only *)
(* the location.                                                           *)
FirstMatchAnyLocation(q, r) ==
  LET matches == {k \in 1 .. Len(q) : IsRequest(q[k].event)
                                      /\ q[k].event.request = r.request}
  IN  IF matches = {} THEN 0
      ELSE CHOOSE k \in matches : \A l \in matches : k <= l

FirstMatchAnyRequest(q, r) ==
  LET matches == {k \in 1 .. Len(q) : IsRequest(q[k].event)
                                      /\ q[k].event.location = r.location}
  IN  IF matches = {} THEN 0
      ELSE CHOOSE k \in matches : \A l \in matches : k <= l

(* The first node of q that is a request the receive r answers, the first  *)
(* one the loop of add(mpi_ireceive) meets; 0 if there is none.            *)
FirstMatch(q, r) ==
  LET matches == {k \in 1 .. Len(q) : Answers(r, q[k].event)}
  IN  IF matches = {} THEN 0
      ELSE CHOOSE k \in matches : \A l \in matches : k <= l

(* Wrong variants of Attach: completed is set without attaching the data,  *)
(* the data is attached without setting completed.                         *)
CompleteOnly(q, r, pos) ==
  [k \in 1 .. Len(q) |-> IF k = FirstMatch(q, r)
                           THEN [q[k] EXCEPT !.completed = TRUE] ELSE q[k]]

AttachOnly(q, r, pos) ==
  [k \in 1 .. Len(q) |-> IF k = FirstMatch(q, r)
                           THEN [q[k] EXCEPT !.data = pos] ELSE q[k]]

(* attach_data on that node, which also completes it.                      *)
Attach(q, r, pos) ==
  LET m == FirstMatch(q, r)
  IN  IF m = 0 THEN q
      ELSE [q EXCEPT ![m] = [event |-> q[m].event,
                             completed |-> TRUE, data |-> pos]]

-----------------------------------------------------------------------------
(* The trace *)

Read == Len(accepted) + ignored

(* There is room to read an event and then to end every active request.    *)
Room(opened) == Read + Cardinality(active) + opened < MaxEvents

(* The requests the trace has opened so far.                               *)
Used ==
  {Id(accepted[i]) : i \in {j \in 1 .. Len(accepted) : IsRequest(accepted[j])}}

(* The trace goes on with an event that belongs to no request, ...         *)
Plain(e) == Room(0) /\ UNCHANGED active

(* ... with the start of a request, ...                                    *)
Opens(e) ==
  /\ Room(1)
  /\ Id(e) \notin active
  /\ Reuse \/ Id(e) \notin Used
  /\ active' = active \cup {Id(e)}

(* ... or with the end of one.                                             *)
Closes(e) ==
  /\ Id(e) \in active
  /\ active' = active \ {Id(e)}

-----------------------------------------------------------------------------
(* The calls of the reader *)

Init ==
  /\ accepted = <<>>
  /\ ignored = 0
  /\ nodes = <<>>
  /\ delivered = <<>>
  /\ active = {}
  /\ overlaps = {}
  /\ pc = "ready"

(* An event whose overload only the base class defines, as empty.          *)
Ignore(e) ==
  /\ pc = "ready"
  /\ e.type \in Empty
  /\ Plain(e)
  /\ ignored' = ignored + 1
  /\ UNCHANGED <<accepted, nodes, delivered, overlaps, pc>>

(* A wrong variant of Add that does not look whether the queue is empty.   *)
AddOvertaking(e) ==
  /\ pc = "ready"
  /\ e.type \in Overridden
  /\ ~IsRequest(e) /\ ~IsReceive(e)
  /\ IF IsCancel(e) THEN Closes(e) ELSE Plain(e)
  /\ accepted' = Append(accepted, e)
  /\ delivered' = Append(delivered, Shown(NewNode(e)))
  /\ UNCHANGED <<nodes, ignored, overlaps, pc>>

(* add(loc, event), the template: every event but a request and a receive. *)
Add(e) ==
  /\ pc = "ready"
  /\ e.type \in Overridden
  /\ ~IsRequest(e) /\ ~IsReceive(e)
  /\ IF IsCancel(e) THEN Closes(e) ELSE Plain(e)
  /\ accepted' = Append(accepted, e)
  /\ IF nodes # <<>>
       THEN nodes' = Append(nodes, NewNode(e)) /\ UNCHANGED delivered
       ELSE delivered' = Append(delivered, Shown(NewNode(e))) /\ UNCHANGED nodes
  /\ UNCHANGED <<ignored, overlaps, pc>>

(* A request of the pair is in the queue.                                  *)
Queued(id) ==
  \E k \in 1 .. Len(nodes) : IsRequest(nodes[k].event) /\ Id(nodes[k].event) = id

(* add(loc, mpi_ireceive_request)                                          *)
AddRequest(e) ==
  /\ pc = "ready"
  /\ IsRequest(e)
  /\ Opens(e)
  /\ accepted' = Append(accepted, e)
  /\ nodes' = Append(nodes, NewNode(e))
  /\ overlaps' = overlaps \cup {id \in {Id(e)} : Queued(id)}
  /\ UNCHANGED <<ignored, delivered, pc>>

(* A wrong variant of AddReceive that does not call process_data.          *)
AddReceiveUnprocessed(e) ==
  /\ pc = "ready"
  /\ IsReceive(e)
  /\ Closes(e)
  /\ accepted' = Append(accepted, e)
  /\ nodes' = Append(Attach(nodes, e, Len(accepted) + 1), NewNode(e))
  /\ UNCHANGED <<ignored, delivered, overlaps, pc>>

(* add(loc, mpi_ireceive), up to its call of process_data                  *)
AddReceive(e) ==
  /\ pc = "ready"
  /\ IsReceive(e)
  /\ Closes(e)
  /\ accepted' = Append(accepted, e)
  /\ nodes' = Append(Attach(nodes, e, Len(accepted) + 1), NewNode(e))
  /\ pc' = "processing"
  /\ UNCHANGED <<ignored, delivered, overlaps>>

(* The condition of the loop of process_data.                              *)
HeadCompleted == nodes # <<>> /\ Head(nodes).completed

(* A wrong variant of ProcessNode, with if in place of while.              *)
ProcessOnce ==
  /\ pc = "processing"
  /\ HeadCompleted
  /\ Head(nodes).event.type \in Dispatched
  /\ delivered' = Append(delivered, Shown(Head(nodes)))
  /\ nodes' = Tail(nodes)
  /\ pc' = "ready"
  /\ UNCHANGED <<accepted, ignored, active, overlaps>>

(* An iteration that finds a case label for the head of the queue.         *)
ProcessNode ==
  /\ pc = "processing"
  /\ HeadCompleted
  /\ Head(nodes).event.type \in Dispatched
  /\ delivered' = Append(delivered, Shown(Head(nodes)))
  /\ nodes' = Tail(nodes)
  /\ UNCHANGED <<accepted, ignored, active, overlaps, pc>>

(* An iteration that ends in the default label: the exception leaves       *)
(* process_data before pop_front and ends read_events.                     *)
ProcessUnknown ==
  /\ pc = "processing"
  /\ HeadCompleted
  /\ Head(nodes).event.type \notin Dispatched
  /\ pc' = "thrown"
  /\ UNCHANGED <<accepted, ignored, nodes, delivered, active, overlaps>>

ProcessEnd ==
  /\ pc = "processing"
  /\ ~HeadCompleted
  /\ pc' = "ready"
  /\ UNCHANGED <<accepted, ignored, nodes, delivered, active, overlaps>>

(* events_done, which read_events calls at the end of the trace.           *)
EventsDone ==
  /\ pc = "ready"
  /\ Truncated \/ active = {}
  /\ pc' = "done"
  /\ UNCHANGED <<accepted, ignored, nodes, delivered, active, overlaps>>

(* ~buffer; nodes keeps what the destructor finds in the queue.            *)
Destroy ==
  /\ pc \in {"done", "thrown"}
  /\ pc' = "destroyed"
  /\ UNCHANGED <<accepted, ignored, nodes, delivered, active, overlaps>>

Finished == pc = "destroyed" /\ UNCHANGED vars

ProcessData == ProcessNode \/ ProcessUnknown \/ ProcessEnd

(* The event as the overload of the base class hands it on.                *)
Forward(e) == [e EXCEPT !.type = AddedType(e.type)]

ReadEvent ==
  \E t \in Types : \E e \in EventOf(t) :
    \/ Ignore(e)
    \/ Add(Forward(e))
    \/ AddRequest(e)
    \/ AddReceive(e)

Next == ReadEvent \/ ProcessData \/ EventsDone \/ Destroy \/ Finished

Spec == Init /\ [][Next]_vars

-----------------------------------------------------------------------------
(* Properties *)

(* Only a request is ever incomplete, and it is so exactly while it        *)
(* carries no data.                                                        *)
TypeOK ==
  /\ accepted \in Seq(Event)
  /\ ignored \in Nat
  /\ nodes \in Seq(Node)
  /\ \A k \in 1 .. Len(nodes) :
       nodes[k].completed <=> (IsRequest(nodes[k].event) => nodes[k].data # 0)
  /\ delivered \in Seq([event : Event, data : Nat])
  /\ active \subseteq Locations \X RequestIds
  /\ overlaps \subseteq Locations \X RequestIds
  /\ pc \in States

(* Nothing the buffer took is lost, duplicated or reordered: the events    *)
(* the callback saw, followed by those in the queue, are the events that   *)
(* were added, in the order in which they were added.                      *)
InOrderOnce ==
  /\ Len(accepted) = Len(delivered) + Len(nodes)
  /\ \A i \in 1 .. Len(delivered) : delivered[i].event = accepted[i]
  /\ \A k \in 1 .. Len(nodes) :
       nodes[k].event = accepted[Len(delivered) + k]

(* Between two calls of the reader a queue that is not empty waits for its *)
(* head: process_data has left nothing at the front that is ready.         *)
HeadIsPending == pc \in {"ready", "done"} => ~HeadCompleted

(* The positions behind i at which the trace ends the request at i or a    *)
(* later one of the same pair.                                             *)
Ends(trace, i) ==
  {j \in i + 1 .. Len(trace) :
     (IsReceive(trace[j]) \/ IsCancel(trace[j])) /\ Id(trace[j]) = Id(trace[i])}

(* The data the callback saw of the request at i is that of the receive    *)
(* that ended it.                                                          *)
CarriesItsReceive(i) ==
  LET d == delivered[i].data
  IN  /\ d \in Ends(accepted, i) /\ IsReceive(accepted[d])
      /\ \A j \in Ends(accepted, i) : d <= j

(* A request the callback sees carries the data of the receive that ended  *)
(* it, although receives of other requests, other locations and later uses *)
(* of its id were read in between: unless the id was used again while it   *)
(* still was in the queue.                                                 *)
RequestCarriesItsReceive ==
  \A i \in 1 .. Len(delivered) :
    IsRequest(accepted[i]) /\ Id(accepted[i]) \notin overlaps =>
      CarriesItsReceive(i)

(* The same without the exception.                                         *)
EveryRequestCarriesItsReceive ==
  \A i \in 1 .. Len(delivered) :
    IsRequest(accepted[i]) => CarriesItsReceive(i)

(* Events are held back, and lost at the end of the trace, only behind a   *)
(* request that the trace has not answered: as soon as the oldest open     *)
(* request is completed, all that waits for it alone is delivered.  The    *)
(* exception is an id that was used again while in the queue.              *)
HeldBackOnlyByOpenRequest ==
  pc \in {"ready", "done"} /\ Len(delivered) < Len(accepted) =>
    LET first == Len(delivered) + 1
    IN  /\ IsRequest(accepted[first])
        /\ \/ Id(accepted[first]) \in overlaps
           \/ AnswersTo(accepted, first) = {}

(* All requests were answered by a receive, no id was used again while in  *)
(* the queue, and process_data has a case for every event.                 *)
Complete ==
  /\ active = {}
  /\ overlaps = {}
  /\ \A i \in 1 .. Len(accepted) :
       ~IsCancel(accepted[i]) /\ accepted[i].type \in Dispatched

(* The assertion of ~buffer, ...                                           *)
QueueEmptyWhenDestroyed == pc = "destroyed" => nodes = <<>>

(* ... which holds after each complete trace.                              *)
EmptyAfterCompleteTrace == Complete => QueueEmptyWhenDestroyed

(* read_events: "For each event the callback is called."                   *)
EveryEventCallsBack ==
  pc = "done" => ignored = 0 /\ Len(delivered) = Len(accepted)

(* "Added unknown event type to event buffer" is said of no event that     *)
(* buffer has an overload for.                                             *)
NoUnknownEvent == pc # "thrown"

(* The buffer keeps the promise of EventStream.                            *)
Stream == INSTANCE EventStream WITH offered <- accepted, shown <- delivered

ImplementsStream == Stream!SSpec
=============================================================================
