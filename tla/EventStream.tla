----------------------------- MODULE EventStream -----------------------------
(***************************************************************************)
(* What reading the events of a trace in buffered mode promises to a user  *)
(* of otf2::reader::reader, independent of how otf2::event::buffer does    *)
(* it: the callback sees the events in the order of the trace, each one    *)
(* once, and when it sees an mpi_ireceive_request, the request already     *)
(* carries the data (sender, communicator, tag, length) of an mpi_ireceive *)
(* that answers it and that stands later in the trace.  A request that is  *)
(* not answered yet holds back everything behind it.                       *)
(*                                                                         *)
(* The data of an mpi_ireceive is named by its position in the trace; the  *)
(* callback sees the position 0 when no data is attached.                  *)
(***************************************************************************)
EXTENDS MpiRequests

CONSTANT Event  (* the events: records with type, location and request     *)

VARIABLES
  offered,      (* the events of the trace read so far, in trace order     *)
  shown         (* what the callback saw: [event, data] records, in order  *)

svars == <<offered, shown>>

(* The ways the event at position i of trace may be shown.                 *)
Views(trace, i) ==
  [event : {trace[i]},
   data  : IF IsRequest(trace[i]) THEN AnswersTo(trace, i) ELSE {0}]

SInit ==
  /\ offered = <<>>
  /\ shown = <<>>

(* The reader hands over the next event of the trace.                      *)
Offer ==
  /\ \E e \in Event : offered' = Append(offered, e)
  /\ UNCHANGED shown

(* The callback sees the next event it has not seen.                       *)
Show ==
  /\ Len(shown) < Len(offered)
  /\ \E v \in Views(offered, Len(shown) + 1) : shown' = Append(shown, v)
  /\ UNCHANGED offered

(* With nothing held back, an event is shown as it is handed over.         *)
PassThrough ==
  /\ Len(shown) = Len(offered)
  /\ \E e \in Event :
       /\ ~IsRequest(e)
       /\ offered' = Append(offered, e)
       /\ shown' = Append(shown, [event |-> e, data |-> 0])

SNext == Offer \/ Show \/ PassThrough

SSpec == SInit /\ [][SNext]_svars
=============================================================================
