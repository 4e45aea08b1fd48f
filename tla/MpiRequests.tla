----------------------------- MODULE MpiRequests -----------------------------
(***************************************************************************)
(* The MPI events of a trace that belong to a non-blocking receive, and    *)
(* which mpi_ireceive completes which mpi_ireceive_request.  An event is a *)
(* record with the fields type, location and request.                      *)
(***************************************************************************)
EXTENDS Naturals, Sequences

IsRequest(e) == e.type = "mpi_ireceive_request"
IsReceive(e) == e.type = "mpi_ireceive"
IsCancel(e)  == e.type = "mpi_request_cancelled"

(* What identifies a request: MPI request ids are local to a location.     *)
Id(e) == <<e.location, e.request>>

(* The receive r completes the request q.                                  *)
Answers(r, q) == IsReceive(r) /\ IsRequest(q) /\ Id(r) = Id(q)

(* The positions behind i of the events that answer the event at i.        *)
AnswersTo(trace, i) ==
  {j \in i + 1 .. Len(trace) : Answers(trace[j], trace[i])}
=============================================================================
