---------------------------- MODULE MCEventBuffer ----------------------------
(***************************************************************************)
(* Instances of EventBuffer for TLC.  The event types of a run stand for   *)
(* the classes the code tells apart: enter for the types that reach the    *)
(* user from the queue, io_seek for those that process_data has no case    *)
(* for, comm_create for those that buffer does not override,               *)
(* calling_context_enter for those the base class forwards.                *)
(***************************************************************************)
EXTENDS EventBuffer, TLC

CONSTANTS l1, l2, q1, q2

MCLocations == {l1, l2}
MCRequestIds == {q1, q2}

(* Locations and request ids are only ever compared for equality.          *)
MCSymmetry == Permutations(MCLocations) \cup Permutations(MCRequestIds)

AllKindsOfTypes ==
  {"calling_context_enter", "comm_create", "io_seek", "mpi_ireceive_request",
   "mpi_ireceive", "mpi_request_cancelled"}
CancelTypes ==
  {"enter", "mpi_ireceive_request", "mpi_ireceive", "mpi_request_cancelled"}
UnhandledTypes == {"comm_create", "mpi_ireceive_request", "mpi_ireceive"}
IoTypes == {"io_seek", "mpi_ireceive_request", "mpi_ireceive"}
=============================================================================
