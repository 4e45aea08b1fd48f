---------------------------- MODULE EventRecords ----------------------------
(***************************************************************************)
(* The records of event: which members of the event writer::local::write   *)
(* hands to the OTF2 library behind the attributes and the time, in the    *)
(* order of the arguments of the library.                                  *)
(*                                                                         *)
(* An event of the class mpi_ireceive is the record MpiIrecv, mpi_isend is *)
(* MpiIsend, mpi_receive is MpiRecv, and measurement is MeasurementOnOff;  *)
(* the others have the name of their class.                                *)
(***************************************************************************)
EXTENDS TLC

(* buffer_flush to metric *)
GeneralRecords ==
  [ buffer_flush |-> <<"finish">>,
    enter |-> <<"region">>,
    leave |-> <<"region">>,
    measurement |-> <<"mode">>,
    metric |-> <<"metric", "values">> ]

(* mpi_ireceive_complete to mpi_send *)
MessageRecords ==
  [ mpi_ireceive |->
       <<"sender", "comm", "msg_tag", "msg_length", "request_id">>,
    mpi_ireceive_request |-> <<"request_id">>,
    mpi_isend |->
       <<"receiver", "comm", "msg_tag", "msg_length", "request_id">>,
    mpi_isend_complete |-> <<"request_id">>,
    mpi_receive |-> <<"sender", "comm", "msg_tag", "msg_length">>,
    mpi_request_test |-> <<"request_id">>,
    mpi_request_cancelled |-> <<"request_id">>,
    mpi_send |-> <<"receiver", "comm", "msg_tag", "msg_length">> ]

(* mpi_collective_begin to comm_destroy *)
CollectiveRecords ==
  [ mpi_collective_begin |-> <<>>,
    mpi_collective_end |-> <<"type", "comm", "root", "sent", "received">>,
    non_blocking_collective_request |-> <<"request_id">>,
    non_blocking_collective_complete |->
       <<"type", "comm", "root", "sent", "received", "request_id">>,
    comm_create |-> <<"comm">>,
    comm_destroy |-> <<"comm">> ]

(* parameter_int to calling_context_sample *)
ParameterRecords ==
  [ parameter_int |-> <<"parameter", "value">>,
    parameter_unsigned_int |-> <<"parameter", "value">>,
    parameter_string |-> <<"parameter", "value">>,
    calling_context_enter |-> <<"calling_context", "unwind_distance">>,
    calling_context_leave |-> <<"calling_context">>,
    calling_context_sample |->
       <<"calling_context", "unwind_distance", "interrupt_generator">> ]

(* thread_acquire_lock to thread_team_end *)
TeamRecords ==
  [ thread_acquire_lock |-> <<"paradigm", "lock_id", "order">>,
    thread_fork |-> <<"paradigm", "num_threads">>,
    thread_join |-> <<"paradigm">>,
    thread_release_lock |-> <<"paradigm", "lock_id", "order">>,
    thread_task_complete |-> <<"team", "thread", "generation">>,
    thread_task_create |-> <<"team", "thread", "generation">>,
    thread_task_switch |-> <<"team", "thread", "generation">>,
    thread_team_begin |-> <<"comm">>,
    thread_team_end |-> <<"comm">> ]

(* thread_create to thread_end *)
ThreadRecords ==
  [ thread_create |-> <<"thread_contingent", "sequence_number">>,
    thread_begin |-> <<"thread_contingent", "sequence_number">>,
    thread_wait |-> <<"thread_contingent", "sequence_number">>,
    thread_end |-> <<"thread_contingent", "sequence_number">> ]

(* rma_acquire_lock to rma_put *)
RmaOperationRecords ==
  [ rma_acquire_lock |-> <<"win", "remote", "lock", "lock_type">>,
    rma_atomic |->
       <<"win", "remote", "type", "sent", "received", "matching_id">>,
    rma_collective_begin |-> <<>>,
    rma_collective_end |->
       <<"type", "level", "win", "root", "sent", "received">>,
    rma_get |-> <<"win", "remote", "bytes", "matching_id">>,
    rma_group_sync |-> <<"level", "win", "group">>,
    rma_op_complete_blocking |-> <<"win", "matching_id">>,
    rma_op_complete_non_blocking |-> <<"win", "matching_id">>,
    rma_op_test |-> <<"win", "matching_id">>,
    rma_op_complete_remote |-> <<"win", "matching_id">>,
    rma_put |-> <<"win", "remote", "bytes", "matching_id">> ]

(* rma_release_lock to rma_win_destroy *)
RmaWindowRecords ==
  [ rma_release_lock |-> <<"win", "remote", "lock">>,
    rma_request_lock |-> <<"win", "remote", "lock", "lock_type">>,
    rma_sync |-> <<"win", "remote", "sync_type">>,
    rma_try_lock |-> <<"win", "remote", "lock", "lock_type">>,
    rma_wait_change |-> <<"win">>,
    rma_win_create |-> <<"win">>,
    rma_win_destroy |-> <<"win">> ]

(* io_create_handle to io_try_lock *)
IoRecords ==
  [ io_create_handle |->
       <<"handle", "access_mode", "creation_flag", "status_flag">>,
    io_destroy_handle |-> <<"handle">>,
    io_duplicate_handle |-> <<"old_handle", "new_handle", "status_flag">>,
    io_seek |-> <<"handle", "offset_request", "whence", "offset_result">>,
    io_change_status_flag |-> <<"handle", "status_flags">>,
    io_delete_file |-> <<"paradigm", "file">>,
    io_operation_begin |->
       <<"handle", "operation_mode", "operation_flag", "bytes_request",
         "matching_id">>,
    io_operation_test |-> <<"handle", "matching_id">>,
    io_operation_issued |-> <<"handle", "matching_id">>,
    io_operation_complete |-> <<"handle", "bytes_request", "matching_id">>,
    io_operation_cancelled |-> <<"handle", "matching_id">>,
    io_acquire_lock |-> <<"handle", "lock_type">>,
    io_release_lock |-> <<"handle", "lock_type">>,
    io_try_lock |-> <<"handle", "lock_type">> ]

(* program_begin and program_end *)
ProgramRecords ==
  [ program_begin |-> <<"name", "arguments">>,
    program_end |-> <<"exit_status">> ]

EventRecord ==
  GeneralRecords @@ MessageRecords @@ CollectiveRecords @@ ParameterRecords @@
  TeamRecords @@ ThreadRecords @@ RmaOperationRecords @@ RmaWindowRecords @@
  IoRecords @@ ProgramRecords
=============================================================================
