--------------------------- MODULE EventCallbacks ---------------------------
(***************************************************************************)
(* The callbacks of the reader for the records of event: where each member *)
(* of the event they make comes from.                                      *)
(*                                                                         *)
(* A member is one of the arguments behind the time, or what the registry  *)
(* has for the reference that is the argument.  The arguments are counted  *)
(* as in EventRecords.  Where a reference may be to definitions of two     *)
(* kinds, the callback tests one kind with has to choose the kind it takes *)
(* with get, which throws if there is none.                                *)
(***************************************************************************)
EXTENDS TLC

Arg(i) == [at |-> i, get |-> <<>>]
TimeAt(i) == [at |-> i, get |-> <<"ticks">>]

(* has<tested>(i) ? get<first>(i) : get<last>(i), of the registry          *)
Choose(i, tested, first, last) == [at |-> i, get |-> <<tested, first, last>>]

GetVariant(i, first, last) == Choose(i, first, first, last)
Get(i, kind) == GetVariant(i, kind, kind)

CommAt(i) == GetVariant(i, "comm", "inter_comm")
WinAt(i) == Get(i, "rma_win")
HandleAt(i) == Get(i, "io_handle")
NoArguments == [m \in {} |-> Arg(m)]

(* buffer_flush to metric *)
GeneralCallbacks ==
  [ buffer_flush |-> [finish |-> TimeAt(1)],
    enter |-> [region |-> Get(1, "region")],
    leave |-> [region |-> Get(1, "region")],
    measurement |-> [mode |-> Arg(1)],
    metric |->
      [metric |-> GetVariant(1, "metric_class", "metric_instance"),
       values |-> Arg(2)] ]

(* mpi_collective_begin to non_blocking_collective_complete *)
CollectiveCallbacks ==
  [ mpi_collective_begin |-> NoArguments,
    mpi_collective_end |->
      [type |-> Arg(1), comm |-> CommAt(2), root |-> Arg(3),
       sent |-> Arg(4), received |-> Arg(5)],
    non_blocking_collective_request |-> [request_id |-> Arg(1)],
    non_blocking_collective_complete |->
      [type |-> Arg(1), comm |-> CommAt(2), root |-> Arg(3),
       sent |-> Arg(4), received |-> Arg(5), request_id |-> Arg(6)] ]

(* mpi_irecv to mpi_send *)
MessageCallbacks ==
  [ mpi_ireceive |->
      [sender |-> Arg(1), comm |-> CommAt(2), msg_tag |-> Arg(3),
       msg_length |-> Arg(4), request_id |-> Arg(5)],
    mpi_ireceive_request |-> [request_id |-> Arg(1)],
    mpi_isend |->
      [receiver |-> Arg(1), comm |-> CommAt(2), msg_tag |-> Arg(3),
       msg_length |-> Arg(4), request_id |-> Arg(5)],
    mpi_isend_complete |-> [request_id |-> Arg(1)],
    mpi_receive |->
      [sender |-> Arg(1), comm |-> CommAt(2), msg_tag |-> Arg(3),
       msg_length |-> Arg(4)],
    mpi_request_cancelled |-> [request_id |-> Arg(1)],
    mpi_request_test |-> [request_id |-> Arg(1)],
    mpi_send |->
      [receiver |-> Arg(1), comm |-> CommAt(2), msg_tag |-> Arg(3),
       msg_length |-> Arg(4)] ]

(* parameter_int to calling_context_sample *)
ParameterCallbacks ==
  [ parameter_int |-> [parameter |-> Get(1, "parameter"), value |-> Arg(2)],
    parameter_string |->
      [parameter |-> Get(1, "parameter"), value |-> Get(2, "string")],
    parameter_unsigned_int |->
      [parameter |-> Get(1, "parameter"), value |-> Arg(2)],
    calling_context_enter |->
      [calling_context |-> Get(1, "calling_context"),
       unwind_distance |-> Arg(2)],
    calling_context_leave |->
      [calling_context |-> Get(1, "calling_context")],
    calling_context_sample |->
      [calling_context |-> Get(1, "calling_context"),
       unwind_distance |-> Arg(2),
       interrupt_generator |-> Get(3, "interrupt_generator")] ]

(* rma_acquire_lock to rma_op_complete_remote *)
RmaOperationCallbacks ==
  [ rma_acquire_lock |->
      [win |-> WinAt(1), remote |-> Arg(2), lock |-> Arg(3),
       lock_type |-> Arg(4)],
    rma_atomic |->
      [win |-> WinAt(1), remote |-> Arg(2), type |-> Arg(3),
       sent |-> Arg(4), received |-> Arg(5), matching_id |-> Arg(6)],
    rma_collective_begin |-> NoArguments,
    rma_collective_end |->
      [type |-> Arg(1), level |-> Arg(2), win |-> WinAt(3),
       root |-> Arg(4), sent |-> Arg(5), received |-> Arg(6)],
    rma_get |->
      [win |-> WinAt(1), remote |-> Arg(2), bytes |-> Arg(3),
       matching_id |-> Arg(4)],
    rma_group_sync |->
      [level |-> Arg(1), win |-> WinAt(2), group |-> Get(3, "comm_group")],
    rma_op_complete_blocking |-> [win |-> WinAt(1), matching_id |-> Arg(2)],
    rma_op_complete_non_blocking |->
      [win |-> WinAt(1), matching_id |-> Arg(2)],
    rma_op_complete_remote |-> [win |-> WinAt(1), matching_id |-> Arg(2)] ]

(* rma_op_test to rma_win_destroy *)
RmaWindowCallbacks ==
  [ rma_op_test |-> [win |-> WinAt(1), matching_id |-> Arg(2)],
    rma_put |->
      [win |-> WinAt(1), remote |-> Arg(2), bytes |-> Arg(3),
       matching_id |-> Arg(4)],
    rma_release_lock |->
      [win |-> WinAt(1), remote |-> Arg(2), lock |-> Arg(3)],
    rma_request_lock |->
      [win |-> WinAt(1), remote |-> Arg(2), lock |-> Arg(3),
       lock_type |-> Arg(4)],
    rma_sync |-> [win |-> WinAt(1), remote |-> Arg(2), sync_type |-> Arg(3)],
    rma_try_lock |->
      [win |-> WinAt(1), remote |-> Arg(2), lock |-> Arg(3),
       lock_type |-> Arg(4)],
    rma_wait_change |-> [win |-> WinAt(1)],
    rma_win_create |-> [win |-> WinAt(1)],
    rma_win_destroy |-> [win |-> WinAt(1)] ]

(* thread_acquire_lock to thread_task_switch *)
TeamCallbacks ==
  [ thread_acquire_lock |->
      [paradigm |-> Arg(1), lock_id |-> Arg(2), order |-> Arg(3)],
    thread_fork |-> [paradigm |-> Arg(1), num_threads |-> Arg(2)],
    thread_join |-> [paradigm |-> Arg(1)],
    thread_release_lock |->
      [paradigm |-> Arg(1), lock_id |-> Arg(2), order |-> Arg(3)],
    thread_task_complete |->
      [team |-> CommAt(1), thread |-> Arg(2), generation |-> Arg(3)],
    thread_task_create |->
      [team |-> CommAt(1), thread |-> Arg(2), generation |-> Arg(3)],
    thread_task_switch |->
      [team |-> CommAt(1), thread |-> Arg(2), generation |-> Arg(3)] ]

(* thread_team_begin to thread_end *)
ThreadCallbacks ==
  [ thread_team_begin |-> [comm |-> CommAt(1)],
    thread_team_end |-> [comm |-> CommAt(1)],
    thread_create |->
      [thread_contingent |-> CommAt(1), sequence_number |-> Arg(2)],
    thread_begin |->
      [thread_contingent |-> CommAt(1), sequence_number |-> Arg(2)],
    thread_wait |->
      [thread_contingent |-> CommAt(1), sequence_number |-> Arg(2)],
    thread_end |->
      [thread_contingent |-> CommAt(1), sequence_number |-> Arg(2)] ]

(* io_create_handle to io_delete_file, which asks for an io_handle of the  *)
(* reference of the file                                                   *)
IoHandleCallbacks ==
  [ io_create_handle |->
      [handle |-> HandleAt(1), access_mode |-> Arg(2),
       creation_flag |-> Arg(3), status_flag |-> Arg(4)],
    io_destroy_handle |-> [handle |-> HandleAt(1)],
    io_duplicate_handle |->
      [old_handle |-> HandleAt(1), new_handle |-> HandleAt(2),
       status_flag |-> Arg(3)],
    io_seek |->
      [handle |-> HandleAt(1), offset_request |-> Arg(2),
       whence |-> Arg(3), offset_result |-> Arg(4)],
    io_change_status_flag |->
      [handle |-> HandleAt(1), status_flags |-> Arg(2)],
    io_delete_file |->
      [paradigm |-> Get(1, "io_paradigm"),
       file |-> Choose(2, "io_handle", "io_regular_file", "io_directory")] ]

(* io_operation_begin to io_try_lock *)
IoOperationCallbacks ==
  [ io_operation_begin |->
      [handle |-> HandleAt(1), operation_mode |-> Arg(2),
       operation_flag |-> Arg(3), bytes_request |-> Arg(4),
       matching_id |-> Arg(5)],
    io_operation_test |-> [handle |-> HandleAt(1), matching_id |-> Arg(2)],
    io_operation_issued |-> [handle |-> HandleAt(1), matching_id |-> Arg(2)],
    io_operation_cancelled |->
      [handle |-> HandleAt(1), matching_id |-> Arg(2)],
    io_operation_complete |->
      [handle |-> HandleAt(1), bytes_request |-> Arg(2),
       matching_id |-> Arg(3)],
    io_acquire_lock |-> [handle |-> HandleAt(1), lock_type |-> Arg(2)],
    io_release_lock |-> [handle |-> HandleAt(1), lock_type |-> Arg(2)],
    io_try_lock |-> [handle |-> HandleAt(1), lock_type |-> Arg(2)] ]

(* program_begin to comm_destroy *)
ProgramCallbacks ==
  [ program_begin |->
      [name |-> Get(1, "string"), arguments |-> Get(2, "string")],
    program_end |-> [exit_status |-> Arg(1)],
    comm_create |-> [comm |-> CommAt(1)],
    comm_destroy |-> [comm |-> CommAt(1)] ]

EventCallback ==
  GeneralCallbacks @@ CollectiveCallbacks @@ MessageCallbacks @@
  ParameterCallbacks @@ RmaOperationCallbacks @@ RmaWindowCallbacks @@
  TeamCallbacks @@ ThreadCallbacks @@ IoHandleCallbacks @@
  IoOperationCallbacks @@ ProgramCallbacks

(* The callbacks that register_event_callbacks sets: all but four.         *)
EventRegistered ==
  DOMAIN EventCallback \
    {"non_blocking_collective_request", "non_blocking_collective_complete",
     "comm_create", "comm_destroy"}
=============================================================================
