---------------------------- MODULE EventClasses ----------------------------
(***************************************************************************)
(* The classes of event: what an event of each class holds beside its time *)
(* and its attributes, and whether its constructor with a new timestamp    *)
(* copies the attributes.                                                  *)
(*                                                                         *)
(* A member is a plain value, a point in time, or a weak reference to a    *)
(* definition, of which the set of the kinds it may have is given.  Of the *)
(* arguments of program_begin, a list of strings, one stands for all, and  *)
(* the values of a metric are one value.  Left out are the data that       *)
(* event::buffer attaches to an mpi_ireceive_request, which no record has, *)
(* the member lock of rma_sync, which no constructor sets, and the classes *)
(* unknown, which holds nothing, and marker, which is in no event file.    *)
(***************************************************************************)

Plain == {}
Time == {"time"}
AnyComm == {"comm", "inter_comm"}
AnyMetric == {"metric_class", "metric_instance"}
AnyFile == {"io_regular_file", "io_directory"}
NoMembers == [m \in {} |-> Plain]

(* The constructor with a new timestamp is that of base which clones the   *)
(* attribute list of the other event.                                      *)
Class(members) == [members |-> members, keeps |-> TRUE]

(* It is that of base which has no other event.                            *)
Forgetful(members) == [members |-> members, keeps |-> FALSE]

-----------------------------------------------------------------------------
(* General events *)

buffer_flush == Class([finish |-> Time])
enter == Class([region |-> {"region"}])
leave == Class([region |-> {"region"}])
measurement == Class([mode |-> Plain])
metric == Class([metric |-> AnyMetric, values |-> Plain])

-----------------------------------------------------------------------------
(* Messages *)

mpi_send ==
  Class([receiver |-> Plain, comm |-> AnyComm, msg_tag |-> Plain,
         msg_length |-> Plain])
mpi_isend ==
  Class([receiver |-> Plain, comm |-> AnyComm, msg_tag |-> Plain,
         msg_length |-> Plain, request_id |-> Plain])
mpi_isend_complete == Class([request_id |-> Plain])
mpi_receive ==
  Class([sender |-> Plain, comm |-> AnyComm, msg_tag |-> Plain,
         msg_length |-> Plain])
mpi_ireceive_request == Class([request_id |-> Plain])
mpi_ireceive ==
  Class([sender |-> Plain, comm |-> AnyComm, msg_tag |-> Plain,
         msg_length |-> Plain, request_id |-> Plain])
mpi_request_test == Class([request_id |-> Plain])
mpi_request_cancelled == Class([request_id |-> Plain])

-----------------------------------------------------------------------------
(* Collective operations and communicators *)

mpi_collective_begin == Class(NoMembers)
mpi_collective_end ==
  Class([type |-> Plain, comm |-> AnyComm, root |-> Plain, sent |-> Plain,
         received |-> Plain])
non_blocking_collective_request == Class([request_id |-> Plain])
non_blocking_collective_complete ==
  Class([type |-> Plain, comm |-> AnyComm, root |-> Plain, sent |-> Plain,
         received |-> Plain, request_id |-> Plain])
comm_create == Class([comm |-> AnyComm])
comm_destroy == Class([comm |-> AnyComm])

-----------------------------------------------------------------------------
(* Parameters, calling contexts and the program *)

parameter_int == Class([parameter |-> {"parameter"}, value |-> Plain])
parameter_unsigned_int ==
  Class([parameter |-> {"parameter"}, value |-> Plain])
parameter_string ==
  Class([parameter |-> {"parameter"}, value |-> {"string"}])
calling_context_enter ==
  Class([calling_context |-> {"calling_context"}, unwind_distance |-> Plain])
calling_context_leave == Class([calling_context |-> {"calling_context"}])
calling_context_sample ==
  Class([calling_context |-> {"calling_context"}, unwind_distance |-> Plain,
         interrupt_generator |-> {"interrupt_generator"}])
program_begin == Class([name |-> {"string"}, arguments |-> {"string"}])
program_end == Class([exit_status |-> Plain])

-----------------------------------------------------------------------------
(* Threads *)

thread_acquire_lock ==
  Class([paradigm |-> Plain, lock_id |-> Plain, order |-> Plain])
thread_release_lock ==
  Class([paradigm |-> Plain, lock_id |-> Plain, order |-> Plain])
thread_fork == Class([paradigm |-> Plain, num_threads |-> Plain])
thread_join == Class([paradigm |-> Plain])
thread_task_create ==
  Class([team |-> AnyComm, thread |-> Plain, generation |-> Plain])
thread_task_switch ==
  Class([team |-> AnyComm, thread |-> Plain, generation |-> Plain])
thread_task_complete ==
  Class([team |-> AnyComm, thread |-> Plain, generation |-> Plain])
thread_team_begin == Class([comm |-> AnyComm])
thread_team_end == Class([comm |-> AnyComm])
thread_create ==
  Class([thread_contingent |-> AnyComm, sequence_number |-> Plain])
thread_begin ==
  Class([thread_contingent |-> AnyComm, sequence_number |-> Plain])
thread_wait ==
  Class([thread_contingent |-> AnyComm, sequence_number |-> Plain])
thread_end ==
  Class([thread_contingent |-> AnyComm, sequence_number |-> Plain])

-----------------------------------------------------------------------------
(* Remote memory access *)

rma_acquire_lock ==
  Forgetful([win |-> {"rma_win"}, remote |-> Plain, lock |-> Plain,
             lock_type |-> Plain])
rma_release_lock ==
  Forgetful([win |-> {"rma_win"}, remote |-> Plain, lock |-> Plain])
rma_request_lock ==
  Forgetful([win |-> {"rma_win"}, remote |-> Plain, lock |-> Plain,
             lock_type |-> Plain])
rma_try_lock ==
  Forgetful([win |-> {"rma_win"}, remote |-> Plain, lock |-> Plain,
             lock_type |-> Plain])
rma_atomic ==
  Forgetful([win |-> {"rma_win"}, remote |-> Plain, type |-> Plain,
             sent |-> Plain, received |-> Plain, matching_id |-> Plain])
rma_collective_begin == Forgetful(NoMembers)
rma_collective_end ==
  Forgetful([type |-> Plain, level |-> Plain, win |-> {"rma_win"},
             root |-> Plain, sent |-> Plain, received |-> Plain])
rma_get ==
  Forgetful([win |-> {"rma_win"}, remote |-> Plain, bytes |-> Plain,
             matching_id |-> Plain])
rma_put ==
  Forgetful([win |-> {"rma_win"}, remote |-> Plain, bytes |-> Plain,
             matching_id |-> Plain])
rma_group_sync ==
  Forgetful([level |-> Plain, win |-> {"rma_win"}, group |-> {"comm_group"}])
rma_sync ==
  Forgetful([win |-> {"rma_win"}, remote |-> Plain, sync_type |-> Plain])
rma_wait_change == Forgetful([win |-> {"rma_win"}])
rma_op_complete_blocking ==
  Forgetful([win |-> {"rma_win"}, matching_id |-> Plain])
rma_op_complete_non_blocking ==
  Forgetful([win |-> {"rma_win"}, matching_id |-> Plain])
rma_op_complete_remote ==
  Forgetful([win |-> {"rma_win"}, matching_id |-> Plain])
rma_op_test == Forgetful([win |-> {"rma_win"}, matching_id |-> Plain])
rma_win_create == Forgetful([win |-> {"rma_win"}])
rma_win_destroy == Forgetful([win |-> {"rma_win"}])

-----------------------------------------------------------------------------
(* Input and output *)

io_create_handle ==
  Forgetful([handle |-> {"io_handle"}, access_mode |-> Plain,
             creation_flag |-> Plain, status_flag |-> Plain])
io_destroy_handle == Forgetful([handle |-> {"io_handle"}])
io_duplicate_handle ==
  Forgetful([old_handle |-> {"io_handle"}, new_handle |-> {"io_handle"},
             status_flag |-> Plain])
io_seek ==
  Forgetful([handle |-> {"io_handle"}, offset_request |-> Plain,
             whence |-> Plain, offset_result |-> Plain])
io_change_status_flag ==
  Forgetful([handle |-> {"io_handle"}, status_flags |-> Plain])
io_delete_file == Forgetful([paradigm |-> {"io_paradigm"}, file |-> AnyFile])
io_operation_begin ==
  Forgetful([handle |-> {"io_handle"}, operation_mode |-> Plain,
             operation_flag |-> Plain, bytes_request |-> Plain,
             matching_id |-> Plain])
io_operation_test ==
  Forgetful([handle |-> {"io_handle"}, matching_id |-> Plain])
io_operation_issued ==
  Forgetful([handle |-> {"io_handle"}, matching_id |-> Plain])
io_operation_cancelled ==
  Forgetful([handle |-> {"io_handle"}, matching_id |-> Plain])
io_operation_complete ==
  Forgetful([handle |-> {"io_handle"}, bytes_request |-> Plain,
             matching_id |-> Plain])
io_acquire_lock == Forgetful([handle |-> {"io_handle"}, lock_type |-> Plain])
io_release_lock == Forgetful([handle |-> {"io_handle"}, lock_type |-> Plain])
io_try_lock == Forgetful([handle |-> {"io_handle"}, lock_type |-> Plain])

-----------------------------------------------------------------------------
EventClass ==
  [ buffer_flush |-> buffer_flush, enter |-> enter, leave |-> leave,
    measurement |-> measurement, metric |-> metric, mpi_send |-> mpi_send,
    mpi_isend |-> mpi_isend, mpi_isend_complete |-> mpi_isend_complete,
    mpi_receive |-> mpi_receive,
    mpi_ireceive_request |-> mpi_ireceive_request,
    mpi_ireceive |-> mpi_ireceive, mpi_request_test |-> mpi_request_test,
    mpi_request_cancelled |-> mpi_request_cancelled,
    mpi_collective_begin |-> mpi_collective_begin,
    mpi_collective_end |-> mpi_collective_end,
    non_blocking_collective_request |-> non_blocking_collective_request,
    non_blocking_collective_complete |-> non_blocking_collective_complete,
    comm_create |-> comm_create, comm_destroy |-> comm_destroy,
    parameter_int |-> parameter_int,
    parameter_unsigned_int |-> parameter_unsigned_int,
    parameter_string |-> parameter_string,
    calling_context_enter |-> calling_context_enter,
    calling_context_leave |-> calling_context_leave,
    calling_context_sample |-> calling_context_sample,
    program_begin |-> program_begin, program_end |-> program_end,
    thread_acquire_lock |-> thread_acquire_lock,
    thread_release_lock |-> thread_release_lock,
    thread_fork |-> thread_fork, thread_join |-> thread_join,
    thread_task_create |-> thread_task_create,
    thread_task_switch |-> thread_task_switch,
    thread_task_complete |-> thread_task_complete,
    thread_team_begin |-> thread_team_begin,
    thread_team_end |-> thread_team_end, thread_create |-> thread_create,
    thread_begin |-> thread_begin, thread_wait |-> thread_wait,
    thread_end |-> thread_end, rma_acquire_lock |-> rma_acquire_lock,
    rma_release_lock |-> rma_release_lock,
    rma_request_lock |-> rma_request_lock, rma_try_lock |-> rma_try_lock,
    rma_atomic |-> rma_atomic,
    rma_collective_begin |-> rma_collective_begin,
    rma_collective_end |-> rma_collective_end, rma_get |-> rma_get,
    rma_put |-> rma_put, rma_group_sync |-> rma_group_sync,
    rma_sync |-> rma_sync, rma_wait_change |-> rma_wait_change,
    rma_op_complete_blocking |-> rma_op_complete_blocking,
    rma_op_complete_non_blocking |-> rma_op_complete_non_blocking,
    rma_op_complete_remote |-> rma_op_complete_remote,
    rma_op_test |-> rma_op_test, rma_win_create |-> rma_win_create,
    rma_win_destroy |-> rma_win_destroy,
    io_create_handle |-> io_create_handle,
    io_destroy_handle |-> io_destroy_handle,
    io_duplicate_handle |-> io_duplicate_handle, io_seek |-> io_seek,
    io_change_status_flag |-> io_change_status_flag,
    io_delete_file |-> io_delete_file,
    io_operation_begin |-> io_operation_begin,
    io_operation_test |-> io_operation_test,
    io_operation_issued |-> io_operation_issued,
    io_operation_cancelled |-> io_operation_cancelled,
    io_operation_complete |-> io_operation_complete,
    io_acquire_lock |-> io_acquire_lock,
    io_release_lock |-> io_release_lock, io_try_lock |-> io_try_lock ]
=============================================================================
