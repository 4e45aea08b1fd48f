-------------------------- MODULE DefinitionClasses -------------------------
(***************************************************************************)
(* The classes of definition: what a definition of each class holds beside *)
(* its reference, in the order of the parameters of its constructor, and   *)
(* which of it the accessor of each name returns.                          *)
(*                                                                         *)
(* What is added behind the constructor (the members of a group or of a    *)
(* metric class, the dimensions of a topology) is counted as one parameter *)
(* more.  The four accessors for the scope of a metric instance are one,   *)
(* and so are the type and the value of a property.                        *)
(***************************************************************************)

Accessors(holds) == {holds[p] : p \in DOMAIN holds}

(* Each accessor returns the member of its name.                           *)
Class(holds) ==
  [holds |-> holds, returns |-> [a \in Accessors(holds) |-> a]]

-----------------------------------------------------------------------------
(* Names, the system tree and locations *)

string == Class(<<"str">>)
attribute == Class(<<"name", "description", "type">>)
property == Class(<<"def", "name", "value">>)
system_tree_node == Class(<<"name", "class_name", "parent">>)
system_tree_node_domain == Class(<<"node", "domain">>)
location_group ==
  Class(<<"name", "type", "parent", "creating_location_group">>)
location == Class(<<"name", "location_group", "type", "num_events">>)

-----------------------------------------------------------------------------
(* Groups and communicators *)

group == Class(<<"name", "paradigm", "group_flag", "members">>)
comm == Class(<<"name", "group", "parent", "flags">>)
inter_comm ==
  Class(<<"name", "groupA", "groupB", "common_communicator", "flags">>)
rma_win == Class(<<"name", "comm", "flags">>)
cart_dimension == Class(<<"name", "size", "periodic">>)
cart_topology == Class(<<"name", "comm", "dimensions">>)
cart_coordinate == Class(<<"topology", "rank", "coordinates">>)

-----------------------------------------------------------------------------
(* Code *)

region ==
  Class(<<"name", "canonical_name", "description", "role", "paradigm",
          "flags", "source_file", "begin_line", "end_line">>)
parameter == Class(<<"name", "type">>)
call_path == Class(<<"region", "parent">>)
call_path_parameter == Class(<<"call_path", "parameter", "value">>)
source_code_location == Class(<<"file", "line_number">>)
calling_context == Class(<<"region", "source_code_location", "parent">>)
interrupt_generator ==
  Class(<<"name", "interrupt_generator_mode", "period_base",
          "period_exponent", "period">>)

-----------------------------------------------------------------------------
(* Metrics.  The accessor description of metric_member returns the name.   *)

metric_member ==
  [Class(<<"name", "description", "type", "mode", "value_type",
           "value_base", "value_exponent", "value_unit">>)
    EXCEPT !.returns.description = "name"]
metric_class == Class(<<"occurence", "recorder_kind", "members">>)
metric_instance == Class(<<"metric_class", "recorder", "scope">>)
metric_class_recorder == Class(<<"metric", "recorder">>)

-----------------------------------------------------------------------------
(* Input and output *)

io_file == Class(<<"name", "scope">>)
io_handle ==
  Class(<<"name", "file", "paradigm", "io_handle_flag", "comm", "parent">>)
io_paradigm ==
  Class(<<"identification", "name", "paradigm_class", "paradigm_flags",
          "properties", "values">>)
io_pre_created_handle_state ==
  Class(<<"handle", "access_mode", "status_flags">>)

-----------------------------------------------------------------------------
(* The class of each kind: the five kinds of group, the five of property   *)
(* and the two of file share their template or their base.                 *)
DefinitionClass ==
  [ string |-> string, attribute |-> attribute,
    system_tree_node |-> system_tree_node,
    system_tree_node_domain |-> system_tree_node_domain,
    system_tree_node_property |-> property,
    location_group |-> location_group, location_group_property |-> property,
    location |-> location, location_property |-> property,
    locations_group |-> group, regions_group |-> group,
    comm_group |-> group, comm_locations_group |-> group,
    comm_self_group |-> group,
    comm |-> comm, inter_comm |-> inter_comm, rma_win |-> rma_win,
    cart_dimension |-> cart_dimension, cart_topology |-> cart_topology,
    cart_coordinate |-> cart_coordinate,
    region |-> region, parameter |-> parameter,
    call_path |-> call_path, call_path_parameter |-> call_path_parameter,
    source_code_location |-> source_code_location,
    calling_context |-> calling_context,
    calling_context_property |-> property,
    interrupt_generator |-> interrupt_generator,
    metric_member |-> metric_member, metric_class |-> metric_class,
    metric_instance |-> metric_instance,
    metric_class_recorder |-> metric_class_recorder,
    io_regular_file |-> io_file, io_directory |-> io_file,
    io_file_property |-> property, io_handle |-> io_handle,
    io_paradigm |-> io_paradigm,
    io_pre_created_handle_state |-> io_pre_created_handle_state ]
=============================================================================
