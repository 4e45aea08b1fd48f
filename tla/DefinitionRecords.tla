-------------------------- MODULE DefinitionRecords -------------------------
(***************************************************************************)
(* The records of definition: which accessors store of writer::global      *)
(* calls for the arguments of the OTF2 library, behind the reference of    *)
(* the definition, in the order of the arguments.                          *)
(*                                                                         *)
(* Several arguments are counted as one: an array and its size, the type   *)
(* and the value of an attribute, a scope and its kind.  The type of a     *)
(* group is the kind of the definition.                                    *)
(***************************************************************************)
EXTENDS TLC

(* attribute to inter_comm *)
CommRecords ==
  [ attribute |-> <<"name", "description", "type">>,
    call_path |-> <<"parent", "region">>,
    call_path_parameter |-> <<"call_path", "parameter", "value">>,
    comm |-> <<"name", "group", "parent", "flags">>,
    inter_comm |->
      <<"name", "groupA", "groupB", "common_communicator", "flags">> ]

GroupRecord == <<"name", "paradigm", "group_flag", "members">>

(* group to location_group *)
GroupRecords ==
  [ locations_group |-> GroupRecord,
    regions_group |-> GroupRecord,
    comm_group |-> GroupRecord,
    comm_locations_group |-> GroupRecord,
    comm_self_group |-> GroupRecord,
    location |-> <<"name", "type", "num_events", "location_group">>,
    location_group |->
      <<"name", "type", "parent", "creating_location_group">> ]

(* metric_class to metric_member *)
MetricRecords ==
  [ metric_class |-> <<"members", "occurence", "recorder_kind">>,
    metric_class_recorder |-> <<"metric", "recorder">>,
    metric_instance |-> <<"metric_class", "recorder", "scope">>,
    metric_member |->
      <<"name", "description", "type", "mode", "value_type", "value_base",
        "value_exponent", "value_unit">> ]

PropertyRecord == <<"def", "name", "value">>

(* parameter to location_group_property *)
RegionRecords ==
  [ parameter |-> <<"name", "type">>,
    region |->
      <<"name", "canonical_name", "description", "role", "paradigm",
        "flags", "source_file", "begin_line", "end_line">>,
    rma_win |-> <<"name", "comm", "flags">>,
    string |-> <<"str">>,
    system_tree_node |-> <<"name", "class_name", "parent">>,
    system_tree_node_domain |-> <<"node", "domain">>,
    system_tree_node_property |-> PropertyRecord,
    location_property |-> PropertyRecord,
    location_group_property |-> PropertyRecord ]

(* source_code_location to cart_coordinate *)
CallingContextRecords ==
  [ source_code_location |-> <<"file", "line_number">>,
    calling_context |-> <<"region", "source_code_location", "parent">>,
    calling_context_property |-> PropertyRecord,
    interrupt_generator |->
      <<"name", "interrupt_generator_mode", "period_base",
        "period_exponent", "period">>,
    cart_dimension |-> <<"name", "size", "periodic">>,
    cart_topology |-> <<"name", "comm", "dimensions">>,
    cart_coordinate |-> <<"topology", "rank", "coordinates">> ]

(* io_handle to io_file_property *)
FileRecords ==
  [ io_handle |->
      <<"name", "file", "paradigm", "io_handle_flag", "comm", "parent">>,
    io_paradigm |->
      <<"identification", "name", "paradigm_class", "paradigm_flags",
        "properties", "values">>,
    io_regular_file |-> <<"name", "scope">>,
    io_directory |-> <<"name", "scope">>,
    io_pre_created_handle_state |->
      <<"handle", "access_mode", "status_flags">>,
    io_file_property |-> PropertyRecord ]

DefinitionRecord ==
  CommRecords @@ GroupRecords @@ MetricRecords @@ RegionRecords @@
  CallingContextRecords @@ FileRecords
=============================================================================
