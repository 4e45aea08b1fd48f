--------------------------- MODULE MCDefinitionFile ---------------------------
(***************************************************************************)
(* Instances of DefinitionFile with the kinds, uses and order of           *)
(* DefinitionSchema.                                                       *)
(***************************************************************************)
EXTENDS DefinitionFile, DefinitionSchema, MCGlobalWriter

(* The accessor of the description returns the name.                       *)
MCMisread == {"metric_member"}

(* cart_topology is stored before the dimensions it uses.                  *)
MCLate == {<<"cart_dimension">>}

(* Groups of kinds that use each other.  Together they have every kind and *)
(* every use, each use with every kind that may be meant.                  *)
MCFamilies ==
  { {"string", "attribute", "parameter", "interrupt_generator"},
    {"string", "metric_member", "cart_dimension", "source_code_location"},
    {"string", "io_paradigm", "comm_self_group"},
    {"string", "region", "call_path"},
    {"string", "system_tree_node", "system_tree_node_property",
     "system_tree_node_domain"},
    {"string", "location_group", "location_group_property"},
    {"string", "location", "location_property"},
    {"string", "locations_group", "comm_locations_group"},
    {"system_tree_node", "location_group", "location"},
    {"parameter", "region", "call_path", "call_path_parameter"},
    {"region", "source_code_location", "calling_context"},
    {"string", "calling_context", "calling_context_property"},
    {"location", "locations_group", "comm_locations_group", "comm_group"},
    {"string", "region", "regions_group", "comm_group",
     "comm_locations_group"},
    {"comm_locations_group", "comm_group", "comm_self_group", "comm"},
    {"comm_self_group", "comm", "inter_comm"},
    {"comm_locations_group", "comm_group", "inter_comm"},
    {"string", "comm", "inter_comm", "rma_win", "cart_topology"},
    {"cart_topology", "cart_dimension", "cart_coordinate"},
    {"string", "metric_member", "metric_class"},
    {"location", "location_group", "metric_class", "metric_instance"},
    {"system_tree_node", "locations_group", "metric_instance"},
    {"location", "metric_class", "metric_instance", "metric_class_recorder"},
    {"io_regular_file", "io_directory", "io_handle", "io_file_property"},
    {"string", "system_tree_node", "io_regular_file", "io_directory"},
    {"io_paradigm", "comm", "io_handle", "io_pre_created_handle_state"},
    {"string", "io_regular_file", "io_handle", "io_file_property"},
    {"string", "comm_group", "comm_locations_group"},
    {"string", "rma_win", "inter_comm", "comm_self_group"} }

MCCart == {{"cart_topology", "cart_dimension", "cart_coordinate"}}
MCTree == {{"string", "system_tree_node"}}
MCMember == {{"string", "metric_member"}}
MCMetric == {{"metric_class", "metric_instance", "metric_class_recorder"}}
=============================================================================
