------------------------- MODULE DefinitionCallbacks ------------------------
(***************************************************************************)
(* The callbacks of the reader for the records of definition: which        *)
(* argument of the record they hand to each parameter of the constructor   *)
(* of the definition.                                                      *)
(*                                                                         *)
(* The arguments are counted as in DefinitionRecords, the parameters as in *)
(* DefinitionClasses.  An argument is handed on as it is, or is the        *)
(* reference of what the callback looks up: then kinds is the sequence of  *)
(* the kinds that may have the reference, in the order in which the        *)
(* callback asks them.                                                     *)
(***************************************************************************)
EXTENDS TLC

Arg(i) == [at |-> i, kinds |-> <<>>]
Get(i, kind) == [at |-> i, kinds |-> <<kind>>]
GetVariant(i, first, last) == [at |-> i, kinds |-> <<first, last>>]

StringAt(i) == Get(i, "string")
GroupAt(i) == GetVariant(i, "comm_group", "comm_self_group")
MetricAt(i) == GetVariant(i, "metric_class", "metric_instance")
FileAt(i) == GetVariant(i, "io_regular_file", "io_directory")

(* The kind of a scope is recorded.                                        *)
ScopeKinds ==
  <<"location", "location_group", "system_tree_node", "locations_group">>
ScopeAt(i) == [at |-> i, kinds |-> ScopeKinds]

(* attribute to inter_comm *)
CommCallbacks ==
  [ attribute |-> <<StringAt(1), StringAt(2), Arg(3)>>,
    call_path |-> <<Get(2, "region"), Get(1, "call_path")>>,
    call_path_parameter |->
      <<Get(1, "call_path"), Get(2, "parameter"), Arg(3)>>,
    comm |-> <<StringAt(1), GroupAt(2), Get(3, "comm"), Arg(4)>>,
    inter_comm |->
      <<StringAt(1), GroupAt(2), GroupAt(3),
        GetVariant(4, "comm", "inter_comm"), Arg(5)>> ]

(* The cases of group.  The members of a comm_group are positions in the   *)
(* comm_locations_group of its paradigm, which it searches; those of a     *)
(* comm_self_group are not read.                                           *)
GroupCallbacks ==
  [ locations_group |->
      <<StringAt(1), Arg(2), Arg(3), Get(4, "location")>>,
    regions_group |-> <<StringAt(1), Arg(2), Arg(3), Get(4, "region")>>,
    comm_group |->
      <<StringAt(1), Arg(2), Arg(3), Get(4, "comm_locations_group")>>,
    comm_locations_group |->
      <<StringAt(1), Arg(2), Arg(3), Get(4, "location")>>,
    comm_self_group |-> <<StringAt(1), Arg(2), Arg(3)>> ]

(* location and location_group *)
LocationCallbacks ==
  [ location |-> <<StringAt(1), Get(4, "location_group"), Arg(2), Arg(3)>>,
    location_group |->
      <<StringAt(1), Arg(2), Get(3, "system_tree_node"),
        Get(4, "location_group")>> ]

(* metric_class to metric_member *)
MetricCallbacks ==
  [ metric_class |-> <<Arg(2), Arg(3), Get(1, "metric_member")>>,
    metric_class_recorder |-> <<MetricAt(1), Get(2, "location")>>,
    metric_instance |->
      <<Get(1, "metric_class"), Get(2, "location"), ScopeAt(3)>>,
    metric_member |->
      <<StringAt(1), StringAt(2), Arg(3), Arg(4), Arg(5), Arg(6), Arg(7),
        StringAt(8)>> ]

(* parameter to string *)
RegionCallbacks ==
  [ parameter |-> <<StringAt(1), Arg(2)>>,
    region |->
      <<StringAt(1), StringAt(2), StringAt(3), Arg(4), Arg(5), Arg(6),
        StringAt(7), Arg(8), Arg(9)>>,
    rma_win |-> <<StringAt(1), Get(2, "comm"), Arg(3)>>,
    string |-> <<Arg(1)>> ]

(* system_tree_node to location_group_property *)
SystemTreeCallbacks ==
  [ system_tree_node |->
      <<StringAt(1), StringAt(2), Get(3, "system_tree_node")>>,
    system_tree_node_domain |-> <<Get(1, "system_tree_node"), Arg(2)>>,
    system_tree_node_property |->
      <<Get(1, "system_tree_node"), StringAt(2), Arg(3)>>,
    location_property |-> <<Get(1, "location"), StringAt(2), Arg(3)>>,
    location_group_property |->
      <<Get(1, "location_group"), StringAt(2), Arg(3)>> ]

(* source_code_location to interrupt_generator *)
CallingContextCallbacks ==
  [ source_code_location |-> <<StringAt(1), Arg(2)>>,
    calling_context |->
      <<Get(1, "region"), Get(2, "source_code_location"),
        Get(3, "calling_context")>>,
    calling_context_property |->
      <<Get(1, "calling_context"), StringAt(2), Arg(3)>>,
    interrupt_generator |->
      <<StringAt(1), Arg(2), Arg(3), Arg(4), Arg(5)>> ]

(* io_regular_file to io_pre_created_handle_state *)
FileCallbacks ==
  [ io_regular_file |-> <<StringAt(1), Get(2, "system_tree_node")>>,
    io_directory |-> <<StringAt(1), Get(2, "system_tree_node")>>,
    io_handle |->
      <<StringAt(1), FileAt(2), Get(3, "io_paradigm"), Arg(4),
        Get(5, "comm"), Get(6, "io_handle")>>,
    io_paradigm |->
      <<StringAt(1), StringAt(2), Arg(3), Arg(4), Arg(5), Arg(6)>>,
    io_file_property |-> <<FileAt(1), StringAt(2), Arg(3)>>,
    io_pre_created_handle_state |-> <<Get(1, "io_handle"), Arg(2), Arg(3)>> ]

(* cart_dimension to cart_coordinate *)
CartCallbacks ==
  [ cart_dimension |-> <<StringAt(1), Arg(2), Arg(3)>>,
    cart_topology |->
      <<StringAt(1), Get(2, "comm"), Get(3, "cart_dimension")>>,
    cart_coordinate |-> <<Get(1, "cart_topology"), Arg(2), Arg(3)>> ]

DefinitionCallback ==
  CommCallbacks @@ GroupCallbacks @@ LocationCallbacks @@ MetricCallbacks @@
  RegionCallbacks @@ SystemTreeCallbacks @@ CallingContextCallbacks @@
  FileCallbacks @@ CartCallbacks
=============================================================================
