--------------------------- MODULE DefinitionSchema --------------------------
(***************************************************************************)
(* Which definitions refer to which, as the reader resolves them, and the  *)
(* order in which the writer stores them.                                  *)
(*                                                                         *)
(* A member of a definition on its way: its accessor gives it to store,    *)
(* which makes it an argument of the record (DefinitionRecords), which the *)
(* callback hands to the constructor of the definition of the reader       *)
(* (DefinitionCallbacks).                                                  *)
(*                                                                         *)
(* Of the members of a list (those of a group, say) one stands for all.    *)
(* Markers are left out, which are stored in a file of their own, and so   *)
(* are the clock properties, which refer to nothing.                       *)
(***************************************************************************)
EXTENDS Sequences, DefinitionClasses, DefinitionRecords, DefinitionCallbacks

SchemaKinds == DOMAIN DefinitionCallback

(* What the callback hands to the member m, see DefinitionCallbacks        *)
Handed(k, m) ==
  LET holds == DefinitionClass[k].holds
  IN DefinitionCallback[k][CHOOSE p \in DOMAIN holds : holds[p] = m]

(* The members that are read at all                                        *)
MembersRead(k) ==
  {DefinitionClass[k].holds[p] : p \in DOMAIN DefinitionCallback[k]}

(* The member of the definition written that the member m of the           *)
(* definition read comes from                                              *)
ComesFrom(k, m) ==
  DefinitionClass[k].returns[DefinitionRecord[k][Handed(k, m).at]]

Refers(k, m) == Handed(k, m).kinds # <<>>

(* The members of each kind that refer to definitions, and for each the    *)
(* kinds that may be meant                                                 *)
SchemaUses ==
  [k \in SchemaKinds |->
     [m \in {n \in MembersRead(k) : Refers(k, n)} |-> Handed(k, m).kinds]]

SchemaSource ==
  [k \in SchemaKinds |->
     [m \in DOMAIN SchemaUses[k] |-> ComesFrom(k, m)]]

(* What does not refer to definitions comes from where it belongs.         *)
ASSUME ValuesAssumption ==
  \A k \in SchemaKinds :
    \A m \in MembersRead(k) : ~Refers(k, m) => ComesFrom(k, m) = m

(* The uses that are answered by search, not by reference (GroupCallbacks) *)
(* and those that are recorded with the kind they refer to.                *)
SchemaSearched == {<<"comm_locations_group">>}
SchemaTagged == {ScopeKinds}

(* The kinds that have no id space: their holder is a property_holder.     *)
SchemaSupplements ==
  { "system_tree_node_property", "system_tree_node_domain",
    "location_group_property", "location_property", "call_path_parameter",
    "cart_coordinate", "calling_context_property", "metric_class_recorder",
    "io_file_property", "io_pre_created_handle_state" }

(* The kinds for which register_definition_callbacks sets no callback.     *)
SchemaUnread == {"cart_coordinate"}

(* The calls of store in store(reg), and the kinds each of them merges     *)
TreeOrder ==
  << {"string"}, {"attribute"}, {"system_tree_node"},
     {"system_tree_node_property"}, {"system_tree_node_domain"},
     {"location_group"}, {"location_group_property"}, {"location"},
     {"location_property"}, {"region"} >>

SchemaOrder ==
  TreeOrder \o
  << {"comm_locations_group", "comm_self_group", "comm_group",
      "locations_group", "regions_group"},
     {"comm", "inter_comm"},
     {"parameter"}, {"call_path"}, {"call_path_parameter"},
     {"cart_topology"}, {"cart_dimension"}, {"cart_coordinate"},
     {"rma_win"}, {"source_code_location"}, {"calling_context"},
     {"calling_context_property"}, {"interrupt_generator"},
     {"metric_member"}, {"metric_class", "metric_instance"},
     {"io_paradigm"}, {"io_directory", "io_regular_file"},
     {"io_file_property"}, {"io_handle"}, {"io_pre_created_handle_state"} >>
=============================================================================
