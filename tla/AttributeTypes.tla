---------------------------- MODULE AttributeTypes --------------------------
(***************************************************************************)
(* The types of the values of attributes: what add_attribute takes, what   *)
(* get_attribute gives back, and the types and the members of the union    *)
(* OTF2_AttributeValue that an otf2::attribute_value gets from what it is  *)
(* made of.                                                                *)
(***************************************************************************)
EXTENDS FiniteSets

Numbers ==
  {"int8", "int16", "int32", "int64", "uint8", "uint16", "uint32", "uint64",
   "Float", "Double"}

(* The types with an add_attribute: a number, or the reference of a        *)
(* definition.  There is none for a group, although OTF2 has that type.    *)
Addable ==
  Numbers \cup {"attribute", "comm", "location", "metric", "parameter",
                "region", "string", "io_file", "io_handle"}

(* For the others, get_attribute does not compile.                         *)
Gettable == Numbers

As(type, member) == [type |-> type, member |-> member]

(* The constructors of attribute_value, and its assignments alike          *)
ValueOfNumber ==
  [n \in Numbers |->
     As(n, CASE n = "Float" -> "float32"
             [] n = "Double" -> "float64"
             [] OTHER -> n)]

References ==
  [string               |-> As("string", "stringRef"),
   location             |-> As("location", "locationRef"),
   region               |-> As("region", "regionRef"),
   group                |-> As("group", "groupRef"),
   metric_class         |-> As("metric", "metricRef"),
   metric_instance      |-> As("metric", "metricRef"),
   comm                 |-> As("comm", "commRef"),
   parameter            |-> As("parameter", "parameterRef"),
   source_code_location |-> As("source_code_location",
                               "sourceCodeLocationRef"),
   calling_context      |-> As("calling_context", "callingContextRef"),
   interrupt_generator  |-> As("interrupt_generator",
                               "interruptGeneratorRef"),
   io_file              |-> As("io_file", "ioFileRef"),
   io_directory         |-> As("io_file", "ioFileRef"),
   io_handle            |-> As("io_handle", "ioHandleRef")]

Made ==
  {ValueOfNumber[n] : n \in DOMAIN ValueOfNumber} \cup
  {References[d] : d \in DOMAIN References}

(* The type of a value says which member of the union is set.              *)
ASSUME TypesTellMembers ==
  \A u, v \in Made : u.type = v.type <=> u.member = v.member

(* What can be added to a list can be a value on its own, except a         *)
(* reference to another attribute.                                         *)
ASSUME AddableAreMade ==
  Addable \ {v.type : v \in Made} = {"attribute"}
=============================================================================
