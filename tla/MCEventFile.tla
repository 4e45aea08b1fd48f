----------------------------- MODULE MCEventFile ----------------------------
(***************************************************************************)
(* Instances of EventFile with the classes of event, their records and     *)
(* callbacks, and the clock conversion.                                    *)
(***************************************************************************)
EXTENDS EventFile, EventClasses, EventRecords, EventCallbacks, Chrono

CONSTANT Reread   (* the locations that came from a reader                  *)

(* A location of a trace with two events is written again, the others are  *)
(* new.                                                                    *)
MCInitial == [l \in Locations |-> IF l \in Reread THEN 2 ELSE 0]

Named(kinds, r) == [kind : kinds, ref : {r}]

(* One or two definitions of each kind.  Of two kinds that share an id     *)
(* space, one has the reference 0 and the other 1.                         *)
MCDefinitions ==
  Named({"region", "parameter", "string", "calling_context",
              "interrupt_generator", "comm", "comm_group", "rma_win",
              "metric_class", "io_paradigm", "io_regular_file",
              "io_handle"}, 0) \cup
  Named({"inter_comm", "metric_instance", "io_directory"}, 1)

(* The handle has another reference than the file it was opened with.      *)
MCOtherHandle ==
  Named({"io_paradigm", "io_regular_file", "io_directory"}, 0) \cup
  Named({"io_directory", "io_handle"}, 1)

(* The second is not a double of 5 bits.                                   *)
MCTimes == {2, 41}

(* A clock as coarse as the time points, and one that starts late and is   *)
(* coarser.                                                                *)
MCClocks == { [tps |-> Den, start |-> 0, length |-> 41],
              [tps |-> 20, start |-> 4, length |-> 41] }

(* The clocks before which no event lies                                   *)
MCClocksFromZero == {c \in MCClocks : c.start = 0}

(* The conversions of the instance.  TLC evaluates a definition once, but  *)
(* one that a configuration gives to a constant each time it is used:      *)
(* that one only names the other.                                          *)
WriterTicks == [t \in MCTimes |-> TicksOf(DefaultConvert, t)]
MCTicks == WriterTicks

(* At ticks before the start of the clock, where the assertion fails, any  *)
(* value will do.                                                          *)
ReaderInstant ==
  [c \in MCClocks \cup {DefaultClock} |->
     [k \in {MCTicks[t] : t \in MCTimes} |->
        IF k < c.start THEN 0 ELSE TimeOf(c, k)]]
MCInstant == ReaderInstant

ConvertibleClocks == {c \in MCClocks \cup {DefaultClock} : Representable(c)}
MCConvertible == ConvertibleClocks

MCOften == {"enter", "metric"}
=============================================================================
