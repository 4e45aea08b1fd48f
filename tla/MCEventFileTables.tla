-------------------------- MODULE MCEventFileTables -------------------------
(***************************************************************************)
(* The instance of which the tables of the code are faithful: those that   *)
(* share no reference between an io_handle and an io_directory.            *)
(***************************************************************************)
EXTENDS MCEventFile, Integers

ASSUME FaithfulAssumption == Faithful

(* Ticks that are not finer than the points in time survive the conversion *)
(* to a point in time and back within one tick, as far as doubles have the *)
(* bits for both.                                                          *)
ASSUME ThereAndBack ==
  \A tps \in 1 .. Den, start \in 0 .. 3, ticks \in 0 .. 2^Bits - 1 :
    LET c == [tps |-> tps, start |-> start]
        t == ticks + start
    IN TimeOf(c, t) < 2^Bits => TicksOf(c, TimeOf(c, t)) - t \in {-1, 0, 1}

(* No point in time of a clock that the constructor accepts is beyond      *)
(* Limit, but some clocks end at Limit, which is one more than the         *)
(* greatest duration.                                                      *)
ASSUME GreatestTime ==
  LET accepted == {c \in [tps : 1 .. 2 * Den, start : {0},
                          length : 0 .. 2 * Limit] : Representable(c)}
      last     == {TimeOf(c, c.length) : c \in accepted}
  IN last \subseteq 0 .. Limit /\ Limit \in last
=============================================================================
