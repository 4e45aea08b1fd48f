-------------------------------- MODULE Chrono ------------------------------
(***************************************************************************)
(* otf2::chrono::convert: from the ticks of a trace to points in time and  *)
(* back.  The factors are doubles, and so are the products, so a           *)
(* conversion rounds three times before it cuts or raises the result to an *)
(* integer.  The model has doubles with a significand of Bits bits, of     *)
(* which the values are the rationals <<n, d>>, d a power of two.          *)
(*                                                                         *)
(* The assertions on single points in time, that they fit into 63 bits,    *)
(* are left out.                                                           *)
(***************************************************************************)
EXTENDS Naturals

CONSTANTS
  Den,          (* clock::period::den, the units of time in a second       *)
  Bits,         (* bound: the bits of a significand, 53 in the program     *)
  MaxExponent,  (* bound: on the exponents of doubles                      *)
  Limit         (* bound: 2^63 in the program, which is the greatest       *)
                (* duration as a double                                    *)

ASSUME ChronoAssumption ==
  /\ Den \in Nat \ {0} /\ Bits \in Nat \ {0}
  /\ MaxExponent \in Nat /\ Limit \in Nat

(* The powers of two                                                       *)
Power[x \in Nat] == IF x = 0 THEN 1 ELSE 2 * Power[x - 1]

(* The integer nearest to n/d, the even one of two.                        *)
Nearest(n, d) ==
  LET q == n \div d
      r == n % d
  IN IF 2 * r < d \/ (2 * r = d /\ q % 2 = 0) THEN q ELSE q + 1

(* The double nearest to n/d: x is the exponent with which the significand *)
(* has Bits bits.                                                          *)
Double(n, d) ==
  IF n = 0 THEN <<0, 1>>
  ELSE IF n >= d * Power[Bits]
    THEN LET x == CHOOSE x \in 0 .. MaxExponent :
                    /\ n < d * Power[Bits + x]
                    /\ n >= d * Power[Bits + x - 1]
         IN <<Nearest(n, d * Power[x]) * Power[x], 1>>
    ELSE LET x == CHOOSE x \in 0 .. MaxExponent :
                    /\ n * Power[x] < d * Power[Bits]
                    /\ n * Power[x] >= d * Power[Bits - 1]
         IN <<Nearest(n * Power[x], d), Power[x]>>

Product(a, b) == Double(a[1] * b[1], a[2] * b[2])
Floor(a) == a[1] \div a[2]
Ceil(a) == (a[1] + a[2] - 1) \div a[2]

Factor(cp) == Double(Den, cp.tps)
InverseFactor(cp) == Double(cp.tps, Den)

(* operator()(ticks), of ticks from the start of the clock                 *)
TimeOf(cp, ticks) ==
  Floor(Product(Double(ticks - cp.start, 1), Factor(cp)))

(* operator()(time_point)                                                  *)
TicksOf(cp, time) ==
  Ceil(Product(Double(time, 1), InverseFactor(cp))) + cp.start

(* The constructor from clock properties does not throw.                   *)
Representable(cp) ==
  LET length == Double(cp.length, 1)
      bound  == Double(Limit * Factor(cp)[2], Factor(cp)[1])
  IN length[1] * bound[2] <= bound[1] * length[2]

(* The arguments of convert by default                                     *)
DefaultConvert == [tps |-> Den, start |-> 0]

(* clock_properties(): the length -1 is the greatest of its unsigned type. *)
DefaultClock == [tps |-> Den, start |-> 0, length |-> 2 * Limit - 1]
=============================================================================
