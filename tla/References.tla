----------------------------- MODULE References ------------------------------
(***************************************************************************)
(* otf2::reference_impl and otf2::reference_generator.  The references of  *)
(* one id space are unsigned numbers of a fixed width, of which the        *)
(* greatest stands for an undefined reference; a generator remembers the   *)
(* greatest one it knows (old_max), and nothing else.                      *)
(***************************************************************************)
EXTENDS Naturals

CONSTANT Undefined    (* 2^w - 1 for the width w of the type               *)

ASSUME UndefinedAssumption == Undefined \in Nat \ {0}

Ref == 0 .. Undefined - 1
AnyRef == 0 .. Undefined

(* old_max of a new generator: -1, converted to the unsigned type.         *)
NewGenerator == Undefined

(* A wrong variant of Registered: an explicit reference is remembered even *)
(* where a greater one is known.                                           *)
RegisteredLast(old, r) == r

(* register_reference                                                      *)
Registered(old, r) ==
  IF old = Undefined THEN r ELSE IF r > old THEN r ELSE old

(* The condition under which next() throws.                                *)
Exhausted(old) == old + 1 = Undefined

(* ++old_max, in the arithmetic of the type: what next() returns.          *)
Following(old) == IF old = Undefined THEN 0 ELSE old + 1
=============================================================================
