--------------------------- MODULE MCIntrusivePtr ----------------------------
(***************************************************************************)
(* Instances of IntrusivePtr for TLC.                                      *)
(***************************************************************************)
EXTENDS IntrusivePtr

CONSTANTS t1, t2, h1, h2, o1, o2, o3

MCThreads == {t1, t2}
MCHandles == {h1, h2}
MCObjects == {o1, o2, o3}
MCSlots == {1}
MCDepth == [o \in MCObjects |-> IF o = o3 THEN 1 ELSE 0]
=============================================================================
