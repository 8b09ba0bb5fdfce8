----------------------- MODULE MCHardwareBreakpoint -----------------------
(***************************************************************************)
(* Two threads of the target and two breakpoints.                          *)
(***************************************************************************)
EXTENDS HardwareBreakpoint, TLC

CONSTANTS d1, d2, t1, t2, b1, b2, a1, a2, zero

MCAddress == (b1 :> a1) @@ (b2 :> a2)
MCAddress1 == b1 :> a1
MCJunk == {[dr |-> [i \in Slot |-> IF i = 3 THEN a1 ELSE zero], on |-> {3}]}
MCThread  == {t1, t2}
Symmetry  == Permutations(MCThread) \cup Permutations(Pauser)
=============================================================================
