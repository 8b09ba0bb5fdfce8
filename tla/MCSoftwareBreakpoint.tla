------------------------ MODULE MCSoftwareBreakpoint ------------------------
(***************************************************************************)
(* Two threads, two breakpoints on neighbouring addresses of one page, and *)
(* a second page behind them.                                              *)
(***************************************************************************)
EXTENDS SoftwareBreakpoint, TLC

CONSTANTS t1, t2, b1, b2, p0, p1

MCThread  == {t1, t2}
MCBkpt    == {b1, b2}
MCPage    == {p0, p1}
MCPageOf  == (0 :> p0) @@ (1 :> p0) @@ (2 :> p1)
MCInitMem == (0 :> 10) @@ (1 :> 11) @@ (2 :> 12)
MCProt    == {{"r", "x"}, {}}
MCAddress == (b1 :> 0) @@ (b2 :> 1)
Symmetry  == Permutations(MCThread)
MCX64     == [b \in MCBkpt |-> "x86_64"]

(* A 4-byte ARM breakpoint across two pages, a 2-byte THUMB one behind it. *)
MCArmPageOf  == [a \in 0 .. 5 |-> IF a < 2 THEN p0 ELSE p1]
MCArmInitMem == [a \in 0 .. 5 |-> 10 + a]
MCArmAddress == (b1 :> 0) @@ (b2 :> 4)
MCArm        == (b1 :> "ARMv7") @@ (b2 :> "THUMBv7")
=============================================================================
