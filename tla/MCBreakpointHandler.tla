------------------------ MODULE MCBreakpointHandler ------------------------
(***************************************************************************)
(* A client and one server thread, two breakpoints on neighbouring bytes.  *)
(***************************************************************************)
EXTENDS BreakpointHandler

CONSTANTS c, s, b1, b2, p0

MCBkpt    == {b1, b2}
MCPageOf  == [a \in 0 .. 1 |-> p0]
MCInitMem == [a \in 0 .. 1 |-> 10 + a]
MCAddress == (b1 :> 0) @@ (b2 :> 1)
MCX64     == [b \in MCBkpt |-> "x86_64"]
=============================================================================
