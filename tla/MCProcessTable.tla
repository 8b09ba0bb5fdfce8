---------------------------- MODULE MCProcessTable ----------------------------
EXTENDS ProcessTable, TLC

CONSTANTS self, p1, p2, p3, debugger, app, game

MCNameOf == (self :> debugger) @@ (p1 :> app) @@ (p2 :> game) @@ (p3 :> app)

(* A pid is only compared with others, and p1 and p3 have one name. *)
Symmetry == Permutations(Pid) \cup Permutations({p1, p3})
===============================================================================
