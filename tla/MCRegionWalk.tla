----------------------------- MODULE MCRegionWalk -----------------------------
EXTENDS RegionWalk

E(start, sz, level, submap, prot) ==
  [start |-> start, size |-> sz, level |-> level, submap |-> submap, prot |-> prot]

(* A page before, two pages within and one behind a submap that holds      *)
(* another; the entry of two pages lies where the submap may lie.          *)
Menu ==
  {E(0, 1, 0, FALSE, "rw"), E(0, 2, 0, FALSE, "r"),
   E(1, 2, 0, TRUE, "r"), E(1, 2, 0, FALSE, "rw"), E(3, 1, 0, FALSE, "rw"),
   E(1, 1, 1, FALSE, "rw"), E(2, 1, 1, FALSE, "r"), E(2, 1, 1, TRUE, "r"),
   E(2, 1, 2, FALSE, "rw")}

MCSpaces == {sp \in SUBSET Menu : WellFormed(sp)}
===============================================================================
