------------------------------ MODULE RegionWalk ------------------------------
(***************************************************************************)
(* Process::GetRegions: the walk through the regions of a task, which goes *)
(* on running, mapping and unmapping, and may exit.                        *)
(*                                                                         *)
(* An address space is a set of entries.  A submap is an entry that stands *)
(* for a map of its own, whose entries lie within it one level deeper.     *)
(* The kernel's vm_region_recurse is external.  No entry ends beyond       *)
(* Limit, so that adding a size to an address never wraps around.          *)
(***************************************************************************)
EXTENDS Integers, Sequences

CONSTANTS
  Limit,       \* end of the address space
  Spaces,      \* the address spaces the task may have
  Prot,        \* the protections of entries
  Any,         \* VM_PROT_ANY
  MaxChanges   \* bound: changes of the address space during a walk

End(e) == e.start + e.size

Entry == [start : Nat, size : Nat \ {0}, level : Nat, submap : BOOLEAN, prot : Prot]

Within(e, f)   == f.start <= e.start /\ End(e) <= End(f)
Disjoint(e, f) == End(e) <= f.start \/ End(f) <= e.start

WellFormed(sp) ==
  /\ sp \subseteq Entry
  /\ \A e \in sp :
       /\ End(e) <= Limit
       /\ \A l \in 0 .. e.level - 1 :
            \E f \in sp : f.submap /\ f.level = l /\ Within(e, f)
       /\ \A f \in sp : e # f /\ e.level = f.level => Disjoint(e, f)

ASSUME LimitAssumption  == Limit \in Nat
ASSUME SpacesAssumption == \A sp \in Spaces : WellFormed(sp)
ASSUME AnyAssumption    == Any \notin Prot
ASSUME BoundAssumption  == MaxChanges \in Nat

VARIABLES
  space,    \* the task's address space
  alive,    \* the task can be asked
  changes,  \* changes of the address space so far
  stable,   \* history: entries that have been there throughout the walk
  ever,     \* history: entries that have been there at some time of it
  options,  \* the protection asked for, or Any
  address, size, depth,  \* the locals of GetRegions
  regions,  \* what it returns
  pc        \* "query", "done", or "failed" after a call that did not say the end

task == <<space, alive, changes, stable, ever>>
walk == <<address, size, depth, regions, pc>>
vars == <<task, options, walk>>

Init ==
  /\ space \in Spaces
  /\ alive \in BOOLEAN
  /\ changes = 0
  /\ stable = space
  /\ ever = space
  /\ options \in Prot \cup {Any}
  /\ address = 0 /\ size = 0 /\ depth = 1
  /\ regions = << >>
  /\ pc = "query"

-------------------------------------------------------------------------------
(* The task. *)

Change ==
  /\ alive
  /\ changes < MaxChanges
  /\ changes' = changes + 1
  /\ space' \in Spaces
  /\ stable' = stable \cap space'
  /\ ever' = ever \cup space'
  /\ UNCHANGED <<alive, options, walk>>

Exit ==
  /\ alive
  /\ alive' = FALSE
  /\ UNCHANGED <<space, changes, stable, ever, options, walk>>

-------------------------------------------------------------------------------
(* vm_region_recurse finds the entry at or behind the address, and does    *)
(* not look into the submaps of level depth.                               *)
Visible(e) == e.level = depth \/ (e.level < depth /\ ~e.submap)

Ahead == {e \in space : Visible(e) /\ address < End(e)}

Nearest == {e \in Ahead : \A f \in Ahead : e.start <= f.start}

Matches(prot) == prot = options \/ options = Any

Region(start, sz, prot) == [start |-> start, size |-> sz, prot |-> prot]

(* Faulty variants: the depth stays; the submap is stepped over. *)
StepIntoKeepingDepth(e) ==
  /\ depth' = e.level
  /\ address' = e.start
StepOver(e) ==
  /\ depth' = e.level
  /\ address' = End(e)

StepInto(e) ==
  /\ depth' = e.level + 1
  /\ address' = e.start

Submap(e) ==
  /\ e.submap
  /\ StepInto(e)
  /\ size' = e.size
  /\ UNCHANGED regions

(* Faulty variants: the address is moved on before the region is noted;    *)
(* any protection that was asked for is taken for Any.                     *)
NoteNext(e) ==
  regions' = IF Matches(e.prot) THEN Append(regions, Region(End(e), e.size, e.prot)) ELSE regions
NoteAll(e) ==
  regions' = Append(regions, Region(e.start, e.size, e.prot))

Note(e) ==
  regions' = IF Matches(e.prot) THEN Append(regions, Region(e.start, e.size, e.prot)) ELSE regions

Leaf(e) ==
  /\ ~e.submap
  /\ depth' = e.level
  /\ size' = e.size
  /\ Note(e)
  /\ address' = End(e)

Query ==
  /\ pc = "query" /\ alive
  /\ \E e \in Nearest : Submap(e) \/ Leaf(e)
  /\ UNCHANGED <<task, options, pc>>

(* KERN_INVALID_ADDRESS *)
Finish ==
  /\ pc = "query" /\ alive
  /\ Ahead = {}
  /\ pc' = "done"
  /\ UNCHANGED <<task, options, address, size, depth, regions>>

(* Any other error ends the loop only after its body, which looks at info  *)
(* that nobody has written: it may take it for one more region.            *)
Fail ==
  /\ pc = "query" /\ ~alive
  /\ pc' = "failed"
  /\ \/ depth' = depth + 1 /\ UNCHANGED <<address, regions>>
     \/ /\ \E prot \in Prot :
             regions' = IF Matches(prot) THEN Append(regions, Region(address, size, prot)) ELSE regions
        /\ address' = address + size
        /\ UNCHANGED depth
  /\ UNCHANGED <<task, options, size>>

Walk == Query \/ Finish \/ Fail

Next == Change \/ Exit \/ Walk

(* The thread that walks goes on. *)
Spec == Init /\ [][Next]_vars /\ WF_vars(Walk)

-------------------------------------------------------------------------------
Of(e)     == Region(e.start, e.size, e.prot)
Wanted(e) == ~e.submap /\ Matches(e.prot)
Returned  == {regions[i] : i \in DOMAIN regions}

(***************************************************************************)
(* A region of the wanted protection that is there all the time is not     *)
(* missed, whatever else the task maps and unmaps meanwhile, and at        *)
(* whatever depth of submaps it lies.                                      *)
(***************************************************************************)
StableFound ==
  pc = "done" => \A e \in stable : Wanted(e) => Of(e) \in Returned

(***************************************************************************)
(* Every region returned was mapped so at some time of the walk; only the  *)
(* last one of a walk that has failed may be made up.                      *)
(***************************************************************************)
RegionsWere ==
  \A i \in DOMAIN regions :
    \/ \E e \in ever : Wanted(e) /\ regions[i] = Of(e)
    \/ pc = "failed" /\ i = Len(regions)

(***************************************************************************)
(* Of a task that maps nothing meanwhile the walk returns the regions that *)
(* are there, each once and from low to high addresses.                    *)
(***************************************************************************)
ExactWhenQuiet ==
  pc = "done" /\ changes = 0 =>
    /\ Returned = {Of(e) : e \in {e \in space : Wanted(e)}}
    /\ \A i \in 1 .. Len(regions) - 1 : End(regions[i]) <= regions[i + 1].start

(***************************************************************************)
(* The walk ends, although its depth only grows within a submap and its    *)
(* address may fall when the task maps a submap around it.                 *)
(***************************************************************************)
Ends == <>(pc # "query")
===============================================================================
