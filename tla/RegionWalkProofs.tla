--------------------------- MODULE RegionWalkProofs ---------------------------
(***************************************************************************)
(* What GetRegions returns, for every task, address space and number of    *)
(* changes.  The argument for StableFound: an entry not yet returned ends  *)
(* beyond the address, because the walk moves on only over a leaf, and a   *)
(* leaf overlaps neither the entry nor the submap the entry is hidden in.  *)
(***************************************************************************)
EXTENDS RegionWalk, TLAPS

(* The types of an entry of an address space. *)
LEMMA EntryFacts ==
  ASSUME NEW sp \in Spaces, NEW e \in sp
  PROVE  /\ e.start \in Nat /\ e.size \in Nat /\ e.level \in Nat
         /\ e.submap \in BOOLEAN /\ e.prot \in Prot
         /\ End(e) \in Nat /\ e.start < End(e)
BY SpacesAssumption DEF WellFormed, Entry, End

(* The submap of level l that an entry of a deeper level is in. *)
LEMMA Above ==
  ASSUME NEW sp \in Spaces, NEW e \in sp, NEW l \in Nat, l < e.level
  PROVE  \E f \in sp : f.submap /\ f.level = l /\ Within(e, f)
<1>1. WellFormed(sp)
  BY SpacesAssumption
<1>2. l \in 0 .. e.level - 1
  BY EntryFacts
<1>. QED  BY <1>1, <1>2 DEF WellFormed

(* Two entries of one level lie apart. *)
LEMMA LevelApart ==
  ASSUME NEW sp \in Spaces, NEW e \in sp, NEW f \in sp, e # f, e.level = f.level
  PROVE  Disjoint(e, f)
BY SpacesAssumption DEF WellFormed

(* A leaf overlaps no other entry of its level or a deeper one. *)
LEMMA LeafApart ==
  ASSUME NEW sp \in Spaces, NEW e \in sp, NEW f \in sp,
         ~e.submap, e # f, e.level <= f.level
  PROVE  Disjoint(e, f)
<1>1. CASE e.level = f.level
  BY <1>1, LevelApart
<1>2. CASE e.level < f.level
  <2>1. PICK g \in sp : g.submap /\ g.level = e.level /\ Within(f, g)
    BY <1>2, EntryFacts, Above
  <2>2. Disjoint(e, g)
    BY <2>1, LevelApart
  <2>. QED  BY <2>1, <2>2, EntryFacts DEF Disjoint, Within, End
<1>. QED  BY <1>1, <1>2, EntryFacts

-------------------------------------------------------------------------------
Regions == [start : Nat, size : Nat, prot : Prot]

TypeOK ==
  /\ space \in Spaces
  /\ stable \subseteq space /\ space \subseteq ever
  /\ changes \in Nat
  /\ address \in Nat /\ size \in Nat /\ depth \in Nat
  /\ regions \in Seq(Regions)

(***************************************************************************)
(* Addresses and sizes stay natural numbers, the entries that have been    *)
(* there throughout are there now, and those are among the entries ever.   *)
(***************************************************************************)
THEOREM TypeCorrect == Spec => []TypeOK
<1>1. Init => TypeOK
  BY DEF Init, TypeOK
<1>2. TypeOK /\ [Next]_vars => TypeOK'
  <2>. SUFFICES ASSUME TypeOK, [Next]_vars PROVE TypeOK'
    OBVIOUS
  <2>1. CASE Change
    BY <2>1 DEF TypeOK, Change, walk
  <2>2. CASE Exit
    BY <2>2 DEF TypeOK, Exit, walk
  <2>3. CASE Query
    <3>1. PICK e \in Nearest : Submap(e) \/ Leaf(e)
      BY <2>3 DEF Query
    <3>2. e \in space
      BY <3>1 DEF Nearest, Ahead
    <3>3. /\ e.start \in Nat /\ e.size \in Nat /\ e.level \in Nat /\ e.prot \in Prot /\ End(e) \in Nat
      BY <3>2, EntryFacts DEF TypeOK
    <3>4. Region(e.start, e.size, e.prot) \in Regions
      BY <3>3 DEF Region, Regions
    <3>5. UNCHANGED <<space, stable, ever, changes>>
      BY <2>3 DEF Query, task
    <3>6. regions' \in Seq(Regions)
      BY <3>1, <3>4 DEF TypeOK, Submap, Leaf, Note
    <3>7. address' \in Nat /\ size' \in Nat /\ depth' \in Nat
      BY <3>1, <3>3 DEF Submap, StepInto, Leaf
    <3>. QED  BY <3>5, <3>6, <3>7 DEF TypeOK
  <2>4. CASE Finish
    BY <2>4 DEF TypeOK, Finish, task
  <2>5. CASE Fail
    <3>1. \A prot \in Prot : Region(address, size, prot) \in Regions
      BY DEF TypeOK, Region, Regions
    <3>. QED  BY <2>5, <3>1 DEF TypeOK, Fail, task
  <2>6. CASE UNCHANGED vars
    BY <2>6 DEF TypeOK, vars, task, walk
  <2>. QED  BY <2>1, <2>2, <2>3, <2>4, <2>5, <2>6 DEF Next, Walk
<1>. QED  BY <1>1, <1>2, PTL DEF Spec

-------------------------------------------------------------------------------
(* Noting a leaf adds its region, if that was asked for, and no other. *)
LEMMA NoteFacts ==
  ASSUME TypeOK, NEW e \in space, Note(e)
  PROVE  /\ \A r \in Returned : r \in Returned'
         /\ Matches(e.prot) => Of(e) \in Returned'
         /\ \A r \in Returned' : r \in Returned \/ (Matches(e.prot) /\ r = Of(e))
<1>1. Of(e) \in Regions /\ regions \in Seq(Regions)
  BY EntryFacts DEF Of, Region, Regions, TypeOK
<1>2. CASE Matches(e.prot)
  <2>1. regions' = Append(regions, Of(e))
    BY <1>2 DEF Note, Of
  <2>2. DOMAIN regions = 1 .. Len(regions) /\ DOMAIN regions' = 1 .. Len(regions) + 1
    BY <1>1, <2>1
  <2>3. /\ \A i \in DOMAIN regions : regions'[i] = regions[i]
        /\ regions'[Len(regions) + 1] = Of(e)
    BY <1>1, <2>1
  <2>4. Len(regions) \in Nat
    BY <1>1
  <2>. QED  BY <1>2, <2>2, <2>3, <2>4 DEF Returned
<1>3. CASE ~Matches(e.prot)
  BY <1>3 DEF Note, Returned
<1>. QED  BY <1>2, <1>3

(* The entry itself, or the submap that hides it, lies ahead. *)
LEMMA Guide ==
  ASSUME TypeOK, NEW e \in space, ~e.submap, address < End(e)
  PROVE  \E v \in Ahead : v.start <= e.start /\ (v = e \/ (v.submap /\ v.level = depth))
<1>. depth \in Nat /\ address \in Nat /\ space \in Spaces
  BY DEF TypeOK
<1>1. CASE e.level <= depth
  BY <1>1, EntryFacts DEF Ahead, Visible
<1>2. CASE depth < e.level
  <2>1. PICK v \in space : v.submap /\ v.level = depth /\ Within(e, v)
    BY <1>2, Above
  <2>2. address < End(v) /\ v.start <= e.start
    BY <2>1, EntryFacts DEF Within
  <2>. QED  BY <2>1, <2>2 DEF Ahead, Visible
<1>. QED  BY <1>1, <1>2, EntryFacts

(* A leaf that is nearest ends before any other leaf that is ahead, or     *)
(* hidden in something that is ahead.                                      *)
LEMMA NearestEndsFirst ==
  ASSUME TypeOK, NEW c \in Nearest, ~c.submap,
         NEW e \in space, ~e.submap, address < End(e), c # e
  PROVE  End(c) <= e.start
<1>. depth \in Nat /\ space \in Spaces /\ c \in space
  BY DEF TypeOK, Nearest, Ahead
<1>1. PICK v \in Ahead : v.start <= e.start /\ (v = e \/ (v.submap /\ v.level = depth))
  BY Guide
<1>2. v \in space /\ c.start <= v.start /\ c # v
  BY <1>1 DEF Nearest, Ahead
<1>3. Disjoint(c, v)
  <2>1. CASE v = e
    <3>1. CASE c.level <= e.level
      BY <2>1, <3>1, LeafApart
    <3>2. CASE e.level <= c.level
      BY <2>1, <3>2, LeafApart DEF Disjoint
    <3>. QED  BY <3>1, <3>2, EntryFacts
  <2>2. CASE v.submap /\ v.level = depth
    <3>1. c.level <= v.level
      BY <2>2, EntryFacts DEF Nearest, Ahead, Visible
    <3>. QED  BY <1>2, <3>1, LeafApart
  <2>. QED  BY <1>1, <2>1, <2>2
<1>. QED  BY <1>1, <1>2, <1>3, EntryFacts DEF Disjoint

-------------------------------------------------------------------------------
(* What has not been returned ends beyond the address. *)
Unmissed ==
  pc # "failed" => \A e \in stable : Wanted(e) =>
    Of(e) \in Returned \/ (pc = "query" /\ address < End(e))

(***************************************************************************)
(* GetRegions misses no region that is there throughout: for any address   *)
(* spaces, any nesting of submaps and any number of changes.               *)
(***************************************************************************)
THEOREM StableIsFound == Spec => []StableFound
<1>1. Init => Unmissed
  <2>. SUFFICES ASSUME Init, NEW e \in stable PROVE pc = "query" /\ address < End(e)
    BY DEF Unmissed
  <2>. QED  BY EntryFacts DEF Init
<1>2. TypeOK /\ Unmissed /\ [Next]_vars => Unmissed'
  <2>. SUFFICES ASSUME TypeOK, Unmissed, [Next]_vars PROVE Unmissed'
    OBVIOUS
  <2>. stable \subseteq space
    BY DEF TypeOK
  <2>1. CASE Change
    BY <2>1 DEF Unmissed, Change, walk, Wanted, Matches, Returned
  <2>2. CASE Exit
    BY <2>2 DEF Unmissed, Exit, walk, Wanted, Matches, Returned
  <2>3. CASE Query
    <3>. SUFFICES ASSUME NEW e \in stable, Wanted(e), Of(e) \notin Returned'
                  PROVE  address' < End(e)
      BY <2>3 DEF Unmissed, Query, task, Wanted, Matches
    <3>1. PICK c \in Nearest : Submap(c) \/ Leaf(c)
      BY <2>3 DEF Query
    <3>2. c \in space /\ e \in space /\ space \in Spaces
      BY <3>1 DEF Nearest, Ahead, TypeOK
    <3>3. Of(e) \notin Returned
      BY <3>1, <3>2, NoteFacts DEF Submap, Leaf, Returned
    <3>4. ~e.submap /\ Matches(e.prot) /\ address < End(e)
      BY <2>3, <3>3 DEF Unmissed, Query, Wanted
    <3>5. CASE Submap(c)
      <4>1. PICK v \in Ahead : v.start <= e.start
        BY <3>2, <3>4, Guide
      <4>2. c.start <= v.start /\ v \in space
        BY <4>1 DEF Nearest, Ahead
      <4>3. address' = c.start
        BY <3>5 DEF Submap, StepInto
      <4>. QED  BY <3>2, <4>1, <4>2, <4>3, EntryFacts
    <3>6. CASE Leaf(c)
      <4>1. c # e
        BY <3>2, <3>4, <3>6, NoteFacts DEF Leaf
      <4>2. End(c) <= e.start
        BY <3>2, <3>4, <3>6, <4>1, NearestEndsFirst DEF Leaf
      <4>. QED  BY <3>2, <3>6, <4>2, EntryFacts DEF Leaf
    <3>. QED  BY <3>1, <3>5, <3>6
  <2>4. CASE Finish
    <3>. SUFFICES ASSUME NEW e \in stable, Wanted(e) PROVE Of(e) \in Returned'
      BY <2>4 DEF Unmissed, Finish, task, Wanted, Matches
    <3>1. e \in space /\ ~e.submap /\ Ahead = {} /\ Returned' = Returned
      BY <2>4 DEF Wanted, Finish, Returned
    <3>2. ~(address < End(e))
      BY <3>1, Guide
    <3>. QED  BY <2>4, <3>1, <3>2 DEF Unmissed, Finish
  <2>5. CASE Fail
    BY <2>5 DEF Unmissed, Fail
  <2>6. CASE UNCHANGED vars
    BY <2>6 DEF Unmissed, vars, task, walk, Wanted, Matches, Returned
  <2>. QED  BY <2>1, <2>2, <2>3, <2>4, <2>5, <2>6 DEF Next, Walk
<1>3. Unmissed => StableFound
  BY DEF Unmissed, StableFound
<1>. QED  BY <1>1, <1>2, <1>3, TypeCorrect, PTL DEF Spec

-------------------------------------------------------------------------------
(***************************************************************************)
(* GetRegions returns nothing that was not mapped at some time of the      *)
(* walk, but for the last region of a walk that has failed.                *)
(***************************************************************************)
THEOREM RegionsWereMapped == Spec => []RegionsWere
<1>1. Init => RegionsWere
  BY DEF Init, RegionsWere
<1>2. TypeOK /\ RegionsWere /\ [Next]_vars => RegionsWere'
  <2>. SUFFICES ASSUME TypeOK, RegionsWere, [Next]_vars PROVE RegionsWere'
    OBVIOUS
  <2>0. regions \in Seq(Regions) /\ space \subseteq ever
    BY DEF TypeOK
  <2>1. CASE Change
    BY <2>1 DEF RegionsWere, Change, walk, Wanted, Matches
  <2>2. CASE Exit
    BY <2>2 DEF RegionsWere, Exit, walk, Wanted, Matches
  <2>3. CASE Query
    <3>1. pc = "query" /\ UNCHANGED <<ever, options, pc>>
      BY <2>3 DEF Query, task
    <3>2. PICK e \in Nearest : Submap(e) \/ Leaf(e)
      BY <2>3 DEF Query
    <3>3. e \in space /\ e \in ever
      BY <2>0, <3>2 DEF Nearest, Ahead
    <3>4. CASE UNCHANGED regions
      BY <3>1, <3>4 DEF RegionsWere, Wanted, Matches
    <3>5. CASE ~e.submap /\ Matches(e.prot) /\ regions' = Append(regions, Of(e))
      <4>1. Of(e) \in Regions
        BY <3>3, EntryFacts DEF Of, Region, Regions, TypeOK
      <4>2. \A i \in DOMAIN regions' :
              \/ i \in DOMAIN regions /\ regions'[i] = regions[i]
              \/ regions'[i] = Of(e)
        BY <2>0, <3>5, <4>1
      <4>. QED  BY <3>1, <3>3, <3>5, <4>2 DEF RegionsWere, Wanted, Matches
    <3>. QED  BY <3>2, <3>3, <3>4, <3>5 DEF Submap, Leaf, Note, Of
  <2>4. CASE Finish
    BY <2>4 DEF RegionsWere, Finish, task, Wanted, Matches
  <2>5. CASE Fail
    <3>1. pc = "query" /\ pc' = "failed" /\ UNCHANGED <<ever, options>>
      BY <2>5 DEF Fail, task
    <3>2. CASE UNCHANGED regions
      BY <3>1, <3>2 DEF RegionsWere, Wanted, Matches
    <3>3. CASE \E r \in Regions : regions' = Append(regions, r)
      <4>1. \A i \in DOMAIN regions' :
              \/ i \in DOMAIN regions /\ regions'[i] = regions[i]
              \/ i = Len(regions')
        BY <2>0, <3>3
      <4>. QED  BY <3>1, <4>1 DEF RegionsWere, Wanted, Matches
    <3>4. \A prot \in Prot : Region(address, size, prot) \in Regions
      BY DEF TypeOK, Region, Regions
    <3>. QED  BY <2>5, <3>2, <3>3, <3>4 DEF Fail
  <2>6. CASE UNCHANGED vars
    BY <2>6 DEF RegionsWere, vars, task, walk, Wanted, Matches
  <2>. QED  BY <2>1, <2>2, <2>3, <2>4, <2>5, <2>6 DEF Next, Walk
<1>. QED  BY <1>1, <1>2, TypeCorrect, PTL DEF Spec

-------------------------------------------------------------------------------
(* While the address space stays as it was, the address lies within no     *)
(* entry that the walk can still come to, so that it only grows.           *)
Clear(f) == End(f) <= address \/ address <= f.start

Orderly ==
  changes = 0 /\ pc # "failed" =>
    /\ stable = space /\ ever = space
    /\ \A f \in space : depth <= f.level \/ ~f.submap => Clear(f)
    /\ \A i \in DOMAIN regions : End(regions[i]) <= address
    /\ \A i \in 1 .. Len(regions) - 1 : End(regions[i]) <= regions[i + 1].start

(* Two entries are apart if one is a leaf and the other not around it. *)
LEMMA ClearOfLeaf ==
  ASSUME NEW sp \in Spaces, NEW c \in sp, ~c.submap,
         NEW f \in sp, c.level <= f.level \/ ~f.submap
  PROVE  End(f) <= End(c) \/ End(c) <= f.start
<1>1. CASE c = f
  BY <1>1, EntryFacts
<1>2. CASE c # f /\ c.level <= f.level
  BY <1>2, LeafApart, EntryFacts DEF Disjoint
<1>3. CASE c # f /\ f.level <= c.level /\ ~f.submap
  BY <1>3, LeafApart, EntryFacts DEF Disjoint
<1>. QED  BY <1>1, <1>2, <1>3, EntryFacts

(* What is as deep as the inside of a submap, or is a leaf, does not straddle its start. *)
LEMMA ClearOfSubmap ==
  ASSUME NEW sp \in Spaces, NEW c \in sp, c.submap,
         NEW f \in sp, c.level + 1 <= f.level \/ ~f.submap
  PROVE  End(f) <= c.start \/ c.start <= f.start
<1>1. CASE c.level < f.level
  <2>1. PICK g \in sp : g.submap /\ g.level = c.level /\ Within(f, g)
    BY <1>1, EntryFacts, Above
  <2>2. g = c \/ Disjoint(g, c)
    BY <2>1, LevelApart
  <2>. QED  BY <2>1, <2>2, EntryFacts DEF Within, Disjoint
<1>2. CASE f.level <= c.level /\ ~f.submap
  BY <1>2, LeafApart, EntryFacts DEF Disjoint
<1>. QED  BY <1>1, <1>2, EntryFacts

(***************************************************************************)
(* Of a task that stays as it is GetRegions returns exactly the regions    *)
(* that are there, from low to high addresses.                             *)
(***************************************************************************)
THEOREM QuietIsExact == Spec => []ExactWhenQuiet
<1>1. Init => Orderly
  <2>. SUFFICES ASSUME Init PROVE Orderly
    OBVIOUS
  <2>1. \A f \in space : address <= f.start
    BY EntryFacts DEF Init
  <2>. QED  BY <2>1 DEF Init, Orderly, Clear
<1>2. TypeOK /\ Orderly /\ [Next]_vars => Orderly'
  <2>. SUFFICES ASSUME TypeOK, Orderly, [Next]_vars PROVE Orderly'
    OBVIOUS
  <2>0. /\ regions \in Seq(Regions) /\ space \in Spaces
        /\ depth \in Nat /\ address \in Nat /\ changes \in Nat
    BY DEF TypeOK
  <2>1. CASE Change
    BY <2>0, <2>1 DEF Orderly, Change
  <2>2. CASE Exit
    BY <2>2 DEF Orderly, Clear, Exit, walk
  <2>3. CASE Query
    <3>. SUFFICES ASSUME changes = 0
                  PROVE  /\ \A f \in space : depth' <= f.level \/ ~f.submap => Clear(f)'
                         /\ \A i \in DOMAIN regions' : End(regions'[i]) <= address'
                         /\ \A i \in 1 .. Len(regions') - 1 : End(regions'[i]) <= regions'[i + 1].start
      BY <2>3 DEF Orderly, Query, task
    <3>1. PICK c \in Nearest : Submap(c) \/ Leaf(c)
      BY <2>3 DEF Query
    <3>2. c \in space /\ Visible(c) /\ address < End(c)
      BY <3>1 DEF Nearest, Ahead
    <3>3. /\ c.start \in Nat /\ c.size \in Nat /\ c.level \in Nat /\ End(c) \in Nat
          /\ c.start < End(c) /\ c.prot \in Prot
      BY <2>0, <3>2, EntryFacts
    <3>4. address <= c.start
      BY <2>0, <2>3, <3>2, <3>3 DEF Orderly, Clear, Visible, Query
    <3>5. \A i \in DOMAIN regions : End(regions[i]) \in Nat /\ End(regions[i]) <= address
      <4>1. \A i \in DOMAIN regions : regions[i] \in Regions
        BY <2>0
      <4>2. \A r \in Regions : End(r) \in Nat
        BY DEF Regions, End
      <4>. QED  BY <2>3, <4>1, <4>2 DEF Orderly, Query
    <3>6. \A i \in 1 .. Len(regions) - 1 : End(regions[i]) <= regions[i + 1].start
      BY <2>3 DEF Orderly, Query
    <3>7. CASE Submap(c)
      <4>1. address' = c.start /\ depth' = c.level + 1 /\ regions' = regions /\ c.submap
        BY <3>7 DEF Submap, StepInto
      <4>2. \A f \in space : depth' <= f.level \/ ~f.submap => Clear(f)'
        BY <2>0, <3>2, <4>1, ClearOfSubmap DEF Clear
      <4>. QED  BY <2>0, <3>3, <3>4, <3>5, <3>6, <4>1, <4>2
    <3>8. CASE Leaf(c)
      <4>1. address' = End(c) /\ depth' = c.level /\ ~c.submap
        BY <3>8 DEF Leaf
      <4>2. \A f \in space : depth' <= f.level \/ ~f.submap => Clear(f)'
        BY <2>0, <3>2, <4>1, ClearOfLeaf DEF Clear
      <4>3. CASE regions' = regions
        BY <2>0, <3>3, <3>4, <3>5, <3>6, <4>1, <4>2, <4>3
      <4>4. CASE regions' = Append(regions, Of(c))
        <5>1. Of(c) \in Regions /\ Of(c).start = c.start /\ End(Of(c)) = End(c)
          BY <3>3 DEF Of, Region, Regions, End
        <5>2. Len(regions) \in Nat /\ DOMAIN regions = 1 .. Len(regions)
          BY <2>0
        <5>3. /\ Len(regions') = Len(regions) + 1 /\ DOMAIN regions' = 1 .. Len(regions) + 1
              /\ \A i \in DOMAIN regions : regions'[i] = regions[i]
              /\ regions'[Len(regions) + 1] = Of(c)
          BY <2>0, <4>4, <5>1
        <5>4. \A i \in DOMAIN regions' : End(regions'[i]) <= address'
          BY <2>0, <3>3, <3>4, <3>5, <4>1, <5>1, <5>2, <5>3
        <5>5. ASSUME NEW i \in 1 .. Len(regions') - 1
              PROVE  End(regions'[i]) <= regions'[i + 1].start
          <6>1. CASE i < Len(regions)
            BY <3>6, <5>2, <5>3, <6>1
          <6>2. CASE i = Len(regions)
            BY <2>0, <3>3, <3>4, <3>5, <5>1, <5>2, <5>3, <6>2
          <6>. QED  BY <5>2, <5>3, <6>1, <6>2
        <5>. QED  BY <4>2, <5>4, <5>5
      <4>. QED  BY <3>8, <4>3, <4>4 DEF Leaf, Note, Of
    <3>. QED  BY <3>1, <3>7, <3>8
  <2>4. CASE Finish
    BY <2>4 DEF Orderly, Clear, Finish, task
  <2>5. CASE Fail
    BY <2>5 DEF Orderly, Fail
  <2>6. CASE UNCHANGED vars
    BY <2>6 DEF Orderly, Clear, vars, task, walk
  <2>. QED  BY <2>1, <2>2, <2>3, <2>4, <2>5, <2>6 DEF Next, Walk
<1>3. Orderly /\ StableFound /\ RegionsWere => ExactWhenQuiet
  <2>. SUFFICES ASSUME Orderly, StableFound, RegionsWere, pc = "done", changes = 0
                PROVE  Returned = {Of(e) : e \in {e \in space : Wanted(e)}}
    BY DEF ExactWhenQuiet, Orderly
  <2>1. \A e \in space : Wanted(e) => Of(e) \in Returned
    BY DEF Orderly, StableFound
  <2>2. \A r \in Returned : \E e \in space : Wanted(e) /\ r = Of(e)
    BY DEF Orderly, RegionsWere, Returned
  <2>. QED  BY <2>1, <2>2
<1>. QED  BY <1>1, <1>2, <1>3, TypeCorrect, StableIsFound, RegionsWereMapped, PTL DEF Spec
===============================================================================
