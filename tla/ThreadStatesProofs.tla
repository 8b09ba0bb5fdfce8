-------------------------- MODULE ThreadStatesProofs --------------------------
(***************************************************************************)
(* What Save may write into a thread, and what an assignment changes, for  *)
(* any number of Loads, Saves and assignments in any order, whichever of   *)
(* their calls fail.  The argument: a Load gets the words of every flavor  *)
(* that is answered, and Save sets no others; what a Load has got is old   *)
(* only once the thread has run; and every view, but the Misplaced ones,   *)
(* is of exactly the words of the register it names.                       *)
(***************************************************************************)
EXTENDS ThreadStates, SequenceTheorems, WellFoundedInduction, TLAPS

(* What the flavors that have been got, and have been since the thread     *)
(* ran, do not hold, and where the thread has got what it should not have. *)
IInv ==
  /\ \A w \in Words : Flavor(w) \in Flavors \ unfetched => object[w] # "junk"
  /\ \A w \in Words : Flavor(w) \in Flavors \ behind => object[w] # "old"
  /\ JunkOnlyUnfetched
  /\ OldOnlyIfLate

(* A fresh thread state satisfies the invariant. *)
LEMMA InitIInv == Init => IInv
BY DEF Init, IInv, JunkOnlyUnfetched, OldOnlyIfLate

(* The words and their flavors are those of the class, which does not change. *)
LEMMA SameWords ==
  ASSUME UNCHANGED class
  PROVE  Words' = Words /\ Flavors' = Flavors /\ \A w \in Words : Flavor(w)' = Flavor(w)
BY DEF Words, Flavors, Flavor

(* Load preserves the invariant. *)
LEMMA LoadStep ==
  ASSUME IInv, NEW failed, Load(failed)
  PROVE  IInv'
<1>1. /\ UNCHANGED <<class, kernel, blind, late>>
      /\ unfetched' = unfetched \cap failed /\ behind' = behind \cap failed
      /\ \A w \in Words :
           object'[w] = IF Flavor(w) \in Flavors \ failed THEN "own" ELSE object[w]
  BY DEF Load, Fetch, GetStates
<1>2. Words' = Words /\ Flavors' = Flavors /\ \A w \in Words : Flavor(w)' = Flavor(w)
  BY <1>1, SameWords
<1>. QED  BY <1>1, <1>2 DEF IInv, JunkOnlyUnfetched, OldOnlyIfLate

(* So does an assignment through a view. *)
LEMMA AssignStep ==
  ASSUME IInv, NEW n, NEW width, Assign(n, width)
  PROVE  IInv'
<1>1. UNCHANGED <<class, kernel, unfetched, blind, behind, late>>
  BY DEF Assign
<1>2. Words' = Words /\ Flavors' = Flavors /\ \A w \in Words : Flavor(w)' = Flavor(w)
  BY <1>1, SameWords
<1>3. \A w \in Words : object'[w] \in {"new", object[w]}
  BY DEF Assign
<1>. QED  BY <1>1, <1>2, <1>3 DEF IInv, JunkOnlyUnfetched, OldOnlyIfLate

(* So does Save. *)
LEMMA SaveStep ==
  ASSUME IInv, NEW failed, Save(failed)
  PROVE  IInv'
<1>1. /\ UNCHANGED <<class, object, unfetched, behind>>
      /\ blind' = blind \cup (unfetched \ failed) /\ late' = late \cup (behind \ failed)
  BY DEF Save, debugger
<1>2. \A w \in Words : \/ kernel'[w] = kernel[w]
                       \/ Flavor(w) \in Flavors \ failed /\ kernel'[w] = object[w]
  BY DEF Save
<1>3. Words' = Words /\ Flavors' = Flavors /\ \A w \in Words : Flavor(w)' = Flavor(w)
  BY <1>1, SameWords
<1>. QED  BY <1>1, <1>2, <1>3 DEF IInv, JunkOnlyUnfetched, OldOnlyIfLate

(* So does the thread, when it runs. *)
LEMMA RunStep ==
  ASSUME IInv, Run
  PROVE  IInv'
<1>1. /\ UNCHANGED <<class, unfetched, blind, late>> /\ behind' = Flavors
      /\ \A w \in Words : kernel'[w] = "own" /\ object'[w] \in {"old", object[w]}
  BY DEF Run
<1>2. Words' = Words /\ Flavors' = Flavors /\ \A w \in Words : Flavor(w)' = Flavor(w)
  BY <1>1, SameWords
<1>. QED  BY <1>1, <1>2 DEF IInv, JunkOnlyUnfetched, OldOnlyIfLate

(* No step breaks the invariant. *)
LEMMA NextIInv == IInv /\ [Next]_vars => IInv'
<1>. SUFFICES ASSUME IInv, [Next]_vars PROVE IInv'
  OBVIOUS
<1>1. CASE Exit \/ UNCHANGED vars
  <2>1. UNCHANGED <<class, kernel, debugger, history>>
    BY <1>1 DEF Exit, vars
  <2>2. Words' = Words /\ Flavors' = Flavors /\ \A w \in Words : Flavor(w)' = Flavor(w)
    BY <2>1, SameWords
  <2>. QED
    BY <2>1, <2>2 DEF IInv, JunkOnlyUnfetched, OldOnlyIfLate, debugger, history
<1>. QED  BY <1>1, LoadStep, AssignStep, SaveStep, RunStep DEF Next

(* The inductive invariant of Load, Save and the views holds in every reachable state. *)
THEOREM Invariant == Spec => []IInv
BY InitIInv, NextIInv, PTL DEF Spec

(***************************************************************************)
(* Memory that was never written gets into a thread only in a flavor whose *)
(* thread_get_state no Load has got an answer to.                          *)
(***************************************************************************)
THEOREM NoJunkOnceFetched == Spec => []JunkOnlyUnfetched
<1>1. IInv => JunkOnlyUnfetched
  BY DEF IInv
<1>. QED  BY <1>1, Invariant, PTL

(***************************************************************************)
(* Save sets a register back to an earlier value only in a flavor that no  *)
(* Load has got since the thread ran.                                      *)
(***************************************************************************)
THEOREM NothingOldInTime == Spec => []OldOnlyIfLate
<1>1. IInv => OldOnlyIfLate
  BY DEF IInv
<1>. QED  BY <1>1, Invariant, PTL

-------------------------------------------------------------------------------
(* Where the registers are. *)

(* Registers have names of their own, which no member has.                 *)
LEMMA StructFacts ==
  ASSUME NEW c \in Class, NEW s, s = Struct(c), NEW m, m = Members(c)
  PROVE  /\ Len(s) \in Nat /\ Doubles(c) \in Nat /\ Doubles(c) <= Len(s)
         /\ \A i, j \in 1 .. Len(s) : s[i] = s[j] => i = j
         /\ Len(m) \in Nat
         /\ \A i \in 1 .. Len(s), j \in 1 .. Len(m) : s[i] # m[j]
<1>1. s = Struct(c) /\ m = Members(c)
  OBVIOUS
<1>2. /\ c \in {"x64", "x86"} => m = <<"float", "debug", "exception">>
      /\ c = "ARMv7" => m = <<"vfp", "neon", "exception", "debug">>
      /\ c = "AArch64" => m = <<"neon", "exception", "debug">>
  BY <1>1 DEF Members, IntelMembers, ARMv7Members, AArch64Members
<1>3. CASE c = "x64"
  <2>1. /\ Len(s) = 21
        /\ \A i, j \in 1 .. 21 : s[i] = s[j] => i = j
        /\ \A i \in 1 .. 21 : s[i] \notin {"float", "debug", "exception"}
    BY <1>1, <1>3 DEF Struct
  <2>2. Doubles(c) = 21
    BY <1>1, <1>3, <2>1 DEF Doubles
  <2>3. Len(m) = 3 /\ \A j \in 1 .. 3 : m[j] \in {"float", "debug", "exception"}
    BY <1>2, <1>3
  <2>4. 1 .. Len(s) = 1 .. 21 /\ 1 .. Len(m) = 1 .. 3
    BY <2>1, <2>3
  <2>5. \A i, j \in 1 .. Len(s) : s[i] = s[j] => i = j
    BY <2>1, <2>4
  <2>6. \A i \in 1 .. Len(s), j \in 1 .. Len(m) : s[i] # m[j]
    BY <2>1, <2>3, <2>4
  <2>7. Len(s) \in Nat /\ Len(m) \in Nat /\ Doubles(c) \in Nat /\ Doubles(c) <= Len(s)
    BY <2>1, <2>2, <2>3
  <2> QED
    BY <2>5, <2>6, <2>7
<1>4. CASE c = "x86"
  <2>1. /\ Len(s) = 16
        /\ \A i, j \in 1 .. 16 : s[i] = s[j] => i = j
        /\ \A i \in 1 .. 16 : s[i] \notin {"float", "debug", "exception"}
    BY <1>1, <1>4 DEF Struct
  <2>2. Doubles(c) = 0
    BY <1>4 DEF Doubles
  <2>3. Len(m) = 3 /\ \A j \in 1 .. 3 : m[j] \in {"float", "debug", "exception"}
    BY <1>2, <1>4
  <2>4. 1 .. Len(s) = 1 .. 16 /\ 1 .. Len(m) = 1 .. 3
    BY <2>1, <2>3
  <2>5. \A i, j \in 1 .. Len(s) : s[i] = s[j] => i = j
    BY <2>1, <2>4
  <2>6. \A i \in 1 .. Len(s), j \in 1 .. Len(m) : s[i] # m[j]
    BY <2>1, <2>3, <2>4
  <2>7. Len(s) \in Nat /\ Len(m) \in Nat /\ Doubles(c) \in Nat /\ Doubles(c) <= Len(s)
    BY <2>1, <2>2, <2>3
  <2> QED
    BY <2>5, <2>6, <2>7
<1>5. CASE c = "ARMv7"
  <2>1. /\ Len(s) = 17
        /\ \A i, j \in 1 .. 17 : s[i] = s[j] => i = j
        /\ \A i \in 1 .. 17 : s[i] \notin {"vfp", "neon", "exception", "debug"}
    BY <1>1, <1>5 DEF Struct, R
  <2>2. Doubles(c) = 0
    BY <1>5 DEF Doubles
  <2>3. Len(m) = 4 /\ \A j \in 1 .. 4 : m[j] \in {"vfp", "neon", "exception", "debug"}
    BY <1>2, <1>5
  <2>4. 1 .. Len(s) = 1 .. 17 /\ 1 .. Len(m) = 1 .. 4
    BY <2>1, <2>3
  <2>5. \A i, j \in 1 .. Len(s) : s[i] = s[j] => i = j
    BY <2>1, <2>4
  <2>6. \A i \in 1 .. Len(s), j \in 1 .. Len(m) : s[i] # m[j]
    BY <2>1, <2>3, <2>4
  <2>7. Len(s) \in Nat /\ Len(m) \in Nat /\ Doubles(c) \in Nat /\ Doubles(c) <= Len(s)
    BY <2>1, <2>2, <2>3
  <2> QED
    BY <2>5, <2>6, <2>7
<1>6. CASE c = "AArch64"
  <2>1. /\ Len(s) = 35
        /\ \A i, j \in 1 .. 35 : s[i] = s[j] => i = j
        /\ \A i \in 1 .. 35 : s[i] \notin {"neon", "exception", "debug"}
    <3>1. Len(s) = 35
      BY <1>1, <1>6 DEF Struct, X
    <3>2. \A i, j \in 1 .. 35 : s[i] = s[j] => i = j
      BY <1>1, <1>6 DEF Struct, X
    <3>3. \A i \in 1 .. 35 : s[i] \notin {"neon", "exception", "debug"}
      BY <1>1, <1>6 DEF Struct, X
    <3> QED
      BY <3>1, <3>2, <3>3
  <2>2. Doubles(c) = 33
    <3>1. Len(s) = 35
      BY <2>1
    <3> QED
      BY <1>1, <1>6, <3>1 DEF Doubles
  <2>3. Len(m) = 3 /\ \A j \in 1 .. 3 : m[j] \in {"neon", "exception", "debug"}
    BY <1>2, <1>6
  <2>4. 1 .. Len(s) = 1 .. 35 /\ 1 .. Len(m) = 1 .. 3
    BY <2>1, <2>3
  <2>5. \A i, j \in 1 .. Len(s) : s[i] = s[j] => i = j
    BY <2>1, <2>4
  <2>6. \A i \in 1 .. Len(s), j \in 1 .. Len(m) : s[i] # m[j]
    BY <2>1, <2>3, <2>4
  <2>7. Len(s) \in Nat /\ Len(m) \in Nat /\ Doubles(c) \in Nat /\ Doubles(c) <= Len(s)
    BY <2>1, <2>2, <2>3
  <2> QED
    BY <2>5, <2>6, <2>7
<1> QED
  BY <1>3, <1>4, <1>5, <1>6 DEF Class

(* The words of the register at a place of the structure. *)
Where(c, i) == IF i <= Doubles(c) THEN {2 * i - 1, 2 * i} ELSE {i + Doubles(c)}

(* It has these words and no others. *)
LEMMA RegisterWords ==
  ASSUME class \in Class, NEW i \in 1 .. Len(Struct(class)), NEW n,
         Register(n) = Struct(class)[i]
  PROVE  WordsOf(n) = Where(class, i)
<1>1. PICK s, d, m : s = Struct(class) /\ d = Doubles(class) /\ m = Members(class)
  OBVIOUS
<1>2. PICK l, k : l = Len(s) /\ k = Len(m)
  OBVIOUS
<1>3. /\ l \in Nat /\ d \in Nat /\ d <= l /\ k \in Nat
      /\ \A x, y \in 1 .. l : s[x] = s[y] => x = y
      /\ \A x \in 1 .. l, y \in 1 .. k : s[x] # m[y]
  BY <1>1, <1>2, StructFacts
<1>4. PICK f : f = Layout[class]
  OBVIOUS
<1>5. f = [w \in 1 .. l + d + 2 * k |->
             IF w <= 2 * d THEN s[(w + 1) \div 2]
             ELSE IF w <= l + d THEN s[w - d]
             ELSE m[(w - (l + d) + 1) \div 2]]
  BY <1>1, <1>2, <1>4 DEF Layout, Size
<1>6. Words = 1 .. l + d + 2 * k /\ i \in 1 .. l
  BY <1>1, <1>2, <1>4, <1>5 DEF Words
<1>7. ASSUME NEW w \in 1 .. l + d + 2 * k
      PROVE  f[w] = s[i] <=> IF i <= d THEN w \in {2 * i - 1, 2 * i} ELSE w = i + d
  <2>1. CASE w <= 2 * d
    <3>1. PICK j : j = (w + 1) \div 2
      OBVIOUS
    <3>2. w \in Nat \ {0} /\ j \in Nat /\ (w = 2 * j - 1 \/ w = 2 * j)
      BY <1>3, <1>7, <3>1
    <3>3. j \in 1 .. l /\ j <= d
      BY <1>3, <2>1, <3>2
    <3>4. i \in Nat /\ (j = i <=> w = 2 * i - 1 \/ w = 2 * i)
      BY <1>6, <3>2
    <3>5. f[w] = s[j]
      BY <1>5, <1>7, <2>1, <3>1
    <3>6. f[w] = s[i] <=> j = i
      BY <1>3, <1>6, <3>3, <3>5
    <3>7. ~ (i <= d) => w # i + d /\ j # i
      BY <1>3, <2>1, <3>2, <3>3, <3>4
    <3> QED
      BY <3>4, <3>6, <3>7
  <2>2. CASE w > 2 * d /\ w <= l + d
    <3>1. w - d \in 1 .. l /\ w - d > d
      BY <1>3, <1>7, <2>2
    <3>2. f[w] = s[w - d]
      BY <1>3, <1>5, <1>7, <2>2
    <3>3. f[w] = s[i] <=> w - d = i
      BY <1>3, <1>6, <3>1, <3>2
    <3>4. /\ i <= d => w # 2 * i - 1 /\ w # 2 * i /\ w - d # i
          /\ i > d => (w - d = i <=> w = i + d)
      BY <1>3, <1>6, <1>7, <2>2
    <3> QED
      BY <1>3, <1>6, <3>3, <3>4
  <2>3. CASE w > l + d
    <3>1. PICK j : j = (w - (l + d) + 1) \div 2
      OBVIOUS
    <3>2. j \in 1 .. k
      BY <1>3, <1>7, <2>3, <3>1
    <3>3. f[w] = m[j]
      BY <1>3, <1>5, <1>7, <2>3, <3>1
    <3>4. f[w] # s[i]
      BY <1>3, <1>6, <3>2, <3>3
    <3>5. w # 2 * i \/ i > d
      BY <1>3, <1>6, <1>7, <2>3
    <3>6. w # 2 * i - 1 \/ i > d
      BY <1>3, <1>6, <1>7, <2>3
    <3>7. w # i + d
      BY <1>3, <1>6, <1>7, <2>3
    <3> QED
      BY <1>3, <1>6, <3>4, <3>5, <3>6, <3>7
  <2> QED
    BY <1>3, <1>7, <2>1, <2>2, <2>3
<1>8. /\ i <= d => 2 * i - 1 \in 1 .. l + d + 2 * k /\ 2 * i \in 1 .. l + d + 2 * k
      /\ i > d => i + d \in 1 .. l + d + 2 * k
  BY <1>3, <1>6
<1>9. WordsOf(n) = {w \in 1 .. l + d + 2 * k : f[w] = s[i]}
  BY <1>1, <1>4, <1>6 DEF WordsOf
<1>10. CASE i <= d
  BY <1>1, <1>7, <1>8, <1>9, <1>10 DEF Where
<1>11. CASE i > d
  <2>1. ~ (i <= d)
    BY <1>3, <1>6, <1>11
  <2> QED
    BY <1>1, <1>7, <1>8, <1>9, <1>11, <2>1 DEF Where
<1> QED
  BY <1>3, <1>6, <1>10, <1>11

(* What a concatenation holds. *)
LEMMA ConcatHolds ==
  ASSUME NEW S, NEW f \in Seq(S), NEW e \in Seq(S)
  PROVE  ToSet(f \o e) = ToSet(f) \cup ToSet(e)
<1>1. PICK l, k : l = Len(f) /\ k = Len(e)
  OBVIOUS
<1>2. l \in Nat /\ k \in Nat /\ DOMAIN f = 1 .. l /\ DOMAIN e = 1 .. k
  BY <1>1, LenProperties
<1>3. PICK g : g = f \o e
  OBVIOUS
<1>4. /\ Len(g) = l + k /\ g \in Seq(S)
      /\ \A i \in 1 .. l + k : g[i] = IF i <= l THEN f[i] ELSE e[i - l]
  BY <1>1, <1>3, ConcatProperties
<1>5. DOMAIN g = 1 .. l + k
  BY <1>4, LenProperties
<1>6. ASSUME NEW i \in 1 .. l + k PROVE g[i] \in ToSet(f) \cup ToSet(e)
  <2>1. CASE i <= l
    <3>1. i \in 1 .. l /\ g[i] = f[i]
      BY <1>2, <1>4, <1>6, <2>1
    <3> QED
      BY <1>2, <3>1 DEF ToSet
  <2>2. CASE ~ (i <= l)
    <3>1. i - l \in 1 .. k /\ g[i] = e[i - l]
      BY <1>2, <1>4, <1>6, <2>2
    <3> QED
      BY <1>2, <3>1 DEF ToSet
  <2> QED
    BY <2>1, <2>2
<1>7. ASSUME NEW i \in 1 .. l PROVE f[i] \in ToSet(g)
  <2>1. i \in 1 .. l + k /\ i <= l
    BY <1>2, <1>7
  <2>2. g[i] = f[i]
    BY <1>4, <2>1
  <2> QED
    BY <1>5, <2>1, <2>2 DEF ToSet
<1>8. ASSUME NEW i \in 1 .. k PROVE e[i] \in ToSet(g)
  <2>1. i + l \in 1 .. l + k /\ ~ (i + l <= l) /\ (i + l) - l = i
    BY <1>2, <1>8
  <2>2. g[i + l] = e[i]
    BY <1>4, <2>1
  <2> QED
    BY <1>5, <2>1, <2>2 DEF ToSet
<1>9. ToSet(g) \subseteq ToSet(f) \cup ToSet(e)
  BY <1>5, <1>6 DEF ToSet
<1>10. ToSet(f) \subseteq ToSet(g)
  BY <1>2, <1>7 DEF ToSet
<1>11. ToSet(e) \subseteq ToSet(g)
  BY <1>2, <1>8 DEF ToSet
<1> QED
  BY <1>3, <1>9, <1>10, <1>11

(* A sequence is one of what it holds. *)
LEMMA HoldsItsOwn ==
  ASSUME NEW S, NEW q \in Seq(S)
  PROVE  q \in Seq(ToSet(q))
<1>1. PICK l : l = Len(q)
  OBVIOUS
<1>2. l \in Nat /\ DOMAIN q = 1 .. l /\ q = [i \in 1 .. l |-> q[i]]
  BY <1>1, LenProperties
<1>3. \A i \in 1 .. l : q[i] \in ToSet(q)
  BY <1>2 DEF ToSet
<1>4. q \in [1 .. l -> ToSet(q)]
  BY <1>2, <1>3
<1> QED
  BY <1>2, <1>4, SeqDef

(* What the views are. *)
LEMMA ViewShape ==
  ASSUME class \in Class
  PROVE  /\ Views(class) \in Seq(ToSet(Views(class)))
         /\ \A r \in ToSet(Views(class)) :
              \/ \E i \in 1 .. Len(ViewNames(class)) :
                   r.name = ViewNames(class)[i] /\ r.at = At(class, i)
              \/ /\ class = "AArch64"
                 /\ r \in {[name |-> "CPSR", at |-> 67], [name |-> "PAD", at |-> 68]}
<1>1. PICK v, l : v = ViewNames(class) /\ l = Len(v)
  OBVIOUS
<1>2. l \in Nat /\ DOMAIN v = 1 .. l
  <2>1. CASE class = "x64"
    BY <1>1, <2>1 DEF ViewNames, x64Views
  <2>2. CASE class = "x86"
    BY <1>1, <2>2 DEF ViewNames, x86Views
  <2>3. CASE class = "ARMv7"
    BY <1>1, <2>3 DEF ViewNames, ARMv7Views, R
  <2>4. CASE class = "AArch64"
    BY <1>1, <2>4 DEF ViewNames, AArch64Views, X
  <2> QED
    BY <2>1, <2>2, <2>3, <2>4 DEF Class
<1>3. PICK f : f = [i \in 1 .. l |-> [name |-> v[i], at |-> At(class, i)]]
  OBVIOUS
<1>4. f \in Seq({f[i] : i \in 1 .. l}) /\ Len(f) = l
  BY <1>2, <1>3
<1>5. ASSUME NEW x \in ToSet(f) PROVE \E i \in 1 .. l : x.name = v[i] /\ x.at = At(class, i)
  BY <1>3, <1>5 DEF ToSet
<1>6. CASE class = "AArch64"
  <2>1. PICK y, z : y = [name |-> "CPSR", at |-> 67] /\ z = [name |-> "PAD", at |-> 68]
    OBVIOUS
  <2>2. Views(class) = f \o <<y, z>>
    BY <1>1, <1>2, <1>3, <1>6, <2>1 DEF Views
  <2>3. PICK S : S = {f[i] : i \in 1 .. l} \cup {y, z}
    OBVIOUS
  <2>4. f \in Seq(S) /\ <<y, z>> \in Seq(S)
    BY <1>2, <1>3, <2>3
  <2>5. ToSet(f \o <<y, z>>) = ToSet(f) \cup ToSet(<<y, z>>)
    BY <2>4, ConcatHolds
  <2>6. ToSet(<<y, z>>) = {y, z}
    BY DEF ToSet
  <2>7. \A r \in ToSet(Views(class)) : r \in ToSet(f) \/ r \in {y, z}
    BY <2>2, <2>5, <2>6
  <2>8. f \o <<y, z>> \in Seq(S)
    BY <2>4, ConcatProperties
  <2>9. Views(class) \in Seq(ToSet(Views(class)))
    BY <2>2, <2>8, HoldsItsOwn
  <2> QED
    BY <1>1, <1>5, <1>6, <2>1, <2>7, <2>9
<1>7. CASE class # "AArch64"
  <2>1. Views(class) = f \o << >>
    BY <1>1, <1>2, <1>3, <1>7 DEF Views
  <2>2. f \o << >> = f
    BY <1>4, ConcatEmptySeq
  <2>3. Views(class) \in Seq(ToSet(Views(class)))
    BY <1>4, <2>1, <2>2, HoldsItsOwn
  <2> QED
    BY <1>1, <1>5, <2>1, <2>2, <2>3
<1> QED
  BY <1>6, <1>7

(* The name of a view is that of the register it refers to. *)
LEMMA ViewIsRegister ==
  ASSUME class \in Class, NEW r \in ToSet(Views(class)), ~ Misplaced(r.name)
  PROVE  r.at .. r.at + Width(class, r.name) - 1 = WordsOf(r.name)
<1>1. PICK n, p : n = r.name /\ p = r.at
  OBVIOUS
<1>2. PICK s : s = Struct(class)
  OBVIOUS
<1>3. CASE class = "x64"
  <2>1. Len(s) = 21 /\ s = ViewNames(class) /\ Doubles(class) = 21
    BY <1>2, <1>3 DEF Struct, ViewNames, x64Views, Doubles
  <2>2. PICK i \in 1 .. 21 : n = s[i] /\ p = At(class, i)
    BY <1>1, <1>3, <2>1, ViewShape
  <2>3. n \notin {"CPSR", "PAD", "X29", "X30"}
    BY <1>2, <1>3, <2>2 DEF Struct
  <2>4. WordsOf(n) = Where(class, i)
    BY <1>2, <2>1, <2>2, <2>3, RegisterWords DEF Register
  <2>5. Where(class, i) = {2 * i - 1, 2 * i} /\ Width(class, n) = 2 /\ p = 2 * i - 1
    BY <1>3, <2>1, <2>2, <2>3 DEF Where, Width, At
  <2> QED
    BY <1>1, <2>4, <2>5
<1>4. CASE class = "x86"
  <2>1. Len(s) = 16 /\ s = ViewNames(class) /\ Doubles(class) = 0
    BY <1>2, <1>4 DEF Struct, ViewNames, x86Views, Doubles
  <2>2. PICK i \in 1 .. 16 : n = s[i] /\ p = At(class, i)
    BY <1>1, <1>4, <2>1, ViewShape
  <2>3. n \notin {"X29", "X30"}
    BY <1>2, <1>4, <2>2 DEF Struct
  <2>4. WordsOf(n) = Where(class, i)
    BY <1>2, <2>1, <2>2, <2>3, RegisterWords DEF Register
  <2>5. Where(class, i) = {i} /\ Width(class, n) = 1 /\ p = i
    BY <1>4, <2>1, <2>2 DEF Where, Width, At
  <2> QED
    BY <1>1, <2>4, <2>5
<1>5. CASE class = "ARMv7"
  <2>1. Len(s) = 17 /\ s = ViewNames(class) /\ Doubles(class) = 0
    BY <1>2, <1>5 DEF Struct, ViewNames, ARMv7Views, R, Doubles
  <2>2. PICK i \in 1 .. 17 : n = s[i] /\ p = At(class, i)
    BY <1>1, <1>5, <2>1, ViewShape
  <2>3. n \notin {"X29", "X30"}
    BY <1>2, <1>5, <2>2 DEF Struct, R
  <2>4. WordsOf(n) = Where(class, i)
    BY <1>2, <2>1, <2>2, <2>3, RegisterWords DEF Register
  <2>5. Where(class, i) = {i} /\ Width(class, n) = 1 /\ p = i
    BY <1>5, <2>1, <2>2 DEF Where, Width, At
  <2> QED
    BY <1>1, <2>4, <2>5
<1>6. CASE class = "AArch64"
  <2>1. Len(s) = 35
    BY <1>2, <1>6 DEF Struct, X
  <2>2. Doubles(class) = 33
    BY <1>2, <1>6, <2>1 DEF Doubles
  <2>3. s[30] = "FP" /\ s[31] = "LR" /\ s[34] = "CPSR" /\ s[35] = "PAD"
    BY <1>2, <1>6 DEF Struct, X
  <2>4. n \notin {"FP", "LR", "SP", "PC"}
    BY <1>1, <1>6 DEF Misplaced
  <2>5. PICK v : v = ViewNames(class)
    OBVIOUS
  <2>6. /\ Len(v) = 35
        /\ \A i \in 1 .. 29 : v[i] = s[i] /\ v[i] \notin {"X29", "X30", "CPSR", "PAD"}
        /\ v[30] = "X29" /\ v[31] = "X30"
        /\ \A i \in 32 .. 35 : v[i] \in {"FP", "LR", "SP", "PC"}
    BY <1>2, <1>6, <2>5 DEF Struct, X, ViewNames, AArch64Views
  <2>7. \/ \E i \in 1 .. 35 : n = v[i] /\ p = At(class, i)
        \/ n = "CPSR" /\ p = 67
        \/ n = "PAD" /\ p = 68
    <3>1. \/ \E i \in 1 .. Len(v) : r.name = v[i] /\ r.at = At(class, i)
          \/ r \in {[name |-> "CPSR", at |-> 67], [name |-> "PAD", at |-> 68]}
      BY <2>5, ViewShape
    <3> QED
      BY <1>1, <2>6, <3>1
  <2>8. ASSUME NEW i \in 1 .. 35, n = v[i], p = At(class, i)
        PROVE  p .. p + Width(class, n) - 1 = WordsOf(n)
    <3>1. i \in 1 .. 31
      <4>1. i \notin 32 .. 35
        BY <2>4, <2>6, <2>8
      <4> QED
        BY <4>1
    <3>2. Register(n) = s[i]
      BY <2>3, <2>6, <2>8, <3>1 DEF Register
    <3>3. WordsOf(n) = Where(class, i)
      BY <1>2, <2>1, <2>8, <3>2, RegisterWords
    <3>4. n \notin {"CPSR", "PAD"}
      BY <2>6, <2>8, <3>1
    <3>5. Where(class, i) = {2 * i - 1, 2 * i} /\ Width(class, n) = 2 /\ p = 2 * i - 1
      BY <1>6, <2>2, <2>8, <3>1, <3>4 DEF Where, Width, At
    <3> QED
      BY <3>3, <3>5
  <2>9. ASSUME NEW i \in {34, 35}, n = s[i], n \in {"CPSR", "PAD"}, p = i + 33
        PROVE  p .. p + Width(class, n) - 1 = WordsOf(n)
    <3>1. WordsOf(n) = Where(class, i)
      BY <1>2, <2>1, <2>9, RegisterWords DEF Register
    <3>2. Where(class, i) = {i + 33} /\ Width(class, n) = 1
      BY <1>6, <2>2, <2>9 DEF Where, Width
    <3> QED
      BY <2>9, <3>1, <3>2
  <2>10. CASE n = "CPSR" /\ p = 67
    <3>1. p .. p + Width(class, n) - 1 = WordsOf(n)
      BY <2>3, <2>9, <2>10
    <3> QED
      BY <1>1, <3>1
  <2>11. CASE n = "PAD" /\ p = 68
    <3>1. p .. p + Width(class, n) - 1 = WordsOf(n)
      BY <2>3, <2>9, <2>11
    <3> QED
      BY <1>1, <3>1
  <2> QED
    BY <1>1, <2>7, <2>8, <2>10, <2>11
<1> QED
  BY <1>3, <1>4, <1>5, <1>6 DEF Class

(* operator[] finds a view of the name it is given. *)
LEMMA LookupFinds ==
  ASSUME registers \in Seq(ToSet(Views(class))), NEW n, Lookup(n) # 0
  PROVE  /\ registers[Lookup(n)] \in ToSet(Views(class))
         /\ registers[Lookup(n)].name = n
<1>1. PICK I : I = {i \in 1 .. Len(registers) : registers[i].name = n}
  OBVIOUS
<1>2. Lookup(n) = IF I # {} THEN Min(I) ELSE 0
  BY <1>1 DEF Lookup, SelectInSeq
<1>3. I # {} /\ I \subseteq Nat
  BY <1>1, <1>2
<1>4. Min(I) \in I
  <2>1. PICK x \in I : \A y \in I : ~ (<<y, x>> \in OpToRel(<, Nat))
    BY <1>3, NatLessThanWellFounded, WFMin
  <2>2. ASSUME NEW y \in I PROVE x <= y
    <3>1. x \in Nat /\ y \in Nat
      BY <1>3
    <3>2. y < x => <<y, x>> \in OpToRel(<, Nat)
      BY <3>1 DEF OpToRel
    <3>3. ~ (y < x)
      BY <2>1, <3>2
    <3> QED
      BY <3>1, <3>3
  <2> QED
    BY <2>2 DEF Min
<1> QED
  BY <1>1, <1>2, <1>3, <1>4, ElementOfSeq

-------------------------------------------------------------------------------
(* Assignments. *)

(* While every assignment has been tidy, the words that are new are those  *)
(* of the registers that were asked for; and the views are those of Load.  *)
NamedInv ==
  /\ class \in Class /\ tidy \in BOOLEAN
  /\ registers \in Seq(ToSet(Views(class)))
  /\ AssignedIsNamed

(* An assignment writes the words of the register that it names. *)
LEMMA AssignWrites ==
  ASSUME NamedInv, NEW n, NEW width, Assign(n, width), tidy'
  PROVE  /\ tidy
         /\ \A w \in Words : object'[w] = IF w \in WordsOf(n) THEN "new" ELSE object[w]
<1>1. PICK r : r = registers[Lookup(n)]
  OBVIOUS
<1>2. /\ Lookup(n) # 0
      /\ tidy' = (tidy /\ width = Width(class, n) /\ ~ Misplaced(n))
      /\ object' = [w \in Words |-> IF w \in r.at .. r.at + width - 1 THEN "new" ELSE object[w]]
  BY <1>1 DEF Assign
<1>3. tidy /\ width = Width(class, n) /\ ~ Misplaced(n)
  BY <1>2
<1>4. r \in ToSet(Views(class)) /\ r.name = n
  BY <1>1, <1>2, LookupFinds DEF NamedInv
<1>5. r.at .. r.at + width - 1 = WordsOf(n)
  BY <1>3, <1>4, ViewIsRegister DEF NamedInv
<1> QED
  BY <1>2, <1>3, <1>5

(* No step breaks it. *)
LEMMA NextNamed == NamedInv /\ [Next]_vars => NamedInv'
<1> SUFFICES ASSUME NamedInv, [Next]_vars PROVE NamedInv'
  OBVIOUS
<1> USE DEF NamedInv
<1>1. CASE Run
  <2>1. /\ UNCHANGED <<class, registers, asked, askedEver, tidy>>
        /\ kernel' = [w \in Words |-> "own"]
        /\ object' = [w \in Words |-> IF object[w] = "own" THEN "old" ELSE object[w]]
    BY <1>1 DEF Run
  <2>2. Words' = Words
    BY <2>1 DEF Words
  <2>3. \A w \in Words : (object'[w] = "new" <=> object[w] = "new") /\ kernel'[w] # "new"
    BY <2>1
  <2> QED
    BY <2>1, <2>2, <2>3 DEF AssignedIsNamed
<1>2. CASE Exit
  <2>1. UNCHANGED <<class, object, kernel, registers, asked, askedEver, tidy>>
    BY <1>2 DEF Exit, debugger, history
  <2> QED
    BY <2>1 DEF AssignedIsNamed, Words
<1>3. ASSUME NEW failed, Load(failed) PROVE NamedInv'
  <2>1. /\ UNCHANGED <<class, kernel, askedEver, tidy>>
        /\ registers' = registers \o Views(class)
        /\ asked' = {w \in asked : Flavor(w) \in failed}
        /\ GetStates(failed)
    BY <1>3 DEF Load, Fetch
  <2>2. Words' = Words
    BY <2>1 DEF Words
  <2>3. registers' \in Seq(ToSet(Views(class)))
    BY <2>1, ViewShape, ConcatProperties
  <2>4. /\ \A w \in Words : object'[w] \in {"own", object[w]}
        /\ \A w \in Words : Flavor(w) \in failed => object'[w] = object[w]
    BY <2>1 DEF GetStates
  <2>5. AssignedIsNamed'
    <3> SUFFICES ASSUME tidy'
                 PROVE  /\ asked' \subseteq {w \in Words : object'[w] = "new"}
                        /\ \A w \in Words :
                             object'[w] = "new" \/ kernel'[w] = "new" => w \in askedEver'
      BY <2>2 DEF AssignedIsNamed
    <3> QED
      BY <2>1, <2>4 DEF AssignedIsNamed
  <2> QED
    BY <2>1, <2>3, <2>5
<1>4. ASSUME NEW failed, Save(failed) PROVE NamedInv'
  <2>1. /\ UNCHANGED <<class, object, registers, asked, askedEver, tidy>>
        /\ \A w \in Words : kernel'[w] \in {object[w], kernel[w]}
    BY <1>4 DEF Save, debugger
  <2>2. Words' = Words
    BY <2>1 DEF Words
  <2> QED
    BY <2>1, <2>2 DEF AssignedIsNamed
<1>5. ASSUME NEW n, NEW width, Assign(n, width) PROVE NamedInv'
  <2>1. /\ UNCHANGED <<class, kernel, registers>>
        /\ asked' = asked \cup WordsOf(n) /\ askedEver' = askedEver \cup WordsOf(n)
        /\ tidy' \in BOOLEAN
    BY <1>5 DEF Assign
  <2>2. Words' = Words /\ WordsOf(n) \subseteq Words
    BY <2>1 DEF Words, WordsOf
  <2>3. AssignedIsNamed'
    <3> SUFFICES ASSUME tidy'
                 PROVE  /\ asked' \subseteq {w \in Words : object'[w] = "new"}
                        /\ \A w \in Words :
                             object'[w] = "new" \/ kernel'[w] = "new" => w \in askedEver'
      BY <2>2 DEF AssignedIsNamed
    <3>1. /\ tidy
          /\ \A w \in Words : object'[w] = IF w \in WordsOf(n) THEN "new" ELSE object[w]
      BY <1>5, AssignWrites
    <3> QED
      BY <2>1, <2>2, <3>1 DEF AssignedIsNamed
  <2> QED
    BY <2>1, <2>3
<1>6. CASE UNCHANGED vars
  <2>1. UNCHANGED <<class, object, kernel, registers, asked, askedEver, tidy>>
    BY <1>6 DEF vars, debugger, history
  <2> QED
    BY <2>1 DEF AssignedIsNamed, Words
<1> QED
  BY <1>1, <1>2, <1>3, <1>4, <1>5, <1>6 DEF Next

(***************************************************************************)
(* The view of a name is the register of that name: assignments of the     *)
(* register's width change that register and nothing else, in the object   *)
(* and, by Save, in the thread, whatever class it is of, and however often *)
(* it is loaded, saved and assigned to.                                    *)
(***************************************************************************)
THEOREM ViewsAreNamed == Spec => []AssignedIsNamed
<1>1. Init => NamedInv
  <2> SUFFICES ASSUME Init PROVE NamedInv
    OBVIOUS
  <2>1. /\ class \in Class /\ tidy = TRUE /\ registers = << >> /\ asked = {}
        /\ \A w \in Words : object[w] # "new" /\ kernel[w] # "new"
    BY DEF Init
  <2> QED
    BY <2>1 DEF NamedInv, AssignedIsNamed
<1>2. NamedInv => AssignedIsNamed
  BY DEF NamedInv
<1> QED
  BY <1>1, <1>2, NextNamed, PTL DEF Spec
===============================================================================
