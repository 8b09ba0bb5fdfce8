-------------------------- MODULE ProcessTableProofs --------------------------
(***************************************************************************)
(* What GetProcess and IsAlive find, for any processes, pids and names.    *)
(* The argument: a process never changes its pid and never comes back, and *)
(* a list that was neither refused nor cut short has the pids of all       *)
(* processes that stay; the process behind a pid is either the one it was  *)
(* when the call began or one that has been started since.                 *)
(***************************************************************************)
EXTENDS ProcessTable, FiniteSetTheorems, TLAPS

Op == {"none", "by name", "by pid", "is alive", "kill"}
Arg == Pid \cup Name \cup {Nothing}

Outside  == [pc : {"out", "count"}, op : Op, what : Arg]
Listing  == [pc : {"list", "count again", "list again", "proc_name"}, op : Op, what : Arg,
             estimate : Nat]
Scanning == [pc : {"scan"}, op : Op, what : Arg,
             listed : SUBSET (Pid \cup {NoPid}), rest : SUBSET (Pid \cup {NoPid})]
Attaching == [pc : {"task_for_pid"}, op : Op, what : Arg, pid : Pid, name : Name \cup {Nothing}]

(* A process has one pid, and does not come back. *)
TableOK ==
  /\ table \in [Pid -> Proc \cup {Nothing}]
  /\ \A p, q \in Pid : table[p] = table[q] /\ table[p] # Nothing => p = q
  /\ Self \in Alive
  /\ unborn \subseteq Proc /\ unborn \cap Alive = {}
  /\ present \subseteq Proc /\ unborn \cap present = {}
  /\ steady \subseteq present \cap Alive

(* A task that was granted is that of the pid, or of a process that is gone. *)
FoundOK ==
  /\ result = "found" => found.pid \in Pid
  /\ found # Nothing =>
    /\ found.pid \in Pid
    /\ found.granted =>
         /\ found.task \in Proc \ unborn
         /\ \A p \in Pid : table[p] = found.task => p = found.pid

(* A process that is alive throughout, goes by the name, and was not denied it. *)
Wanted(p) == table[p] \in steady /\ NameOf[table[p]] = call.what /\ p \notin unnamed

(* Where the debugger is in its call, and what it knows there. *)
CallOK ==
  /\ call \in Outside \cup Listing \cup Scanning \cup Attaching
  /\ call.op = "by pid" => call.what \in Pid
  /\ call.op = "by name" => call.what \in Name
  /\ call.op = "is alive" => found # Nothing /\ call.what = found.pid
  /\ call.pc \in {"count again", "list again", "proc_name"} => call.op = "by pid"
  /\ call.pc \in {"count", "list"} => call.op \in {"by name", "by pid", "is alive"}
  /\ call.pc = "scan" =>
       /\ call.op = "by name"
       /\ ~missed => \A p \in Pid : Wanted(p) => p \in call.listed
  /\ call.pc = "task_for_pid" =>
       /\ call.op \in {"by pid", "by name"}
       /\ call.op = "by pid" => call.pid = call.what
       /\ call.op = "by name" => call.name = call.what
       /\ table[call.pid] \in present /\ call.pid \notin unnamed =>
            call.name = NameOf[table[call.pid]]

FoundIsCoherent ==
  call.pc = "out" /\ result = "found" /\ found.granted
    /\ found.pid \notin unnamed /\ found.task \in present =>
    found.name = NameOf[found.task]

IInv == TableOK /\ FoundOK /\ CallOK /\ FoundIsCoherent /\ AliveIsFound

-------------------------------------------------------------------------------
(* A process that is alive has a pid of its own. *)
LEMMA AliveFacts ==
  ASSUME table \in [Pid -> Proc \cup {Nothing}]
  PROVE  /\ \A p \in Pid : table[p] # Nothing => table[p] \in Alive
         /\ \A q \in Alive : q \in Proc /\ \E p \in Pid : table[p] = q
BY DEF Alive

(* There are finitely many pids. *)
LEMMA FinitePids == IsFiniteSet(AllPids) /\ Cardinality(AllPids) \in Nat
<1>1. IsFiniteSet({p \in Pid : table[p] # Nothing})
  BY PidAssumption, FS_Subset
<1>2. IsFiniteSet(AllPids)
  BY <1>1, FS_AddElement DEF AllPids
<1>. QED  BY <1>2, FS_CardinalityType

(* A list that was neither refused nor cut short has all pids. *)
LEMMA AllListed ==
  ASSUME call.estimate \in Nat, NEW b \in Buffers
  PROVE  /\ b.listed \subseteq AllPids /\ b.rest \subseteq Pid \cup {NoPid}
         /\ ~(b.listed = {} \/ Cardinality(AllPids) > 4 * call.estimate) => b.listed = AllPids
<1>1. /\ b.listed \subseteq AllPids /\ b.rest \subseteq Pid \cup {NoPid}
      /\ Cardinality(b.listed) \in {0, Min({Cardinality(AllPids), 4 * call.estimate})}
  BY DEF Buffers, Room
<1>2. ASSUME b.listed # {}, ~(Cardinality(AllPids) > 4 * call.estimate)
      PROVE  b.listed = AllPids
  <2>1. Min({Cardinality(AllPids), 4 * call.estimate}) = Cardinality(AllPids)
    BY <1>2, FinitePids DEF Min
  <2>2. IsFiniteSet(b.listed)
    BY <1>1, FinitePids, FS_Subset
  <2>3. Cardinality(b.listed) # 0
    BY <1>2, <2>2, FS_EmptySet
  <2>4. Cardinality(b.listed) = Cardinality(AllPids)
    BY <1>1, <2>1, <2>3
  <2>. QED  BY <1>1, <2>4, FinitePids, FS_Subset
<1>. QED  BY <1>1, <1>2

(* A pid is listed if its process has been there throughout. *)
LEMMA SteadyListed ==
  ASSUME TableOK, NEW p \in Pid, table[p] \in steady
  PROVE  p \in AllPids /\ table[p] \in Proc
BY NothingAssumption DEF TableOK, AllPids

(* The table a client finds satisfies the invariant. *)
LEMMA InitIInv == Init => IInv
<1>. SUFFICES ASSUME Init PROVE IInv
  OBVIOUS
<1>1. TableOK
  BY DEF Init, TableOK
<1>2. FoundOK
  BY DEF Init, FoundOK
<1>3. CallOK
  BY DEF Init, CallOK, Outside, Op, Arg, Out
<1>4. FoundIsCoherent /\ AliveIsFound
  BY DEF Init, FoundIsCoherent, AliveIsFound, Returned
<1>. QED  BY <1>1, <1>2, <1>3, <1>4 DEF IInv

-------------------------------------------------------------------------------
(* Other processes start and exit, or are killed: no process gets a pid    *)
(* that was there before.                                                  *)
Others ==
  /\ present' = present /\ steady' \subseteq steady
  /\ \A p \in Pid : table'[p] = table[p] \/ table'[p] \notin present
  /\ TableOK'

(* A process that starts takes a free pid. *)
LEMMA StartStep ==
  ASSUME TableOK, NEW p \in Pid, NEW q \in Proc, Start(p, q)
  PROVE  Others
<1>1. /\ table' \in [Pid -> Proc \cup {Nothing}] /\ table'[p] = q /\ table[p] = Nothing
      /\ \A r \in Pid : r # p => table'[r] = table[r]
  BY DEF Start, TableOK
<1>2. q \in unborn /\ unborn' = unborn \ {q} /\ present' = present /\ steady' = steady
  BY DEF Start, history
<1>3. Alive' = Alive \cup {q}
  BY <1>1, NothingAssumption DEF Alive
<1>4. \A r \in Pid : table[r] # q
  BY <1>2, AliveFacts, NothingAssumption DEF TableOK
<1>5. TableOK'
  BY <1>1, <1>2, <1>3, <1>4 DEF TableOK
<1>. QED  BY <1>1, <1>2, <1>5 DEF Others, TableOK

(* What stays true of the processes found when one exits. *)
LEMMA GoneFacts ==
  ASSUME TableOK, NEW p \in Pid, table[p] # Self,
         table' = [table EXCEPT ![p] = Nothing], steady' = steady \ {table[p]},
         UNCHANGED <<unborn, present>>
  PROVE  Others
<1>1. /\ table' \in [Pid -> Proc \cup {Nothing}] /\ table'[p] = Nothing
      /\ \A r \in Pid : r # p => table'[r] = table[r]
  BY DEF TableOK
<1>2. Alive' = Alive \ {table[p]}
  BY <1>1, NothingAssumption DEF Alive, TableOK
<1>3. Self \in Alive'
  BY <1>2 DEF TableOK
<1>4. TableOK'
  BY <1>1, <1>2, <1>3 DEF TableOK
<1>. QED  BY <1>1, <1>4, NothingAssumption DEF Others, TableOK

(* Processes that start and exit while a call is at work preserve the invariant. *)
LEMMA OthersStep ==
  ASSUME IInv, Others, unborn' \subseteq unborn,
         UNCHANGED <<call, found, result, missed, unnamed>>,
         \A p \in Pid : table'[p] # table[p] => table'[p] \in unborn \cup {Nothing}
  PROVE  IInv'
<1>1. TableOK'
  BY DEF Others
<1>2. FoundOK'
  BY NothingAssumption DEF IInv, FoundOK
<1>3. \A p \in Pid : table'[p] \in present => table'[p] = table[p]
  BY DEF Others
<1>4. \A p \in Pid : table'[p] \in steady' => table'[p] = table[p] /\ table[p] \in steady
  BY <1>3 DEF Others, IInv, TableOK
<1>5. CallOK'
  <2>1. \A p \in Pid : Wanted(p)' => Wanted(p)
    BY <1>4 DEF Wanted
  <2>2. call.pc = "task_for_pid" =>
          (table'[call.pid] \in present' /\ call.pid \notin unnamed' =>
             call.name = NameOf[table'[call.pid]])
    <3>1. call.pc = "task_for_pid" => call.pid \in Pid
      BY DEF IInv, CallOK, Outside, Listing, Scanning, Attaching
    <3>. QED  BY <1>3, <3>1 DEF IInv, CallOK, Others
  <2>. QED  BY <2>1, <2>2 DEF IInv, CallOK
<1>6. FoundIsCoherent'
  BY DEF IInv, FoundIsCoherent, Others
<1>7. AliveIsFound'
  <2>1. Returned("by pid") => call.what \in Pid
    BY DEF IInv, CallOK, Returned
  <2>2. Returned("by name") /\ result = "found" => found.pid \in Pid
    BY DEF IInv, CallOK, FoundOK, Returned
  <2>. QED  BY <1>3, <1>4, <2>1, <2>2 DEF IInv, AliveIsFound, Returned, Others, GoesBy
<1>. QED  BY <1>1, <1>2, <1>5, <1>6, <1>7 DEF IInv

(* So does Kill, of whoever has the pid. *)
LEMMA KillStep ==
  ASSUME IInv, Kill
  PROVE  IInv'
<1>1. found # Nothing /\ found.pid \in Pid
  BY DEF Kill, IInv, FoundOK
<1>2. /\ UNCHANGED <<unborn, found, present>> /\ result' # "found"
      /\ call' = Out("kill", found.pid)
  BY DEF Kill
<1>3. /\ TableOK' /\ \A p \in Pid : table'[p] = table[p] \/ table'[p] = Nothing
  <2>1. CASE table' = [table EXCEPT ![found.pid] = Nothing] /\ steady' = steady \ {table[found.pid]}
    <3>1. Others
      BY <1>1, <1>2, <2>1, GoneFacts DEF Kill, IInv
    <3>. QED  BY <1>1, <2>1, <3>1 DEF Others, IInv, TableOK
  <2>2. CASE UNCHANGED <<table, steady>>
    BY <1>2, <2>2 DEF IInv, TableOK, Alive
  <2>. QED  BY <2>1, <2>2 DEF Kill
<1>4. FoundOK'
  <2>1. found.granted => found.task \in Proc
    BY <1>1 DEF IInv, FoundOK
  <2>2. found.granted => \A p \in Pid : table'[p] = found.task => p = found.pid
    BY <1>1, <1>3, <2>1, NothingAssumption DEF IInv, FoundOK
  <2>. QED  BY <1>1, <1>2, <2>2 DEF IInv, FoundOK
<1>5. CallOK'
  BY <1>1, <1>2 DEF CallOK, Out, Outside, Op, Arg
<1>6. FoundIsCoherent' /\ AliveIsFound'
  BY <1>2 DEF FoundIsCoherent, AliveIsFound, Returned, Out
<1>. QED  BY <1>3, <1>4, <1>5, <1>6 DEF IInv

-------------------------------------------------------------------------------
(* A call of GetProcess begins. *)
LEMMA BeginStep ==
  ASSUME IInv, NEW op \in {"by name", "by pid", "is alive"}, NEW what \in Arg, Begin(op, what),
         op = "by pid" => what \in Pid, op = "by name" => what \in Name,
         op = "is alive" => found # Nothing /\ what = found.pid
  PROVE  IInv'
<1>1. /\ call' = [pc |-> "count", op |-> op, what |-> what]
      /\ present' = Alive /\ steady' = Alive /\ result' = "none"
      /\ UNCHANGED <<table, unborn, found>>
  BY DEF Begin, processes
<1>2. TableOK'
  <2>1. Alive' = Alive
    BY <1>1 DEF Alive
  <2>2. Alive \subseteq Proc
    BY AliveFacts DEF IInv, TableOK
  <2>. QED  BY <1>1, <2>1, <2>2 DEF IInv, TableOK
<1>3. FoundOK'
  BY <1>1 DEF IInv, FoundOK
<1>4. CallOK'
  BY <1>1 DEF CallOK, Outside, Op
<1>5. FoundIsCoherent' /\ AliveIsFound'
  BY <1>1 DEF FoundIsCoherent, AliveIsFound, Returned
<1>. QED  BY <1>2, <1>3, <1>4, <1>5 DEF IInv

(* A step of the debugger that goes on, or returns. *)
LEMMA GotoFacts ==
  ASSUME IInv, NEW next, Goto(next), CallOK', next.pc # "out"
  PROVE  IInv'
<1>1. TableOK' /\ FoundOK'
  BY DEF Goto, processes, IInv, TableOK, FoundOK, Alive
<1>2. FoundIsCoherent' /\ AliveIsFound'
  BY DEF Goto, FoundIsCoherent, AliveIsFound, Returned
<1>. QED  BY <1>1, <1>2 DEF IInv

(* A call that finds nothing may return when no steady process answers to  *)
(* its argument, unless a list fell short.                                 *)
LEMMA ReturnFacts ==
  ASSUME IInv, NEW r, ReturnOnly(r), r # "found",
         ~missed' /\ call.op = "by pid" => table[call.what] \notin steady,
         ~missed' /\ call.op = "by name" =>
           ((\E p \in Pid : Wanted(p) /\ p \notin unnamed') =>
             r = "nullptr" /\ (NoPid \in unnamed' \/ call.what = Kernel)),
         ~missed' /\ call.op = "is alive" /\ r # "true" => table[call.what] \notin steady,
         unnamed \subseteq unnamed'
  PROVE  IInv'
<1>1. /\ call' = [pc |-> "out", op |-> call.op, what |-> call.what]
      /\ result' = r /\ UNCHANGED <<table, unborn, present, steady, found>>
  BY DEF ReturnOnly, Return, Out, processes
<1>2. TableOK' /\ FoundOK'
  <2>1. Alive' = Alive
    BY <1>1 DEF Alive
  <2>. QED  BY <1>1, <2>1 DEF IInv, TableOK, FoundOK
<1>3. call.op \in Op /\ call.what \in Arg
  BY DEF IInv, CallOK, Outside, Listing, Scanning, Attaching
<1>4. CallOK'
  BY <1>1, <1>3 DEF IInv, CallOK, Outside
<1>5. FoundIsCoherent'
  BY <1>1 DEF FoundIsCoherent
<1>6. AliveIsFound'
  <2>. SUFFICES ASSUME NEW p \in Pid, table[p] \in steady, ~missed'
                PROVE  /\ call.op = "by pid" => call.what # p
                       /\ call.op = "by name" /\ NameOf[table[p]] = call.what
                          /\ p \notin unnamed' =>
                            r = "nullptr" /\ (NoPid \in unnamed' \/ call.what = Kernel)
                       /\ call.op = "is alive" /\ found.granted /\ found.task = table[p] =>
                            r = "true"
    BY <1>1 DEF AliveIsFound, Returned
  <2>1. call.op = "is alive" /\ found.granted /\ found.task = table[p] => call.what = p
    BY DEF IInv, CallOK, FoundOK
  <2>. QED  BY <2>1 DEF Wanted
<1>. QED  BY <1>2, <1>4, <1>5, <1>6 DEF IInv

(* The first proc_listpids, which asks how many. *)
LEMMA CountStep ==
  ASSUME IInv, Count
  PROVE  IInv'
<1>1. PICK estimate \in {0, Cardinality(AllPids) + Slack} :
        Goto([pc |-> IF call.pc = "count" THEN "list" ELSE "list again",
              op |-> call.op, what |-> call.what, estimate |-> estimate])
  BY DEF Count
<1>2. PICK next : next = [pc |-> IF call.pc = "count" THEN "list" ELSE "list again",
                          op |-> call.op, what |-> call.what, estimate |-> estimate]
  OBVIOUS
<1>3. Goto(next) /\ call.pc \in {"count", "count again"}
  BY <1>1, <1>2 DEF Count
<1>4. call.op \in Op /\ call.what \in Arg
  BY DEF IInv, CallOK, Outside, Listing, Scanning, Attaching
<1>. DEFINE pc == IF call.pc = "count" THEN "list" ELSE "list again"
<1>5. /\ next \in Listing /\ next.op = call.op /\ next.what = call.what
      /\ \/ next.pc = "list" /\ call.pc = "count"
         \/ next.pc = "list again" /\ call.pc = "count again"
  <2>1. estimate \in Nat
    BY FinitePids, SlackAssumption
  <2>2. next.pc = pc /\ next.op = call.op /\ next.what = call.what
    BY <1>2
  <2>3. next \in Listing
    BY <1>2, <1>4, <2>1 DEF Listing
  <2>. QED  BY <1>3, <2>2, <2>3
<1>6. call' = next /\ UNCHANGED found
  BY <1>3 DEF Goto
<1>7. CallOK'
  BY <1>5, <1>6 DEF IInv, CallOK
<1>. QED  BY <1>3, <1>5, <1>7, GotoFacts

(* A list that does not fall short has all that stay. *)
LEMMA ListingFacts ==
  ASSUME IInv, call.pc \in {"list", "list again"}, NEW b \in Buffers, Look(b)
  PROVE  /\ call \in Listing /\ unnamed' = unnamed
         /\ b.listed \subseteq Pid \cup {NoPid} /\ b.rest \subseteq Pid \cup {NoPid}
         /\ ~missed' =>
              /\ ~missed
              /\ \A p \in Pid : table[p] \in steady => p \in b.listed /\ Holds(b, p)
<1>1. call \in Listing
  BY DEF IInv, CallOK, Outside, Listing, Scanning, Attaching
<1>2. call.estimate \in Nat
  BY <1>1 DEF Listing
<1>. QED  BY <1>1, <1>2, AllListed, SteadyListed DEF IInv, Holds, Look, AllPids

(* From one place of a listing to the next. *)
LEMMA ListingGoesOn ==
  ASSUME IInv, call \in Listing, call.op = "by pid", NEW pc \in {"count again", "proc_name"},
         Goto([call EXCEPT !.pc = pc])
  PROVE  IInv'
<1>1. PICK next : next = [call EXCEPT !.pc = pc]
  OBVIOUS
<1>2. next \in Listing /\ next.op = call.op /\ next.what = call.what /\ next.pc = pc
  BY <1>1 DEF Listing
<1>3. Goto(next) /\ call' = next /\ UNCHANGED found
  BY <1>1 DEF Goto
<1>4. CallOK'
  BY <1>2, <1>3 DEF IInv, CallOK
<1>. QED  BY <1>2, <1>3, <1>4, GotoFacts

(* The look for the pid in the list (ProcessExists). *)
LEMMA ProcessExistsStep ==
  ASSUME IInv, ProcessExists
  PROVE  IInv'
<1>1. PICK b \in Buffers :
       /\ Look(b)
       /\ \/ /\ call.op = "is alive"
             /\ ReturnOnly(IF Holds(b, call.what) THEN "true" ELSE "false")
          \/ call.op = "by pid" /\ ~Holds(b, call.what) /\ ReturnOnly("nullptr")
          \/ /\ call.op = "by pid" /\ Holds(b, call.what)
             /\ Goto([call EXCEPT !.pc = "count again"])
  BY DEF ProcessExists
<1>2. /\ call \in Listing /\ unnamed' = unnamed
      /\ ~missed' => \A p \in Pid : table[p] \in steady => Holds(b, p)
  BY <1>1, ListingFacts DEF ProcessExists
<1>3. call.op \in {"by pid", "is alive"} => call.what \in Pid
  BY DEF IInv, CallOK, FoundOK
<1>4. CASE call.op = "is alive" /\ ReturnOnly("true")
  BY <1>2, <1>4, ReturnFacts
<1>5. CASE call.op = "is alive" /\ ~Holds(b, call.what) /\ ReturnOnly("false")
  BY <1>2, <1>3, <1>5, ReturnFacts
<1>6. CASE call.op = "by pid" /\ ~Holds(b, call.what) /\ ReturnOnly("nullptr")
  BY <1>2, <1>3, <1>6, ReturnFacts
<1>7. CASE call.op = "by pid" /\ Goto([call EXCEPT !.pc = "count again"])
  BY <1>2, <1>7, ListingGoesOn
<1>. QED  BY <1>1, <1>4, <1>5, <1>6, <1>7

(* The second proc_listpids, of a call by pid. *)
LEMMA ListForNameStep ==
  ASSUME IInv, ListForName
  PROVE  IInv'
<1>1. call.pc = "list again" /\ call.op = "by pid" /\ call.what \in Pid
  BY DEF ListForName, IInv, CallOK
<1>2. PICK b \in Buffers :
       /\ Look(b)
       /\ \/ Holds(b, call.what) /\ Goto([call EXCEPT !.pc = "proc_name"])
          \/ ~Holds(b, call.what) /\ ReturnOnly("crash")
  BY DEF ListForName
<1>3. /\ call \in Listing /\ unnamed' = unnamed
      /\ ~missed' => \A p \in Pid : table[p] \in steady => Holds(b, p)
  BY <1>1, <1>2, ListingFacts
<1>4. CASE Goto([call EXCEPT !.pc = "proc_name"])
  BY <1>1, <1>3, <1>4, ListingGoesOn
<1>5. CASE ~Holds(b, call.what) /\ ReturnOnly("crash")
  BY <1>1, <1>3, <1>5, ReturnFacts
<1>. QED  BY <1>2, <1>4, <1>5

-------------------------------------------------------------------------------
(* The name that goes with a pid is that of its process, if the process    *)
(* was there when the call began and proc_name has written a name.         *)
LEMMA ChosenStep ==
  ASSUME IInv, NEW pid \in Pid, NEW name \in Name \cup {Nothing}, Goto(Chosen(pid, name)),
         call.op \in {"by pid", "by name"}, call.op = "by pid" => pid = call.what,
         call.op = "by name" => name = call.what,
         table[pid] \in present /\ pid \notin unnamed' => name = NameOf[table[pid]]
  PROVE  IInv'
<1>1. PICK next : next = Chosen(pid, name)
  OBVIOUS
<1>2. call.op \in Op /\ call.what \in Arg
  BY DEF IInv, CallOK, Outside, Listing, Scanning, Attaching
<1>3. /\ next \in Attaching /\ next.op = call.op /\ next.what = call.what
      /\ next.pc = "task_for_pid" /\ next.pid = pid /\ next.name = name
  BY <1>1, <1>2 DEF Chosen, Attaching
<1>4. Goto(next) /\ call' = next /\ UNCHANGED <<table, present, found>>
  BY <1>1 DEF Goto, processes
<1>5. CallOK'
  BY <1>3, <1>4 DEF IInv, CallOK
<1>. QED  BY <1>3, <1>4, <1>5, GotoFacts

(* What proc_name writes is the name of who has the pid. *)
LEMMA ProcNameFacts ==
  ASSUME TableOK, NEW p \in Pid, NEW name \in ProcName(p)
  PROVE  /\ name \in Name \cup {Nothing}
         /\ name # Nothing => table[p] \in Proc /\ name = NameOf[table[p]]
BY NothingAssumption, NameOfAssumption, PidAssumption DEF TableOK, ProcName

(* proc_name of a call by pid. *)
LEMMA NameForPIDStep ==
  ASSUME IInv, NameForPID
  PROVE  IInv'
<1>1. call.op = "by pid" /\ call.what \in Pid
  BY DEF NameForPID, IInv, CallOK
<1>2. PICK name \in ProcName(call.what) :
        Asked(call.what, name) /\ Goto(Chosen(call.what, name))
  BY DEF NameForPID
<1>3. /\ name \in Name \cup {Nothing}
      /\ call.what \notin unnamed' => name = NameOf[table[call.what]]
  BY <1>1, <1>2, ProcNameFacts DEF IInv, Asked
<1>. QED  BY <1>1, <1>2, <1>3, ChosenStep

(* The second proc_listpids, of a call by name. *)
LEMMA ListForPidStep ==
  ASSUME IInv, ListForPid
  PROVE  IInv'
<1>1. call.pc = "list" /\ call.op = "by name"
  BY DEF ListForPid
<1>2. PICK b \in Buffers :
        Look(b) /\ Goto([pc |-> "scan", op |-> call.op, what |-> call.what,
                         listed |-> b.listed, rest |-> b.rest])
  BY DEF ListForPid
<1>3. PICK next : next = [pc |-> "scan", op |-> call.op, what |-> call.what,
                          listed |-> b.listed, rest |-> b.rest]
  OBVIOUS
<1>4. call.op \in Op /\ call.what \in Arg
  BY DEF IInv, CallOK, Outside, Listing, Scanning, Attaching
<1>5. /\ b.listed \subseteq Pid \cup {NoPid} /\ b.rest \subseteq Pid \cup {NoPid}
      /\ ~missed' => \A p \in Pid : table[p] \in steady => p \in b.listed
  BY <1>1, <1>2, ListingFacts
<1>6. /\ next \in Scanning /\ next.pc = "scan" /\ next.op = "by name" /\ next.what = call.what
      /\ next.listed = b.listed
  BY <1>1, <1>3, <1>4, <1>5 DEF Scanning
<1>7. Goto(next) /\ call' = next /\ UNCHANGED <<table, steady, found>>
  BY <1>2, <1>3 DEF Goto, processes
<1>8. CallOK'
  BY <1>1, <1>5, <1>6, <1>7 DEF IInv, CallOK, Wanted
<1>. QED  BY <1>6, <1>7, <1>8, GotoFacts

(* A turn of the loop over the pids, of a call by name. *)
LEMMA PIDForNameStep ==
  ASSUME IInv, PIDForName
  PROVE  IInv'
<1>1. call.pc = "scan" /\ call.op = "by name" /\ call.what \in Name
  BY DEF PIDForName, IInv, CallOK
<1>2. call \in Scanning
  BY <1>1 DEF IInv, CallOK, Outside, Listing, Scanning, Attaching
<1>3. ~missed => \A p \in Pid : Wanted(p) => p \in call.listed
  BY <1>1 DEF IInv, CallOK
<1>4. CASE /\ call.listed \cup call.rest = {}
           /\ ReturnOnly("nullptr") /\ UNCHANGED <<missed, unnamed>>
  BY <1>1, <1>3, <1>4, ReturnFacts
<1>5. ASSUME NEW p \in call.listed \cup call.rest, NEW name \in ProcName(p), Asked(p, name),
             MayBeNamed(name, call.what), p # NoPid, Goto(Chosen(p, call.what))
      PROVE  IInv'
  <2>1. p \in Pid
    BY <1>2, <1>5 DEF Scanning
  <2>2. p \notin unnamed' => call.what = NameOf[table[p]]
    BY <1>5, <2>1, ProcNameFacts DEF IInv, MayBeNamed, Asked
  <2>. QED  BY <1>1, <1>5, <2>1, <2>2, ChosenStep
<1>6. ASSUME NEW p \in call.listed \cup call.rest, NEW name \in ProcName(p), Asked(p, name),
             MayBeNamed(name, call.what), p = NoPid, ReturnOnly("nullptr")
      PROVE  IInv'
  <2>1. name \in {Nothing, Kernel}
    BY <1>6 DEF ProcName
  <2>2. NoPid \in unnamed' \/ call.what = Kernel
    BY <1>6, <2>1 DEF MayBeNamed, Asked
  <2>. QED  BY <1>1, <1>6, <2>2, ReturnFacts DEF Asked
<1>7. ASSUME NEW p \in call.listed \cup call.rest, NEW name \in ProcName(p), Asked(p, name),
             name # call.what, Goto([call EXCEPT !.listed = @ \ {p}, !.rest = @ \ {p}])
      PROVE  IInv'
  <2>1. PICK next : next = [call EXCEPT !.listed = @ \ {p}, !.rest = @ \ {p}]
    OBVIOUS
  <2>2. /\ next \in Scanning /\ next.pc = "scan" /\ next.op = "by name" /\ next.what = call.what
        /\ next.listed = call.listed \ {p}
    BY <1>1, <1>2, <2>1 DEF Scanning
  <2>3. Goto(next) /\ call' = next /\ UNCHANGED <<table, steady, found>>
    BY <1>7, <2>1 DEF Goto, processes
  <2>4. ASSUME ~missed', NEW q \in Pid, Wanted(q)'
        PROVE  q \in next.listed
    <3>1. Wanted(q) /\ q \notin unnamed' /\ ~missed
      BY <1>7, <2>2, <2>3, <2>4 DEF Wanted, Asked
    <3>2. q # p
      BY <1>7, <3>1, ProcNameFacts DEF IInv, Wanted, Asked
    <3>. QED  BY <1>3, <2>2, <3>1, <3>2
  <2>5. CallOK'
    BY <1>1, <2>2, <2>3, <2>4 DEF IInv, CallOK
  <2>. QED  BY <2>2, <2>3, <2>5, GotoFacts
<1>8. CASE \E p \in call.listed \cup call.rest : \E name \in ProcName(p) :
             /\ Asked(p, name)
             /\ \/ MayBeNamed(name, call.what) /\ p # NoPid /\ Goto(Chosen(p, call.what))
                \/ MayBeNamed(name, call.what) /\ p = NoPid /\ ReturnOnly("nullptr")
                \/ /\ name # call.what
                   /\ Goto([call EXCEPT !.listed = @ \ {p}, !.rest = @ \ {p}])
  BY <1>5, <1>6, <1>7, <1>8
<1>. QED  BY <1>4, <1>8 DEF PIDForName

(* task_for_pid, granted or refused. *)
LEMMA TaskForPidStep ==
  ASSUME IInv, TaskForPid
  PROVE  IInv'
<1>1. /\ call.pc = "task_for_pid" /\ call.op \in {"by pid", "by name"}
      /\ call.op = "by pid" => call.pid = call.what
      /\ call.op = "by name" => call.name = call.what
      /\ table[call.pid] \in present /\ call.pid \notin unnamed =>
           call.name = NameOf[table[call.pid]]
  BY DEF TaskForPid, IInv, CallOK
<1>2. call \in Attaching
  BY <1>1 DEF IInv, CallOK, Outside, Listing, Scanning, Attaching
<1>3. call.pid \in Pid /\ call.op \in Op /\ call.what \in Arg
  BY <1>2 DEF Attaching
<1>4. PICK granted \in BOOLEAN, task \in Proc \cup {Nothing} :
        /\ granted => task = table[call.pid] /\ task # Nothing
        /\ found' = [pid |-> call.pid, name |-> call.name, task |-> task, granted |-> granted]
  BY DEF TaskForPid
<1>5. /\ call' = [pc |-> "out", op |-> call.op, what |-> call.what] /\ result' = "found"
      /\ UNCHANGED <<table, unborn, present, steady, missed, unnamed>>
  BY DEF TaskForPid, Return, Out, processes
<1>6. TableOK' /\ Alive' = Alive
  <2>1. Alive' = Alive
    BY <1>5 DEF Alive
  <2>. QED  BY <1>5, <2>1 DEF IInv, TableOK
<1>7. /\ found'.pid = call.pid /\ found'.name = call.name
      /\ found'.task = task /\ found'.granted = granted
  BY <1>4
<1>8. FoundOK'
  <2>1. granted => task \in Alive /\ task \in Proc /\ task \notin unborn
    BY <1>3, <1>4, AliveFacts DEF IInv, TableOK
  <2>2. granted => \A p \in Pid : table[p] = task => p = call.pid
    BY <1>3, <1>4 DEF IInv, TableOK
  <2>. QED  BY <1>3, <1>5, <1>7, <2>1, <2>2 DEF FoundOK
<1>9. CallOK'
  BY <1>1, <1>3, <1>5 DEF IInv, CallOK, Outside
<1>10. FoundIsCoherent'
  BY <1>1, <1>4, <1>5, <1>7 DEF FoundIsCoherent
<1>11. AliveIsFound'
  <2>1. steady \subseteq present
    BY DEF IInv, TableOK
  <2>. QED  BY <1>1, <1>4, <1>5, <1>7, <2>1 DEF AliveIsFound, Returned, GoesBy
<1>. QED  BY <1>6, <1>8, <1>9, <1>10, <1>11 DEF IInv

-------------------------------------------------------------------------------
(* No step breaks the invariant. *)
LEMMA NextIInv == IInv /\ [Next]_vars => IInv'
<1>. SUFFICES ASSUME IInv, [Next]_vars PROVE IInv'
  OBVIOUS
<1>1. ASSUME NEW p \in Pid, NEW q \in Proc, Start(p, q)
      PROVE  IInv'
  <2>1. Others
    BY <1>1, StartStep DEF IInv
  <2>2. /\ unborn' \subseteq unborn /\ UNCHANGED <<call, found, result, missed, unnamed>>
        /\ \A r \in Pid : table'[r] # table[r] => table'[r] \in unborn \cup {Nothing}
    BY <1>1 DEF Start, history, IInv, TableOK
  <2>. QED  BY <2>1, <2>2, OthersStep
<1>2. ASSUME NEW p \in Pid, Exit(p)
      PROVE  IInv'
  <2>1. Others
    BY <1>2, GoneFacts DEF Exit, IInv
  <2>2. /\ unborn' \subseteq unborn /\ UNCHANGED <<call, found, result, missed, unnamed>>
        /\ \A r \in Pid : table'[r] # table[r] => table'[r] \in unborn \cup {Nothing}
    BY <1>2 DEF Exit, IInv, TableOK
  <2>. QED  BY <2>1, <2>2, OthersStep
<1>3. CASE GetProcessByName \/ GetProcessByPid \/ IsAlive
  <2>1. ASSUME NEW n \in Name, Begin("by name", n)
        PROVE  IInv'
    BY <2>1, BeginStep DEF Arg
  <2>2. ASSUME NEW p \in Pid, Begin("by pid", p)
        PROVE  IInv'
    BY <2>2, BeginStep DEF Arg
  <2>3. CASE found # Nothing /\ Begin("is alive", found.pid)
    BY <2>3, BeginStep DEF Arg, IInv, FoundOK
  <2>. QED  BY <1>3, <2>1, <2>2, <2>3 DEF GetProcessByName, GetProcessByPid, IsAlive
<1>4. CASE UNCHANGED vars
  <2>1. UNCHANGED <<table, unborn, call, found, result, present, steady, missed, unnamed>>
    BY <1>4 DEF vars, processes, history
  <2>2. Alive' = Alive
    BY <2>1 DEF Alive
  <2>3. TableOK'
    BY <2>1, <2>2 DEF IInv, TableOK
  <2>4. FoundOK'
    BY <2>1, <2>2 DEF IInv, FoundOK
  <2>5. CallOK'
    BY <2>1 DEF IInv, CallOK, Wanted
  <2>6. FoundIsCoherent'
    BY <2>1 DEF IInv, FoundIsCoherent
  <2>7. AliveIsFound'
    BY <2>1 DEF IInv, AliveIsFound, Returned, GoesBy
  <2>. QED  BY <2>3, <2>4, <2>5, <2>6, <2>7 DEF IInv
<1>. QED  BY <1>1, <1>2, <1>3, <1>4, KillStep, CountStep, ProcessExistsStep, ListForNameStep,
             ListForPidStep, NameForPIDStep, PIDForNameStep, TaskForPidStep DEF Next

(* The inductive invariant of GetProcess beside the process table holds in every reachable state. *)
THEOREM Invariant == Spec => []IInv
BY InitIInv, NextIInv, PTL DEF Spec

(***************************************************************************)
(* Of any processes, pids and names, one that is alive throughout a call   *)
(* of GetProcess or IsAlive whose lists were neither refused nor cut short *)
(* is found: by its pid with its own task and name, by its name, or else   *)
(* another of the name or one of which proc_name has told nothing.         *)
(***************************************************************************)
THEOREM TheAliveAreFound == Spec => []AliveIsFound
<1>1. IInv => AliveIsFound
  BY DEF IInv
<1>. QED  BY <1>1, Invariant, PTL

(***************************************************************************)
(* The name and the granted task of a Process are of one process, unless   *)
(* proc_name has written nothing, or the process was only started while    *)
(* GetProcess was under way.                                               *)
(***************************************************************************)
THEOREM NameAndTaskAgree == Spec => []Coherent
<1>1. IInv => Coherent
  BY DEF IInv, FoundIsCoherent, Coherent, Returned
<1>. QED  BY <1>1, Invariant, PTL
===============================================================================
