----------------------------- MODULE ProcessTable -----------------------------
(***************************************************************************)
(* The processes of the system and the calls that look them up: GetProcess *)
(* by pid and by name, IsAlive and Kill.  Each of them asks the kernel     *)
(* several times, while processes exit and their pids go to others.        *)
(*                                                                         *)
(* A task port belongs to one process for good, so a process stands for    *)
(* its task as well.  The kernel's calls are external.  Any of them may be *)
(* refused (a sandbox, another user's process), and nobody looks whether   *)
(* it was.  NoPid is 0, the kernel's own, which is listed, and any other    *)
(* number that is no pid of a process; no call has it as its argument.     *)
(***************************************************************************)
EXTENDS Naturals, FiniteSets, FiniteSetsExt

CONSTANTS
  Pid,       \* pids in use or to be used again
  NoPid,     \* 0, and numbers below
  Proc,      \* processes, and their tasks
  Self,      \* the debugger itself
  Name,      \* names of processes
  NameOf,    \* the name of each process
  Kernel,    \* the name that goes with 0
  Slack,     \* entries by which the kernel's estimate exceeds the processes
  Nothing    \* no process; no task; a name that was never written

ASSUME SelfAssumption    == Self \in Proc
ASSUME NameOfAssumption  == NameOf \in [Proc -> Name]
ASSUME KernelAssumption  == Kernel \in Name
ASSUME SlackAssumption   == Slack \in Nat
ASSUME NothingAssumption == Nothing \notin Proc \cup Name

ASSUME PidAssumption     == NoPid \notin Pid /\ IsFiniteSet(Pid)

VARIABLES
  table,    \* the process that has each pid, or Nothing
  unborn,   \* processes that have not been started
  call,     \* where the debugger is in its call, or what it called last
  found,    \* the Process it holds, or Nothing
  result,   \* what its last call has returned
  (* History, of the call under way or the last one. *)
  present,  \* the processes there were when it began
  steady,   \* those of them that have not exited since
  missed,   \* proc_listpids was refused, or could not list all processes
  unnamed   \* pids for which proc_name has written nothing

processes == <<table, unborn>>
history   == <<present, steady, missed, unnamed>>
vars      == <<processes, call, found, result, history>>

Alive   == {table[p] : p \in Pid} \ {Nothing}
AllPids == {p \in Pid : table[p] # Nothing} \cup {NoPid}
Out(op, what) == [pc |-> "out", op |-> op, what |-> what]

Init ==
  /\ table \in [Pid -> Proc \cup {Nothing}]
  /\ Self \in Alive
  /\ \A p, q \in Pid : p # q /\ table[p] = table[q] => table[p] = Nothing
  /\ unborn = Proc \ Alive
  /\ call = Out("none", Nothing)
  /\ found = Nothing
  /\ result = "none"
  /\ present = {} /\ steady = {} /\ missed = FALSE /\ unnamed = {}

-------------------------------------------------------------------------------
(* Other processes. *)

Start(p, q) ==
  /\ table[p] = Nothing /\ q \in unborn
  /\ table' = [table EXCEPT ![p] = q]
  /\ unborn' = unborn \ {q}
  /\ UNCHANGED <<call, found, result, history>>

Exit(p) ==
  /\ table[p] \notin {Nothing, Self}
  /\ table' = [table EXCEPT ![p] = Nothing]
  /\ steady' = steady \ {table[p]}
  /\ UNCHANGED <<unborn, call, found, result, present, missed, unnamed>>

-------------------------------------------------------------------------------
(* The calls.  "op" is the function called, "what" its argument.           *)

Begin(op, what) ==
  /\ call.pc = "out" /\ result # "crash"
  /\ call' = [pc |-> "count", op |-> op, what |-> what]
  /\ present' = Alive /\ steady' = Alive /\ missed' = FALSE /\ unnamed' = {}
  /\ result' = "none"
  /\ UNCHANGED <<processes, found>>

Goto(next) ==
  /\ call' = next
  /\ UNCHANGED <<processes, found, result, present, steady>>

Return(r) ==
  /\ call' = Out(call.op, call.what)
  /\ result' = r
  /\ UNCHANGED <<processes, present, steady>>

(* With no new Process. *)
ReturnOnly(r) == Return(r) /\ UNCHANGED found

GetProcessByName == \E n \in Name : Begin("by name", n)
GetProcessByPid  == \E p \in Pid : Begin("by pid", p)
IsAlive          == found # Nothing /\ Begin("is alive", found.pid)

(* Without a buffer proc_listpids says how many bytes it may need, or 0    *)
(* when it is refused.  All three callers take that for the number of      *)
(* pids, and make room for it.  Faulty variant: the bytes are divided by   *)
(* the size of a pid.                                                      *)
RoomForPids(estimate) == estimate
Room(estimate)        == 4 * estimate

Count ==
  /\ call.pc \in {"count", "count again"}
  /\ \E estimate \in {0, Cardinality(AllPids) + Slack} :
       Goto([pc |-> IF call.pc = "count" THEN "list" ELSE "list again",
             op |-> call.op, what |-> call.what, estimate |-> estimate])
  /\ UNCHANGED <<missed, unnamed>>

(* The second call fills the room as far as there are pids, or is refused. *)
(* What is behind them in the buffer was never written, and any numbers.   *)
Buffers ==
  LET room == Room(call.estimate) IN
  {b \in [listed : SUBSET AllPids, rest : SUBSET (Pid \cup {NoPid})] :
     /\ Cardinality(b.listed) \in {0, Min({Cardinality(AllPids), room})}
     /\ Cardinality(b.listed) + Cardinality(b.rest) <= room}

(* A list is to be complete unless it was refused, or there are more than  *)
(* four times the processes of the estimate.                               *)
Look(b) ==
  /\ missed' = (missed \/ b.listed = {} \/ Cardinality(AllPids) > 4 * call.estimate)
  /\ UNCHANGED unnamed

Holds(b, pid) == pid \in b.listed \cup b.rest

ProcessExists ==
  /\ call.pc = "list"
  /\ \E b \in Buffers :
       /\ Look(b)
       /\ \/ /\ call.op = "is alive"
             /\ ReturnOnly(IF Holds(b, call.what) THEN "true" ELSE "false")
          \/ /\ call.op = "by pid" /\ ~Holds(b, call.what)
             /\ ReturnOnly("nullptr")
          \/ /\ call.op = "by pid" /\ Holds(b, call.what)
             /\ Goto([call EXCEPT !.pc = "count again"])

(* NameForPID.  When it does not find the pid, the string of the new       *)
(* Process is made of a null pointer.                                      *)
ListForName ==
  /\ call.pc = "list again"
  /\ \E b \in Buffers :
       /\ Look(b)
       /\ \/ Holds(b, call.what) /\ Goto([call EXCEPT !.pc = "proc_name"])
          \/ ~Holds(b, call.what) /\ ReturnOnly("crash")

(* proc_name writes the name of the process; when the pid is gone, or the  *)
(* name is not for the debugger to know, the buffer stays as it was.       *)
ProcName(p) ==
  {Nothing}
    \cup (IF p = NoPid THEN {Kernel} ELSE {NameOf[q] : q \in {table[p]} \ {Nothing}})

Asked(p, name) ==
  /\ unnamed' = IF name = Nothing THEN unnamed \cup {p} ELSE unnamed
  /\ UNCHANGED missed

Chosen(pid, name) ==
  [pc |-> "task_for_pid", op |-> call.op, what |-> call.what, pid |-> pid, name |-> name]

NameForPID ==
  /\ call.pc = "proc_name"
  /\ \E name \in ProcName(call.what) :
       Asked(call.what, name) /\ Goto(Chosen(call.what, name))

(* PIDForName looks at the numbers in the order of the buffer. *)
ListForPid ==
  /\ call.pc = "list" /\ call.op = "by name"
  /\ \E b \in Buffers :
       /\ Look(b)
       /\ Goto([pc |-> "scan", op |-> call.op, what |-> call.what,
                listed |-> b.listed, rest |-> b.rest])

(* A name that was never written may be equal to any.                      *)
(* Faulty variant: strcmp is taken for equality.                           *)
MayBeNamedNot(name, n) == name # n
MayBeNamed(name, n)    == name \in {n, Nothing}

(* GetProcess does without a Process when the number found is 0 or below.  *)
PIDForName ==
  /\ call.pc = "scan"
  /\ \/ /\ call.listed \cup call.rest = {}
        /\ ReturnOnly("nullptr") /\ UNCHANGED <<missed, unnamed>>
     \/ \E p \in IF call.listed # {} THEN call.listed ELSE call.rest : \E name \in ProcName(p) :
          /\ Asked(p, name)
          /\ \/ MayBeNamed(name, call.what) /\ p # NoPid /\ Goto(Chosen(p, call.what))
             \/ MayBeNamed(name, call.what) /\ p = NoPid /\ ReturnOnly("nullptr")
             \/ name # call.what
                  /\ Goto([call EXCEPT !.listed = @ \ {p}, !.rest = @ \ {p}])

(* Nobody looks whether task_for_pid has been refused: the task is then    *)
(* whatever was on the stack, the task of an earlier call included.        *)
TaskForPid ==
  /\ call.pc = "task_for_pid"
  /\ \E granted \in BOOLEAN, task \in Proc \cup {Nothing} :
       /\ granted => task = table[call.pid] /\ task # Nothing
       /\ found' = [pid |-> call.pid, name |-> call.name, task |-> task, granted |-> granted]
  /\ Return("found")
  /\ UNCHANGED <<missed, unnamed>>

(* Kill signals whoever has the pid now, and returns true if that failed:  *)
(* nobody has it, or the signal is not permitted.  The debugger that kills *)
(* itself is left out.                                                     *)
Kill ==
  /\ call.pc = "out" /\ result # "crash" /\ found # Nothing
  /\ table[found.pid] # Self
  /\ call' = Out("kill", found.pid)
  /\ \/ /\ table[found.pid] # Nothing
        /\ result' = "false"
        /\ table' = [table EXCEPT ![found.pid] = Nothing]
        /\ steady' = steady \ {table[found.pid]}
     \/ /\ result' = "true"
        /\ UNCHANGED <<table, steady>>
  /\ UNCHANGED <<unborn, found, present, missed, unnamed>>

Next ==
  \/ \E p \in Pid : Exit(p) \/ \E q \in Proc : Start(p, q)
  \/ GetProcessByName \/ GetProcessByPid \/ IsAlive \/ Kill
  \/ Count \/ ProcessExists \/ ListForName \/ ListForPid
  \/ NameForPID \/ PIDForName \/ TaskForPid

Spec == Init /\ [][Next]_vars

-------------------------------------------------------------------------------
Returned(op) == call.pc = "out" /\ call.op = op

(* The pid is not that of a process of another name since the call began. *)
GoesBy(pid, n) == table[pid] \in present => NameOf[table[pid]] = n

(***************************************************************************)
(* A process that is alive throughout a call is found by it, unless a list *)
(* of the call was refused or cut short by processes that have more than   *)
(* quadrupled.  By its pid it is found with its own task and, if proc_name *)
(* was not refused, its name: so the null name, which ends the debugger,   *)
(* is met only when the process exits during the call.  By its name, if    *)
(* its proc_name was not refused, it is found, or else another that goes   *)
(* by the name or whose proc_name has written nothing; nullptr comes only   *)
(* of a number that is no pid, of which proc_name has written nothing, or  *)
(* when the kernel itself goes by the name.  IsAlive sees the process.     *)
(***************************************************************************)
AliveIsFound ==
  \A p \in Pid : table[p] \in steady /\ ~missed =>
    /\ Returned("by pid") /\ call.what = p =>
         /\ result = "found" /\ (found.granted => found.task = table[p])
         /\ p \notin unnamed => found.name = NameOf[table[p]]
    /\ Returned("by name") /\ NameOf[table[p]] = call.what /\ p \notin unnamed =>
         \/ result = "found" /\ (found.pid \in unnamed \/ GoesBy(found.pid, call.what))
         \/ result = "nullptr" /\ (NoPid \in unnamed \/ call.what = Kernel)
    /\ Returned("is alive") /\ found.granted /\ found.task = table[p] => result = "true"

(***************************************************************************)
(* The name and the task of a Process are of one process, unless the task  *)
(* was refused, proc_name has written no name, or the process was only     *)
(* started during the call, which may then have the name of the one that   *)
(* had the pid before it.                                                  *)
(***************************************************************************)
Coherent ==
  (Returned("by pid") \/ Returned("by name")) /\ result = "found"
    /\ found.granted /\ found.pid \notin unnamed /\ found.task \in present =>
      found.name = NameOf[found.task]
===============================================================================
