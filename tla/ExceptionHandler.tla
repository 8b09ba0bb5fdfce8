--------------------------- MODULE ExceptionHandler ---------------------------
(***************************************************************************)
(* The exception handler of the debugger's own task: SetupHandler makes a  *)
(* port, starts a server thread on it and registers it for breakpoint      *)
(* exceptions; the servers answer the exceptions the kernel sends.         *)
(*                                                                         *)
(* Each call of SetupHandler has a port and a server thread of its own,    *)
(* named here by the call.  A server thread is a thread of the task like    *)
(* the others and may run into a breakpoint itself.  The kernel and the    *)
(* handler that was registered before ("parent") are external.             *)
(***************************************************************************)
EXTENDS Naturals, Sequences

CONSTANTS
  Setup,     \* calls of SetupHandler
  Thread,    \* the task's other threads
  Bkpt,      \* breakpoints, each at an address of its own
  Nothing,   \* no breakpoint; a port name that is no port
  MaxTraps   \* bound: exceptions of server threads

ASSUME NothingAssumption == Nothing \notin Bkpt \cup Setup
ASSUME ThreadAssumption == Thread \cap Setup = {}
ASSUME PortAssumption == (Setup \cup {Nothing}) \cap {"parent", "none", "unread"} = {}

Threads == Thread \cup Setup

VARIABLES
  build,       \* what the library is compiled for
  setup,       \* where each call of SetupHandler is
  registered,  \* the task's exception port for EXC_MASK_BREAKPOINT
  port,        \* exc_port as each server has read it
  queue,       \* the exceptions waiting on each port, by their thread
  server,      \* the callback each server is in
  thread,      \* each thread's exception, or that it is running
  suspends,    \* suspend count of each thread
  traps,       \* exceptions of server threads so far
  armed,       \* breakpoints whose trap is in memory
  active       \* active_ of each breakpoint

setupVars  == <<setup, registered, port>>
threadVars == <<thread, suspends, traps>>
bkptVars   == <<armed, active>>
vars       == <<build, setupVars, queue, server, threadVars, bkptVars>>

Running == [st |-> "running"]
Idle    == [pc |-> "once"]

Init ==
  /\ build \in {"x86_64", "arm"}
  /\ setup = [k \in Setup |-> "allocate"]
  /\ registered = "parent"
  /\ port = [k \in Setup |-> "none"]
  /\ queue = [k \in Setup |-> << >>]
  /\ server = [k \in Setup |-> Idle]
  /\ thread = [t \in Threads |-> Running]
  /\ suspends = [t \in Threads |-> 0]
  /\ traps = 0
  /\ armed = {}
  /\ active \in [Bkpt -> BOOLEAN]

-------------------------------------------------------------------------------
Runs(t) == thread[t] = Running /\ suspends[t] = 0

(* SetupHandler.  Each Mach call, and pthread_create, may fail; what was   *)
(* done before stays.                                                      *)

Step(k, from, to) == setup[k] = from /\ setup' = [setup EXCEPT ![k] = to]
Fails(k)          == setup' = [setup EXCEPT ![k] = "false"]

SetupFails(k) ==
  /\ setup[k] \in {"allocate", "insert_right", "get_ports", "pthread_create", "set_ports"}
  /\ Fails(k)
  /\ UNCHANGED <<build, registered, port, queue, server, threadVars, bkptVars>>

(* Faulty variant: the port is registered before it has a server. *)
PreparePortEarly(k) ==
  /\ \/ Step(k, "allocate", "insert_right") /\ UNCHANGED registered
     \/ Step(k, "insert_right", "get_ports") /\ UNCHANGED registered
     \/ Step(k, "get_ports", "pthread_create") /\ registered' = k
  /\ UNCHANGED <<build, port, queue, server, threadVars, bkptVars>>

PreparePort(k) ==
  /\ \/ Step(k, "allocate", "insert_right")
     \/ Step(k, "insert_right", "get_ports")
     \/ Step(k, "get_ports", "pthread_create")
  /\ UNCHANGED <<build, registered, port, queue, server, threadVars, bkptVars>>

CreateServer(k) ==
  /\ Step(k, "pthread_create", "set_ports")
  /\ port' = [port EXCEPT ![k] = "unread"]
  /\ UNCHANGED <<build, registered, queue, server, threadVars, bkptVars>>

Register(k) ==
  /\ Step(k, "set_ports", "true")
  /\ registered' = k
  /\ UNCHANGED <<build, port, queue, server, threadVars, bkptVars>>

(* server_thread is given the address of SetupHandler's local exc_port.    *)
(* It may read it after SetupHandler has returned, and find anything: the  *)
(* port, that of another call, or no port at all.                          *)
ReadPort(k) ==
  /\ port[k] = "unread"
  /\ Runs(k)
  /\ \E p \in IF setup[k] = "set_ports" THEN {k} ELSE Setup \cup {Nothing} :
       port' = [port EXCEPT ![k] = p]
  /\ UNCHANGED <<build, setup, registered, queue, server, threadVars, bkptVars>>

-------------------------------------------------------------------------------
(* The task's threads. *)

(* A client enables a breakpoint, and Apply may fail.  Only the x86_64     *)
(* classes set active_, and before they write.                             *)
EnableBreakpoint(b) ==
  /\ armed' \in {armed, armed \cup {b}}
  /\ active' = IF build = "x86_64" THEN [active EXCEPT ![b] = TRUE] ELSE active
  /\ UNCHANGED <<build, setupVars, queue, server, threadVars>>

(* The kernel sends an exception of the registered kinds to the port and   *)
(* others to the parent handler.  Nothing stands for the other kinds.      *)
(* Faulty variant: the port is registered for all exceptions.              *)
MaskAll == Bkpt \cup {Nothing}
Mask    == Bkpt

Raise(t, b) ==
  /\ Runs(t)
  /\ IF t \in Setup THEN port[t] # "none" /\ traps < MaxTraps /\ traps' = traps + 1
                    ELSE UNCHANGED traps
  /\ b \in armed \cup {Nothing}
  /\ IF b \in Mask /\ registered # "parent"
     THEN /\ thread' = [thread EXCEPT ![t] = [st |-> "waiting", at |-> b]]
          /\ queue' = [queue EXCEPT ![registered] = Append(@, t)]
     ELSE /\ thread' = [thread EXCEPT ![t] = [st |-> "parent", at |-> b]]
          /\ UNCHANGED queue
  /\ UNCHANGED <<build, setupVars, server, suspends, bkptVars>>

(* The parent handler lets the thread go on. *)
ParentResumes(t) ==
  /\ thread[t].st = "parent"
  /\ thread' = [thread EXCEPT ![t] = Running]
  /\ UNCHANGED <<build, setupVars, queue, server, suspends, traps, bkptVars>>

-------------------------------------------------------------------------------
(* mach_msg_server_once and ExceptionCallback. *)

Receive(s) ==
  LET p == port[s] IN
  /\ p \in Setup
  /\ server[s] = Idle
  /\ queue[p] # << >>
  /\ server' = [server EXCEPT ![s] = [pc |-> "suspend", t |-> Head(queue[p])]]
  /\ queue' = [queue EXCEPT ![p] = Tail(@)]
  /\ UNCHANGED <<build, setupVars, threadVars, bkptVars>>

Goto(s, pc) == server' = [server EXCEPT ![s].pc = pc]

(* exception_history_ is written only, and left out. *)
Suspend(s) ==
  /\ server[s].pc = "suspend"
  /\ suspends' = [suspends EXCEPT ![server[s].t] = @ + 1]
  /\ Goto(s, IF thread[server[s].t].at \in Bkpt THEN "state" ELSE "failure")
  /\ UNCHANGED <<build, setupVars, queue, thread, traps, bkptVars>>

(* Process::ThreadState makes no state for x86_64.  For ARM it makes one   *)
(* that nobody loads, so its address may be that of any breakpoint.        *)
Found == IF build = "arm" THEN Bkpt \cup {Nothing} ELSE {Nothing}

(* Faulty variant: the server forwards to the parent what is not its own,   *)
(* and also replies that it has not handled it.                            *)
LookupForwarding(s) ==
  /\ server[s].pc = "state"
  /\ \E b \in Found :
       IF b \in Bkpt /\ active[b]
       THEN /\ server' = [server EXCEPT ![s] = [pc |-> "disable", t |-> @.t, b |-> b]]
            /\ UNCHANGED thread
       ELSE /\ Goto(s, "resume")
            /\ thread' = [thread EXCEPT ![server[s].t].st = "parent"]
  /\ UNCHANGED <<build, setupVars, queue, suspends, traps, bkptVars>>

Lookup(s) ==
  /\ server[s].pc = "state"
  /\ \E b \in Found :
       IF b \in Bkpt /\ active[b]
       THEN server' = [server EXCEPT ![s] = [pc |-> "disable", t |-> @.t, b |-> b]]
       ELSE Goto(s, "resume")
  /\ UNCHANGED <<build, setupVars, queue, threadVars, bkptVars>>

(* The breakpoint's callback, Save and DisableBreakpoint, whose Reset may  *)
(* fail: nobody looks, and the trap stays.                                 *)
Disable(s) ==
  /\ server[s].pc = "disable"
  /\ armed' \in {armed, armed \ {server[s].b}}
  /\ active' = IF build = "x86_64" THEN [active EXCEPT ![server[s].b] = FALSE] ELSE active
  /\ Goto(s, "success")
  /\ UNCHANGED <<build, setupVars, queue, threadVars>>

ResumeThread(s, from, to) ==
  /\ server[s].pc = from
  /\ suspends' = [suspends EXCEPT ![server[s].t] = @ - 1]
  /\ Goto(s, to)
  /\ UNCHANGED <<build, setupVars, queue, thread, traps, bkptVars>>

(* Faulty variant: no way out but through a handled breakpoint. *)
ResumeHandled(s) == ResumeThread(s, "success", "handled")

Resume(s) == ResumeThread(s, "resume", "failure") \/ ResumeThread(s, "success", "handled")

(* The reply: the kernel lets the thread go on, or asks the parent. *)
Reply(s) ==
  /\ server[s].pc \in {"handled", "failure"}
  /\ thread' = [thread EXCEPT ![server[s].t] =
                  IF server[s].pc = "handled" THEN Running ELSE [@ EXCEPT !.st = "parent"]]
  /\ server' = [server EXCEPT ![s] = Idle]
  /\ UNCHANGED <<build, setupVars, queue, suspends, traps, bkptVars>>

Callback(s) ==
  /\ Runs(s)
  /\ Receive(s) \/ Suspend(s) \/ Lookup(s) \/ Disable(s) \/ Resume(s) \/ Reply(s)

Next ==
  \/ \E k \in Setup : \/ SetupFails(k)
                      \/ PreparePort(k)
                      \/ CreateServer(k)
                      \/ Register(k)
                      \/ ReadPort(k)
                      \/ Callback(k)
  \/ \E b \in Bkpt : EnableBreakpoint(b)
  \/ \E t \in Threads : \/ \E b \in Bkpt \cup {Nothing} : Raise(t, b)
                        \/ ParentResumes(t)

(* A server that can run runs; nobody makes the other threads go on, and   *)
(* the parent may keep a thread for ever.                                  *)
Spec == Init /\ [][Next]_vars /\ \A s \in Setup : WF_vars(Callback(s))

-------------------------------------------------------------------------------
InCallback(s, t) == server[s] # Idle /\ server[s].t = t

(***************************************************************************)
(* A thread is suspended only while a callback for its exception is under  *)
(* way.  ExceptionCallback returns without thread_resume for exceptions    *)
(* that are not breakpoints; the mask keeps those away from it.            *)
(***************************************************************************)
SuspendBalanced ==
  \A t \in Threads : suspends[t] > 0 => \E s \in Setup : InCallback(s, t)

(***************************************************************************)
(* An exception is in one place: on a port, or with one server, or the     *)
(* parent has it; a thread that runs has none.  So it is answered once,    *)
(* also when two servers read the same port.                               *)
(***************************************************************************)
Places(t) ==
  (UNION {{<<k, i>> : i \in {i \in DOMAIN queue[k] : queue[k][i] = t}} : k \in Setup})
    \cup {<<s, 0>> : s \in {s \in Setup : InCallback(s, t)}}

AnsweredOnce ==
  \A t \in Threads :
    /\ \A x, y \in Places(t) : x = y
    /\ Places(t) # {} <=> thread[t].st = "waiting"

(***************************************************************************)
(* The registered port has its server thread: SetupHandler registers it    *)
(* last, so no exception goes to a port of a setup that has failed.        *)
(***************************************************************************)
RegisteredHasServer ==
  registered # "parent" => port[registered] # "none" /\ setup[registered] = "true"

(***************************************************************************)
(* An exception that comes to a port with a server is answered, unless it  *)
(* stays for ever with a server that has run into a breakpoint itself, or  *)
(* on a port all of whose servers have.  So two servers on one port answer *)
(* each other's exceptions, and the only deadlock is that of the last one. *)
(* A server runs into breakpoints a bounded number of times here.          *)
(***************************************************************************)
QueuedOn(t, k) == \E i \in DOMAIN queue[k] : queue[k][i] = t
Servers(k)     == {s \in Setup : port[s] = k}
Stopped(s)     == thread[s] # Running

Blocked(t) ==
  \/ \E s \in Setup : InCallback(s, t) /\ Stopped(s)
  \/ \E k \in Setup : QueuedOn(t, k) /\ \A s \in Servers(k) : Stopped(s)

Answered ==
  \A t \in Threads, k \in Setup :
    (QueuedOn(t, k) /\ Servers(k) # {}) ~> (thread[t].st # "waiting" \/ []Blocked(t))

(***************************************************************************)
(* What the comment in ExceptionCallback says: breakpoints are handled,    *)
(* and the other exceptions are passed to the parent handler.  An x86_64   *)
(* thread has no state here, so the server hands the parent the breakpoint *)
(* exceptions too.                                                         *)
(***************************************************************************)
BreakpointsAreHandled ==
  \A s \in Setup :
    server[s].pc = "failure" => thread[server[s].t].at \notin armed
===============================================================================
