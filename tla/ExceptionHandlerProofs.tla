------------------------ MODULE ExceptionHandlerProofs ------------------------
(***************************************************************************)
(* Who has a thread's exception, and who has suspended the thread, for any *)
(* number of setups, servers, threads and breakpoints.  The argument: an   *)
(* exception is on one port, or with one server, exactly while its thread  *)
(* waits; so the server that suspends a thread is the only one that may,   *)
(* and the suspend count of a thread says where that server is.            *)
(***************************************************************************)
EXTENDS ExceptionHandler, Integers, TLAPS

(* The places in the callback at which the thread is suspended. *)
Held == {"state", "disable", "success", "resume"}
PC   == Held \cup {"suspend", "handled", "failure"}

SetupAt    == {"allocate", "insert_right", "get_ports", "pthread_create", "set_ports", "true", "false"}
CallbackAt == [pc : PC, t : Threads] \cup [pc : PC, t : Threads, b : Bkpt]
Exception  == [st : {"waiting", "parent"}, at : Bkpt \cup {Nothing}]

TypeOK ==
  /\ registered \in Setup \cup {"parent"}
  /\ setup \in [Setup -> SetupAt]
  /\ port \in [Setup -> Setup \cup {Nothing, "none", "unread"}]
  /\ queue \in [Setup -> Seq(Threads)]
  /\ server \in [Setup -> CallbackAt \cup {Idle}]
  /\ thread \in [Threads -> Exception \cup {Running}]
  /\ suspends \in [Threads -> Int]
  /\ armed \subseteq Bkpt

(* A setup that is past pthread_create has a server. *)
Served ==
  /\ \A k \in Setup : setup[k] \in {"set_ports", "true"} => port[k] # "none"
  /\ registered # "parent" => setup[registered] = "true"

(* An exception is on one port, once, or with one server. *)
QueuedOnce ==
  \A k, l \in Setup : \A i \in DOMAIN queue[k], j \in DOMAIN queue[l] :
    queue[k][i] = queue[l][j] => k = l /\ i = j
ServedOnce ==
  \A r, s \in Setup, t \in Threads : InCallback(r, t) /\ InCallback(s, t) => r = s
Apart ==
  \A s, k \in Setup, t \in Threads : InCallback(s, t) => ~QueuedOn(t, k)

(* A thread waits for as long as its exception is somewhere; it waits at a *)
(* breakpoint.                                                             *)
Pending(t) == \E k \in Setup : QueuedOn(t, k) \/ InCallback(k, t)
WaitsPending ==
  \A t \in Threads :
    /\ thread[t].st = "waiting" <=> Pending(t)
    /\ thread[t].st = "waiting" => thread[t].at \in Bkpt

InOnePlace == QueuedOnce /\ ServedOnce /\ Apart /\ WaitsPending

(* A thread is suspended once, by the server that is in its callback. *)
Holding(s, t) == InCallback(s, t) /\ server[s].pc \in Held
Counted ==
  \A t \in Threads :
    /\ \A s \in Setup : Holding(s, t) => suspends[t] = 1
    /\ suspends[t] # 0 => \E s \in Setup : Holding(s, t)

IInv == TypeOK /\ Served /\ InOnePlace /\ Counted

-------------------------------------------------------------------------------
(* No call of SetupHandler has begun and nothing is pending: the invariant holds. *)
LEMMA InitIInv == Init => IInv
<1>. SUFFICES ASSUME Init PROVE IInv
  OBVIOUS
<1>1. TypeOK
  <2>1. setup \in [Setup -> SetupAt] /\ registered \in Setup \cup {"parent"}
    BY DEF Init, SetupAt
  <2>2. port \in [Setup -> Setup \cup {Nothing, "none", "unread"}]
    BY DEF Init
  <2>3. queue \in [Setup -> Seq(Threads)]
    BY DEF Init
  <2>4. server \in [Setup -> CallbackAt \cup {Idle}]
    BY DEF Init
  <2>5. thread \in [Threads -> Exception \cup {Running}] /\ suspends \in [Threads -> Int]
    BY DEF Init
  <2>6. armed \subseteq Bkpt
    BY DEF Init
  <2>. QED  BY <2>1, <2>2, <2>3, <2>4, <2>5, <2>6 DEF TypeOK
<1>2. Served
  BY DEF Init, Served
<1>3. \A k \in Setup : DOMAIN queue[k] = {} /\ server[k] = Idle
  <2>1. \A k \in Setup : queue[k] = << >> /\ server[k] = Idle
    BY DEF Init
  <2>2. DOMAIN << >> = {}
    OBVIOUS
  <2>. QED  BY <2>1, <2>2
<1>4. \A t \in Threads : thread[t].st = "running" /\ suspends[t] = 0
  BY DEF Init, Running
<1>5. InOnePlace
  BY <1>3, <1>4 DEF InOnePlace, QueuedOnce, ServedOnce, Apart, WaitsPending, Pending, QueuedOn, InCallback
<1>6. Counted
  BY <1>4, <1>3 DEF Counted, Holding, InCallback
<1>. QED  BY <1>1, <1>2, <1>5, <1>6 DEF IInv

(* A server in a callback has a thread, and is not Idle. *)
LEMMA InCallbackFacts ==
  ASSUME TypeOK, NEW s \in Setup, server[s].pc # "once"
  PROVE  server[s] \in CallbackAt /\ server[s].t \in Threads /\ InCallback(s, server[s].t)
BY DEF TypeOK, CallbackAt, Idle, InCallback

(* A server in a callback is not idle, and has the thread of an exception. *)
LEMMA IdleFacts ==
  ASSUME NEW r \in CallbackAt
  PROVE  r # Idle /\ r.pc \in PC /\ r.t \in Threads
BY DEF CallbackAt, Idle, PC, Held

(* Going on within a callback. *)
Proceeds(s, pc) ==
  /\ server' \in [Setup -> CallbackAt \cup {Idle}]
  /\ server'[s].pc = pc
  /\ \A r \in Setup, t \in Threads : InCallback(r, t)' <=> InCallback(r, t)
  /\ \A r \in Setup : r # s => server'[r] = server[r]

(* A server that only moves on in its callback leaves every exception where it is. *)
LEMMA GotoFacts ==
  ASSUME TypeOK, NEW s \in Setup, server[s].pc # "once", NEW pc \in PC, Goto(s, pc)
  PROVE  Proceeds(s, pc)
<1>1. server[s] \in CallbackAt
  BY InCallbackFacts
<1>2. server' = [server EXCEPT ![s] = [server[s] EXCEPT !.pc = pc]]
  BY DEF Goto
<1>3. /\ [server[s] EXCEPT !.pc = pc] \in CallbackAt
      /\ [server[s] EXCEPT !.pc = pc].pc = pc
      /\ [server[s] EXCEPT !.pc = pc].t = server[s].t
  <2>1. CASE server[s] \in [pc : PC, t : Threads]
    BY <2>1 DEF CallbackAt
  <2>2. CASE server[s] \in [pc : PC, t : Threads, b : Bkpt]
    BY <2>2 DEF CallbackAt
  <2>. QED  BY <1>1, <2>1, <2>2 DEF CallbackAt
<1>4. server[s] # Idle /\ [server[s] EXCEPT !.pc = pc] # Idle
  BY <1>1, <1>3, IdleFacts
<1>. QED  BY <1>2, <1>3, <1>4 DEF TypeOK, InCallback, Proceeds

-------------------------------------------------------------------------------
(* Steps that move no exception. *)
LEMMA Frame ==
  ASSUME InOnePlace, Counted, UNCHANGED <<queue, server, thread, suspends>>
  PROVE  InOnePlace' /\ Counted'
<1>1. QueuedOnce' /\ ServedOnce' /\ Apart'
  BY DEF InOnePlace, QueuedOnce, ServedOnce, Apart, InCallback, QueuedOn
<1>2. WaitsPending'
  BY DEF InOnePlace, WaitsPending, Pending, InCallback, QueuedOn
<1>3. Counted'
  BY DEF Counted, Holding, InCallback
<1>. QED  BY <1>1, <1>2, <1>3 DEF InOnePlace

(* A Mach call of SetupHandler preserves the invariant, in success and in failure. *)
LEMMA SetupHandlerStep ==
  ASSUME IInv, NEW k \in Setup,
         SetupFails(k) \/ PreparePort(k) \/ CreateServer(k) \/ Register(k) \/ ReadPort(k)
  PROVE  IInv'
<1>. USE DEF IInv
<1>1. UNCHANGED <<queue, server, thread, suspends, armed>>
  BY DEF SetupFails, PreparePort, CreateServer, Register, ReadPort, threadVars, bkptVars
<1>2. InOnePlace' /\ Counted'
  BY <1>1, Frame
<1>3. TypeOK' /\ Served'
  <2>1. CASE SetupFails(k)
    BY <1>1, <2>1 DEF TypeOK, Served, SetupFails, Fails, SetupAt
  <2>2. CASE PreparePort(k)
    BY <1>1, <2>2 DEF TypeOK, Served, PreparePort, Step, SetupAt
  <2>3. CASE CreateServer(k)
    BY <1>1, <2>3 DEF TypeOK, Served, CreateServer, Step, SetupAt
  <2>4. CASE Register(k)
    BY <1>1, <2>4 DEF TypeOK, Served, Register, Step, SetupAt
  <2>5. CASE ReadPort(k)
    <3>1. PICK p \in Setup \cup {Nothing} : port' = [port EXCEPT ![k] = p]
      BY <2>5 DEF ReadPort
    <3>2. p # "none"
      BY PortAssumption
    <3>3. UNCHANGED <<setup, registered>>
      BY <2>5 DEF ReadPort
    <3>. QED  BY <1>1, <3>1, <3>2, <3>3 DEF TypeOK, Served
  <2>. QED  BY <2>1, <2>2, <2>3, <2>4, <2>5
<1>. QED  BY <1>2, <1>3

(* A breakpoint written into memory preserves the invariant. *)
LEMMA EnableStep ==
  ASSUME IInv, NEW b \in Bkpt, EnableBreakpoint(b)
  PROVE  IInv'
<1>1. UNCHANGED <<setup, registered, port, queue, server, thread, suspends>>
  BY DEF EnableBreakpoint, setupVars, threadVars
<1>2. armed' \subseteq Bkpt
  BY DEF EnableBreakpoint, IInv, TypeOK
<1>. QED  BY <1>1, <1>2, Frame DEF IInv, TypeOK, Served

-------------------------------------------------------------------------------
(* A callback goes on: its exception stays with it. *)
LEMMA GoOn ==
  ASSUME IInv, NEW s \in Setup, NEW pc \in PC, Proceeds(s, pc),
         UNCHANGED <<queue, thread>>
  PROVE  InOnePlace'
<1>1. \A r \in Setup, t \in Threads : InCallback(r, t)' <=> InCallback(r, t)
  BY DEF Proceeds
<1>2. \A k \in Setup, t \in Threads : QueuedOn(t, k)' <=> QueuedOn(t, k)
  BY DEF QueuedOn
<1>3. QueuedOnce'
  BY DEF IInv, InOnePlace, QueuedOnce
<1>4. ServedOnce' /\ Apart'
  BY <1>1, <1>2 DEF IInv, InOnePlace, ServedOnce, Apart
<1>5. WaitsPending'
  BY <1>1, <1>2 DEF IInv, InOnePlace, WaitsPending, Pending
<1>. QED  BY <1>3, <1>4, <1>5 DEF InOnePlace

(* Nor does it matter for the count whether it goes on within Held. *)
LEMMA GoOnCounted ==
  ASSUME IInv, NEW s \in Setup, NEW pc \in PC, Proceeds(s, pc),
         server[s].pc \in Held <=> pc \in Held,
         UNCHANGED suspends
  PROVE  Counted'
<1>1. \A r \in Setup, t \in Threads : Holding(r, t)' <=> Holding(r, t)
  BY DEF Proceeds, Holding
<1>. QED  BY <1>1 DEF IInv, Counted

(* A server that takes an exception from its port and suspends the thread. *)
LEMMA SuspendStep ==
  ASSUME IInv, NEW s \in Setup, Suspend(s)
  PROVE  IInv'
<1>1. server[s].pc = "suspend" /\ server[s].pc # "once" /\ UNCHANGED <<setup, registered, port, queue, thread, armed>>
  BY DEF Suspend, setupVars, bkptVars
<1>2. PICK u \in Threads : u = server[s].t /\ InCallback(s, u)
  BY <1>1, InCallbackFacts DEF IInv
<1>3. thread[u].at \in Bkpt
  BY <1>2 DEF IInv, InOnePlace, WaitsPending, Pending
<1>4. Goto(s, "state") /\ suspends' = [suspends EXCEPT ![u] = @ + 1]
  BY <1>2, <1>3 DEF Suspend
<1>5. Proceeds(s, "state")
  BY <1>1, <1>4, GotoFacts DEF IInv, PC, Held
<1>6. InOnePlace'
  BY <1>1, <1>5, GoOn DEF PC, Held
<1>7. Counted'
  <2>1. \A r \in Setup : InCallback(r, u) => r = s
    BY <1>2 DEF IInv, InOnePlace, ServedOnce
  <2>2. suspends[u] = 0
    BY <1>1, <1>2, <2>1 DEF IInv, Counted, Holding, Held
  <2>3. suspends'[u] = 1
    BY <1>2, <1>4, <2>2 DEF IInv, TypeOK
  <2>4. Holding(s, u)'
    BY <1>2, <1>5 DEF Holding, Held, Proceeds
  <2>5. ASSUME NEW t \in Threads, t # u
        PROVE  suspends'[t] = suspends[t] /\ \A r \in Setup : Holding(r, t)' <=> Holding(r, t)
    <3>1. ~InCallback(s, t)
      BY <1>2, <2>5 DEF InCallback
    <3>. QED  BY <1>4, <1>5, <2>5, <3>1 DEF Holding, IInv, TypeOK, Proceeds
  <2>. QED  BY <2>3, <2>4, <2>5 DEF Counted, IInv
<1>. QED  BY <1>1, <1>2, <1>4, <1>5, <1>6, <1>7 DEF IInv, TypeOK, Served, Proceeds

(* BreakpointAtAddress in the callback. *)
LEMMA LookupStep ==
  ASSUME IInv, NEW s \in Setup, Lookup(s)
  PROVE  IInv'
<1>1. server[s].pc = "state" /\ server[s].pc # "once"
  BY DEF Lookup
<1>2. UNCHANGED <<setup, registered, port, queue, thread, suspends, armed>>
  BY DEF Lookup, setupVars, threadVars, bkptVars
<1>3. \E pc \in {"disable", "resume"} : Proceeds(s, pc)
  <2>1. PICK b \in Found :
          IF b \in Bkpt /\ active[b]
          THEN server' = [server EXCEPT ![s] = [pc |-> "disable", t |-> server[s].t, b |-> b]]
          ELSE Goto(s, "resume")
    BY DEF Lookup
  <2>2. CASE Goto(s, "resume")
    <3>1. Proceeds(s, "resume")
      BY <1>1, <2>2, GotoFacts DEF IInv, PC, Held
    <3>. QED  BY <3>1
  <2>3. CASE b \in Bkpt /\ server' = [server EXCEPT ![s] = [pc |-> "disable", t |-> server[s].t, b |-> b]]
    <3>1. server[s].t \in Threads /\ server[s] # Idle
      BY <1>1, InCallbackFacts, IdleFacts DEF IInv
    <3>2. [pc |-> "disable", t |-> server[s].t, b |-> b] \in CallbackAt
      BY <2>3, <3>1 DEF CallbackAt, PC, Held
    <3>3. [pc |-> "disable", t |-> server[s].t, b |-> b] # Idle
      BY <3>2, IdleFacts
    <3>4. /\ server' \in [Setup -> CallbackAt \cup {Idle}]
          /\ server'[s] = [pc |-> "disable", t |-> server[s].t, b |-> b]
          /\ \A r \in Setup : r # s => server'[r] = server[r]
      BY <2>3, <3>2 DEF IInv, TypeOK
    <3>5. Proceeds(s, "disable")
      BY <3>1, <3>3, <3>4 DEF Proceeds, InCallback
    <3>. QED  BY <3>5
  <2>. QED  BY <2>1, <2>2, <2>3
<1>4. PICK pc \in PC : Proceeds(s, pc) /\ pc \in Held
  BY <1>3 DEF PC, Held
<1>5. InOnePlace' /\ Counted'
  BY <1>1, <1>2, <1>4, GoOn, GoOnCounted DEF Held
<1>. QED  BY <1>2, <1>4, <1>5 DEF IInv, TypeOK, Served, Proceeds

(* DisableBreakpoint in the callback. *)
LEMMA DisableStep ==
  ASSUME IInv, NEW s \in Setup, Disable(s)
  PROVE  IInv'
<1>1. server[s].pc = "disable" /\ server[s].pc # "once"
  BY DEF Disable
<1>2. UNCHANGED <<setup, registered, port, queue, thread, suspends>>
  BY DEF Disable, setupVars, threadVars
<1>3. Proceeds(s, "success")
  BY <1>1, GotoFacts DEF Disable, IInv, PC, Held
<1>4. InOnePlace' /\ Counted'
  BY <1>1, <1>2, <1>3, GoOn, GoOnCounted DEF PC, Held
<1>5. armed' \subseteq Bkpt
  BY DEF Disable, IInv, TypeOK
<1>. QED  BY <1>2, <1>3, <1>4, <1>5 DEF IInv, TypeOK, Served, Proceeds

(* thread_resume, and the answer. *)
LEMMA ResumeStep ==
  ASSUME IInv, NEW s \in Setup, Resume(s)
  PROVE  IInv'
<1>1. server[s].pc \in {"resume", "success"} /\ server[s].pc # "once"
  BY DEF Resume, ResumeThread
<1>2. UNCHANGED <<setup, registered, port, queue, thread, armed>>
  BY DEF Resume, ResumeThread, setupVars, bkptVars
<1>3. PICK u \in Threads : u = server[s].t /\ InCallback(s, u)
  BY <1>1, InCallbackFacts DEF IInv
<1>4. suspends' = [suspends EXCEPT ![u] = @ - 1]
  BY <1>3 DEF Resume, ResumeThread
<1>5. PICK pc \in {"failure", "handled"} : Goto(s, pc)
  BY DEF Resume, ResumeThread
<1>6. pc \in PC /\ pc \notin Held
  BY <1>5 DEF PC, Held
<1>7. Proceeds(s, pc)
  BY <1>1, <1>5, <1>6, GotoFacts DEF IInv
<1>8. InOnePlace'
  BY <1>2, <1>6, <1>7, GoOn
<1>9. Counted'
  <2>1. \A r \in Setup : InCallback(r, u) => r = s
    BY <1>3 DEF IInv, InOnePlace, ServedOnce
  <2>2. suspends[u] = 1
    BY <1>1, <1>3 DEF IInv, Counted, Holding, Held
  <2>3. suspends'[u] = 0
    BY <1>3, <1>4, <2>2 DEF IInv, TypeOK
  <2>4. \A r \in Setup : ~Holding(r, u)'
    BY <1>6, <1>7, <2>1 DEF Holding, Proceeds
  <2>5. ASSUME NEW t \in Threads, t # u
        PROVE  suspends'[t] = suspends[t] /\ \A r \in Setup : Holding(r, t)' <=> Holding(r, t)
    <3>1. ~InCallback(s, t)
      BY <1>3, <2>5 DEF InCallback
    <3>. QED  BY <1>4, <1>7, <2>5, <3>1 DEF Holding, IInv, TypeOK, Proceeds
  <2>. QED  BY <2>3, <2>4, <2>5 DEF Counted, IInv
<1>. QED  BY <1>2, <1>3, <1>4, <1>7, <1>8, <1>9 DEF IInv, TypeOK, Served, Proceeds

-------------------------------------------------------------------------------
(* An exception comes: it was nowhere, and is now behind the others.       *)
LEMMA RaiseStep ==
  ASSUME IInv, NEW t \in Threads, NEW b \in Bkpt \cup {Nothing}, Raise(t, b)
  PROVE  IInv'
<1>1. thread[t] = Running /\ UNCHANGED <<setup, registered, port, server, suspends, armed>>
  BY DEF Raise, Runs, setupVars, bkptVars
<1>2. \A k \in Setup : ~QueuedOn(t, k) /\ ~InCallback(k, t)
  BY <1>1 DEF IInv, InOnePlace, WaitsPending, Pending, Running
<1>3. Counted'
  BY <1>1 DEF IInv, Counted, Holding, InCallback
<1>4. Served'
  BY <1>1 DEF IInv, Served
<1>5. CASE /\ b \in Bkpt /\ registered # "parent"
           /\ thread' = [thread EXCEPT ![t] = [st |-> "waiting", at |-> b]]
           /\ queue' = [queue EXCEPT ![registered] = Append(@, t)]
  <2>1. PICK p \in Setup : p = registered
    BY <1>5 DEF IInv, TypeOK
  <2>2. /\ queue' \in [Setup -> Seq(Threads)]
        /\ queue'[p] = Append(queue[p], t)
        /\ \A k \in Setup : k # p => queue'[k] = queue[k]
    BY <1>5, <2>1 DEF IInv, TypeOK
  <2>3. queue[p] \in Seq(Threads) /\ Len(queue[p]) \in Nat
    BY DEF IInv, TypeOK
  <2>4. /\ DOMAIN queue'[p] = DOMAIN queue[p] \cup {Len(queue[p]) + 1}
        /\ \A i \in DOMAIN queue[p] : queue'[p][i] = queue[p][i]
        /\ queue'[p][Len(queue[p]) + 1] = t
        /\ Len(queue[p]) + 1 \notin DOMAIN queue[p]
    BY <2>2, <2>3
  <2>5. \A k \in Setup, u \in Threads : QueuedOn(u, k)' <=> QueuedOn(u, k) \/ (k = p /\ u = t)
    BY <2>2, <2>4 DEF QueuedOn
  <2>6. QueuedOnce'
    <3>1. ASSUME NEW k \in Setup, NEW i \in DOMAIN queue'[k]
          PROVE  \/ i \in DOMAIN queue[k] /\ queue'[k][i] = queue[k][i] /\ queue[k][i] # t
                 \/ k = p /\ i = Len(queue[p]) + 1 /\ queue'[k][i] = t
      BY <1>2, <2>2, <2>4 DEF QueuedOn
    <3>. QED  BY <3>1 DEF QueuedOnce, IInv, InOnePlace
  <2>7. ServedOnce' /\ Apart'
    BY <1>1, <1>2, <2>5 DEF IInv, InOnePlace, ServedOnce, Apart, InCallback
  <2>8. /\ thread' \in [Threads -> Exception \cup {Running}]
        /\ thread'[t].st = "waiting" /\ thread'[t].at = b
        /\ \A u \in Threads : u # t => thread'[u] = thread[u]
    BY <1>5 DEF IInv, TypeOK, Exception
  <2>9. \A u \in Threads : Pending(u)' <=> Pending(u) \/ u = t
    BY <1>1, <2>5 DEF Pending, InCallback
  <2>10. WaitsPending'
    BY <1>5, <2>8, <2>9 DEF IInv, InOnePlace, WaitsPending
  <2>. QED  BY <1>1, <1>3, <1>4, <2>2, <2>6, <2>7, <2>8, <2>10 DEF IInv, InOnePlace, TypeOK
<1>6. CASE thread' = [thread EXCEPT ![t] = [st |-> "parent", at |-> b]] /\ UNCHANGED queue
  <2>1. /\ thread' \in [Threads -> Exception \cup {Running}]
        /\ thread'[t].st # "waiting"
        /\ \A u \in Threads : u # t => thread'[u] = thread[u]
    BY <1>6 DEF IInv, TypeOK, Exception
  <2>2. QueuedOnce' /\ ServedOnce' /\ Apart'
    BY <1>1, <1>6 DEF IInv, InOnePlace, QueuedOnce, ServedOnce, Apart, InCallback, QueuedOn
  <2>3. \A u \in Threads : Pending(u)' <=> Pending(u)
    BY <1>1, <1>6 DEF Pending, InCallback, QueuedOn
  <2>4. WaitsPending'
    BY <1>2, <2>1, <2>3 DEF IInv, InOnePlace, WaitsPending, Pending
  <2>. QED  BY <1>1, <1>3, <1>4, <1>6, <2>1, <2>2, <2>4 DEF IInv, InOnePlace, TypeOK
<1>. QED  BY <1>5, <1>6 DEF Raise, Mask

(* The parent handler answers what was passed on to it. *)
LEMMA ParentStep ==
  ASSUME IInv, NEW t \in Threads, ParentResumes(t)
  PROVE  IInv'
<1>1. UNCHANGED <<setup, registered, port, queue, server, suspends, armed>>
  BY DEF ParentResumes, setupVars, bkptVars
<1>2. /\ thread' \in [Threads -> Exception \cup {Running}]
      /\ thread'[t].st # "waiting" /\ thread[t].st # "waiting"
      /\ \A u \in Threads : u # t => thread'[u] = thread[u]
  BY DEF ParentResumes, IInv, TypeOK, Running
<1>3. QueuedOnce' /\ ServedOnce' /\ Apart'
  BY <1>1 DEF IInv, InOnePlace, QueuedOnce, ServedOnce, Apart, InCallback, QueuedOn
<1>4. \A u \in Threads : Pending(u)' <=> Pending(u)
  BY <1>1 DEF Pending, InCallback, QueuedOn
<1>5. WaitsPending'
  BY <1>2, <1>4 DEF IInv, InOnePlace, WaitsPending
<1>6. Counted'
  BY <1>1 DEF IInv, Counted, Holding, InCallback
<1>. QED  BY <1>1, <1>2, <1>3, <1>5, <1>6 DEF IInv, InOnePlace, TypeOK, Served

(* A server takes the first exception off its port. *)
LEMMA ReceiveStep ==
  ASSUME IInv, NEW s \in Setup, Receive(s)
  PROVE  IInv'
<1>1. UNCHANGED <<setup, registered, port, thread, suspends, armed>>
  BY DEF Receive, setupVars, threadVars, bkptVars
<1>2. PICK p \in Setup : /\ p = port[s] /\ queue[p] # << >>
                         /\ queue' = [queue EXCEPT ![p] = Tail(@)]
                         /\ server[s] = Idle
                         /\ server' = [server EXCEPT ![s] = [pc |-> "suspend", t |-> Head(queue[p])]]
  BY DEF Receive
<1>3. queue[p] \in Seq(Threads) /\ Len(queue[p]) \in Nat \ {0}
  BY <1>2 DEF IInv, TypeOK
<1>4. PICK u \in Threads : u = Head(queue[p]) /\ u = queue[p][1] /\ 1 \in DOMAIN queue[p]
  BY <1>2, <1>3
<1>5. /\ queue' \in [Setup -> Seq(Threads)]
      /\ queue'[p] = Tail(queue[p])
      /\ \A k \in Setup : k # p => queue'[k] = queue[k]
  BY <1>2, <1>3 DEF IInv, TypeOK
<1>6. /\ \A i \in DOMAIN queue'[p] : i + 1 \in DOMAIN queue[p] /\ i + 1 # 1 /\ queue'[p][i] = queue[p][i + 1]
      /\ \A i \in DOMAIN queue[p] : i # 1 => i - 1 \in DOMAIN queue'[p] /\ queue'[p][i - 1] = queue[p][i]
  BY <1>3, <1>5
<1>7. [pc |-> "suspend", t |-> u] \in CallbackAt /\ [pc |-> "suspend", t |-> u] # Idle
  BY IdleFacts DEF CallbackAt, PC
<1>8. /\ server' \in [Setup -> CallbackAt \cup {Idle}]
      /\ server'[s] = [pc |-> "suspend", t |-> u]
      /\ \A r \in Setup : r # s => server'[r] = server[r]
  BY <1>2, <1>4, <1>7 DEF IInv, TypeOK
<1>9. \A r \in Setup, v \in Threads : InCallback(r, v)' <=> InCallback(r, v) \/ (r = s /\ v = u)
  BY <1>2, <1>7, <1>8 DEF InCallback
<1>10. \A k \in Setup, v \in Threads : QueuedOn(v, k)' <=> QueuedOn(v, k) /\ v # u
  <2>1. ASSUME NEW k \in Setup, NEW i \in DOMAIN queue[k], queue[k][i] = u
        PROVE  k = p /\ i = 1
    BY <1>4, <2>1 DEF IInv, InOnePlace, QueuedOnce
  <2>2. ASSUME NEW v \in Threads
        PROVE  QueuedOn(v, p)' <=> QueuedOn(v, p) /\ v # u
    <3>1. QueuedOn(v, p)' => QueuedOn(v, p) /\ v # u
      BY <1>6, <2>1 DEF QueuedOn
    <3>2. QueuedOn(v, p) /\ v # u => QueuedOn(v, p)'
      BY <1>4, <1>6 DEF QueuedOn
    <3>. QED  BY <3>1, <3>2
  <2>3. ASSUME NEW k \in Setup, k # p, NEW v \in Threads
        PROVE  QueuedOn(v, k)' <=> QueuedOn(v, k) /\ v # u
    BY <1>5, <2>1, <2>3 DEF QueuedOn
  <2>. QED  BY <2>2, <2>3
<1>11. QueuedOnce'
  <2>1. ASSUME NEW k \in Setup, NEW i \in DOMAIN queue'[k]
        PROVE  LET j == IF k = p THEN i + 1 ELSE i IN j \in DOMAIN queue[k] /\ queue'[k][i] = queue[k][j]
    BY <1>5, <1>6
  <2>2. ASSUME NEW k \in Setup, NEW l \in Setup, NEW i \in DOMAIN queue'[k], NEW j \in DOMAIN queue'[l],
               queue'[k][i] = queue'[l][j]
        PROVE  k = l /\ i = j
    <3>1. k = l /\ (IF k = p THEN i + 1 ELSE i) = (IF l = p THEN j + 1 ELSE j)
      BY <2>1, <2>2 DEF IInv, InOnePlace, QueuedOnce
    <3>2. k = p => i \in Nat /\ j \in Nat
      BY <1>5, <3>1
    <3>. QED  BY <3>1, <3>2
  <2>. QED  BY <2>2 DEF QueuedOnce
<1>12. QueuedOn(u, p)
  BY <1>4 DEF QueuedOn
<1>13. ServedOnce' /\ Apart'
  BY <1>9, <1>10, <1>12 DEF IInv, InOnePlace, ServedOnce, Apart
<1>14. WaitsPending'
  <2>1. \A v \in Threads : Pending(v)' <=> Pending(v)
    BY <1>9, <1>10, <1>12 DEF Pending
  <2>. QED  BY <1>1, <2>1 DEF IInv, InOnePlace, WaitsPending
<1>15. Counted'
  <2>1. \A r \in Setup, v \in Threads : Holding(r, v)' <=> Holding(r, v)
    BY <1>2, <1>8, <1>9 DEF Holding, Held, InCallback
  <2>. QED  BY <1>1, <2>1 DEF IInv, Counted
<1>. QED  BY <1>1, <1>5, <1>8, <1>11, <1>13, <1>14, <1>15 DEF IInv, InOnePlace, TypeOK, Served

(* The answered exception is nowhere any more. *)
LEMMA ReplyStep ==
  ASSUME IInv, NEW s \in Setup, Reply(s)
  PROVE  IInv'
<1>1. server[s].pc \in {"handled", "failure"} /\ server[s].pc # "once"
  BY DEF Reply
<1>2. UNCHANGED <<setup, registered, port, queue, suspends, armed>>
  BY DEF Reply, setupVars, bkptVars
<1>3. PICK u \in Threads : u = server[s].t /\ InCallback(s, u)
  BY <1>1, InCallbackFacts DEF IInv
<1>4. thread[u] \in Exception
  <2>1. thread[u].st = "waiting"
    BY <1>3 DEF IInv, InOnePlace, WaitsPending, Pending
  <2>2. thread[u] # Running
    BY <2>1 DEF Running
  <2>. QED  BY <2>2 DEF IInv, TypeOK
<1>5. /\ server' \in [Setup -> CallbackAt \cup {Idle}]
      /\ server'[s] = Idle
      /\ \A r \in Setup : r # s => server'[r] = server[r]
  BY DEF Reply, IInv, TypeOK
<1>6. /\ thread' \in [Threads -> Exception \cup {Running}]
      /\ thread'[u].st # "waiting"
      /\ \A v \in Threads : v # u => thread'[v] = thread[v]
  <2>1. Running.st # "waiting" /\ [thread[u] EXCEPT !.st = "parent"].st # "waiting"
    BY <1>4 DEF Running, Exception
  <2>2. [thread[u] EXCEPT !.st = "parent"] \in Exception
    BY <1>4 DEF Exception
  <2>3. \/ thread' = [thread EXCEPT ![u] = Running]
        \/ thread' = [thread EXCEPT ![u] = [thread[u] EXCEPT !.st = "parent"]]
    BY <1>3 DEF Reply
  <2>. QED  BY <2>1, <2>2, <2>3 DEF IInv, TypeOK
<1>7. \A r \in Setup, v \in Threads : InCallback(r, v)' <=> InCallback(r, v) /\ v # u
  BY <1>3, <1>5 DEF InCallback, IInv, InOnePlace, ServedOnce
<1>8. \A k \in Setup, v \in Threads : (QueuedOn(v, k)' <=> QueuedOn(v, k)) /\ ~QueuedOn(u, k)
  BY <1>2, <1>3 DEF QueuedOn, IInv, InOnePlace, Apart
<1>9. QueuedOnce' /\ ServedOnce' /\ Apart'
  BY <1>2, <1>7, <1>8 DEF IInv, InOnePlace, QueuedOnce, ServedOnce, Apart
<1>10. WaitsPending'
  <2>1. \A v \in Threads : Pending(v)' <=> Pending(v) /\ v # u
    BY <1>7, <1>8 DEF Pending
  <2>. QED  BY <1>6, <2>1 DEF IInv, InOnePlace, WaitsPending
<1>11. Counted'
  <2>1. \A r \in Setup, v \in Threads : Holding(r, v)' <=> Holding(r, v)
    BY <1>1, <1>3, <1>5, <1>7 DEF Holding, Held, InCallback, IInv, InOnePlace, ServedOnce
  <2>. QED  BY <1>2, <2>1 DEF IInv, Counted
<1>. QED  BY <1>2, <1>5, <1>6, <1>9, <1>10, <1>11 DEF IInv, InOnePlace, TypeOK, Served

-------------------------------------------------------------------------------
(* No step breaks the invariant. *)
LEMMA NextIInv == IInv /\ [Next]_vars => IInv'
<1>. SUFFICES ASSUME IInv, [Next]_vars PROVE IInv'
  OBVIOUS
<1>1. ASSUME NEW k \in Setup, Callback(k)
      PROVE  IInv'
  BY <1>1, ReceiveStep, SuspendStep, LookupStep, DisableStep, ResumeStep, ReplyStep DEF Callback
<1>2. ASSUME NEW k \in Setup,
             SetupFails(k) \/ PreparePort(k) \/ CreateServer(k) \/ Register(k) \/ ReadPort(k)
      PROVE  IInv'
  BY <1>2, SetupHandlerStep
<1>3. ASSUME NEW t \in Threads, (\E b \in Bkpt \cup {Nothing} : Raise(t, b)) \/ ParentResumes(t)
      PROVE  IInv'
  BY <1>3, RaiseStep, ParentStep
<1>4. CASE UNCHANGED vars
  BY <1>4, Frame DEF IInv, TypeOK, Served, vars, setupVars, threadVars, bkptVars
<1>. QED  BY <1>1, <1>2, <1>3, <1>4, EnableStep DEF Next

(* The inductive invariant of SetupHandler and its servers holds in every reachable state. *)
THEOREM Invariant == Spec => []IInv
BY InitIInv, NextIInv, PTL DEF Spec

(***************************************************************************)
(* A thread stays suspended by the server only while the callback for its  *)
(* exception is under way.                                                 *)
(***************************************************************************)
THEOREM SuspensionsEnd == Spec => []SuspendBalanced
<1>1. IInv => SuspendBalanced
  <2>. SUFFICES ASSUME IInv, NEW t \in Threads, suspends[t] > 0
                PROVE  \E s \in Setup : InCallback(s, t)
    BY DEF SuspendBalanced
  <2>. QED  BY DEF IInv, Counted, Holding
<1>. QED  BY <1>1, Invariant, PTL

(***************************************************************************)
(* An exception is on one port or with one server, exactly while its       *)
(* thread waits: none is answered twice, and none is lost.                 *)
(***************************************************************************)
THEOREM NoneTwiceNoneLost == Spec => []AnsweredOnce
<1>1. IInv => AnsweredOnce
  <2>. SUFFICES ASSUME IInv, NEW t \in Threads
                PROVE  /\ \A x, y \in Places(t) : x = y
                       /\ Places(t) # {} <=> thread[t].st = "waiting"
    BY DEF AnsweredOnce
  <2>. DEFINE OnPort(k)  == {<<k, i>> : i \in {i \in DOMAIN queue[k] : queue[k][i] = t}}
              Serving    == {<<s, 0>> : s \in {s \in Setup : InCallback(s, t)}}
  <2>1. \A x : x \in Places(t) <=> (\E k \in Setup : x \in OnPort(k)) \/ x \in Serving
    BY DEF Places
  <2>2. \A k : \A x : x \in OnPort(k) <=> \E i \in DOMAIN queue[k] : x = <<k, i>> /\ queue[k][i] = t
    OBVIOUS
  <2>3. \A x : x \in Serving <=> \E s \in Setup : x = <<s, 0>> /\ InCallback(s, t)
    OBVIOUS
  <2>. HIDE DEF OnPort, Serving
  <2>4. \A x, y \in Places(t) : x = y
    BY <2>1, <2>2, <2>3 DEF IInv, InOnePlace, QueuedOnce, ServedOnce, Apart, QueuedOn
  <2>5. Places(t) # {} <=> Pending(t)
    BY <2>1, <2>2, <2>3 DEF Pending, QueuedOn
  <2>. QED  BY <2>4, <2>5 DEF IInv, InOnePlace, WaitsPending
<1>. QED  BY <1>1, Invariant, PTL

(***************************************************************************)
(* The port that is registered for breakpoint exceptions has a server, and *)
(* its SetupHandler has returned true.                                     *)
(***************************************************************************)
THEOREM RegisteredIsServed == Spec => []RegisteredHasServer
<1>1. IInv => RegisteredHasServer
  BY DEF IInv, TypeOK, Served, RegisteredHasServer
<1>. QED  BY <1>1, Invariant, PTL
===============================================================================
