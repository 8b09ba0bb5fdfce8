------------------------ MODULE HardwareBreakpointProofs ------------------------
(***************************************************************************)
(* Hardware breakpoints, for any number of threads of the target,          *)
(* breakpoints and calls: what holds while no two calls of Apply or Reset  *)
(* overlap, of the threads of which the kernel has refused nothing.        *)
(*                                                                         *)
(* The argument is about the one call there then is.  The threads that it  *)
(* has still to go through are as they were before it, the others as they  *)
(* are to be after it, and the one it has loaded differs from what will be *)
(* saved in the breakpoint's own slot only.  in_use_ is above every slot   *)
(* that holds the breakpoint's address, so that the slot Apply enables is  *)
(* the one Reset finds.                                                    *)
(***************************************************************************)
EXTENDS HardwareBreakpoint, TLAPS

-------------------------------------------------------------------------------
(* The shape of the state. *)

Addresses == {Address[b] : b \in Bkpt}

Looping == [fn : {"Apply", "Reset"}, bp : Bkpt, todo : SUBSET Thread, at : {"loop"}]
Saving  == [fn : {"Apply", "Reset"}, bp : Bkpt, todo : SUBSET Thread, at : {"save"},
            thread : Thread, new : Registers]

TypeOK ==
  /\ life \in [Thread -> {"unborn", "alive", "dead"}]
  /\ regs \in [Thread -> Registers]
  /\ suspends \in Nat
  /\ paused \in BOOLEAN /\ doubtful \in BOOLEAN
  /\ toTask \in [Pauser -> {"nothing", "suspend", "resume"}]
  /\ refused \subseteq Thread
  /\ in_use \in [Bkpt -> Int]
  /\ active \in [Bkpt -> BOOLEAN]
  /\ call \in [Debugger -> {NoCall} \cup Looping \cup Saving]
  /\ done \in [Bkpt -> {"never", "applied", "applyFailed", "reset"}]
  /\ listed \in [Bkpt -> SUBSET Thread]
  /\ overlapped \in BOOLEAN

-------------------------------------------------------------------------------
(* The inductive invariant.  Each part but the first says nothing once two *)
(* calls have overlapped.                                                  *)

Arms(r, b) == \E i \in r.on : r.dr[i] = Address[b]
Living     == {t \in Thread : life[t] # "dead"} \ refused
Born       == {t \in Thread : life[t] # "unborn"}

(* A pause that holds is one of the kernel's, and nobody is about to end   *)
(* it without having said so.                                              *)
PausesOK ==
  /\ paused /\ ~ doubtful => ~ AtWork("resume")
  /\ PauseHolds => suspends > 0

Suspended == paused /\ suspends > 0 /\ ~ AtWork("resume")

OneCall == \A d, e \in Debugger : call[d] # NoCall /\ call[e] # NoCall => d = e

(* b's address is below in_use_ only, and of the slots that hold it none   *)
(* but the last is enabled.                                                *)
SlotsOK(r) ==
  \A b \in Bkpt : \A i \in Slot : r.dr[i] = Address[b] =>
    /\ platform = "x86_64"
    /\ i < in_use[b]
    /\ b \notin rearmed => \A j \in r.on : r.dr[j] = Address[b] => i <= j

TargetOK ==
  \A t \in Thread :
    /\ life[t] = "unborn" => regs[t] = Fresh
    /\ t \in Living => SlotsOK(regs[t])

Alone(b) == \A c \in Bkpt \ {b} : listed[c] = {}

(* Between Load and Save the registers to be saved differ from the         *)
(* thread's own in what the breakpoint's slot holds and enables, and in    *)
(* what the thread has done if it was not paused.                          *)
SaveOK(d, c) ==
  /\ c.thread \in Born /\ c.thread \notin c.todo
  /\ platform = "x86_64"
  /\ d \notin unsure => Suspended /\ (c.thread \in Living => c.new.pc = regs[c.thread].pc)
  /\ c.fn = "Apply" => c.thread \in listed[c.bp] /\ active[c.bp]
  /\ c.thread \in Living =>
       /\ SlotsOK(c.new)
       /\ listed[c.bp] # {}
       /\ \A b \in Bkpt \ {c.bp} : \A i \in Slot : c.new.dr[i] = Address[b] =>
            /\ regs[c.thread].dr[i] = Address[b]
            /\ i \in c.new.on => i \in regs[c.thread].on
       /\ c.fn = "Apply" => Arms(c.new, c.bp)
       /\ c.fn = "Reset" /\ c.bp \notin rearmed => ~ Arms(c.new, c.bp)

Ahead(c, t) == t \in c.todo \/ (c.at = "save" /\ c.thread = t)

ApplyOK(c) ==
  /\ c.todo \subseteq listed[c.bp]
  /\ c.bp \notin rearmed => \A t \in c.todo \cap Living : ~ Arms(regs[t], c.bp)
  /\ Alone(c.bp) =>
       \A t \in listed[c.bp] \cap Living : Ahead(c, t) \/ Arms(regs[t], c.bp)

ResetOK(c) ==
  c.bp \notin rearmed =>
    \A t \in Living : Arms(regs[t], c.bp) => Ahead(c, t)

CallOK(d, c) ==
  /\ c.todo \subseteq Born
  /\ c.todo # {} => platform = "x86_64"
  /\ c.fn = "Apply" => ApplyOK(c)
  /\ c.fn = "Reset" => ResetOK(c)
  /\ c.at = "save" => SaveOK(d, c)

CallsOK == \A d \in Debugger : call[d].fn # "none" => CallOK(d, call[d])

ListedOK ==
  \A b \in Bkpt :
    /\ listed[b] \subseteq Born
    /\ listed[b] # {} => platform = "x86_64"
    /\ listed[b] = {} => \A t \in Living : \A i \in Slot : regs[t].dr[i] # Address[b]

Resetting(b) == \E d \in Debugger : call[d].fn = "Reset" /\ call[d].bp = b

OutcomeOK(b) ==
  /\ b \notin rearmed /\ done[b] \in {"never", "reset"} /\ Settled(b) =>
       \A t \in Living : ~ Arms(regs[t], b)
  /\ done[b] = "applied" /\ Settled(b) /\ Alone(b) =>
       \A t \in listed[b] \cap Living : Arms(regs[t], b)
  /\ b \notin rearmed =>
       \A t \in Living : Arms(regs[t], b) => active[b] \/ Resetting(b)

Quiet == /\ OneCall /\ TargetOK /\ CallsOK /\ ListedOK
         /\ \A b \in Bkpt : OutcomeOK(b)

IInv == TypeOK /\ PausesOK /\ (~ overlapped => Quiet)

-------------------------------------------------------------------------------
(* Types. *)

(* A debugger thread is in a call or it is not. *)
LEMMA CallShape ==
  ASSUME TypeOK, NEW d \in Debugger
  PROVE  /\ call[d] = NoCall \/ call[d] \in Looping \/ call[d] \in Saving
         /\ call[d] = NoCall <=> call[d].fn = "none"
         /\ call[d] \in Looping <=> call[d].fn # "none" /\ call[d].at = "loop"
         /\ call[d] \in Saving <=> call[d].fn # "none" /\ call[d].at = "save"
<1>1. call[d] \in {NoCall} \cup Looping \cup Saving
  BY DEF TypeOK
<1>2. NoCall.fn = "none"
  BY DEF NoCall
<1>3. ASSUME NEW c \in Looping
      PROVE  c.fn # "none" /\ c.at = "loop"
  BY <1>3 DEF Looping
<1>4. ASSUME NEW c \in Saving
      PROVE  c.fn # "none" /\ c.at = "save"
  BY <1>4 DEF Saving
<1> QED
  BY <1>1, <1>2, <1>3, <1>4

(* A thread that has not run yet has written no register. *)
LEMMA FreshIsRegisters == Fresh \in Registers
BY BoundAssumption DEF Fresh, Registers, Contents, Slot

(* What Init says is well typed. *)
LEMMA InitTypeOK == Init => TypeOK
<1> SUFFICES ASSUME Init PROVE TypeOK
  OBVIOUS
<1>1. regs \in [Thread -> Registers]
  BY FreshIsRegisters DEF Init
<1>2. in_use \in [Bkpt -> Int]
  BY InUseAssumption DEF Init
<1>3. life \in [Thread -> {"unborn", "alive", "dead"}]
  BY DEF Init
<1> QED
  BY <1>1, <1>2, <1>3 DEF Init, TypeOK

(* A call that begins. *)
LEMMA EnterType ==
  ASSUME TypeOK, NEW d \in Debugger, NEW b \in Bkpt, NEW fn \in {"Apply", "Reset"},
         Enter(d, b, fn)
  PROVE  /\ call' \in [Debugger -> {NoCall} \cup Looping \cup Saving]
         /\ overlapped' \in BOOLEAN
<1>1. [fn |-> fn, bp |-> b, todo |-> Threads, at |-> "loop"] \in Looping
  BY DEF Looping, Threads, Alive
<1> QED
  BY <1>1 DEF TypeOK, Enter

(* Registers that have been loaded. *)
LEMMA LoadType ==
  ASSUME TypeOK, NEW d \in Debugger, NEW t \in Thread, NEW r \in Registers,
         call[d] \in Looping, ToSave(d, t, r)
  PROVE  call' \in [Debugger -> {NoCall} \cup Looping \cup Saving]
<1>1. [fn |-> call[d].fn, bp |-> call[d].bp, todo |-> call[d].todo \ {t},
       at |-> "save", thread |-> t, new |-> r] \in Saving
  BY DEF Looping, Saving
<1> QED
  BY <1>1 DEF TypeOK, ToSave

(* What the kernel may have refused of a thread is noted. *)
LEMMA NoteFacts ==
  ASSUME TypeOK, NEW t \in Thread, NEW answered \in Answers(t), Note(t, answered)
  PROVE  /\ refused' \subseteq Thread
         /\ refused \subseteq refused'
         /\ t \in Alive /\ t \notin refused' => answered = Flavor
         /\ t \notin Alive => answered = {}
         /\ answered \subseteq Flavor
BY DEF TypeOK, Note, Answers

(* Load gives the thread's registers, if the kernel does. *)
LEMMA LoadedFacts ==
  ASSUME TypeOK, NEW t \in Thread, NEW answered \in Answers(t), NEW r \in Loaded(t, answered)
  PROVE  r \in Registers /\ (answered = Flavor => r = regs[t])
<1>1. /\ regs[t] \in Registers /\ regs[t].pc \in 0 .. MaxPC
      /\ regs[t].dr \in Contents /\ regs[t].on \subseteq Slot
      /\ regs[t] = [pc |-> regs[t].pc, dr |-> regs[t].dr, on |-> regs[t].on]
  BY DEF TypeOK, Registers
<1>2. PICK pc \in IF "general" \in answered THEN {regs[t].pc} ELSE 0 .. MaxPC,
           debug \in IF "debug" \in answered THEN {[dr |-> regs[t].dr, on |-> regs[t].on]}
                                             ELSE Junk :
        r = [pc |-> pc, dr |-> debug.dr, on |-> debug.on]
  BY DEF Loaded
<1>3. [dr |-> regs[t].dr, on |-> regs[t].on] \in Debug
  BY <1>1 DEF Debug
<1>4. pc \in 0 .. MaxPC /\ debug \in Debug
  BY <1>1, <1>2, <1>3, JunkAssumption
<1>5. debug.dr \in Contents /\ debug.on \subseteq Slot
  BY <1>4 DEF Debug
<1>6. r \in Registers
  BY <1>2, <1>4, <1>5 DEF Registers
<1>7. answered = Flavor => r = regs[t]
  BY <1>1, <1>2 DEF Flavor
<1> QED
  BY <1>6, <1>7

(* And Save sets them, if the kernel does. *)
LEMMA SavedFacts ==
  ASSUME TypeOK, NEW t \in Thread, NEW answered, NEW r \in Registers
  PROVE  /\ Saved(t, answered, r) \in Registers
         /\ answered = Flavor => Saved(t, answered, r) = r
         /\ answered = {} => Saved(t, answered, r) = regs[t]
<1>1. \A x \in Registers : /\ x.pc \in 0 .. MaxPC /\ x.dr \in Contents /\ x.on \subseteq Slot
                           /\ x = [pc |-> x.pc, dr |-> x.dr, on |-> x.on]
  BY DEF Registers
<1>2. regs[t] \in Registers
  BY DEF TypeOK
<1>3. Saved(t, answered, r) \in Registers
  BY <1>1, <1>2 DEF Saved, Registers
<1> QED
  BY <1>1, <1>2, <1>3 DEF Saved, Flavor

(* Every step of Apply and Reset on a thread starts from a call at the     *)
(* head of its loop.                                                       *)
LEMMA AtLoop ==
  ASSUME TypeOK, NEW d \in Debugger, NEW t \in Thread, NEW fn \in {"Apply", "Reset"},
         NextThread(d, t, fn)
  PROVE  call[d] \in Looping /\ call[d].bp \in Bkpt /\ call[d].fn = fn /\ t \in call[d].todo
<1>1. call[d] \in Looping
  BY CallShape DEF NextThread
<1> QED
  BY <1>1 DEF NextThread, Looping

(* The registers Apply makes of what it has loaded. *)
LEMMA ArmedRegisters ==
  ASSUME NEW r \in Registers, NEW b \in Bkpt, NEW i \in Slot
  PROVE  /\ Armed(r, i, b) \in Registers
         /\ Armed(r, i, b).pc = r.pc
         /\ Armed(r, i, b).on = r.on \cup {i}
         /\ Armed(r, i, b).dr[i] = Address[b]
         /\ \A j \in Slot \ {i} : Armed(r, i, b).dr[j] = r.dr[j]
<1>1. r.pc \in 0 .. MaxPC /\ r.on \subseteq Slot /\ r.dr \in Contents
  BY DEF Registers
<1>2. [r.dr EXCEPT ![i] = Address[b]] \in Contents
  BY <1>1 DEF Contents
<1> QED
  BY <1>1, <1>2 DEF Registers, Armed, Contents

(* And those Reset makes. *)
LEMMA DisarmedRegisters ==
  ASSUME NEW r \in Registers, NEW i
  PROVE  /\ Disarmed(r, i) \in Registers
         /\ Disarmed(r, i).dr = r.dr
         /\ Disarmed(r, i).on = r.on \ {i}
         /\ Disarmed(r, i).pc = r.pc
BY DEF Registers, Disarmed

(* The target runs on. *)
LEMMA RanRegisters ==
  ASSUME NEW r \in Registers, r.pc < MaxPC
  PROVE  /\ [r EXCEPT !.pc = @ + 1] \in Registers
         /\ [r EXCEPT !.pc = @ + 1].dr = r.dr
         /\ [r EXCEPT !.pc = @ + 1].on = r.on
         /\ [r EXCEPT !.pc = @ + 1].pc = r.pc + 1
         /\ r.pc + 1 > r.pc
BY BoundAssumption DEF Registers

(* Save stores well typed registers, and the call goes on. *)
LEMMA SaveType ==
  ASSUME TypeOK, NEW d \in Debugger, Save(d)
  PROVE  /\ regs' \in [Thread -> Registers]
         /\ call' \in [Debugger -> {NoCall} \cup Looping \cup Saving]
         /\ call[d] \in Saving
<1>1. call[d] \in Saving
  BY CallShape DEF Save
<1>2. call[d].new \in Registers /\ call[d].thread \in Thread
  BY <1>1 DEF Saving
<1>3. [fn |-> call[d].fn, bp |-> call[d].bp, todo |-> call[d].todo, at |-> "loop"] \in Looping
  BY <1>1 DEF Saving, Looping
<1>4. regs' \in [Thread -> Registers]
  <2>1. PICK answered : regs' = [regs EXCEPT ![call[d].thread] =
                                   Saved(call[d].thread, answered, call[d].new)]
    BY DEF Save
  <2> QED
    BY <1>2, <2>1, SavedFacts DEF TypeOK
<1>5. call' \in [Debugger -> {NoCall} \cup Looping \cup Saving]
  BY <1>3 DEF TypeOK, Save, BackToLoop
<1> QED
  BY <1>1, <1>4, <1>5

(* Every step keeps the types. *)
LEMMA NextTypeOK == TypeOK /\ [Next]_vars => TypeOK'
<1> SUFFICES ASSUME TypeOK, [Next]_vars PROVE TypeOK'
  OBVIOUS
<1>1. ASSUME NEW p \in Pauser, Pause(p) \/ TaskSuspend(p) PROVE TypeOK'
  <2>1. toTask' \in [Pauser -> {"nothing", "suspend", "resume"}]
    BY <1>1 DEF TypeOK, Pause, TaskSuspend
  <2>2. suspends' \in Nat
    BY <1>1 DEF TypeOK, Pause, TaskSuspend
  <2>3. paused' \in BOOLEAN /\ doubtful' \in BOOLEAN
    BY <1>1 DEF TypeOK, Pause, TaskSuspend
  <2> QED
    BY <1>1, <2>1, <2>2, <2>3 DEF TypeOK, Pause, TaskSuspend, target, applies
<1>2. ASSUME NEW p \in Pauser, Resume(p) \/ TaskResume(p) PROVE TypeOK'
  <2>1. toTask' \in [Pauser -> {"nothing", "suspend", "resume"}]
    BY <1>2 DEF TypeOK, Resume, TaskResume
  <2>2. suspends' \in Nat
    BY <1>2 DEF TypeOK, Resume, TaskResume
  <2>3. paused' \in BOOLEAN /\ doubtful' \in BOOLEAN
    BY <1>2 DEF TypeOK, Resume, TaskResume, history, pauses
  <2> QED
    BY <1>2, <2>1, <2>2, <2>3 DEF TypeOK, Resume, TaskResume, target, applies, history
<1>3. ASSUME NEW t \in Thread, Run(t) PROVE TypeOK'
  <2>1. [regs[t] EXCEPT !.pc = @ + 1] \in Registers
    BY <1>3, RanRegisters DEF TypeOK, Run
  <2>2. regs' \in [Thread -> Registers]
    BY <1>3, <2>1 DEF TypeOK, Run
  <2> QED
    BY <1>3, <2>2 DEF TypeOK, Run, task, history, applies, pauses
<1>4. ASSUME NEW t \in Thread, StartOrExit(t) PROVE TypeOK'
  <2>1. life' \in [Thread -> {"unborn", "alive", "dead"}]
    BY <1>4 DEF TypeOK, StartOrExit
  <2> QED
    BY <1>4, <2>1 DEF TypeOK, StartOrExit, task, history, applies, pauses
<1>5. ASSUME NEW d \in Debugger, NEW b \in Bkpt, Apply(d, b) PROVE TypeOK'
  <2>1. Enter(d, b, "Apply")
    BY <1>5 DEF Apply
  <2>2. /\ call' \in [Debugger -> {NoCall} \cup Looping \cup Saving]
        /\ overlapped' \in BOOLEAN
    BY <2>1, EnterType
  <2>3. listed' \in [Bkpt -> SUBSET Thread]
    BY <1>5 DEF TypeOK, Apply, Threads, Alive
  <2> QED
    BY <1>5, <2>2, <2>3 DEF TypeOK, Apply, Enter, target, task, pauses
<1>6. ASSUME NEW d \in Debugger, NEW b \in Bkpt, Reset(d, b) PROVE TypeOK'
  <2>1. Enter(d, b, "Reset")
    BY <1>6 DEF Reset
  <2>2. /\ call' \in [Debugger -> {NoCall} \cup Looping \cup Saving]
        /\ overlapped' \in BOOLEAN
    BY <2>1, EnterType
  <2> QED
    BY <1>6, <2>2 DEF TypeOK, Reset, Enter, target, task, pauses
<1>7. ASSUME NEW d \in Debugger, NEW t \in Thread, ApplyToThread(d, t) PROVE TypeOK'
  <2> DEFINE b == call[d].bp
             i == in_use[b]
  <2>1. call[d] \in Looping /\ b \in Bkpt /\ i \in Slot
    BY <1>7, AtLoop DEF ApplyToThread, ApplyTo
  <2>2. PICK answered \in Answers(t) :
          /\ Note(t, answered)
          /\ \E r \in Loaded(t, answered) : ToSave(d, t, Armed(r, i, b))
    BY <1>7 DEF ApplyToThread, ApplyTo
  <2>3. PICK r \in Loaded(t, answered) : ToSave(d, t, Armed(r, i, b))
    BY <2>2
  <2>4. Armed(r, i, b) \in Registers /\ refused' \subseteq Thread
    BY <2>1, <2>2, LoadedFacts, ArmedRegisters, NoteFacts
  <2>5. call' \in [Debugger -> {NoCall} \cup Looping \cup Saving]
    BY <2>1, <2>3, <2>4, LoadType
  <2>6. in_use' \in [Bkpt -> Int]
    BY <1>7, <2>1 DEF TypeOK, ApplyToThread, ApplyTo, Slot
  <2>7. active' \in [Bkpt -> BOOLEAN]
    BY <1>7, <2>1 DEF TypeOK, ApplyToThread
  <2>8. UNCHANGED doubtful
    BY <2>3 DEF ToSave
  <2> QED
    BY <1>7, <2>4, <2>5, <2>6, <2>7, <2>8 DEF TypeOK, ApplyToThread, target, task, applies
<1>8. ASSUME NEW d \in Debugger, NEW t \in Thread, ApplyRefuses(d, t) PROVE TypeOK'
  <2>1. call[d] \in Looping /\ call[d].bp \in Bkpt
    BY <1>8, AtLoop DEF ApplyRefuses
  <2>2. /\ call' \in [Debugger -> {NoCall} \cup Looping \cup Saving]
        /\ done' \in [Bkpt -> {"never", "applied", "applyFailed", "reset"}]
    BY <1>8, <2>1 DEF TypeOK, ApplyRefuses, Return
  <2> QED
    BY <1>8, <2>2 DEF TypeOK, ApplyRefuses, target, task, pauses
<1>9. ASSUME NEW d \in Debugger, NEW t \in Thread, ResetThread(d, t) PROVE TypeOK'
  <2> DEFINE b == call[d].bp
  <2>1. call[d] \in Looping /\ b \in Bkpt
    BY <1>9, AtLoop DEF ResetThread
  <2>2. PICK answered \in Answers(t) :
          /\ Note(t, answered)
          /\ \E r \in Loaded(t, answered) : ToSave(d, t, Disarmed(r, Index(r, b)))
    BY <1>9 DEF ResetThread
  <2>3. PICK r \in Loaded(t, answered) : ToSave(d, t, Disarmed(r, Index(r, b)))
    BY <2>2
  <2>4. Disarmed(r, Index(r, b)) \in Registers /\ refused' \subseteq Thread
    BY <2>2, LoadedFacts, DisarmedRegisters, NoteFacts
  <2>5. call' \in [Debugger -> {NoCall} \cup Looping \cup Saving]
    BY <2>1, <2>3, <2>4, LoadType
  <2>6. active' \in [Bkpt -> BOOLEAN]
    BY <1>9, <2>1 DEF TypeOK, ResetThread
  <2>7. UNCHANGED doubtful
    BY <2>3 DEF ToSave
  <2> QED
    BY <1>9, <2>4, <2>5, <2>6, <2>7 DEF TypeOK, ResetThread, target, task, applies
<1>10. ASSUME NEW d \in Debugger, NEW t \in Thread, SkipThread(d, t) PROVE TypeOK'
  <2>1. call[d] \in Looping
    BY <1>10, AtLoop DEF SkipThread
  <2>2. [call[d] EXCEPT !.todo = @ \ {t}] \in Looping
    BY <2>1 DEF Looping
  <2>3. call' \in [Debugger -> {NoCall} \cup Looping \cup Saving]
    BY <1>10, <2>2 DEF TypeOK, SkipThread
  <2>4. refused' \subseteq Thread
    BY <1>10, NoteFacts DEF SkipThread
  <2> QED
    BY <1>10, <2>3, <2>4 DEF TypeOK, SkipThread, target, task, applies, pauses
<1>11. ASSUME NEW d \in Debugger, Save(d) PROVE TypeOK'
  <2>1. call[d].thread \in Thread
    BY <1>11, SaveType DEF Saving
  <2>2. refused' \subseteq Thread
    BY <1>11, <2>1, NoteFacts DEF Save
  <2> QED
    BY <1>11, <2>2, SaveType DEF TypeOK, Save, task, applies, pauses
<1>12. ASSUME NEW d \in Debugger, EndOfLoop(d) PROVE TypeOK'
  <2>1. call[d] \in Looping /\ call[d].bp \in Bkpt
    BY <1>12, CallShape DEF EndOfLoop, Looping
  <2>2. /\ call' \in [Debugger -> {NoCall} \cup Looping \cup Saving]
        /\ done' \in [Bkpt -> {"never", "applied", "applyFailed", "reset"}]
    BY <1>12, <2>1 DEF TypeOK, EndOfLoop, Return
  <2> QED
    BY <1>12, <2>2 DEF TypeOK, EndOfLoop, target, task, pauses
<1>13. CASE UNCHANGED vars
  BY <1>13 DEF TypeOK, vars, target, task, history, applies, pauses
<1> QED
  BY <1>1, <1>2, <1>3, <1>4, <1>5, <1>6, <1>7, <1>8, <1>9, <1>10, <1>11, <1>12, <1>13
     DEF Next

(* Every state of every behaviour is well typed. *)
THEOREM TypeCorrect == Spec => []TypeOK
<1>1. Init => TypeOK
  BY InitTypeOK
<1>2. TypeOK /\ [Next]_vars => TypeOK'
  BY NextTypeOK
<1> QED
  BY <1>1, <1>2, PTL DEF Spec

-------------------------------------------------------------------------------
(* Registers and calls. *)

(* A breakpoint is enabled in a thread by the registers of the thread. *)
LEMMA EnabledArms ==
  ASSUME TypeOK, NEW t \in Thread, NEW b \in Bkpt
  PROVE  Enabled(t, b) <=> Arms(regs[t], b)
<1>1. regs[t].on \subseteq Slot
  BY DEF TypeOK, Registers
<1> QED
  BY <1>1 DEF Enabled, Arms, Holding

(* An enabled slot holds the address. *)
LEMMA ArmsHolds ==
  ASSUME NEW r \in Registers, NEW b \in Bkpt, Arms(r, b)
  PROVE  \E i \in Slot : r.dr[i] = Address[b]
BY DEF Arms, Registers

(* Nothing is enabled in a thread whose registers nobody has written. *)
LEMMA FreshIsClear ==
  ASSUME NEW b \in Bkpt
  PROVE  ~ Arms(Fresh, b) /\ \A i \in Slot : Fresh.dr[i] # Address[b]
BY AddressAssumption DEF Arms, Fresh

(* Last is the greatest of the slots. *)
LEMMA LastIsGreatest ==
  ASSUME NEW is \in SUBSET Slot, is # {}
  PROVE  Last(is) \in is /\ \A j \in is : j <= Last(is)
<1>1. \E i \in is : \A j \in is : j <= i
  <2>1. CASE 3 \in is
    BY <2>1 DEF Slot
  <2>2. CASE 3 \notin is /\ 2 \in is
    BY <2>2 DEF Slot
  <2>3. CASE 3 \notin is /\ 2 \notin is /\ 1 \in is
    BY <2>3 DEF Slot
  <2>4. CASE 3 \notin is /\ 2 \notin is /\ 1 \notin is
    <3>1. \A j \in is : j = 0
      BY <2>4 DEF Slot
    <3> QED
      BY <3>1
  <2> QED
    BY <2>1, <2>2, <2>3, <2>4
<1> QED
  BY <1>1 DEF Last

(* The one call, before a step of it. *)
LEMMA SoleNow ==
  ASSUME TypeOK, OneCall, CallsOK, NEW d \in Debugger, call[d].fn # "none"
  PROVE  /\ \A e \in Debugger \ {d} : call[e] = NoCall
         /\ CallOK(d, call[d])
         /\ \A b \in Bkpt : Settled(b) <=> call[d].bp # b
         /\ \A b \in Bkpt : Resetting(b) <=> call[d].fn = "Reset" /\ call[d].bp = b
<1>1. call[d] # NoCall
  BY CallShape
<1>2. \A e \in Debugger \ {d} : call[e] = NoCall
  BY <1>1 DEF OneCall
<1>3. \A e \in Debugger \ {d} : call[e].fn = "none"
  BY <1>2 DEF NoCall
<1>4. CallOK(d, call[d])
  BY DEF CallsOK
<1>5. \A b \in Bkpt : Settled(b) <=> call[d].bp # b
  BY <1>3 DEF Settled
<1>6. \A b \in Bkpt : Resetting(b) <=> call[d].fn = "Reset" /\ call[d].bp = b
  BY <1>3 DEF Resetting
<1> QED
  BY <1>2, <1>4, <1>5, <1>6

(* And after it, when it goes on as x, *)
LEMMA SoleNext ==
  ASSUME TypeOK, NEW d \in Debugger, NEW x \in Looping \cup Saving,
         \A e \in Debugger \ {d} : call[e] = NoCall,
         call' = [call EXCEPT ![d] = x]
  PROVE  /\ OneCall'
         /\ CallOK(d, x)' => CallsOK'
         /\ \A b \in Bkpt : Settled(b)' <=> x.bp # b
         /\ \A b \in Bkpt : Resetting(b)' <=> x.fn = "Reset" /\ x.bp = b
<1>1. call'[d] = x /\ \A e \in Debugger \ {d} : call'[e] = NoCall
  BY DEF TypeOK
<1>2. x.fn # "none"
  BY DEF Looping, Saving
<1>3. \A e \in Debugger \ {d} : call'[e].fn = "none"
  BY <1>1 DEF NoCall
<1>4. OneCall'
  BY <1>1 DEF OneCall
<1>5. CallOK(d, x)' => CallsOK'
  BY <1>1, <1>3 DEF CallsOK
<1>6. \A b \in Bkpt : Settled(b)' <=> x.bp # b
  BY <1>1, <1>2, <1>3 DEF Settled
<1>7. \A b \in Bkpt : Resetting(b)' <=> x.fn = "Reset" /\ x.bp = b
  BY <1>1, <1>3 DEF Resetting
<1> QED
  BY <1>4, <1>5, <1>6, <1>7

(* or when it has returned. *)
LEMMA NobodyNext ==
  ASSUME \A e \in Debugger : call'[e] = NoCall
  PROVE  /\ OneCall' /\ CallsOK'
         /\ \A b \in Bkpt : Settled(b)' /\ ~ Resetting(b)'
<1>1. \A e \in Debugger : call'[e].fn = "none"
  BY DEF NoCall
<1>2. OneCall'
  BY DEF OneCall
<1>3. CallsOK'
  BY <1>1 DEF CallsOK
<1>4. \A b \in Bkpt : Settled(b)'
  BY <1>1 DEF Settled
<1>5. \A b \in Bkpt : ~ Resetting(b)'
  BY <1>1 DEF Resetting
<1> QED
  BY <1>2, <1>3, <1>4, <1>5

(* Nobody is in a call when one begins that overlaps with none. *)
LEMMA EnterAlone ==
  ASSUME TypeOK, NEW d \in Debugger, NEW b \in Bkpt, NEW fn \in {"Apply", "Reset"},
         Enter(d, b, fn), ~ overlapped'
  PROVE  /\ \A e \in Debugger : call[e] = NoCall
         /\ \A e \in Bkpt : Settled(e) /\ ~ Resetting(e)
         /\ ~ overlapped
<1>1. ~ overlapped /\ \A e \in Debugger : call[e] = NoCall
  BY DEF Enter, TypeOK
<1>2. \A e \in Debugger : call[e].fn = "none"
  BY <1>1 DEF NoCall
<1>3. \A e \in Bkpt : Settled(e)
  BY <1>2 DEF Settled
<1>4. \A e \in Bkpt : ~ Resetting(e)
  BY <1>2 DEF Resetting
<1> QED
  BY <1>1, <1>3, <1>4

(* A thread that may still run and that Threads leaves out has nothing in  *)
(* its debug registers.                                                    *)
LEMMA ThreadsEnough ==
  ASSUME TypeOK, TargetOK, NEW t \in Living, t \notin Threads, NEW b \in Bkpt
  PROVE  ~ Arms(regs[t], b) /\ \A i \in Slot : regs[t].dr[i] # Address[b]
<1>1. t \in Thread /\ life[t] # "dead" /\ regs[t] \in Registers
  BY DEF Living, TypeOK
<1>2. \A i \in Slot : regs[t].dr[i] # Address[b]
  <2>1. CASE platform # "x86_64"
    BY <1>1, <2>1 DEF TargetOK, SlotsOK
  <2>2. CASE platform = "x86_64"
    <3>1. life[t] = "unborn"
      BY <1>1, <2>2 DEF Threads, Alive, TypeOK
    <3>2. regs[t] = Fresh
      BY <1>1, <3>1 DEF TargetOK
    <3> QED
      BY <3>2, FreshIsClear
  <2> QED
    BY <2>1, <2>2
<1> QED
  BY <1>1, <1>2, ArmsHolds

(* A step that leaves the threads and the slots in use alone. *)
LEMMA TargetStays ==
  ASSUME TargetOK, UNCHANGED <<platform, life, regs, in_use, rearmed>>, Living' \subseteq Living
  PROVE  TargetOK'
<1>1. ASSUME NEW t \in Thread, t \in Living' PROVE SlotsOK(regs[t])'
  <2>1. t \in Living
    BY <1>1
  <2>2. SlotsOK(regs[t])
    BY <2>1 DEF TargetOK
  <2> QED
    BY <2>2 DEF SlotsOK
<1> QED
  BY <1>1 DEF TargetOK

(* Nobody comes to life again, and what the kernel has refused is not      *)
(* forgotten.                                                              *)
LEMMA LivingShrinks ==
  ASSUME UNCHANGED life, refused \subseteq refused'
  PROVE  Living' \subseteq Living /\ Born' = Born /\ Living \subseteq Thread
BY DEF Living, Born

-------------------------------------------------------------------------------
(* Steps of the target and of its task: the debug registers stay.  A       *)
(* thread may start or exit, and run where no call has seen it paused.     *)
LEMMA TargetStep ==
  ASSUME TypeOK, Quiet,
         UNCHANGED <<platform, in_use, active, call, done, listed, rearmed>>,
         Living' \subseteq Living, Born \subseteq Born',
         \A t \in Thread : /\ regs'[t].dr = regs[t].dr /\ regs'[t].on = regs[t].on
                           /\ life'[t] = "unborn" =>
                                life[t] = "unborn" /\ regs'[t] = regs[t],
         \A d \in Debugger : call[d] \in Saving /\ d \notin unsure' =>
           /\ Suspended'
           /\ call[d].thread \in Living' => call[d].new.pc = regs'[call[d].thread].pc
  PROVE  Quiet'
<1>1. \A t \in Thread, b \in Bkpt : Arms(regs'[t], b) <=> Arms(regs[t], b)
  BY DEF Arms
<1>2. \A r : SlotsOK(r)' <=> SlotsOK(r)
  BY DEF SlotsOK
<1>3. OneCall'
  BY DEF Quiet, OneCall
<1>4. TargetOK'
  <2> SUFFICES ASSUME NEW t \in Thread
               PROVE  /\ life'[t] = "unborn" => regs'[t] = Fresh
                      /\ t \in Living' => SlotsOK(regs[t])'
    BY DEF TargetOK
  <2>1. life'[t] = "unborn" => regs'[t] = Fresh
    BY DEF Quiet, TargetOK
  <2>2. ASSUME t \in Living' PROVE SlotsOK(regs[t])'
    <3>1. t \in Living
      BY <2>2
    <3>2. SlotsOK(regs[t])
      BY <3>1 DEF Quiet, TargetOK
    <3> QED
      BY <3>2 DEF SlotsOK
  <2> QED
    BY <2>1, <2>2
<1>5. CallsOK'
  <2> SUFFICES ASSUME NEW d \in Debugger, call[d].fn # "none", NEW c, c = call[d]
               PROVE  CallOK(d, c)'
    BY DEF CallsOK
  <2>1. CallOK(d, c)
    BY DEF Quiet, CallsOK
  <2>2. c \in Looping \cup Saving
    BY CallShape
  <2>3. c.todo \subseteq Born' /\ (c.todo # {} => platform' = "x86_64")
    BY <2>1 DEF CallOK
  <2>4. c.todo \subseteq Thread /\ c.bp \in Bkpt
    BY <2>2 DEF Looping, Saving
  <2>5. Living' \subseteq Thread /\ listed[c.bp] \subseteq Thread
    BY <2>4 DEF Living, TypeOK
  <2>6. ASSUME c.fn = "Apply" PROVE ApplyOK(c)'
    <3>1. ApplyOK(c)
      BY <2>1, <2>6 DEF CallOK
    <3> QED
      BY <1>1, <2>4, <2>5, <3>1 DEF ApplyOK, Alone, Ahead
  <2>7. ASSUME c.fn = "Reset" PROVE ResetOK(c)'
    <3>1. ResetOK(c)
      BY <2>1, <2>7 DEF CallOK
    <3> QED
      BY <1>1, <2>4, <2>5, <3>1 DEF ResetOK, Ahead
  <2>8. ASSUME c.at = "save" PROVE SaveOK(d, c)'
    <3>1. SaveOK(d, c) /\ c \in Saving
      BY <2>1, <2>8, CallShape DEF CallOK
    <3>2. c.thread \in Thread
      BY <3>1 DEF Saving
    <3>3. d \notin unsure' =>
            Suspended' /\ (c.thread \in Living' => c.new.pc = regs'[c.thread].pc)
      BY <3>1
    <3>4. c.thread \in Living' => c.thread \in Living
      OBVIOUS
    <3> QED
      BY <1>2, <3>1, <3>2, <3>3, <3>4 DEF SaveOK
  <2> QED
    BY <2>3, <2>6, <2>7, <2>8 DEF CallOK
<1>6. ListedOK'
  <2>1. ListedOK /\ Living' \subseteq Thread
    BY DEF Quiet, Living
  <2> QED
    BY <2>1 DEF ListedOK
<1>7. ASSUME NEW b \in Bkpt PROVE OutcomeOK(b)'
  <2>1. OutcomeOK(b) /\ Living' \subseteq Thread
    BY DEF Quiet, Living
  <2>2. (Settled(b)' <=> Settled(b)) /\ (Resetting(b)' <=> Resetting(b))
        /\ (Alone(b)' <=> Alone(b))
    BY DEF Settled, Resetting, Alone
  <2> QED
    BY <1>1, <2>1, <2>2 DEF OutcomeOK
<1> QED
  BY <1>3, <1>4, <1>5, <1>6, <1>7 DEF Quiet

(* A call for which the pause has held since its Load has loaded what the  *)
(* thread still is, and the task is suspended.                             *)
LEMMA PausedSinceLoad ==
  ASSUME TypeOK, Quiet, NEW d \in Debugger, call[d] \in Saving, d \notin unsure
  PROVE  /\ Suspended
         /\ call[d].thread \in Living => call[d].new.pc = regs[call[d].thread].pc
<1>1. CallOK(d, call[d]) /\ call[d].at = "save"
  BY CallShape DEF Quiet, CallsOK
<1> QED
  BY <1>1 DEF CallOK, SaveOK

(* A thread runs, and no call has seen a pause hold since its Load. *)
LEMMA RunStep ==
  ASSUME TypeOK, Quiet, NEW t \in Thread, Run(t)
  PROVE  Quiet'
<1>1. UNCHANGED <<platform, life, in_use, active, call, done, listed, rearmed, refused, unsure>>
  BY DEF Run, history, applies, pauses
<1>2. Living' \subseteq Living /\ Born \subseteq Born'
  BY <1>1 DEF Living, Born
<1>3. \A u \in Thread : /\ regs'[u].dr = regs[u].dr /\ regs'[u].on = regs[u].on
                        /\ u # t => regs'[u] = regs[u]
  <2>1. regs' = [regs EXCEPT ![t].pc = @ + 1] /\ regs[t].pc < MaxPC
    BY DEF Run
  <2>2. regs'[t] = [regs[t] EXCEPT !.pc = @ + 1] /\ regs[t] \in Registers
    BY <2>1 DEF TypeOK
  <2>3. regs'[t].dr = regs[t].dr /\ regs'[t].on = regs[t].on
    BY <2>1, <2>2, RanRegisters
  <2>4. \A u \in Thread : u # t => regs'[u] = regs[u]
    BY <2>1 DEF TypeOK
  <2> QED
    BY <2>3, <2>4
<1>4. \A u \in Thread : life'[u] = "unborn" => life[u] = "unborn" /\ regs'[u] = regs[u]
  BY <1>1, <1>3 DEF Run, Alive
<1>5. ~ Suspended
  BY DEF Run, Suspended
<1>6. \A d \in Debugger : call[d] \in Saving => d \in unsure
  BY <1>5, PausedSinceLoad
<1> QED
  BY <1>1, <1>2, <1>3, <1>4, <1>6, TargetStep

(* The registers of a thread that starts or exits stay as they are. *)
LEMMA StartOrExitStep ==
  ASSUME TypeOK, Quiet, NEW t \in Thread, StartOrExit(t)
  PROVE  Quiet'
<1>1. UNCHANGED <<platform, regs, in_use, active, call, done, listed, rearmed, refused, unsure>>
  BY DEF StartOrExit, history, applies, pauses
<1>2. \A u \in Thread : /\ u # t => life'[u] = life[u]
                        /\ u = t => life[u] # "dead" /\ life'[u] # "unborn"
  BY DEF StartOrExit, TypeOK
<1>3. Living' \subseteq Living /\ Born \subseteq Born'
  BY <1>1, <1>2 DEF Living, Born
<1>4. ~ Suspended
  BY DEF StartOrExit, Suspended
<1>5. \A d \in Debugger : call[d] \in Saving => d \in unsure
  BY <1>4, PausedSinceLoad
<1> QED
  BY <1>1, <1>2, <1>3, <1>5, TargetStep

(* A step that takes no suspension away from a call that has seen it hold. *)
LEMMA SuspendedStep ==
  ASSUME TypeOK, Quiet, Suspended => Suspended',
         UNCHANGED <<platform, life, regs, in_use, active, call, done, listed, rearmed, refused,
                     unsure>>
  PROVE  Quiet'
<1>1. Living' = Living /\ Born' = Born
  BY DEF Living, Born
<1>2. \A d \in Debugger : call[d] \in Saving /\ d \notin unsure =>
        /\ Suspended'
        /\ call[d].thread \in Living => call[d].new.pc = regs[call[d].thread].pc
  BY PausedSinceLoad
<1> QED
  BY <1>1, <1>2, TargetStep

(* So do the two lines of Pause, *)
LEMMA PauseStep ==
  ASSUME TypeOK, Quiet, NEW p \in Pauser, Pause(p) \/ TaskSuspend(p)
  PROVE  Quiet'
<1>1. UNCHANGED <<platform, life, regs, in_use, active, call, done, listed, rearmed, refused,
                  unsure>>
  BY DEF Pause, TaskSuspend, applies, target
<1>2. AtWork("resume")' => AtWork("resume")
  BY DEF Pause, TaskSuspend, AtWork, TypeOK
<1>3. suspends > 0 => suspends' > 0
  BY DEF Pause, TaskSuspend, TypeOK
<1>4. paused => paused'
  BY DEF Pause, TaskSuspend
<1>5. Suspended => Suspended'
  BY <1>2, <1>3, <1>4 DEF Suspended
<1> QED
  BY <1>1, <1>5, SuspendedStep

(* after the first of Resume no call has seen the pause hold, *)
LEMMA ResumeStep ==
  ASSUME TypeOK, Quiet, NEW p \in Pauser, Resume(p)
  PROVE  Quiet'
<1>1. UNCHANGED <<platform, life, regs, in_use, active, call, done, listed, rearmed, refused>>
  BY DEF Resume, target, applies
<1>2. Living' \subseteq Living /\ Born \subseteq Born'
  BY <1>1 DEF Living, Born
<1>3. \A d \in Debugger : call[d] \in Saving => d \in unsure'
  BY CallShape DEF Resume, InCall
<1> QED
  BY <1>1, <1>2, <1>3, TargetStep

(* and the second of Resume ends no pause that one has. *)
LEMMA TaskResumeStep ==
  ASSUME TypeOK, Quiet, NEW p \in Pauser, TaskResume(p)
  PROVE  Quiet'
<1>1. UNCHANGED <<platform, life, regs, in_use, active, call, done, listed, rearmed, refused,
                  unsure>>
  BY DEF TaskResume, target, history, applies, pauses
<1>2. ~ Suspended
  BY DEF TaskResume, Suspended, AtWork
<1> QED
  BY <1>1, <1>2, SuspendedStep

(* A step that changes nothing. *)
LEMMA StutterStep ==
  ASSUME TypeOK, Quiet, UNCHANGED vars
  PROVE  Quiet'
<1>1. UNCHANGED <<platform, life, regs, in_use, active, call, done, listed, rearmed, refused,
                  unsure, suspends, paused, toTask>>
  BY DEF vars, target, task, history, applies, pauses
<1>2. Suspended => Suspended'
  BY <1>1 DEF Suspended, AtWork
<1> QED
  BY <1>1, <1>2, SuspendedStep

-------------------------------------------------------------------------------
(* Steps of Apply. *)

(* Apply takes its snapshot of the threads. *)
LEMMA ApplyStep ==
  ASSUME TypeOK, Quiet, NEW d \in Debugger, NEW b \in Bkpt, Apply(d, b), ~ overlapped'
  PROVE  Quiet'
<1>1. Enter(d, b, "Apply")
  BY DEF Apply
<1>2. /\ \A e \in Debugger : call[e] = NoCall
      /\ \A e \in Bkpt : Settled(e) /\ ~ Resetting(e)
  BY <1>1, EnterAlone
<1>3. PICK x : x = [fn |-> "Apply", bp |-> b, todo |-> Threads, at |-> "loop"]
  OBVIOUS
<1>4. x \in Looping /\ x.fn = "Apply" /\ x.bp = b /\ x.todo = Threads /\ x.at = "loop"
  BY <1>3 DEF Looping, Threads, Alive
<1>5. call' = [call EXCEPT ![d] = x]
  BY <1>1, <1>3 DEF Enter
<1>6. /\ OneCall'
      /\ CallOK(d, x)' => CallsOK'
      /\ \A e \in Bkpt : Settled(e)' <=> x.bp # e
      /\ \A e \in Bkpt : Resetting(e)' <=> x.fn = "Reset" /\ x.bp = e
  BY <1>2, <1>4, <1>5, SoleNext
<1>7. UNCHANGED <<platform, life, regs, in_use, active, done, refused>>
  BY <1>1 DEF Enter, target
<1>8. Living' = Living /\ Born' = Born
  BY <1>7 DEF Living, Born
<1>9. /\ rearmed \subseteq rearmed'
      /\ b \notin rearmed' => done[b] \in {"never", "reset"}
      /\ \A e \in Bkpt \ {b} : e \in rearmed' => e \in rearmed
  BY DEF Apply
<1>10. /\ listed'[b] = Threads
       /\ \A e \in Bkpt \ {b} : listed'[e] = listed[e]
  BY DEF Apply, TypeOK
<1>11. Threads \subseteq Born /\ (Threads # {} => platform = "x86_64")
  BY DEF Threads, Alive, Born
<1>12. TargetOK'
  <2> SUFFICES ASSUME NEW t \in Thread
               PROVE  /\ life'[t] = "unborn" => regs'[t] = Fresh
                      /\ t \in Living' => SlotsOK(regs[t])'
    BY DEF TargetOK
  <2>1. life[t] = "unborn" => regs[t] = Fresh
    BY DEF Quiet, TargetOK
  <2>2. t \in Living => SlotsOK(regs[t])
    BY DEF Quiet, TargetOK
  <2>3. SlotsOK(regs[t]) => SlotsOK(regs[t])'
    BY <1>7, <1>9 DEF SlotsOK
  <2> QED
    BY <1>7, <1>8, <2>1, <2>2, <2>3
<1>13. CallOK(d, x)'
  <2>1. b \notin rearmed' => \A t \in x.todo \cap Living : ~ Arms(regs[t], b)
    <3>1. OutcomeOK(b)
      BY DEF Quiet
    <3> QED
      BY <1>2, <1>9, <3>1 DEF OutcomeOK
  <2>2. ApplyOK(x)'
    BY <1>4, <1>7, <1>8, <1>10, <2>1 DEF ApplyOK, Ahead
  <2> QED
    BY <1>4, <1>7, <1>8, <1>11, <2>2 DEF CallOK
<1>14. ListedOK'
  <2> SUFFICES ASSUME NEW e \in Bkpt
               PROVE  /\ listed'[e] \subseteq Born
                      /\ listed'[e] # {} => platform = "x86_64"
                      /\ listed'[e] = {} =>
                           \A t \in Living : \A i \in Slot : regs[t].dr[i] # Address[e]
    BY <1>7, <1>8 DEF ListedOK
  <2>1. CASE e = b
    BY <1>10, <1>11, <2>1, ThreadsEnough DEF Quiet
  <2>2. CASE e # b
    BY <1>10, <2>2 DEF Quiet, ListedOK
  <2> QED
    BY <2>1, <2>2
<1>15. ASSUME NEW e \in Bkpt PROVE OutcomeOK(e)'
  <2>1. OutcomeOK(e)
    BY DEF Quiet
  <2>2. e \notin rearmed' =>
          \A t \in Living : Arms(regs[t], e) => active[e] \/ Resetting(e)'
    BY <1>2, <1>9, <2>1 DEF OutcomeOK
  <2>3. CASE e = b
    BY <1>4, <1>6, <1>7, <1>8, <2>2, <2>3 DEF OutcomeOK
  <2>4. CASE e # b
    <3>1. e \notin rearmed' => e \notin rearmed
      BY <1>9
    <3>2. ASSUME done[e] = "applied", Alone(e)'
          PROVE  \A t \in listed[e] \cap Living : Arms(regs[t], e)
      <4>1. CASE Alone(e)
        BY <1>2, <2>1, <3>2, <4>1 DEF OutcomeOK
      <4>2. CASE ~ Alone(e)
        <5>1. Threads = {}
          BY <1>10, <2>4, <3>2 DEF Alone
        <5>2. platform = "x86_64" => Living \cap Born = {}
          BY <5>1 DEF Threads, Alive, Living, Born, TypeOK
        <5>3. listed[e] \subseteq Born /\ (listed[e] # {} => platform = "x86_64")
          BY DEF Quiet, ListedOK
        <5> QED
          BY <5>2, <5>3
      <4> QED
        BY <4>1, <4>2
    <3>3. e \notin rearmed' /\ done[e] \in {"never", "reset"} =>
            \A t \in Living : ~ Arms(regs[t], e)
      BY <1>2, <2>1, <3>1 DEF OutcomeOK
    <3> QED
      BY <1>7, <1>8, <1>10, <2>2, <2>4, <3>2, <3>3 DEF OutcomeOK
  <2> QED
    BY <2>3, <2>4
<1> QED
  BY <1>6, <1>12, <1>13, <1>14, <1>15 DEF Quiet

(* Apply chooses the slot and arms what it has loaded. *)
LEMMA ApplyToThreadStep ==
  ASSUME TypeOK, PausesOK, Quiet, NEW d \in Debugger, NEW t \in Thread, ApplyToThread(d, t)
  PROVE  Quiet'
<1>1. PICK c : c = call[d]
  OBVIOUS
<1>2. PICK b : b = call[d].bp
  OBVIOUS
<1>3. PICK i : i = in_use[b]
  OBVIOUS
<1>4. PICK answered \in Answers(t) :
        Note(t, answered) /\ \E r \in Loaded(t, answered) : ToSave(d, t, Armed(r, i, b))
  BY <1>2, <1>3 DEF ApplyToThread, ApplyTo
<1>5. PICK r \in Loaded(t, answered) : ToSave(d, t, Armed(r, i, b))
  BY <1>4
<1>6. PICK n : n = Armed(r, i, b)
  OBVIOUS
<1>7. PICK x : x = [fn |-> c.fn, bp |-> b, todo |-> c.todo \ {t},
                    at |-> "save", thread |-> t, new |-> n]
  OBVIOUS
<1>7a. NextThread(d, t, "Apply") /\ i \in Slot /\ ToSave(d, t, n)
  BY <1>2, <1>3, <1>5, <1>6 DEF ApplyToThread, ApplyTo
<1>8. /\ call[d] \in Looping /\ b \in Bkpt /\ c.bp = b /\ c.fn = "Apply" /\ c.at = "loop"
      /\ call[d].fn # "none" /\ t \in c.todo /\ c.todo \subseteq Thread
  BY <1>1, <1>2, <1>7a, AtLoop DEF Looping, NextThread
<1>9. r \in Registers /\ n \in Registers
  BY <1>5, <1>6, <1>8, <1>7a, LoadedFacts, ArmedRegisters
<1>10. /\ x \in Saving /\ x.fn = "Apply" /\ x.bp = b /\ x.todo = c.todo \ {t}
       /\ x.at = "save" /\ x.thread = t /\ x.new = n
  BY <1>7, <1>8, <1>9 DEF Saving
<1>11. call' = [call EXCEPT ![d] = x]
  BY <1>1, <1>2, <1>7, <1>7a DEF ToSave
<1>12. /\ \A e \in Debugger \ {d} : call[e] = NoCall
       /\ CallOK(d, c)
       /\ \A e \in Bkpt : Settled(e) <=> c.bp # e
       /\ \A e \in Bkpt : Resetting(e) <=> c.fn = "Reset" /\ c.bp = e
  BY <1>1, <1>8, SoleNow DEF Quiet
<1>13. /\ OneCall'
       /\ CallOK(d, x)' => CallsOK'
       /\ \A e \in Bkpt : Settled(e)' <=> x.bp # e
       /\ \A e \in Bkpt : Resetting(e)' <=> x.fn = "Reset" /\ x.bp = e
  BY <1>10, <1>11, <1>12, SoleNext
<1>14. UNCHANGED <<platform, life, regs, suspends, paused, toTask, done, listed, rearmed>>
  BY DEF ApplyToThread, target, task, applies
<1>15. Living' \subseteq Living /\ Born' = Born /\ Living \subseteq Thread
  BY <1>4, <1>14, NoteFacts, LivingShrinks
<1>15a. t \in Living' => r = regs[t]
  <2>1. life[t] # "unborn"
    BY <1>8, <1>12 DEF CallOK, Born
  <2>2. t \in Living' => t \in Alive /\ t \notin refused'
    BY <1>14, <2>1 DEF Living, Alive, TypeOK
  <2> QED
    BY <1>4, <1>5, <2>2, NoteFacts, LoadedFacts
<1>16. /\ in_use'[b] = i + 1 /\ in_use[b] = i
       /\ \A e \in Bkpt \ {b} : in_use'[e] = in_use[e]
       /\ \A e \in Bkpt : in_use[e] \in Int /\ in_use[e] <= in_use'[e]
  <2>1. in_use' = [in_use EXCEPT ![b] = i + 1]
    BY <1>2, <1>3 DEF ApplyToThread, ApplyTo
  <2> QED
    BY <1>3, <1>8, <1>7a, <2>1 DEF TypeOK, Slot
<1>17. active'[b] = TRUE /\ \A e \in Bkpt \ {b} : active'[e] = active[e]
  BY <1>2, <1>8 DEF ApplyToThread, TypeOK
<1>18. /\ n.pc = r.pc /\ n.on = r.on \cup {i} /\ n.dr[i] = Address[b]
       /\ \A j \in Slot \ {i} : n.dr[j] = r.dr[j]
  BY <1>6, <1>8, <1>9, <1>7a, ArmedRegisters
<1>19. r.on \subseteq Slot /\ n.on \subseteq Slot /\ Slot \subseteq Int
  BY <1>9 DEF Registers, Slot
<1>20. ApplyOK(c) /\ c.todo \subseteq Born /\ platform = "x86_64"
  BY <1>8, <1>12 DEF CallOK
<1>21. TargetOK'
  <2> SUFFICES ASSUME NEW u \in Thread
               PROVE  /\ life'[u] = "unborn" => regs'[u] = Fresh
                      /\ u \in Living' => SlotsOK(regs[u])'
    BY DEF TargetOK
  <2>1. life[u] = "unborn" => regs[u] = Fresh
    BY DEF Quiet, TargetOK
  <2>2. u \in Living => SlotsOK(regs[u])
    BY DEF Quiet, TargetOK
  <2>3. SlotsOK(regs[u]) => SlotsOK(regs[u])'
    BY <1>14, <1>16, <1>19 DEF SlotsOK
  <2> QED
    BY <1>14, <1>15, <2>1, <2>2, <2>3
<1>22. ASSUME t \in Living' PROVE SlotsOK(n)'
  <2>1. SlotsOK(r) /\ t \in Living /\ r = regs[t]
    BY <1>15, <1>22, <1>15a DEF Quiet, TargetOK
  <2> SUFFICES ASSUME NEW e \in Bkpt, NEW k \in Slot, n.dr[k] = Address[e]
               PROVE  /\ platform = "x86_64"
                      /\ k < in_use'[e]
                      /\ e \notin rearmed => \A j \in n.on : n.dr[j] = Address[e] => k <= j
    BY <1>14 DEF SlotsOK
  <2>2. CASE k = i
    <3>1. e = b
      BY <1>8, <1>18, <2>2, AddressAssumption
    <3>2. b \notin rearmed => \A j \in r.on : r.dr[j] # Address[b]
      BY <1>8, <1>20, <2>1 DEF ApplyOK, Arms
    <3>3. k < in_use'[e]
      BY <1>16, <1>19, <2>2, <3>1
    <3>4. b \notin rearmed => \A j \in n.on : n.dr[j] = Address[b] => j = i
      BY <1>18, <1>19, <3>2
    <3>5. e \notin rearmed => \A j \in n.on : n.dr[j] = Address[e] => k <= j
      BY <1>19, <2>2, <3>1, <3>4
    <3> QED
      BY <1>20, <3>3, <3>5
  <2>3. CASE k # i
    <3>1. r.dr[k] = Address[e]
      BY <1>18, <2>3
    <3>2. /\ k < in_use[e]
          /\ e \notin rearmed => \A j \in r.on : r.dr[j] = Address[e] => k <= j
      BY <2>1, <3>1 DEF SlotsOK
    <3>3. k < in_use'[e]
      BY <1>16, <1>19, <3>2
    <3>4. ASSUME e \notin rearmed, NEW j \in n.on, n.dr[j] = Address[e]
          PROVE  k <= j
      <4>1. CASE j = i
        <5>1. e = b
          BY <1>8, <1>18, <3>4, <4>1, AddressAssumption
        <5> QED
          BY <1>7a, <1>16, <1>19, <3>2, <4>1, <5>1
      <4>2. CASE j # i
        BY <1>18, <1>19, <3>2, <3>4, <4>2
      <4> QED
        BY <4>1, <4>2
    <3> QED
      BY <1>20, <3>3, <3>4
  <2> QED
    BY <2>2, <2>3
<1>23. SaveOK(d, x)'
  <2>1. t \in Born /\ t \in listed[b]
    BY <1>8, <1>20 DEF ApplyOK
  <2>2. d \notin unsure' => Suspended' /\ (t \in Living' => n.pc = regs[t].pc)
    <3>1. d \notin unsure' => PauseHolds
      BY <1>7a DEF ToSave
    <3>2. PauseHolds => Suspended
      BY DEF PausesOK, PauseHolds, Suspended
    <3>3. Suspended' <=> Suspended
      BY <1>14 DEF Suspended, AtWork
    <3> QED
      BY <1>18, <1>15a, <3>1, <3>2, <3>3
  <2>3. ASSUME t \in Living', NEW e \in Bkpt \ {b}, NEW k \in Slot, n.dr[k] = Address[e]
        PROVE  /\ regs[t].dr[k] = Address[e]
               /\ k \in n.on => k \in regs[t].on
    <3>1. k # i
      BY <1>8, <1>18, <2>3, AddressAssumption
    <3> QED
      BY <1>18, <1>15a, <2>3, <3>1
  <2>4. Arms(n, b)
    BY <1>18 DEF Arms
  <2> QED
    BY <1>10, <1>14, <1>15, <1>17, <1>20, <1>22, <2>1, <2>2, <2>3, <2>4 DEF SaveOK
<1>24. ApplyOK(x)'
  BY <1>8, <1>10, <1>14, <1>15, <1>20 DEF ApplyOK, Ahead, Alone
<1>25. CallOK(d, x)'
  BY <1>10, <1>14, <1>15, <1>20, <1>23, <1>24 DEF CallOK
<1>26. ListedOK'
  BY <1>14, <1>15 DEF Quiet, ListedOK
<1>27. ASSUME NEW e \in Bkpt PROVE OutcomeOK(e)'
  <2>1. OutcomeOK(e)
    BY DEF Quiet
  <2>2. /\ Settled(e)' <=> Settled(e)
        /\ Resetting(e)' <=> Resetting(e)
        /\ Alone(e)' <=> Alone(e)
    BY <1>8, <1>10, <1>12, <1>13, <1>14 DEF Alone
  <2>3. active[e] => active'[e]
    BY <1>17
  <2> QED
    BY <1>14, <1>15, <2>1, <2>2, <2>3 DEF OutcomeOK
<1> QED
  BY <1>13, <1>21, <1>25, <1>26, <1>27 DEF Quiet

(* A step that ends the call on b: what is to be shown is the outcome. *)
LEMMA ReturnStep ==
  ASSUME TypeOK, Quiet, NEW d \in Debugger, call[d].fn # "none",
         NEW b \in Bkpt, b = call[d].bp, NEW outcome, Return(d, outcome),
         UNCHANGED <<platform, life, regs, in_use, active, listed, rearmed, refused>>,
         outcome = "applied" => call[d].fn = "Apply" /\ call[d].at = "loop" /\ call[d].todo = {},
         outcome = "applyFailed" => call[d].fn = "Apply",
         outcome = "reset" => call[d].fn = "Reset" /\ call[d].at = "loop" /\ call[d].todo = {},
         outcome \in {"applied", "applyFailed", "reset"}
  PROVE  Quiet'
<1>1. /\ \A e \in Debugger \ {d} : call[e] = NoCall
      /\ CallOK(d, call[d])
      /\ \A e \in Bkpt : Settled(e) <=> call[d].bp # e
      /\ \A e \in Bkpt : Resetting(e) <=> call[d].fn = "Reset" /\ call[d].bp = e
  BY SoleNow DEF Quiet
<1>2. \A e \in Debugger : call'[e] = NoCall
  BY <1>1 DEF Return, TypeOK
<1>3. OneCall' /\ CallsOK' /\ \A e \in Bkpt : Settled(e)' /\ ~ Resetting(e)'
  BY <1>2, NobodyNext
<1>4. Living' = Living /\ Born' = Born
  BY DEF Living, Born
<1>5. TargetOK'
  BY <1>4, TargetStays DEF Quiet
<1>6. ListedOK'
  BY <1>4 DEF Quiet, ListedOK
<1>7. done'[b] = outcome /\ \A e \in Bkpt \ {b} : done'[e] = done[e]
  BY DEF Return, TypeOK
<1>8. ASSUME NEW e \in Bkpt PROVE OutcomeOK(e)'
  <2>1. OutcomeOK(e) /\ (Alone(e)' <=> Alone(e))
    BY DEF Quiet, Alone
  <2>2. CASE e # b
    BY <1>1, <1>3, <1>4, <1>7, <2>1, <2>2 DEF OutcomeOK
  <2>3. CASE e = b /\ outcome = "applied"
    <3>1. Alone(b) => \A t \in listed[b] \cap Living : Arms(regs[t], b)
      BY <1>1, <2>3 DEF CallOK, ApplyOK, Ahead
    <3>2. b \notin rearmed => \A t \in Living : Arms(regs[t], b) => active[b]
      BY <1>1, <2>1, <2>3 DEF OutcomeOK
    <3> QED
      BY <1>4, <1>7, <2>1, <2>3, <3>1, <3>2 DEF OutcomeOK
  <2>4. CASE e = b /\ outcome = "applyFailed"
    <3>1. b \notin rearmed => \A t \in Living : Arms(regs[t], b) => active[b]
      BY <1>1, <2>1, <2>4 DEF OutcomeOK
    <3> QED
      BY <1>4, <1>7, <2>4, <3>1 DEF OutcomeOK
  <2>5. CASE e = b /\ outcome = "reset"
    <3>1. b \notin rearmed => \A t \in Living : ~ Arms(regs[t], b)
      BY <1>1, <2>5 DEF CallOK, ResetOK, Ahead
    <3> QED
      BY <1>4, <1>7, <2>5, <3>1 DEF OutcomeOK
  <2> QED
    BY <2>2, <2>3, <2>4, <2>5
<1> QED
  BY <1>3, <1>5, <1>6, <1>8 DEF Quiet

(* Apply finds in_use_ past the last slot. *)
LEMMA ApplyRefusesStep ==
  ASSUME TypeOK, Quiet, NEW d \in Debugger, NEW t \in Thread, ApplyRefuses(d, t)
  PROVE  Quiet'
<1>1. NextThread(d, t, "Apply") /\ Return(d, "applyFailed")
  BY DEF ApplyRefuses
<1>2. call[d].bp \in Bkpt /\ call[d].fn = "Apply"
  BY <1>1, AtLoop
<1>3. UNCHANGED <<platform, life, regs, in_use, active, listed, rearmed, refused>>
  BY DEF ApplyRefuses, target
<1> QED
  BY <1>1, <1>2, <1>3, ReturnStep

(* Apply or Reset has gone through all its threads. *)
LEMMA EndOfLoopStep ==
  ASSUME TypeOK, Quiet, NEW d \in Debugger, EndOfLoop(d)
  PROVE  Quiet'
<1>1. call[d] \in Looping
  BY CallShape DEF EndOfLoop
<1>2. call[d].bp \in Bkpt /\ call[d].fn \in {"Apply", "Reset"}
  BY <1>1 DEF Looping
<1>3. call[d].fn # "none" /\ call[d].at = "loop" /\ call[d].todo = {}
  BY DEF EndOfLoop
<1>4. UNCHANGED <<platform, life, regs, in_use, active, listed, rearmed, refused>>
  BY DEF EndOfLoop, target
<1>5. CASE call[d].fn = "Apply"
  <2>1. Return(d, "applied")
    BY <1>5 DEF EndOfLoop
  <2> QED
    BY <1>2, <1>3, <1>4, <1>5, <2>1, ReturnStep
<1>6. CASE call[d].fn = "Reset"
  <2>1. Return(d, "reset")
    BY <1>6 DEF EndOfLoop
  <2> QED
    BY <1>2, <1>3, <1>4, <1>6, <2>1, ReturnStep
<1> QED
  BY <1>2, <1>5, <1>6

-------------------------------------------------------------------------------
(* Steps of Reset. *)

(* Reset takes its snapshot of the threads: it leaves out none that has    *)
(* the breakpoint enabled.                                                 *)
LEMMA ResetStep ==
  ASSUME TypeOK, Quiet, NEW d \in Debugger, NEW b \in Bkpt, Reset(d, b), ~ overlapped'
  PROVE  Quiet'
<1>1. Enter(d, b, "Reset")
  BY DEF Reset
<1>2. /\ \A e \in Debugger : call[e] = NoCall
      /\ \A e \in Bkpt : Settled(e) /\ ~ Resetting(e)
  BY <1>1, EnterAlone
<1>3. PICK x : x = [fn |-> "Reset", bp |-> b, todo |-> Threads, at |-> "loop"]
  OBVIOUS
<1>4. x \in Looping /\ x.fn = "Reset" /\ x.bp = b /\ x.todo = Threads /\ x.at = "loop"
  BY <1>3 DEF Looping, Threads, Alive
<1>5. call' = [call EXCEPT ![d] = x]
  BY <1>1, <1>3 DEF Enter
<1>6. /\ OneCall'
      /\ CallOK(d, x)' => CallsOK'
      /\ \A e \in Bkpt : Settled(e)' <=> x.bp # e
      /\ \A e \in Bkpt : Resetting(e)' <=> x.fn = "Reset" /\ x.bp = e
  BY <1>2, <1>4, <1>5, SoleNext
<1>7. UNCHANGED <<platform, life, regs, in_use, active, done, listed, rearmed, refused>>
  BY <1>1 DEF Reset, Enter, target
<1>8. Living' = Living /\ Born' = Born
  BY <1>7 DEF Living, Born
<1>9. TargetOK'
  BY <1>7, <1>8, TargetStays DEF Quiet
<1>10. CallOK(d, x)'
  <2>1. Threads \subseteq Born /\ (Threads # {} => platform = "x86_64")
    BY DEF Threads, Alive, Born
  <2>2. \A t \in Living : Arms(regs[t], b) => t \in Threads
    BY ThreadsEnough DEF Quiet
  <2>3. ResetOK(x)'
    BY <1>4, <1>7, <1>8, <2>2 DEF ResetOK, Ahead
  <2> QED
    BY <1>4, <1>7, <1>8, <2>1, <2>3 DEF CallOK
<1>11. ListedOK'
  BY <1>7, <1>8 DEF Quiet, ListedOK
<1>12. ASSUME NEW e \in Bkpt PROVE OutcomeOK(e)'
  <2>1. OutcomeOK(e) /\ (Alone(e)' <=> Alone(e))
    BY <1>7 DEF Quiet, Alone
  <2> QED
    BY <1>2, <1>7, <1>8, <2>1 DEF OutcomeOK
<1> QED
  BY <1>6, <1>9, <1>10, <1>11, <1>12 DEF Quiet

(* Reset has loaded a thread: if the thread may still run, it held the     *)
(* address, and its registers are to be saved without the breakpoint.      *)
LEMMA ResetLoads ==
  ASSUME TypeOK, PausesOK, Quiet, NEW d \in Debugger, NEW t \in Thread, NEW n \in Registers,
         NEW b, b = call[d].bp,
         NextThread(d, t, "Reset"), ToSave(d, t, n), refused \subseteq refused',
         active' = [active EXCEPT ![b] = FALSE],
         UNCHANGED <<platform, life, regs, suspends, paused, toTask, in_use, done, listed,
                     rearmed>>,
         t \in Living' => /\ n.pc = regs[t].pc /\ n.dr = regs[t].dr /\ n.on \subseteq regs[t].on
                          /\ \E i \in Slot : regs[t].dr[i] = Address[b]
                          /\ b \notin rearmed => ~ Arms(n, b)
  PROVE  Quiet'
<1>1. PICK c : c = call[d]
  OBVIOUS
<1>2. PICK x : x = [fn |-> c.fn, bp |-> b, todo |-> c.todo \ {t},
                    at |-> "save", thread |-> t, new |-> n]
  OBVIOUS
<1>3. /\ call[d] \in Looping /\ b \in Bkpt /\ c.bp = b /\ c.fn = "Reset" /\ c.at = "loop"
      /\ call[d].fn # "none" /\ t \in c.todo /\ c.todo \subseteq Thread
  BY <1>1, AtLoop DEF Looping, NextThread
<1>4. /\ x \in Saving /\ x.fn = "Reset" /\ x.bp = b /\ x.todo = c.todo \ {t}
      /\ x.at = "save" /\ x.thread = t /\ x.new = n
  BY <1>2, <1>3 DEF Saving
<1>5. call' = [call EXCEPT ![d] = x]
  BY <1>1, <1>2 DEF ToSave
<1>6. /\ \A e \in Debugger \ {d} : call[e] = NoCall
      /\ CallOK(d, c)
      /\ \A e \in Bkpt : Settled(e) <=> c.bp # e
      /\ \A e \in Bkpt : Resetting(e) <=> c.fn = "Reset" /\ c.bp = e
  BY <1>1, <1>3, SoleNow DEF Quiet
<1>7. /\ OneCall'
      /\ CallOK(d, x)' => CallsOK'
      /\ \A e \in Bkpt : Settled(e)' <=> x.bp # e
      /\ \A e \in Bkpt : Resetting(e)' <=> x.fn = "Reset" /\ x.bp = e
  BY <1>4, <1>5, <1>6, SoleNext
<1>8. Living' \subseteq Living /\ Born' = Born /\ Living \subseteq Thread
  BY LivingShrinks
<1>9. \A r : SlotsOK(r)' <=> SlotsOK(r)
  BY DEF SlotsOK
<1>10. TargetOK'
  BY <1>8, TargetStays DEF Quiet
<1>11. ResetOK(c) /\ c.todo \subseteq Born /\ platform = "x86_64"
  BY <1>3, <1>6 DEF CallOK
<1>12. SaveOK(d, x)'
  <2>1. d \notin unsure' => Suspended'
    <3>1. d \notin unsure' => PauseHolds
      BY DEF ToSave
    <3>2. PauseHolds => Suspended
      BY DEF PausesOK, PauseHolds, Suspended
    <3>3. Suspended' <=> Suspended
      BY DEF Suspended, AtWork
    <3> QED
      BY <3>1, <3>2, <3>3
  <2>2. ASSUME t \in Living' PROVE SlotsOK(n)' /\ listed[b] # {}
    <3>1. SlotsOK(regs[t]) /\ t \in Living
      BY <1>8, <2>2 DEF Quiet, TargetOK
    <3>2. SlotsOK(n)
      BY <2>2, <3>1 DEF SlotsOK
    <3>3. listed[b] # {}
      BY <1>3, <2>2, <3>1 DEF Quiet, ListedOK
    <3> QED
      BY <1>9, <3>2, <3>3
  <2>3. t \in Born
    BY <1>3, <1>11
  <2> QED
    BY <1>4, <1>8, <1>11, <2>1, <2>2, <2>3 DEF SaveOK
<1>13. ResetOK(x)'
  BY <1>3, <1>4, <1>8, <1>11 DEF ResetOK, Ahead
<1>14. CallOK(d, x)'
  BY <1>4, <1>8, <1>11, <1>12, <1>13 DEF CallOK
<1>15. ListedOK'
  BY <1>8 DEF Quiet, ListedOK
<1>16. ASSUME NEW e \in Bkpt PROVE OutcomeOK(e)'
  <2>1. OutcomeOK(e) /\ (Alone(e)' <=> Alone(e))
    BY DEF Quiet, Alone
  <2>2. /\ Settled(e)' <=> Settled(e)
        /\ Resetting(e)' <=> Resetting(e)
    BY <1>3, <1>4, <1>6, <1>7
  <2>3. e # b => active'[e] = active[e]
    BY DEF TypeOK
  <2>4. e = b => Resetting(e)'
    BY <1>3, <1>4, <1>7
  <2> QED
    BY <1>8, <2>1, <2>2, <2>3, <2>4 DEF OutcomeOK
<1> QED
  BY <1>7, <1>10, <1>14, <1>15, <1>16 DEF Quiet

(* Reset finds the slot by the address: the last that holds it, the only   *)
(* one that may be enabled.                                                *)
LEMMA ResetThreadStep ==
  ASSUME TypeOK, PausesOK, Quiet, NEW d \in Debugger, NEW t \in Thread, ResetThread(d, t)
  PROVE  Quiet'
<1>1. PICK b : b = call[d].bp
  OBVIOUS
<1>2. /\ NextThread(d, t, "Reset")
      /\ active' = [active EXCEPT ![b] = FALSE]
      /\ UNCHANGED <<platform, life, regs, suspends, paused, toTask, in_use, done, listed, rearmed>>
  BY <1>1 DEF ResetThread, target, task, applies
<1>3. PICK answered \in Answers(t) :
        /\ Note(t, answered)
        /\ \E r \in Loaded(t, answered) :
             Holding(r, b) # {} /\ ToSave(d, t, Disarmed(r, Index(r, b)))
  BY <1>1 DEF ResetThread
<1>4. PICK r \in Loaded(t, answered) :
        Holding(r, b) # {} /\ ToSave(d, t, Disarmed(r, Index(r, b)))
  BY <1>3
<1>5. PICK i : i = Last(Holding(r, b))
  OBVIOUS
<1>6. PICK n : n = Disarmed(r, i)
  OBVIOUS
<1>7. ToSave(d, t, n) /\ refused \subseteq refused'
  BY <1>3, <1>4, <1>5, <1>6, NoteFacts DEF Index
<1>8. b \in Bkpt /\ t \in call[d].todo
  BY <1>1, <1>2, AtLoop
<1>9. r \in Registers /\ n \in Registers
  BY <1>4, <1>6, LoadedFacts, DisarmedRegisters
<1>10. n.pc = r.pc /\ n.dr = r.dr /\ n.on = r.on \ {i}
  BY <1>6, <1>9, DisarmedRegisters
<1>11. i \in Holding(r, b) /\ \A j \in Holding(r, b) : j <= i
  BY <1>4, <1>5, LastIsGreatest DEF Holding
<1>12. i \in Slot /\ r.dr[i] = Address[b]
  BY <1>11 DEF Holding
<1>13. t \in Living' => t \in Living /\ r = regs[t]
  <2>1. t \in Born
    BY <1>2, <1>8, SoleNow DEF Quiet, CallOK, NextThread
  <2>2. t \in Living' => t \in Alive /\ t \notin refused'
    BY <1>2, <2>1 DEF Living, Born, Alive, TypeOK
  <2>3. Living' \subseteq Living
    BY <1>2, <1>7, LivingShrinks
  <2> QED
    BY <1>3, <1>4, <2>2, <2>3, NoteFacts, LoadedFacts
<1>14. ASSUME b \notin rearmed, t \in Living' PROVE ~ Arms(n, b)
  <2> SUFFICES ASSUME NEW j \in r.on, j # i, r.dr[j] = Address[b] PROVE FALSE
    BY <1>10 DEF Arms
  <2>1. j \in Slot
    BY <1>9 DEF Registers
  <2>2. j <= i
    BY <1>11, <2>1 DEF Holding
  <2>3. SlotsOK(r)
    BY <1>13, <1>14 DEF Quiet, TargetOK, Living
  <2>4. i <= j
    BY <1>8, <1>12, <1>14, <2>3 DEF SlotsOK
  <2> QED
    BY <1>12, <2>1, <2>2, <2>4 DEF Slot
<1> QED
  BY <1>1, <1>2, <1>7, <1>9, <1>10, <1>12, <1>13, <1>14, ResetLoads

(* Reset goes past a thread in which nothing is to be done.                *)
LEMMA SkipThreadStep ==
  ASSUME TypeOK, Quiet, NEW d \in Debugger, NEW t \in Thread, SkipThread(d, t)
  PROVE  Quiet'
<1>1. PICK c : c = call[d]
  OBVIOUS
<1>2. PICK x : x = [c EXCEPT !.todo = @ \ {t}]
  OBVIOUS
<1>3. PICK b : b = c.bp
  OBVIOUS
<1>4. PICK answered \in Answers(t) :
        Note(t, answered) /\ \E r \in Loaded(t, answered) : Holding(r, b) = {}
  BY <1>1, <1>3 DEF SkipThread
<1>5. /\ c \in Looping /\ b \in Bkpt /\ c.fn = "Reset" /\ c.at = "loop"
      /\ call[d].fn # "none" /\ c.todo \subseteq Thread
  BY <1>1, <1>3, AtLoop DEF Looping, NextThread, SkipThread
<1>6. /\ x \in Looping /\ x.fn = "Reset" /\ x.bp = b /\ x.todo = c.todo \ {t} /\ x.at = "loop"
  BY <1>2, <1>3, <1>5 DEF Looping
<1>7. call' = [call EXCEPT ![d] = x]
  BY <1>1, <1>2 DEF SkipThread
<1>8. UNCHANGED <<platform, life, regs, in_use, active, done, listed, rearmed>>
  BY DEF SkipThread, target, applies
<1>9. /\ \A e \in Debugger \ {d} : call[e] = NoCall
      /\ CallOK(d, c)
      /\ \A e \in Bkpt : Settled(e) <=> c.bp # e
      /\ \A e \in Bkpt : Resetting(e) <=> c.fn = "Reset" /\ c.bp = e
  BY <1>1, <1>5, SoleNow DEF Quiet
<1>10. /\ OneCall'
       /\ CallOK(d, x)' => CallsOK'
       /\ \A e \in Bkpt : Settled(e)' <=> x.bp # e
       /\ \A e \in Bkpt : Resetting(e)' <=> x.fn = "Reset" /\ x.bp = e
  BY <1>6, <1>7, <1>9, SoleNext
<1>11. Living' \subseteq Living /\ Born' = Born /\ Living \subseteq Thread
  BY <1>4, <1>8, NoteFacts, LivingShrinks
<1>12. TargetOK'
  BY <1>8, <1>11, TargetStays DEF Quiet
<1>13. ResetOK(x)'
  <2>1. ResetOK(c)
    BY <1>5, <1>9 DEF CallOK
  <2>2. t \in Living' => ~ Arms(regs[t], b)
    <3>1. CASE t \in Alive
      <4>1. t \in Living' => \E r \in Loaded(t, answered) : Holding(r, b) = {} /\ r = regs[t]
        BY <1>4, <3>1, NoteFacts, LoadedFacts DEF Living
      <4> QED
        BY <1>5, <4>1, ArmsHolds DEF Holding, TypeOK
    <3>2. CASE life[t] = "unborn"
      BY <1>5, <3>2, FreshIsClear DEF Quiet, TargetOK
    <3> QED
      BY <1>8, <3>1, <3>2 DEF Living, Alive, TypeOK
  <2> QED
    BY <1>3, <1>5, <1>6, <1>8, <1>11, <2>1, <2>2 DEF ResetOK, Ahead
<1>14. CallOK(d, x)'
  BY <1>6, <1>8, <1>9, <1>11, <1>13 DEF CallOK
<1>15. ListedOK'
  BY <1>8, <1>11 DEF Quiet, ListedOK
<1>16. ASSUME NEW e \in Bkpt PROVE OutcomeOK(e)'
  <2>1. OutcomeOK(e) /\ (Alone(e)' <=> Alone(e))
    BY <1>8 DEF Quiet, Alone
  <2>2. /\ Settled(e)' <=> Settled(e)
        /\ Resetting(e)' <=> Resetting(e)
    BY <1>3, <1>5, <1>6, <1>9, <1>10
  <2> QED
    BY <1>8, <1>11, <2>1, <2>2 DEF OutcomeOK
<1> QED
  BY <1>10, <1>12, <1>14, <1>15, <1>16 DEF Quiet

-------------------------------------------------------------------------------
(* Save, and every step. *)

(* The thread gets the registers that Apply or Reset has made of what it   *)
(* was, if it still runs.                                                  *)
LEMMA SaveStep ==
  ASSUME TypeOK, Quiet, NEW d \in Debugger, Save(d)
  PROVE  Quiet'
<1>1. PICK c : c = call[d]
  OBVIOUS
<1>2. PICK x : x = [fn |-> c.fn, bp |-> c.bp, todo |-> c.todo, at |-> "loop"]
  OBVIOUS
<1>3. PICK b : b = c.bp
  OBVIOUS
<1>4. PICK t : t = c.thread
  OBVIOUS
<1>5. PICK n : n = c.new
  OBVIOUS
<1>6. c \in Saving /\ c.fn # "none" /\ call[d].fn # "none"
  BY <1>1, SaveType DEF Save
<1>7. /\ b \in Bkpt /\ t \in Thread /\ n \in Registers /\ c.todo \subseteq Thread
      /\ c.at = "save" /\ c.fn \in {"Apply", "Reset"}
  BY <1>3, <1>4, <1>5, <1>6 DEF Saving
<1>8. x \in Looping /\ x.fn = c.fn /\ x.bp = b /\ x.todo = c.todo /\ x.at = "loop"
  BY <1>2, <1>3, <1>7 DEF Looping
<1>9. call' = [call EXCEPT ![d] = x]
  BY <1>1, <1>2 DEF Save, BackToLoop
<1>10. UNCHANGED <<platform, life, in_use, active, done, listed, rearmed>>
  BY DEF Save, applies
<1>10a. PICK answered \in Answers(t) :
         Note(t, answered) /\ regs' = [regs EXCEPT ![t] = Saved(t, answered, n)]
  BY <1>1, <1>4, <1>5 DEF Save
<1>11. /\ \A e \in Debugger \ {d} : call[e] = NoCall
       /\ CallOK(d, c)
       /\ \A e \in Bkpt : Settled(e) <=> b # e
       /\ \A e \in Bkpt : Resetting(e) <=> c.fn = "Reset" /\ b = e
  BY <1>1, <1>3, <1>6, SoleNow DEF Quiet
<1>12. /\ OneCall'
       /\ CallOK(d, x)' => CallsOK'
       /\ \A e \in Bkpt : Settled(e)' <=> b # e
       /\ \A e \in Bkpt : Resetting(e)' <=> c.fn = "Reset" /\ b = e
  BY <1>8, <1>9, <1>11, SoleNext
<1>13. Living' \subseteq Living /\ Born' = Born /\ Living \subseteq Thread
  BY <1>7, <1>10, <1>10a, NoteFacts, LivingShrinks
<1>14. SaveOK(d, c) /\ t \in Born /\ t \notin c.todo
  BY <1>4, <1>7, <1>11 DEF CallOK, SaveOK
<1>15. /\ \A u \in Thread : u # t => regs'[u] = regs[u]
       /\ t \in Living' => regs'[t] = n
  <2>1. regs'[t] = Saved(t, answered, n) /\ \A u \in Thread : u # t => regs'[u] = regs[u]
    BY <1>7, <1>10a DEF TypeOK
  <2>2. t \in Living' => t \in Alive /\ t \notin refused'
    BY <1>7, <1>10, <1>14 DEF Living, Born, Alive, TypeOK
  <2>3. t \in Living' => answered = Flavor
    BY <1>7, <1>10a, <2>2, NoteFacts
  <2> QED
    BY <1>7, <2>1, <2>3, SavedFacts
<1>16. t \in Living =>
         /\ SlotsOK(n)
         /\ listed[b] # {}
         /\ \A e \in Bkpt \ {b} : \A i \in Slot : n.dr[i] = Address[e] =>
              regs[t].dr[i] = Address[e] /\ (i \in n.on => i \in regs[t].on)
         /\ c.fn = "Apply" => Arms(n, b)
         /\ c.fn = "Reset" /\ b \notin rearmed => ~ Arms(n, b)
  BY <1>3, <1>4, <1>5, <1>14 DEF SaveOK
<1>17. \A u \in Living', e \in Bkpt \ {b} : Arms(regs'[u], e) => Arms(regs[u], e)
  <2> SUFFICES ASSUME t \in Living', NEW e \in Bkpt \ {b}, Arms(n, e)
               PROVE  Arms(regs[t], e)
    BY <1>13, <1>15
  <2>1. PICK i \in n.on : n.dr[i] = Address[e]
    BY DEF Arms
  <2>2. i \in Slot
    BY <1>7, <2>1 DEF Registers
  <2> QED
    BY <1>13, <1>16, <2>1, <2>2 DEF Arms
<1>18. \A r : SlotsOK(r)' <=> SlotsOK(r)
  BY <1>10 DEF SlotsOK
<1>19. TargetOK'
  <2> SUFFICES ASSUME NEW u \in Thread
               PROVE  /\ life'[u] = "unborn" => regs'[u] = Fresh
                      /\ u \in Living' => SlotsOK(regs[u])'
    BY DEF TargetOK
  <2>1. life[u] = "unborn" => u # t
    BY <1>14 DEF Born
  <2>2. life[u] = "unborn" => regs[u] = Fresh
    BY DEF Quiet, TargetOK
  <2>3. u \in Living' => SlotsOK(regs'[u])
    BY <1>13, <1>15, <1>16 DEF Quiet, TargetOK
  <2>4. SlotsOK(regs'[u]) => SlotsOK(regs[u])'
    BY <1>10 DEF SlotsOK
  <2> QED
    BY <1>10, <1>15, <2>1, <2>2, <2>3, <2>4
<1>20. ASSUME c.fn = "Apply" PROVE ApplyOK(x)'
  <2>1. ApplyOK(c)
    BY <1>11, <1>20 DEF CallOK
  <2>2. \A u \in c.todo \cap Living' : regs'[u] = regs[u]
    BY <1>7, <1>14, <1>15
  <2>3. \A u \in listed[b] \cap Living' : Ahead(c, u) \/ Arms(regs[u], b) =>
          Ahead(x, u) \/ Arms(regs'[u], b)
    BY <1>4, <1>8, <1>13, <1>15, <1>16, <1>20 DEF Ahead
  <2> QED
    BY <1>3, <1>8, <1>10, <1>13, <2>1, <2>2, <2>3 DEF ApplyOK, Alone
<1>21. ASSUME c.fn = "Reset" PROVE ResetOK(x)'
  <2>1. ResetOK(c)
    BY <1>11, <1>21 DEF CallOK
  <2>2. ASSUME b \notin rearmed, NEW u \in Living', Arms(regs'[u], b) PROVE Ahead(x, u)
    <3>1. u # t
      BY <1>13, <1>15, <1>16, <1>21, <2>2
    <3> QED
      BY <1>3, <1>4, <1>8, <1>13, <1>15, <2>1, <2>2, <3>1 DEF ResetOK, Ahead
  <2> QED
    BY <1>8, <1>10, <1>13, <2>2 DEF ResetOK
<1>22. CallOK(d, x)'
  BY <1>8, <1>10, <1>11, <1>13, <1>20, <1>21 DEF CallOK
<1>23. ListedOK'
  <2> SUFFICES ASSUME NEW e \in Bkpt, listed[e] = {}, NEW u \in Living', NEW i \in Slot
               PROVE  regs'[u].dr[i] # Address[e]
    BY <1>10, <1>13 DEF Quiet, ListedOK
  <2>1. regs[u].dr[i] # Address[e]
    BY <1>13 DEF Quiet, ListedOK
  <2> QED
    BY <1>13, <1>15, <1>16, <2>1
<1>24. ASSUME NEW e \in Bkpt PROVE OutcomeOK(e)'
  <2>1. OutcomeOK(e) /\ (Alone(e)' <=> Alone(e))
    BY <1>10 DEF Quiet, Alone
  <2>2. CASE e # b
    <3>1. Alone(e) => \A u \in Living' : u # t
      BY <1>7, <1>13, <1>16, <2>2 DEF Alone
    <3>2. Alone(e) => \A u \in Living' : regs'[u] = regs[u]
      BY <1>13, <1>15, <3>1
    <3>3. e \notin rearmed /\ done[e] \in {"never", "reset"} =>
            \A u \in Living' : ~ Arms(regs'[u], e)
      BY <1>11, <1>13, <1>17, <2>1, <2>2 DEF OutcomeOK
    <3>4. done[e] = "applied" /\ Alone(e) =>
            \A u \in listed[e] \cap Living' : Arms(regs'[u], e)
      BY <1>11, <1>13, <2>1, <2>2, <3>2 DEF OutcomeOK
    <3>5. e \notin rearmed => \A u \in Living' : Arms(regs'[u], e) => active[e]
      BY <1>11, <1>13, <1>17, <2>1, <2>2 DEF OutcomeOK
    <3> QED
      BY <1>10, <1>13, <2>1, <3>3, <3>4, <3>5 DEF OutcomeOK
  <2>3. CASE e = b
    <3>1. ~ Settled(b)'
      BY <1>7, <1>12
    <3>2. b \notin rearmed => \A u \in Living' : Arms(regs'[u], b) => active[b] \/ Resetting(b)'
      <4>1. CASE c.fn = "Reset"
        BY <1>7, <1>12, <4>1
      <4>2. CASE c.fn = "Apply"
        BY <1>3, <1>14, <4>2 DEF SaveOK
      <4> QED
        BY <1>7, <4>1, <4>2
    <3> QED
      BY <1>10, <1>13, <2>3, <3>1, <3>2 DEF OutcomeOK
  <2> QED
    BY <2>2, <2>3
<1> QED
  BY <1>12, <1>19, <1>22, <1>23, <1>24 DEF Quiet

(* No step takes back that calls have overlapped. *)
LEMMA OverlapStays ==
  ASSUME TypeOK, [Next]_vars, ~ overlapped'
  PROVE  ~ overlapped
<1>1. CASE UNCHANGED vars
  BY <1>1 DEF vars, history, applies
<1>2. CASE \/ \E p \in Pauser : Pause(p) \/ TaskSuspend(p) \/ Resume(p) \/ TaskResume(p)
           \/ \E t \in Thread : Run(t) \/ StartOrExit(t)
  BY <1>2 DEF Pause, TaskSuspend, Resume, TaskResume, Run, StartOrExit, history, applies
<1>3. CASE \E d \in Debugger, b \in Bkpt : Apply(d, b) \/ Reset(d, b)
  BY <1>3 DEF Apply, Reset, Enter, TypeOK
<1>4. CASE \E d \in Debugger, t \in Thread :
             ApplyToThread(d, t) \/ ApplyRefuses(d, t) \/ ResetThread(d, t) \/ SkipThread(d, t)
  BY <1>4 DEF ApplyToThread, ApplyRefuses, ResetThread, SkipThread, applies
<1>5. CASE \E d \in Debugger : Save(d) \/ EndOfLoop(d)
  BY <1>5 DEF Save, EndOfLoop, applies
<1> QED
  BY <1>1, <1>2, <1>3, <1>4, <1>5 DEF Next

(* A step that leaves the task and what is known of the pause alone. *)
LEMMA PausesStay ==
  ASSUME PausesOK, UNCHANGED <<suspends, paused, toTask, doubtful>>
  PROVE  PausesOK'
BY DEF PausesOK, PauseHolds, AtWork

(* A pause that nothing speaks against is one of the kernel's, and no      *)
(* Resume is about to end it.                                              *)
LEMMA PausesOKStays ==
  ASSUME TypeOK, PausesOK, [Next]_vars
  PROVE  PausesOK'
<1>1. ASSUME NEW p \in Pauser, Pause(p) PROVE PausesOK'
  <2>1. AtWork("suspend")' /\ (AtWork("resume")' => AtWork("resume"))
    BY <1>1 DEF Pause, AtWork, TypeOK
  <2>2. ~ doubtful' => ~ AtWork("resume")
    BY <1>1 DEF Pause
  <2> QED
    BY <2>1, <2>2 DEF PausesOK, PauseHolds
<1>2. ASSUME NEW p \in Pauser, TaskSuspend(p) PROVE PausesOK'
  <2>1. AtWork("resume")' => AtWork("resume")
    BY <1>2 DEF TaskSuspend, AtWork, TypeOK
  <2>2. paused' = paused /\ (~ doubtful' => ~ doubtful /\ suspends' > 0)
    BY <1>2 DEF TaskSuspend, TypeOK
  <2> QED
    BY <2>1, <2>2 DEF PausesOK, PauseHolds
<1>3. ASSUME NEW p \in Pauser, Resume(p) PROVE PausesOK'
  BY <1>3 DEF Resume, PausesOK, PauseHolds
<1>4. ASSUME NEW p \in Pauser, TaskResume(p) PROVE PausesOK'
  <2>1. AtWork("resume") /\ paused' = paused /\ doubtful' = doubtful
    BY <1>4 DEF TaskResume, AtWork, history, pauses
  <2> QED
    BY <2>1 DEF PausesOK, PauseHolds
<1>5. CASE UNCHANGED vars
  BY <1>5, PausesStay DEF vars, task, history, pauses
<1>6. CASE \E t \in Thread : Run(t) \/ StartOrExit(t)
  BY <1>6, PausesStay DEF Run, StartOrExit, task, history, pauses
<1>7. CASE \E d \in Debugger, b \in Bkpt : Apply(d, b) \/ Reset(d, b)
  BY <1>7, PausesStay DEF Apply, Reset, Enter, task, pauses
<1>8. ASSUME NEW d \in Debugger, NEW t \in Thread, ApplyToThread(d, t) \/ ResetThread(d, t)
      PROVE  PausesOK'
  <2>1. UNCHANGED <<suspends, paused, toTask>>
    BY <1>8 DEF ApplyToThread, ResetThread, task
  <2>2. UNCHANGED doubtful
    BY <1>8 DEF ApplyToThread, ApplyTo, ResetThread, ToSave
  <2> QED
    BY <2>1, <2>2, PausesStay
<1>9. CASE \E d \in Debugger, t \in Thread : ApplyRefuses(d, t) \/ SkipThread(d, t)
  BY <1>9, PausesStay DEF ApplyRefuses, SkipThread, task, pauses
<1>10. CASE \E d \in Debugger : Save(d) \/ EndOfLoop(d)
  BY <1>10, PausesStay DEF Save, EndOfLoop, task, pauses
<1> QED
  BY <1>1, <1>2, <1>3, <1>4, <1>5, <1>6, <1>7, <1>8, <1>9, <1>10 DEF Next

(* At first nothing is armed and nobody is in a call. *)
LEMMA InitIInv == Init => IInv
<1> SUFFICES ASSUME Init PROVE IInv
  OBVIOUS
<1>1. TypeOK /\ PausesOK
  BY InitTypeOK DEF Init, PausesOK, PauseHolds
<1>2. \A d \in Debugger : call[d] = NoCall /\ call[d].fn = "none"
  BY DEF Init, NoCall
<1>3. \A t \in Thread : regs[t] = Fresh
  BY DEF Init
<1>4. OneCall /\ CallsOK
  BY <1>2 DEF OneCall, CallsOK
<1>5. TargetOK
  BY <1>3, FreshIsClear DEF TargetOK, SlotsOK, Living
<1>6. ListedOK
  BY <1>3, FreshIsClear DEF Init, ListedOK, Living
<1>7. \A b \in Bkpt : OutcomeOK(b)
  BY <1>3, FreshIsClear DEF Init, OutcomeOK, Living
<1> QED
  BY <1>1, <1>4, <1>5, <1>6, <1>7 DEF IInv, Quiet

(* The invariant is inductive: one case for every action. *)
LEMMA NextIInv == IInv /\ [Next]_vars => IInv'
<1> SUFFICES ASSUME IInv, [Next]_vars PROVE IInv'
  OBVIOUS
<1>1. TypeOK' /\ PausesOK'
  BY NextTypeOK, PausesOKStays DEF IInv
<1>2. ASSUME ~ overlapped' PROVE Quiet'
  <2>1. TypeOK /\ PausesOK /\ Quiet
    BY <1>2, OverlapStays DEF IInv
  <2>2. CASE \E p \in Pauser : Pause(p) \/ TaskSuspend(p)
    BY <2>1, <2>2, PauseStep
  <2>3. CASE \E p \in Pauser : Resume(p) \/ TaskResume(p)
    BY <2>1, <2>3, ResumeStep, TaskResumeStep
  <2>4. CASE \E t \in Thread : Run(t) \/ StartOrExit(t)
    BY <2>1, <2>4, RunStep, StartOrExitStep
  <2>5. CASE \E d \in Debugger, b \in Bkpt : Apply(d, b) \/ Reset(d, b)
    BY <1>2, <2>1, <2>5, ApplyStep, ResetStep
  <2>6. ASSUME NEW d \in Debugger, NEW t \in Thread,
               \/ ApplyToThread(d, t) \/ ApplyRefuses(d, t)
               \/ ResetThread(d, t) \/ SkipThread(d, t)
        PROVE  Quiet'
    BY <2>1, <2>6, ApplyToThreadStep, ApplyRefusesStep, ResetThreadStep, SkipThreadStep
  <2>7. CASE \E d \in Debugger : Save(d) \/ EndOfLoop(d)
    BY <2>1, <2>7, SaveStep, EndOfLoopStep
  <2>8. CASE UNCHANGED vars
    BY <2>1, <2>8, StutterStep
  <2> QED
    BY <2>2, <2>3, <2>4, <2>5, <2>6, <2>7, <2>8 DEF Next
<1> QED
  BY <1>1, <1>2 DEF IInv

(* It holds in every state. *)
LEMMA SpecIInv == Spec => []IInv
<1>1. Init => IInv
  BY InitIInv
<1>2. IInv /\ [Next]_vars => IInv'
  BY NextIInv
<1> QED
  BY <1>1, <1>2, PTL DEF Spec

(* The threads the properties speak of. *)
LEMMA ObeyingIsLiving == Obeying \subseteq Living /\ Obeying \subseteq Thread
BY DEF Obeying, Alive, Living

-------------------------------------------------------------------------------
(* What it says of Apply and Reset, of threads of which the kernel has     *)
(* refused nothing and as long as no two calls of the debugger overlap,    *)
(* for any number of threads and breakpoints and whatever in_use_ holds at *)
(* first.                                                                  *)

(* After a Reset no running thread has the breakpoint enabled, although    *)
(* Reset looks for the address and earlier pairs of Apply and Reset have   *)
(* left it in other slots.  Not so after two Applies with no Reset in      *)
(* between: Reset then leaves the earlier slot enabled.                    *)
THEOREM ResetDisarmsAll == Spec => []ResetDisarms
<1>1. IInv => ResetDisarms
  <2> SUFFICES ASSUME IInv, ~ overlapped, NEW b \in Bkpt,
                      done[b] = "reset" /\ Settled(b) /\ b \notin rearmed,
                      NEW t \in Obeying
               PROVE  ~ Enabled(t, b)
    BY DEF ResetDisarms
  <2>1. TypeOK /\ OutcomeOK(b)
    BY DEF IInv, Quiet
  <2>2. t \in Thread /\ t \in Living
    BY ObeyingIsLiving
  <2>3. ~ Arms(regs[t], b)
    BY <2>1, <2>2 DEF OutcomeOK
  <2> QED
    BY <2>1, <2>2, <2>3, EnabledArms
<1> QED
  BY <1>1, SpecIInv, PTL

(* After true from Apply every thread it went through has the breakpoint   *)
(* enabled, if no other breakpoint is in use that could take its slot.     *)
THEOREM ApplyArmsListed == Spec => []ApplyArms
<1>1. IInv => ApplyArms
  <2> SUFFICES ASSUME IInv, ~ overlapped, NEW b \in Bkpt,
                      done[b] = "applied" /\ Settled(b),
                      \A c \in Bkpt \ {b} : listed[c] = {},
                      NEW t \in listed[b] \cap Obeying
               PROVE  Enabled(t, b)
    BY DEF ApplyArms
  <2>1. TypeOK /\ OutcomeOK(b) /\ Alone(b)
    BY DEF IInv, Quiet, Alone
  <2>2. t \in Thread /\ t \in listed[b] \cap Living
    BY ObeyingIsLiving
  <2>3. Arms(regs[t], b)
    BY <2>1, <2>2 DEF OutcomeOK
  <2> QED
    BY <2>1, <2>2, <2>3, EnabledArms
<1> QED
  BY <1>1, SpecIInv, PTL

(* An enabled breakpoint is active, so that the exception it causes is     *)
(* taken for a breakpoint, but for the time of a Reset, and but for one    *)
(* applied twice with no Reset in between.                                 *)
THEOREM EnabledBreakpointsAreActive == Spec => []EnabledIsActive
<1>1. IInv => EnabledIsActive
  <2> SUFFICES ASSUME IInv, ~ overlapped, NEW b \in Bkpt, b \notin rearmed,
                      NEW t \in Obeying, Enabled(t, b)
               PROVE  active[b] \/ ~ Settled(b)
    BY DEF EnabledIsActive
  <2>1. TypeOK /\ OutcomeOK(b)
    BY DEF IInv, Quiet
  <2>2. t \in Thread /\ t \in Living
    BY ObeyingIsLiving
  <2>3. Arms(regs[t], b)
    BY <2>1, <2>2, EnabledArms
  <2>4. active[b] \/ Resetting(b)
    BY <2>1, <2>2, <2>3 DEF OutcomeOK
  <2> QED
    BY <2>4 DEF Resetting, Settled
<1> QED
  BY <1>1, SpecIInv, PTL

(* Saving a thread's registers takes nothing back of what the thread has   *)
(* done if a pause has held since they were loaded: one that was complete  *)
(* at the Load, was not refused and met no Resume at work, with no Resume  *)
(* begun since.  How many threads pause and resume and how the calls nest  *)
(* does not matter.                                                        *)
THEOREM NoRewindWhilePaused == Spec => PausedCallsDoNotRewind
<1> DEFINE Rewinds == \A t \in Thread \ refused' : regs'[t].pc < regs[t].pc =>
                        \E d \in unsure : call[d].fn # "none" /\ call[d].at = "save"
<1>1. ASSUME IInv, [Next]_vars, ~ overlapped PROVE Rewinds
  <2> SUFFICES ASSUME NEW t \in Thread \ refused', regs'[t].pc < regs[t].pc
               PROVE  \E d \in unsure : call[d].fn # "none" /\ call[d].at = "save"
    OBVIOUS
  <2>1. TypeOK /\ Quiet /\ regs[t] \in Registers /\ regs[t].pc \in Int
    BY <1>1 DEF IInv, TypeOK, Registers
  <2>2. regs'[t] # regs[t]
    BY <2>1
  <2>3. ASSUME NEW u \in Thread, Run(u) PROVE FALSE
    <3>1. u = t
      BY <2>1, <2>2, <2>3 DEF Run, TypeOK
    <3>2. regs[t].pc < MaxPC /\ regs'[t] = [regs[t] EXCEPT !.pc = @ + 1]
      BY <2>1, <2>3, <3>1 DEF Run, TypeOK
    <3>3. regs'[t].pc > regs[t].pc
      BY <2>1, <3>2, RanRegisters
    <3> QED
      BY <2>1, <3>2, <3>3, RanRegisters
  <2>4. ASSUME NEW d \in Debugger, Save(d)
        PROVE  \E e \in unsure : call[e].fn # "none" /\ call[e].at = "save"
    <3>1. /\ call[d] \in Saving /\ call[d].fn # "none" /\ call[d].at = "save"
          /\ call[d].thread \in Thread /\ call[d].new \in Registers
      BY <2>1, <2>4, SaveType DEF Save, Saving
    <3>2. PICK answered \in Answers(call[d].thread) :
            /\ Note(call[d].thread, answered)
            /\ regs' = [regs EXCEPT ![call[d].thread] =
                          Saved(call[d].thread, answered, call[d].new)]
      BY <2>4 DEF Save
    <3>3. t = call[d].thread /\ regs'[t] = Saved(t, answered, call[d].new)
      BY <2>1, <2>2, <3>1, <3>2 DEF TypeOK
    <3>4. t \in Alive
      BY <2>1, <2>2, <3>2, <3>3, <3>1, NoteFacts, SavedFacts
    <3>5. regs'[t] = call[d].new
      BY <2>1, <3>1, <3>2, <3>3, <3>4, NoteFacts, SavedFacts
    <3>6. t \in Living
      <4>1. t \notin refused
        BY <2>1, <3>2, <3>3, NoteFacts
      <4> QED
        BY <3>4, <4>1 DEF Alive, Living
    <3>7. d \in unsure
      BY <2>1, <3>1, <3>3, <3>5, <3>6, PausedSinceLoad
    <3> QED
      BY <3>1, <3>7
  <2>5. ASSUME regs' = regs PROVE FALSE
    BY <2>2, <2>5
  <2>6. CASE \/ \E p \in Pauser : Pause(p) \/ TaskSuspend(p) \/ Resume(p) \/ TaskResume(p)
             \/ \E u \in Thread : StartOrExit(u)
    BY <2>5, <2>6 DEF Pause, TaskSuspend, Resume, TaskResume, StartOrExit, target
  <2>7. CASE \E d \in Debugger, b \in Bkpt : Apply(d, b) \/ Reset(d, b)
    BY <2>5, <2>7 DEF Apply, Reset, Enter, target
  <2>8. CASE \E d \in Debugger, u \in Thread :
               \/ ApplyToThread(d, u) \/ ApplyRefuses(d, u)
               \/ ResetThread(d, u) \/ SkipThread(d, u)
    BY <2>5, <2>8 DEF ApplyToThread, ApplyRefuses, ResetThread, SkipThread, target
  <2>9. CASE \E d \in Debugger : EndOfLoop(d)
    BY <2>5, <2>9 DEF EndOfLoop, target
  <2>10. CASE UNCHANGED vars
    BY <2>5, <2>10 DEF vars, target
  <2> QED
    BY <1>1, <2>3, <2>4, <2>6, <2>7, <2>8, <2>9, <2>10 DEF Next
<1>2. IInv /\ [Next]_vars => [~ overlapped => Rewinds]_vars
  BY <1>1
<1> QED
  BY <1>2, SpecIInv, PTL DEF Spec, PausedCallsDoNotRewind
===============================================================================
