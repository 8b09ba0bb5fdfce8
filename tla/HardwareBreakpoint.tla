-------------------------- MODULE HardwareBreakpoint --------------------------
(***************************************************************************)
(* x86_64 hardware breakpoints: Apply and Reset go through the threads of  *)
(* the target, load the registers of each, change its debug registers and  *)
(* save all of them again.  Meanwhile the target's threads run, start and  *)
(* exit, unless Process::Pause has suspended the task.  The kernel may     *)
(* refuse thread_get_state and thread_set_state, and nobody looks.         *)
(***************************************************************************)
EXTENDS Integers, FiniteSets

CONSTANTS
  Debugger,     \* threads of the debugger that apply and reset
  Pauser,       \* threads of the debugger that pause and resume
  Thread,       \* threads of the target
  Bkpt,         \* breakpoint objects
  Address,      \* [Bkpt -> addresses], address_
  Clear,        \* what drN holds when nobody has written it
  InUse,        \* what the uninitialised in_use_ may hold
  Junk,         \* what an uninitialised debug state may hold
  MaxPC,        \* bound: steps of a target thread
  MaxCalls,     \* bound: calls of Apply, Reset, Pause and Resume
  MaxRefused    \* bound: threads of the target for which the kernel refuses

Slot == 0 .. 3

ASSUME AddressAssumption ==
  /\ \A b \in Bkpt : Address[b] # Clear
  /\ \A b, c \in Bkpt : Address[b] = Address[c] => b = c
ASSUME InUseAssumption == InUse \subseteq Int
ASSUME BoundAssumption == {MaxPC, MaxCalls, MaxRefused} \subseteq Nat

(* The two flavors of state.  The general one is how far a thread has got, *)
(* the debug one what drN holds and the slots dr7 enables.                 *)
Flavor    == {"general", "debug"}
Contents  == [Slot -> {Clear} \cup {Address[b] : b \in Bkpt}]
Debug     == [dr : Contents, on : SUBSET Slot]
Registers == [pc : 0 .. MaxPC, dr : Contents, on : SUBSET Slot]
Fresh     == [pc |-> 0, dr |-> [i \in Slot |-> Clear], on |-> {}]

ASSUME JunkAssumption == Junk \subseteq Debug

VARIABLES
  platform,     \* what RunningPlatform says of the target
  life,         \* whether a target thread has started and exited
  regs,         \* registers of each target thread
  suspends,     \* suspend count of the task
  paused,       \* paused_
  toTask,       \* what each thread in Pause or Resume has still to ask of the task
  in_use,       \* in_use_ of each breakpoint
  active,       \* active_ of each breakpoint
  call,         \* the call each debugger thread is in
  calls,        \* calls so far
  (* History. *)
  done,         \* how the last call on each breakpoint ended
  listed,       \* the threads the last Apply on each breakpoint went through
  rearmed,      \* breakpoints applied twice without a Reset in between
  overlapped,   \* two calls of Apply or Reset have overlapped
  refused,      \* threads for which the kernel has refused, while they were alive
  doubtful,     \* the last Pause met a Resume at work, or was refused
  unsure        \* debugger threads that have not seen a pause hold since their Load

target  == <<platform, life, regs>>
task    == <<suspends, paused, toTask>>
pauses  == <<doubtful, unsure>>
applies == <<done, listed, rearmed, overlapped>>
history == <<applies, refused, pauses>>
vars    == <<target, task, in_use, active, call, calls, history>>

NoCall == [fn |-> "none"]

Init ==
  /\ platform \in {"x86_64", "x86"}
  /\ life \in [Thread -> {"unborn", "alive"}]
  /\ regs = [t \in Thread |-> Fresh]
  /\ suspends = 0
  /\ paused = FALSE
  /\ toTask = [p \in Pauser |-> "nothing"]
  /\ in_use \in [Bkpt -> InUse]
  /\ active \in [Bkpt -> BOOLEAN]
  /\ call = [d \in Debugger |-> NoCall]
  /\ calls = 0
  /\ done = [b \in Bkpt |-> "never"]
  /\ listed = [b \in Bkpt |-> {}]
  /\ rearmed = {}
  /\ overlapped = FALSE
  /\ refused = {} /\ doubtful = FALSE /\ unsure = {}

Alive == {t \in Thread : life[t] = "alive"}

-------------------------------------------------------------------------------
(* The target, while its task is not suspended. *)

Run(t) ==
  /\ suspends = 0 /\ t \in Alive
  /\ regs[t].pc < MaxPC
  /\ regs' = [regs EXCEPT ![t].pc = @ + 1]
  /\ UNCHANGED <<platform, life, task, in_use, active, call, calls, history>>

StartOrExit(t) ==
  /\ suspends = 0 /\ life[t] # "dead"
  /\ life' = [life EXCEPT ![t] = IF @ = "unborn" THEN "alive" ELSE "dead"]
  /\ UNCHANGED <<platform, regs, task, in_use, active, call, calls, history>>

(* Pause and Resume write paused_ first and then ask the kernel, which may *)
(* refuse; paused_ stays as written.                                       *)
AtWork(ask) == \E p \in Pauser : toTask[p] = ask

PauserCalls(p) == toTask[p] = "nothing" /\ calls < MaxCalls /\ calls' = calls + 1

Pause(p) ==
  /\ PauserCalls(p)
  /\ paused' = TRUE
  /\ toTask' = [toTask EXCEPT ![p] = "suspend"]
  /\ doubtful' = (doubtful \/ AtWork("resume"))
  /\ UNCHANGED <<target, suspends, in_use, active, call, applies, refused, unsure>>

TaskSuspend(p) ==
  /\ toTask[p] = "suspend"
  /\ toTask' = [toTask EXCEPT ![p] = "nothing"]
  /\ \/ suspends' = suspends + 1 /\ UNCHANGED doubtful
     \/ UNCHANGED suspends /\ doubtful' = TRUE
  /\ UNCHANGED <<target, paused, in_use, active, call, calls, applies, refused, unsure>>

InCall == {d \in Debugger : call[d].fn # "none"}

(* Faulty variant: paused_ is left as it is. *)
ResumeSilently(p) ==
  /\ PauserCalls(p)
  /\ toTask' = [toTask EXCEPT ![p] = "resume"]
  /\ doubtful' = FALSE /\ unsure' = InCall
  /\ UNCHANGED <<target, suspends, paused, in_use, active, call, applies, refused>>

Resume(p) ==
  /\ PauserCalls(p)
  /\ paused' = FALSE
  /\ toTask' = [toTask EXCEPT ![p] = "resume"]
  /\ doubtful' = FALSE /\ unsure' = InCall
  /\ UNCHANGED <<target, suspends, in_use, active, call, applies, refused>>

TaskResume(p) ==
  /\ toTask[p] = "resume"
  /\ toTask' = [toTask EXCEPT ![p] = "nothing"]
  /\ \/ suspends > 0 /\ suspends' = suspends - 1
     \/ UNCHANGED suspends
  /\ UNCHANGED <<target, paused, in_use, active, call, calls, history>>

-------------------------------------------------------------------------------
(* Process::Threads, at the head of Apply and Reset: a snapshot, which is  *)
(* empty for a 32-bit target.  The debugger's own thread is left out of it *)
(* when the debugger is the target; it is not in Thread.                   *)
Threads == IF platform = "x86_64" THEN Alive ELSE {}

Enter(d, b, fn) ==
  /\ call[d] = NoCall
  /\ calls < MaxCalls
  /\ calls' = calls + 1
  /\ call' = [call EXCEPT ![d] = [fn |-> fn, bp |-> b, todo |-> Threads, at |-> "loop"]]
  /\ overlapped' = (overlapped \/ \E e \in Debugger : call[e] # NoCall)
  /\ UNCHANGED <<target, task, in_use, active, done, refused, pauses>>

Apply(d, b) ==
  /\ Enter(d, b, "Apply")
  /\ listed' = [listed EXCEPT ![b] = Threads]
  /\ rearmed' = IF done[b] \in {"never", "reset"} THEN rearmed ELSE rearmed \cup {b}

Reset(d, b) ==
  /\ Enter(d, b, "Reset")
  /\ UNCHANGED <<listed, rearmed>>

(* The loop's next thread; the order of task_threads is anyone's guess. *)
NextThread(d, t, fn) == call[d].fn = fn /\ call[d].at = "loop" /\ t \in call[d].todo

(* The flavors that the kernel gets or sets for t: none for a thread that  *)
(* has exited.                                                             *)
Answers(t) ==
  {answered \in SUBSET Flavor :
     IF t \in Alive
     THEN answered # Flavor => Cardinality(refused \cup {t}) <= MaxRefused
     ELSE answered = {}}

Note(t, answered) ==
  refused' = IF t \in Alive /\ answered # Flavor THEN refused \cup {t} ELSE refused

(* The new ThreadState after its Load; a flavor the kernel does not give   *)
(* is as uninitialised as it was.                                          *)
Loaded(t, answered) ==
  {[pc |-> pc, dr |-> debug.dr, on |-> debug.on] :
     pc \in IF "general" \in answered THEN {regs[t].pc} ELSE 0 .. MaxPC,
     debug \in IF "debug" \in answered THEN {[dr |-> regs[t].dr, on |-> regs[t].on]} ELSE Junk}

PauseHolds == paused /\ ~ AtWork("suspend") /\ ~ doubtful

(* r is what the loop's body makes of the registers that were loaded. *)
ToSave(d, t, r) ==
  /\ call' = [call EXCEPT ![d] = [fn |-> @.fn, bp |-> @.bp, todo |-> @.todo \ {t},
                                  at |-> "save", thread |-> t, new |-> r]]
  /\ unsure' = IF PauseHolds THEN unsure \ {d} ELSE unsure \cup {d}
  /\ UNCHANGED doubtful

Armed(r, i, b)  == [pc |-> r.pc, dr |-> [r.dr EXCEPT ![i] = Address[b]], on |-> r.on \cup {i}]
Disarmed(r, i)  == [pc |-> r.pc, dr |-> r.dr, on |-> r.on \ {i}]

(* The slot is in_use_, of the object and not of the thread; the size and  *)
(* trigger bits are or-ed with 0 and stay as they are.                     *)
ApplyTo(d, t, b) ==
  /\ NextThread(d, t, "Apply")
  /\ in_use[b] \in Slot
  /\ \E answered \in Answers(t) :
       /\ Note(t, answered)
       /\ \E r \in Loaded(t, answered) : ToSave(d, t, Armed(r, in_use[b], b))
  /\ in_use' = [in_use EXCEPT ![b] = @ + 1]

(* Faulty variant: active_ is not set. *)
ApplyToThreadInactive(d, t) ==
  /\ ApplyTo(d, t, call[d].bp)
  /\ UNCHANGED <<target, task, active, calls, applies>>

ApplyToThread(d, t) ==
  /\ ApplyTo(d, t, call[d].bp)
  /\ active' = [active EXCEPT ![call[d].bp] = TRUE]
  /\ UNCHANGED <<target, task, calls, applies>>

Return(d, outcome) ==
  /\ call' = [call EXCEPT ![d] = NoCall]
  /\ done' = [done EXCEPT ![call[d].bp] = outcome]

(* "all debug registers in use" *)
ApplyRefuses(d, t) ==
  /\ NextThread(d, t, "Apply")
  /\ in_use[call[d].bp] \notin Slot
  /\ Return(d, "applyFailed")
  /\ UNCHANGED <<target, task, in_use, active, calls, listed, rearmed, overlapped, refused, pauses>>

(* The slots that hold b's address; Reset takes the last of them.          *)
(* Faulty variant: the slot of the latest Apply, by in_use_.               *)
Holding(r, b)      == {i \in Slot : r.dr[i] = Address[b]}
Last(is)           == CHOOSE i \in is : \A j \in is : j <= i
IndexByCount(r, b) == in_use[b] - 1
Index(r, b)        == Last(Holding(r, b))

ResetThread(d, t) ==
  LET b == call[d].bp IN
  /\ NextThread(d, t, "Reset")
  /\ \E answered \in Answers(t) :
       /\ Note(t, answered)
       /\ \E r \in Loaded(t, answered) :
            Holding(r, b) # {} /\ ToSave(d, t, Disarmed(r, Index(r, b)))
  /\ active' = [active EXCEPT ![b] = FALSE]
  /\ UNCHANGED <<target, task, in_use, calls, applies>>

SkipThread(d, t) ==
  /\ NextThread(d, t, "Reset")
  /\ \E answered \in Answers(t) :
       Note(t, answered) /\ \E r \in Loaded(t, answered) : Holding(r, call[d].bp) = {}
  /\ call' = [call EXCEPT ![d].todo = @ \ {t}]
  /\ UNCHANGED <<target, task, in_use, active, calls, applies, pauses>>

BackToLoop(d) ==
  call' = [call EXCEPT ![d] = [fn |-> @.fn, bp |-> @.bp, todo |-> @.todo, at |-> "loop"]]

(* Faulty variant: the debug registers are not saved. *)
SaveGeneral(d) ==
  LET t == call[d].thread IN
  /\ call[d].fn # "none" /\ call[d].at = "save"
  /\ regs' = IF t \in Alive THEN [regs EXCEPT ![t].pc = call[d].new.pc] ELSE regs
  /\ BackToLoop(d)
  /\ UNCHANGED <<platform, life, task, in_use, active, calls, history>>

(* Save sets both flavors, as far as the kernel lets it. *)
Saved(t, answered, r) ==
  LET debug == IF "debug" \in answered THEN r ELSE regs[t] IN
  [pc |-> IF "general" \in answered THEN r.pc ELSE regs[t].pc, dr |-> debug.dr, on |-> debug.on]

Save(d) ==
  LET t == call[d].thread IN
  /\ call[d].fn # "none" /\ call[d].at = "save"
  /\ \E answered \in Answers(t) :
       /\ Note(t, answered)
       /\ regs' = [regs EXCEPT ![t] = Saved(t, answered, call[d].new)]
  /\ BackToLoop(d)
  /\ UNCHANGED <<platform, life, task, in_use, active, calls, applies, pauses>>

EndOfLoop(d) ==
  /\ call[d].fn # "none" /\ call[d].at = "loop" /\ call[d].todo = {}
  /\ Return(d, IF call[d].fn = "Apply" THEN "applied" ELSE "reset")
  /\ UNCHANGED <<target, task, in_use, active, calls, listed, rearmed, overlapped, refused, pauses>>

Next ==
  \/ \E p \in Pauser : Pause(p) \/ TaskSuspend(p) \/ Resume(p) \/ TaskResume(p)
  \/ \E t \in Thread : Run(t) \/ StartOrExit(t)
  \/ \E d \in Debugger :
       \/ \E b \in Bkpt : Apply(d, b) \/ Reset(d, b)
       \/ \E t \in Thread : \/ ApplyToThread(d, t)
                            \/ ApplyRefuses(d, t)
                            \/ ResetThread(d, t)
                            \/ SkipThread(d, t)
       \/ Save(d)
       \/ EndOfLoop(d)

Spec == Init /\ [][Next]_vars

-------------------------------------------------------------------------------
(* What holds while no two calls of Apply or Reset overlap, of the threads *)
(* of which the kernel has refused nothing.                                *)

Enabled(t, b) == regs[t].on \cap Holding(regs[t], b) # {}
Settled(b)    == \A d \in Debugger : call[d].fn = "none" \/ call[d].bp # b
Obeying       == Alive \ refused

(***************************************************************************)
(* After a Reset no running thread has the breakpoint enabled, although    *)
(* Reset finds the slot by the address and earlier pairs of Apply and      *)
(* Reset have left the address in other slots: in_use_ only grows, so the  *)
(* slot of the latest Apply is the last that holds the address.  This is   *)
(* not said of a breakpoint that was once applied twice without a Reset in *)
(* between (rearmed): there Reset disarms the later slot only, and the     *)
(* earlier one stays enabled.                                              *)
(***************************************************************************)
ResetDisarms ==
  ~ overlapped =>
    \A b \in Bkpt : done[b] = "reset" /\ Settled(b) /\ b \notin rearmed =>
      \A t \in Obeying : ~ Enabled(t, b)

(***************************************************************************)
(* After true from Apply every thread it went through has the breakpoint   *)
(* enabled, if it is the only breakpoint in use (another one may take the  *)
(* same slot) and the kernel has refused nothing of the thread (of which   *)
(* Apply would know nothing).                                              *)
(***************************************************************************)
ApplyArms ==
  ~ overlapped =>
    \A b \in Bkpt :
      /\ done[b] = "applied" /\ Settled(b)
      /\ \A c \in Bkpt \ {b} : listed[c] = {}
      => \A t \in listed[b] \cap Obeying : Enabled(t, b)

(***************************************************************************)
(* While a breakpoint is enabled in a running thread it is active, so the  *)
(* exception it causes is taken for a breakpoint, but for the time of a    *)
(* Reset.  Not so for one that was applied twice without a Reset in        *)
(* between: the slot that the next Reset leaves enabled is not active.     *)
(***************************************************************************)
EnabledIsActive ==
  ~ overlapped =>
    \A b \in Bkpt : (\E t \in Obeying : Enabled(t, b)) /\ b \notin rearmed =>
      active[b] \/ ~ Settled(b)

(***************************************************************************)
(* Saving a thread's registers does not take back what it has done since   *)
(* they were loaded, if a pause has held from Load to Save: paused_ was    *)
(* true at the Load, no Pause was between paused_ = true and task_suspend, *)
(* its task_suspend was not refused, it began with no Resume at work, and  *)
(* none has begun until the Save.  Pauses and Resumes may otherwise come   *)
(* from any thread and nest.  A Load between the two lines of Pause, or    *)
(* after a refused task_suspend, is not safe although paused() is true.    *)
(***************************************************************************)
PausedCallsDoNotRewind ==
  [][~ overlapped =>
       \A t \in Thread \ refused' : regs'[t].pc < regs[t].pc =>
         \E d \in unsure : call[d].fn # "none" /\ call[d].at = "save"]_vars

(***************************************************************************)
(* What the comment in Apply says of its refusal: some thread has no debug *)
(* register left.  in_use_ counts the threads armed since the object was   *)
(* made, and Reset does not count them off, so this is not so.             *)
(***************************************************************************)
RefusesOnlyWhenFull ==
  [][\A b \in Bkpt :
       done[b] # "applyFailed" /\ done'[b] = "applyFailed" =>
         \E t \in Alive : regs[t].on = Slot]_vars
===============================================================================
