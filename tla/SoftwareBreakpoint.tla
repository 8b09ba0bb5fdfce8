-------------------------- MODULE SoftwareBreakpoint --------------------------
(***************************************************************************)
(* Software breakpoints: Apply saves the bytes under the breakpoint and    *)
(* writes a trap over them, Reset writes the saved bytes back.             *)
(*                                                                         *)
(* Threads of the debugger run Apply and Reset without a lock, on the same *)
(* or on different breakpoints of one task.  Every Mach call is one step;  *)
(* between two steps of one thread the others run.  A forced               *)
(* Process::WriteMemory is three calls, vm_protect, vm_write, vm_protect,  *)
(* each of which can make it return early with what was done so far left   *)
(* in place.                                                               *)
(***************************************************************************)
EXTENDS TaskMemory

CONSTANTS
  Thread,        \* threads of the debugger that call Apply and Reset
  Bkpt,          \* breakpoint objects
  Kind,          \* [Bkpt -> Kinds], the class of each object
  Address,       \* [Bkpt -> Addr], address_
  InitMem,       \* [Addr -> Byte], the program before any breakpoint
  InitialProt,   \* the protections a page may have before any breakpoint
  StaleByte,     \* what an uninitialised or freed byte may hold
  MaxCalls,      \* bound: calls of Apply and Reset
  MaxRefusals    \* bound: Mach calls the kernel refuses for its own reasons

Kinds == {"x86_64", "ARMv7", "THUMBv7"}

X64Opcode     == <<204>>                \* int3, 0xCC
ARMv7Opcode   == <<112, 0, 32, 225>>    \* bkpt, 0xE1200070
THUMBv7Opcode == <<0, 190>>             \* bkpt, 0xBE00

Opcode(b) ==
  CASE Kind[b] = "x86_64"  -> X64Opcode
    [] Kind[b] = "ARMv7"   -> ARMv7Opcode
    [] Kind[b] = "THUMBv7" -> THUMBv7Opcode

Width(b) == Len(Opcode(b))

ASSUME BkptAssumption    == Bkpt # {}
ASSUME KindAssumption    == Kind \in [Bkpt -> Kinds]
ASSUME AddressAssumption ==
  Address \in [Bkpt -> Addr] /\ \A b \in Bkpt : Address[b] + Width(b) - 1 \in Addr
ASSUME InitMemAssumption == InitMem \in [Addr -> Byte]
ASSUME InitialProtAssumption ==
  InitialProt \subseteq SUBSET Right /\ RWX \notin InitialProt
ASSUME StaleAssumption   == StaleByte \subseteq Byte /\ StaleByte # {}
ASSUME BoundAssumption   == MaxCalls \in Nat /\ MaxRefusals \in Nat

VARIABLES
  mem,         \* the target's bytes
  prot,        \* the target's mapped pages and their protection
  active,      \* active_ of each breakpoint
  original,    \* original_opcode_ of each breakpoint
  op,          \* the call each debugger thread is in
  calls,       \* Apply and Reset calls so far
  (* History: what the properties need to know of the past. *)
  done,        \* how the last call on each breakpoint ended
  overlapped,  \* breakpoints on which two calls have overlapped
  rearmed,     \* breakpoints applied when their trap could still be in place
  unread,      \* breakpoints whose ReadMemory failed
  refusals     \* Mach calls the kernel refused for its own reasons

vars == <<mem, prot, active, original, op, calls,
          done, overlapped, rearmed, unread, refusals>>

Steps    == {"idle", "read", "protect", "write", "reprotect"}
Calls    == {"Apply", "Reset"}
Outcomes == {"never", "applied", "applyFailed", "reset", "resetFailed"}

InCall(t, b) == op[t].pc # "idle" /\ op[t].bp = b

(* A thread outside Apply and Reset; the fields other than pc mean nothing. *)
Idle == [pc |-> "idle", call |-> "Apply", bp |-> CHOOSE b \in Bkpt : TRUE, size |-> 0]

(* The pages the bytes of t's WriteMemory call lie on. *)
TargetPages(t) == Pages(Address[op[t].bp], op[t].size)

Init ==
  /\ mem = InitMem
  /\ \E mapped \in SUBSET Page : prot \in [mapped -> InitialProt]
  /\ active \in [Bkpt -> BOOLEAN]      \* no constructor sets active_
  /\ original = [b \in Bkpt |-> << >>]
  /\ op = [t \in Thread |-> Idle]
  /\ calls = 0
  /\ done = [b \in Bkpt |-> "never"]
  /\ overlapped = {}
  /\ rearmed = {}
  /\ unread = {}
  /\ refusals = 0

-------------------------------------------------------------------------------
(* Calling Apply and Reset. *)

Enter(t, b, call, pc, size) ==
  /\ op[t].pc = "idle"
  /\ calls < MaxCalls
  /\ calls' = calls + 1
  /\ op' = [op EXCEPT ![t] = [pc |-> pc, call |-> call, bp |-> b, size |-> size]]
  /\ overlapped' = IF \E u \in Thread : InCall(u, b)
                   THEN overlapped \cup {b} ELSE overlapped

EnterApply(t, b) ==
  /\ Enter(t, b, "Apply", "read", Width(b))
  /\ rearmed' = IF done[b] \in {"never", "reset"}
                THEN rearmed ELSE rearmed \cup {b}
  /\ UNCHANGED <<mem, prot, original, done, unread, refusals>>

(* Faulty variant: active_ is never set, as in the ARM classes. *)
ApplyX64Inactive(t, b) ==
  /\ Kind[b] = "x86_64"
  /\ EnterApply(t, b)
  /\ UNCHANGED active

(* Only the x86_64 class maintains active_. *)
ApplyX64(t, b) ==
  /\ Kind[b] = "x86_64"
  /\ EnterApply(t, b)
  /\ active' = [active EXCEPT ![b] = TRUE]

ApplyARMv7(t, b) ==
  /\ Kind[b] = "ARMv7"
  /\ EnterApply(t, b)
  /\ UNCHANGED active

ApplyTHUMBv7(t, b) ==
  /\ Kind[b] = "THUMBv7"
  /\ EnterApply(t, b)
  /\ UNCHANGED active

(* Reset goes straight to WriteMemory with the saved bytes, however many.  *)
EnterReset(t, b) ==
  /\ Enter(t, b, "Reset", "protect", Len(original[b]))
  /\ UNCHANGED <<mem, prot, original, done, rearmed, unread, refusals>>

ResetX64(t, b) ==
  /\ Kind[b] = "x86_64"
  /\ EnterReset(t, b)
  /\ active' = [active EXCEPT ![b] = FALSE]

ResetARMv7(t, b) ==
  /\ Kind[b] \in {"ARMv7", "THUMBv7"}
  /\ EnterReset(t, b)
  /\ UNCHANGED active

-------------------------------------------------------------------------------
(* Process::ReadMemory.  Its result is false whether vm_read_overwrite     *)
(* succeeds or fails (KERN_SUCCESS is 0), so Apply never sees a failure:   *)
(* it goes on with an uninitialised buffer.                                *)

(* Faulty variant: the buffer is never filled. *)
ReadMemoryUnfilled(b) == [1 .. Width(b) -> StaleByte]

ReadMemory(b) ==
  IF Readable(prot, Pages(Address[b], Width(b)))
  THEN {Fetch(mem, Address[b], Width(b))}
  ELSE [1 .. Width(b) -> StaleByte]

(* Faulty variant: what was read is not kept. *)
SaveNothing(t, b, saved) ==
  /\ op' = [op EXCEPT ![t].pc = "protect"]
  /\ UNCHANGED <<mem, prot, active, original, calls, done,
                 overlapped, rearmed, unread, refusals>>

Save(t, b, saved) ==
  /\ original' = [original EXCEPT ![b] = saved]
  /\ unread' = IF Readable(prot, Pages(Address[b], Width(b)))
               THEN unread ELSE unread \cup {b}
  /\ op' = [op EXCEPT ![t].pc = "protect"]
  /\ UNCHANGED <<mem, prot, active, calls, done, overlapped, rearmed, refusals>>

(* Faulty variants: the new byte replaces the saved ones; it is a signed char. *)
PushedOver(t, b, byte)   == {<<byte>>}
PushedSigned(t, b, byte) ==
  {Append(original[b], IF byte > 127 THEN byte - 256 ELSE byte)}

(* push_back keeps the earlier bytes.  Two unlocked push_backs on the same *)
(* vector race, and one of the two bytes may be lost.                      *)
Pushed(t, b, byte) ==
  {Append(original[b], byte)} \cup
  {saved \in {original[b]} : \E u \in Thread \ {t} : InCall(u, b) /\ op[u].pc = "read"}

SaveOriginalX64(t) ==
  LET b == op[t].bp IN
  /\ op[t].pc = "read"
  /\ Kind[b] = "x86_64"
  /\ \E bytes \in ReadMemory(b) : \E saved \in Pushed(t, b, bytes[1]) : Save(t, b, saved)

(* assign drops the earlier bytes. *)
SaveOriginalARMv7(t) ==
  LET b == op[t].bp IN
  /\ op[t].pc = "read"
  /\ Kind[b] \in {"ARMv7", "THUMBv7"}
  /\ \E bytes \in ReadMemory(b) : Save(t, b, bytes)

-------------------------------------------------------------------------------
(* Process::WriteMemory with force, and the return from Apply or Reset.    *)

Outcome(call, ok) ==
  CASE call = "Apply" /\ ok   -> "applied"
    [] call = "Apply" /\ ~ ok -> "applyFailed"
    [] call = "Reset" /\ ok   -> "reset"
    [] call = "Reset" /\ ~ ok -> "resetFailed"

Return(t, ok) ==
  /\ op'   = [op EXCEPT ![t] = Idle]
  /\ done' = [done EXCEPT ![op[t].bp] = Outcome(op[t].call, ok)]

(* Faulty variant: the result of the Mach call is not tested. *)
VmCallUntested(t) ==
  /\ op[t].pc = "write"
  /\ ~ Writable(prot, TargetPages(t))
  /\ op' = [op EXCEPT ![t].pc = "reprotect"]
  /\ UNCHANGED <<mem, prot, active, original, calls, done,
                 overlapped, rearmed, unread, refusals>>

(* A call of WriteMemory that the kernel refuses ends it at once. *)
VmCallFails(t) ==
  /\ \/ /\ op[t].pc \in {"protect", "reprotect"}
        /\ ~ IsMapped(prot, TargetPages(t))
     \/ /\ op[t].pc = "write"
        /\ ~ Writable(prot, TargetPages(t))
  /\ Return(t, FALSE)
  /\ UNCHANGED <<mem, prot, active, original, calls, overlapped, rearmed, unread, refusals>>

(* Out of memory, a maximum protection, a task that is going away. *)
KernelRefuses(t) ==
  /\ op[t].pc \in {"protect", "write", "reprotect"}
  /\ refusals < MaxRefusals
  /\ refusals' = refusals + 1
  /\ Return(t, FALSE)
  /\ UNCHANGED <<mem, prot, active, original, calls, overlapped, rearmed, unread>>

VmProtectForWrite(t) ==
  /\ op[t].pc = "protect"
  /\ IsMapped(prot, TargetPages(t))
  /\ prot' = Protect(prot, TargetPages(t), RWX)
  /\ op' = [op EXCEPT ![t].pc = "write"]
  /\ UNCHANGED <<mem, active, original, calls, done, overlapped, rearmed, unread, refusals>>

(* Reset passes original_opcode_.data(): when an Apply on the same object  *)
(* has grown the vector since, the pointer may dangle.                     *)
Input(t) ==
  LET b    == op[t].bp
      size == op[t].size
  IN  CASE op[t].call = "Apply" -> {Opcode(b)}
        [] op[t].call = "Reset" -> {SubSeq(original[b], 1, size)} \cup
             {bytes \in [1 .. size -> StaleByte] : size # Len(original[b])}

VmWrite(t) ==
  /\ op[t].pc = "write"
  /\ Writable(prot, TargetPages(t))
  /\ \E bytes \in Input(t) : mem' = Patch(mem, Address[op[t].bp], bytes)
  /\ op' = [op EXCEPT ![t].pc = "reprotect"]
  /\ UNCHANGED <<prot, active, original, calls, done, overlapped, rearmed, unread, refusals>>

(* Faulty variant: the pages are left as they are. *)
NoVmProtectAfterWrite(t) ==
  /\ op[t].pc = "reprotect"
  /\ Return(t, TRUE)
  /\ UNCHANGED <<mem, prot, active, original, calls, overlapped, rearmed, unread, refusals>>

(* The protection the pages had before is not restored: they become r-x. *)
VmProtectAfterWrite(t) ==
  /\ op[t].pc = "reprotect"
  /\ IsMapped(prot, TargetPages(t))
  /\ prot' = Protect(prot, TargetPages(t), RX)
  /\ Return(t, TRUE)
  /\ UNCHANGED <<mem, active, original, calls, overlapped, rearmed, unread, refusals>>

-------------------------------------------------------------------------------
Call(t, b) ==
  \/ ApplyX64(t, b)
  \/ ApplyARMv7(t, b)
  \/ ApplyTHUMBv7(t, b)
  \/ ResetX64(t, b)
  \/ ResetARMv7(t, b)

Continue(t) ==
  \/ SaveOriginalX64(t)
  \/ SaveOriginalARMv7(t)
  \/ VmProtectForWrite(t)
  \/ VmWrite(t)
  \/ VmProtectAfterWrite(t)
  \/ VmCallFails(t)
  \/ KernelRefuses(t)

Next == \E t \in Thread : Continue(t) \/ \E b \in Bkpt : Call(t, b)

Spec == Init /\ [][Next]_vars

-------------------------------------------------------------------------------
(* Type invariant: the values the state takes. *)
TypeOK ==
  /\ mem \in [Addr -> Byte]
  /\ \E mapped \in SUBSET Page : prot \in [mapped -> SUBSET Right]
  /\ active \in [Bkpt -> BOOLEAN]
  /\ original \in [Bkpt -> Seq(Byte)]
  /\ op \in [Thread -> [pc : Steps, call : Calls, bp : Bkpt, size : Nat]]
  /\ calls \in 0 .. MaxCalls
  /\ done \in [Bkpt -> Outcomes]
  /\ overlapped \subseteq Bkpt
  /\ rearmed \subseteq Bkpt
  /\ unread \subseteq Bkpt
  /\ refusals \in 0 .. MaxRefusals

(* The addresses breakpoint b may have written or may be about to write:   *)
(* what Reset would write back, and what the calls in flight write.        *)
Claimed(b) ==
  Span(Address[b], Len(original[b])) \cup
  UNION {Span(Address[b], op[t].size) : t \in {u \in Thread : InCall(u, b)}}

(* No other breakpoint reaches into the bytes under b. *)
Isolated(b) ==
  \A c \in Bkpt \ {b} : Claimed(c) \cap Span(Address[b], Width(b)) = {}

Settled(b) == \A t \in Thread : ~ InCall(t, b)

(* No two calls on b have overlapped and no read under b has failed. *)
Orderly(b) == b \notin overlapped \cup unread

Under(m, b) == Fetch(m, Address[b], Width(b))

(***************************************************************************)
(* However the debugger's threads interleave and whichever calls the       *)
(* kernel refuses, a byte of the program differs from the original only    *)
(* where a breakpoint has saved a byte, or a call in flight has not yet    *)
(* saved it.  A byte changed and not saved could not be restored by any    *)
(* later Reset.                                                            *)
(***************************************************************************)
Confined == \A a \in Addr : mem[a] # InitMem[a] => \E b \in Bkpt : a \in Claimed(b)

(***************************************************************************)
(* What Apply saved first is the program's own code, not the trap of this  *)
(* or of another breakpoint.  x86_64 keeps it even when Apply is called on *)
(* an armed breakpoint, because push_back puts the trap behind it; the ARM *)
(* classes assign, and lose it when applied to an armed breakpoint.        *)
(***************************************************************************)
OriginalKept ==
  \A b \in Bkpt :
    /\ original[b] # << >>
    /\ Orderly(b) /\ Isolated(b)
    /\ Kind[b] = "x86_64" \/ b \notin rearmed
    => SubSeq(original[b], 1, Width(b)) = Under(InitMem, b)

(***************************************************************************)
(* What Apply and Reset return is true of the memory: after true from      *)
(* Apply the trap is there; after true from Reset, or before any call, the *)
(* program's own code is there; false from the Apply of a disarmed         *)
(* breakpoint left the code alone.  The last is said only as long as the   *)
(* kernel has refused nothing at all: if it refuses the last vm_protect of *)
(* a forced WriteMemory, Apply returns false and its trap is there.        *)
(***************************************************************************)
TruthfulReturn ==
  \A b \in Bkpt :
    Settled(b) /\ Orderly(b) /\ Isolated(b) =>
      /\ done[b] = "applied" => Under(mem, b) = Opcode(b)
      /\ \/ done[b] = "never"
         \/ done[b] = "reset" /\ (Kind[b] = "x86_64" \/ b \notin rearmed)
         \/ done[b] = "applyFailed" /\ b \notin rearmed /\ refusals = 0
         => Under(mem, b) = Under(InitMem, b)

(***************************************************************************)
(* A trap in memory belongs to an active x86_64 breakpoint, but for the    *)
(* time of a Reset and after a failed one: active_ is set before the trap  *)
(* is written, so the exception server never finds the breakpoint of a     *)
(* trap inactive because its Apply is not yet over.                        *)
(***************************************************************************)
TrapIsActive ==
  \A b \in Bkpt :
    /\ Kind[b] = "x86_64"
    /\ Orderly(b) /\ Isolated(b)
    /\ Under(InitMem, b) # Opcode(b) /\ Under(mem, b) = Opcode(b)
    => \/ active[b]
       \/ done[b] = "resetFailed"
       \/ \E t \in Thread : InCall(t, b) /\ op[t].call = "Reset"

(* All that b may ever have written so far lies on one page. *)
OnePage(b) ==
  \A x, y \in Claimed(b) \cup Span(Address[b], Width(b)) : PageOf[x] = PageOf[y]

(***************************************************************************)
(* Two forced writes to one page race on its protection: one sets it back  *)
(* to r-x while the other is about to write, which then fails and returns  *)
(* without a vm_protect of its own.  Still no page stays writable and      *)
(* executable once no write to it is under way, as long as every           *)
(* breakpoint lies on one page and the kernel refuses nothing.             *)
(***************************************************************************)
NoPageLeftWritable ==
  refusals = 0 /\ (\A b \in Bkpt : OnePage(b)) =>
    \A p \in DOMAIN prot :
      prot[p] = RWX =>
        \E t \in Thread : op[t].pc \in {"write", "reprotect"} /\ p \in TargetPages(t)
===============================================================================
