----------------------- MODULE SoftwareBreakpointProofs -----------------------
(***************************************************************************)
(* Proofs about SoftwareBreakpoint, for any number of threads and          *)
(* breakpoints of any class at any addresses.                              *)
(***************************************************************************)
EXTENDS SoftwareBreakpoint, TLAPS

(* Sizes and contents of the traps. *)
LEMMA OpcodeType ==
  \A b \in Bkpt : Opcode(b) \in Seq(Byte) /\ Width(b) \in Nat /\ Width(b) >= 1
<1>1. X64Opcode \in Seq(Byte) /\ Len(X64Opcode) = 1
  BY DEF X64Opcode, Byte
<1>2. ARMv7Opcode \in Seq(Byte) /\ Len(ARMv7Opcode) = 4
  BY DEF ARMv7Opcode, Byte
<1>3. THUMBv7Opcode \in Seq(Byte) /\ Len(THUMBv7Opcode) = 2
  BY DEF THUMBv7Opcode, Byte
<1>4. ASSUME NEW b \in Bkpt
      PROVE  Opcode(b) \in Seq(Byte) /\ Width(b) \in Nat /\ Width(b) >= 1
  <2>1. CASE Kind[b] = "x86_64"
    BY <1>1, <2>1 DEF Opcode, Width
  <2>2. CASE Kind[b] = "ARMv7"
    BY <1>2, <2>2 DEF Opcode, Width
  <2>3. CASE Kind[b] = "THUMBv7"
    <3>1. Opcode(b) = THUMBv7Opcode
      BY <2>3 DEF Opcode
    <3> QED BY <3>1, <1>3 DEF Width
  <2> QED
    BY <2>1, <2>2, <2>3, KindAssumption DEF Kinds
<1> QED BY <1>4

(* The bytes of a call's WriteMemory stay inside the window they patch. *)
LEMMA PatchType ==
  ASSUME NEW m \in [Addr -> Byte], NEW a \in Addr, NEW bytes \in Seq(Byte)
  PROVE  /\ Patch(m, a, bytes) \in [Addr -> Byte]
         /\ \A x \in Addr \ Span(a, Len(bytes)) : Patch(m, a, bytes)[x] = m[x]
<1>1. ASSUME NEW x \in Span(a, Len(bytes))
      PROVE  bytes[x - a + 1] \in Byte
  <2>1. x - a + 1 \in 1 .. Len(bytes)
    BY <1>1, LastAddrAssumption DEF Span, Addr
  <2> QED BY <2>1
<1> QED
  BY <1>1 DEF Patch

(* What ReadMemory leaves in Apply's buffer: Width(b) bytes. *)
LEMMA ReadMemoryType ==
  ASSUME mem \in [Addr -> Byte], NEW b \in Bkpt
  PROVE  \A bytes \in ReadMemory(b) :
           bytes \in Seq(Byte) /\ Len(bytes) = Width(b)
<1>1. Width(b) \in Nat
  BY OpcodeType
<1>2. \A i \in 1 .. Width(b) : Address[b] + i - 1 \in Addr
  BY <1>1, AddressAssumption, LastAddrAssumption DEF Addr
<1>3. Fetch(mem, Address[b], Width(b)) \in [1 .. Width(b) -> Byte]
  BY <1>2 DEF Fetch
<1>4. \A s \in [1 .. Width(b) -> Byte] : s \in Seq(Byte) /\ Len(s) = Width(b)
  BY <1>1
<1>5. [1 .. Width(b) -> StaleByte] \subseteq [1 .. Width(b) -> Byte]
  BY StaleAssumption
<1> QED
  BY <1>3, <1>4, <1>5 DEF ReadMemory

(* What a call passes to WriteMemory: at most the saved bytes or the trap. *)
LEMMA InputType ==
  ASSUME TypeOK, NEW t \in Thread, op[t].pc # "idle"
  PROVE  \A bytes \in Input(t) :
           /\ op[t].call = "Reset" /\ op[t].size \in 0 .. Len(original[op[t].bp]) =>
                bytes \in Seq(Byte) /\ Len(bytes) = op[t].size
           /\ op[t].call = "Apply" => bytes = Opcode(op[t].bp)
<1> DEFINE b == op[t].bp
           n == op[t].size
<1>1. original[b] \in Seq(Byte) /\ n \in Nat
  BY DEF TypeOK
<1>2. ASSUME n \in 0 .. Len(original[b])
      PROVE  SubSeq(original[b], 1, n) \in Seq(Byte) /\ Len(SubSeq(original[b], 1, n)) = n
  BY <1>1, <1>2
<1>3. \A s \in [1 .. n -> Byte] : s \in Seq(Byte) /\ Len(s) = n
  BY <1>1
<1>4. [1 .. n -> StaleByte] \subseteq [1 .. n -> Byte]
  BY StaleAssumption
<1> QED
  BY <1>2, <1>3, <1>4 DEF Input

-------------------------------------------------------------------------------
(* Type correctness. *)

(* vm_protect keeps the set of mapped pages. *)
LEMMA ProtectType ==
  ASSUME NEW ps, NEW r \in SUBSET Right,
         \E mapped \in SUBSET Page : prot \in [mapped -> SUBSET Right]
  PROVE  \E mapped \in SUBSET Page : Protect(prot, ps, r) \in [mapped -> SUBSET Right]
BY DEF Protect

(* A thread outside Apply and Reset has a well-typed record.               *)
LEMMA IdleType == Idle \in [pc : Steps, call : Calls, bp : Bkpt, size : Nat]
BY BkptAssumption DEF Idle, Steps, Calls

(***************************************************************************)
(* TypeOK is not inductive: that the bytes Reset writes are bytes depends  *)
(* on their being no more than what is saved.                              *)
(***************************************************************************)
SizesOK ==
  /\ \A t \in Thread :
       /\ op[t].pc # "idle" /\ op[t].call = "Apply" => op[t].size = Width(op[t].bp)
       /\ op[t].pc # "idle" /\ op[t].call = "Reset" =>
            op[t].pc # "read" /\ op[t].size <= Len(original[op[t].bp])
  /\ \A b \in Bkpt : Kind[b] # "x86_64" => Len(original[b]) \in {0, Width(b)}

(* Before the first call of Apply or Reset the state is well typed.        *)
LEMMA TypeInit == ASSUME Init PROVE TypeOK
<1>1. mem \in [Addr -> Byte]
  BY InitMemAssumption DEF Init
<1>2. \E mapped \in SUBSET Page : prot \in [mapped -> SUBSET Right]
  BY InitialProtAssumption DEF Init
<1>3. op \in [Thread -> [pc : Steps, call : Calls, bp : Bkpt, size : Nat]]
  BY IdleType DEF Init
<1>4. original \in [Bkpt -> Seq(Byte)]
  BY DEF Init
<1>5. calls \in 0 .. MaxCalls /\ refusals \in 0 .. MaxRefusals
  BY BoundAssumption DEF Init
<1> QED
  BY <1>1, <1>2, <1>3, <1>4, <1>5 DEF Init, TypeOK, Outcomes

(* Every step of Apply, Reset and WriteMemory keeps the state well typed.  *)
LEMMA TypeStep == ASSUME TypeOK, SizesOK, [Next]_vars PROVE TypeOK'
<1> DEFINE Op == [pc : Steps, call : Calls, bp : Bkpt, size : Nat]
<1>1. CASE UNCHANGED vars
  BY <1>1 DEF TypeOK, vars
<1>2. ASSUME NEW t \in Thread, NEW b \in Bkpt, Call(t, b)
      PROVE  TypeOK'
  <2>1. op' \in [Thread -> Op] /\ calls' \in 0 .. MaxCalls
    <3>1. ASSUME NEW call \in Calls, NEW pc \in Steps, NEW size \in Nat,
                 Enter(t, b, call, pc, size)
          PROVE  op' \in [Thread -> Op] /\ calls' \in 0 .. MaxCalls
      BY <3>1, BoundAssumption DEF Enter, TypeOK
    <3>2. Width(b) \in Nat /\ Len(original[b]) \in Nat
      BY OpcodeType DEF TypeOK
    <3>3. "Apply" \in Calls /\ "Reset" \in Calls /\ "read" \in Steps /\ "protect" \in Steps
      BY DEF Calls, Steps
    <3> QED
      BY <1>2, <3>1, <3>2, <3>3
      DEF Call, ApplyX64, ApplyARMv7, ApplyTHUMBv7, ResetX64, ResetARMv7,
          EnterApply, EnterReset
  <2>2. active' \in [Bkpt -> BOOLEAN]
    BY <1>2 DEF Call, ApplyX64, ApplyARMv7, ApplyTHUMBv7, ResetX64, ResetARMv7, TypeOK
  <2>3. overlapped' \subseteq Bkpt /\ rearmed' \subseteq Bkpt
    BY <1>2 DEF Call, ApplyX64, ApplyARMv7, ApplyTHUMBv7, ResetX64, ResetARMv7,
                EnterApply, EnterReset, Enter, TypeOK
  <2>4. UNCHANGED <<mem, prot, original, done, unread, refusals>>
    BY <1>2 DEF Call, ApplyX64, ApplyARMv7, ApplyTHUMBv7, ResetX64, ResetARMv7,
                EnterApply, EnterReset
  <2> QED
    BY <2>1, <2>2, <2>3, <2>4 DEF TypeOK
<1>3. ASSUME NEW t \in Thread, Continue(t)
      PROVE  TypeOK'
  <2> DEFINE b == op[t].bp
  <2>1. op[t] \in Op /\ b \in Bkpt
    BY DEF TypeOK
  <2>2. ASSUME NEW ok \in BOOLEAN, Return(t, ok)
        PROVE  op' \in [Thread -> Op] /\ done' \in [Bkpt -> Outcomes]
    <3>1. Outcome(op[t].call, ok) \in Outcomes
      BY <2>1 DEF Outcome, Outcomes, Calls
    <3> QED
      BY <2>1, <2>2, <3>1, IdleType DEF Return, TypeOK
  <2>3. ASSUME NEW saved \in Seq(Byte), Save(t, b, saved)
        PROVE  TypeOK'
    <3>1. op' \in [Thread -> Op] /\ original' \in [Bkpt -> Seq(Byte)] /\ unread' \subseteq Bkpt
      BY <2>1, <2>3 DEF Save, TypeOK, Steps
    <3> QED
      BY <2>3, <3>1 DEF Save, TypeOK
  <2>4. CASE SaveOriginalX64(t)
    <3>1. PICK bytes \in ReadMemory(b) : \E saved \in Pushed(t, b, bytes[1]) : Save(t, b, saved)
      BY <2>4 DEF SaveOriginalX64
    <3>2. bytes[1] \in Byte
      <4>1. bytes \in Seq(Byte) /\ Len(bytes) = Width(b)
        BY <2>1, ReadMemoryType DEF TypeOK
      <4>2. 1 \in 1 .. Len(bytes)
        BY <2>1, <4>1, OpcodeType
      <4> QED
        BY <4>1, <4>2
    <3>3. Pushed(t, b, bytes[1]) \subseteq Seq(Byte)
      <4>1. original[b] \in Seq(Byte)
        BY <2>1 DEF TypeOK
      <4>2. Append(original[b], bytes[1]) \in Seq(Byte)
        BY <3>2, <4>1
      <4> QED
        BY <4>1, <4>2 DEF Pushed
    <3> QED
      BY <2>3, <3>1, <3>3
  <2>5. CASE SaveOriginalARMv7(t)
    BY <2>1, <2>3, <2>5, ReadMemoryType DEF SaveOriginalARMv7, TypeOK
  <2>6. CASE VmProtectForWrite(t)
    <3>1. \E mapped \in SUBSET Page : prot' \in [mapped -> SUBSET Right]
      BY <2>6, ProtectType DEF VmProtectForWrite, TypeOK, RWX, Right
    <3>2. op' \in [Thread -> Op]
      BY <2>1, <2>6 DEF VmProtectForWrite, TypeOK, Steps
    <3> QED
      BY <2>6, <3>1, <3>2 DEF VmProtectForWrite, TypeOK
  <2>7. CASE VmWrite(t)
    <3>1. PICK bytes \in Input(t) : mem' = Patch(mem, Address[b], bytes)
      BY <2>7 DEF VmWrite
    <3>2. op' \in [Thread -> Op]
      BY <2>1, <2>7 DEF VmWrite, TypeOK, Steps
    <3>3. bytes \in Seq(Byte)
      <4>1. op[t].pc # "idle"
        BY <2>7 DEF VmWrite
      <4>2. CASE op[t].call = "Apply"
        BY <2>1, <3>1, <4>1, <4>2, InputType, OpcodeType
      <4>3. CASE op[t].call = "Reset"
        <5>1. op[t].size \in 0 .. Len(original[b])
          <6>1. op[t].size \in Nat /\ Len(original[b]) \in Nat
            BY <2>1 DEF TypeOK
          <6>2. op[t].size <= Len(original[b])
            BY <4>1, <4>3 DEF SizesOK
          <6> QED
            BY <6>1, <6>2
        <5> QED
          BY <3>1, <4>1, <4>3, <5>1, InputType
      <4> QED
        BY <2>1, <4>2, <4>3 DEF Calls
    <3>4. mem' \in [Addr -> Byte]
      BY <2>1, <3>1, <3>3, PatchType, AddressAssumption DEF TypeOK
    <3> QED
      BY <2>7, <3>2, <3>4 DEF VmWrite, TypeOK
  <2>8. CASE VmProtectAfterWrite(t)
    <3>1. \E mapped \in SUBSET Page : prot' \in [mapped -> SUBSET Right]
      BY <2>8, ProtectType DEF VmProtectAfterWrite, TypeOK, RX, Right
    <3> QED
      BY <2>2, <2>8, <3>1 DEF VmProtectAfterWrite, TypeOK
  <2>9. CASE VmCallFails(t)
    BY <2>2, <2>9 DEF VmCallFails, TypeOK
  <2>10. CASE KernelRefuses(t)
    <3>1. refusals' \in 0 .. MaxRefusals
      BY <2>10, BoundAssumption DEF KernelRefuses, TypeOK
    <3>2. op' \in [Thread -> Op] /\ done' \in [Bkpt -> Outcomes]
      BY <2>2, <2>10 DEF KernelRefuses
    <3> QED
      BY <2>10, <3>1, <3>2 DEF KernelRefuses, TypeOK
  <2> QED
    BY <1>3, <2>4, <2>5, <2>6, <2>7, <2>8, <2>9, <2>10 DEF Continue
<1> QED
  BY <1>1, <1>2, <1>3 DEF Next

-------------------------------------------------------------------------------
(* What one step does to a thread and to the saved bytes. *)

(* A thread enters a call, goes on in it, or leaves it. *)
LEMMA ThreadStep ==
  ASSUME TypeOK, Next, NEW u \in Thread
  PROVE  \/ op'[u] = op[u]
         \/ /\ op[u].pc = "idle"
            /\ \E b \in Bkpt :
                 \/ op'[u] = [pc |-> "read", call |-> "Apply", bp |-> b, size |-> Width(b)]
                 \/ op'[u] = [pc |-> "protect", call |-> "Reset", bp |-> b,
                              size |-> Len(original[b])]
         \/ /\ <<op[u].pc, op'[u].pc>> \in
                 {<<"read", "protect">>, <<"protect", "write">>, <<"write", "reprotect">>}
            /\ op'[u] = [op[u] EXCEPT !.pc = op'[u].pc]
         \/ op[u].pc \in {"protect", "write", "reprotect"} /\ op'[u] = Idle
<1>1. ASSUME NEW t \in Thread, NEW b \in Bkpt, Call(t, b)
      PROVE  \/ op'[u] = op[u]
             \/ /\ op[u].pc = "idle"
                /\ \/ op'[u] = [pc |-> "read", call |-> "Apply", bp |-> b, size |-> Width(b)]
                   \/ op'[u] = [pc |-> "protect", call |-> "Reset", bp |-> b,
                                size |-> Len(original[b])]
  BY <1>1 DEF Call, ApplyX64, ApplyARMv7, ApplyTHUMBv7, ResetX64, ResetARMv7,
              EnterApply, EnterReset, Enter, TypeOK
<1>2. ASSUME NEW t \in Thread, Continue(t)
      PROVE  \/ op'[u] = op[u]
             \/ /\ <<op[u].pc, op'[u].pc>> \in
                     {<<"read", "protect">>, <<"protect", "write">>, <<"write", "reprotect">>}
                /\ op'[u] = [op[u] EXCEPT !.pc = op'[u].pc]
             \/ op[u].pc \in {"protect", "write", "reprotect"} /\ op'[u] = Idle
  <2>1. CASE SaveOriginalX64(t) \/ SaveOriginalARMv7(t)
    <3>1. op[t].pc = "read" /\ op' = [op EXCEPT ![t].pc = "protect"]
      BY <2>1 DEF SaveOriginalX64, SaveOriginalARMv7, Save
    <3> QED
      BY <3>1 DEF TypeOK
  <2>2. CASE VmProtectForWrite(t) \/ VmWrite(t)
    <3>1. PICK pc \in {"write", "reprotect"} :
            /\ <<op[t].pc, pc>> \in {<<"protect", "write">>, <<"write", "reprotect">>}
            /\ op' = [op EXCEPT ![t].pc = pc]
      BY <2>2 DEF VmProtectForWrite, VmWrite
    <3> QED
      BY <3>1 DEF TypeOK
  <2>3. CASE VmProtectAfterWrite(t) \/ VmCallFails(t) \/ KernelRefuses(t)
    <3>1. op[t].pc \in {"protect", "write", "reprotect"}
      BY <2>3 DEF VmProtectAfterWrite, VmCallFails, KernelRefuses
    <3>2. op' = [op EXCEPT ![t] = Idle]
      BY <2>3 DEF VmProtectAfterWrite, VmCallFails, KernelRefuses, Return
    <3> QED
      BY <3>1, <3>2 DEF TypeOK
  <2> QED
    BY <1>2, <2>1, <2>2, <2>3 DEF Continue
<1> QED
  BY <1>1, <1>2 DEF Next

(* Saving a byte never shortens what is saved; ARM saves one whole opcode. *)
LEMMA SavedStep ==
  ASSUME TypeOK, SizesOK, Next, NEW b \in Bkpt
  PROVE  \/ original'[b] = original[b]
         \/ \E t \in Thread :
              /\ InCall(t, b) /\ op[t].pc = "read" /\ op'[t].pc = "protect"
              /\ \A u \in Thread \ {t} : op'[u] = op[u]
              /\ \E bytes \in ReadMemory(b) :
                   /\ Kind[b] = "x86_64" => original'[b] = Append(original[b], bytes[1])
                   /\ Kind[b] # "x86_64" => original'[b] = bytes
<1>1. CASE \E t \in Thread : \E c \in Bkpt : Call(t, c)
  BY <1>1 DEF Call, ApplyX64, ApplyARMv7, ApplyTHUMBv7, ResetX64, ResetARMv7,
              EnterApply, EnterReset
<1>2. ASSUME NEW t \in Thread, Continue(t)
      PROVE  \/ original'[b] = original[b]
             \/ /\ InCall(t, b) /\ op[t].pc = "read" /\ op'[t].pc = "protect"
                /\ \A u \in Thread \ {t} : op'[u] = op[u]
                /\ \E bytes \in ReadMemory(b) :
                     /\ Kind[b] = "x86_64" => original'[b] = Append(original[b], bytes[1])
                     /\ Kind[b] # "x86_64" => original'[b] = bytes
  <2>1. CASE SaveOriginalX64(t)
    <3> DEFINE c == op[t].bp
    <3>0. PICK bytes \in ReadMemory(c) :
            \E saved \in Pushed(t, c, bytes[1]) : Save(t, c, saved)
      BY <2>1 DEF SaveOriginalX64
    <3>1. PICK saved \in Pushed(t, c, bytes[1]) : Save(t, c, saved)
      BY <3>0
    <3>2. op[t].pc = "read" /\ Kind[c] = "x86_64" /\ c \in Bkpt
      BY <2>1 DEF SaveOriginalX64, TypeOK
    <3>3. op'[t].pc = "protect" /\ \A u \in Thread \ {t} : op'[u] = op[u]
      BY <3>1 DEF Save, TypeOK
    <3>4. original' = [original EXCEPT ![c] = saved]
      BY <3>1 DEF Save
    <3>5. saved = Append(original[c], bytes[1]) \/ saved = original[c]
      BY DEF Pushed
    <3> QED
      BY <3>2, <3>3, <3>4, <3>5 DEF InCall, TypeOK
  <2>2. CASE SaveOriginalARMv7(t)
    BY <2>2 DEF SaveOriginalARMv7, Save, InCall, TypeOK
  <2>3. CASE ~ SaveOriginalX64(t) /\ ~ SaveOriginalARMv7(t)
    BY <1>2, <2>3 DEF Continue, VmProtectForWrite, VmWrite, VmProtectAfterWrite,
                      VmCallFails, KernelRefuses
  <2> QED
    BY <2>1, <2>2, <2>3
<1> QED
  BY <1>1, <1>2 DEF Next

(* original_opcode_ never gets shorter: push_back adds, assign keeps the size. *)
LEMMA SavedGrows ==
  ASSUME TypeOK, SizesOK, Next, NEW b \in Bkpt
  PROVE  /\ Len(original'[b]) \in Nat
         /\ Len(original'[b]) >= Len(original[b])
         /\ Kind[b] # "x86_64" => Len(original'[b]) \in {0, Width(b)}
<1>1. Len(original[b]) \in Nat /\ original[b] \in Seq(Byte)
  BY DEF TypeOK
<1>2. ASSUME NEW bytes \in ReadMemory(b)
      PROVE  bytes \in Seq(Byte) /\ Len(bytes) = Width(b) /\ Width(b) \in Nat /\ bytes[1] \in Byte
  <2>1. bytes \in Seq(Byte) /\ Len(bytes) = Width(b)
    BY ReadMemoryType DEF TypeOK
  <2>2. 1 \in 1 .. Len(bytes)
    BY <2>1, OpcodeType
  <2> QED
    BY <2>1, <2>2, OpcodeType
<1>3. ASSUME NEW bytes \in ReadMemory(b), Kind[b] = "x86_64",
             original'[b] = Append(original[b], bytes[1])
      PROVE  Len(original'[b]) = Len(original[b]) + 1
  BY <1>1, <1>2, <1>3
<1>4. Kind[b] # "x86_64" => Len(original[b]) \in {0, Width(b)}
  BY DEF SizesOK
<1> QED
  BY <1>1, <1>2, <1>3, <1>4, SavedStep

(* Sizes of saved bytes and of calls stay those that Apply and Reset pass. *)
LEMMA SizesStep ==
  ASSUME TypeOK, SizesOK, Next
  PROVE  SizesOK'
<1> DEFINE Fits(t) ==
      /\ op'[t].pc # "idle" /\ op'[t].call = "Apply" => op'[t].size = Width(op'[t].bp)
      /\ op'[t].pc # "idle" /\ op'[t].call = "Reset" =>
           op'[t].pc # "read" /\ op'[t].size <= Len(original'[op'[t].bp])
<1>1. ASSUME NEW t \in Thread PROVE Fits(t)
  <2>1. op[t] \in [pc : Steps, call : Calls, bp : Bkpt, size : Nat]
    BY DEF TypeOK
  <2>2. \A b \in Bkpt : /\ Len(original[b]) \in Nat /\ Len(original'[b]) \in Nat
                        /\ Len(original'[b]) >= Len(original[b])
    BY SavedGrows DEF TypeOK
  <2>3. /\ op[t].pc # "idle" /\ op[t].call = "Apply" => op[t].size = Width(op[t].bp)
        /\ op[t].pc # "idle" /\ op[t].call = "Reset" =>
             op[t].pc # "read" /\ op[t].size <= Len(original[op[t].bp])
    BY DEF SizesOK
  <2>4. CASE op'[t] = op[t]
    BY <2>1, <2>2, <2>3, <2>4
  <2>5. ASSUME NEW b \in Bkpt,
               \/ op'[t] = [pc |-> "read", call |-> "Apply", bp |-> b, size |-> Width(b)]
               \/ op'[t] = [pc |-> "protect", call |-> "Reset", bp |-> b,
                            size |-> Len(original[b])]
        PROVE  Fits(t)
    BY <2>2, <2>5
  <2>6. CASE /\ <<op[t].pc, op'[t].pc>> \in
                  {<<"read", "protect">>, <<"protect", "write">>, <<"write", "reprotect">>}
             /\ op'[t] = [op[t] EXCEPT !.pc = op'[t].pc]
    BY <2>1, <2>2, <2>3, <2>6
  <2>7. CASE op'[t] = Idle
    BY <2>7 DEF Idle
  <2> QED
    BY <2>4, <2>5, <2>6, <2>7, ThreadStep
<1>2. \A b \in Bkpt : Kind[b] # "x86_64" => Len(original'[b]) \in {0, Width(b)}
  BY SavedGrows
<1> QED
  BY <1>1, <1>2 DEF SizesOK

-------------------------------------------------------------------------------
(* Confined. *)

(***************************************************************************)
(* An Apply past its read has saved a whole opcode's bytes, unless its     *)
(* byte was lost to another Apply on the same breakpoint that is still to  *)
(* save its own.                                                           *)
(***************************************************************************)
Covered ==
  \A t \in Thread :
    op[t].call = "Apply" /\ op[t].pc \in {"protect", "write", "reprotect"} =>
      \/ Len(original[op[t].bp]) >= Width(op[t].bp)
      \/ \E u \in Thread : op[u].pc = "read" /\ op[u].bp = op[t].bp

(* When a thread leaves its read, the opcode is saved or another thread's  *)
(* Apply is about to save it.                                              *)
LEMMA ReadEnds ==
  ASSUME TypeOK, SizesOK, Next,
         NEW t \in Thread, op[t].pc = "read", op'[t] # op[t]
  PROVE  \/ Len(original'[op[t].bp]) >= Width(op[t].bp)
         \/ \E w \in Thread : op'[w].pc = "read" /\ op'[w].bp = op[t].bp
<1> DEFINE b == op[t].bp
<1>1. op[t] \in [pc : Steps, call : Calls, bp : Bkpt, size : Nat] /\ original[b] \in Seq(Byte)
  BY DEF TypeOK
<1>2. Continue(t)
  <2>1. ASSUME NEW u \in Thread, Continue(u), u # t
        PROVE  op'[t] = op[t]
    <3>1. \E v : op' = [op EXCEPT ![u] = v]
      BY <2>1 DEF Continue, SaveOriginalX64, SaveOriginalARMv7, Save, VmProtectForWrite,
                  VmWrite, VmProtectAfterWrite, VmCallFails, KernelRefuses, Return
    <3> QED
      BY <2>1, <3>1 DEF TypeOK
  <2>2. ASSUME NEW u \in Thread, NEW c \in Bkpt, Call(u, c)
        PROVE  op'[t] = op[t]
    BY <2>2 DEF Call, ApplyX64, ApplyARMv7, ApplyTHUMBv7, ResetX64, ResetARMv7,
                EnterApply, EnterReset, Enter, TypeOK
  <2> QED
    BY <2>1, <2>2 DEF Next
<1>3. SaveOriginalX64(t) \/ SaveOriginalARMv7(t)
  BY <1>2 DEF Continue, VmProtectForWrite, VmWrite, VmProtectAfterWrite, VmCallFails,
              KernelRefuses
<1>4. \A bytes \in ReadMemory(b) : bytes \in Seq(Byte) /\ Len(bytes) = Width(b)
  BY <1>1, ReadMemoryType DEF TypeOK
<1>5. CASE SaveOriginalARMv7(t)
  BY <1>1, <1>4, <1>5, OpcodeType DEF SaveOriginalARMv7, Save, TypeOK
<1>6. CASE SaveOriginalX64(t)
  <2>1. PICK bytes \in ReadMemory(b) :
          \E saved \in Pushed(t, b, bytes[1]) : Save(t, b, saved)
    BY <1>6 DEF SaveOriginalX64
  <2>2. PICK saved \in Pushed(t, b, bytes[1]) : Save(t, b, saved)
    BY <2>1
  <2>3. CASE saved = Append(original[b], bytes[1])
    <3>1. Width(b) = 1
      BY <1>6 DEF SaveOriginalX64, Width, Opcode, X64Opcode
    <3>2. original'[b] = Append(original[b], bytes[1])
      BY <1>1, <2>2, <2>3 DEF Save, TypeOK
    <3>3. Len(original'[b]) = Len(original[b]) + 1 /\ Len(original[b]) \in Nat
      BY <1>1, <3>2
    <3> QED
      BY <3>1, <3>3
  <2>4. CASE \E u \in Thread \ {t} : InCall(u, b) /\ op[u].pc = "read"
    <3>1. PICK u \in Thread \ {t} : InCall(u, b) /\ op[u].pc = "read"
      BY <2>4
    <3>2. op'[u] = op[u]
      BY <2>2, <3>1 DEF Save, TypeOK
    <3> QED
      BY <3>1, <3>2 DEF InCall
  <2> QED
    BY <2>2, <2>3, <2>4 DEF Pushed
<1> QED
  BY <1>3, <1>5, <1>6

(* What a call is about to write stays covered by saved bytes or by an Apply. *)
LEMMA CoveredStep ==
  ASSUME TypeOK, SizesOK, Covered, Next
  PROVE  Covered'
<1> SUFFICES ASSUME NEW t \in Thread,
                    op'[t].call = "Apply", op'[t].pc \in {"protect", "write", "reprotect"}
             PROVE  \/ Len(original'[op'[t].bp]) >= Width(op'[t].bp)
                    \/ \E u \in Thread : op'[u].pc = "read" /\ op'[u].bp = op'[t].bp
  BY DEF Covered
<1>1. op[t] \in [pc : Steps, call : Calls, bp : Bkpt, size : Nat]
  BY DEF TypeOK
<1>2. /\ op'[t].bp = op[t].bp
      /\ \/ op[t].pc = "read" /\ op'[t] # op[t]
         \/ op[t].call = "Apply" /\ op[t].pc \in {"protect", "write", "reprotect"}
  <2>1. CASE op'[t] = op[t]
    BY <2>1
  <2>2. ASSUME NEW b \in Bkpt
        PROVE  /\ op'[t] # [pc |-> "read", call |-> "Apply", bp |-> b, size |-> Width(b)]
               /\ op'[t] # [pc |-> "protect", call |-> "Reset", bp |-> b,
                            size |-> Len(original[b])]
    OBVIOUS
  <2>3. CASE /\ <<op[t].pc, op'[t].pc>> \in
                  {<<"read", "protect">>, <<"protect", "write">>, <<"write", "reprotect">>}
             /\ op'[t] = [op[t] EXCEPT !.pc = op'[t].pc]
    <3>1. op'[t].bp = op[t].bp /\ op'[t].call = op[t].call
      BY <1>1, <2>3
    <3>2. op[t].pc \in {"read", "protect", "write", "reprotect"} /\ op[t].pc # op'[t].pc
      BY <2>3
    <3> QED
      BY <3>1, <3>2
  <2>4. op'[t] # Idle
    BY DEF Idle
  <2> QED
    BY <2>1, <2>2, <2>3, <2>4, ThreadStep
<1>3. CASE op[t].pc = "read" /\ op'[t] # op[t]
  BY <1>2, <1>3, ReadEnds
<1>4. CASE op[t].call = "Apply" /\ op[t].pc \in {"protect", "write", "reprotect"}
  <2>1. CASE Len(original[op[t].bp]) >= Width(op[t].bp)
    <3>1. /\ Len(original'[op[t].bp]) \in Nat /\ Len(original[op[t].bp]) \in Nat
          /\ Len(original'[op[t].bp]) >= Len(original[op[t].bp])
      BY <1>1, SavedGrows DEF TypeOK
    <3> QED
      BY <1>1, <1>2, <2>1, <3>1, OpcodeType
  <2>2. ASSUME NEW u \in Thread, op[u].pc = "read", op[u].bp = op[t].bp
        PROVE  \/ Len(original'[op[t].bp]) >= Width(op[t].bp)
               \/ \E w \in Thread : op'[w].pc = "read" /\ op'[w].bp = op[t].bp
    BY <2>2, ReadEnds
  <2> QED
    BY <1>2, <1>4, <2>1, <2>2 DEF Covered
<1> QED
  BY <1>2, <1>3, <1>4

(* No step takes an address from those a breakpoint has saved or is writing. *)
LEMMA ClaimedGrows ==
  ASSUME TypeOK, SizesOK, Covered, Next, NEW b \in Bkpt
  PROVE  Claimed(b) \subseteq Claimed(b)'
<1> SUFFICES ASSUME NEW a \in Claimed(b)
             PROVE  \/ a \in Span(Address[b], Len(original'[b]))
                    \/ \E t \in Thread : /\ op'[t].pc # "idle" /\ op'[t].bp = b
                                        /\ a \in Span(Address[b], op'[t].size)
  BY DEF Claimed, InCall
<1>1. /\ Address[b] \in Nat /\ Len(original[b]) \in Nat /\ Len(original'[b]) \in Nat
      /\ Len(original'[b]) >= Len(original[b])
      /\ Width(b) \in Nat
  <2>1. Address[b] \in Nat
    BY AddressAssumption, LastAddrAssumption DEF Addr
  <2>2. original[b] \in Seq(Byte)
    BY DEF TypeOK
  <2>3. Len(original[b]) \in Nat
    BY <2>2
  <2>4. Len(original'[b]) \in Nat /\ Len(original'[b]) >= Len(original[b])
    BY SavedGrows
  <2> QED
    BY <2>1, <2>3, <2>4, OpcodeType
<1>2. \A m, n \in Nat : m <= n => Span(Address[b], m) \subseteq Span(Address[b], n)
  BY <1>1, LastAddrAssumption DEF Span, Addr
<1>3. CASE a \in Span(Address[b], Len(original[b]))
  BY <1>1, <1>2, <1>3
<1>4. ASSUME NEW t \in Thread, InCall(t, b), a \in Span(Address[b], op[t].size)
      PROVE  \/ a \in Span(Address[b], Len(original'[b]))
             \/ \E u \in Thread : /\ op'[u].pc # "idle" /\ op'[u].bp = b
                                 /\ a \in Span(Address[b], op'[u].size)
  <2>1. op[t] \in [pc : Steps, call : Calls, bp : Bkpt, size : Nat]
    BY DEF TypeOK
  <2>2. CASE op'[t].pc # "idle"
    <3>1. op'[t].bp = b /\ op'[t].size = op[t].size
      <4>1. op[t].pc # "idle" /\ op[t].bp = b
        BY <1>4 DEF InCall
      <4>2. op'[t] # Idle
        BY <2>2 DEF Idle
      <4>3. op'[t] = op[t] \/ op'[t] = [op[t] EXCEPT !.pc = op'[t].pc]
        BY <4>1, <4>2, ThreadStep
      <4> QED
        BY <2>1, <4>1, <4>3
    <3> QED
      BY <1>4, <2>2, <3>1
  <2>3. CASE op'[t].pc = "idle"
    <3>1. op[t].pc \in {"protect", "write", "reprotect"} /\ op[t].bp = b
      BY <1>4, <2>1, <2>3, ThreadStep DEF InCall
    <3>2. CASE op[t].size <= Len(original[b])
      BY <1>1, <1>2, <1>4, <2>1, <3>2
    <3>3. ASSUME op[t].call = "Apply", op[t].size = Width(b),
                 NEW u \in Thread, op[u].pc = "read", op[u].bp = b
          PROVE  \/ a \in Span(Address[b], Len(original'[b]))
                 \/ /\ op'[u].pc # "idle" /\ op'[u].bp = b
                    /\ a \in Span(Address[b], op'[u].size)
      <4>1. op[u] \in [pc : Steps, call : Calls, bp : Bkpt, size : Nat]
        BY DEF TypeOK
      <4>2. op[u].size = Width(b)
        BY <3>3, <4>1 DEF SizesOK, Calls
      <4>3. op'[u].pc # "idle" /\ op'[u].bp = b /\ op'[u].size = op[u].size
        BY <3>3, <4>1, ThreadStep
      <4> QED
        BY <1>4, <3>3, <4>2, <4>3
    <3>4. op[t].call = "Apply" => op[t].size = Width(b)
      BY <3>1 DEF SizesOK
    <3>5. op[t].call = "Reset" => op[t].size <= Len(original[b])
      BY <3>1 DEF SizesOK
    <3> QED
      BY <1>1, <2>1, <3>1, <3>2, <3>3, <3>4, <3>5 DEF Covered, Calls
  <2> QED
    BY <2>2, <2>3
<1> QED
  BY <1>3, <1>4 DEF Claimed

(* A vm_write changes memory only where its call writes. *)
LEMMA WriteStep ==
  ASSUME TypeOK, SizesOK, NEW t \in Thread, VmWrite(t), NEW a \in Addr, mem'[a] # mem[a]
  PROVE  a \in Span(Address[op[t].bp], op[t].size)
<1>. DEFINE b == op[t].bp
<1>1. b \in Bkpt /\ op[t].pc = "write" /\ op[t].call \in Calls /\ op[t].size \in Nat
  BY DEF TypeOK, VmWrite
<1>2. PICK bytes \in Input(t) : mem' = Patch(mem, Address[b], bytes)
  BY DEF VmWrite
<1>3. bytes \in Seq(Byte) /\ Len(bytes) = op[t].size
  <2>1. CASE op[t].call = "Apply"
    <3>1. bytes = Opcode(b)
      BY <1>1, <1>2, <2>1, InputType
    <3>2. op[t].size = Len(Opcode(b))
      BY <1>1, <2>1 DEF SizesOK, Width
    <3>. QED  BY <1>1, <3>1, <3>2, OpcodeType
  <2>2. CASE op[t].call = "Reset"
    <3>1. Len(original[b]) \in Nat
      BY <1>1 DEF TypeOK
    <3>2. op[t].size \in 0 .. Len(original[b])
      BY <1>1, <2>2, <3>1 DEF SizesOK
    <3>. QED  BY <1>1, <1>2, <2>2, <3>2, InputType
  <2>. QED  BY <1>1, <2>1, <2>2 DEF Calls
<1>4. mem \in [Addr -> Byte] /\ Address[b] \in Addr
  BY <1>1, AddressAssumption DEF TypeOK
<1>5. \A x \in Addr \ Span(Address[b], Len(bytes)) : mem'[x] = mem[x]
  BY <1>2, <1>3, <1>4, PatchType
<1>. QED  BY <1>3, <1>5

(* A step changes memory at most where a call writes. *)
LEMMA MemStep ==
  ASSUME TypeOK, SizesOK, Next, NEW a \in Addr, mem'[a] # mem[a]
  PROVE  \E t \in Thread : op[t].pc = "write" /\ a \in Span(Address[op[t].bp], op[t].size)
<1>1. PICK t \in Thread : VmWrite(t)
  BY DEF Next, Call, ApplyX64, ApplyARMv7, ApplyTHUMBv7, ResetX64, ResetARMv7,
         EnterApply, EnterReset, Continue, SaveOriginalX64, SaveOriginalARMv7, Save,
         VmProtectForWrite, VmProtectAfterWrite, VmCallFails, KernelRefuses
<1>. QED  BY <1>1, WriteStep DEF VmWrite

(* The inductive invariant. *)
IInv == TypeOK /\ SizesOK /\ Covered /\ Confined

(* The inductive invariant holds before the first call.                    *)
LEMMA IInvInit == Init => IInv
<1> SUFFICES ASSUME Init PROVE IInv
  OBVIOUS
<1>1. \A t \in Thread : op[t].pc = "idle"
  BY DEF Init, Idle
<1>2. \A b \in Bkpt : Len(original[b]) = 0
  BY DEF Init
<1>3. SizesOK /\ Covered
  BY <1>1, <1>2 DEF SizesOK, Covered
<1>4. Confined
  BY DEF Init, Confined
<1> QED
  BY TypeInit, <1>3, <1>4 DEF IInv

(* Every step of Apply, Reset and WriteMemory keeps the inductive invariant. *)
LEMMA IInvStep == IInv /\ [Next]_vars => IInv'
<1>1. ASSUME IInv, Next
      PROVE  IInv'
  <2>1. TypeOK'
    BY <1>1, TypeStep DEF IInv
  <2>2. SizesOK' /\ Covered'
    BY <1>1, SizesStep, CoveredStep DEF IInv
  <2>3. ASSUME NEW a \in Addr, mem'[a] # InitMem[a]
        PROVE  \E b \in Bkpt : a \in Claimed(b)'
    <3>1. CASE mem[a] # InitMem[a]
      BY <1>1, <3>1, ClaimedGrows DEF IInv, Confined
    <3>2. CASE mem'[a] # mem[a]
      <4>1. PICK t \in Thread :
              op[t].pc = "write" /\ a \in Span(Address[op[t].bp], op[t].size)
        BY <1>1, <3>2, MemStep DEF IInv
      <4>2. op[t].bp \in Bkpt /\ a \in Claimed(op[t].bp)
        BY <1>1, <4>1 DEF IInv, TypeOK, Claimed, InCall
      <4> QED
        BY <1>1, <4>2, ClaimedGrows DEF IInv
    <3> QED
      BY <2>3, <3>1, <3>2
  <2> QED
    BY <2>1, <2>2, <2>3 DEF IInv, Confined
<1>2. ASSUME IInv, UNCHANGED vars
      PROVE  IInv'
  <2>1. TypeOK'
    BY <1>2 DEF IInv, vars, TypeOK
  <2>2. SizesOK' /\ Covered'
    BY <1>2 DEF IInv, vars, SizesOK, Covered
  <2>3. Confined'
    BY <1>2 DEF IInv, vars, Confined, Claimed, InCall
  <2> QED
    BY <2>1, <2>2, <2>3 DEF IInv
<1> QED
  BY <1>1, <1>2

(* The inductive invariant holds in every state of every behaviour.        *)
LEMMA InvariantHolds == Spec => []IInv
BY IInvInit, IInvStep, PTL DEF Spec

(* Every state of every behaviour is well typed. *)
THEOREM TypeCorrect == Spec => []TypeOK
<1>1. IInv => TypeOK
  BY DEF IInv
<1> QED
  BY <1>1, InvariantHolds, PTL

(* The debugger changes the program only where a breakpoint has saved it. *)
THEOREM ConfinedHolds == Spec => []Confined
<1>1. IInv => Confined
  BY DEF IInv
<1> QED
  BY <1>1, InvariantHolds, PTL

-------------------------------------------------------------------------------
(* NoPageLeftWritable. *)

(* While t is in a call on b, the pages it writes are those of one page. *)
LEMMA OneTargetPage ==
  ASSUME TypeOK, NEW t \in Thread, op[t].pc # "idle", \A b \in Bkpt : OnePage(b),
         NEW p \in TargetPages(t)
  PROVE  TargetPages(t) = {p}
<1> DEFINE b == op[t].bp
<1>1. b \in Bkpt
  BY DEF TypeOK
<1>2. Span(Address[b], op[t].size) \subseteq Claimed(b)
  BY DEF Claimed, InCall
<1>3. \A x, y \in Span(Address[b], op[t].size) : PageOf[x] = PageOf[y]
  BY <1>1, <1>2 DEF OnePage
<1> QED
  BY <1>3 DEF TargetPages, Pages

(* A step makes a page writable and executable only where a call is about  *)
(* to write.                                                               *)
LEMMA ProtStep ==
  ASSUME TypeOK, Next
  PROVE  /\ DOMAIN prot' = DOMAIN prot
         /\ \A p \in DOMAIN prot :
              prot'[p] = RWX /\ prot[p] # RWX =>
                \E t \in Thread : op'[t].pc = "write" /\ p \in TargetPages(t)'
<1>1. ASSUME NEW t \in Thread, VmProtectForWrite(t)
      PROVE  /\ DOMAIN prot' = DOMAIN prot
             /\ \A p \in DOMAIN prot :
                  prot'[p] = RWX /\ prot[p] # RWX =>
                    op'[t].pc = "write" /\ p \in TargetPages(t)'
  <2>1. op'[t].pc = "write" /\ op'[t].bp = op[t].bp /\ op'[t].size = op[t].size
    BY <1>1 DEF VmProtectForWrite, TypeOK
  <2>2. TargetPages(t)' = TargetPages(t)
    BY <2>1 DEF TargetPages
  <2>3. prot' = Protect(prot, TargetPages(t), RWX)
    BY <1>1 DEF VmProtectForWrite
  <2> QED
    BY <2>1, <2>2, <2>3 DEF Protect
<1>2. ASSUME NEW t \in Thread, VmProtectAfterWrite(t)
      PROVE  /\ DOMAIN prot' = DOMAIN prot
             /\ \A p \in DOMAIN prot : prot'[p] = RWX => prot[p] = RWX
  <2>1. prot' = Protect(prot, TargetPages(t), RX)
    BY <1>2 DEF VmProtectAfterWrite
  <2>2. RX # RWX
    BY DEF RX, RWX
  <2> QED
    BY <2>1, <2>2 DEF Protect
<1>3. CASE UNCHANGED prot
  BY <1>3
<1> QED
  BY <1>1, <1>2, <1>3
  DEF Next, Call, ApplyX64, ApplyARMv7, ApplyTHUMBv7, ResetX64, ResetARMv7,
      EnterApply, EnterReset, Continue, SaveOriginalX64, SaveOriginalARMv7, Save,
      VmWrite, VmCallFails, KernelRefuses

(* A call that ends with one page to write left that page not writable. *)
LEMMA ReturnStep ==
  ASSUME TypeOK, Next, \A b \in Bkpt : OnePage(b), refusals' = 0,
         NEW t \in Thread, op[t].pc \in {"write", "reprotect"}, op'[t] = Idle,
         NEW p \in DOMAIN prot, p \in TargetPages(t)
  PROVE  prot'[p] # RWX
<1>1. TargetPages(t) = {p}
  BY OneTargetPage
<1>2. Continue(t)
  <2>1. ASSUME NEW u \in Thread, Continue(u), u # t
        PROVE  op'[t] = op[t]
    <3>1. \E v : op' = [op EXCEPT ![u] = v]
      BY <2>1 DEF Continue, SaveOriginalX64, SaveOriginalARMv7, Save, VmProtectForWrite,
                  VmWrite, VmProtectAfterWrite, VmCallFails, KernelRefuses, Return
    <3> QED
      BY <2>1, <3>1 DEF TypeOK
  <2>2. ASSUME NEW u \in Thread, NEW c \in Bkpt, Call(u, c)
        PROVE  op'[t] = op[t]
    BY <2>2 DEF Call, ApplyX64, ApplyARMv7, ApplyTHUMBv7, ResetX64, ResetARMv7,
                EnterApply, EnterReset, Enter, TypeOK
  <2>3. op'[t] # op[t]
    BY DEF Idle
  <2> QED
    BY <2>1, <2>2, <2>3 DEF Next
<1>3. ~ VmWrite(t)
  BY DEF VmWrite, Idle, TypeOK
<1>4. VmProtectAfterWrite(t) \/ VmCallFails(t) \/ KernelRefuses(t)
  BY <1>2, <1>3 DEF Continue, SaveOriginalX64, SaveOriginalARMv7, VmProtectForWrite
<1>5. CASE VmProtectAfterWrite(t)
  BY <1>5 DEF VmProtectAfterWrite, Protect, RX, RWX
<1>6. CASE VmCallFails(t)
  <2>1. prot' = prot /\ (~ IsMapped(prot, {p}) \/ ~ Writable(prot, {p}))
    BY <1>1, <1>6 DEF VmCallFails
  <2> QED
    BY <2>1 DEF IsMapped, Writable, RWX
<1>7. ~ KernelRefuses(t)
  <2>1. refusals \in Nat
    BY BoundAssumption DEF TypeOK
  <2>2. KernelRefuses(t) => refusals' = refusals + 1
    BY DEF KernelRefuses
  <2>3. refusals + 1 # 0
    BY <2>1
  <2> QED
    BY <2>2, <2>3
<1> QED
  BY <1>4, <1>5, <1>6, <1>7

(* Once no write to a page is under way the page is not left writable and  *)
(* executable, whatever the races on its protection.                       *)
THEOREM PagesAreReprotected == Spec => []NoPageLeftWritable
<1>1. Init => NoPageLeftWritable
  <2> SUFFICES ASSUME Init, NEW p \in DOMAIN prot PROVE prot[p] # RWX
    BY DEF NoPageLeftWritable
  <2>1. prot[p] \in InitialProt
    BY DEF Init
  <2> QED
    BY <2>1, InitialProtAssumption
<1>2. ASSUME IInv, NoPageLeftWritable, Next
      PROVE  NoPageLeftWritable'
  <2> SUFFICES ASSUME refusals' = 0, \A b \in Bkpt : OnePage(b)',
                      NEW p \in DOMAIN prot', prot'[p] = RWX
               PROVE  \E t \in Thread : /\ op'[t].pc \in {"write", "reprotect"}
                                      /\ p \in TargetPages(t)'
    BY DEF NoPageLeftWritable
  <2>1. TypeOK /\ SizesOK /\ Covered
    BY <1>2 DEF IInv
  <2>2. refusals = 0
    <3>1. refusals' = refusals \/ refusals' = refusals + 1
      BY <1>2 DEF Next, Call, ApplyX64, ApplyARMv7, ApplyTHUMBv7, ResetX64, ResetARMv7,
         EnterApply, EnterReset, Continue, SaveOriginalX64, SaveOriginalARMv7, Save,
         VmProtectForWrite, VmWrite, VmProtectAfterWrite, VmCallFails, KernelRefuses
    <3> QED
      BY <2>1, <3>1, BoundAssumption DEF TypeOK
  <2>3. \A b \in Bkpt : OnePage(b)
    BY <1>2, <2>1, ClaimedGrows DEF OnePage
  <2>4. CASE prot[p] # RWX
    BY <1>2, <2>1, <2>4, ProtStep
  <2>5. CASE prot[p] = RWX
    <3>1. p \in DOMAIN prot
      BY <1>2, <2>1, ProtStep
    <3>2. PICK t \in Thread : op[t].pc \in {"write", "reprotect"} /\ p \in TargetPages(t)
      BY <1>2, <2>2, <2>3, <2>5, <3>1 DEF NoPageLeftWritable
    <3>3. op'[t] # Idle
      BY <1>2, <2>1, <2>3, <3>1, <3>2, ReturnStep
    <3>4. op[t] \in [pc : Steps, call : Calls, bp : Bkpt, size : Nat]
      BY <2>1 DEF TypeOK
    <3>5. /\ op'[t].pc \in {"write", "reprotect"}
          /\ op'[t].bp = op[t].bp /\ op'[t].size = op[t].size
      BY <1>2, <2>1, <3>2, <3>3, <3>4, ThreadStep
    <3>6. TargetPages(t)' = TargetPages(t)
      BY <3>5 DEF TargetPages
    <3> QED
      BY <3>2, <3>5, <3>6
  <2> QED
    BY <2>4, <2>5
<1>3. NoPageLeftWritable /\ UNCHANGED vars => NoPageLeftWritable'
  <2> SUFFICES ASSUME UNCHANGED vars
               PROVE  NoPageLeftWritable' = NoPageLeftWritable
    OBVIOUS
  <2>1. UNCHANGED <<prot, refusals, op, original>>
    BY DEF vars
  <2>2. \A b \in Bkpt : OnePage(b)' = OnePage(b)
    BY <2>1 DEF OnePage, Claimed, InCall
  <2>3. \A t \in Thread : TargetPages(t)' = TargetPages(t)
    BY <2>1 DEF TargetPages
  <2> QED
    BY <2>1, <2>2, <2>3 DEF NoPageLeftWritable
<1> QED
  BY <1>1, <1>2, <1>3, InvariantHolds, PTL DEF Spec

-------------------------------------------------------------------------------
(***************************************************************************)
(* What Apply saves, what Apply and Reset return and when a trap's         *)
(* breakpoint is active.                                                   *)
(*                                                                         *)
(* The argument is about one breakpoint on which no calls have overlapped, *)
(* whose reads have succeeded and into whose bytes no other one reaches:   *)
(* then at most one thread is in a call on it, only that thread changes    *)
(* what is under it, and the invariant says what is there at each place    *)
(* of the call.  All three conditions, once false, stay false.             *)
(***************************************************************************)

Good(b)     == Orderly(b) /\ Isolated(b)
Pristine(b) == Under(mem, b) = Under(InitMem, b)
Trapped(b)  == Under(mem, b) = Opcode(b)

(* Its saved bytes are the program's own although Apply may be called again. *)
Own(b) == Kind[b] = "x86_64" \/ b \notin rearmed

Single(b) == \A t, u \in Thread : InCall(t, b) /\ InCall(u, b) => t = u

FirstSaved(b) ==
  original[b] # << >> /\ Own(b) => SubSeq(original[b], 1, Width(b)) = Under(InitMem, b)

NothingSaved(b) == original[b] = << >> => Pristine(b)

Returned(b) ==
  Settled(b) =>
    /\ done[b] = "applied" => Trapped(b)
    /\ done[b] = "never" => Pristine(b)
    /\ done[b] = "reset" /\ Own(b) => Pristine(b)
    /\ done[b] = "applyFailed" /\ b \notin rearmed /\ refusals = 0 => Pristine(b)

InApply(b) ==
  \A t \in Thread : InCall(t, b) /\ op[t].call = "Apply" =>
    /\ op[t].pc = "reprotect" => Trapped(b)
    /\ op[t].pc # "reprotect" /\ b \notin rearmed => Pristine(b)
    /\ op[t].pc # "read" => original[b] # << >>
    /\ Kind[b] = "x86_64" => active[b]

InReset(b) ==
  \A t \in Thread : InCall(t, b) /\ op[t].call = "Reset" =>
    /\ op[t].size = Len(original[b])
    /\ op[t].pc = "reprotect" /\ Own(b) => Pristine(b)

Resetting(b) == \E t \in Thread : InCall(t, b) /\ op[t].call = "Reset"

Disarmed(b) ==
  Kind[b] = "x86_64" => active[b] \/ Pristine(b) \/ done[b] = "resetFailed" \/ Resetting(b)

Meaning(b) ==
  /\ Single(b)
  /\ FirstSaved(b) /\ NothingSaved(b)
  /\ Returned(b)
  /\ InApply(b) /\ InReset(b)
  /\ Disarmed(b)

(* A call that is past its first vm_protect writes to mapped pages. *)
Mapped ==
  \A t \in Thread :
    op[t].pc \in {"write", "reprotect"} => IsMapped(prot, TargetPages(t))

MInv == IInv /\ Mapped /\ \A b \in Bkpt : Good(b) => Meaning(b)

-------------------------------------------------------------------------------
(* A breakpoint that is good after a step was good before it. *)
LEMMA GoodBefore ==
  ASSUME IInv, Next, NEW b \in Bkpt, Good(b)'
  PROVE  Good(b)
<1>1. overlapped \subseteq overlapped' /\ unread \subseteq unread'
  <2>1. ASSUME NEW t \in Thread, NEW c \in Bkpt, Call(t, c)
        PROVE  overlapped \subseteq overlapped' /\ unread \subseteq unread'
    BY <2>1 DEF Call, ApplyX64, ApplyARMv7, ApplyTHUMBv7, ResetX64, ResetARMv7,
                EnterApply, EnterReset, Enter
  <2>2. ASSUME NEW t \in Thread, SaveOriginalX64(t) \/ SaveOriginalARMv7(t)
        PROVE  overlapped \subseteq overlapped' /\ unread \subseteq unread'
    BY <2>2 DEF SaveOriginalX64, SaveOriginalARMv7, Save
  <2>3. ASSUME NEW t \in Thread,
               \/ VmProtectForWrite(t)
               \/ VmWrite(t)
               \/ VmProtectAfterWrite(t)
        PROVE  overlapped \subseteq overlapped' /\ unread \subseteq unread'
    BY <2>3 DEF VmProtectForWrite, VmWrite, VmProtectAfterWrite
  <2>4. ASSUME NEW t \in Thread, VmCallFails(t) \/ KernelRefuses(t)
        PROVE  overlapped \subseteq overlapped' /\ unread \subseteq unread'
    BY <2>4 DEF VmCallFails, KernelRefuses
  <2>. QED  BY <2>1, <2>2, <2>3, <2>4 DEF Next, Continue
<1>2. \A c \in Bkpt : Claimed(c) \subseteq Claimed(c)'
  BY ClaimedGrows DEF IInv
<1>. QED  BY <1>1, <1>2 DEF Good, Orderly, Isolated

(* The bytes under a breakpoint are those of its span. *)
LEMMA UnderFacts ==
  ASSUME NEW b \in Bkpt, NEW m \in [Addr -> Byte]
  PROVE  /\ Under(m, b) \in Seq(Byte) /\ Len(Under(m, b)) = Width(b)
         /\ \A i \in 1 .. Width(b) :
              Address[b] + i - 1 \in Span(Address[b], Width(b)) /\ Under(m, b)[i] = m[Address[b] + i - 1]
<1>1. Width(b) \in Nat /\ Address[b] \in Nat
  BY OpcodeType, AddressAssumption, LastAddrAssumption DEF Addr
<1>2. \A i \in 1 .. Width(b) : Address[b] + i - 1 \in Addr
  BY <1>1, AddressAssumption, LastAddrAssumption DEF Addr
<1>3. Under(m, b) \in [1 .. Width(b) -> Byte]
  BY <1>2 DEF Under, Fetch
<1>4. \A s \in [1 .. Width(b) -> Byte] : s \in Seq(Byte) /\ Len(s) = Width(b)
  BY <1>1
<1>5. \A i \in 1 .. Width(b) : Under(m, b)[i] = m[Address[b] + i - 1]
  BY DEF Under, Fetch
<1>6. \A i \in 1 .. Width(b) : Address[b] + i - 1 \in Span(Address[b], Width(b))
  BY <1>1, <1>2 DEF Span
<1>. QED  BY <1>3, <1>4, <1>5, <1>6

(* Memory that is the same within the span reads the same. *)
LEMMA SameUnder ==
  ASSUME NEW b \in Bkpt, NEW m \in [Addr -> Byte], NEW n \in [Addr -> Byte],
         \A a \in Span(Address[b], Width(b)) : m[a] = n[a]
  PROVE  Under(m, b) = Under(n, b)
<1>1. \A i \in 1 .. Width(b) : m[Address[b] + i - 1] = n[Address[b] + i - 1]
  BY UnderFacts
<1>. QED  BY <1>1 DEF Under, Fetch

(* Bytes written from the address of a breakpoint on, as many as are under *)
(* it at least, are what is under it then.                                 *)
LEMMA PatchUnder ==
  ASSUME NEW b \in Bkpt, NEW m \in [Addr -> Byte], NEW bytes \in Seq(Byte),
         Len(bytes) >= Width(b)
  PROVE  Under(Patch(m, Address[b], bytes), b) = SubSeq(bytes, 1, Width(b))
<1>1. /\ Width(b) \in Nat /\ Address[b] \in Nat /\ Len(bytes) \in Nat
      /\ \A i \in 1 .. Width(b) : Address[b] + i - 1 \in Addr
  BY OpcodeType, AddressAssumption, LastAddrAssumption DEF Addr
<1>2. ASSUME NEW i \in 1 .. Width(b)
      PROVE  Patch(m, Address[b], bytes)[Address[b] + i - 1] = bytes[i]
  <2>1. Address[b] + i - 1 \in Span(Address[b], Len(bytes))
    BY <1>1 DEF Span
  <2>2. (Address[b] + i - 1) - Address[b] + 1 = i
    BY <1>1
  <2>. QED  BY <1>1, <2>1, <2>2 DEF Patch
<1>3. SubSeq(bytes, 1, Width(b)) = [i \in 1 .. Width(b) |-> bytes[i]]
  BY <1>1
<1>. QED  BY <1>2, <1>3 DEF Under, Fetch

-------------------------------------------------------------------------------
(* A step that is not of a call on b leaves b as it is. *)
Elsewhere(b) ==
  /\ original'[b] = original[b] /\ active'[b] = active[b] /\ done'[b] = done[b]
  /\ Under(mem', b) = Under(mem, b)
  /\ b \in rearmed' <=> b \in rearmed
  /\ refusals' = 0 => refusals = 0
  /\ \A u \in Thread : op'[u] = op[u] \/ (~InCall(u, b) /\ ~InCall(u, b)')

(* Entering a call on another breakpoint. *)
LEMMA CallElsewhere ==
  ASSUME IInv, NEW b \in Bkpt, NEW t \in Thread, NEW c \in Bkpt \ {b}, Call(t, c)
  PROVE  Elsewhere(b)
<1>1. UNCHANGED <<mem, original, done, refusals>> /\ active'[b] = active[b]
  BY DEF Call, ApplyX64, ApplyARMv7, ApplyTHUMBv7, ResetX64, ResetARMv7,
         EnterApply, EnterReset, IInv, TypeOK
<1>2. b \in rearmed' <=> b \in rearmed
  BY DEF Call, ApplyX64, ApplyARMv7, ApplyTHUMBv7, ResetX64, ResetARMv7,
         EnterApply, EnterReset, IInv, TypeOK
<1>3. ASSUME NEW u \in Thread
      PROVE  op'[u] = op[u] \/ (~InCall(u, b) /\ ~InCall(u, b)')
  BY DEF Call, ApplyX64, ApplyARMv7, ApplyTHUMBv7, ResetX64, ResetARMv7,
         EnterApply, EnterReset, Enter, InCall, IInv, TypeOK
<1>. QED  BY <1>1, <1>2, <1>3 DEF Elsewhere

(* Another breakpoint's call does not reach what is under b. *)
LEMMA UnderElsewhere ==
  ASSUME IInv, NEW b \in Bkpt, Isolated(b), NEW t \in Thread, Continue(t), op[t].bp # b
  PROVE  Under(mem', b) = Under(mem, b)
<1>1. CASE mem' = mem
  BY <1>1
<1>2. CASE mem' # mem
  <2>1. VmWrite(t)
    BY <1>2 DEF Continue, SaveOriginalX64, SaveOriginalARMv7, Save, VmProtectForWrite,
                VmProtectAfterWrite, VmCallFails, KernelRefuses
  <2>2. Next
    BY DEF Next
  <2>3. TypeOK' /\ TypeOK /\ SizesOK
    BY <2>2, IInvStep DEF IInv
  <2>4. ASSUME NEW a \in Span(Address[b], Width(b)), mem'[a] # mem[a]
        PROVE  FALSE
    <3>1. a \in Addr
      BY DEF Span
    <3>. DEFINE c == op[t].bp
    <3>2. c \in Bkpt \ {b} /\ InCall(t, c)
      BY <2>1, <2>3 DEF TypeOK, InCall, VmWrite
    <3>3. a \in Span(Address[c], op[t].size)
      BY <2>1, <2>3, <2>4, <3>1, WriteStep
    <3>4. a \in Claimed(c)
      BY <3>2, <3>3 DEF Claimed
    <3>. QED  BY <2>4, <3>2, <3>4 DEF Isolated
  <2>. QED  BY <2>3, <2>4, SameUnder DEF TypeOK
<1>. QED  BY <1>1, <1>2

(* A call on another breakpoint goes on. *)
LEMMA ContinueElsewhere ==
  ASSUME IInv, NEW b \in Bkpt, Isolated(b), NEW t \in Thread, Continue(t), op[t].bp # b
  PROVE  Elsewhere(b)
<1>1. /\ original'[b] = original[b] /\ UNCHANGED <<active, rearmed>> /\ done'[b] = done[b]
  BY DEF Continue, SaveOriginalX64, SaveOriginalARMv7, Save, VmProtectForWrite, VmWrite,
         VmProtectAfterWrite, VmCallFails, KernelRefuses, Return, IInv, TypeOK
<1>2. refusals' = 0 => refusals = 0
  <2>1. refusals' = refusals \/ refusals' = refusals + 1
    BY DEF Continue, SaveOriginalX64, SaveOriginalARMv7, Save, VmProtectForWrite, VmWrite,
           VmProtectAfterWrite, VmCallFails, KernelRefuses
  <2>. QED  BY <2>1, BoundAssumption DEF IInv, TypeOK
<1>3. ASSUME NEW u \in Thread
      PROVE  op'[u] = op[u] \/ (~InCall(u, b) /\ ~InCall(u, b)')
  <2>1. u # t => op'[u] = op[u]
    BY DEF Continue, SaveOriginalX64, SaveOriginalARMv7, Save, VmProtectForWrite, VmWrite,
           VmProtectAfterWrite, VmCallFails, KernelRefuses, Return, IInv, TypeOK
  <2>2. op'[t] = Idle \/ op'[t].bp = op[t].bp
    <3>1. Next /\ op[t] \in [pc : Steps, call : Calls, bp : Bkpt, size : Nat]
      BY DEF Next, IInv, TypeOK
    <3>2. op[t].pc # "idle"
      BY DEF Continue, SaveOriginalX64, SaveOriginalARMv7, VmProtectForWrite, VmWrite,
             VmProtectAfterWrite, VmCallFails, KernelRefuses
    <3>3. \/ op'[t] = op[t]
          \/ op'[t] = [op[t] EXCEPT !.pc = op'[t].pc]
          \/ op'[t] = Idle
      BY <3>1, <3>2, ThreadStep DEF IInv
    <3>. QED  BY <3>1, <3>3
  <2>. QED  BY <2>1, <2>2 DEF InCall, Idle
<1>. QED  BY <1>1, <1>2, <1>3, UnderElsewhere DEF Elsewhere

(* What is true of b stays true while others work. *)
LEMMA ElsewhereStep ==
  ASSUME NEW b \in Bkpt, Meaning(b), Elsewhere(b)
  PROVE  Meaning(b)'
<1>1. \A u \in Thread : /\ InCall(u, b)' <=> InCall(u, b)
                       /\ InCall(u, b) => op'[u] = op[u]
  BY DEF Elsewhere, InCall
<1>2. (Pristine(b)' <=> Pristine(b)) /\ (Trapped(b)' <=> Trapped(b)) /\ (Own(b)' <=> Own(b))
  BY DEF Elsewhere, Pristine, Trapped, Own, Under, Fetch
<1>3. Single(b)' /\ FirstSaved(b)' /\ NothingSaved(b)'
  BY <1>1, <1>2 DEF Meaning, Elsewhere, Single, FirstSaved, NothingSaved, InCall
<1>4. Returned(b)'
  BY <1>1, <1>2 DEF Meaning, Elsewhere, Returned, Settled, InCall
<1>5. InApply(b)' /\ InReset(b)'
  BY <1>1, <1>2 DEF Meaning, Elsewhere, InApply, InReset, InCall
<1>6. Disarmed(b)'
  BY <1>1, <1>2 DEF Meaning, Elsewhere, Disarmed, Resetting, InCall
<1>. QED  BY <1>3, <1>4, <1>5, <1>6 DEF Meaning

-------------------------------------------------------------------------------
(* A call on b begins: nobody else is in one. *)
LEMMA EnterFacts ==
  ASSUME IInv, NEW b \in Bkpt, NEW t \in Thread, Call(t, b), b \notin overlapped'
  PROVE  /\ UNCHANGED <<mem, original, done, refusals>>
         /\ Settled(b) /\ \A u \in Thread : InCall(u, b)' => u = t
         /\ op'[t].pc # "idle"
         /\ \/ /\ op'[t].call = "Apply" /\ op'[t].pc = "read"
               /\ b \notin rearmed' => b \notin rearmed /\ done[b] \in {"never", "reset"}
               /\ Kind[b] = "x86_64" => active'[b]
            \/ /\ op'[t].call = "Reset" /\ op'[t].pc = "protect"
               /\ op'[t].size = Len(original[b])
               /\ UNCHANGED rearmed
<1>1. UNCHANGED <<mem, original, done, refusals>>
  BY DEF Call, ApplyX64, ApplyARMv7, ApplyTHUMBv7, ResetX64, ResetARMv7, EnterApply, EnterReset
<1>2. PICK call, pc, size : Enter(t, b, call, pc, size)
  BY DEF Call, ApplyX64, ApplyARMv7, ApplyTHUMBv7, ResetX64, ResetARMv7, EnterApply, EnterReset
<1>3. Settled(b)
  BY <1>2 DEF Enter, Settled
<1>4. \A u \in Thread : u # t => op'[u] = op[u]
  BY <1>2 DEF Enter, IInv, TypeOK
<1>5. \A u \in Thread : InCall(u, b)' => u = t
  BY <1>3, <1>4 DEF Settled, InCall
<1>6. CASE EnterApply(t, b) /\ (Kind[b] = "x86_64" => active' = [active EXCEPT ![b] = TRUE])
  <2>1. op'[t] = [pc |-> "read", call |-> "Apply", bp |-> b, size |-> Width(b)]
    BY <1>6 DEF EnterApply, Enter, IInv, TypeOK
  <2>2. b \notin rearmed' => b \notin rearmed /\ done[b] \in {"never", "reset"}
    BY <1>6 DEF EnterApply
  <2>3. Kind[b] = "x86_64" => active'[b]
    BY <1>6 DEF IInv, TypeOK
  <2>. QED  BY <1>1, <1>3, <1>5, <2>1, <2>2, <2>3
<1>7. CASE EnterReset(t, b)
  <2>1. op'[t] = [pc |-> "protect", call |-> "Reset", bp |-> b, size |-> Len(original[b])]
    BY <1>7 DEF EnterReset, Enter, IInv, TypeOK
  <2>2. UNCHANGED rearmed
    BY <1>7 DEF EnterReset
  <2>. QED  BY <1>1, <1>3, <1>5, <2>1, <2>2
<1>. QED  BY <1>6, <1>7 DEF Call, ApplyX64, ApplyARMv7, ApplyTHUMBv7, ResetX64, ResetARMv7

(* The meaning of b's state is preserved when a call on b begins. *)
LEMMA EnterStep ==
  ASSUME IInv, NEW b \in Bkpt, NEW t \in Thread, Call(t, b), b \notin overlapped', Meaning(b)
  PROVE  Meaning(b)'
<1>1. /\ UNCHANGED <<mem, original, done, refusals>>
      /\ Settled(b) /\ \A u \in Thread : InCall(u, b)' => u = t
      /\ op'[t].pc # "idle"
  BY EnterFacts
<1>2. (Pristine(b)' <=> Pristine(b)) /\ (Own(b)' => Own(b))
  <2>1. b \in rearmed => b \in rearmed'
    BY DEF Call, ApplyX64, ApplyARMv7, ApplyTHUMBv7, ResetX64, ResetARMv7, EnterApply, EnterReset
  <2>. QED  BY <1>1, <2>1 DEF Pristine, Under, Fetch, Own
<1>3. Single(b)' /\ FirstSaved(b)' /\ NothingSaved(b)'
  BY <1>1, <1>2 DEF Meaning, Single, FirstSaved, NothingSaved
<1>4. InCall(t, b)'
  <2>1. op'[t].bp = b
    BY DEF Call, ApplyX64, ApplyARMv7, ApplyTHUMBv7, ResetX64, ResetARMv7, EnterApply, EnterReset,
           Enter, IInv, TypeOK
  <2>. QED  BY <1>1, <2>1 DEF InCall
<1>5. Returned(b)'
  BY <1>4 DEF Returned, Settled
<1>6. CASE /\ op'[t].call = "Apply" /\ op'[t].pc = "read"
           /\ b \notin rearmed' => b \notin rearmed /\ done[b] \in {"never", "reset"}
           /\ Kind[b] = "x86_64" => active'[b]
  <2>1. b \notin rearmed' => Pristine(b)
    BY <1>1, <1>6 DEF Meaning, Returned, Own
  <2>2. InApply(b)' /\ InReset(b)'
    BY <1>1, <1>2, <1>6, <2>1 DEF InApply, InReset
  <2>3. Disarmed(b)'
    BY <1>6 DEF Disarmed
  <2>. QED  BY <1>3, <1>5, <2>2, <2>3 DEF Meaning
<1>7. CASE /\ op'[t].call = "Reset" /\ op'[t].pc = "protect"
           /\ op'[t].size = Len(original[b])
  <2>1. InApply(b)' /\ InReset(b)'
    BY <1>1, <1>7 DEF InApply, InReset
  <2>2. Disarmed(b)'
    BY <1>4, <1>7 DEF Disarmed, Resetting
  <2>. QED  BY <1>3, <1>5, <2>1, <2>2 DEF Meaning
<1>. QED  BY <1>6, <1>7, EnterFacts

-------------------------------------------------------------------------------
(* A call on b goes on or ends: the others are not in one. *)
LEMMA AloneFacts ==
  ASSUME IInv, NEW b \in Bkpt, NEW t \in Thread, Continue(t), op[t].bp = b, Single(b)
  PROVE  /\ InCall(t, b) /\ op[t] \in [pc : Steps, call : Calls, bp : Bkpt, size : Nat]
         /\ \A u \in Thread : InCall(u, b) => u = t
         /\ \A u \in Thread : InCall(u, b)' => u = t
         /\ UNCHANGED <<active, rearmed>>
<1>1. InCall(t, b)
  BY DEF Continue, SaveOriginalX64, SaveOriginalARMv7, VmProtectForWrite, VmWrite,
         VmProtectAfterWrite, VmCallFails, KernelRefuses, InCall
<1>2. \A u \in Thread : u # t => op'[u] = op[u]
  BY DEF Continue, SaveOriginalX64, SaveOriginalARMv7, Save, VmProtectForWrite, VmWrite,
         VmProtectAfterWrite, VmCallFails, KernelRefuses, Return, IInv, TypeOK
<1>3. UNCHANGED <<active, rearmed>>
  BY DEF Continue, SaveOriginalX64, SaveOriginalARMv7, Save, VmProtectForWrite, VmWrite,
         VmProtectAfterWrite, VmCallFails, KernelRefuses
<1>4. \A u \in Thread : InCall(u, b) => u = t
  BY <1>1 DEF Single
<1>. QED  BY <1>1, <1>2, <1>3, <1>4 DEF InCall, IInv, TypeOK

(* Goes on within the call, which then is at pc. *)
Proceeds(t, b, pc) ==
  /\ op[t] \in [pc : Steps, call : Calls, bp : Bkpt, size : Nat]
  /\ InCall(t, b) /\ op'[t] = [op[t] EXCEPT !.pc = pc] /\ pc # "idle"
  /\ \A u \in Thread : InCall(u, b) => u = t
  /\ \A u \in Thread : InCall(u, b)' => u = t
  /\ UNCHANGED <<active, rearmed, done, refusals>>

(* What is to be shown of a call that goes on. *)
LEMMA ProceedStep ==
  ASSUME NEW b \in Bkpt, NEW t \in Thread, NEW pc, Proceeds(t, b, pc), Meaning(b),
         FirstSaved(b)', NothingSaved(b)',
         op[t].call = "Apply" =>
           /\ pc = "reprotect" => Trapped(b)'
           /\ pc # "reprotect" /\ b \notin rearmed => Pristine(b)'
           /\ pc # "read" => original'[b] # << >>,
         op[t].call = "Reset" =>
           /\ original'[b] = original[b]
           /\ pc = "reprotect" /\ Own(b) => Pristine(b)'
  PROVE  Meaning(b)'
<1>1. /\ op'[t].call = op[t].call /\ op'[t].bp = b /\ op'[t].pc = pc /\ op'[t].size = op[t].size
  BY DEF Proceeds, InCall
<1>2. InCall(t, b)' /\ (Own(b)' <=> Own(b)) /\ op[t].call \in Calls
  BY <1>1 DEF Proceeds, InCall, Own
<1>3. Single(b)'
  BY DEF Proceeds, Single
<1>4. Returned(b)'
  BY <1>2 DEF Returned, Settled
<1>5. InApply(b)'
  BY <1>1, <1>2 DEF InApply, Proceeds, Meaning
<1>6. InReset(b)'
  BY <1>1, <1>2 DEF InReset, Proceeds, Meaning
<1>7. Disarmed(b)'
  <2>1. CASE op[t].call = "Apply"
    BY <2>1 DEF Disarmed, Meaning, InApply, Proceeds
  <2>2. CASE op[t].call = "Reset"
    BY <1>1, <1>2, <2>2 DEF Disarmed, Resetting
  <2>. QED  BY <1>2, <2>1, <2>2 DEF Calls
<1>. QED  BY <1>3, <1>4, <1>5, <1>6, <1>7 DEF Meaning

(* Apply saves what it has read. *)
LEMMA SaveStep ==
  ASSUME IInv, NEW b \in Bkpt, NEW t \in Thread, op[t].bp = b,
         SaveOriginalX64(t) \/ SaveOriginalARMv7(t), b \notin unread', Meaning(b)
  PROVE  Meaning(b)'
<1>1. PICK bytes \in ReadMemory(b) :
        \/ Kind[b] = "x86_64" /\ \E saved \in Pushed(t, b, bytes[1]) : Save(t, b, saved)
        \/ Kind[b] # "x86_64" /\ Save(t, b, bytes)
  BY DEF SaveOriginalX64, SaveOriginalARMv7
<1>2. Continue(t) /\ op[t].pc = "read"
  BY DEF Continue, SaveOriginalX64, SaveOriginalARMv7
<1>3. Proceeds(t, b, "protect") /\ UNCHANGED mem
  <2>1. Single(b)
    BY DEF Meaning
  <2>2. \E saved : Save(t, b, saved)
    BY <1>1
  <2>. QED  BY <1>2, <2>1, <2>2, AloneFacts DEF Save, Proceeds, IInv, TypeOK
<1>4. op[t].call = "Apply" /\ op[t].size = Width(b)
  BY <1>2, <1>3 DEF IInv, SizesOK, Proceeds, Calls
<1>5. bytes = Under(mem, b)
  <2>1. Readable(prot, Pages(Address[b], Width(b)))
    BY <1>1 DEF Save
  <2>. QED  BY <2>1 DEF ReadMemory, Under
<1>6. /\ bytes \in Seq(Byte) /\ Len(bytes) = Width(b) /\ Width(b) \in Nat \ {0}
      /\ bytes # << >> /\ original[b] \in Seq(Byte)
  BY <1>5, UnderFacts, OpcodeType DEF IInv, TypeOK
<1>7. (Own(b)' <=> Own(b)) /\ (Pristine(b)' <=> Pristine(b))
  BY <1>3 DEF Proceeds, Own, Pristine, Under, Fetch
<1>8. FirstSaved(b)' /\ original'[b] # << >>
  <2>1. CASE Kind[b] = "x86_64"
    <3>1. PICK saved \in Pushed(t, b, bytes[1]) : Save(t, b, saved)
      BY <1>1, <2>1
    <3>2. saved = Append(original[b], bytes[1])
      BY <1>3 DEF Pushed, Proceeds
    <3>3. original'[b] = Append(original[b], bytes[1]) /\ bytes[1] \in Byte
      BY <1>6, <3>1, <3>2 DEF Save, IInv, TypeOK
    <3>4. Width(b) = 1
      BY <2>1 DEF Width, Opcode, X64Opcode
    <3>5. Under(InitMem, b) \in Seq(Byte) /\ Len(Under(InitMem, b)) = 1
      BY <3>4, UnderFacts, InitMemAssumption
    <3>6. CASE original[b] = << >>
      <4>1. bytes = Under(InitMem, b)
        BY <1>5, <3>6 DEF Meaning, NothingSaved, Pristine
      <4>2. original'[b] = <<bytes[1]>>
        BY <3>3, <3>6
      <4>3. <<bytes[1]>> = bytes
        BY <1>6, <3>4
      <4>4. SubSeq(bytes, 1, 1) = bytes
        BY <1>6, <3>4
      <4>. QED  BY <1>6, <3>4, <4>1, <4>2, <4>3, <4>4 DEF FirstSaved
    <3>7. CASE original[b] # << >>
      <4>1. SubSeq(original[b], 1, 1) = Under(InitMem, b)
        BY <2>1, <3>4, <3>7 DEF Meaning, FirstSaved, Own
      <4>2. SubSeq(original'[b], 1, 1) = SubSeq(original[b], 1, 1)
        BY <1>6, <3>3, <3>7
      <4>. QED  BY <3>3, <3>4, <4>1, <4>2, <1>6 DEF FirstSaved
    <3>. QED  BY <3>6, <3>7
  <2>2. CASE Kind[b] # "x86_64"
    <3>1. original'[b] = bytes
      BY <1>1, <2>2 DEF Save, IInv, TypeOK
    <3>2. SubSeq(bytes, 1, Width(b)) = bytes
      BY <1>6
    <3>3. Own(b) => Pristine(b)
      BY <1>2, <1>3, <1>4, <2>2 DEF Meaning, InApply, Own, Proceeds
    <3>. QED  BY <1>5, <1>6, <1>7, <3>1, <3>2, <3>3 DEF FirstSaved, Pristine
  <2>. QED  BY <2>1, <2>2
<1>9. b \notin rearmed => Pristine(b)'
  BY <1>2, <1>3, <1>4, <1>7 DEF Meaning, InApply, Proceeds
<1>. QED  BY <1>3, <1>4, <1>8, <1>9, ProceedStep DEF NothingSaved

(* The first vm_protect. *)
LEMMA ProtectStep ==
  ASSUME IInv, NEW b \in Bkpt, NEW t \in Thread, op[t].bp = b, VmProtectForWrite(t), Meaning(b)
  PROVE  Meaning(b)'
<1>1. Continue(t) /\ Single(b)
  BY DEF Continue, Meaning
<1>2. Proceeds(t, b, "write") /\ UNCHANGED <<mem, original>>
  BY <1>1, AloneFacts DEF VmProtectForWrite, Proceeds, IInv, TypeOK
<1>3. (Own(b)' <=> Own(b)) /\ (Pristine(b)' <=> Pristine(b))
  BY <1>2 DEF Proceeds, Own, Pristine, Under, Fetch
<1>4. FirstSaved(b)' /\ NothingSaved(b)'
  BY <1>2, <1>3 DEF Meaning, FirstSaved, NothingSaved
<1>5. op[t].pc = "protect"
  BY DEF VmProtectForWrite
<1>6. op[t].call = "Apply" =>
        /\ b \notin rearmed => Pristine(b)
        /\ original[b] # << >>
  BY <1>2, <1>5 DEF Meaning, InApply, Proceeds
<1>. QED  BY <1>2, <1>3, <1>4, <1>6, ProceedStep

(* vm_write: Apply puts the trap there, Reset the saved bytes. *)
LEMMA WriteOwnStep ==
  ASSUME IInv, NEW b \in Bkpt, NEW t \in Thread, op[t].bp = b, VmWrite(t), Meaning(b)
  PROVE  Meaning(b)'
<1>1. Continue(t) /\ Single(b) /\ op[t].pc = "write"
  BY DEF Continue, Meaning, VmWrite
<1>2. Proceeds(t, b, "reprotect") /\ UNCHANGED original
  BY <1>1, AloneFacts DEF VmWrite, Proceeds, IInv, TypeOK
<1>3. PICK bytes \in Input(t) : mem' = Patch(mem, Address[b], bytes)
  BY DEF VmWrite
<1>4. /\ mem \in [Addr -> Byte] /\ original[b] \in Seq(Byte) /\ Width(b) \in Nat /\ Width(b) >= 1
      /\ op[t].call \in Calls /\ (Own(b)' <=> Own(b))
  <2>1. mem \in [Addr -> Byte] /\ original[b] \in Seq(Byte) /\ op[t].call \in Calls
    BY DEF IInv, TypeOK
  <2>2. Width(b) \in Nat /\ Width(b) >= 1
    BY OpcodeType
  <2>3. Own(b)' <=> Own(b)
    BY <1>2 DEF Proceeds, Own
  <2>. QED  BY <2>1, <2>2, <2>3
<1>5. FirstSaved(b)'
  BY <1>2, <1>4 DEF Meaning, FirstSaved
<1>6. CASE op[t].call = "Apply"
  <2>1. bytes = Opcode(b)
    BY <1>1, <1>3, <1>6, InputType DEF IInv
  <2>2. SubSeq(Opcode(b), 1, Width(b)) = Opcode(b)
    BY OpcodeType DEF Width
  <2>3. Trapped(b)'
    <3>1. bytes \in Seq(Byte) /\ Len(bytes) >= Width(b)
      BY <1>4, <2>1, OpcodeType DEF Width
    <3>2. Under(mem', b) = SubSeq(bytes, 1, Width(b))
      BY <1>3, <1>4, <3>1, PatchUnder
    <3>3. Trapped(b)' <=> Under(mem', b) = Opcode(b)
      BY DEF Trapped, Under
    <3>. QED  BY <2>1, <2>2, <3>2, <3>3
  <2>4. original'[b] # << >>
    BY <1>1, <1>2, <1>6 DEF Meaning, InApply, Proceeds
  <2>. QED  BY <1>2, <1>5, <1>6, <2>3, <2>4, ProceedStep DEF NothingSaved
<1>7. CASE op[t].call = "Reset"
  <2>1. op[t].size = Len(original[b])
    BY <1>2, <1>7 DEF Meaning, InReset, Proceeds
  <2>2. bytes = original[b]
    BY <1>3, <1>4, <1>7, <2>1 DEF Input
  <2>3. CASE original[b] = << >>
    <3>1. Span(Address[b], 0) = {}
      BY AddressAssumption, LastAddrAssumption DEF Span, Addr
    <3>2. mem' = mem
      BY <1>3, <1>4, <2>2, <2>3, <3>1 DEF Patch
    <3>3. Pristine(b)'
      BY <2>3, <3>2 DEF Meaning, NothingSaved, Pristine, Under, Fetch
    <3>. QED  BY <1>2, <1>5, <1>7, <3>3, ProceedStep DEF NothingSaved
  <2>4. CASE original[b] # << >>
    <3>1. Len(original[b]) >= Width(b)
      <4>1. CASE Kind[b] = "x86_64"
        BY <1>4, <2>4, <4>1 DEF Width, Opcode, X64Opcode
      <4>2. CASE Kind[b] # "x86_64"
        BY <1>4, <2>4, <4>2 DEF IInv, SizesOK
      <4>. QED  BY <4>1, <4>2
    <3>2. Under(mem', b) = SubSeq(original[b], 1, Width(b))
      BY <1>3, <1>4, <2>2, <3>1, PatchUnder
    <3>3. Own(b) => Pristine(b)'
      BY <2>4, <3>2 DEF Meaning, FirstSaved, Pristine
    <3>. QED  BY <1>2, <1>5, <1>7, <2>4, <3>3, ProceedStep DEF NothingSaved
  <2>. QED  BY <2>3, <2>4
<1>. QED  BY <1>4, <1>6, <1>7 DEF Calls

(* Apply or Reset returns. *)
LEMMA ReturnOwnStep ==
  ASSUME IInv, Mapped, NEW b \in Bkpt, NEW t \in Thread, op[t].bp = b, Meaning(b),
         VmProtectAfterWrite(t) \/ VmCallFails(t) \/ KernelRefuses(t)
  PROVE  Meaning(b)'
<1>1. Continue(t) /\ Single(b)
  BY DEF Continue, Meaning
<1>2. UNCHANGED <<mem, original, active, rearmed>> /\ op'[t] = Idle
  BY DEF VmProtectAfterWrite, VmCallFails, KernelRefuses, Return, IInv, TypeOK
<1>3. InCall(t, b) /\ op[t].call \in Calls /\ \A u \in Thread : ~InCall(u, b)'
  BY <1>1, <1>2, AloneFacts DEF InCall, Idle
<1>4. (Own(b)' <=> Own(b)) /\ (Pristine(b)' <=> Pristine(b)) /\ (Trapped(b)' <=> Trapped(b))
  BY <1>2 DEF Own, Pristine, Trapped, Under, Fetch
<1>5. Single(b)' /\ FirstSaved(b)' /\ NothingSaved(b)' /\ InApply(b)' /\ InReset(b)'
  BY <1>2, <1>3, <1>4 DEF Meaning, Single, FirstSaved, NothingSaved, InApply, InReset
<1>6. CASE op[t].pc = "reprotect" /\ done'[b] = Outcome(op[t].call, TRUE)
  <2>1. CASE op[t].call = "Apply"
    BY <1>2, <1>3, <1>4, <1>5, <1>6, <2>1
    DEF Meaning, InApply, Returned, Disarmed, Outcome
  <2>2. CASE op[t].call = "Reset"
    <3>1. done'[b] = "reset" /\ (Own(b) => Pristine(b))
      BY <1>3, <1>6, <2>2 DEF Meaning, InReset, Outcome
    <3>. QED  BY <1>2, <1>4, <1>5, <3>1 DEF Meaning, Returned, Disarmed, Own
  <2>. QED  BY <1>3, <2>1, <2>2 DEF Calls
<1>7. CASE /\ done'[b] = Outcome(op[t].call, FALSE)
           /\ op[t].pc # "reprotect" \/ refusals' # 0
  <2>1. CASE op[t].call = "Apply"
    <3>1. /\ done'[b] = "applyFailed"
          /\ b \notin rearmed /\ refusals' = 0 => Pristine(b)
          /\ Kind[b] = "x86_64" => active[b]
      BY <1>3, <1>7, <2>1 DEF Meaning, InApply, Outcome
    <3>. QED  BY <1>2, <1>4, <1>5, <3>1 DEF Meaning, Returned, Disarmed
  <2>2. CASE op[t].call = "Reset"
    BY <1>5, <1>7, <2>2 DEF Meaning, Returned, Disarmed, Outcome
  <2>. QED  BY <1>3, <2>1, <2>2 DEF Calls
<1>8. CASE VmProtectAfterWrite(t)
  BY <1>6, <1>8 DEF VmProtectAfterWrite, Return, IInv, TypeOK
<1>9. CASE VmCallFails(t)
  <2>1. op[t].pc # "reprotect"
    BY <1>9 DEF VmCallFails, Mapped
  <2>. QED  BY <1>7, <1>9, <2>1 DEF VmCallFails, Return, IInv, TypeOK
<1>10. CASE KernelRefuses(t)
  <2>1. refusals' # 0
    BY <1>10, BoundAssumption DEF KernelRefuses, IInv, TypeOK
  <2>. QED  BY <1>7, <1>10, <2>1 DEF KernelRefuses, Return, IInv, TypeOK
<1>. QED  BY <1>8, <1>9, <1>10

-------------------------------------------------------------------------------
(* The target never loses a page. *)
LEMMA MappedStep ==
  ASSUME TypeOK, Mapped, Next
  PROVE  Mapped'
<1>. SUFFICES ASSUME NEW t \in Thread, op'[t].pc \in {"write", "reprotect"}
              PROVE  IsMapped(prot, TargetPages(t)) /\ TargetPages(t)' = TargetPages(t)
  BY ProtStep DEF Mapped, IsMapped
<1>1. op[t] \in [pc : Steps, call : Calls, bp : Bkpt, size : Nat]
  BY DEF TypeOK
<1>2. \/ op'[t] = op[t]
      \/ /\ op[t].pc \in {"protect", "write"}
         /\ op'[t] = [op[t] EXCEPT !.pc = op'[t].pc]
  <2>1. \A c \in Bkpt :
          /\ op'[t] # [pc |-> "read", call |-> "Apply", bp |-> c, size |-> Width(c)]
          /\ op'[t] # [pc |-> "protect", call |-> "Reset", bp |-> c, size |-> Len(original[c])]
    OBVIOUS
  <2>2. op'[t] # Idle
    BY DEF Idle
  <2>. QED  BY <2>1, <2>2, ThreadStep
<1>3. TargetPages(t)' = TargetPages(t)
  BY <1>1, <1>2 DEF TargetPages
<1>4. CASE op[t].pc \in {"write", "reprotect"}
  BY <1>3, <1>4 DEF Mapped
<1>5. CASE op[t].pc = "protect"
  <2>1. VmProtectForWrite(t)
    <3>1. ASSUME NEW u \in Thread, Continue(u), ~VmProtectForWrite(t)
          PROVE  op'[t].pc \notin {"write", "reprotect"}
      <4>1. CASE u # t
        <5>1. op'[t] = op[t]
          BY <3>1, <4>1 DEF Continue, SaveOriginalX64, SaveOriginalARMv7, Save, VmProtectForWrite,
                 VmWrite, VmProtectAfterWrite, VmCallFails, KernelRefuses, Return, TypeOK
        <5>. QED  BY <1>5, <5>1
      <4>2. CASE u = t
        <5>1. VmCallFails(t) \/ KernelRefuses(t)
          BY <1>5, <3>1, <4>2 DEF Continue, SaveOriginalX64, SaveOriginalARMv7, VmWrite, VmProtectAfterWrite
        <5>2. op'[t] = Idle
          BY <5>1 DEF VmCallFails, KernelRefuses, Return, TypeOK
        <5>. QED  BY <5>2 DEF Idle
      <4>. QED  BY <4>1, <4>2
    <3>2. ASSUME NEW u \in Thread, NEW c \in Bkpt, Call(u, c)
          PROVE  op'[t] = op[t]
      BY <1>5, <3>2 DEF Call, ApplyX64, ApplyARMv7, ApplyTHUMBv7, ResetX64, ResetARMv7,
                EnterApply, EnterReset, Enter, TypeOK
    <3>. QED  BY <1>5, <3>1, <3>2 DEF Next
  <2>. QED  BY <1>3, <2>1 DEF VmProtectForWrite
<1>. QED  BY <1>2, <1>4, <1>5

(* Before the first call every breakpoint is settled over its own code. *)
LEMMA InitMInv == Init => MInv
<1>. SUFFICES ASSUME Init PROVE MInv
  OBVIOUS
<1>1. \A t \in Thread : op[t].pc = "idle"
  BY DEF Init, Idle
<1>2. ASSUME NEW b \in Bkpt
      PROVE  Meaning(b)
  <2>1. Pristine(b) /\ original[b] = << >> /\ done[b] = "never"
    BY DEF Init, Pristine
  <2>. QED  BY <1>1, <2>1 DEF Meaning, Single, FirstSaved, NothingSaved, Returned, InApply, InReset,
                              Disarmed, InCall
<1>. QED  BY <1>1, <1>2, IInvInit DEF MInv, Mapped

(* No step breaks the invariant. *)
LEMMA NextMInv == MInv /\ [Next]_vars => MInv'
<1>1. ASSUME MInv, Next, NEW b \in Bkpt, Good(b)'
      PROVE  Meaning(b)'
  <2>1. IInv /\ Mapped /\ Good(b) /\ Meaning(b)
    BY <1>1, GoodBefore DEF MInv
  <2>2. Isolated(b) /\ b \notin overlapped' /\ b \notin unread'
    BY <1>1, <2>1 DEF Good, Orderly
  <2>3. PICK t \in Thread : Continue(t) \/ \E c \in Bkpt : Call(t, c)
    BY <1>1 DEF Next
  <2>4. CASE Continue(t) /\ op[t].bp # b
    BY <2>1, <2>2, <2>4, ContinueElsewhere, ElsewhereStep
  <2>5. CASE Continue(t) /\ op[t].bp = b
    BY <2>1, <2>2, <2>5, SaveStep, ProtectStep, WriteOwnStep, ReturnOwnStep DEF Continue
  <2>6. ASSUME NEW c \in Bkpt, Call(t, c)
        PROVE  Meaning(b)'
    BY <2>1, <2>2, <2>6, EnterStep, CallElsewhere, ElsewhereStep
  <2>. QED  BY <2>3, <2>4, <2>5, <2>6
<1>2. ASSUME MInv, UNCHANGED vars
      PROVE  MInv'
  <2>1. IInv'
    BY <1>2, IInvStep DEF MInv
  <2>2. UNCHANGED <<mem, prot, active, original, op, done, overlapped, rearmed, unread, refusals>>
    BY <1>2 DEF vars
  <2>3. Mapped'
    BY <1>2, <2>2 DEF MInv, Mapped, TargetPages
  <2>4. ASSUME NEW b \in Bkpt, Good(b)'
        PROVE  Meaning(b)'
    <3>1. Claimed(b)' = Claimed(b) /\ \A c \in Bkpt : Claimed(c)' = Claimed(c)
      BY <2>2 DEF Claimed, InCall
    <3>2. Meaning(b)
      BY <1>2, <2>2, <2>4, <3>1 DEF MInv, Good, Orderly, Isolated
    <3>3. Elsewhere(b)
      BY <2>2 DEF Elsewhere, Under, Fetch
    <3>. QED  BY <3>2, <3>3, ElsewhereStep
  <2>. QED  BY <2>1, <2>3, <2>4 DEF MInv
<1>3. ASSUME MInv, Next
      PROVE  MInv'
  BY <1>1, <1>3, IInvStep, MappedStep DEF MInv, IInv
<1>. QED  BY <1>2, <1>3

(* The inductive invariant holds in every reachable state. *)
THEOREM MeaningHolds == Spec => []MInv
BY InitMInv, NextMInv, PTL DEF Spec

(***************************************************************************)
(* What Apply saved first is the program's own code, if no two calls have  *)
(* overlapped on the breakpoint, no read has failed and no other one       *)
(* reaches into its bytes; in the ARM classes, if it was not applied when  *)
(* armed.                                                                  *)
(***************************************************************************)
THEOREM OriginalIsKept == Spec => []OriginalKept
<1>1. MInv => OriginalKept
  BY DEF MInv, Meaning, FirstSaved, Good, Own, OriginalKept
<1>. QED  BY <1>1, MeaningHolds, PTL

(***************************************************************************)
(* What Apply and Reset return is true of the memory, under the same       *)
(* conditions; that a failed Apply left the code alone also needs that the *)
(* kernel has refused nothing.                                             *)
(***************************************************************************)
THEOREM ReturnsAreTruthful == Spec => []TruthfulReturn
<1>1. MInv => TruthfulReturn
  BY DEF MInv, Meaning, Returned, Good, Own, Pristine, Trapped, TruthfulReturn
<1>. QED  BY <1>1, MeaningHolds, PTL

(***************************************************************************)
(* A trap in memory belongs to an active x86_64 breakpoint, but for the    *)
(* time of a Reset and after a failed one.                                 *)
(***************************************************************************)
THEOREM TrapsAreActive == Spec => []TrapIsActive
<1>1. MInv => TrapIsActive
  BY DEF MInv, Meaning, Disarmed, Resetting, Good, Pristine, TrapIsActive
<1>. QED  BY <1>1, MeaningHolds, PTL
===============================================================================
