----------------------- MODULE BreakpointHandlerProofs -----------------------
(***************************************************************************)
(* What SoftwareBreakpointProofs shows of Apply and Reset holds of the     *)
(* handler too; the vector holds the breakpoint of every trap; and what is *)
(* saved under it survives calls on it that overlap.                       *)
(***************************************************************************)
EXTENDS BreakpointHandler, SoftwareBreakpointProofs

Calling == {"Install", "Uninstall", "Enable", "Disable"}
Pcs     == {"call", "in", "true", "false", "next"}

Places == {Outside} \cup [fn : {"AtAddress"}] \cup
          [fn : Calling, pc : Pcs, bp : Bkpt, it : Nat]

(* Where the threads are; the vector holds breakpoints.                    *)
HandlerTypeOK == at \in [Thread -> Places] /\ breakpoints \in Seq(Bkpt)

(* A method that is entered is entered with a breakpoint.                  *)
LEMMA InsideType ==
  ASSUME NEW fn \in Calling, NEW b \in Bkpt, NEW i \in Nat PROVE Inside(fn, b, i) \in Places
BY DEF Inside, Places, Pcs

(* Uninstall goes on at a position of the vector, or returns.              *)
LEMMA ScanType ==
  ASSUME HandlerTypeOK, NEW b \in Bkpt, NEW i \in Nat, Scan(b, i)
  PROVE  at' \in [Thread -> Places]
<1>1. Client \in Thread
  BY ThreadAssumption
<1>2. CASE at' = [at EXCEPT ![Client] = Outside]
  BY <1>2 DEF HandlerTypeOK, Places
<1>3. CASE \E j \in Occurrences(b, i) : at' = [at EXCEPT ![Client] = Inside("Uninstall", b, j)]
  <2>1. PICK j \in Occurrences(b, i) : at' = [at EXCEPT ![Client] = Inside("Uninstall", b, j)]
    BY <1>3
  <2>2. j \in Nat
    BY <2>1 DEF Occurrences
  <2>3. Inside("Uninstall", b, j) \in Places
    BY <2>2, InsideType DEF Calling
  <2> QED
    BY <2>1, <2>3 DEF HandlerTypeOK
<1> QED
  BY <1>2, <1>3 DEF Scan

(* A place stays one when the call in it goes on.                          *)
LEMMA PcType ==
  ASSUME HandlerTypeOK, NEW t \in Thread, NEW v \in Pcs
  PROVE  [at EXCEPT ![t].pc = v] \in [Thread -> Places]
<1>1. [at[t] EXCEPT !.pc = v] \in Places
  <2>1. CASE at[t] = Outside
    BY <2>1 DEF Outside, Places
  <2>2. CASE at[t] \in [fn : {"AtAddress"}]
    BY <2>2 DEF Places
  <2>3. CASE at[t] \in [fn : Calling, pc : Pcs, bp : Bkpt, it : Nat]
    BY <2>3 DEF Places
  <2> QED
    BY <2>1, <2>2, <2>3 DEF HandlerTypeOK, Places
<1> QED
  BY <1>1 DEF HandlerTypeOK

(* A thread in a method that calls a breakpoint has one.                   *)
LEMMA CallingPlace ==
  ASSUME HandlerTypeOK, NEW t \in Thread, at[t].fn \in Calling
  PROVE  at[t] \in [fn : Calling, pc : Pcs, bp : Bkpt, it : Nat]
<1>1. at[t] \in Places
  BY DEF HandlerTypeOK
<1> QED
  BY <1>1 DEF Places, Outside, Calling

(* pop_back leaves a vector of breakpoints.                                *)
LEMMA FrontType ==
  ASSUME NEW seq \in Seq(Bkpt) PROVE Front(seq) \in Seq(Bkpt)
BY DEF Front

(* A vector that an element is taken out of is one of breakpoints still.   *)
LEMMA RemoveAtType ==
  ASSUME NEW seq \in Seq(Bkpt), NEW i \in Nat, i < Len(seq)
  PROVE  RemoveAt(seq, i) \in Seq(Bkpt)
<1>1. SubSeq(seq, 1, i - 1) \in Seq(Bkpt)
  <2>1. \A j \in 1 .. (i - 1) : seq[j] \in Bkpt
    OBVIOUS
  <2> QED
    BY <2>1
<1>2. SubSeq(seq, i + 1, Len(seq)) \in Seq(Bkpt)
  <2>1. \A j \in (i + 1) .. Len(seq) : seq[j] \in Bkpt
    OBVIOUS
  <2> QED
    BY <2>1
<1> QED
  BY <1>1, <1>2 DEF RemoveAt

(* Every step of the handler and of its server keeps these types.          *)
LEMMA HandlerTypeStep ==
  ASSUME HandlerTypeOK, [HandlerNext]_allVars PROVE HandlerTypeOK'
<1> USE DEF HandlerTypeOK
<1>0. Client \in Thread /\ Server \subseteq Thread /\ Outside \in Places
  BY ThreadAssumption DEF Places
<1>1. CASE UNCHANGED allVars
  BY <1>1 DEF allVars, handlerVars
<1>2. ASSUME NEW b \in Bkpt, NEW immActive \in BOOLEAN, InstallBreakpoint(b, immActive)
      PROVE  HandlerTypeOK'
  <2>1. Inside("Install", b, 0) \in Places
    BY InsideType DEF Calling
  <2> QED
    BY <1>0, <1>2, <2>1 DEF InstallBreakpoint, Modify
<1>3. CASE InstallReturns
  <2>1. at' \in [Thread -> Places]
    BY <1>0, <1>3 DEF InstallReturns
  <2>2. breakpoints' = breakpoints \/ breakpoints' = Front(breakpoints)
    BY <1>3 DEF InstallReturns, Modify
  <2> QED
    BY <2>1, <2>2, FrontType
<1>4. ASSUME NEW b \in Bkpt, EnableBreakpoint(b) \/ DisableBreakpoint(b)
      PROVE  HandlerTypeOK'
  <2>1. Inside("Enable", b, 0) \in Places /\ Inside("Disable", b, 0) \in Places
    BY InsideType DEF Calling
  <2> QED
    BY <1>0, <1>4, <2>1 DEF EnableBreakpoint, DisableBreakpoint, EnterMethod
<1>5. ASSUME NEW b \in Bkpt, UninstallBreakpoint(b)
      PROVE  HandlerTypeOK'
  BY <1>5, ScanType DEF UninstallBreakpoint
<1>6. CASE UninstallStops
  BY <1>0, <1>6 DEF UninstallStops
<1>7. CASE UninstallErases
  <2>1. at' \in [Thread -> Places]
    BY <1>0, <1>7, PcType DEF UninstallErases, Pcs
  <2>2. breakpoints' \in Seq(Bkpt)
    <3>1. at[Client] \in [fn : Calling, pc : Pcs, bp : Bkpt, it : Nat]
      BY <1>0, <1>7, CallingPlace DEF UninstallErases, Calling
    <3>2. /\ at[Client].it < Len(breakpoints)
          /\ breakpoints' = RemoveAt(breakpoints, at[Client].it)
      BY <1>7 DEF UninstallErases, Modify
    <3> QED
      BY <3>1, <3>2, RemoveAtType
  <2> QED
    BY <2>1, <2>2
<1>8. CASE UninstallGoesOn
  <2>1. at[Client] \in [fn : Calling, pc : Pcs, bp : Bkpt, it : Nat]
    BY <1>0, <1>8, CallingPlace DEF UninstallGoesOn, Calling
  <2>2. at[Client].bp \in Bkpt /\ at[Client].it + 1 \in Nat
    BY <2>1
  <2> QED
    BY <1>8, <2>2, ScanType DEF UninstallGoesOn
<1>9. CASE UninstallRunsOff
  BY <1>9, FrontType DEF UninstallRunsOff, Modify
<1>10. ASSUME NEW s \in Server, LookupBegins(s)
       PROVE  HandlerTypeOK'
  BY <1>0, <1>10 DEF LookupBegins, Places
<1>11. ASSUME NEW s \in Server, NEW a \in Addr, LookupEnds(s, a)
       PROVE  HandlerTypeOK'
  <2>1. ASSUME NEW found \in BreakpointAtAddress(s, a), NEW b \in found
        PROVE  (CHOOSE c \in found : TRUE) \in Bkpt
    <3>1. found \subseteq Bkpt
      BY <2>1 DEF BreakpointAtAddress
    <3> QED
      BY <2>1, <3>1
  <2>2. PICK found \in BreakpointAtAddress(s, a) :
          at' = [at EXCEPT ![s] =
                   IF \E b \in found : active[b]
                   THEN Inside("Disable", CHOOSE b \in found : TRUE, 0) ELSE Outside]
    BY <1>11 DEF LookupEnds
  <2>3. CASE \E b \in found : active[b]
    <3>1. Inside("Disable", CHOOSE b \in found : TRUE, 0) \in Places
      BY <2>1, <2>3, InsideType DEF Calling
    <3> QED
      BY <1>0, <1>11, <2>2, <2>3, <3>1 DEF LookupEnds
  <2>4. CASE ~ \E b \in found : active[b]
    BY <1>0, <1>11, <2>2, <2>4 DEF LookupEnds
  <2> QED
    BY <2>3, <2>4
<1>12. ASSUME NEW s \in Server, LookupFaults(s)
       PROVE  HandlerTypeOK'
  BY <1>12 DEF LookupFaults
<1>13. ASSUME NEW t \in Thread, CallApply(t) \/ CallReset(t)
       PROVE  HandlerTypeOK'
  BY <1>13, PcType DEF CallApply, CallReset, Pcs
<1>14. ASSUME NEW t \in Thread, InCallStep(t)
       PROVE  HandlerTypeOK'
  <2>1. Result(at[t].bp) \in Pcs
    BY DEF Result, Pcs
  <2> QED
    BY <1>14, <2>1, PcType DEF InCallStep
<1>15. ASSUME NEW t \in Thread, EnableOrDisableReturns(t)
       PROVE  HandlerTypeOK'
  BY <1>0, <1>15 DEF EnableOrDisableReturns
<1> QED
  BY <1>1, <1>2, <1>3, <1>4, <1>5, <1>6, <1>7, <1>8, <1>9, <1>10, <1>11,
     <1>12, <1>13, <1>14, <1>15 DEF HandlerNext

(* A step of the handler is one of Apply or Reset, or leaves them alone.   *)
LEMMA HandlerStep ==
  ASSUME HandlerTypeOK, [HandlerNext]_allVars PROVE [Next]_vars
<1>1. ASSUME NEW t \in Thread, CallApply(t) PROVE Next
  <2>1. at[t].bp \in Bkpt
    BY <1>1, CallingPlace DEF CallApply, Calling
  <2> QED
    BY <1>1, <2>1 DEF CallApply, Next, Call
<1>2. ASSUME NEW t \in Thread, CallReset(t) PROVE Next
  <2>1. at[t].bp \in Bkpt
    BY <1>2, CallingPlace DEF CallReset, Calling
  <2> QED
    BY <1>2, <2>1 DEF CallReset, Next, Call
<1>3. ASSUME NEW t \in Thread, InCallStep(t) PROVE Next
  BY <1>3 DEF InCallStep, Next
<1>4. ASSUME \/ InstallReturns \/ UninstallStops \/ UninstallErases \/ UninstallGoesOn
             \/ UninstallRunsOff
      PROVE  UNCHANGED vars
  BY <1>4 DEF InstallReturns, UninstallStops, UninstallErases, UninstallGoesOn, UninstallRunsOff
<1>5. ASSUME NEW b \in Bkpt,
             \/ \E immActive \in BOOLEAN : InstallBreakpoint(b, immActive)
             \/ EnableBreakpoint(b) \/ DisableBreakpoint(b) \/ UninstallBreakpoint(b)
      PROVE  UNCHANGED vars
  BY <1>5 DEF InstallBreakpoint, EnableBreakpoint, DisableBreakpoint, EnterMethod,
              UninstallBreakpoint
<1>6. ASSUME NEW t, \/ LookupBegins(t) \/ (\E a \in Addr : LookupEnds(t, a))
                    \/ LookupFaults(t) \/ EnableOrDisableReturns(t)
      PROVE  UNCHANGED vars
  BY <1>6 DEF LookupBegins, LookupEnds, LookupFaults, EnableOrDisableReturns
<1>7. ASSUME UNCHANGED allVars PROVE UNCHANGED vars
  BY <1>7 DEF allVars
<1> QED
  BY <1>1, <1>2, <1>3, <1>4, <1>5, <1>6, <1>7 DEF HandlerNext

(* The handler calls nothing but breakpoints that were installed.          *)
LEMMA HandlerTypeCorrect == HandlerSpec => []HandlerTypeOK
<1>1. HandlerInit => HandlerTypeOK
  BY DEF HandlerInit, HandlerTypeOK, Places
<1>2. HandlerTypeOK /\ [HandlerNext]_allVars => HandlerTypeOK'
  BY HandlerTypeStep
<1> QED
  BY <1>1, <1>2, PTL DEF HandlerSpec

(* Whatever client and server do to the target they do in steps of Apply   *)
(* and Reset, so what holds of all interleavings of those holds here.      *)
LEMMA HandlerSteps == HandlerSpec => Spec
<1>1. HandlerInit => Init
  BY DEF HandlerInit
<1>2. HandlerTypeOK /\ [HandlerNext]_allVars => [Next]_vars
  BY HandlerStep
<1> QED
  BY <1>1, <1>2, HandlerTypeCorrect, PTL DEF HandlerSpec, Spec

(* With client and server at work on the registry, the program is changed  *)
(* only where a breakpoint has saved it.                                   *)
THEOREM HandlerConfined == HandlerSpec => []Confined
BY HandlerSteps, ConfinedHolds, PTL

(* And no page is left writable and executable by client and server.       *)
THEOREM HandlerReprotects == HandlerSpec => []NoPageLeftWritable
BY HandlerSteps, PagesAreReprotected, PTL

-------------------------------------------------------------------------------
(***************************************************************************)
(* ArmedIsRegistered: what the registry knows of a breakpoint's memory.    *)
(* Calls on one breakpoint may overlap here, but only the client applies,  *)
(* so a push_back never races another and only the client writes a trap.   *)
(***************************************************************************)
Applying  == {"Install", "Enable"}

(* Every thread is in a call of Apply or Reset when its method says so. *)
InCallOK ==
  \A t \in Thread :
    /\ op[t].pc # "idle" <=> at[t].fn \in Calling /\ at[t].pc = "in"
    /\ op[t].pc # "idle" =>
         /\ op[t].bp = at[t].bp
         /\ op[t].call = "Apply" <=> at[t].fn \in Applying
    /\ t \in Server => at[t].fn \in {"none", "AtAddress", "Disable"}

(* The client's method is about an element of the vector. *)
VectorOK ==
  ~ crashed =>
    /\ at[Client].fn = "Install" =>
         Len(breakpoints) > 0 /\ breakpoints[Len(breakpoints)] = at[Client].bp
    /\ at[Client].fn = "Enable" => Registered(at[Client].bp) \/ at[Client].bp \in stray
    /\ at[Client].fn = "Uninstall" /\ at[Client].pc # "next" =>
         at[Client].it \in DOMAIN breakpoints /\ breakpoints[at[Client].it] = at[Client].bp

(* Install has not armed the element it has entered, and may take it off. *)
Tentative ==
  /\ at[Client].fn = "Install"
  /\ \/ at[Client].pc \in {"call", "false"}
     \/ at[Client].pc = "in" /\ op[Client].pc # "reprotect"

(* The vector holds b, not counting an element that Install may take off. *)
Kept(b) ==
  \E i \in DOMAIN breakpoints :
    breakpoints[i] = b /\ (Tentative => i < Len(breakpoints))

(* The client's Reset of b has put the saved byte back. *)
Undone(b) ==
  /\ at[Client].fn = "Uninstall" /\ at[Client].bp = b
  /\ \/ at[Client].pc = "in" /\ op[Client].pc = "reprotect"
     \/ at[Client].pc \in {"true", "next"}

(* A breakpoint to which ArmedIsRegistered applies; once not so, it never is again. *)
Watched(b) ==
  /\ Kind[b] = "x86_64" /\ Opcode(b)[1] \notin StaleByte
  /\ Isolated(b) /\ b \notin unread /\ refusals = 0 /\ b \notin stray
  /\ Under(InitMem, b) # Opcode(b)

(* The memory under b and what is saved of it. *)
ArmedOK(b) ==
  /\ original[b] # << >> => original[b][1] = InitMem[Address[b]]
  /\ original[b] = << >> => mem[Address[b]] = InitMem[Address[b]]
  /\ op[Client].call = "Apply" /\ op[Client].bp = b /\ op[Client].pc \in {"protect", "write", "reprotect"} =>
       original[b] # << >>
  /\ op[Client].call = "Reset" /\ InCall(Client, b) => op[Client].size = Len(original[b])
  /\ Under(mem, b) = Opcode(b) => Kept(b) /\ ~ Undone(b)

(* A thread moves in the handler, outside Apply and Reset before and after. *)
LEMMA MoveInCallOK ==
  ASSUME HandlerTypeOK, InCallOK, op' = op, NEW t \in Thread, NEW place, at' = [at EXCEPT ![t] = place],
         ~ (at[t].fn \in Calling /\ at[t].pc = "in"),
         ~ (place.fn \in Calling /\ place.pc = "in"),
         t \in Server => place.fn \in {"none", "AtAddress", "Disable"}
  PROVE  InCallOK'
<1>1. ASSUME NEW u \in Thread
      PROVE  /\ op'[u].pc # "idle" <=> at'[u].fn \in Calling /\ at'[u].pc = "in"
             /\ op'[u].pc # "idle" =>
                  /\ op'[u].bp = at'[u].bp
                  /\ op'[u].call = "Apply" <=> at'[u].fn \in Applying
             /\ u \in Server => at'[u].fn \in {"none", "AtAddress", "Disable"}
  <2>1. CASE u = t
    <3>1. at'[u] = place /\ op'[u].pc = "idle"
      BY <2>1 DEF HandlerTypeOK, InCallOK
    <3>. QED  BY <2>1, <3>1
  <2>2. CASE u # t
    <3>1. at'[u] = at[u] /\ op'[u] = op[u]
      BY <2>2 DEF HandlerTypeOK
    <3>. QED  BY <3>1 DEF InCallOK
  <2>. QED  BY <2>1, <2>2
<1>. QED  BY <1>1 DEF InCallOK

(* The client's own moves. *)
LEMMA ClientInCallOK ==
  ASSUME HandlerTypeOK, InCallOK,
         \/ \E b \in Bkpt : \/ \E immActive \in BOOLEAN : InstallBreakpoint(b, immActive)
                            \/ EnableBreakpoint(b) \/ DisableBreakpoint(b) \/ UninstallBreakpoint(b)
         \/ InstallReturns \/ UninstallStops \/ UninstallErases \/ UninstallGoesOn
         \/ UninstallRunsOff
  PROVE  InCallOK'
<1>1. Client \in Thread /\ Client \notin Server /\ at[Client] \in Places
  BY ThreadAssumption DEF HandlerTypeOK
<1>2. CASE at' = at /\ op' = op
  BY <1>2 DEF InCallOK
<1>3. op' = op
  BY DEF InstallBreakpoint, EnableBreakpoint, DisableBreakpoint, EnterMethod, UninstallBreakpoint,
         InstallReturns, UninstallStops, UninstallErases, UninstallGoesOn, UninstallRunsOff, vars
<1>4. ~ (Outside.fn \in Calling)
  BY DEF Outside, Calling
<1>5. \A fn, b, i : Inside(fn, b, i).pc = "call"
  BY DEF Inside
<1>6. ASSUME NEW b \in Bkpt, NEW immActive \in BOOLEAN, InstallBreakpoint(b, immActive)
      PROVE  InCallOK'
  <2>1. at[Client] = Outside /\ (at' = at \/ at' = [at EXCEPT ![Client] = Inside("Install", b, 0)])
    BY <1>6 DEF InstallBreakpoint
  <2>. QED  BY <1>1, <1>2, <1>3, <1>4, <1>5, <2>1, MoveInCallOK
<1>7. ASSUME NEW b \in Bkpt, EnableBreakpoint(b) \/ DisableBreakpoint(b)
      PROVE  InCallOK'
  <2>1. PICK fn : at[Client] = Outside /\ at' = [at EXCEPT ![Client] = Inside(fn, b, 0)]
    BY <1>7 DEF EnableBreakpoint, DisableBreakpoint, EnterMethod
  <2>. QED  BY <1>1, <1>3, <1>4, <1>5, <2>1, MoveInCallOK
<1>8. ASSUME NEW b, NEW i, Scan(b, i), ~ (at[Client].fn \in Calling /\ at[Client].pc = "in")
      PROVE  InCallOK'
  <2>1. \/ at' = [at EXCEPT ![Client] = Outside]
        \/ \E j : at' = [at EXCEPT ![Client] = Inside("Uninstall", b, j)]
    BY <1>8 DEF Scan
  <2>. QED  BY <1>1, <1>3, <1>4, <1>5, <1>8, <2>1, MoveInCallOK
<1>9. ASSUME NEW b \in Bkpt, UninstallBreakpoint(b)
      PROVE  InCallOK'
  BY <1>4, <1>8, <1>9 DEF UninstallBreakpoint
<1>10. CASE InstallReturns \/ UninstallStops
  <2>1. at[Client].pc # "in" /\ at' = [at EXCEPT ![Client] = Outside]
    BY <1>10 DEF InstallReturns, UninstallStops
  <2>. QED  BY <1>1, <1>3, <1>4, <2>1, MoveInCallOK
<1>11. CASE UninstallErases
  <2>1. at[Client] \in [fn : Calling, pc : Pcs, bp : Bkpt, it : Nat]
    BY <1>1, <1>11, CallingPlace DEF UninstallErases, Calling
  <2>2. PICK place : place = [at[Client] EXCEPT !.pc = "next"]
    OBVIOUS
  <2>3. at[Client].pc = "true" /\ at' = [at EXCEPT ![Client] = place] /\ place.pc = "next"
    BY <1>11, <2>1, <2>2 DEF UninstallErases
  <2>. QED  BY <1>1, <1>3, <2>3, MoveInCallOK
<1>12. CASE UninstallGoesOn
  BY <1>8, <1>12 DEF UninstallGoesOn
<1>13. CASE UninstallRunsOff
  BY <1>2, <1>3, <1>13 DEF UninstallRunsOff
<1>. QED  BY <1>6, <1>7, <1>9, <1>10, <1>11, <1>12, <1>13

(* The servers' lookups, and returns from Enable and Disable. *)
LEMMA LookupInCallOK ==
  ASSUME HandlerTypeOK, InCallOK,
         \/ \E s \in Server : \/ LookupBegins(s) \/ (\E a \in Addr : LookupEnds(s, a))
                              \/ LookupFaults(s)
         \/ \E t \in Thread : EnableOrDisableReturns(t)
  PROVE  InCallOK'
<1>1. Server \subseteq Thread
  BY ThreadAssumption
<1>2. Outside.fn = "none" /\ Outside.fn \notin Calling
  BY DEF Outside, Calling
<1>3. op' = op
  BY DEF LookupBegins, LookupEnds, LookupFaults, EnableOrDisableReturns, vars
<1>4. ASSUME NEW s \in Server, LookupBegins(s)
      PROVE  InCallOK'
  <2>1. PICK place : place = [fn |-> "AtAddress"]
    OBVIOUS
  <2>2. /\ at[s] = Outside /\ at' = [at EXCEPT ![s] = place]
        /\ place.fn = "AtAddress" /\ place.fn \notin Calling
    BY <1>4, <2>1 DEF LookupBegins, Calling
  <2>. QED  BY <1>1, <1>2, <1>3, <2>2, MoveInCallOK
<1>5. ASSUME NEW s \in Server, NEW a \in Addr, LookupEnds(s, a)
      PROVE  InCallOK'
  <2>1. at[s].fn \notin Calling
    BY <1>5 DEF LookupEnds, Calling
  <2>2. \/ at' = [at EXCEPT ![s] = Outside]
        \/ \E b : at' = [at EXCEPT ![s] = Inside("Disable", b, 0)]
    BY <1>5 DEF LookupEnds
  <2>3. \A b : Inside("Disable", b, 0).fn = "Disable" /\ Inside("Disable", b, 0).pc = "call"
    BY DEF Inside
  <2>. QED  BY <1>1, <1>2, <1>3, <2>1, <2>2, <2>3, MoveInCallOK
<1>6. ASSUME NEW s \in Server, LookupFaults(s)
      PROVE  InCallOK'
  BY <1>3, <1>6 DEF LookupFaults, InCallOK
<1>7. ASSUME NEW t \in Thread, EnableOrDisableReturns(t)
      PROVE  InCallOK'
  <2>1. at[t].pc # "in" /\ at' = [at EXCEPT ![t] = Outside]
    BY <1>7 DEF EnableOrDisableReturns
  <2>. QED  BY <1>2, <1>3, <2>1, MoveInCallOK
<1>. QED  BY <1>4, <1>5, <1>6, <1>7

(* A thread enters Apply or Reset of its method's breakpoint. *)
LEMMA EnterInCallOK ==
  ASSUME HandlerTypeOK, TypeOK, InCallOK, NEW t \in Thread, CallApply(t) \/ CallReset(t)
  PROVE  InCallOK'
<1>1. at[t] \in [fn : Calling, pc : Pcs, bp : Bkpt, it : Nat]
  BY CallingPlace DEF CallApply, CallReset, Calling
<1>2. PICK call, pc, size :
        /\ Enter(t, at[t].bp, call, pc, size) /\ pc \in {"read", "protect"}
        /\ call = "Apply" <=> at[t].fn \in Applying
  BY DEF CallApply, CallReset, ApplyX64, ApplyARMv7, ApplyTHUMBv7, ResetX64, ResetARMv7,
         EnterApply, EnterReset, Applying
<1>3. op'[t] = [pc |-> pc, call |-> call, bp |-> at[t].bp, size |-> size]
  BY <1>2 DEF Enter, TypeOK
<1>4. \A u \in Thread : u # t => op'[u] = op[u]
  BY <1>2 DEF Enter, TypeOK
<1>5. at' = [at EXCEPT ![t].pc = "in"]
  BY DEF CallApply, CallReset
<1>6. /\ at'[t] = [at[t] EXCEPT !.pc = "in"]
      /\ \A u \in Thread : u # t => at'[u] = at[u]
  BY <1>5 DEF HandlerTypeOK
<1>7. /\ op'[t].pc # "idle" /\ op'[t].bp = at'[t].bp
      /\ op'[t].call = "Apply" <=> at'[t].fn \in Applying
      /\ at'[t].fn \in Calling /\ at'[t].pc = "in" /\ at'[t].fn = at[t].fn
  BY <1>1, <1>2, <1>3, <1>6
<1>8. t \in Server => at'[t].fn \in {"none", "AtAddress", "Disable"}
  BY <1>7 DEF InCallOK
<1>9. ASSUME NEW u \in Thread, u # t
      PROVE  /\ op'[u].pc # "idle" <=> at'[u].fn \in Calling /\ at'[u].pc = "in"
             /\ op'[u].pc # "idle" =>
                  /\ op'[u].bp = at'[u].bp
                  /\ op'[u].call = "Apply" <=> at'[u].fn \in Applying
             /\ u \in Server => at'[u].fn \in {"none", "AtAddress", "Disable"}
  BY <1>4, <1>6, <1>9 DEF InCallOK
<1>. QED  BY <1>7, <1>8, <1>9 DEF InCallOK

(* A call of Apply or Reset goes on, or its end is the method's result. *)
LEMMA GoesOnFacts ==
  ASSUME HandlerTypeOK, TypeOK, InCallOK, NEW t \in Thread, InCallStep(t)
  PROVE  /\ at[t] \in [fn : Calling, pc : Pcs, bp : Bkpt, it : Nat] /\ at[t].pc = "in"
         /\ op[t].pc # "idle" /\ op[t].bp = at[t].bp /\ Continue(t)
         /\ \A u \in Thread : u # t => op'[u] = op[u] /\ at'[u] = at[u]
         /\ \/ op'[t] = [op[t] EXCEPT !.pc = op'[t].pc] /\ op'[t].pc # "idle" /\ at' = at
            \/ /\ op'[t] = Idle
               /\ at'[t] = [at[t] EXCEPT !.pc = Result(at[t].bp)]
         /\ UNCHANGED <<breakpoints, crashed>>
<1>1. op[t].pc # "idle" /\ Continue(t)
  BY DEF InCallStep, Continue, SaveOriginalX64, SaveOriginalARMv7, VmProtectForWrite, VmWrite,
         VmProtectAfterWrite, VmCallFails, KernelRefuses
<1>2. at[t].fn \in Calling /\ at[t].pc = "in" /\ op[t].bp = at[t].bp
  BY <1>1 DEF InCallOK
<1>3. at[t] \in [fn : Calling, pc : Pcs, bp : Bkpt, it : Nat]
  BY <1>2, CallingPlace
<1>4. \A u \in Thread : u # t => op'[u] = op[u]
  BY <1>1 DEF Continue, SaveOriginalX64, SaveOriginalARMv7, Save, VmProtectForWrite, VmWrite,
         VmProtectAfterWrite, VmCallFails, KernelRefuses, Return, TypeOK
<1>5. \/ op'[t] = [op[t] EXCEPT !.pc = op'[t].pc] /\ op'[t].pc # "idle"
      \/ op'[t] = Idle
  <2>1. CASE VmProtectAfterWrite(t) \/ VmCallFails(t) \/ KernelRefuses(t)
    BY <2>1 DEF VmProtectAfterWrite, VmCallFails, KernelRefuses, Return, TypeOK
  <2>2. CASE SaveOriginalX64(t) \/ SaveOriginalARMv7(t) \/ VmProtectForWrite(t) \/ VmWrite(t)
    <3>1. PICK pc \in {"protect", "write", "reprotect"} : op' = [op EXCEPT ![t].pc = pc]
      BY <2>2 DEF SaveOriginalX64, SaveOriginalARMv7, Save, VmProtectForWrite, VmWrite
    <3>2. op'[t] = [op[t] EXCEPT !.pc = pc] /\ op[t] \in [pc : Steps, call : Calls, bp : Bkpt, size : Nat]
      BY <3>1 DEF TypeOK
    <3>3. op'[t].pc = pc
      BY <3>2
    <3>. QED  BY <3>1, <3>2, <3>3
  <2>. QED  BY <1>1, <2>1, <2>2 DEF Continue
<1>6. Idle.pc = "idle"
  BY DEF Idle
<1>7. CASE op'[t].pc # "idle"
  <2>1. at' = at
    BY <1>7 DEF InCallStep
  <2>. QED  BY <1>1, <1>2, <1>3, <1>4, <1>5, <1>6, <1>7, <2>1 DEF InCallStep
<1>8. CASE op'[t].pc = "idle"
  <2>1. at' = [at EXCEPT ![t].pc = Result(at[t].bp)]
    BY <1>8 DEF InCallStep
  <2>2. /\ at'[t] = [at[t] EXCEPT !.pc = Result(at[t].bp)]
        /\ \A u \in Thread : u # t => at'[u] = at[u]
    BY <2>1 DEF HandlerTypeOK
  <2>. QED  BY <1>1, <1>2, <1>3, <1>4, <1>5, <1>8, <2>2 DEF InCallStep
<1>. QED  BY <1>7, <1>8

(* The calls of the client and of the server stay where their methods say. *)
LEMMA GoesOnInCallOK ==
  ASSUME HandlerTypeOK, TypeOK, InCallOK, NEW t \in Thread, InCallStep(t)
  PROVE  InCallOK'
<1>1. /\ at[t] \in [fn : Calling, pc : Pcs, bp : Bkpt, it : Nat] /\ at[t].pc = "in"
      /\ op[t].pc # "idle" /\ op[t].bp = at[t].bp
      /\ \A u \in Thread : u # t => op'[u] = op[u] /\ at'[u] = at[u]
  BY GoesOnFacts
<1>2. op[t] \in [pc : Steps, call : Calls, bp : Bkpt, size : Nat]
  BY DEF TypeOK
<1>3. CASE op'[t] = [op[t] EXCEPT !.pc = op'[t].pc] /\ op'[t].pc # "idle" /\ at' = at
  <2>1. op'[t].bp = op[t].bp /\ op'[t].call = op[t].call
    BY <1>2, <1>3
  <2>2. op[t].call = "Apply" <=> at[t].fn \in Applying
    BY <1>1 DEF InCallOK
  <2>3. /\ op'[t].pc # "idle" <=> at'[t].fn \in Calling /\ at'[t].pc = "in"
        /\ op'[t].bp = at'[t].bp
        /\ op'[t].call = "Apply" <=> at'[t].fn \in Applying
    BY <1>1, <1>3, <2>1, <2>2
  <2>4. t \in Server => at'[t].fn \in {"none", "AtAddress", "Disable"}
    BY <1>3 DEF InCallOK
  <2>. QED  BY <1>1, <2>3, <2>4 DEF InCallOK
<1>4. CASE op'[t] = Idle /\ at'[t] = [at[t] EXCEPT !.pc = Result(at[t].bp)]
  <2>1. op'[t].pc = "idle" /\ at'[t].fn = at[t].fn /\ at'[t].pc = Result(at[t].bp)
    BY <1>1, <1>4 DEF Idle
  <2>2. Result(at[t].bp) # "in"
    BY DEF Result
  <2>3. t \in Server => at'[t].fn \in {"none", "AtAddress", "Disable"}
    BY <2>1 DEF InCallOK
  <2>. QED  BY <1>1, <2>1, <2>2, <2>3 DEF InCallOK
<1>. QED  BY <1>3, <1>4, GoesOnFacts

(* Where the threads are in the handler and in Apply and Reset agrees. *)
LEMMA InCallOKStep ==
  ASSUME HandlerTypeOK, TypeOK, InCallOK, HandlerNext
  PROVE  InCallOK'
BY ClientInCallOK, LookupInCallOK, EnterInCallOK, GoesOnInCallOK DEF HandlerNext

(* The vector and the client's place in it stay as they are. *)
LEMMA SameVectorOK ==
  ASSUME VectorOK, ~ crashed, breakpoints' = breakpoints, stray \subseteq stray',
         \/ at'[Client] = at[Client]
         \/ /\ at'[Client].fn = at[Client].fn /\ at'[Client].bp = at[Client].bp
            /\ at'[Client].it = at[Client].it /\ at[Client].pc # "next"
  PROVE  VectorOK'
BY DEF VectorOK, Registered

(* The loop of Uninstall stops at an element that is its breakpoint. *)
LEMMA ScanVectorOK ==
  ASSUME HandlerTypeOK, NEW b \in Bkpt, NEW i \in Nat \ {0}, Scan(b, i), breakpoints' = breakpoints
  PROVE  VectorOK'
<1>1. Client \in Thread
  BY ThreadAssumption
<1>2. CASE at' = [at EXCEPT ![Client] = Outside]
  <2>1. at'[Client].fn = "none"
    BY <1>1, <1>2 DEF HandlerTypeOK, Outside
  <2>. QED  BY <2>1 DEF VectorOK
<1>3. ASSUME NEW j \in Occurrences(b, i), at' = [at EXCEPT ![Client] = Inside("Uninstall", b, j)]
      PROVE  VectorOK'
  <2>1. /\ at'[Client].fn = "Uninstall" /\ at'[Client].bp = b /\ at'[Client].it = j
    BY <1>1, <1>3 DEF HandlerTypeOK, Inside
  <2>2. j \in DOMAIN breakpoints /\ breakpoints[j] = b
    BY <1>3 DEF Occurrences, HandlerTypeOK
  <2>. QED  BY <2>1, <2>2 DEF VectorOK
<1>. QED  BY <1>2, <1>3 DEF Scan

(* What was enabled outside the vector is remembered. *)
LEMMA StrayGrows == ASSUME [HandlerNext]_allVars PROVE stray \subseteq stray'
<1>1. ASSUME NEW b \in Bkpt, \/ \E immActive \in BOOLEAN : InstallBreakpoint(b, immActive)
                             \/ EnableBreakpoint(b) \/ DisableBreakpoint(b)
                             \/ UninstallBreakpoint(b)
      PROVE  stray \subseteq stray'
  BY <1>1 DEF InstallBreakpoint, EnableBreakpoint, DisableBreakpoint, UninstallBreakpoint
<1>2. ASSUME \/ InstallReturns \/ UninstallStops \/ UninstallErases \/ UninstallGoesOn
             \/ UninstallRunsOff
      PROVE  stray \subseteq stray'
  BY <1>2 DEF InstallReturns, UninstallStops, UninstallErases, UninstallGoesOn, UninstallRunsOff
<1>3. ASSUME NEW t, \/ LookupBegins(t) \/ (\E a \in Addr : LookupEnds(t, a))
                    \/ LookupFaults(t) \/ CallApply(t) \/ CallReset(t) \/ InCallStep(t)
                    \/ EnableOrDisableReturns(t)
      PROVE  stray \subseteq stray'
  BY <1>3 DEF LookupBegins, LookupEnds, LookupFaults, CallApply, CallReset, InCallStep,
              EnableOrDisableReturns
<1>4. UNCHANGED allVars => stray \subseteq stray'
  BY DEF allVars, handlerVars
<1>. QED  BY <1>1, <1>2, <1>3, <1>4 DEF HandlerNext

(* Every step keeps the client's place in the vector right. *)
LEMMA VectorOKStep ==
  ASSUME HandlerTypeOK, TypeOK, InCallOK, VectorOK, HandlerNext
  PROVE  VectorOK'
<1>0. /\ ~ crashed /\ Client \in Thread /\ Client \notin Server /\ Server \subseteq Thread
      /\ stray \subseteq stray'
  BY ThreadAssumption, StrayGrows DEF HandlerNext
<1>1. ASSUME NEW b \in Bkpt, NEW immActive \in BOOLEAN, InstallBreakpoint(b, immActive)
      PROVE  VectorOK'
  <2>1. breakpoints' = Append(breakpoints, b) /\ at[Client] = Outside
    BY <1>1 DEF InstallBreakpoint, Modify
  <2>2. Len(breakpoints') > 0 /\ breakpoints'[Len(breakpoints')] = b
    BY <2>1 DEF HandlerTypeOK
  <2>3. CASE at' = at
    <3>1. at'[Client].fn = "none"
      BY <2>1, <2>3 DEF Outside
    <3>. QED  BY <3>1 DEF VectorOK
  <2>4. CASE at' = [at EXCEPT ![Client] = Inside("Install", b, 0)]
    <3>1. at'[Client].fn = "Install" /\ at'[Client].bp = b
      BY <1>0, <2>4 DEF HandlerTypeOK, Inside
    <3>. QED  BY <2>2, <3>1 DEF VectorOK
  <2>. QED  BY <1>1, <2>3, <2>4 DEF InstallBreakpoint
<1>2. ASSUME NEW b \in Bkpt, EnableBreakpoint(b) \/ DisableBreakpoint(b)
      PROVE  VectorOK'
  <2>1. PICK fn \in {"Enable", "Disable"} :
          /\ at' = [at EXCEPT ![Client] = Inside(fn, b, 0)] /\ breakpoints' = breakpoints
          /\ fn = "Enable" => Registered(b) \/ b \in stray'
    BY <1>2 DEF EnableBreakpoint, DisableBreakpoint, EnterMethod
  <2>2. at'[Client].fn = fn /\ at'[Client].bp = b
    BY <1>0, <2>1 DEF HandlerTypeOK, Inside
  <2>. QED  BY <2>1, <2>2 DEF VectorOK, Registered
<1>3. ASSUME NEW b \in Bkpt, UninstallBreakpoint(b)
      PROVE  VectorOK'
  BY <1>3, ScanVectorOK DEF UninstallBreakpoint
<1>4. CASE InstallReturns \/ UninstallStops
  <2>1. at'[Client].fn = "none"
    BY <1>0, <1>4 DEF InstallReturns, UninstallStops, HandlerTypeOK, Outside
  <2>. QED  BY <2>1 DEF VectorOK
<1>5. CASE UninstallErases
  <2>1. at[Client] \in [fn : Calling, pc : Pcs, bp : Bkpt, it : Nat]
    BY <1>0, <1>5, CallingPlace DEF UninstallErases, Calling
  <2>2. at'[Client].fn = "Uninstall" /\ at'[Client].pc = "next"
    BY <1>0, <1>5, <2>1 DEF UninstallErases, HandlerTypeOK
  <2>. QED  BY <2>2 DEF VectorOK
<1>6. CASE UninstallGoesOn
  <2>1. at[Client] \in [fn : Calling, pc : Pcs, bp : Bkpt, it : Nat]
    BY <1>0, <1>6, CallingPlace DEF UninstallGoesOn, Calling
  <2>2. at[Client].bp \in Bkpt /\ at[Client].it + 1 \in Nat \ {0}
    BY <2>1
  <2>. QED  BY <1>6, <2>2, ScanVectorOK DEF UninstallGoesOn
<1>7. CASE UninstallRunsOff
  BY <1>7 DEF UninstallRunsOff, VectorOK
<1>8. ASSUME NEW s \in Server,
             LookupBegins(s) \/ (\E a \in Addr : LookupEnds(s, a)) \/ LookupFaults(s)
      PROVE  VectorOK'
  <2>1. at'[Client] = at[Client] /\ breakpoints' = breakpoints
    BY <1>0, <1>8 DEF LookupBegins, LookupEnds, LookupFaults, HandlerTypeOK
  <2>. QED  BY <1>0, <2>1, SameVectorOK
<1>9. ASSUME NEW t \in Thread, CallApply(t) \/ CallReset(t)
      PROVE  VectorOK'
  <2>1. /\ at[t] \in [fn : Calling, pc : Pcs, bp : Bkpt, it : Nat] /\ at[t].pc = "call"
        /\ at' = [at EXCEPT ![t].pc = "in"] /\ breakpoints' = breakpoints
    BY <1>9, CallingPlace DEF CallApply, CallReset, Calling
  <2>2. CASE t = Client
    <3>1. /\ at'[Client].fn = at[Client].fn /\ at'[Client].bp = at[Client].bp
          /\ at'[Client].it = at[Client].it
      BY <1>0, <2>1, <2>2 DEF HandlerTypeOK
    <3>. QED  BY <1>0, <2>1, <2>2, <3>1, SameVectorOK
  <2>3. CASE t # Client
    <3>1. at'[Client] = at[Client]
      BY <1>0, <2>1, <2>3 DEF HandlerTypeOK
    <3>. QED  BY <1>0, <2>1, <3>1, SameVectorOK
  <2>. QED  BY <2>2, <2>3
<1>10. ASSUME NEW t \in Thread, InCallStep(t)
       PROVE  VectorOK'
  <2>1. /\ at[t] \in [fn : Calling, pc : Pcs, bp : Bkpt, it : Nat] /\ at[t].pc = "in"
        /\ \A u \in Thread : u # t => at'[u] = at[u]
        /\ at' = at \/ at'[t] = [at[t] EXCEPT !.pc = Result(at[t].bp)]
        /\ breakpoints' = breakpoints
    BY <1>10, GoesOnFacts
  <2>2. CASE at'[Client] = at[Client]
    BY <1>0, <2>1, <2>2, SameVectorOK
  <2>3. CASE t = Client /\ at'[t] = [at[t] EXCEPT !.pc = Result(at[t].bp)]
    <3>1. /\ at'[Client].fn = at[Client].fn /\ at'[Client].bp = at[Client].bp
          /\ at'[Client].it = at[Client].it
      BY <2>1, <2>3
    <3>. QED  BY <1>0, <2>1, <2>3, <3>1, SameVectorOK
  <2>. QED  BY <1>0, <2>1, <2>2, <2>3
<1>11. ASSUME NEW t \in Thread, EnableOrDisableReturns(t)
       PROVE  VectorOK'
  <2>1. breakpoints' = breakpoints /\ at' = [at EXCEPT ![t] = Outside]
    BY <1>11 DEF EnableOrDisableReturns
  <2>2. CASE t = Client
    <3>1. at'[Client].fn = "none"
      BY <1>0, <2>1, <2>2 DEF HandlerTypeOK, Outside
    <3>. QED  BY <3>1 DEF VectorOK
  <2>3. CASE t # Client
    <3>1. at'[Client] = at[Client]
      BY <1>0, <2>1, <2>3 DEF HandlerTypeOK
    <3>. QED  BY <1>0, <2>1, <3>1, SameVectorOK
  <2>. QED  BY <2>2, <2>3
<1>. QED  BY <1>1, <1>2, <1>3, <1>4, <1>5, <1>6, <1>7, <1>8, <1>9, <1>10, <1>11 DEF HandlerNext

(* A piece of a vector of breakpoints. *)
LEMMA PieceFacts ==
  ASSUME NEW seq \in Seq(Bkpt), NEW m \in Nat, NEW n \in Nat, 1 <= m, m <= n + 1, n <= Len(seq)
  PROVE  /\ SubSeq(seq, m, n) \in Seq(Bkpt) /\ Len(SubSeq(seq, m, n)) = n - m + 1
         /\ \A k \in 1 .. (n - m + 1) : SubSeq(seq, m, n)[k] = seq[m + k - 1]
<1>1. \A k \in m .. n : seq[k] \in Bkpt
  OBVIOUS
<1>2. SubSeq(seq, m, n) \in Seq(Bkpt) /\ Len(SubSeq(seq, m, n)) = n - m + 1
  BY <1>1
<1>3. \A k \in 1 .. (n - m + 1) : SubSeq(seq, m, n)[k] = seq[m + k - 1]
  OBVIOUS
<1>. QED  BY <1>2, <1>3

(* An element other than the one taken out stays in the vector. *)
LEMMA RemoveAtKeeps ==
  ASSUME NEW seq \in Seq(Bkpt), NEW i \in DOMAIN seq, NEW j \in DOMAIN seq, i # j, j < Len(seq)
  PROVE  \E k \in DOMAIN RemoveAt(seq, j) : RemoveAt(seq, j)[k] = seq[i]
<1>1. RemoveAt(seq, j) = SubSeq(seq, 1, j - 1) \o SubSeq(seq, j + 1, Len(seq))
  BY DEF RemoveAt
<1>2. PICK n \in Nat : n = Len(seq)
  OBVIOUS
<1>3. i \in 1 .. n /\ j \in 1 .. n
  BY <1>2
<1>4. PICK l \in Nat, m \in Nat : l = j - 1 /\ m = j + 1
  BY <1>3
<1>5. 1 <= l + 1 /\ l <= n /\ m <= n + 1 /\ 1 <= m /\ l - 1 + 1 = l /\ n - m + 1 = n - j
  BY <1>2, <1>3, <1>4
<1>6. PICK s, t : s = SubSeq(seq, 1, l) /\ t = SubSeq(seq, m, n)
  OBVIOUS
<1>7. /\ s \in Seq(Bkpt) /\ Len(s) = l
      /\ \A k \in 1 .. l : s[k] = seq[1 + k - 1]
  BY <1>2, <1>5, <1>6, PieceFacts
<1>8. /\ t \in Seq(Bkpt) /\ Len(t) = n - m + 1
      /\ \A k \in 1 .. (n - m + 1) : t[k] = seq[m + k - 1]
  BY <1>2, <1>5, <1>6, PieceFacts
<1>9. RemoveAt(seq, j) = s \o t
  BY <1>1, <1>2, <1>4, <1>6
<1>10. CASE i < j
  <2>1. i \in 1 .. l /\ 1 + i - 1 = i
    BY <1>3, <1>4, <1>10
  <2>2. i \in DOMAIN (s \o t) /\ (s \o t)[i] = s[i]
    BY <1>7, <1>8, <2>1
  <2>3. s[i] = seq[i]
    BY <1>7, <2>1
  <2>. QED  BY <1>9, <2>2, <2>3
<1>11. CASE j < i
  <2>1. PICK k \in Nat : k = i - j
    BY <1>3, <1>11
  <2>2. k \in 1 .. (n - m + 1) /\ m + k - 1 = i
    BY <1>2, <1>3, <1>4, <1>11, <2>1
  <2>3. Len(s) + k \in DOMAIN (s \o t) /\ (s \o t)[Len(s) + k] = t[k]
    BY <1>7, <1>8, <2>2
  <2>4. t[k] = seq[i]
    BY <1>8, <2>2
  <2>. QED  BY <1>9, <2>3, <2>4
<1>. QED  BY <1>3, <1>10, <1>11

(* A failed read is remembered. *)
LEMMA UnreadGrows == ASSUME Next PROVE unread \subseteq unread'
<1>1. ASSUME NEW t \in Thread, NEW c \in Bkpt, Call(t, c) PROVE unread \subseteq unread'
  BY <1>1 DEF Call, ApplyX64, ApplyARMv7, ApplyTHUMBv7, ResetX64, ResetARMv7, EnterApply, EnterReset
<1>2. ASSUME NEW t \in Thread, SaveOriginalX64(t) \/ SaveOriginalARMv7(t)
      PROVE  unread \subseteq unread'
  BY <1>2 DEF SaveOriginalX64, SaveOriginalARMv7, Save
<1>3. ASSUME NEW t \in Thread,
             \/ VmProtectForWrite(t) \/ VmWrite(t) \/ VmProtectAfterWrite(t)
             \/ VmCallFails(t) \/ KernelRefuses(t)
      PROVE  unread \subseteq unread'
  BY <1>3 DEF VmProtectForWrite, VmWrite, VmProtectAfterWrite, VmCallFails, KernelRefuses
<1>. QED  BY <1>1, <1>2, <1>3 DEF Next, Continue

(* So is a refusal. *)
LEMMA RefusalsStep ==
  ASSUME Next PROVE refusals' = refusals \/ refusals' = refusals + 1
<1>1. ASSUME NEW t \in Thread, NEW c \in Bkpt, Call(t, c) PROVE refusals' = refusals
  BY <1>1 DEF Call, ApplyX64, ApplyARMv7, ApplyTHUMBv7, ResetX64, ResetARMv7, EnterApply, EnterReset
<1>2. ASSUME NEW t \in Thread, SaveOriginalX64(t) \/ SaveOriginalARMv7(t)
      PROVE  refusals' = refusals
  BY <1>2 DEF SaveOriginalX64, SaveOriginalARMv7, Save
<1>3. ASSUME NEW t \in Thread,
             \/ VmProtectForWrite(t) \/ VmWrite(t) \/ VmProtectAfterWrite(t)
             \/ VmCallFails(t) \/ KernelRefuses(t)
      PROVE  refusals' = refusals \/ refusals' = refusals + 1
  BY <1>3 DEF VmProtectForWrite, VmWrite, VmProtectAfterWrite, VmCallFails, KernelRefuses
<1>. QED  BY <1>1, <1>2, <1>3 DEF Next, Continue


(* The byte at b's address is the first of those under b. *)
LEMMA MemElsewhere ==
  ASSUME NEW b \in Bkpt, Under(mem', b) = Under(mem, b)
  PROVE  mem'[Address[b]] = mem[Address[b]]
<1>1. 1 \in 1 .. Width(b) /\ Address[b] + 1 - 1 = Address[b]
  BY OpcodeType, AddressAssumption, LastAddrAssumption DEF Addr
<1>. QED  BY <1>1 DEF Under, Fetch


(* One byte is under an x86_64 breakpoint. *)
LEMMA X64Under ==
  ASSUME NEW b \in Bkpt, Kind[b] = "x86_64", NEW m \in [Addr -> Byte]
  PROVE  /\ Address[b] \in Addr /\ Width(b) = 1 /\ Opcode(b) = X64Opcode /\ Opcode(b)[1] = 204
         /\ Under(m, b) = Opcode(b) <=> m[Address[b]] = 204
         /\ Under(m, b)[1] = m[Address[b]]
<1>1. Opcode(b) = X64Opcode /\ Width(b) = 1 /\ Address[b] \in Addr /\ X64Opcode[1] = 204
  BY AddressAssumption DEF Width, Opcode, X64Opcode
<1>2. Address[b] + 1 - 1 = Address[b]
  BY <1>1, LastAddrAssumption DEF Addr
<1>3. Under(m, b) = <<m[Address[b]]>>
  BY <1>1, <1>2 DEF Under, Fetch
<1>4. <<m[Address[b]]>> = X64Opcode <=> m[Address[b]] = 204
  BY DEF X64Opcode
<1>. QED  BY <1>1, <1>3, <1>4

(* A breakpoint that is watched after a step was watched before it. *)
LEMMA WatchedBefore ==
  ASSUME IInv, [Next]_vars, stray \subseteq stray', NEW b \in Bkpt, Watched(b)'
  PROVE  Watched(b)
<1>1. CASE UNCHANGED vars
  <2>1. UNCHANGED <<original, op, unread, refusals>>
    BY <1>1 DEF vars
  <2>2. \A c \in Bkpt : Claimed(c)' = Claimed(c)
    BY <2>1 DEF Claimed, InCall
  <2>. QED  BY <2>1, <2>2 DEF Watched, Isolated
<1>2. CASE Next
  <2>1. b \notin unread
    BY <1>2, UnreadGrows DEF Watched
  <2>2. refusals = 0
    <3>1. refusals' = refusals \/ refusals' = refusals + 1
      BY <1>2, RefusalsStep
    <3>2. refusals \in Nat /\ refusals' = 0
      BY BoundAssumption DEF IInv, TypeOK, Watched
    <3>. QED  BY <3>1, <3>2
  <2>3. \A c \in Bkpt : Claimed(c) \subseteq Claimed(c)'
    BY <1>2, ClaimedGrows DEF IInv
  <2>4. Isolated(b)
    BY <2>3 DEF Watched, Isolated
  <2>. QED  BY <2>1, <2>2, <2>4 DEF Watched
<1>. QED  BY <1>1, <1>2

(* The vector keeps b while Install does not begin to doubt it. *)
LEMMA KeptSame ==
  ASSUME NEW b \in Bkpt, Kept(b), breakpoints' = breakpoints, Tentative' => Tentative
  PROVE  Kept(b)'
BY DEF Kept

(* What the server does leaves the client's place alone. *)
LEMMA ElsewhereKept ==
  ASSUME NEW b \in Bkpt, breakpoints' = breakpoints,
         at'[Client] = at[Client], op'[Client] = op[Client]
  PROVE  (Kept(b)' <=> Kept(b)) /\ (Undone(b)' <=> Undone(b))
<1>1. Tentative' <=> Tentative
  BY DEF Tentative
<1>. QED  BY <1>1 DEF Kept, Undone

(* What a step of the handler outside Apply and Reset has to keep. *)
LEMMA VectorArmedOK ==
  ASSUME NEW b \in Bkpt, ArmedOK(b), UNCHANGED <<mem, original, op>>,
         Kept(b) /\ ~ Undone(b) => Kept(b)' /\ ~ Undone(b)'
  PROVE  ArmedOK(b)'
<1>1. Under(mem, b)' = Under(mem, b)
  BY DEF Under, Fetch
<1>. QED  BY <1>1 DEF ArmedOK, InCall

(* The moves of the client in the vector. *)
LEMMA ClientArmedOK ==
  ASSUME HandlerTypeOK, InCallOK, VectorOK, ~ crashed, NEW b \in Bkpt, ArmedOK(b),
         \/ \E c \in Bkpt : \/ \E immActive \in BOOLEAN : InstallBreakpoint(c, immActive)
                            \/ EnableBreakpoint(c) \/ DisableBreakpoint(c) \/ UninstallBreakpoint(c)
         \/ InstallReturns \/ UninstallStops \/ UninstallErases \/ UninstallGoesOn
         \/ UninstallRunsOff
  PROVE  ArmedOK(b)'
<1>0. /\ Client \in Thread /\ at \in [Thread -> Places] /\ at[Client] \in Places
      /\ breakpoints \in Seq(Bkpt) /\ Len(breakpoints) \in Nat
      /\ DOMAIN breakpoints = 1 .. Len(breakpoints)
  BY ThreadAssumption DEF HandlerTypeOK
<1>1. UNCHANGED <<mem, original, op>>
  BY DEF InstallBreakpoint, EnableBreakpoint, DisableBreakpoint, EnterMethod, UninstallBreakpoint,
         InstallReturns, UninstallStops, UninstallErases, UninstallGoesOn, UninstallRunsOff, vars
<1>2. SUFFICES ASSUME Kept(b), ~ Undone(b)
               PROVE  Kept(b)' /\ ~ Undone(b)'
  BY <1>1, VectorArmedOK
<1>3. PICK i \in DOMAIN breakpoints : breakpoints[i] = b /\ (Tentative => i < Len(breakpoints))
  BY <1>2 DEF Kept
<1>4. ASSUME NEW c \in Bkpt, NEW immActive \in BOOLEAN, InstallBreakpoint(c, immActive)
      PROVE  Kept(b)' /\ ~ Undone(b)'
  <2>1. breakpoints' = Append(breakpoints, c)
    BY <1>4 DEF InstallBreakpoint, Modify
  <2>2. i \in DOMAIN breakpoints' /\ breakpoints'[i] = b /\ i < Len(breakpoints')
    BY <1>0, <1>3, <2>1
  <2>3. at'[Client].fn # "Uninstall"
    BY <1>0, <1>4 DEF InstallBreakpoint, Outside, Inside
  <2>. QED  BY <2>2, <2>3 DEF Kept, Undone
<1>5. ASSUME NEW c \in Bkpt, EnableBreakpoint(c) \/ DisableBreakpoint(c)
      PROVE  Kept(b)' /\ ~ Undone(b)'
  <2>1. at'[Client].fn \in {"Enable", "Disable"} /\ breakpoints' = breakpoints
    BY <1>0, <1>5 DEF EnableBreakpoint, DisableBreakpoint, EnterMethod, Inside
  <2>. QED  BY <1>2, <2>1, KeptSame DEF Tentative, Undone
<1>6. ASSUME NEW c, NEW k, Scan(c, k), breakpoints' = breakpoints
      PROVE  Kept(b)' /\ ~ Undone(b)'
  <2>1. \/ at'[Client].fn = "none"
        \/ at'[Client].fn = "Uninstall" /\ at'[Client].pc = "call"
    BY <1>0, <1>6 DEF Scan, Outside, Inside
  <2>. QED  BY <1>2, <1>6, <2>1, KeptSame DEF Tentative, Undone
<1>7. CASE InstallReturns
  <2>1. at'[Client].fn = "none"
    BY <1>0, <1>7 DEF InstallReturns, Outside
  <2>2. CASE at[Client].pc = "true"
    <3>1. breakpoints' = breakpoints
      BY <1>7, <2>2 DEF InstallReturns
    <3>. QED  BY <1>2, <2>1, <3>1, KeptSame DEF Tentative, Undone
  <2>3. CASE at[Client].pc = "false"
    <3>1. breakpoints' = Front(breakpoints) /\ i < Len(breakpoints)
      BY <1>3, <1>7, <2>3 DEF InstallReturns, Modify, Tentative
    <3>2. i \in DOMAIN breakpoints' /\ breakpoints'[i] = b
      BY <1>0, <1>3, <3>1 DEF Front
    <3>. QED  BY <2>1, <3>2 DEF Kept, Tentative, Undone
  <2>. QED  BY <1>7, <2>2, <2>3 DEF InstallReturns
<1>8. CASE UninstallStops
  <2>1. at'[Client].fn = "none" /\ breakpoints' = breakpoints
    BY <1>0, <1>8 DEF UninstallStops, Outside
  <2>. QED  BY <1>2, <2>1, KeptSame DEF Tentative, Undone
<1>9. CASE UninstallErases
  <2>1. at[Client] \in [fn : Calling, pc : Pcs, bp : Bkpt, it : Nat]
    BY <1>0, <1>9, CallingPlace DEF UninstallErases, Calling
  <2>2. PICK j : j = at[Client].it
    OBVIOUS
  <2>3. /\ j \in DOMAIN breakpoints /\ breakpoints[j] = at[Client].bp /\ j < Len(breakpoints)
        /\ breakpoints' = RemoveAt(breakpoints, j) /\ at[Client].bp # b
    BY <1>2, <1>9, <2>2 DEF UninstallErases, VectorOK, Modify, Undone
  <2>4. \E k \in DOMAIN breakpoints' : breakpoints'[k] = b
    BY <1>0, <1>3, <2>3, RemoveAtKeeps
  <2>5. at'[Client].fn = "Uninstall" /\ at'[Client].bp # b
    BY <1>0, <1>9, <2>1, <2>3 DEF UninstallErases
  <2>. QED  BY <2>4, <2>5 DEF Kept, Tentative, Undone
<1>10. CASE UninstallRunsOff
  <2>1. /\ at'[Client] = at[Client] /\ at[Client].fn = "Uninstall" /\ at[Client].bp # b
        /\ breakpoints[Len(breakpoints)] = at[Client].bp /\ breakpoints' = Front(breakpoints)
    BY <1>2, <1>10 DEF UninstallRunsOff, VectorOK, Undone, Modify
  <2>2. i \in DOMAIN breakpoints' /\ breakpoints'[i] = b
    BY <1>0, <1>3, <2>1 DEF Front
  <2>. QED  BY <2>1, <2>2 DEF Kept, Tentative, Undone
<1>. QED  BY <1>4, <1>5, <1>6, <1>7, <1>8, <1>9, <1>10 DEF UninstallBreakpoint, UninstallGoesOn

(* The servers' lookups, and returns from Enable and Disable. *)
LEMMA LookupArmedOK ==
  ASSUME HandlerTypeOK, NEW b \in Bkpt, ArmedOK(b),
         \/ \E s \in Server : \/ LookupBegins(s) \/ (\E a \in Addr : LookupEnds(s, a))
                              \/ LookupFaults(s)
         \/ \E t \in Thread : EnableOrDisableReturns(t)
  PROVE  ArmedOK(b)'
<1>0. Client \in Thread /\ Client \notin Server
  BY ThreadAssumption
<1>1. UNCHANGED <<mem, original, op, breakpoints>>
  BY DEF LookupBegins, LookupEnds, LookupFaults, EnableOrDisableReturns, vars
<1>2. \/ at'[Client] = at[Client]
      \/ at[Client].fn \in {"Enable", "Disable"} /\ at'[Client].fn = "none"
  <2>1. ASSUME NEW s \in Server,
               LookupBegins(s) \/ (\E a \in Addr : LookupEnds(s, a)) \/ LookupFaults(s)
        PROVE  at'[Client] = at[Client]
    BY <1>0, <2>1 DEF LookupBegins, LookupEnds, LookupFaults, HandlerTypeOK
  <2>2. ASSUME NEW t \in Thread, EnableOrDisableReturns(t)
        PROVE  \/ at'[Client] = at[Client]
               \/ at[Client].fn \in {"Enable", "Disable"} /\ at'[Client].fn = "none"
    BY <1>0, <2>2 DEF EnableOrDisableReturns, HandlerTypeOK, Outside
  <2>. QED  BY <2>1, <2>2
<1>3. CASE at'[Client] = at[Client]
  <2>1. (Kept(b)' <=> Kept(b)) /\ (Undone(b)' <=> Undone(b))
    BY <1>1, <1>3, ElsewhereKept
  <2>. QED  BY <1>1, <2>1, VectorArmedOK
<1>4. CASE at[Client].fn \in {"Enable", "Disable"} /\ at'[Client].fn = "none"
  <2>1. ~ Tentative' /\ ~ Undone(b)'
    BY <1>4 DEF Tentative, Undone
  <2>. QED  BY <1>1, <2>1, KeptSame, VectorArmedOK
<1>. QED  BY <1>2, <1>3, <1>4

(* A call of Apply or Reset begins. *)
LEMMA EnterArmedOK ==
  ASSUME HandlerTypeOK, TypeOK, InCallOK, NEW b \in Bkpt, ArmedOK(b),
         NEW t \in Thread, CallApply(t) \/ CallReset(t)
  PROVE  ArmedOK(b)'
<1>0. Client \in Thread
  BY ThreadAssumption
<1>1. /\ at[t] \in [fn : Calling, pc : Pcs, bp : Bkpt, it : Nat] /\ at[t].pc = "call"
      /\ at' = [at EXCEPT ![t].pc = "in"] /\ UNCHANGED <<mem, original, breakpoints>>
  BY CallingPlace DEF CallApply, CallReset, Calling, ApplyX64, ApplyARMv7, ApplyTHUMBv7, ResetX64,
                      ResetARMv7, EnterApply, EnterReset
<1>2. Under(mem, b)' = Under(mem, b)
  BY <1>1 DEF Under, Fetch
<1>3. PICK call, pc, size :
        /\ Enter(t, at[t].bp, call, pc, size)
        /\ \/ call = "Apply" /\ pc = "read"
           \/ call = "Reset" /\ pc = "protect" /\ size = Len(original[at[t].bp])
  BY DEF CallApply, CallReset, ApplyX64, ApplyARMv7, ApplyTHUMBv7, ResetX64, ResetARMv7,
         EnterApply, EnterReset
<1>4. op'[t] = [pc |-> pc, call |-> call, bp |-> at[t].bp, size |-> size]
  BY <1>3 DEF Enter, TypeOK
<1>5. CASE t # Client
  <2>1. op'[Client] = op[Client] /\ at'[Client] = at[Client]
    BY <1>0, <1>1, <1>3, <1>5 DEF Enter, TypeOK, HandlerTypeOK
  <2>2. (Kept(b)' <=> Kept(b)) /\ (Undone(b)' <=> Undone(b))
    BY <1>1, <2>1, ElsewhereKept
  <2>. QED  BY <1>1, <1>2, <2>1, <2>2 DEF ArmedOK, InCall
<1>6. CASE t = Client
  <2>1. /\ at'[Client].fn = at[Client].fn /\ at'[Client].pc = "in" /\ at'[Client].bp = at[Client].bp
        /\ op'[Client].pc = pc /\ op'[Client].call = call /\ op'[Client].bp = at[Client].bp
        /\ op'[Client].size = size
    BY <1>1, <1>4, <1>6 DEF HandlerTypeOK
  <2>2. Tentative' => Tentative
    BY <1>1, <1>6, <2>1 DEF Tentative
  <2>3. ~ Undone(b)'
    BY <1>3, <2>1 DEF Undone
  <2>4. Kept(b) => Kept(b)'
    BY <1>1, <2>2, KeptSame
  <2>5. op'[Client].call = "Reset" /\ InCall(Client, b)' => op'[Client].size = Len(original'[b])
    BY <1>1, <1>3, <1>6, <2>1 DEF InCall
  <2>6. ~ (op'[Client].call = "Apply" /\ op'[Client].pc \in {"protect", "write", "reprotect"})
    BY <1>3, <2>1
  <2>. QED  BY <1>1, <1>2, <2>3, <2>4, <2>5, <2>6 DEF ArmedOK
<1>. QED  BY <1>5, <1>6

(* A call on another breakpoint goes on. *)
LEMMA OtherArmedOK ==
  ASSUME HandlerTypeOK, IInv, InCallOK, VectorOK, ~ crashed,
         NEW b \in Bkpt, Isolated(b), ArmedOK(b), NEW t \in Thread, InCallStep(t), op[t].bp # b
  PROVE  ArmedOK(b)'
<1>0. Client \in Thread /\ TypeOK
  BY ThreadAssumption DEF IInv
<1>1. /\ at[t] \in [fn : Calling, pc : Pcs, bp : Bkpt, it : Nat] /\ at[t].pc = "in"
      /\ op[t].pc # "idle" /\ op[t].bp = at[t].bp /\ Continue(t)
      /\ \A u \in Thread : u # t => op'[u] = op[u] /\ at'[u] = at[u]
      /\ \/ op'[t] = [op[t] EXCEPT !.pc = op'[t].pc] /\ op'[t].pc # "idle" /\ at' = at
         \/ /\ op'[t] = Idle
            /\ at'[t] = [at[t] EXCEPT !.pc = Result(at[t].bp)]
      /\ UNCHANGED <<breakpoints, crashed>>
  BY <1>0, GoesOnFacts
<1>2. /\ original'[b] = original[b] /\ Under(mem', b) = Under(mem, b)
      /\ op'[Client] = op[Client] \/ (~ InCall(Client, b) /\ ~ InCall(Client, b)')
  BY <1>0, <1>1, ContinueElsewhere DEF Elsewhere
<1>3. mem'[Address[b]] = mem[Address[b]]
  BY <1>2, MemElsewhere
<1>4. /\ op'[Client].call = "Apply" /\ op'[Client].bp = b
         /\ op'[Client].pc \in {"protect", "write", "reprotect"} => original'[b] # << >>
      /\ op'[Client].call = "Reset" /\ InCall(Client, b)' => op'[Client].size = Len(original'[b])
  BY <1>2 DEF ArmedOK, InCall
<1>5. CASE t # Client
  <2>1. (Kept(b)' <=> Kept(b)) /\ (Undone(b)' <=> Undone(b))
    BY <1>0, <1>1, <1>5, ElsewhereKept
  <2>. QED  BY <1>2, <1>3, <1>4, <2>1 DEF ArmedOK, Under, Fetch
<1>6. CASE t = Client
  <2>1. at[Client].bp # b /\ at'[Client].bp # b /\ at'[Client].fn = at[Client].fn
    BY <1>1, <1>6
  <2>2. ~ Undone(b)'
    BY <2>1 DEF Undone
  <2>3. ASSUME Kept(b)
        PROVE  Kept(b)'
    <3>1. PICK i \in DOMAIN breakpoints : breakpoints[i] = b
      BY <2>3 DEF Kept
    <3>2. at[Client].fn = "Install" => i < Len(breakpoints)
      BY <2>1, <3>1 DEF VectorOK, HandlerTypeOK
    <3>. QED  BY <1>1, <2>1, <3>1, <3>2 DEF Kept, Tentative
  <2>. QED  BY <1>2, <1>3, <1>4, <2>2, <2>3 DEF ArmedOK, Under, Fetch
<1>. QED  BY <1>5, <1>6

(* Where a step of the client's or a server's call on b itself starts from. *)
LEMMA OwnPlace ==
  ASSUME HandlerTypeOK, IInv, InCallOK, NEW b \in Bkpt, Kind[b] = "x86_64",
         NEW t \in Thread, InCallStep(t), op[t].bp = b
  PROVE  /\ Client \in Thread /\ at[t].fn \in Calling /\ at[t].pc = "in" /\ at[t].bp = b
         /\ op[t] \in [pc : Steps, call : Calls, bp : Bkpt, size : Nat] /\ InCall(t, b)
         /\ op[t].call = "Apply" => t = Client /\ at[t].fn \in Applying
         /\ op[t].call = "Reset" => at[t].fn \notin Applying
         /\ original[b] \in Seq(Byte) /\ mem \in [Addr -> Byte] /\ Address[b] \in Addr
         /\ Under(mem, b) = Opcode(b) <=> mem[Address[b]] = 204
         /\ UNCHANGED breakpoints
<1>0. Client \in Thread /\ Thread = Server \cup {Client} /\ TypeOK
  BY ThreadAssumption DEF IInv
<1>1. /\ at[t].fn \in Calling /\ at[t].pc = "in" /\ op[t].pc # "idle" /\ at[t].bp = b
      /\ UNCHANGED breakpoints
  BY <1>0, GoesOnFacts
<1>2. /\ op[t] \in [pc : Steps, call : Calls, bp : Bkpt, size : Nat]
      /\ original[b] \in Seq(Byte) /\ mem \in [Addr -> Byte]
  BY <1>0 DEF TypeOK
<1>3. op[t].call = "Apply" <=> at[t].fn \in Applying
  BY <1>1 DEF InCallOK
<1>4. at[t].fn \in Applying => t = Client
  BY <1>0 DEF InCallOK, Applying
<1>5. Address[b] \in Addr /\ (Under(mem, b) = Opcode(b) <=> mem[Address[b]] = 204)
  BY <1>2, X64Under
<1>. QED  BY <1>0, <1>1, <1>2, <1>3, <1>4, <1>5 DEF InCall, Calls

(* What such a step knows of a watched breakpoint. *)
LEMMA OwnFacts ==
  ASSUME HandlerTypeOK, IInv, InCallOK, NEW b \in Bkpt, Watched(b), ArmedOK(b),
         NEW t \in Thread, InCallStep(t), op[t].bp = b
  PROVE  /\ Client \in Thread /\ at[t].fn \in Calling /\ at[t].pc = "in" /\ at[t].bp = b
         /\ op[t] \in [pc : Steps, call : Calls, bp : Bkpt, size : Nat] /\ InCall(t, b)
         /\ op[t].call = "Apply" => t = Client /\ at[t].fn \in Applying
         /\ op[t].call = "Reset" => at[t].fn \notin Applying
         /\ original[b] \in Seq(Byte) /\ mem \in [Addr -> Byte] /\ Kind[b] = "x86_64"
         /\ Address[b] \in Addr /\ InitMem[Address[b]] # 204 /\ 204 \notin StaleByte
         /\ Under(mem, b) = Opcode(b) <=> mem[Address[b]] = 204
         /\ UNCHANGED breakpoints
<1>1. Kind[b] = "x86_64"
  BY DEF Watched
<1>2. InitMem[Address[b]] # 204 /\ 204 \notin StaleByte
  BY <1>1, X64Under, InitMemAssumption DEF Watched
<1>. QED  BY <1>1, <1>2, OwnPlace

(* Apply saves the byte it has read behind the earlier ones; the client    *)
(* alone does so, so no push_back races with another.                      *)
LEMMA SaveAppends ==
  ASSUME HandlerTypeOK, IInv, InCallOK, NEW b \in Bkpt, Kind[b] = "x86_64", b \notin unread',
         NEW t \in Thread, InCallStep(t), op[t].bp = b, SaveOriginalX64(t) \/ SaveOriginalARMv7(t)
  PROVE  /\ t = Client /\ op[t].pc = "read" /\ op[t].call = "Apply"
         /\ original' = [original EXCEPT ![b] = Append(original[b], mem[Address[b]])]
         /\ op' = [op EXCEPT ![t].pc = "protect"] /\ UNCHANGED mem
<1>1. /\ Client \in Thread /\ at[t].fn \in Calling /\ at[t].pc = "in" /\ at[t].bp = b
      /\ op[t] \in [pc : Steps, call : Calls, bp : Bkpt, size : Nat] /\ InCall(t, b)
      /\ op[t].call = "Apply" => t = Client /\ at[t].fn \in Applying
      /\ mem \in [Addr -> Byte]
  BY OwnPlace
<1>2. SaveOriginalX64(t) /\ op[t].pc = "read" /\ op[t].call = "Apply"
  <2>1. SaveOriginalX64(t) /\ op[t].pc = "read"
    BY <1>1 DEF SaveOriginalX64, SaveOriginalARMv7
  <2>2. op[t].call = "Apply"
    BY <1>1, <2>1 DEF IInv, SizesOK, Calls
  <2>. QED  BY <2>1, <2>2
<1>3. t = Client /\ at[Client].fn \in Applying
  BY <1>1, <1>2
<1>4. PICK bytes \in ReadMemory(b) : \E saved \in Pushed(t, b, bytes[1]) : Save(t, b, saved)
  BY <1>2 DEF SaveOriginalX64
<1>5. PICK saved \in Pushed(t, b, bytes[1]) : Save(t, b, saved)
  BY <1>4
<1>6. \A u \in Thread \ {t} : ~ (InCall(u, b) /\ op[u].pc = "read")
  <2>1. ASSUME NEW u \in Thread \ {t}, InCall(u, b), op[u].pc = "read"
        PROVE  FALSE
    <3>1. op[u].call = "Apply"
      BY <2>1 DEF IInv, TypeOK, SizesOK, Calls
    <3>2. u \in Server /\ at[u].fn \in Applying
      BY <1>3, <2>1, <3>1, ThreadAssumption DEF InCallOK, InCall
    <3>. QED  BY <3>2 DEF InCallOK, Applying
  <2>. QED  BY <2>1
<1>7. saved = Append(original[b], bytes[1])
  BY <1>5, <1>6 DEF Pushed
<1>8. bytes[1] = mem[Address[b]]
  <2>1. Readable(prot, Pages(Address[b], Width(b)))
    BY <1>5 DEF Save
  <2>2. bytes = Under(mem, b)
    BY <1>4, <2>1 DEF ReadMemory, Under
  <2>. QED  BY <1>1, <2>2, X64Under
<1>. QED  BY <1>2, <1>3, <1>5, <1>7, <1>8 DEF Save

(* A byte that is pushed is the first, or goes behind the first. *)
LEMMA AppendKeepsFirst ==
  ASSUME NEW seq \in Seq(Byte), NEW x \in Byte
  PROVE  /\ Append(seq, x) # << >>
         /\ seq = << >> => Append(seq, x)[1] = x
         /\ seq # << >> => Append(seq, x)[1] = seq[1]
<1>1. CASE seq = << >>
  BY <1>1
<1>2. CASE seq # << >>
  BY <1>2
<1>. QED  BY <1>1, <1>2

(* Apply saves what it has read; the client alone does so. *)
LEMMA SaveArmedOK ==
  ASSUME HandlerTypeOK, IInv, InCallOK, NEW b \in Bkpt, Watched(b), b \notin unread', ArmedOK(b),
         NEW t \in Thread, InCallStep(t), op[t].bp = b, SaveOriginalX64(t) \/ SaveOriginalARMv7(t)
  PROVE  ArmedOK(b)'
<1>1. /\ Client \in Thread /\ at[t].fn \in Calling /\ at[t].pc = "in" /\ at[t].bp = b
      /\ op[t] \in [pc : Steps, call : Calls, bp : Bkpt, size : Nat] /\ InCall(t, b)
      /\ op[t].call = "Apply" => t = Client /\ at[t].fn \in Applying
      /\ original[b] \in Seq(Byte) /\ mem \in [Addr -> Byte] /\ Kind[b] = "x86_64"
      /\ Address[b] \in Addr /\ UNCHANGED breakpoints
  BY OwnFacts
<1>2. /\ t = Client /\ op[t].pc = "read" /\ op[t].call = "Apply"
      /\ original' = [original EXCEPT ![b] = Append(original[b], mem[Address[b]])]
      /\ op' = [op EXCEPT ![t].pc = "protect"] /\ UNCHANGED mem
  BY <1>1, SaveAppends
<1>3. at[Client].fn \in Applying
  BY <1>1, <1>2
<1>4. /\ original'[b] = Append(original[b], mem[Address[b]])
      /\ op'[Client] = [op[Client] EXCEPT !.pc = "protect"] /\ UNCHANGED mem
  BY <1>1, <1>2 DEF IInv, TypeOK
<1>5. op'[Client].pc = "protect" /\ op'[Client].call = "Apply" /\ at' = at
  <2>1. op'[Client].pc = "protect" /\ op'[Client].call = "Apply"
    BY <1>1, <1>2, <1>4
  <2>. QED  BY <1>2, <2>1 DEF InCallStep
<1>6. original'[b] # << >> /\ original'[b][1] = InitMem[Address[b]]
  BY <1>1, <1>4, AppendKeepsFirst DEF ArmedOK
<1>7. Kept(b) => Kept(b)'
  <2>1. Tentative' => Tentative
    BY <1>1, <1>2, <1>3, <1>5 DEF Tentative
  <2>. QED  BY <1>1, <2>1, KeptSame
<1>8. ~ Undone(b)' /\ Under(mem, b)' = Under(mem, b)
  BY <1>3, <1>4, <1>5 DEF Undone, Applying, Under, Fetch
<1>. QED  BY <1>4, <1>5, <1>6, <1>7, <1>8 DEF ArmedOK, InCall

(* The vm_protect before the write. *)
LEMMA ProtectArmedOK ==
  ASSUME HandlerTypeOK, IInv, InCallOK, NEW b \in Bkpt, Watched(b), ArmedOK(b),
         NEW t \in Thread, InCallStep(t), op[t].bp = b, VmProtectForWrite(t)
  PROVE  ArmedOK(b)'
<1>1. /\ Client \in Thread /\ at[t].pc = "in" /\ InCall(t, b)
      /\ op[t] \in [pc : Steps, call : Calls, bp : Bkpt, size : Nat]
      /\ UNCHANGED breakpoints
  BY OwnFacts
<1>2. op[t].pc = "protect" /\ UNCHANGED <<mem, original>> /\ op' = [op EXCEPT ![t].pc = "write"]
  BY DEF VmProtectForWrite
<1>3. op'[t] = [op[t] EXCEPT !.pc = "write"] /\ (t # Client => op'[Client] = op[Client])
  BY <1>1, <1>2 DEF IInv, TypeOK
<1>4. op'[t].pc = "write" /\ op'[t].call = op[t].call /\ op'[t].bp = b /\ op'[t].size = op[t].size
  BY <1>1, <1>3 DEF InCall
<1>5. at' = at
  BY <1>4 DEF InCallStep
<1>6. (Kept(b)' <=> Kept(b)) /\ (Undone(b)' <=> Undone(b))
  <2>1. CASE t # Client
    BY <1>1, <1>3, <1>5, <2>1, ElsewhereKept
  <2>2. CASE t = Client
    <3>1. (Tentative' <=> Tentative) /\ (Undone(b)' <=> Undone(b))
      BY <1>1, <1>2, <1>4, <1>5, <2>2 DEF Tentative, Undone
    <3>. QED  BY <1>1, <3>1 DEF Kept
  <2>. QED  BY <2>1, <2>2
<1>7. /\ op'[Client].call = "Apply" /\ op'[Client].bp = b
         /\ op'[Client].pc \in {"protect", "write", "reprotect"} => original[b] # << >>
      /\ op'[Client].call = "Reset" /\ InCall(Client, b)' => op'[Client].size = Len(original[b])
  <2>1. CASE t # Client
    BY <1>3, <2>1 DEF ArmedOK, InCall
  <2>2. CASE t = Client
    BY <1>1, <1>2, <1>4, <2>2 DEF ArmedOK, InCall
  <2>. QED  BY <2>1, <2>2
<1>8. Under(mem, b)' = Under(mem, b)
  BY <1>2 DEF Under, Fetch
<1>. QED  BY <1>2, <1>6, <1>7, <1>8 DEF ArmedOK

(* What vm_write leaves in the byte under b. *)
LEMMA WrittenByte ==
  ASSUME HandlerTypeOK, IInv, InCallOK, NEW b \in Bkpt, Watched(b), ArmedOK(b),
         NEW t \in Thread, InCallStep(t), op[t].bp = b, VmWrite(t), op[t].call = "Reset"
  PROVE  /\ mem' \in [Addr -> Byte] /\ (mem'[Address[b]] = 204 => mem[Address[b]] = 204)
         /\ op[t].size = 0 => mem'[Address[b]] = mem[Address[b]]
         /\ op[t].size # 0 => mem'[Address[b]] # 204
<1>1. /\ InCall(t, b) /\ op[t] \in [pc : Steps, call : Calls, bp : Bkpt, size : Nat]
      /\ original[b] \in Seq(Byte) /\ mem \in [Addr -> Byte]
      /\ Address[b] \in Addr /\ InitMem[Address[b]] # 204 /\ 204 \notin StaleByte
  BY OwnFacts
<1>2. PICK n \in Nat : n = op[t].size
  BY <1>1
<1>3. n <= Len(original[b]) /\ TypeOK
  BY <1>1, <1>2 DEF IInv, SizesOK, InCall
<1>4. PICK bytes \in Input(t) : mem' = Patch(mem, Address[b], bytes)
  BY DEF VmWrite
<1>5. bytes \in Seq(Byte) /\ Len(bytes) = n
  BY <1>1, <1>2, <1>3, <1>4, InputType DEF InCall
<1>6. mem' \in [Addr -> Byte] /\ \A x \in Addr \ Span(Address[b], n) : mem'[x] = mem[x]
  BY <1>1, <1>4, <1>5, PatchType
<1>7. CASE n = 0
  <2>1. Address[b] \notin Span(Address[b], n)
    BY <1>1, <1>7, LastAddrAssumption DEF Span, Addr
  <2>. QED  BY <1>1, <1>2, <1>6, <1>7, <2>1
<1>8. CASE n # 0
  <2>1. mem'[Address[b]] = bytes[1]
    <3>1. Address[b] \in Span(Address[b], n) /\ Address[b] - Address[b] + 1 = 1
      BY <1>1, <1>2, <1>8, LastAddrAssumption DEF Span, Addr
    <3>. QED  BY <1>1, <1>4, <1>5, <3>1 DEF Patch
  <2>2. \/ bytes = SubSeq(original[b], 1, n)
        \/ bytes \in [1 .. n -> StaleByte]
    BY <1>2, <1>4 DEF Input
  <2>3. CASE bytes = SubSeq(original[b], 1, n)
    <3>1. original[b] # << >> /\ 1 <= n /\ n <= Len(original[b])
      BY <1>1, <1>2, <1>3, <1>8
    <3>2. bytes[1] = original[b][1]
      BY <1>1, <1>2, <2>3, <3>1
    <3>. QED  BY <1>1, <1>2, <1>6, <1>8, <2>1, <3>1, <3>2 DEF ArmedOK
  <2>4. CASE bytes \in [1 .. n -> StaleByte]
    <3>1. bytes[1] \in StaleByte
      BY <1>2, <1>8, <2>4
    <3>. QED  BY <1>1, <1>2, <1>6, <1>8, <2>1, <3>1
  <2>. QED  BY <2>2, <2>3, <2>4
<1>. QED  BY <1>7, <1>8

(* The write: Apply arms what the vector holds, Reset never arms. *)
LEMMA WriteArmedOK ==
  ASSUME HandlerTypeOK, IInv, InCallOK, VectorOK, ~ crashed,
         NEW b \in Bkpt, Watched(b), ArmedOK(b),
         NEW t \in Thread, InCallStep(t), op[t].bp = b, VmWrite(t)
  PROVE  ArmedOK(b)'
<1>1. /\ Client \in Thread /\ at[t].fn \in Calling /\ at[t].pc = "in" /\ at[t].bp = b /\ InCall(t, b)
      /\ op[t] \in [pc : Steps, call : Calls, bp : Bkpt, size : Nat]
      /\ op[t].call = "Apply" => t = Client /\ at[t].fn \in Applying
      /\ op[t].call = "Reset" => at[t].fn \notin Applying
      /\ original[b] \in Seq(Byte) /\ mem \in [Addr -> Byte] /\ Kind[b] = "x86_64"
      /\ Address[b] \in Addr /\ InitMem[Address[b]] # 204
      /\ UNCHANGED breakpoints
  BY OwnFacts
<1>2. op[t].pc = "write" /\ UNCHANGED original /\ op' = [op EXCEPT ![t].pc = "reprotect"]
  BY DEF VmWrite
<1>3. op'[t] = [op[t] EXCEPT !.pc = "reprotect"] /\ (t # Client => op'[Client] = op[Client])
  BY <1>1, <1>2 DEF IInv, TypeOK
<1>4. op'[t].pc = "reprotect" /\ op'[t].call = op[t].call /\ op'[t].bp = b /\ op'[t].size = op[t].size
  BY <1>1, <1>3 DEF InCall
<1>5. at' = at
  BY <1>4 DEF InCallStep
<1>6. mem' \in [Addr -> Byte] /\ (Under(mem', b) = Opcode(b) <=> mem'[Address[b]] = 204)
  <2>1. mem' \in [Addr -> Byte]
    <3>1. TypeOK'
      BY <1>1, IInvStep DEF IInv, Next, InCallStep
    <3>. QED  BY <3>1 DEF TypeOK
  <2>. QED  BY <1>1, <2>1, X64Under
<1>7. /\ op'[Client].call = "Apply" /\ op'[Client].bp = b
         /\ op'[Client].pc \in {"protect", "write", "reprotect"} => original[b] # << >>
      /\ op'[Client].call = "Reset" /\ InCall(Client, b)' => op'[Client].size = Len(original[b])
  <2>1. CASE t # Client
    BY <1>3, <2>1 DEF ArmedOK, InCall
  <2>2. CASE t = Client
    BY <1>1, <1>2, <1>4, <2>2 DEF ArmedOK, InCall
  <2>. QED  BY <2>1, <2>2
<1>8. CASE op[t].call = "Apply"
  <2>1. t = Client /\ at'[Client].fn \in Applying /\ op'[Client].pc = "reprotect" /\ at'[Client].pc = "in"
    BY <1>1, <1>4, <1>5, <1>8
  <2>2. ~ Tentative' /\ ~ Undone(b)'
    BY <2>1 DEF Tentative, Undone, Applying
  <2>3. Registered(b)
    BY <1>1, <1>8 DEF VectorOK, Applying, Registered, Range, HandlerTypeOK, Watched
  <2>4. Kept(b)'
    BY <1>1, <2>2, <2>3 DEF Kept, Registered, Range
  <2>5. original'[b] # << >>
    BY <1>1, <1>2, <1>8 DEF ArmedOK, InCall
  <2>. QED  BY <1>2, <1>7, <2>2, <2>4, <2>5 DEF ArmedOK
<1>9. CASE op[t].call = "Reset"
  <2>1. /\ mem'[Address[b]] = 204 => mem[Address[b]] = 204
        /\ op[t].size = 0 => mem'[Address[b]] = mem[Address[b]]
        /\ op[t].size # 0 => mem'[Address[b]] # 204
    BY <1>9, WrittenByte
  <2>2. original'[b] = << >> => mem'[Address[b]] = InitMem[Address[b]]
    <3>1. original[b] = << >> => op[t].size = 0
      BY <1>1, <1>9 DEF IInv, SizesOK, InCall
    <3>. QED  BY <1>2, <2>1, <3>1 DEF ArmedOK
  <2>3. Under(mem', b) = Opcode(b) => Kept(b)
    BY <1>1, <1>6, <2>1, X64Under DEF ArmedOK
  <2>4. Under(mem', b) = Opcode(b) => Kept(b)' /\ ~ Undone(b)'
    <3>1. CASE t # Client
      <4>1. (Kept(b)' <=> Kept(b)) /\ (Undone(b)' <=> Undone(b))
        BY <1>1, <1>3, <1>5, <3>1, ElsewhereKept
      <4>. QED  BY <1>1, <1>6, <2>1, <4>1, X64Under DEF ArmedOK
    <3>2. CASE t = Client
      <4>1. ~ Tentative'
        BY <1>4, <1>5, <1>1, <1>9, <3>2 DEF Tentative, Applying
      <4>2. op[Client].size = 0 => original[b] = << >>
        BY <1>1, <1>9, <3>2 DEF ArmedOK
      <4>3. mem'[Address[b]] # 204
        BY <1>1, <2>1, <2>2, <1>2, <3>2, <4>2
      <4>. QED  BY <1>6, <4>3
    <3>. QED  BY <3>1, <3>2
  <2>. QED  BY <1>2, <1>7, <2>2, <2>4 DEF ArmedOK
<1>. QED  BY <1>1, <1>8, <1>9 DEF Calls

(* The call on b returns. *)
LEMMA ReturnArmedOK ==
  ASSUME HandlerTypeOK, IInv, Mapped, InCallOK, NEW b \in Bkpt, Watched(b), refusals' = 0, ArmedOK(b),
         NEW t \in Thread, InCallStep(t), op[t].bp = b,
         VmProtectAfterWrite(t) \/ VmCallFails(t) \/ KernelRefuses(t)
  PROVE  ArmedOK(b)'
<1>1. /\ Client \in Thread /\ at[t].fn \in Calling /\ at[t].pc = "in" /\ at[t].bp = b /\ InCall(t, b)
      /\ op[t] \in [pc : Steps, call : Calls, bp : Bkpt, size : Nat]
      /\ UNCHANGED breakpoints
  BY OwnFacts
<1>2. VmProtectAfterWrite(t) \/ VmCallFails(t)
  BY DEF KernelRefuses, Watched
<1>3. /\ op' = [op EXCEPT ![t] = Idle] /\ UNCHANGED <<mem, original>>
      /\ \/ op[t].pc = "reprotect" /\ done'[b] \in {"applied", "reset"}
         \/ op[t].pc # "reprotect" /\ done'[b] \notin {"applied", "reset"}
  <2>1. CASE VmProtectAfterWrite(t)
    <3>1. done'[b] = Outcome(op[t].call, TRUE) /\ op[t].pc = "reprotect"
      BY <2>1 DEF VmProtectAfterWrite, Return, IInv, TypeOK
    <3>2. Outcome(op[t].call, TRUE) \in {"applied", "reset"}
      BY <1>1 DEF Outcome, Calls
    <3>. QED  BY <2>1, <3>1, <3>2 DEF VmProtectAfterWrite, Return
  <2>2. CASE VmCallFails(t)
    <3>1. done'[b] = Outcome(op[t].call, FALSE)
      BY <2>2 DEF VmCallFails, Return, IInv, TypeOK
    <3>2. Outcome(op[t].call, FALSE) \notin {"applied", "reset"}
      BY <1>1 DEF Outcome, Calls
    <3>3. op[t].pc # "reprotect"
      BY <2>2 DEF VmCallFails, Mapped
    <3>. QED  BY <2>2, <3>1, <3>2, <3>3 DEF VmCallFails, Return
  <2>. QED  BY <1>2, <2>1, <2>2
<1>4. op'[t] = Idle /\ (t # Client => op'[Client] = op[Client])
  BY <1>1, <1>3 DEF IInv, TypeOK
<1>5. at' = [at EXCEPT ![t].pc = Result(b)]
  BY <1>1, <1>4 DEF InCallStep, Idle
<1>6. Under(mem, b)' = Under(mem, b)
  BY <1>3 DEF Under, Fetch
<1>7. CASE t # Client
  <2>1. at'[Client] = at[Client]
    BY <1>1, <1>5, <1>7 DEF HandlerTypeOK
  <2>2. (Kept(b)' <=> Kept(b)) /\ (Undone(b)' <=> Undone(b))
    BY <1>1, <1>4, <1>7, <2>1, ElsewhereKept
  <2>. QED  BY <1>3, <1>4, <1>6, <1>7, <2>2 DEF ArmedOK, InCall
<1>8. CASE t = Client
  <2>1. at[Client] \in [fn : Calling, pc : Pcs, bp : Bkpt, it : Nat]
    BY <1>1, <1>8, CallingPlace
  <2>2. at'[Client].fn = at[Client].fn /\ at'[Client].bp = b /\ at'[Client].pc = Result(b)
    BY <1>1, <1>5, <1>8, <2>1 DEF HandlerTypeOK
  <2>3. \/ op[Client].pc = "reprotect" /\ at'[Client].pc = "true"
        \/ op[Client].pc # "reprotect" /\ at'[Client].pc = "false"
    BY <1>3, <1>8, <2>2 DEF Result
  <2>4. (Tentative' => Tentative) /\ (Undone(b)' => Undone(b))
    BY <1>1, <1>8, <2>2, <2>3 DEF Tentative, Undone
  <2>5. Kept(b) => Kept(b)'
    BY <1>1, <2>4, KeptSame
  <2>6. op'[Client].pc = "idle"
    BY <1>4, <1>8 DEF Idle
  <2>. QED  BY <1>3, <1>6, <2>4, <2>5, <2>6 DEF ArmedOK, InCall
<1>. QED  BY <1>7, <1>8

(* Every step of the handler keeps what is known of a watched breakpoint. *)
LEMMA ArmedOKStep ==
  ASSUME HandlerTypeOK, IInv, Mapped, InCallOK, VectorOK, HandlerNext,
         NEW b \in Bkpt, Watched(b), Watched(b)', ArmedOK(b)
  PROVE  ArmedOK(b)'
<1>0. ~ crashed /\ Isolated(b) /\ b \notin unread' /\ refusals' = 0 /\ TypeOK
  BY DEF HandlerNext, Watched, IInv
<1>1. ASSUME NEW t \in Thread, InCallStep(t)
      PROVE  ArmedOK(b)'
  <2>1. CASE op[t].bp # b
    BY <1>0, <1>1, <2>1, OtherArmedOK
  <2>2. CASE op[t].bp = b
    <3>1. CASE SaveOriginalX64(t) \/ SaveOriginalARMv7(t)
      BY <1>0, <1>1, <2>2, <3>1, SaveArmedOK
    <3>2. CASE VmProtectForWrite(t)
      BY <1>1, <2>2, <3>2, ProtectArmedOK
    <3>3. CASE VmWrite(t)
      BY <1>0, <1>1, <2>2, <3>3, WriteArmedOK
    <3>4. CASE VmProtectAfterWrite(t) \/ VmCallFails(t) \/ KernelRefuses(t)
      BY <1>0, <1>1, <2>2, <3>4, ReturnArmedOK
    <3>. QED  BY <1>1, <3>1, <3>2, <3>3, <3>4 DEF InCallStep, Continue
  <2>. QED  BY <2>1, <2>2
<1>. QED  BY <1>0, <1>1, ClientArmedOK, LookupArmedOK, EnterArmedOK DEF HandlerNext

(* The inductive invariant of the registry beside that of Apply and Reset. *)
RegistryInv ==
  /\ HandlerTypeOK /\ MInv /\ InCallOK /\ VectorOK
  /\ \A b \in Bkpt : Watched(b) => ArmedOK(b)

(* No breakpoint is installed and none armed before the first step. *)
LEMMA InitRegistryInv == HandlerInit => RegistryInv
<1>. SUFFICES ASSUME HandlerInit PROVE RegistryInv
  OBVIOUS
<1>1. HandlerTypeOK /\ MInv
  BY InitMInv DEF HandlerInit, HandlerTypeOK, Places
<1>2. \A t \in Thread : op[t].pc = "idle" /\ at[t].fn = "none"
  BY DEF HandlerInit, Init, Idle, Outside
<1>3. InCallOK
  BY <1>2 DEF InCallOK, Calling
<1>4. at[Client].fn = "none" /\ op[Client].pc = "idle" /\ VectorOK
  BY <1>2, ThreadAssumption DEF VectorOK
<1>5. ASSUME NEW b \in Bkpt, Watched(b)
      PROVE  ArmedOK(b)
  <2>1. mem = InitMem /\ original[b] = << >>
    BY DEF HandlerInit, Init
  <2>. QED  BY <1>4, <1>5, <2>1 DEF ArmedOK, Watched, InCall
<1>. QED  BY <1>1, <1>3, <1>4, <1>5 DEF RegistryInv

(* No step breaks the invariant. *)
LEMMA NextRegistryInv == RegistryInv /\ [HandlerNext]_allVars => RegistryInv'
<1>. SUFFICES ASSUME RegistryInv, [HandlerNext]_allVars PROVE RegistryInv'
  OBVIOUS
<1>1. HandlerTypeOK /\ MInv /\ IInv /\ Mapped /\ TypeOK /\ InCallOK /\ VectorOK
  BY DEF RegistryInv, MInv, IInv
<1>2. HandlerTypeOK' /\ [Next]_vars
  BY <1>1, HandlerTypeStep, HandlerStep
<1>3. MInv'
  BY <1>1, <1>2, NextMInv
<1>4. \A b \in Bkpt : Watched(b)' => Watched(b)
  BY <1>1, <1>2, StrayGrows, WatchedBefore
<1>5. CASE HandlerNext
  <2>1. InCallOK' /\ VectorOK'
    BY <1>1, <1>5, InCallOKStep, VectorOKStep
  <2>2. \A b \in Bkpt : Watched(b)' => ArmedOK(b)'
    BY <1>1, <1>4, <1>5, ArmedOKStep DEF RegistryInv
  <2>. QED  BY <1>2, <1>3, <2>1, <2>2 DEF RegistryInv
<1>6. CASE UNCHANGED allVars
  <2>1. UNCHANGED <<mem, original, op, at, breakpoints, crashed, stray>>
    BY <1>6 DEF allVars, vars, handlerVars
  <2>2. InCallOK' /\ VectorOK'
    BY <1>1, <2>1 DEF InCallOK, VectorOK, Registered
  <2>3. ASSUME NEW b \in Bkpt, Watched(b)'
        PROVE  ArmedOK(b)'
    <3>1. ArmedOK(b)
      BY <1>4, <2>3 DEF RegistryInv
    <3>2. (Kept(b)' <=> Kept(b)) /\ (Undone(b)' <=> Undone(b))
      BY <2>1, ElsewhereKept
    <3>. QED  BY <2>1, <3>1, <3>2, VectorArmedOK
  <2>. QED  BY <1>2, <1>3, <2>2, <2>3 DEF RegistryInv
<1>. QED  BY <1>5, <1>6

(* The invariant of the registry holds in every reachable state. *)
LEMMA RegistryInvariant == HandlerSpec => []RegistryInv
BY InitRegistryInv, NextRegistryInv, PTL DEF HandlerSpec

(***************************************************************************)
(* A trap in memory belongs to a breakpoint in the vector, however the     *)
(* client's methods and the servers' Disable interleave, under the         *)
(* conditions of ArmedIsRegistered.  Among them is that the client has not *)
(* enabled the breakpoint outside the vector: nothing in the code keeps it *)
(* from that.                                                              *)
(***************************************************************************)
THEOREM TrapsAreRegistered == HandlerSpec => []ArmedIsRegistered
<1>1. ASSUME RegistryInv, NEW b \in Bkpt, Watched(b), Under(mem, b) = Opcode(b)
      PROVE  Registered(b)
  <2>1. Kept(b)
    BY <1>1 DEF RegistryInv, ArmedOK
  <2>. QED  BY <2>1 DEF Kept, Registered, Range
<1>2. RegistryInv => ArmedIsRegistered
  BY <1>1 DEF ArmedIsRegistered, Watched
<1>. QED  BY <1>2, RegistryInvariant, PTL

(***************************************************************************)
(* A breakpoint leaves the vector only by its own Uninstall or its own     *)
(* failed Install.                                                         *)
(***************************************************************************)
THEOREM OthersStayInstalled == HandlerSpec => OnlyOwnRemoved
<1>1. ASSUME RegistryInv, [HandlerNext]_allVars, NEW b \in Bkpt, Registered(b), ~ Registered(b)'
      PROVE  at[Client].fn \in {"Install", "Uninstall"} /\ at[Client].bp = b
  <2>0. /\ Client \in Thread /\ breakpoints \in Seq(Bkpt) /\ Len(breakpoints) \in Nat
        /\ HandlerTypeOK /\ VectorOK
    BY <1>1, ThreadAssumption DEF RegistryInv, HandlerTypeOK
  <2>1. PICK i \in 1 .. Len(breakpoints) : breakpoints[i] = b
    BY <1>1, <2>0 DEF Registered, Range
  <2>2. ASSUME NEW j \in DOMAIN breakpoints', breakpoints'[j] = b
        PROVE  FALSE
    BY <1>1, <2>2 DEF Registered, Range
  <2>3. breakpoints' # breakpoints
    BY <1>1 DEF Registered
  <2>4. CASE \E c \in Bkpt, immActive \in BOOLEAN : InstallBreakpoint(c, immActive)
    <3>1. PICK c \in Bkpt : breakpoints' = Append(breakpoints, c)
      BY <2>4 DEF InstallBreakpoint, Modify
    <3>2. i \in DOMAIN breakpoints' /\ breakpoints'[i] = b
      BY <2>0, <2>1, <3>1
    <3>. QED  BY <2>2, <3>2
  <2>5. CASE InstallReturns \/ UninstallRunsOff
    <3>1. /\ ~ crashed /\ breakpoints' = Front(breakpoints)
          /\ at[Client].fn \in {"Install", "Uninstall"}
          /\ \/ at[Client].fn = "Install"
             \/ at[Client].pc = "true" /\ at[Client].it = Len(breakpoints)
      BY <1>1, <2>3, <2>5 DEF InstallReturns, UninstallRunsOff, Modify, HandlerNext, allVars, handlerVars
    <3>2. breakpoints[Len(breakpoints)] = at[Client].bp
      BY <2>0, <3>1 DEF VectorOK
    <3>3. i = Len(breakpoints)
      <4>1. i < Len(breakpoints) => i \in DOMAIN breakpoints' /\ breakpoints'[i] = b
        BY <2>0, <2>1, <3>1 DEF Front
      <4>. QED  BY <2>0, <2>1, <2>2, <4>1
    <3>. QED  BY <2>1, <3>1, <3>2, <3>3
  <2>6. CASE UninstallErases
    <3>1. PICK j : j = at[Client].it
      OBVIOUS
    <3>2. /\ ~ crashed /\ breakpoints' = RemoveAt(breakpoints, j) /\ j < Len(breakpoints)
          /\ at[Client].fn = "Uninstall" /\ at[Client].pc = "true"
      BY <1>1, <2>3, <2>6, <3>1 DEF UninstallErases, Modify, HandlerNext, allVars, handlerVars
    <3>3. j \in DOMAIN breakpoints /\ breakpoints[j] = at[Client].bp
      BY <2>0, <3>1, <3>2 DEF VectorOK
    <3>4. i = j
      BY <2>0, <2>1, <2>2, <3>2, <3>3, RemoveAtKeeps
    <3>. QED  BY <2>1, <3>2, <3>3, <3>4
  <2>7. \/ \E c \in Bkpt, immActive \in BOOLEAN : InstallBreakpoint(c, immActive)
        \/ InstallReturns \/ UninstallRunsOff \/ UninstallErases
    <3>1. ASSUME NEW c \in Bkpt, EnableBreakpoint(c) \/ DisableBreakpoint(c) \/ UninstallBreakpoint(c)
          PROVE  breakpoints' = breakpoints
      BY <3>1 DEF EnableBreakpoint, DisableBreakpoint, EnterMethod, UninstallBreakpoint
    <3>2. ASSUME UninstallStops \/ UninstallGoesOn
          PROVE  breakpoints' = breakpoints
      BY <3>2 DEF UninstallStops, UninstallGoesOn
    <3>3. ASSUME NEW t, \/ LookupBegins(t) \/ (\E a \in Addr : LookupEnds(t, a))
                        \/ LookupFaults(t) \/ EnableOrDisableReturns(t)
          PROVE  breakpoints' = breakpoints
      BY <3>3 DEF LookupBegins, LookupEnds, LookupFaults, EnableOrDisableReturns
    <3>4. ASSUME NEW t \in Thread, CallApply(t) \/ CallReset(t) \/ InCallStep(t)
          PROVE  breakpoints' = breakpoints
      BY <3>4 DEF CallApply, CallReset, InCallStep
    <3>5. UNCHANGED allVars => breakpoints' = breakpoints
      BY DEF allVars, handlerVars
    <3>. QED  BY <1>1, <2>3, <3>1, <3>2, <3>3, <3>4, <3>5 DEF HandlerNext
  <2>. QED  BY <2>4, <2>5, <2>6, <2>7
<1>2. RegistryInv /\ [HandlerNext]_allVars =>
        [\A b \in Bkpt : Registered(b) /\ ~ Registered(b)' =>
           at[Client].fn \in {"Install", "Uninstall"} /\ at[Client].bp = b]_allVars
  BY <1>1
<1>. QED  BY <1>2, RegistryInvariant, PTL DEF HandlerSpec, OnlyOwnRemoved

-------------------------------------------------------------------------------
(***************************************************************************)
(* SavedByteSurvives: what is saved of a breakpoint on which the server's  *)
(* Disable and the client's Enable may overlap, and calls may be refused.  *)
(***************************************************************************)

(* A breakpoint to which SavedByteSurvives applies. *)
Unmixed(b) == Kind[b] = "x86_64" /\ Isolated(b) /\ b \notin unread

(* Until the program's byte is saved it is in place, and it is saved first. *)
SavedOK(b) ==
  /\ original[b] # << >> => original[b][1] = InitMem[Address[b]]
  /\ original[b] = << >> => mem[Address[b]] = InitMem[Address[b]]
  /\ \A t \in Thread :
       InCall(t, b) /\ op[t].call = "Apply" /\ op[t].pc # "read" => original[b] # << >>

(* A breakpoint that is unmixed after a step was so before it. *)
LEMMA UnmixedBefore ==
  ASSUME IInv, [Next]_vars, NEW b \in Bkpt, Unmixed(b)'
  PROVE  Unmixed(b)
<1>1. CASE UNCHANGED vars
  <2>1. \A c \in Bkpt : Claimed(c)' = Claimed(c)
    BY <1>1 DEF Claimed, InCall, vars
  <2>. QED  BY <1>1, <2>1 DEF Unmixed, Isolated, vars
<1>2. CASE Next
  <2>1. b \notin unread
    BY <1>2, UnreadGrows DEF Unmixed
  <2>2. \A c \in Bkpt : Claimed(c) \subseteq Claimed(c)'
    BY <1>2, ClaimedGrows DEF IInv
  <2>. QED  BY <2>1, <2>2 DEF Unmixed, Isolated
<1>. QED  BY <1>1, <1>2

(* A Reset of which nothing is saved writes nothing. *)
LEMMA EmptyReset ==
  ASSUME IInv, NEW b \in Bkpt, Kind[b] = "x86_64", original[b] = << >>,
         NEW t \in Thread, InCall(t, b), op[t].call = "Reset", VmWrite(t)
  PROVE  mem'[Address[b]] = mem[Address[b]]
<1>1. TypeOK /\ op[t].size = 0 /\ Address[b] \in Addr /\ mem \in [Addr -> Byte]
  BY AddressAssumption DEF IInv, TypeOK, SizesOK, InCall
<1>2. PICK bytes \in Input(t) : mem' = Patch(mem, Address[b], bytes)
  BY DEF VmWrite, InCall
<1>3. bytes \in Seq(Byte) /\ Len(bytes) = 0
  BY <1>1, <1>2, InputType DEF InCall
<1>4. Address[b] \notin Span(Address[b], 0)
  BY <1>1, LastAddrAssumption DEF Span, Addr
<1>. QED  BY <1>1, <1>2, <1>3, <1>4, PatchType

(* A call on b itself goes on. *)
LEMMA OwnSavedOK ==
  ASSUME HandlerTypeOK, IInv, InCallOK, NEW b \in Bkpt, Unmixed(b), Unmixed(b)', SavedOK(b),
         NEW t \in Thread, InCallStep(t), op[t].bp = b
  PROVE  SavedOK(b)'
<1>1. /\ op[t] \in [pc : Steps, call : Calls, bp : Bkpt, size : Nat] /\ InCall(t, b)
      /\ original[b] \in Seq(Byte) /\ mem \in [Addr -> Byte] /\ Address[b] \in Addr
      /\ op \in [Thread -> [pc : Steps, call : Calls, bp : Bkpt, size : Nat]]
      /\ original \in [Bkpt -> Seq(Byte)]
  BY OwnPlace DEF Unmixed, IInv, TypeOK
<1>2. CASE SaveOriginalX64(t) \/ SaveOriginalARMv7(t)
  <2>1. /\ original' = [original EXCEPT ![b] = Append(original[b], mem[Address[b]])]
        /\ UNCHANGED mem
    BY <1>2, SaveAppends DEF Unmixed
  <2>2. original'[b] = Append(original[b], mem[Address[b]]) /\ mem[Address[b]] \in Byte
    BY <1>1, <2>1
  <2>3. original'[b] # << >> /\ original'[b][1] = InitMem[Address[b]]
    BY <1>1, <2>2, AppendKeepsFirst DEF SavedOK
  <2>. QED  BY <2>1, <2>3 DEF SavedOK
<1>3. ASSUME UNCHANGED original, original[b] = << >> => mem'[Address[b]] = mem[Address[b]],
             op'[t].pc = "idle" \/ (op[t].pc # "read" /\ op'[t].call = op[t].call),
             \A u \in Thread \ {t} : op'[u] = op[u]
      PROVE  SavedOK(b)'
  BY <1>1, <1>3 DEF SavedOK, InCall
<1>4. CASE VmProtectForWrite(t)
  <2>1. op' = [op EXCEPT ![t].pc = "write"] /\ op[t].pc = "protect" /\ UNCHANGED <<mem, original>>
    BY <1>4 DEF VmProtectForWrite
  <2>. QED  BY <1>1, <1>3, <2>1
<1>5. CASE VmWrite(t)
  <2>1. op' = [op EXCEPT ![t].pc = "reprotect"] /\ op[t].pc = "write" /\ UNCHANGED original
    BY <1>5 DEF VmWrite
  <2>2. original[b] = << >> => op[t].call = "Reset"
    BY <1>1, <2>1 DEF SavedOK, Calls
  <2>3. original[b] = << >> => mem'[Address[b]] = mem[Address[b]]
    BY <1>1, <1>5, <2>2, EmptyReset DEF Unmixed
  <2>. QED  BY <1>1, <1>3, <2>1, <2>3
<1>6. CASE VmProtectAfterWrite(t) \/ VmCallFails(t) \/ KernelRefuses(t)
  <2>1. op' = [op EXCEPT ![t] = Idle] /\ UNCHANGED <<mem, original>>
    BY <1>6 DEF VmProtectAfterWrite, VmCallFails, KernelRefuses, Return
  <2>. QED  BY <1>1, <1>3, <2>1 DEF Idle
<1>. QED  BY <1>2, <1>4, <1>5, <1>6 DEF InCallStep, Continue

(* No step of the handler loses the program's byte. *)
LEMMA SavedOKStep ==
  ASSUME HandlerTypeOK, IInv, InCallOK, HandlerNext,
         NEW b \in Bkpt, Unmixed(b), Unmixed(b)', SavedOK(b)
  PROVE  SavedOK(b)'
<1>0. op \in [Thread -> [pc : Steps, call : Calls, bp : Bkpt, size : Nat]]
  BY DEF IInv, TypeOK
<1>1. ASSUME NEW t \in Thread, InCallStep(t)
      PROVE  SavedOK(b)'
  <2>1. CASE op[t].bp = b
    BY <1>1, <2>1, OwnSavedOK
  <2>2. CASE op[t].bp # b
    <3>1. Elsewhere(b)
      BY <1>1, <2>2, ContinueElsewhere DEF InCallStep, Unmixed
    <3>2. original'[b] = original[b] /\ mem'[Address[b]] = mem[Address[b]]
      BY <3>1, MemElsewhere DEF Elsewhere
    <3>. QED  BY <3>1, <3>2 DEF Elsewhere, SavedOK, InCall
  <2>. QED  BY <2>1, <2>2
<1>2. ASSUME NEW t \in Thread, CallApply(t) \/ CallReset(t)
      PROVE  SavedOK(b)'
  <2>1. PICK c \in Bkpt, call \in Calls : \E pc, size :
          /\ op' = [op EXCEPT ![t] = [pc |-> pc, call |-> call, bp |-> c, size |-> size]]
          /\ call = "Apply" => pc = "read"
    <3>1. at[t].bp \in Bkpt
      BY <1>2, CallingPlace DEF CallApply, CallReset, Calling
    <3>. QED  BY <1>2, <3>1 DEF CallApply, CallReset, ApplyX64, ApplyARMv7, ApplyTHUMBv7, ResetX64,
                 ResetARMv7, EnterApply, EnterReset, Enter, Calls
  <2>2. UNCHANGED <<mem, original>>
    BY <1>2 DEF CallApply, CallReset, ApplyX64, ApplyARMv7, ApplyTHUMBv7, ResetX64, ResetARMv7,
                EnterApply, EnterReset
  <2>. QED  BY <1>0, <2>1, <2>2 DEF SavedOK, InCall
<1>3. CASE UNCHANGED vars
  BY <1>3 DEF SavedOK, InCall, vars
<1>4. ASSUME \/ InstallReturns \/ UninstallStops \/ UninstallErases \/ UninstallGoesOn
             \/ UninstallRunsOff
      PROVE  UNCHANGED vars
  BY <1>4 DEF InstallReturns, UninstallStops, UninstallErases, UninstallGoesOn, UninstallRunsOff
<1>5. ASSUME NEW c \in Bkpt,
             \/ \E immActive \in BOOLEAN : InstallBreakpoint(c, immActive)
             \/ EnableBreakpoint(c) \/ DisableBreakpoint(c) \/ UninstallBreakpoint(c)
      PROVE  UNCHANGED vars
  BY <1>5 DEF InstallBreakpoint, EnableBreakpoint, DisableBreakpoint, EnterMethod,
              UninstallBreakpoint
<1>6. ASSUME NEW t, \/ LookupBegins(t) \/ (\E a \in Addr : LookupEnds(t, a))
                    \/ LookupFaults(t) \/ EnableOrDisableReturns(t)
      PROVE  UNCHANGED vars
  BY <1>6 DEF LookupBegins, LookupEnds, LookupFaults, EnableOrDisableReturns
<1>. QED  BY <1>1, <1>2, <1>3, <1>4, <1>5, <1>6 DEF HandlerNext

(* The inductive invariant: RegistryInv and what is saved. *)
SavedInv == RegistryInv /\ \A b \in Bkpt : Unmixed(b) => SavedOK(b)

(***************************************************************************)
(* What Reset would write back is the program's own byte, however the      *)
(* client's Apply and the servers' Reset of one breakpoint interleave.     *)
(***************************************************************************)
THEOREM SavedBytesSurvive == HandlerSpec => []SavedByteSurvives
<1>1. HandlerInit => SavedInv
  <2>1. HandlerInit => \A b \in Bkpt : SavedOK(b)
    BY DEF HandlerInit, Init, SavedOK, InCall, Idle
  <2>. QED  BY <2>1, InitRegistryInv DEF SavedInv
<1>2. ASSUME SavedInv, [HandlerNext]_allVars PROVE SavedInv'
  <2>1. HandlerTypeOK /\ IInv /\ InCallOK /\ [Next]_vars
    BY <1>2, HandlerStep DEF SavedInv, RegistryInv, MInv
  <2>2. ASSUME NEW b \in Bkpt, Unmixed(b)'
        PROVE  SavedOK(b)'
    <3>1. Unmixed(b) /\ SavedOK(b)
      BY <1>2, <2>1, <2>2, UnmixedBefore DEF SavedInv
    <3>2. UNCHANGED allVars => SavedOK(b)'
      BY <3>1 DEF SavedOK, InCall, vars, allVars
    <3>. QED  BY <1>2, <2>1, <2>2, <3>1, <3>2, SavedOKStep
  <2>. QED  BY <1>2, <2>2, NextRegistryInv DEF SavedInv
<1>3. SavedInv => SavedByteSurvives
  BY DEF SavedInv, SavedByteSurvives, Unmixed, SavedOK
<1>. QED  BY <1>1, <1>2, <1>3, PTL DEF HandlerSpec
=============================================================================
