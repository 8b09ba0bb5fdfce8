-------------------------- MODULE BreakpointHandler --------------------------
(***************************************************************************)
(* The registry of breakpoints, without a lock, between a client that      *)
(* installs, uninstalls, enables and disables breakpoints and an exception *)
(* server that looks up the breakpoint of a trap and disables it.          *)
(*                                                                         *)
(* Apply and Reset are those of SoftwareBreakpoint, step by step.  Only    *)
(* Client changes the vector; the server iterates over it meanwhile.  An   *)
(* x86_64 build makes no thread state for its exceptions, and so looks     *)
(* nothing up (see ExceptionHandler): there Server is any other thread     *)
(* that looks up and disables breakpoints of the shared handler.           *)
(***************************************************************************)
EXTENDS SoftwareBreakpoint, SequencesExt

CONSTANTS
  Client,       \* the thread of Thread that uses the handler's interface
  Server,       \* the threads of Thread that answer exceptions
  MaxInstalled  \* bound: elements of the vector

ASSUME MaxInstalledAssumption == MaxInstalled \in Nat
ASSUME ThreadAssumption == Client \notin Server /\ Thread = Server \cup {Client}

VARIABLES
  breakpoints,  \* breakpoints_
  at,           \* where each thread is in a method of the handler
  moved,        \* servers during whose iteration the vector has changed
  crashed,      \* the debugger's process has died
  stray         \* history: breakpoints enabled while they were not in the vector

handlerVars == <<breakpoints, at, moved, crashed, stray>>
allVars     == <<vars, handlerVars>>

Methods == {"Install", "Uninstall", "Enable", "Disable", "AtAddress"}

(* A thread in method fn: it is about to call Apply or Reset on bp, or in  *)
(* it, or back from it with its result; it is the vector's iterator.       *)
Outside == [fn |-> "none"]
Inside(fn, b, it) == [fn |-> fn, pc |-> "call", bp |-> b, it |-> it]

HandlerInit ==
  /\ Init
  /\ breakpoints = << >>
  /\ at = [t \in Thread |-> Outside]
  /\ moved = {}
  /\ crashed = FALSE
  /\ stray = {}

(* The vector's new value; an iteration under way is then on a moved one. *)
Modify(seq) ==
  /\ breakpoints' = seq
  /\ moved' = {s \in Server : at[s].fn = "AtAddress"}

Registered(b) == b \in Range(breakpoints)

-------------------------------------------------------------------------------
(* Install, Enable and Disable. *)

InstallBreakpoint(b, immActive) ==
  /\ at[Client] = Outside
  /\ Len(breakpoints) < MaxInstalled
  /\ Modify(Append(breakpoints, b))
  /\ at' = IF immActive THEN [at EXCEPT ![Client] = Inside("Install", b, 0)] ELSE at
  /\ UNCHANGED <<vars, crashed, stray>>

(* Faulty variant: the wrong end is taken off. *)
InstallReturnsFirst ==
  /\ at[Client].fn = "Install"
  /\ at[Client].pc \in {"true", "false"}
  /\ at' = [at EXCEPT ![Client] = Outside]
  /\ IF at[Client].pc = "true" THEN UNCHANGED <<breakpoints, moved>>
                               ELSE Modify(Tail(breakpoints))
  /\ UNCHANGED <<vars, crashed, stray>>

(* What a failed Apply leaves: the last element is taken off again. *)
InstallReturns ==
  /\ at[Client].fn = "Install"
  /\ at[Client].pc \in {"true", "false"}
  /\ at' = [at EXCEPT ![Client] = Outside]
  /\ IF at[Client].pc = "true" THEN UNCHANGED <<breakpoints, moved>>
                               ELSE Modify(Front(breakpoints))
  /\ UNCHANGED <<vars, crashed, stray>>

(* Neither method looks whether the breakpoint is in the vector. *)
EnterMethod(fn, b) ==
  /\ at[Client] = Outside
  /\ at' = [at EXCEPT ![Client] = Inside(fn, b, 0)]
  /\ UNCHANGED <<vars, breakpoints, moved, crashed>>

EnableBreakpoint(b) ==
  /\ EnterMethod("Enable", b)
  /\ stray' = IF Registered(b) THEN stray ELSE stray \cup {b}

DisableBreakpoint(b) ==
  /\ EnterMethod("Disable", b)
  /\ UNCHANGED stray

EnableOrDisableReturns(t) ==
  /\ at[t].fn \in {"Enable", "Disable"}
  /\ at[t].pc \in {"true", "false"}
  /\ at' = [at EXCEPT ![t] = Outside]
  /\ UNCHANGED <<vars, breakpoints, moved, crashed, stray>>

-------------------------------------------------------------------------------
(* Uninstall goes on after an erase, past the element that has taken the   *)
(* erased one's place.                                                     *)

(* The loop from position i on, to the next occurrence of b or the end. *)
Occurrences(b, i) == {j \in i .. Len(breakpoints) : breakpoints[j] = b}

Scan(b, i) ==
  \/ /\ Occurrences(b, i) = {}
     /\ at' = [at EXCEPT ![Client] = Outside]
  \/ \E j \in Occurrences(b, i) :
       /\ \A k \in Occurrences(b, i) : j <= k
       /\ at' = [at EXCEPT ![Client] = Inside("Uninstall", b, j)]

UninstallBreakpoint(b) ==
  /\ at[Client] = Outside
  /\ Scan(b, 1)
  /\ UNCHANGED <<vars, breakpoints, moved, crashed, stray>>

(* Faulty variant: the element is erased although Reset has failed. *)
UninstallErasesAnyway ==
  /\ at[Client].fn = "Uninstall"
  /\ at[Client].pc = "false"
  /\ Modify(RemoveAt(breakpoints, at[Client].it))
  /\ at' = [at EXCEPT ![Client] = Outside]
  /\ UNCHANGED <<vars, crashed, stray>>

UninstallStops ==
  /\ at[Client].fn = "Uninstall"
  /\ at[Client].pc = "false"
  /\ at' = [at EXCEPT ![Client] = Outside]
  /\ UNCHANGED <<vars, breakpoints, moved, crashed, stray>>

UninstallErases ==
  /\ at[Client].fn = "Uninstall"
  /\ at[Client].pc = "true"
  /\ at[Client].it < Len(breakpoints)
  /\ Modify(RemoveAt(breakpoints, at[Client].it))
  /\ at' = [at EXCEPT ![Client].pc = "next"]
  /\ UNCHANGED <<vars, crashed, stray>>

UninstallGoesOn ==
  /\ at[Client].fn = "Uninstall"
  /\ at[Client].pc = "next"
  /\ Scan(at[Client].bp, at[Client].it + 1)
  /\ UNCHANGED <<vars, breakpoints, moved, crashed, stray>>

(* Erasing the last element leaves the iterator at the end; ++it takes it  *)
(* beyond, and the loop reads what lies behind the vector until it faults. *)
UninstallRunsOff ==
  /\ at[Client].fn = "Uninstall"
  /\ at[Client].pc = "true"
  /\ at[Client].it = Len(breakpoints)
  /\ Modify(Front(breakpoints))
  /\ crashed' = TRUE
  /\ UNCHANGED <<vars, at, stray>>

-------------------------------------------------------------------------------
(* The server: ExceptionCallback looks up the breakpoint of the exception  *)
(* and disables it when it is active.                                      *)

LookupBegins(s) ==
  /\ at[s] = Outside
  /\ at' = [at EXCEPT ![s] = [fn |-> "AtAddress"]]
  /\ moved' = moved \ {s}
  /\ UNCHANGED <<vars, breakpoints, crashed, stray>>

(* The first breakpoint at the address, or none; over a vector that has    *)
(* changed under the iteration, anything that was ever in it, or a fault.  *)
BreakpointAtAddress(s, a) ==
  IF s \in moved THEN {{}} \cup {{b} : b \in Bkpt}
  ELSE LET hits == {j \in DOMAIN breakpoints : Address[breakpoints[j]] = a}
       IN  {{breakpoints[j] : j \in {i \in hits : \A k \in hits : i <= k}}}

LookupEnds(s, a) ==
  /\ at[s].fn = "AtAddress"
  /\ \E found \in BreakpointAtAddress(s, a) :
       at' = [at EXCEPT ![s] =
                IF \E b \in found : active[b]
                THEN Inside("Disable", CHOOSE b \in found : TRUE, 0) ELSE Outside]
  /\ UNCHANGED <<vars, breakpoints, moved, crashed, stray>>

LookupFaults(s) ==
  /\ at[s].fn = "AtAddress"
  /\ s \in moved
  /\ crashed' = TRUE
  /\ UNCHANGED <<vars, breakpoints, at, moved, stray>>

-------------------------------------------------------------------------------
(* Apply and Reset, called from the methods above. *)

CallApply(t) ==
  LET b == at[t].bp IN
  /\ at[t].fn \in {"Install", "Enable"}
  /\ at[t].pc = "call"
  /\ ApplyX64(t, b) \/ ApplyARMv7(t, b) \/ ApplyTHUMBv7(t, b)
  /\ at' = [at EXCEPT ![t].pc = "in"]
  /\ UNCHANGED <<breakpoints, moved, crashed, stray>>

CallReset(t) ==
  LET b == at[t].bp IN
  /\ at[t].fn \in {"Uninstall", "Disable"}
  /\ at[t].pc = "call"
  /\ ResetX64(t, b) \/ ResetARMv7(t, b)
  /\ at' = [at EXCEPT ![t].pc = "in"]
  /\ UNCHANGED <<breakpoints, moved, crashed, stray>>

(* The result of the call that t's step has ended. *)
Result(b) == IF done'[b] \in {"applied", "reset"} THEN "true" ELSE "false"

InCallStep(t) ==
  /\ Continue(t)
  /\ at' = IF op'[t].pc = "idle"
           THEN [at EXCEPT ![t].pc = Result(at[t].bp)] ELSE at
  /\ UNCHANGED <<breakpoints, moved, crashed, stray>>

HandlerNext ==
  /\ ~ crashed
  /\ \/ \E b \in Bkpt : \/ \E immActive \in BOOLEAN : InstallBreakpoint(b, immActive)
                        \/ EnableBreakpoint(b)
                        \/ DisableBreakpoint(b)
                        \/ UninstallBreakpoint(b)
     \/ InstallReturns
     \/ UninstallStops
     \/ UninstallErases
     \/ UninstallGoesOn
     \/ UninstallRunsOff
     \/ \E s \in Server : \/ LookupBegins(s)
                          \/ \E a \in Addr : LookupEnds(s, a)
                          \/ LookupFaults(s)
     \/ \E t \in Thread : \/ CallApply(t)
                          \/ CallReset(t)
                          \/ InCallStep(t)
                          \/ EnableOrDisableReturns(t)

HandlerSpec == HandlerInit /\ [][HandlerNext]_allVars

-------------------------------------------------------------------------------
(***************************************************************************)
(* A trap in memory belongs to a breakpoint in the vector, so the server   *)
(* can find it: Install enters the breakpoint before its Apply, and takes  *)
(* it off only when Apply has failed; Uninstall erases it only after a     *)
(* Reset that returned true.  This holds while the server disables         *)
(* breakpoints at any time, also the one the client is enabling.  It is    *)
(* said of an x86_64 breakpoint that shares no byte with another, whose    *)
(* code is not a trap already, whose reads have not failed, and which the  *)
(* client has never enabled outside the vector (that arms it unregistered, *)
(* and a later Uninstall that finds it not never disarms it), as long as   *)
(* the kernel refuses nothing and no freed byte that a racing Reset may    *)
(* write looks like a trap.                                                *)
(***************************************************************************)
ArmedIsRegistered ==
  \A b \in Bkpt :
    /\ Kind[b] = "x86_64" /\ Opcode(b)[1] \notin StaleByte
    /\ Isolated(b) /\ b \notin unread /\ refusals = 0 /\ b \notin stray
    /\ Under(InitMem, b) # Opcode(b) /\ Under(mem, b) = Opcode(b)
    => Registered(b)

(***************************************************************************)
(* A breakpoint leaves the vector only by its own Uninstall or its own     *)
(* failed Install, never by that of another breakpoint.                    *)
(***************************************************************************)
OnlyOwnRemoved ==
  [][\A b \in Bkpt :
       Registered(b) /\ ~ Registered(b)' =>
         at[Client].fn \in {"Install", "Uninstall"} /\ at[Client].bp = b]_allVars

(***************************************************************************)
(* The byte that Reset would write back is the program's own, even when    *)
(* the server's Disable and the client's Enable of one breakpoint overlap, *)
(* which OriginalKept leaves out: only the client applies, so no push_back *)
(* races with another, the vector is never emptied, and a trap that Apply  *)
(* reads back goes behind the program's byte.  It is said of an x86_64     *)
(* breakpoint that shares no byte with another and whose reads have not    *)
(* failed, with or without refusals, registered or not.                    *)
(***************************************************************************)
SavedByteSurvives ==
  \A b \in Bkpt :
    Kind[b] = "x86_64" /\ Isolated(b) /\ b \notin unread /\ original[b] # << >> =>
      original[b][1] = InitMem[Address[b]]
===============================================================================
