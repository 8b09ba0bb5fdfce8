----------------------------- MODULE ThreadStates -----------------------------
(***************************************************************************)
(* A ThreadState object and the thread it is of: Load copies registers of  *)
(* the thread into the object and makes a view of each by its name,        *)
(* operator[] and the assignment of a Register change the copy through a   *)
(* view, Save writes the copy back.  Meanwhile the thread may run or exit. *)
(*                                                                         *)
(* Load and Save make one Mach call for each flavor of the state they      *)
(* transfer, and look at the result of none: any of these calls may be     *)
(* refused.  A Load between whose calls the thread runs has the effect of  *)
(* two Loads, each with the other's calls refused, and so for Save.        *)
(*                                                                         *)
(* Memory is counted in words of four bytes and holds, instead of values,  *)
(* where they come from.  The first member of each class, its thread       *)
(* state, is modelled register by register, the members behind it with two *)
(* words each.  How the system lays them out is external.                  *)
(***************************************************************************)
EXTENDS Naturals, FiniteSets, SequencesExt

CONSTANTS
  MaxLoads,    \* bound: Loads of the object
  MaxAssigns,  \* bound: assignments to registers
  MaxRefusals  \* bound: calls the kernel refuses though the thread is alive

ASSUME BoundAssumption == MaxLoads \in Nat /\ MaxAssigns \in Nat /\ MaxRefusals \in Nat

Class == {"x64", "x86", "ARMv7", "AArch64"}

VARIABLES
  class,      \* the class of the object
  alive,      \* the thread has not exited
  kernel,     \* the thread's own registers, by word
  object,     \* the members of the object, by word
  registers,  \* the views: a name, and the first word it refers to
  assigned,   \* number of assignments
  refusals,   \* calls refused so far
  (* History: what the properties need to know of the past. *)
  asked,      \* the words assigned and not fetched again
  askedEver,  \* those of all assignments
  tidy,       \* every assignment was of the register's width, and not Misplaced
  unfetched,  \* flavors no Load has got, for want of a Load or of an answer
  blind,      \* flavors that a Save has set when they were unfetched
  behind,     \* flavors got by no Load since the thread last ran
  late        \* flavors that a Save has set when they were behind

debugger == <<object, registers, assigned>>
history  == <<asked, askedEver, tidy, unfetched, blind, behind, late>>
vars     == <<class, alive, kernel, refusals, debugger, history>>

-------------------------------------------------------------------------------
(* The registers in the order of the system's structures. *)

X == <<"X0", "X1", "X2", "X3", "X4", "X5", "X6", "X7", "X8", "X9", "X10",
       "X11", "X12", "X13", "X14", "X15", "X16", "X17", "X18", "X19", "X20",
       "X21", "X22", "X23", "X24", "X25", "X26", "X27", "X28">>
R == <<"R0", "R1", "R2", "R3", "R4", "R5", "R6", "R7", "R8", "R9", "R10", "R11", "R12">>

Struct(c) ==
  CASE c = "x64" ->
         <<"RAX", "RBX", "RCX", "RDX", "RDI", "RSI", "RBP", "RSP", "R8", "R9", "R10",
           "R11", "R12", "R13", "R14", "R15", "RIP", "RFLAGS", "CS", "FS", "GS">>
    [] c = "x86" ->
         <<"EAX", "EBX", "ECX", "EDX", "EDI", "ESI", "EBP", "ESP", "SS", "EFLAGS",
           "EIP", "CS", "DS", "ES", "FS", "GS">>
    [] c = "ARMv7" -> R \o <<"SP", "LR", "PC", "CPSR">>
    [] c = "AArch64" -> X \o <<"FP", "LR", "SP", "PC", "CPSR", "PAD">>

(* The members behind the thread state, and those that Load and Save       *)
(* transfer with it.                                                       *)
IntelMembers   == <<"float", "debug", "exception">>
ARMv7Members   == <<"vfp", "neon", "exception", "debug">>
AArch64Members == <<"neon", "exception", "debug">>

Members(c) ==
  CASE c \in {"x64", "x86"} -> IntelMembers
    [] c = "ARMv7" -> ARMv7Members
    [] c = "AArch64" -> AArch64Members

IntelTransfers   == {"debug"}
ARMv7Transfers   == {"vfp", "neon", "exception", "debug"}
AArch64Transfers == {"neon", "exception", "debug"}

Transferred(c) ==
  CASE c \in {"x64", "x86"} -> IntelTransfers
    [] c = "ARMv7" -> ARMv7Transfers
    [] c = "AArch64" -> AArch64Transfers

Width(c, n) == IF c \in {"x64", "AArch64"} /\ n \notin {"CPSR", "PAD"} THEN 2 ELSE 1

(* For each word of the object, the register or member it belongs to: the  *)
(* registers of two words come first, the members last.                    *)
Doubles(c) == CASE c = "x64" -> Len(Struct(c))
                [] c = "AArch64" -> Len(Struct(c)) - 2
                [] c \in {"x86", "ARMv7"} -> 0

Size(c) == Len(Struct(c)) + Doubles(c)

Layout ==
  [c \in Class |->
     [w \in 1 .. Size(c) + 2 * Len(Members(c)) |->
        IF w <= 2 * Doubles(c) THEN Struct(c)[(w + 1) \div 2]
        ELSE IF w <= Size(c) THEN Struct(c)[w - Doubles(c)]
        ELSE Members(c)[(w - Size(c) + 1) \div 2]]]

Words == DOMAIN Layout[class]

(* X29 and X30 are other names of FP and LR. *)
Register(n) == IF n = "X29" THEN "FP" ELSE IF n = "X30" THEN "LR" ELSE n

WordsOf(n) == {w \in Words : Layout[class][w] = Register(n)}

(* The flavor of the state that each word belongs to, and those that a     *)
(* class gets and sets.                                                    *)
FlavorOf ==
  [c \in Class |->
     [w \in DOMAIN Layout[c] |-> IF w <= Size(c) THEN "general" ELSE Layout[c][w]]]

Flavor(w) == FlavorOf[class][w]
Flavors   == {"general"} \cup Transferred(class)

-------------------------------------------------------------------------------
(* The views that Load adds, in its order.  Faulty variant: the pointer    *)
(* has been moved on by one register.                                      *)
AtNext(c, i) == Width(c, "any") * i + 1
At(c, i)     == Width(c, "any") * (i - 1) + 1

x64Views ==
  <<"RAX", "RBX", "RCX", "RDX", "RDI", "RSI", "RBP", "RSP", "R8", "R9", "R10",
    "R11", "R12", "R13", "R14", "R15", "RIP", "RFLAGS", "CS", "FS", "GS">>
x86Views ==
  <<"EAX", "EBX", "ECX", "EDX", "EDI", "ESI", "EBP", "ESP", "SS", "EFLAGS",
    "EIP", "CS", "DS", "ES", "FS", "GS">>
ARMv7Views   == R \o <<"SP", "LR", "PC", "CPSR">>
AArch64Views == X \o <<"X29", "X30", "FP", "LR", "SP", "PC">>

ViewNames(c) ==
  CASE c = "x64" -> x64Views
    [] c = "x86" -> x86Views
    [] c = "ARMv7" -> ARMv7Views
    [] c = "AArch64" -> AArch64Views

(* CPSR and PAD of AArch64 are referred to by the fields themselves. *)
Views(c) ==
  [i \in DOMAIN ViewNames(c) |-> [name |-> ViewNames(c)[i], at |-> At(c, i)]]
    \o IF c = "AArch64" THEN <<[name |-> "CPSR", at |-> 67], [name |-> "PAD", at |-> 68]>> ELSE << >>

Misplaced(n) == class = "AArch64" /\ n \in {"FP", "LR", "SP", "PC"}

-------------------------------------------------------------------------------
(* Where a word comes from: "junk" was never written, "own" is the         *)
(* thread's, "old" was its own before it ran, "new" was assigned.          *)
Init ==
  /\ class \in Class
  /\ alive = TRUE
  /\ kernel = [w \in Words |-> "own"]
  /\ object = [w \in Words |-> "junk"]
  /\ registers = << >>
  /\ assigned = 0
  /\ refusals = 0
  /\ asked = {} /\ askedEver = {} /\ tidy = TRUE
  /\ unfetched = Flavors /\ blind = {}
  /\ behind = Flavors /\ late = {}

Run ==
  /\ alive
  /\ kernel' = [w \in Words |-> "own"]
  /\ object' = [w \in Words |-> IF object[w] = "own" THEN "old" ELSE object[w]]
  /\ behind' = Flavors
  /\ UNCHANGED <<class, alive, refusals, registers, assigned, asked, askedEver, tidy,
                 unfetched, blind, late>>

Exit ==
  /\ alive
  /\ alive' = FALSE
  /\ UNCHANGED <<class, kernel, refusals, debugger, history>>

(* The calls that fail: some, when the thread is alive, all after its exit. *)
Fail(failed) ==
  IF alive
  THEN /\ failed \subseteq Flavors
       /\ refusals + Cardinality(failed) <= MaxRefusals
       /\ refusals' = refusals + Cardinality(failed)
  ELSE failed = Flavors /\ UNCHANGED refusals

(* thread_get_state of each flavor.  The members of one that fails stay as *)
(* they are.  Faulty variant: only the thread state is got.                *)
GetGeneral(failed) ==
  object' = [w \in Words |->
               IF Flavor(w) \in {"general"} \ failed THEN "own" ELSE object[w]]

GetStates(failed) ==
  object' = [w \in Words |-> IF Flavor(w) \in Flavors \ failed THEN "own" ELSE object[w]]

(* Whatever Load does, the answers it gets bring these flavors up to date. *)
Fetch(failed) ==
  /\ asked' = {w \in asked : Flavor(w) \in failed}
  /\ unfetched' = unfetched \cap failed
  /\ behind' = behind \cap failed

(* Faulty variant: an object that has its views is not loaded again. *)
LoadOnce(failed) ==
  /\ Len(registers) < MaxLoads * Len(Views(class))
  /\ Fail(failed)
  /\ IF registers = << >> THEN GetStates(failed) ELSE UNCHANGED object
  /\ Fetch(failed)
  /\ registers' = registers \o Views(class)
  /\ UNCHANGED <<class, alive, kernel, assigned, askedEver, tidy, blind, late>>

Load(failed) ==
  /\ Len(registers) < MaxLoads * Len(Views(class))
  /\ Fail(failed)
  /\ GetStates(failed)
  /\ Fetch(failed)
  /\ registers' = registers \o Views(class)
  /\ UNCHANGED <<class, alive, kernel, assigned, askedEver, tidy, blind, late>>

(* operator[] finds the first view of the name, or throws.  The value's    *)
(* type says how many words are written.                                   *)
Lookup(n) == SelectInSeq(registers, LAMBDA r : r.name = n)

Assign(n, width) ==
  /\ assigned < MaxAssigns
  /\ Lookup(n) # 0
  /\ LET at == registers[Lookup(n)].at IN
       object' = [w \in Words |-> IF w \in at .. at + width - 1 THEN "new" ELSE object[w]]
  /\ assigned' = assigned + 1
  /\ asked' = asked \cup WordsOf(n)
  /\ askedEver' = askedEver \cup WordsOf(n)
  /\ tidy' = (tidy /\ width = Width(class, n) /\ ~Misplaced(n))
  /\ UNCHANGED <<class, alive, kernel, refusals, registers, unfetched, blind, behind, late>>

(* thread_set_state of each flavor. *)
Save(failed) ==
  /\ Fail(failed)
  /\ kernel' = [w \in Words |->
                  IF Flavor(w) \in Flavors \ failed /\ object[w] # "own"
                  THEN object[w] ELSE kernel[w]]
  /\ blind' = blind \cup (unfetched \ failed)
  /\ late' = late \cup (behind \ failed)
  /\ UNCHANGED <<class, alive, debugger, asked, askedEver, tidy, unfetched, behind>>

Next ==
  \/ Run \/ Exit
  \/ \E failed \in SUBSET Flavors : Load(failed) \/ Save(failed)
  \/ \E n \in ToSet(ViewNames(class)) \cup {"CPSR", "PAD"}, width \in {1, 2} : Assign(n, width)

Spec == Init /\ [][Next]_vars

-------------------------------------------------------------------------------
(***************************************************************************)
(* The view of a name is the register of that name: assignments of the     *)
(* register's width change it and nothing else, in the object until its    *)
(* flavor is got again and, by Save, in the thread.  Four views of AArch64 *)
(* are Misplaced: they lie behind X29 and X30, which are FP and LR already *)
(* (the property leaves assignments to them out).                          *)
(***************************************************************************)
AssignedIsNamed ==
  tidy => /\ asked \subseteq {w \in Words : object[w] = "new"}
          /\ \A w \in Words : object[w] = "new" \/ kernel[w] = "new" => w \in askedEver

(***************************************************************************)
(* Memory that was never written gets into a thread only in a flavor whose *)
(* thread_get_state no Load has got an answer to, by a Save that looks     *)
(* neither for a Load nor at what became of it; not in another: what Save  *)
(* sets, Load gets, flavor by flavor and into the same members.            *)
(***************************************************************************)
JunkOnlyUnfetched == \A w \in Words : kernel[w] = "junk" => Flavor(w) \in blind

(***************************************************************************)
(* Save sets a register back only in a flavor that no Load has got since   *)
(* the thread ran: a Load of an object that was loaded before brings every *)
(* flavor that is answered up to date, whichever others are refused.       *)
(***************************************************************************)
OldOnlyIfLate == \A w \in Words : kernel[w] = "old" => Flavor(w) \in late
===============================================================================
