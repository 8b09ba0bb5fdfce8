------------------------------ MODULE TaskMemory ------------------------------
(***************************************************************************)
(* The memory of the target task as the Mach calls of src/process.cc see   *)
(* it: bytes, and pages with a protection.  The kernel is external; what   *)
(* is written here is what Process::ReadMemory and Process::WriteMemory    *)
(* rely on.                                                                *)
(***************************************************************************)
EXTENDS Integers, Sequences

CONSTANTS
  LastAddr,  \* the model looks at the addresses 0 .. LastAddr of the task
  Page,      \* the pages of that window
  PageOf     \* [Addr -> Page]

Addr  == 0 .. LastAddr
Byte  == 0 .. 255
Right == {"r", "w", "x"}

ASSUME LastAddrAssumption == LastAddr \in Nat
ASSUME PageAssumption     == PageOf \in [Addr -> Page]

RX  == {"r", "x"}
RWX == {"r", "w", "x"}

(* The n bytes from address a on, and the pages they lie on. *)
Span(a, n)  == {x \in Addr : a <= x /\ x < a + n}
Pages(a, n) == {PageOf[x] : x \in Span(a, n)}

(***************************************************************************)
(* A protection map is a function from the mapped pages to sets of rights. *)
(***************************************************************************)
IsMapped(pr, ps)   == ps \subseteq DOMAIN pr
Readable(pr, ps)   == IsMapped(pr, ps) /\ \A p \in ps : "r" \in pr[p]
Writable(pr, ps)   == IsMapped(pr, ps) /\ \A p \in ps : "w" \in pr[p]
Protect(pr, ps, r) == [p \in DOMAIN pr |-> IF p \in ps THEN r ELSE pr[p]]

(* Memory m with bytes stored from address a on; the n bytes from a on. *)
Patch(m, a, bytes) ==
  [x \in Addr |-> IF x \in Span(a, Len(bytes)) THEN bytes[x - a + 1] ELSE m[x]]
Fetch(m, a, n) == [i \in 1 .. n |-> m[a + i - 1]]
===============================================================================
