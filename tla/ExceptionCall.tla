----------------------------- MODULE ExceptionCall -----------------------------
(***************************************************************************)
(* What the two message stubs promise their users: a remote call.  A call  *)
(* runs the catch routine at most once, whatever is lost on the way, and   *)
(* ends with the routine's answer to it, or with a failure of the way.     *)
(***************************************************************************)
CONSTANTS
  Client,   \* threads that call
  Answers,  \* what the catch routine may answer
  Failures, \* what a call ends with when no answer comes back
  Refusals, \* what a call ends with that was never sent
  Nothing   \* no answer, no result

VARIABLES
  result,   \* how each client's last call has ended, Nothing while it waits
  answered, \* the routine's answer to that call, Nothing before it has run
  waiting   \* the clients in a call

vars == <<result, answered, waiting>>

Init ==
  /\ result = [c \in Client |-> Nothing]
  /\ answered = [c \in Client |-> Nothing]
  /\ waiting = {}

Begin(c) ==
  /\ c \notin waiting
  /\ waiting' = waiting \cup {c}
  /\ result' = [result EXCEPT ![c] = Nothing]
  /\ answered' = [answered EXCEPT ![c] = Nothing]

Refuse(c) ==
  /\ c \notin waiting
  /\ \E r \in Refusals : result' = [result EXCEPT ![c] = r]
  /\ answered' = [answered EXCEPT ![c] = Nothing]
  /\ UNCHANGED waiting

(* The routine may also run after the client has given up. *)
Run(c) ==
  /\ answered[c] = Nothing
  /\ c \in waiting \/ result[c] \in Failures
  /\ \E a \in Answers : answered' = [answered EXCEPT ![c] = a]
  /\ UNCHANGED <<result, waiting>>

End(c) ==
  /\ c \in waiting
  /\ waiting' = waiting \ {c}
  /\ \E r \in ({answered[c]} \cap Answers) \cup Failures : result' = [result EXCEPT ![c] = r]
  /\ UNCHANGED answered

Next == \E c \in Client : Begin(c) \/ Refuse(c) \/ Run(c) \/ End(c)

Spec == Init /\ [][Next]_vars
===============================================================================
