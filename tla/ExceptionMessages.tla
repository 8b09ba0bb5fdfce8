--------------------------- MODULE ExceptionMessages ---------------------------
(***************************************************************************)
(* The messages that carry an exception: the client stubs of               *)
(* mach_excUser.c (the kernel sends exceptions through the same interface) *)
(* and the server stubs of mach_excServer.c that exception_handler.cc's    *)
(* server thread runs.                                                     *)
(*                                                                         *)
(* Sizes are counted in words of four bytes.  A request's body starts at   *)
(* its codeCnt: the words before it have a fixed size and are left out.    *)
(* The literals 2 and 224 of the stubs are MaxCode and MaxState.  The      *)
(* queues and ports of the kernel are external; the checks guarded by      *)
(* __MigTypeCheck are compiled in, as the system's headers ask for.        *)
(***************************************************************************)
EXTENDS Naturals, SequencesExt, FiniteSets

CONSTANTS
  Client,       \* threads that call the client stubs
  Foreign,      \* senders that do not use the client stubs
  MaxCode,      \* most codes of an exception (64 bits, two words each)
  MaxState,     \* most words of a thread state
  Word,         \* values of a word
  MaxCalls,     \* bound: calls of all clients
  MaxBody       \* bound: words of a foreign message's body

ASSUME MaxAssumption ==
  MaxCode \in Nat /\ MaxState \in Nat /\ MaxCalls \in Nat /\ MaxBody \in Nat
ASSUME WordAssumption == Word \subseteq Nat
ASSUME SenderAssumption == Client \cap Foreign = {}

raise          == 2405
raise_state    == 2406
raise_identity == 2407

Routine == {raise, raise_state, raise_identity}

VARIABLES
  client,     \* where each client is in its stub
  port,       \* the reply port each client has cached
  inbox,      \* the messages on each client's reply port
  queue,      \* the requests on the exception port
  server,     \* what mach_msg_server_once is doing
  alive,      \* the exception port has its receive right
  touched,    \* the words the server stub has read of its request, and their number
  caught      \* history: what the catch routine answered each client's call

vars == <<client, port, inbox, queue, server, alive, touched, caught>>

Ready     == [pc |-> "ready"]
Untouched == [words |-> {}, size |-> 0]
Uncaught  == [ret |-> "none", state |-> << >>]

Init ==
  /\ client = [c \in Client |-> [pc |-> "out", n |-> 0, ret |-> "none", state |-> << >>]]
  /\ port = [c \in Client |-> 0]
  /\ inbox = [c \in Client |-> << >>]
  /\ queue = << >>
  /\ server = Ready
  /\ alive = TRUE
  /\ touched = Untouched
  /\ caught = [c \in Client |-> Uncaught]

-------------------------------------------------------------------------------
(* The request.  raise carries the codes; the other two put flavor,        *)
(* old_stateCnt and the state behind them.  Only raise_state names no      *)
(* thread and task.                                                        *)

Base(r) == IF r = raise THEN 1 ELSE 3

Ports(r) == IF r = raise_state THEN "none" ELSE "two ports"

(* The arguments of a call. *)
Args(r, code, flavor, state) ==
  IF r = raise THEN [r |-> r, code |-> code]
               ELSE [r |-> r, code |-> code, flavor |-> flavor, state |-> state]

Request(c, n, a) ==
  [id |-> a.r, ports |-> Ports(a.r), from |-> c, n |-> n, port |-> port[c],
   body |-> <<Len(a.code) \div 2>> \o a.code
              \o IF a.r = raise THEN << >> ELSE <<a.flavor, Len(a.state)>> \o a.state]

(* The server's view: In0P for the codes; In1P, moved by the codes that    *)
(* are not there, for what follows them.  Behind the body there is the     *)
(* trailer.                                                                *)
At(m, i)     == IF i \in DOMAIN m.body THEN m.body[i] ELSE 0
CodeCnt(m)   == At(m, 1)

(* Faulty variant: old_stateCnt is looked for behind all possible codes. *)
StateCntAtIn0P(m) == 3 + 2 * MaxCode
StateCntAt(m)     == 3 + 2 * CodeCnt(m)

StateCnt(m) == At(m, StateCntAt(m))
CodeWords(m)  == 2 .. 1 + 2 * CodeCnt(m)
StateWords(m) == StateCntAt(m) + 1 .. StateCntAt(m) + StateCnt(m)

Words(m, I) == [i \in 1 .. Cardinality(I) |-> At(m, Min(I) + i - 1)]

(* Faulty variant: the state is taken from In0P. *)
ArgumentsIn0P(m) ==
  Args(m.id, Words(m, CodeWords(m)), At(m, StateCntAt(m) - 1),
       [i \in 1 .. StateCnt(m) |-> At(m, 3 + 2 * MaxCode + i)])

Arguments(m) ==
  Args(m.id, Words(m, CodeWords(m)), At(m, StateCntAt(m) - 1), Words(m, StateWords(m)))

(* The checks of __MIG_check__Request, in their order. *)
Framed(m) ==
  /\ m.ports # "other count"
  /\ m.ports = "none" <=> m.id = raise_state
  /\ Len(m.body) >= Base(m.id)
  /\ Len(m.body) <= Base(m.id) + 2 * MaxCode + IF m.id = raise THEN 0 ELSE MaxState

Typed(m) == m.ports # "other type"

(* Faulty variant: the size is not compared with the number of codes.      *)
CodesUnchecked(m) == CodeCnt(m) <= MaxCode

CodesFit(m) ==
  /\ CodeCnt(m) <= MaxCode
  /\ (Len(m.body) - Base(m.id)) \div 2 >= CodeCnt(m)
  /\ m.id = raise => Len(m.body) = Base(m.id) + 2 * CodeCnt(m)

(* msgh_size without the codes.  CodesFit keeps it from wrapping around.   *)
StateFits(m) ==
  m.id # raise => /\ StateCnt(m) <= MaxState
                  /\ Len(m.body) = Base(m.id) + 2 * CodeCnt(m) + StateCnt(m)

CheckRequest(m) ==
  IF ~Framed(m) THEN "MIG_BAD_ARGUMENTS"
  ELSE IF ~Typed(m) THEN "MIG_TYPE_ERROR"
  ELSE IF CodesFit(m) /\ StateFits(m) THEN "MACH_MSG_SUCCESS"
  ELSE "MIG_BAD_ARGUMENTS"

(* The words that the check, and then the catch routine, look at. *)
WordsRead(m) ==
  UNION {IF Framed(m) /\ Typed(m) THEN {1} ELSE {},
         IF Framed(m) /\ Typed(m) /\ CodesFit(m) /\ m.id # raise THEN {StateCntAt(m)} ELSE {},
         IF CheckRequest(m) = "MACH_MSG_SUCCESS"
         THEN CodeWords(m) \cup IF m.id = raise THEN {} ELSE StateWords(m) \cup {StateCntAt(m) - 1}
         ELSE {}}

-------------------------------------------------------------------------------
(* The reply: a return code, or the code, flavor and new state.            *)

ErrorReply(id, ret) == [id |-> id + 100, ret |-> ret, size |-> 1, cnt |-> 0, state |-> << >>]

StateReply(id, state) ==
  [id |-> id + 100, ret |-> "KERN_SUCCESS", size |-> 3 + Len(state), cnt |-> Len(state), state |-> state]

SendOnceNotification == [id |-> 71, ret |-> "KERN_SUCCESS", size |-> 1, cnt |-> 0, state |-> << >>]

(* The checks of __MIG_check__Reply. *)
CheckReply(r, rep) ==
  IF rep.id # r + 100
    THEN IF rep.id = SendOnceNotification.id THEN "MIG_SERVER_DIED" ELSE "MIG_REPLY_MISMATCH"
  ELSE IF r = raise THEN IF rep.size # 1 THEN "MIG_TYPE_ERROR" ELSE rep.ret
  ELSE IF /\ rep.size \notin 3 .. 3 + MaxState
          /\ rep.size # 1 \/ rep.ret = "KERN_SUCCESS" THEN "MIG_TYPE_ERROR"
  ELSE IF rep.ret # "KERN_SUCCESS" THEN rep.ret
  ELSE IF rep.cnt > MaxState \/ rep.size # 3 + rep.cnt THEN "MIG_TYPE_ERROR"
  ELSE "KERN_SUCCESS"

-------------------------------------------------------------------------------
(* The calls and messages that are sent. *)

WordSeqs(S) == UNION {[1 .. n -> Word] : n \in S}

(* A call's codes, flavor and state are of one word. *)
Calls == {Args(r, [i \in 1 .. 2 * codeCnt |-> w], w, [i \in 1 .. stateCnt |-> w]) :
            r \in Routine, codeCnt \in 0 .. MaxCode, w \in Word, stateCnt \in 0 .. MaxState}

ForeignMessages(f) ==
  [id : raise - 1 .. raise_identity + 1,
   ports : {"none", "two ports", "other type", "other count"},
   from : {f}, n : {0}, port : {0}, body : WordSeqs(0 .. MaxBody)]

-------------------------------------------------------------------------------
(* The client stubs. *)

Out(c, ret, state) ==
  client' = [client EXCEPT ![c] = [pc |-> "out", n |-> client[c].n, ret |-> ret, state |-> state]]

Called(c) == client[c].n + 1

MayCall(c) == client[c].pc = "out" /\ MapThenSumSet(LAMBDA d : client[d].n, Client) < MaxCalls

CallTooLarge(c) ==
  /\ MayCall(c)
  /\ client' = [client EXCEPT ![c] = [pc |-> "out", n |-> Called(c),
                                      ret |-> "MIG_ARRAY_TOO_LARGE", state |-> << >>]]
  /\ caught' = [caught EXCEPT ![c] = Uncaught]
  /\ UNCHANGED <<port, inbox, queue, server, alive, touched>>

(* mach_msg refuses to send: the reply port stays cached. *)
SendInvalid(c) ==
  /\ MayCall(c)
  /\ ~alive
  /\ client' = [client EXCEPT ![c] = [pc |-> "out", n |-> Called(c),
                                      ret |-> "MACH_SEND_INVALID_DEST", state |-> << >>]]
  /\ caught' = [caught EXCEPT ![c] = Uncaught]
  /\ UNCHANGED <<port, inbox, queue, server, alive, touched>>

Send(c, a) ==
  /\ MayCall(c)
  /\ alive
  /\ Len(a.code) \div 2 <= MaxCode
  /\ a.r # raise => Len(a.state) <= MaxState
  /\ client' = [client EXCEPT ![c] = [pc |-> "sent", n |-> Called(c), args |-> a]]
  /\ queue' = Append(queue, Request(c, Called(c), a))
  /\ caught' = [caught EXCEPT ![c] = Uncaught]
  /\ UNCHANGED <<port, inbox, server, alive, touched>>

(* Faulty variant: the reply port stays cached. *)
ReplyPortKept(c) ==
  /\ client[c].pc = "sent"
  /\ Out(c, "MACH_RCV_TOO_LARGE", << >>)
  /\ UNCHANGED <<port, inbox, queue, server, alive, touched, caught>>

(* Faulty variant: the request is sent again. *)
SendAgain(c) ==
  /\ client[c].pc = "sent" /\ alive
  /\ queue' = Append(queue, Request(c, client[c].n, client[c].args))
  /\ UNCHANGED <<client, port, inbox, server, alive, touched, caught>>

(* mach_msg fails after the request is gone: the reply port is given up,   *)
(* and with it a reply that comes later.                                   *)
ReceiveFails(c) ==
  /\ client[c].pc = "sent"
  /\ Out(c, "MACH_RCV_TOO_LARGE", << >>)
  /\ port' = [port EXCEPT ![c] = @ + 1]
  /\ inbox' = [inbox EXCEPT ![c] = << >>]
  /\ UNCHANGED <<queue, server, alive, touched, caught>>

GetReply(c) ==
  /\ client[c].pc = "sent"
  /\ inbox[c] # << >>
  /\ LET rep == Head(inbox[c]) IN Out(c, CheckReply(client[c].args.r, rep), rep.state)
  /\ inbox' = [inbox EXCEPT ![c] = Tail(@)]
  /\ UNCHANGED <<port, queue, server, alive, touched, caught>>

(* A message of a sender that does not use these stubs (bound: one at a    *)
(* time, and none after one was refused).                                  *)
SendForeign(f) ==
  /\ alive
  /\ server = Ready /\ queue = << >> /\ touched = Untouched
  /\ \E m \in ForeignMessages(f) : queue' = Append(queue, m)
  /\ UNCHANGED <<client, port, inbox, server, alive, touched, caught>>

-------------------------------------------------------------------------------
(* The server. *)

(* A reply reaches the client if its port is still there. *)
Answer(m, rep) ==
  inbox' = IF m.from \in Client /\ m.port = port[m.from]
           THEN [inbox EXCEPT ![m.from] = Append(@, rep)]
           ELSE inbox

Touch(m) == touched' = [words |-> WordsRead(m), size |-> Len(m.body)]

Dequeue == alive /\ server = Ready /\ queue # << >> /\ queue' = Tail(queue)

(* mach_exc_server finds no routine; mach_msg_server_once still replies.   *)
BadId ==
  /\ Dequeue
  /\ LET m == Head(queue) IN m.id \notin Routine /\ Answer(m, ErrorReply(m.id, "MIG_BAD_ID"))
  /\ UNCHANGED <<client, port, server, alive, touched, caught>>

Refuse ==
  /\ Dequeue
  /\ LET m == Head(queue) IN
       /\ m.id \in Routine
       /\ CheckRequest(m) # "MACH_MSG_SUCCESS"
       /\ Touch(m)
       /\ Answer(m, ErrorReply(m.id, CheckRequest(m)))
  /\ UNCHANGED <<client, port, server, alive, caught>>

CallCatch ==
  /\ Dequeue
  /\ LET m == Head(queue) IN
       /\ m.id \in Routine
       /\ CheckRequest(m) = "MACH_MSG_SUCCESS"
       /\ Touch(m)
       /\ server' = [pc |-> "catch", m |-> m]
  /\ UNCHANGED <<client, port, inbox, alive, caught>>

(* Faulty variant: it fails with MIG_NO_REPLY, and no reply is sent. *)
CatchReturnsNoReply(ret, state) ==
  /\ server.pc = "catch"
  /\ ret = "KERN_FAILURE" /\ state = << >>
  /\ server' = Ready
  /\ UNCHANGED <<client, port, inbox, queue, alive, touched, caught>>

(* The catch routine returns.  Those of exception_handler.cc for the other *)
(* two routines always fail; the stubs are modelled for any that keeps     *)
(* within the state it is given.                                           *)
CatchReturns(ret, state) ==
  /\ server.pc = "catch"
  /\ LET m == server.m IN
       /\ m.id = raise \/ ret # "KERN_SUCCESS" => state = << >>
       /\ caught' = IF m.from \in Client /\ m.n = client[m.from].n
                    THEN [caught EXCEPT ![m.from] = [ret |-> ret, state |-> state]]
                    ELSE caught
       /\ Answer(m, IF m.id # raise /\ ret = "KERN_SUCCESS"
                    THEN StateReply(m.id, state) ELSE ErrorReply(m.id, ret))
  /\ server' = Ready
  /\ touched' = Untouched
  /\ UNCHANGED <<client, port, queue, alive>>

(* The task goes away: the kernel tells whoever waits for a reply. *)
Unanswered == ToSet(queue) \cup IF server = Ready THEN {} ELSE {server.m}

ServerDies ==
  /\ alive
  /\ alive' = FALSE
  /\ queue' = << >>
  /\ server' = Ready
  /\ inbox' = [c \in Client |->
                 IF \E m \in Unanswered : m.from = c /\ m.port = port[c]
                 THEN Append(inbox[c], SendOnceNotification) ELSE inbox[c]]
  /\ UNCHANGED <<client, port, touched, caught>>

-------------------------------------------------------------------------------
Serve ==
  \/ BadId
  \/ Refuse
  \/ CallCatch
  \/ \E ret \in {"KERN_SUCCESS", "KERN_FAILURE"}, state \in WordSeqs(0 .. MaxState) :
       CatchReturns(ret, state)

Next ==
  \/ \E c \in Client : \/ CallTooLarge(c)
                       \/ SendInvalid(c)
                       \/ \E a \in Calls : Send(c, a)
                       \/ ReceiveFails(c)
                       \/ GetReply(c)
  \/ \E f \in Foreign : SendForeign(f)
  \/ Serve
  \/ ServerDies

Spec == Init /\ [][Next]_vars

-------------------------------------------------------------------------------
(***************************************************************************)
(* Whatever the counts of a request say, the server reads its codes, its   *)
(* counts and its state inside the message: also the count that is found   *)
(* by way of the other one, which is read before it is checked.            *)
(***************************************************************************)
ReadsInside == touched.words \subseteq 1 .. touched.size

(***************************************************************************)
(* The catch routine is called with the arguments of the client's call:    *)
(* the two stubs agree where codes that are not there leave the rest.      *)
(***************************************************************************)
ArgumentsArrive ==
  \A c \in Client :
    /\ client[c].pc = "sent"
    /\ server # Ready /\ server.m.from = c /\ server.m.n = client[c].n
    => Arguments(server.m) = client[c].args

(***************************************************************************)
(* Neither stub takes the other's message for a malformed one, whatever    *)
(* the numbers of codes and state words and whatever the server answered.  *)
(***************************************************************************)
StubsAgree ==
  \A c \in Client :
    client[c].pc = "out" =>
      client[c].ret \notin {"MIG_BAD_ID", "MIG_BAD_ARGUMENTS", "MIG_TYPE_ERROR", "MIG_REPLY_MISMATCH"}

(***************************************************************************)
(* A call of the client stub succeeds only with the success, and the       *)
(* state, that the catch routine gave to that call: never with a late      *)
(* reply to an earlier call that failed on its way.                        *)
(***************************************************************************)
SuccessIsOwn ==
  \A c \in Client :
    client[c].pc = "out" /\ client[c].ret = "KERN_SUCCESS" =>
      caught[c] = [ret |-> "KERN_SUCCESS", state |-> client[c].state]

(***************************************************************************)
(* A client that waits has its request on the port or with the server, or  *)
(* a message on its reply port: no thread is left waiting for an answer    *)
(* that nobody owes it.                                                    *)
(***************************************************************************)
WaitingIsOwed ==
  \A c \in Client :
    client[c].pc = "sent" => \/ inbox[c] # << >>
                             \/ \E m \in Unanswered : m.from = c /\ m.n = client[c].n

(***************************************************************************)
(* Client stub, queue and server stub together are a remote call: however  *)
(* requests, replies and the server's death fall, the catch routine runs   *)
(* at most once for a call and never for one that was refused, and the     *)
(* call ends with its own answer or with a failure of the way.             *)
(***************************************************************************)
Ending(ret, state) == [ret |-> ret, state |-> state]

RemoteCall == INSTANCE ExceptionCall WITH
  Answers  <- {Ending("KERN_SUCCESS", state) : state \in WordSeqs(0 .. MaxState)}
                \cup {Ending("KERN_FAILURE", << >>)},
  Failures <- {Ending("MACH_RCV_TOO_LARGE", << >>), Ending("MIG_SERVER_DIED", << >>)},
  Refusals <- {Ending("MIG_ARRAY_TOO_LARGE", << >>), Ending("MACH_SEND_INVALID_DEST", << >>)},
  Nothing  <- Uncaught,
  waiting  <- {c \in Client : client[c].pc = "sent"},
  result   <- [c \in Client |-> IF client[c].pc = "sent" THEN Uncaught
                                ELSE Ending(client[c].ret, client[c].state)],
  answered <- caught

ImplementsRemoteCall == RemoteCall!Spec
===============================================================================
