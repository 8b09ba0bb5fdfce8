------------------------- MODULE ExceptionMessagesProofs -------------------------
(***************************************************************************)
(* The exchange of requests and replies, for any clients and senders,      *)
(* numbers of codes and state words, and calls.                            *)
(*                                                                         *)
(* The argument is about the requests nobody has answered.  A client has   *)
(* at most one of each call; that of its present call names the reply port *)
(* the client has cached, and while it is there no reply is, nor has the   *)
(* catch routine run.  Those of earlier calls name reply ports that have   *)
(* been given up.                                                          *)
(***************************************************************************)
EXTENDS ExceptionMessages, FiniteSetTheorems, SequenceTheorems, TLAPS

-------------------------------------------------------------------------------
(* The shape of the state. *)

States == WordSeqs(0 .. MaxState)

(* What a call ends with. *)
Failed   == {"none", "MIG_ARRAY_TOO_LARGE", "MACH_SEND_INVALID_DEST", "MACH_RCV_TOO_LARGE",
             "MIG_SERVER_DIED"}
Answered == {"KERN_SUCCESS", "KERN_FAILURE"}

OutOfCall == [pc : {"out"}, n : Nat, ret : Failed \cup Answered, state : States]
InCall    == [pc : {"sent"}, n : Nat, args : Calls]

(* What is sent with the arguments a. *)
Body(a) == <<Len(a.code) \div 2>> \o a.code
           \o IF a.r = raise THEN << >> ELSE <<a.flavor, Len(a.state)>> \o a.state

Message(c, n, p, a) ==
  [id |-> a.r, ports |-> Ports(a.r), from |-> c, n |-> n, port |-> p, body |-> Body(a)]

Messages == {Message(c, n, p, a) : c \in Client, n \in Nat, p \in Nat, a \in Calls}
              \cup UNION {ForeignMessages(f) : f \in Foreign}

Replies == [id : Nat, ret : Answered, size : Nat, cnt : Nat, state : States]

TypeOK ==
  /\ client \in [Client -> OutOfCall \cup InCall]
  /\ port \in [Client -> Nat]
  /\ inbox \in [Client -> {<< >>} \cup {<<rep>> : rep \in Replies}]
  /\ queue \in Seq(Messages)
  /\ server \in {Ready} \cup [pc : {"catch"}, m : Messages]
  /\ alive \in BOOLEAN
  /\ caught \in [Client -> {Uncaught} \cup {Ending(ret, s) : ret \in Answered, s \in States}]

-------------------------------------------------------------------------------
(* The inductive invariant. *)

(* A request nobody has answered: its client has given up the call and the *)
(* reply port, or waits for the answer, or is in a later call.             *)
Standing(m) ==
  m.from \in Client =>
    /\ m.n <= client[m.from].n
    /\ m.n < client[m.from].n => m.port < port[m.from]
    /\ m.n = client[m.from].n =>
         /\ caught[m.from] = Uncaught
         /\ \/ /\ client[m.from].pc = "sent"
               /\ m.port = port[m.from]
               /\ inbox[m.from] = << >>
               /\ m.id = client[m.from].args.r
               /\ m.ports = Ports(client[m.from].args.r)
               /\ m.body = Body(client[m.from].args)
            \/ /\ client[m.from].pc = "out"
               /\ m.port < port[m.from]
               /\ client[m.from].ret = "MACH_RCV_TOO_LARGE"
               /\ client[m.from].state = << >>

(* No call has two requests. *)
Same(m, k) == m.from \in Client /\ m.from = k.from /\ m.n = k.n

NoneTwice ==
  /\ \A i, j \in 1 .. Len(queue) : Same(queue[i], queue[j]) => i = j
  /\ server # Ready => \A i \in 1 .. Len(queue) : ~ Same(queue[i], server.m)

Waits(c) == \E m \in Unanswered : m.from = c /\ m.n = client[c].n

(* What the catch routine may answer to a call of routine r, and the reply *)
(* that carries it.                                                        *)
Answers(r) == {Ending("KERN_FAILURE", << >>)}
                \cup {Ending("KERN_SUCCESS", s) : s \in IF r = raise THEN {<< >>} ELSE States}

ReplyTo(r, a) == IF r # raise /\ a.ret = "KERN_SUCCESS"
                 THEN StateReply(r, a.state) ELSE ErrorReply(r, a.ret)

(* A client that waits has one request or one message; one that does not   *)
(* has neither, and its result is the answer, or a failure.                *)
HasAnswer(c, rep) == /\ caught[c] \in Answers(client[c].args.r)
                     /\ rep = ReplyTo(client[c].args.r, caught[c])

ClientOK(c) ==
  /\ client[c].pc = "sent" =>
       \/ inbox[c] = << >> /\ Waits(c)
       \/ \E rep : inbox[c] = <<rep>> /\ (rep = SendOnceNotification \/ HasAnswer(c, rep))
  /\ client[c].pc = "out" =>
       /\ inbox[c] = << >>
       /\ client[c].ret \in Answered => caught[c] = Ending(client[c].ret, client[c].state)
       /\ client[c].ret \in Failed => client[c].state = << >>

DeadIsEmpty == ~ alive => queue = << >> /\ server = Ready

IInv ==
  /\ TypeOK
  /\ \A m \in Unanswered : Standing(m)
  /\ NoneTwice
  /\ \A c \in Client : ClientOK(c)
  /\ DeadIsEmpty
  /\ ReadsInside

-------------------------------------------------------------------------------
(* Requests. *)

(* The codes, flavor and state of a call. *)
LEMMA CallShape ==
  ASSUME NEW a \in Calls
  PROVE  /\ a.r \in Routine
         /\ \E k \in 0 .. MaxCode : k \in Nat /\ a.code \in Seq(Nat) /\ Len(a.code) = 2 * k
         /\ a.r = raise => a = [r |-> raise, code |-> a.code]
         /\ a.r # raise => /\ a = [r |-> a.r, code |-> a.code, flavor |-> a.flavor,
                                   state |-> a.state]
                           /\ a.flavor \in Nat
                           /\ a.state \in Seq(Nat)
                           /\ Len(a.state) \in 0 .. MaxState
<1>1. PICK r \in Routine, k \in 0 .. MaxCode, w \in Word, s \in 0 .. MaxState :
        a = Args(r, [i \in 1 .. 2 * k |-> w], w, [i \in 1 .. s |-> w])
  BY DEF Calls, Args
<1>2. w \in Nat /\ k \in Nat /\ s \in Nat /\ 2 * k \in Nat
  BY <1>1, WordAssumption, MaxAssumption
<1>3. ASSUME NEW j \in Nat
      PROVE  [i \in 1 .. j |-> w] \in Seq(Nat) /\ Len([i \in 1 .. j |-> w]) = j
  BY <1>2, <1>3
<1>4. PICK code : code = [i \in 1 .. 2 * k |-> w]
  OBVIOUS
<1>5. PICK state : state = [i \in 1 .. s |-> w]
  OBVIOUS
<1>6. a = Args(r, code, w, state)
  BY <1>1, <1>4, <1>5
<1>7. code \in Seq(Nat) /\ Len(code) = 2 * k /\ state \in Seq(Nat) /\ Len(state) = s
  BY <1>2, <1>3, <1>4, <1>5
<1>8. CASE r = raise
  BY <1>1, <1>2, <1>6, <1>7, <1>8 DEF Args
<1>9. CASE r # raise
  BY <1>1, <1>2, <1>6, <1>7, <1>9 DEF Args
<1> QED
  BY <1>8, <1>9

(* Word by word, the body of its request. *)
LEMMA BodyWords ==
  ASSUME NEW a \in Calls, NEW k \in Nat, Len(a.code) = 2 * k, a.code \in Seq(Nat)
  PROVE  /\ Body(a) \in Seq(Nat)
         /\ Body(a)[1] = k
         /\ \A i \in 1 .. 2 * k : Body(a)[1 + i] = a.code[i]
         /\ a.r = raise => Len(Body(a)) = 1 + 2 * k
         /\ a.r # raise => /\ Len(Body(a)) = 3 + 2 * k + Len(a.state)
                           /\ Body(a)[2 + 2 * k] = a.flavor
                           /\ Body(a)[3 + 2 * k] = Len(a.state)
                           /\ \A j \in 1 .. Len(a.state) : Body(a)[3 + 2 * k + j] = a.state[j]
<1>1. (2 * k) \div 2 = k
  OBVIOUS
<1>2. PICK h : h = <<k>> \o a.code
  OBVIOUS
<1>3. <<k>> \in Seq(Nat) /\ Len(<<k>>) = 1 /\ <<k>>[1] = k
  OBVIOUS
<1>4. /\ h \in Seq(Nat) /\ Len(h) = 1 + 2 * k
      /\ \A i \in 1 .. 1 + 2 * k : h[i] = IF i <= 1 THEN <<k>>[i] ELSE a.code[i - 1]
  BY <1>2, <1>3, ConcatProperties
<1>5. h[1] = k
  BY <1>3, <1>4
<1>6. \A i \in 1 .. 2 * k : h[1 + i] = a.code[i]
  <2> SUFFICES ASSUME NEW i \in 1 .. 2 * k PROVE h[1 + i] = a.code[i]
    OBVIOUS
  <2>1. 1 + i \in 1 .. 1 + 2 * k /\ ~ (1 + i <= 1) /\ (1 + i) - 1 = i
    OBVIOUS
  <2> QED
    BY <1>4, <2>1
<1>7. CASE a.r = raise
  <2>1. Body(a) = h \o << >>
    BY <1>1, <1>2, <1>7 DEF Body
  <2>2. Body(a) = h
    BY <1>4, <2>1, ConcatEmptySeq
  <2> QED
    BY <1>4, <1>5, <1>6, <1>7, <2>2
<1>8. CASE a.r # raise
  <2>1. PICK s, l : s = a.state /\ l = Len(a.state)
    OBVIOUS
  <2>2. a.flavor \in Nat /\ s \in Seq(Nat) /\ Len(s) = l /\ l \in Nat
    BY <1>8, <2>1, CallShape
  <2>3. PICK g : g = <<a.flavor, l>>
    OBVIOUS
  <2>4. g \in Seq(Nat) /\ Len(g) = 2 /\ g[1] = a.flavor /\ g[2] = l
    BY <2>2, <2>3
  <2>5. PICK t : t = g \o s
    OBVIOUS
  <2>6. /\ t \in Seq(Nat) /\ Len(t) = Len(g) + Len(s)
        /\ \A i \in 1 .. Len(g) + Len(s) : t[i] = IF i <= Len(g) THEN g[i] ELSE s[i - Len(g)]
    BY <2>2, <2>4, <2>5, ConcatProperties
  <2>7. Len(t) = 2 + l /\ \A i \in 1 .. 2 + l : t[i] = IF i <= 2 THEN g[i] ELSE s[i - 2]
    BY <2>2, <2>4, <2>6
  <2>8. Body(a) = h \o t
    BY <1>1, <1>2, <1>8, <2>1, <2>3, <2>5 DEF Body
  <2>9. /\ Body(a) \in Seq(Nat) /\ Len(Body(a)) = Len(h) + Len(t)
        /\ \A i \in 1 .. Len(h) + Len(t) :
             Body(a)[i] = IF i <= Len(h) THEN h[i] ELSE t[i - Len(h)]
    <3>1. h \in Seq(Nat) /\ t \in Seq(Nat)
      BY <1>4, <2>6
    <3> QED
      BY <2>8, <3>1, ConcatProperties
  <2>10. PICK f : f = 1 + 2 * k
    OBVIOUS
  <2>11. f \in Nat /\ Len(h) = f /\ Len(h) + Len(t) = f + 2 + l
    BY <1>4, <2>2, <2>7, <2>10
  <2>12. /\ Len(Body(a)) = f + 2 + l
         /\ \A i \in 1 .. f + 2 + l : Body(a)[i] = IF i <= f THEN h[i] ELSE t[i - f]
    BY <2>9, <2>11
  <2>13. Body(a)[1] = k /\ \A i \in 1 .. 2 * k : Body(a)[1 + i] = a.code[i]
    <3>1. \A i \in 1 .. f : Body(a)[i] = h[i]
      BY <2>2, <2>11, <2>12
    <3>2. 1 \in 1 .. f /\ \A i \in 1 .. 2 * k : 1 + i \in 1 .. f
      BY <2>10
    <3> QED
      BY <1>5, <1>6, <3>1, <3>2
  <2>14. \A j \in 1 .. 2 + l : Body(a)[f + j] = t[j]
    <3> SUFFICES ASSUME NEW j \in 1 .. 2 + l PROVE Body(a)[f + j] = t[j]
      OBVIOUS
    <3>1. f + j \in 1 .. f + 2 + l /\ ~ (f + j <= f) /\ (f + j) - f = j
      BY <2>2, <2>11
    <3> QED
      BY <2>12, <3>1
  <2>15. Body(a)[f + 1] = a.flavor /\ Body(a)[f + 2] = l
    BY <2>2, <2>4, <2>7, <2>14
  <2>16. ASSUME NEW j \in 1 .. l PROVE Body(a)[f + (2 + j)] = s[j]
    <3>1. 2 + j \in 1 .. 2 + l /\ ~ (2 + j <= 2) /\ (2 + j) - 2 = j
      BY <2>2
    <3> QED
      BY <2>7, <2>14, <3>1
  <2>17. /\ f + 1 = 2 + 2 * k /\ f + 2 = 3 + 2 * k /\ f + 2 + l = 3 + 2 * k + l
         /\ \A j \in 1 .. l : f + (2 + j) = 3 + 2 * k + j
    BY <2>2, <2>10
  <2> QED
    BY <1>8, <2>1, <2>9, <2>12, <2>13, <2>15, <2>16, <2>17
<1> QED
  BY <1>7, <1>8

(* An interval has its least element first. *)
LEMMA WordsOfInterval ==
  ASSUME NEW m, NEW lo \in Nat, NEW size \in Nat
  PROVE  Words(m, lo .. lo + size - 1) = [i \in 1 .. size |-> At(m, lo + i - 1)]
<1>1. PICK I : I = lo .. lo + size - 1
  OBVIOUS
<1>2. Cardinality(I) = size
  BY <1>1, FS_Interval
<1>3. ASSUME size # 0 PROVE Min(I) = lo
  <2>1. lo \in I /\ \A j \in I : lo <= j
    BY <1>1, <1>3
  <2>2. \A x \in I : (\A j \in I : x <= j) => x = lo
    BY <1>1, <2>1
  <2> QED
    BY <2>1, <2>2 DEF Min
<1>4. Words(m, I) = [i \in 1 .. size |-> At(m, Min(I) + i - 1)]
  BY <1>2 DEF Words
<1>5. CASE size = 0
  <2>1. 1 .. size = {}
    BY <1>5
  <2> QED
    BY <1>1, <1>4, <2>1
<1>6. CASE size # 0
  BY <1>1, <1>3, <1>4, <1>6
<1> QED
  BY <1>5, <1>6

(* The server finds the counts where the client has put them. *)
LEMMA Counts ==
  ASSUME NEW a \in Calls, NEW k \in Nat, Len(a.code) = 2 * k, a.code \in Seq(Nat),
         NEW m, m.body = Body(a)
  PROVE  /\ \A i \in 1 .. Len(Body(a)) : At(m, i) = Body(a)[i]
         /\ Len(Body(a)) \in Nat \ {0}
         /\ CodeCnt(m) = k
         /\ CodeWords(m) = 2 .. 2 + 2 * k - 1
         /\ a.r # raise => /\ StateCntAt(m) = 3 + 2 * k
                           /\ StateCnt(m) = Len(a.state)
                           /\ StateWords(m) = 4 + 2 * k .. 4 + 2 * k + Len(a.state) - 1
<1>1. PICK l : l = Len(Body(a))
  OBVIOUS
<1>2. /\ Body(a) \in Seq(Nat) /\ Body(a)[1] = k
      /\ a.r = raise => l = 1 + 2 * k
  BY <1>1, BodyWords
<1> DEFINE s == Len(a.state)
<1>0. a.r # raise => s \in Nat /\ l = 3 + 2 * k + s /\ Body(a)[3 + 2 * k] = s
  <2>1. a.r # raise => l = 3 + 2 * k + s /\ Body(a)[3 + 2 * k] = s
    BY <1>1, BodyWords
  <2>2. a.r # raise => s \in Nat
    BY CallShape
  <2> QED
    BY <2>1, <2>2
<1> HIDE DEF s
<1>3. l \in Nat \ {0} /\ 1 \in 1 .. l
  BY <1>0, <1>2
<1>4. DOMAIN Body(a) = 1 .. l
  BY <1>1, <1>2, LenProperties
<1>5. \A i \in 1 .. l : At(m, i) = Body(a)[i]
  BY <1>4 DEF At
<1>6. CodeCnt(m) = k
  BY <1>2, <1>3, <1>5 DEF CodeCnt
<1>7. CodeWords(m) = 2 .. 2 + 2 * k - 1
  <2>1. 1 + 2 * k = 2 + 2 * k - 1
    OBVIOUS
  <2> QED
    BY <1>6, <2>1 DEF CodeWords
<1>8. ASSUME a.r # raise
      PROVE  /\ StateCntAt(m) = 3 + 2 * k
             /\ StateCnt(m) = s
             /\ StateWords(m) = 4 + 2 * k .. 4 + 2 * k + s - 1
  <2>1. StateCntAt(m) = 3 + 2 * k
    BY <1>6 DEF StateCntAt
  <2>2. 3 + 2 * k \in 1 .. l
    BY <1>0, <1>8
  <2>3. StateCnt(m) = s
    BY <1>0, <1>5, <1>8, <2>1, <2>2 DEF StateCnt
  <2>4. 3 + 2 * k + 1 = 4 + 2 * k /\ 3 + 2 * k + s = 4 + 2 * k + s - 1
    BY <1>0, <1>8
  <2> QED
    BY <2>1, <2>3, <2>4 DEF StateWords
<1> QED
  BY <1>1, <1>3, <1>5, <1>6, <1>7, <1>8 DEF s

(* The server accepts every request of a client stub, *)
LEMMA ClientIsAccepted ==
  ASSUME NEW a \in Calls, NEW m, m.id = a.r, m.ports = Ports(a.r), m.body = Body(a)
  PROVE  m.id \in Routine /\ CheckRequest(m) = "MACH_MSG_SUCCESS"
<1>1. PICK k \in 0 .. MaxCode : k \in Nat /\ a.code \in Seq(Nat) /\ Len(a.code) = 2 * k
  BY CallShape
<1>2. a.r \in Routine
  BY CallShape
<1>3. PICK l : l = Len(Body(a))
  OBVIOUS
<1>4. CodeCnt(m) = k
  BY <1>1, Counts
<1>5. k <= MaxCode /\ MaxCode \in Nat /\ MaxState \in Nat
  BY <1>1, MaxAssumption
<1>6. CASE a.r = raise
  <2>1. l = 1 + 2 * k
    BY <1>1, <1>3, <1>6, BodyWords
  <2>2. Base(m.id) = 1 /\ m.ports = "two ports" /\ m.id = raise /\ m.id # raise_state
    <3>1. raise # raise_state
      BY DEF raise, raise_state
    <3> QED
      BY <1>6, <3>1 DEF Base, Ports
  <2>3. Framed(m)
    <3>1. l <= 1 + 2 * MaxCode + 0 /\ l >= 1
      BY <1>1, <1>5, <2>1
    <3> QED
      BY <1>3, <2>2, <3>1 DEF Framed
  <2>4. Typed(m)
    BY <2>2 DEF Typed
  <2>5. (l - 1) \div 2 = k
    BY <1>1, <2>1
  <2>6. CodesFit(m)
    <3>1. (l - 1) \div 2 >= k
      BY <1>1, <2>5
    <3> QED
      BY <1>3, <1>4, <1>5, <2>1, <2>2, <3>1 DEF CodesFit
  <2>7. StateFits(m)
    BY <2>2 DEF StateFits
  <2> QED
    BY <1>2, <2>3, <2>4, <2>6, <2>7 DEF CheckRequest
<1>7. CASE a.r # raise
  <2>1. PICK s : s = Len(a.state)
    OBVIOUS
  <2>2. s \in Nat /\ s <= MaxState
    BY <1>5, <1>7, <2>1, CallShape
  <2>3. l = 3 + 2 * k + s
    BY <1>1, <1>3, <1>7, <2>1, BodyWords
  <2>4. StateCnt(m) = s
    BY <1>1, <1>7, <2>1, Counts
  <2>5. Base(m.id) = 3 /\ m.id # raise /\ m.ports # "other count" /\ m.ports # "other type"
        /\ (m.ports = "none" <=> m.id = raise_state)
    BY <1>7 DEF Base, Ports
  <2>6. Framed(m)
    <3>1. l <= 3 + 2 * MaxCode + MaxState /\ l >= 3
      BY <1>1, <1>5, <2>2, <2>3
    <3> QED
      BY <1>3, <2>5, <3>1 DEF Framed
  <2>7. Typed(m)
    BY <2>5 DEF Typed
  <2>8. (l - 3) \div 2 >= k
    BY <1>1, <2>2, <2>3
  <2>9. CodesFit(m)
    BY <1>3, <1>4, <1>5, <2>5, <2>8 DEF CodesFit
  <2>10. StateFits(m)
    BY <1>3, <1>4, <2>2, <2>3, <2>4, <2>5 DEF StateFits
  <2> QED
    BY <1>2, <2>6, <2>7, <2>9, <2>10 DEF CheckRequest
<1> QED
  BY <1>6, <1>7

(* and calls the catch routine with the arguments of the call. *)
LEMMA ClientIsUnderstood ==
  ASSUME NEW a \in Calls, NEW m, m.id = a.r, m.ports = Ports(a.r), m.body = Body(a)
  PROVE  Arguments(m) = a
<1>1. PICK k \in 0 .. MaxCode : k \in Nat /\ a.code \in Seq(Nat) /\ Len(a.code) = 2 * k
  BY CallShape
<1>2. PICK l : l = Len(Body(a))
  OBVIOUS
<1>3. \A i \in 1 .. l : At(m, i) = Body(a)[i]
  BY <1>1, <1>2, Counts
<1>4. PICK code : code = a.code
  OBVIOUS
<1>5. code \in [1 .. 2 * k -> Nat] /\ \A i \in 1 .. 2 * k : Body(a)[1 + i] = code[i]
  BY <1>1, <1>4, LenProperties, BodyWords
<1>6. \A i \in 1 .. 2 * k : At(m, 2 + i - 1) = code[i]
  <2>1. \A i \in 1 .. 2 * k : 2 + i - 1 = 1 + i
    BY <1>1
  <2>2. l >= 1 + 2 * k
    BY <1>1, <1>2, BodyWords, CallShape
  <2>3. \A i \in 1 .. 2 * k : 1 + i \in 1 .. l
    <3>1. l \in Nat
      BY <1>1, <1>2, Counts
    <3> QED
      BY <1>1, <2>2, <3>1
  <2> QED
    BY <1>3, <1>5, <2>1, <2>3
<1>7. Words(m, CodeWords(m)) = code
  <2>1. PICK lo, n : lo = 2 /\ n = 2 * k
    OBVIOUS
  <2>2. lo \in Nat /\ n \in Nat
    BY <1>1, <2>1
  <2>3. Words(m, lo .. lo + n - 1) = [i \in 1 .. n |-> At(m, lo + i - 1)]
    BY <2>2, WordsOfInterval
  <2>4. CodeWords(m) = lo .. lo + n - 1
    BY <1>1, <2>1, Counts
  <2>5. code = [i \in 1 .. n |-> At(m, lo + i - 1)]
    BY <1>5, <1>6, <2>1
  <2> QED
    BY <2>3, <2>4, <2>5
<1>8. CASE a.r = raise
  BY <1>4, <1>7, <1>8, CallShape DEF Arguments, Args
<1>9. CASE a.r # raise
  <2>1. PICK s, state : s = Len(a.state) /\ state = a.state
    OBVIOUS
  <2>2. s \in Nat /\ state \in Seq(Nat) /\ Len(state) = s /\ state \in [1 .. s -> Nat]
    BY <1>9, <2>1, CallShape, LenProperties, MaxAssumption
  <2>3. /\ l = 3 + 2 * k + s
        /\ Body(a)[2 + 2 * k] = a.flavor
        /\ \A j \in 1 .. s : Body(a)[3 + 2 * k + j] = state[j]
    BY <1>1, <1>2, <1>9, <2>1, BodyWords
  <2>4. StateCntAt(m) = 3 + 2 * k /\ StateWords(m) = 4 + 2 * k .. 4 + 2 * k + s - 1
    BY <1>1, <1>9, <2>1, Counts
  <2>5. At(m, StateCntAt(m) - 1) = a.flavor
    <3>1. 3 + 2 * k - 1 = 2 + 2 * k /\ 2 + 2 * k \in 1 .. l
      BY <1>1, <2>2, <2>3
    <3> QED
      BY <1>3, <2>3, <2>4, <3>1
  <2>6. \A j \in 1 .. s : At(m, 4 + 2 * k + j - 1) = state[j]
    <3> SUFFICES ASSUME NEW j \in 1 .. s PROVE At(m, 4 + 2 * k + j - 1) = state[j]
      OBVIOUS
    <3>1. 4 + 2 * k + j - 1 = 3 + 2 * k + j /\ 3 + 2 * k + j \in 1 .. l
      BY <1>1, <2>2, <2>3
    <3> QED
      BY <1>3, <2>3, <3>1
  <2>7. Words(m, StateWords(m)) = state
    <3>1. PICK lo : lo = 4 + 2 * k
      OBVIOUS
    <3>2. lo \in Nat /\ s \in Nat
      BY <1>1, <2>2, <3>1
    <3>3. Words(m, lo .. lo + s - 1) = [i \in 1 .. s |-> At(m, lo + i - 1)]
      BY <3>2, WordsOfInterval
    <3>4. StateWords(m) = lo .. lo + s - 1
      BY <2>4, <3>1
    <3>5. state = [i \in 1 .. s |-> At(m, lo + i - 1)]
      BY <2>2, <2>6, <3>1
    <3> QED
      BY <3>3, <3>4, <3>5
  <2>8. Arguments(m) = Args(a.r, code, a.flavor, state)
    BY <1>7, <2>5, <2>7 DEF Arguments
  <2> QED
    BY <1>4, <1>9, <2>1, <2>8, CallShape DEF Args
<1> QED
  BY <1>8, <1>9

(* Whatever a message says of its counts, it is read inside. *)
LEMMA MessageReadInside ==
  ASSUME NEW m, m.body \in Seq(Nat)
  PROVE  WordsRead(m) \subseteq 1 .. Len(m.body)
<1>1. PICK l : l = Len(m.body)
  OBVIOUS
<1>2. l \in Nat /\ DOMAIN m.body = 1 .. l /\ \A i \in 1 .. l : m.body[i] \in Nat
  BY <1>1, LenProperties, ElementOfSeq
<1>3. \A i : At(m, i) \in Nat
  BY <1>2 DEF At
<1>4. PICK k : k = CodeCnt(m)
  OBVIOUS
<1>5. PICK s : s = StateCnt(m)
  OBVIOUS
<1>6. k \in Nat /\ s \in Nat
  BY <1>3, <1>4, <1>5 DEF CodeCnt, StateCnt
<1>7. StateCntAt(m) = 3 + 2 * k
  BY <1>4 DEF StateCntAt
<1>8. ASSUME Framed(m) PROVE 1 \in 1 .. l
  <2>1. l >= Base(m.id) /\ Base(m.id) \in {1, 3}
    BY <1>1, <1>8 DEF Framed, Base
  <2> QED
    BY <1>2, <2>1
<1>9. ASSUME Framed(m), CodesFit(m) PROVE l >= Base(m.id) + 2 * k
  <2>1. l >= Base(m.id) /\ (l - Base(m.id)) \div 2 >= k /\ Base(m.id) \in {1, 3}
    BY <1>1, <1>4, <1>9 DEF Framed, CodesFit, Base
  <2>2. CASE Base(m.id) = 1
    BY <1>2, <1>6, <2>1, <2>2
  <2>3. CASE Base(m.id) = 3
    BY <1>2, <1>6, <2>1, <2>3
  <2> QED
    BY <2>1, <2>2, <2>3
<1>10. ASSUME Framed(m), CodesFit(m), m.id # raise PROVE StateCntAt(m) \in 1 .. l
  <2>1. l >= 3 + 2 * k
    BY <1>9, <1>10 DEF Base
  <2> QED
    BY <1>2, <1>6, <1>7, <2>1
<1>11. ASSUME Framed(m), CodesFit(m) PROVE CodeWords(m) \subseteq 1 .. l
  <2>1. l >= 1 + 2 * k
    BY <1>2, <1>6, <1>9, <1>11 DEF Base
  <2> QED
    BY <1>2, <1>4, <1>6, <2>1 DEF CodeWords
<1>12. ASSUME Framed(m), CodesFit(m), StateFits(m), m.id # raise
       PROVE  StateWords(m) \cup {StateCntAt(m) - 1} \subseteq 1 .. l
  <2>1. l = 3 + 2 * k + s
    BY <1>1, <1>4, <1>5, <1>12 DEF StateFits, Base
  <2>2. StateWords(m) = 3 + 2 * k + 1 .. 3 + 2 * k + s
    BY <1>5, <1>7 DEF StateWords
  <2>3. 3 + 2 * k - 1 \in 1 .. l
    BY <1>2, <1>6, <2>1
  <2>4. 3 + 2 * k + 1 .. 3 + 2 * k + s \subseteq 1 .. l
    BY <1>2, <1>6, <2>1
  <2>5. StateCntAt(m) - 1 \in 1 .. l
    BY <1>6, <1>7, <2>3
  <2> QED
    BY <2>2, <2>4, <2>5
<1>13. CheckRequest(m) = "MACH_MSG_SUCCESS" => Framed(m) /\ CodesFit(m) /\ StateFits(m)
  BY DEF CheckRequest
<1> QED
  BY <1>1, <1>8, <1>10, <1>11, <1>12, <1>13 DEF WordsRead

-------------------------------------------------------------------------------
(* Replies. *)

(* A state has at most MaxState words; there may be none. *)
LEMMA StateLength ==
  /\ << >> \in States
  /\ \A s \in States : Len(s) \in Nat /\ Len(s) <= MaxState
<1>1. States = UNION {[1 .. n -> Word] : n \in 0 .. MaxState}
  BY DEF States, WordSeqs
<1>2. << >> \in [1 .. 0 -> Word] /\ 0 \in 0 .. MaxState
  BY MaxAssumption
<1>3. ASSUME NEW n \in 0 .. MaxState, NEW s \in [1 .. n -> Word]
      PROVE  Len(s) = n
  BY MaxAssumption, <1>3
<1>4. \A n \in 0 .. MaxState : n \in Nat /\ n <= MaxState
  BY MaxAssumption
<1> QED
  BY <1>1, <1>2, <1>3, <1>4

(* The answers to a call are well formed. *)
LEMMA AnswerShape ==
  ASSUME NEW r \in Routine, NEW a \in Answers(r)
  PROVE  /\ a = Ending(a.ret, a.state)
         /\ a.ret \in Answered /\ a.state \in States
         /\ a # Uncaught
         /\ r = raise \/ a.ret # "KERN_SUCCESS" => a.state = << >>
<1>1. CASE a = Ending("KERN_FAILURE", << >>)
  BY <1>1, StateLength DEF Ending, Answered, Uncaught
<1>2. ASSUME NEW s \in States, a = Ending("KERN_SUCCESS", s), r = raise => s = << >>
      PROVE  /\ a = Ending(a.ret, a.state)
             /\ a.ret \in Answered /\ a.state \in States
             /\ a # Uncaught
             /\ r = raise \/ a.ret # "KERN_SUCCESS" => a.state = << >>
  BY <1>2 DEF Ending, Answered, Uncaught
<1> QED
  BY <1>1, <1>2, StateLength DEF Answers

(* The client stub takes every reply of the server stub for what it is. *)
LEMMA ReplyIsUnderstood ==
  ASSUME NEW r \in Routine, NEW a \in Answers(r)
  PROVE  /\ ReplyTo(r, a) \in Replies
         /\ CheckReply(r, ReplyTo(r, a)) = a.ret
         /\ ReplyTo(r, a).state = a.state
<1>1. /\ a.ret \in Answered /\ a.state \in States
      /\ r = raise \/ a.ret # "KERN_SUCCESS" => a.state = << >>
  BY AnswerShape
<1>2. r \in Nat /\ r + 100 \in Nat /\ MaxState \in Nat
  BY MaxAssumption DEF Routine, raise, raise_state, raise_identity
<1>3. CASE r # raise /\ a.ret = "KERN_SUCCESS"
  <2>1. PICK n : n = Len(a.state)
    OBVIOUS
  <2>2. n \in Nat /\ n <= MaxState
    BY <1>1, <2>1, StateLength
  <2>3. ReplyTo(r, a) = [id |-> r + 100, ret |-> "KERN_SUCCESS", size |-> 3 + n, cnt |-> n,
                         state |-> a.state]
    BY <1>3, <2>1 DEF ReplyTo, StateReply
  <2>4. ReplyTo(r, a) \in Replies
    BY <1>1, <1>2, <2>2, <2>3 DEF Replies, Answered
  <2>5. 3 + n \in 3 .. 3 + MaxState /\ ~ (n > MaxState)
    BY <1>2, <2>2
  <2> QED
    BY <1>3, <2>3, <2>4, <2>5 DEF CheckReply
<1>4. CASE ~ (r # raise /\ a.ret = "KERN_SUCCESS")
  <2>1. ReplyTo(r, a) = [id |-> r + 100, ret |-> a.ret, size |-> 1, cnt |-> 0, state |-> << >>]
    BY <1>4 DEF ReplyTo, ErrorReply
  <2>2. a.state = << >>
    BY <1>1, <1>4
  <2>3. ReplyTo(r, a) \in Replies
    BY <1>1, <1>2, <2>1, StateLength DEF Replies
  <2> QED
    BY <1>1, <1>4, <2>1, <2>2, <2>3 DEF CheckReply
<1> QED
  BY <1>3, <1>4

(* And the kernel's notification. *)
LEMMA NotificationIsUnderstood ==
  ASSUME NEW r \in Routine
  PROVE  /\ SendOnceNotification \in Replies
         /\ CheckReply(r, SendOnceNotification) = "MIG_SERVER_DIED"
         /\ SendOnceNotification.state = << >>
<1>1. r + 100 # 71
  BY DEF Routine, raise, raise_state, raise_identity
<1>2. SendOnceNotification \in Replies
  BY StateLength DEF SendOnceNotification, Replies, Answered
<1> QED
  BY <1>1, <1>2 DEF CheckReply, SendOnceNotification

-------------------------------------------------------------------------------
(* The requests on their way. *)

(* A message is a client's request, which the server accepts, or comes     *)
(* from a sender that is no client.                                        *)
LEMMA MessageShape ==
  ASSUME NEW m \in Messages
  PROVE  /\ m.id \in Nat /\ m.body \in Seq(Nat)
         /\ m.from \in Client => /\ m.n \in Nat /\ m.port \in Nat
                                 /\ m.id \in Routine
                                 /\ CheckRequest(m) = "MACH_MSG_SUCCESS"
         /\ m.from \in Client \/ m.from \in Foreign
<1>1. CASE \E c \in Client, n \in Nat, p \in Nat, a \in Calls : m = Message(c, n, p, a)
  <2>1. PICK c \in Client, n \in Nat, p \in Nat, a \in Calls : m = Message(c, n, p, a)
    BY <1>1
  <2>2. /\ m.id = a.r /\ m.ports = Ports(a.r) /\ m.body = Body(a)
        /\ m.from = c /\ m.n = n /\ m.port = p
    BY <2>1 DEF Message
  <2>3. m.id \in Routine /\ CheckRequest(m) = "MACH_MSG_SUCCESS"
    BY <2>1, <2>2, ClientIsAccepted
  <2>4. m.id \in Nat
    BY <2>3 DEF Routine, raise, raise_state, raise_identity
  <2>5. PICK k \in 0 .. MaxCode : k \in Nat /\ a.code \in Seq(Nat) /\ Len(a.code) = 2 * k
    BY <2>1, CallShape
  <2>6. m.body \in Seq(Nat)
    BY <2>1, <2>2, <2>5, BodyWords
  <2> QED
    BY <2>1, <2>2, <2>3, <2>4, <2>6
<1>2. CASE \E f \in Foreign : m \in ForeignMessages(f)
  <2>1. PICK f \in Foreign : m \in ForeignMessages(f)
    BY <1>2
  <2>2. m.from = f /\ m.id \in raise - 1 .. raise_identity + 1 /\ m.body \in WordSeqs(0 .. MaxBody)
    BY <2>1 DEF ForeignMessages
  <2>3. m.id \in Nat
    BY <2>2 DEF raise, raise_identity
  <2>4. PICK n \in 0 .. MaxBody : m.body \in [1 .. n -> Word]
    BY <2>2 DEF WordSeqs
  <2>5. m.body \in Seq(Nat)
    <3>1. n \in Nat
      BY <2>4, MaxAssumption
    <3>2. ASSUME NEW s \in [1 .. n -> Word] PROVE s \in Seq(Nat)
      <4>1. s \in [1 .. n -> Nat]
        BY <3>2, WordAssumption
      <4> QED
        BY <3>1, <4>1, SeqDef
    <3> QED
      BY <2>4, <3>2
  <2>6. m.from \notin Client
    BY <2>1, <2>2, SenderAssumption
  <2> QED
    BY <2>1, <2>2, <2>3, <2>5, <2>6
<1> QED
  BY <1>1, <1>2 DEF Messages

(* The requests nobody has answered: those on the port and the server's. *)
LEMMA UnansweredIs ==
  ASSUME TypeOK
  PROVE  /\ Unanswered \subseteq Messages
         /\ \A i \in 1 .. Len(queue) : queue[i] \in Unanswered
         /\ server # Ready => server.m \in Unanswered
         /\ \A m \in Unanswered : \/ \E i \in 1 .. Len(queue) : m = queue[i]
                                  \/ server # Ready /\ m = server.m
<1>1. DOMAIN queue = 1 .. Len(queue) /\ \A i \in 1 .. Len(queue) : queue[i] \in Messages
  BY LenProperties, ElementOfSeq DEF TypeOK
<1>2. server # Ready => server.m \in Messages
  BY DEF TypeOK
<1> QED
  BY <1>1, <1>2 DEF Unanswered, ToSet

(* Which requests are unanswered follows the port and the server. *)
LEMMA SameRequests ==
  ASSUME UNCHANGED <<queue, server>>
  PROVE  Unanswered' = Unanswered /\ (NoneTwice => NoneTwice')
BY DEF Unanswered, NoneTwice

(* A request that is sent. *)
LEMMA Enqueued ==
  ASSUME TypeOK, NoneTwice, NEW m \in Messages, queue' = Append(queue, m), server' = server,
         \A k \in Unanswered : ~ Same(k, m)
  PROVE  /\ queue' \in Seq(Messages)
         /\ Unanswered' = Unanswered \cup {m}
         /\ NoneTwice'
<1>1. PICK l : l = Len(queue)
  OBVIOUS
<1>2. queue \in Seq(Messages)
  BY DEF TypeOK
<1>3. /\ l \in Nat /\ queue' \in Seq(Messages) /\ Len(queue') = l + 1
      /\ \A i \in 1 .. l : queue'[i] = queue[i]
      /\ queue'[l + 1] = m
  BY <1>1, <1>2, AppendProperties
<1>4. DOMAIN queue' = 1 .. l + 1 /\ DOMAIN queue = 1 .. l
  BY <1>1, <1>2, <1>3, LenProperties
<1>5. \A i : i \in 1 .. l + 1 <=> i \in 1 .. l \/ i = l + 1
  BY <1>3
<1>6. ToSet(queue') = ToSet(queue) \cup {m}
  BY <1>3, <1>4, <1>5 DEF ToSet
<1>7. Unanswered' = Unanswered \cup {m}
  BY <1>6 DEF Unanswered
<1>8. /\ \A i \in 1 .. l : queue[i] \in Unanswered
      /\ server # Ready => server.m \in Unanswered
  BY <1>1, UnansweredIs
<1>9. \A k \in Unanswered : ~ Same(m, k)
  BY DEF Same
<1>10. ASSUME NEW i \in 1 .. l + 1, NEW j \in 1 .. l + 1, Same(queue'[i], queue'[j])
       PROVE  i = j
  <2>1. CASE i \in 1 .. l /\ j \in 1 .. l
    BY <1>1, <1>3, <1>10, <2>1 DEF NoneTwice
  <2>2. CASE i = l + 1 /\ j \in 1 .. l
    BY <1>3, <1>8, <1>9, <1>10, <2>2
  <2>3. CASE i \in 1 .. l /\ j = l + 1
    BY <1>3, <1>8, <1>10, <2>3
  <2> QED
    BY <1>5, <1>10, <2>1, <2>2, <2>3
<1>11. ASSUME server # Ready, NEW i \in 1 .. l + 1
       PROVE  ~ Same(queue'[i], server.m)
  <2>1. CASE i \in 1 .. l
    BY <1>1, <1>3, <1>11, <2>1 DEF NoneTwice
  <2>2. CASE i = l + 1
    BY <1>3, <1>8, <1>9, <1>11, <2>2
  <2> QED
    BY <1>5, <1>11, <2>1, <2>2
<1> QED
  BY <1>3, <1>7, <1>10, <1>11 DEF NoneTwice

(* The request that the server takes from the port. *)
LEMMA Dequeued ==
  ASSUME TypeOK, NoneTwice, Dequeue, NEW h, h = Head(queue)
  PROVE  /\ h \in Messages /\ queue' \in Seq(Messages)
         /\ Unanswered = ToSet(queue)
         /\ ToSet(queue) = ToSet(queue') \cup {h}
         /\ \A i, j \in 1 .. Len(queue') : Same(queue'[i], queue'[j]) => i = j
         /\ \A i \in 1 .. Len(queue') : ~ Same(queue'[i], h)
<1>1. PICK l : l = Len(queue)
  OBVIOUS
<1>2. queue \in Seq(Messages) /\ queue # << >> /\ queue' = Tail(queue) /\ server = Ready
  BY DEF TypeOK, Dequeue
<1>3. l \in Nat \ {0} /\ l - 1 \in Nat
  BY <1>1, <1>2, EmptySeq
<1>4. /\ queue' \in Seq(Messages) /\ Len(queue') = l - 1
      /\ \A i \in 1 .. l - 1 : queue'[i] = queue[i + 1]
  BY <1>1, <1>2, HeadTailProperties
<1>5. h = queue[1] /\ 1 \in 1 .. l
  BY <1>2, <1>3
<1>6. DOMAIN queue' = 1 .. l - 1 /\ DOMAIN queue = 1 .. l
  BY <1>1, <1>2, <1>4, LenProperties
<1>7. h \in Messages
  BY <1>1, <1>2, <1>5, ElementOfSeq
<1>8. Unanswered = ToSet(queue)
  BY <1>2 DEF Unanswered
<1>9. ToSet(queue) = ToSet(queue') \cup {h}
  <2>1. \A i \in 1 .. l - 1 : i + 1 \in 1 .. l /\ i + 1 # 1
    BY <1>3
  <2>2. \A i \in 1 .. l : i = 1 \/ (i - 1 \in 1 .. l - 1 /\ (i - 1) + 1 = i)
    BY <1>3
  <2>3. ToSet(queue') \cup {h} \subseteq ToSet(queue)
    BY <1>4, <1>5, <1>6, <2>1 DEF ToSet
  <2>4. ASSUME NEW i \in 1 .. l PROVE queue[i] \in ToSet(queue') \cup {h}
    <3>1. CASE i = 1
      BY <1>5, <3>1
    <3>2. CASE i - 1 \in 1 .. l - 1 /\ (i - 1) + 1 = i
      <4>1. queue'[i - 1] = queue[i]
        BY <1>4, <3>2
      <4> QED
        BY <1>6, <3>2, <4>1 DEF ToSet
    <3> QED
      BY <2>2, <2>4, <3>1, <3>2
  <2>5. ToSet(queue) \subseteq ToSet(queue') \cup {h}
    BY <1>6, <2>4 DEF ToSet
  <2> QED
    BY <2>3, <2>5
<1>10. ASSUME NEW i \in 1 .. l - 1, NEW j \in 1 .. l - 1, Same(queue'[i], queue'[j])
       PROVE  i = j
  <2>1. i + 1 \in 1 .. l /\ j + 1 \in 1 .. l
    BY <1>3, <1>10
  <2>2. i + 1 = j + 1
    BY <1>1, <1>4, <1>10, <2>1 DEF NoneTwice
  <2> QED
    BY <1>3, <1>10, <2>2
<1>11. ASSUME NEW i \in 1 .. l - 1 PROVE ~ Same(queue'[i], h)
  <2>1. i + 1 \in 1 .. l /\ i + 1 # 1
    BY <1>3, <1>11
  <2> QED
    BY <1>1, <1>4, <1>5, <1>11, <2>1 DEF NoneTwice
<1> QED
  BY <1>4, <1>7, <1>8, <1>9, <1>10, <1>11

-------------------------------------------------------------------------------
(* The steps. *)

(* A step that does not touch a client leaves what is said of it. *)
LEMMA Untouching ==
  ASSUME NEW c \in Client, client'[c] = client[c], port'[c] = port[c], inbox'[c] = inbox[c],
         caught'[c] = caught[c]
  PROVE  /\ \A m : m.from = c /\ Standing(m) => Standing(m)'
         /\ ClientOK(c) /\ (Waits(c) => Waits(c)') => ClientOK(c)'
<1>1. ASSUME NEW m, m.from = c, Standing(m) PROVE Standing(m)'
  BY <1>1 DEF Standing
<1>2. ASSUME ClientOK(c), Waits(c) => Waits(c)' PROVE ClientOK(c)'
  BY <1>2 DEF ClientOK, HasAnswer
<1> QED
  BY <1>1, <1>2

(* A client is in one of two places. *)
LEMMA ClientShape ==
  ASSUME TypeOK, NEW c \in Client
  PROVE  /\ client[c].pc = "out" => client[c] \in OutOfCall
         /\ client[c].pc = "sent" => client[c] \in InCall
         /\ client[c].pc \in {"out", "sent"}
         /\ client[c].n \in Nat /\ port[c] \in Nat
<1>1. client[c] \in OutOfCall \cup InCall
  BY DEF TypeOK
<1>2. port[c] \in Nat
  BY DEF TypeOK
<1>3. CASE client[c] \in OutOfCall
  BY <1>2, <1>3 DEF OutOfCall
<1>4. CASE client[c] \in InCall
  BY <1>2, <1>4 DEF InCall
<1> QED
  BY <1>1, <1>3, <1>4

(* A request that is sent, or refused, starts a new call. *)
LEMMA EarlierCall ==
  ASSUME IInv, NEW c \in Client, client[c].pc = "out",
         NEW m \in Unanswered, m.from = c
  PROVE  m.n < client[c].n + 1 /\ m.port < port[c]
<1>1. client[c].n \in Nat /\ m.n \in Nat
  BY ClientShape, MessageShape, UnansweredIs DEF IInv
<1>2. Standing(m)
  BY DEF IInv
<1> QED
  BY <1>1, <1>2 DEF Standing

(* A call that is refused before anything is sent. *)
LEMMA RefusedStep ==
  ASSUME IInv, NEW c \in Client, client[c].pc = "out",
         NEW ret \in {"MIG_ARRAY_TOO_LARGE", "MACH_SEND_INVALID_DEST"},
         client' = [client EXCEPT ![c] = [pc |-> "out", n |-> Called(c), ret |-> ret,
                                          state |-> << >>]],
         caught' = [caught EXCEPT ![c] = Uncaught],
         UNCHANGED <<port, inbox, queue, server, alive, touched>>
  PROVE  IInv'
<1> USE DEF IInv
<1>1. PICK x : x = [pc |-> "out", n |-> client[c].n + 1, ret |-> ret, state |-> << >>]
  OBVIOUS
<1>2. client' = [client EXCEPT ![c] = x]
  BY <1>1 DEF Called
<1>3. x \in OutOfCall /\ x.pc = "out" /\ x.n = client[c].n + 1 /\ x.ret = ret /\ x.state = << >>
  <2>1. client[c].n + 1 \in Nat
    BY ClientShape
  <2> QED
    BY <1>1, <2>1, StateLength DEF OutOfCall, Failed
<1>4. TypeOK'
  BY <1>2, <1>3 DEF TypeOK
<1>5. client'[c] = x /\ \A d \in Client \ {c} : client'[d] = client[d] /\ caught'[d] = caught[d]
  BY <1>2 DEF TypeOK
<1>6. Unanswered' = Unanswered /\ NoneTwice'
  BY SameRequests
<1>7. ASSUME NEW m \in Unanswered PROVE Standing(m)'
  <2>1. Standing(m) /\ (m.from \in Client => m.n \in Nat)
    BY <1>7, UnansweredIs, MessageShape
  <2>2. CASE m.from = c
    <3>1. m.n < x.n /\ m.port < port[c]
      BY <1>3, <1>7, <2>2, EarlierCall
    <3> QED
      BY <1>3, <1>5, <2>1, <2>2, <3>1, ClientShape DEF Standing
  <2>3. CASE m.from \in Client \ {c}
    BY <1>5, <2>1, <2>3, Untouching
  <2>4. CASE m.from \notin Client
    BY <2>4 DEF Standing
  <2> QED
    BY <2>2, <2>3, <2>4
<1>8. ClientOK(c)'
  <2>1. inbox[c] = << >>
    BY DEF ClientOK
  <2>2. x.ret \in Failed /\ x.ret \notin Answered
    BY <1>3 DEF Failed, Answered
  <2> QED
    BY <1>3, <1>5, <2>1, <2>2 DEF ClientOK
<1>9. ASSUME NEW d \in Client \ {c} PROVE ClientOK(d)'
  <2>1. Waits(d) => Waits(d)'
    BY <1>5, <1>6 DEF Waits
  <2> QED
    BY <1>5, <2>1, Untouching
<1>10. DeadIsEmpty' /\ ReadsInside'
  BY DEF DeadIsEmpty, ReadsInside
<1> QED
  BY <1>4, <1>6, <1>7, <1>8, <1>9, <1>10

(* A client sends its request. *)
LEMMA SendStep ==
  ASSUME IInv, NEW c \in Client, NEW a \in Calls, Send(c, a)
  PROVE  IInv'
<1> USE DEF IInv
<1>1. PICK x : x = [pc |-> "sent", n |-> client[c].n + 1, args |-> a]
  OBVIOUS
<1>2. PICK h : h = Message(c, client[c].n + 1, port[c], a)
  OBVIOUS
<1>3. /\ client[c].pc = "out" /\ alive
      /\ client' = [client EXCEPT ![c] = x]
      /\ queue' = Append(queue, h)
      /\ caught' = [caught EXCEPT ![c] = Uncaught]
      /\ UNCHANGED <<port, inbox, server, alive, touched>>
  BY <1>1, <1>2 DEF Send, MayCall, Called, Request, Message, Body
<1>4. client[c].n \in Nat /\ client[c].n + 1 \in Nat /\ port[c] \in Nat
  BY ClientShape
<1>5. x \in InCall /\ x.pc = "sent" /\ x.n = client[c].n + 1 /\ x.args = a
  BY <1>1, <1>4 DEF InCall
<1>6. /\ h \in Messages /\ h.from = c /\ h.n = x.n /\ h.port = port[c]
      /\ h.id = a.r /\ h.ports = Ports(a.r) /\ h.body = Body(a)
  <2>1. h \in Messages
    BY <1>2, <1>4 DEF Messages
  <2> QED
    BY <1>2, <1>5, <2>1 DEF Message
<1>7. \A k \in Unanswered : k.from = c => k.n # x.n /\ k.n < x.n /\ k.port < port[c]
  <2> SUFFICES ASSUME NEW k \in Unanswered, k.from = c
               PROVE  k.n # x.n /\ k.n < x.n /\ k.port < port[c]
    OBVIOUS
  <2>1. k.n < x.n /\ k.port < port[c]
    BY <1>3, <1>5, EarlierCall
  <2>2. k.n \in Nat
    BY UnansweredIs, MessageShape
  <2> QED
    BY <1>4, <1>5, <2>1, <2>2
<1>8. \A k \in Unanswered : ~ Same(k, h)
  BY <1>6, <1>7 DEF Same
<1>9. /\ queue' \in Seq(Messages)
      /\ Unanswered' = Unanswered \cup {h}
      /\ NoneTwice'
  BY <1>3, <1>6, <1>8, Enqueued
<1>10. TypeOK'
  BY <1>3, <1>5, <1>9 DEF TypeOK
<1>11. client'[c] = x /\ caught'[c] = Uncaught
       /\ \A d \in Client \ {c} : client'[d] = client[d] /\ caught'[d] = caught[d]
  BY <1>3 DEF TypeOK
<1>12. inbox[c] = << >>
  BY <1>3 DEF ClientOK
<1>13. Standing(h)'
  <2>1. h.n <= client'[c].n /\ ~ (h.n < client'[c].n)
    <3>1. h.n = client[c].n + 1 /\ client'[c].n = client[c].n + 1
      BY <1>5, <1>6, <1>11
    <3> QED
      BY <1>4, <3>1
  <2>2. /\ caught'[c] = Uncaught /\ client'[c].pc = "sent" /\ h.port = port'[c]
        /\ inbox'[c] = << >>
    BY <1>3, <1>5, <1>6, <1>11, <1>12
  <2>3. client'[c].args = a
    BY <1>5, <1>11
  <2>4. /\ h.id = client'[c].args.r /\ h.ports = Ports(client'[c].args.r)
        /\ h.body = Body(client'[c].args)
    BY <1>6, <2>3
  <2> QED
    BY <1>6, <2>1, <2>2, <2>4 DEF Standing
<1>14. ASSUME NEW m \in Unanswered PROVE Standing(m)'
  <2>1. Standing(m)
    BY <1>14
  <2>2. CASE m.from = c
    <3>1. client'[c].n = x.n /\ port'[c] = port[c]
      BY <1>3, <1>11
    <3>2. m.n \in Nat /\ x.n \in Nat
      BY <1>4, <1>5, <1>14, <2>2, UnansweredIs, MessageShape
    <3>3. m.n # x.n /\ m.n < x.n /\ m.port < port[c]
      BY <1>7, <1>14, <2>2
    <3>4. m.n <= x.n
      BY <3>2, <3>3
    <3> QED
      BY <2>2, <3>1, <3>3, <3>4 DEF Standing
  <2>3. CASE m.from \in Client \ {c}
    BY <1>3, <1>11, <2>1, <2>3, Untouching
  <2>4. CASE m.from \notin Client
    BY <2>4 DEF Standing
  <2> QED
    BY <2>2, <2>3, <2>4
<1>15. ClientOK(c)'
  <2>1. Waits(c)'
    BY <1>6, <1>9, <1>11 DEF Waits
  <2> QED
    BY <1>3, <1>5, <1>11, <1>12, <2>1 DEF ClientOK
<1>16. ASSUME NEW d \in Client \ {c} PROVE ClientOK(d)'
  <2>1. Waits(d) => Waits(d)'
    BY <1>9, <1>11 DEF Waits
  <2> QED
    BY <1>3, <1>11, <2>1, Untouching
<1>17. DeadIsEmpty' /\ ReadsInside'
  BY <1>3 DEF DeadIsEmpty, ReadsInside
<1> QED
  BY <1>9, <1>10, <1>13, <1>14, <1>15, <1>16, <1>17

(* A client gives up its call, and with it the reply port. *)
LEMMA ReceiveFailsStep ==
  ASSUME IInv, NEW c \in Client, ReceiveFails(c)
  PROVE  IInv'
<1> USE DEF IInv
<1>1. PICK x : x = [pc |-> "out", n |-> client[c].n, ret |-> "MACH_RCV_TOO_LARGE",
                    state |-> << >>]
  OBVIOUS
<1>2. /\ client[c].pc = "sent"
      /\ client' = [client EXCEPT ![c] = x]
      /\ port' = [port EXCEPT ![c] = @ + 1]
      /\ inbox' = [inbox EXCEPT ![c] = << >>]
      /\ UNCHANGED <<queue, server, alive, touched, caught>>
  BY <1>1 DEF ReceiveFails, Out
<1>3. client[c].n \in Nat /\ port[c] \in Nat /\ port[c] + 1 \in Nat
  BY ClientShape
<1>4. /\ x \in OutOfCall /\ x.pc = "out" /\ x.n = client[c].n
      /\ x.ret = "MACH_RCV_TOO_LARGE" /\ x.state = << >>
  BY <1>1, <1>3, StateLength DEF OutOfCall, Failed
<1>5. TypeOK'
  BY <1>2, <1>3, <1>4 DEF TypeOK
<1>6. /\ client'[c] = x /\ port'[c] = port[c] + 1 /\ inbox'[c] = << >>
      /\ \A d \in Client \ {c} :
           client'[d] = client[d] /\ port'[d] = port[d] /\ inbox'[d] = inbox[d]
  BY <1>2 DEF TypeOK
<1>7. Unanswered' = Unanswered /\ NoneTwice'
  BY <1>2, SameRequests
<1>8. ASSUME NEW m \in Unanswered PROVE Standing(m)'
  <2>1. Standing(m) /\ (m.from \in Client => m.n \in Nat /\ m.port \in Nat)
    BY <1>8, UnansweredIs, MessageShape
  <2>2. CASE m.from = c
    <3>1. m.port < port[c] + 1 /\ m.n <= client[c].n
      BY <1>2, <1>3, <2>1, <2>2 DEF Standing
    <3>2. m.n = client[c].n => caught[c] = Uncaught
      BY <2>1, <2>2 DEF Standing
    <3> QED
      BY <1>2, <1>4, <1>6, <2>2, <3>1, <3>2 DEF Standing
  <2>3. CASE m.from \in Client \ {c}
    BY <1>2, <1>6, <2>1, <2>3, Untouching
  <2>4. CASE m.from \notin Client
    BY <2>4 DEF Standing
  <2> QED
    BY <2>2, <2>3, <2>4
<1>9. ClientOK(c)'
  <2>1. x.ret \in Failed /\ x.ret \notin Answered
    BY <1>4 DEF Failed, Answered
  <2> QED
    BY <1>4, <1>6, <2>1 DEF ClientOK
<1>10. ASSUME NEW d \in Client \ {c} PROVE ClientOK(d)'
  <2>1. Waits(d) => Waits(d)'
    BY <1>6, <1>7 DEF Waits
  <2> QED
    BY <1>2, <1>6, <2>1, Untouching
<1>11. DeadIsEmpty' /\ ReadsInside'
  BY <1>2 DEF DeadIsEmpty, ReadsInside
<1> QED
  BY <1>5, <1>7, <1>8, <1>9, <1>10, <1>11

(* The message on a client's reply port ends its call with the answer that *)
(* the catch routine gave to it, or as one the server has died over.       *)
LEMMA GetReplyEnds ==
  ASSUME IInv, NEW c \in Client, GetReply(c)
  PROVE  \E ret, state :
           /\ client' = [client EXCEPT ![c] = [pc |-> "out", n |-> client[c].n,
                                               ret |-> ret, state |-> state]]
           /\ inbox' = [inbox EXCEPT ![c] = << >>]
           /\ \/ ret = "MIG_SERVER_DIED" /\ state = << >>
              \/ /\ caught[c] = Ending(ret, state) /\ ret \in Answered /\ state \in States
                 /\ ret # "KERN_SUCCESS" => state = << >>
<1> USE DEF IInv
<1>1. client[c].pc = "sent" /\ inbox[c] # << >>
  BY DEF GetReply
<1>2. PICK rep : inbox[c] = <<rep>> /\ (rep = SendOnceNotification \/ HasAnswer(c, rep))
  BY <1>1 DEF ClientOK
<1>3. Head(inbox[c]) = rep /\ Tail(inbox[c]) = << >>
  BY <1>2
<1>4. /\ client' = [client EXCEPT ![c] = [pc |-> "out", n |-> client[c].n,
                      ret |-> CheckReply(client[c].args.r, rep), state |-> rep.state]]
      /\ inbox' = [inbox EXCEPT ![c] = << >>]
  BY <1>3 DEF GetReply, Out
<1>5. client[c].args.r \in Routine
  BY <1>1, ClientShape, CallShape DEF InCall
<1>6. CASE rep = SendOnceNotification
  BY <1>4, <1>5, <1>6, NotificationIsUnderstood
<1>7. CASE HasAnswer(c, rep)
  <2>1. PICK r, a : r = client[c].args.r /\ a = caught[c]
    OBVIOUS
  <2>2. r \in Routine /\ a \in Answers(r) /\ rep = ReplyTo(r, a)
    BY <1>5, <1>7, <2>1 DEF HasAnswer
  <2>3. CheckReply(r, rep) = a.ret /\ rep.state = a.state
    BY <2>2, ReplyIsUnderstood
  <2>4. /\ a = Ending(a.ret, a.state) /\ a.ret \in Answered /\ a.state \in States
        /\ a.ret # "KERN_SUCCESS" => a.state = << >>
    BY <2>2, AnswerShape
  <2> QED
    BY <1>4, <2>1, <2>3, <2>4
<1> QED
  BY <1>2, <1>6, <1>7

(* A client takes its reply. *)
LEMMA GetReplyStep ==
  ASSUME IInv, NEW c \in Client, GetReply(c)
  PROVE  IInv'
<1> USE DEF IInv
<1>1. PICK ret, state :
        /\ client' = [client EXCEPT ![c] = [pc |-> "out", n |-> client[c].n,
                                            ret |-> ret, state |-> state]]
        /\ inbox' = [inbox EXCEPT ![c] = << >>]
        /\ \/ ret = "MIG_SERVER_DIED" /\ state = << >>
           \/ /\ caught[c] = Ending(ret, state) /\ ret \in Answered /\ state \in States
              /\ ret # "KERN_SUCCESS" => state = << >>
  BY GetReplyEnds
<1>2. PICK x : x = [pc |-> "out", n |-> client[c].n, ret |-> ret, state |-> state]
  OBVIOUS
<1>3. /\ client' = [client EXCEPT ![c] = x]
      /\ client[c].pc = "sent" /\ inbox[c] # << >>
      /\ UNCHANGED <<port, queue, server, alive, touched, caught>>
  BY <1>1, <1>2 DEF GetReply
<1>4. client[c].n \in Nat /\ port[c] \in Nat
  BY ClientShape
<1>5. x \in OutOfCall /\ x.pc = "out" /\ x.n = client[c].n /\ x.ret = ret /\ x.state = state
  BY <1>1, <1>2, <1>4, StateLength DEF OutOfCall, Failed
<1>6. TypeOK'
  BY <1>1, <1>3, <1>5 DEF TypeOK
<1>7. /\ client'[c] = x /\ inbox'[c] = << >>
      /\ \A d \in Client \ {c} : client'[d] = client[d] /\ inbox'[d] = inbox[d]
  BY <1>1, <1>3 DEF TypeOK
<1>8. Unanswered' = Unanswered /\ NoneTwice'
  BY <1>3, SameRequests
<1>9. ASSUME NEW m \in Unanswered PROVE Standing(m)'
  <2>1. Standing(m) /\ (m.from \in Client => m.n \in Nat)
    BY <1>9, UnansweredIs, MessageShape
  <2>2. CASE m.from = c
    <3>1. m.n # client[c].n
      BY <1>3, <2>1, <2>2 DEF Standing
    <3> QED
      BY <1>3, <1>5, <1>7, <2>1, <2>2, <3>1 DEF Standing
  <2>3. CASE m.from \in Client \ {c}
    BY <1>3, <1>7, <2>1, <2>3, Untouching
  <2>4. CASE m.from \notin Client
    BY <2>4 DEF Standing
  <2> QED
    BY <2>2, <2>3, <2>4
<1>10. ClientOK(c)'
  <2>1. /\ ret \in Answered => caught[c] = Ending(ret, state)
        /\ ret \in Failed => state = << >>
    BY <1>1 DEF Answered, Failed
  <2> QED
    BY <1>3, <1>5, <1>7, <2>1 DEF ClientOK
<1>11. ASSUME NEW d \in Client \ {c} PROVE ClientOK(d)'
  <2>1. Waits(d) => Waits(d)'
    BY <1>7, <1>8 DEF Waits
  <2> QED
    BY <1>3, <1>7, <2>1, Untouching
<1>12. DeadIsEmpty' /\ ReadsInside'
  BY <1>3 DEF DeadIsEmpty, ReadsInside
<1> QED
  BY <1>6, <1>8, <1>9, <1>10, <1>11, <1>12

(* Somebody else sends. *)
LEMMA SendForeignStep ==
  ASSUME IInv, NEW f \in Foreign, SendForeign(f)
  PROVE  IInv'
<1> USE DEF IInv
<1>1. PICK h \in ForeignMessages(f) : queue' = Append(queue, h)
  BY DEF SendForeign
<1>2. alive /\ UNCHANGED <<client, port, inbox, server, alive, touched, caught>>
  BY DEF SendForeign
<1>3. h \in Messages /\ h.from \notin Client
  <2>1. h.from = f /\ f \notin Client
    BY <1>1, SenderAssumption DEF ForeignMessages
  <2>2. h \in UNION {ForeignMessages(g) : g \in Foreign}
    BY <1>1
  <2> QED
    BY <2>1, <2>2 DEF Messages
<1>4. \A k \in Unanswered : ~ Same(k, h)
  BY <1>3 DEF Same
<1>5. /\ queue' \in Seq(Messages)
      /\ Unanswered' = Unanswered \cup {h}
      /\ NoneTwice'
  BY <1>1, <1>2, <1>3, <1>4, Enqueued
<1>6. TypeOK'
  BY <1>2, <1>5 DEF TypeOK
<1>7. \A m \in Unanswered' : Standing(m)'
  BY <1>2, <1>3, <1>5, Untouching DEF Standing
<1>8. ASSUME NEW c \in Client PROVE ClientOK(c)'
  <2>1. Waits(c) => Waits(c)'
    BY <1>2, <1>5 DEF Waits
  <2> QED
    BY <1>2, <2>1, Untouching
<1>9. DeadIsEmpty' /\ ReadsInside'
  BY <1>2 DEF DeadIsEmpty, ReadsInside
<1> QED
  BY <1>5, <1>6, <1>7, <1>8, <1>9

(* The server drops a request that is no client's. *)
LEMMA DropStep ==
  ASSUME IInv, Dequeue, NEW h, h = Head(queue), h.from \notin Client,
         UNCHANGED <<client, port, inbox, server, alive, caught>>, ReadsInside'
  PROVE  IInv'
<1> USE DEF IInv
<1>1. /\ h \in Messages /\ queue' \in Seq(Messages)
      /\ Unanswered = ToSet(queue)
      /\ ToSet(queue) = ToSet(queue') \cup {h}
      /\ \A i, j \in 1 .. Len(queue') : Same(queue'[i], queue'[j]) => i = j
  BY Dequeued
<1>2. alive /\ server = Ready
  BY DEF Dequeue
<1>3. Unanswered' = ToSet(queue')
  BY <1>2 DEF Unanswered
<1>4. TypeOK'
  BY <1>1 DEF TypeOK
<1>5. NoneTwice'
  BY <1>1, <1>2 DEF NoneTwice
<1>6. ASSUME NEW m \in Unanswered' PROVE Standing(m)'
  <2>1. Standing(m)
    BY <1>1, <1>3, <1>6
  <2>2. CASE m.from \in Client
    BY <2>1, <2>2, Untouching
  <2>3. CASE m.from \notin Client
    BY <2>3 DEF Standing
  <2> QED
    BY <2>2, <2>3
<1>7. ASSUME NEW c \in Client PROVE ClientOK(c)'
  <2>1. ASSUME Waits(c) PROVE Waits(c)'
    <3>1. PICK m \in Unanswered : m.from = c /\ m.n = client[c].n
      BY <2>1 DEF Waits
    <3>2. m # h
      BY <1>7, <3>1
    <3>3. m \in Unanswered'
      BY <1>1, <1>3, <3>1, <3>2
    <3> QED
      BY <3>1, <3>3 DEF Waits
  <2> QED
    BY <1>7, <2>1, Untouching
<1>8. DeadIsEmpty'
  BY <1>2 DEF DeadIsEmpty
<1> QED
  BY <1>4, <1>5, <1>6, <1>7, <1>8

(* The words that a stub reads when it takes a request are inside it. *)
LEMMA TakenInside ==
  ASSUME TypeOK, NoneTwice, Dequeue, Touch(Head(queue))
  PROVE  ReadsInside'
<1>1. PICK h : h = Head(queue)
  OBVIOUS
<1>2. h \in Messages
  BY <1>1, Dequeued
<1>3. h.body \in Seq(Nat)
  BY <1>2, MessageShape
<1>4. touched' = [words |-> WordsRead(h), size |-> Len(h.body)]
  BY <1>1 DEF Touch
<1>5. touched'.words = WordsRead(h) /\ touched'.size = Len(h.body)
  BY <1>4
<1> QED
  BY <1>3, <1>5, MessageReadInside DEF ReadsInside

(* A request without a routine. *)
LEMMA BadIdStep ==
  ASSUME IInv, BadId
  PROVE  IInv'
<1>1. PICK h : h = Head(queue)
  OBVIOUS
<1>2. Dequeue /\ h.id \notin Routine /\ UNCHANGED <<client, port, server, alive, touched, caught>>
  BY <1>1 DEF BadId
<1>3. h \in Messages
  BY <1>1, <1>2, Dequeued DEF IInv
<1>4. h.from \notin Client
  BY <1>2, <1>3, MessageShape
<1>5. inbox' = inbox
  BY <1>1, <1>4 DEF BadId, Answer
<1>6. ReadsInside'
  BY <1>2 DEF IInv, ReadsInside
<1> QED
  BY <1>1, <1>2, <1>4, <1>5, <1>6, DropStep

(* A request that the server stub does not accept. *)
LEMMA RefuseStep ==
  ASSUME IInv, Refuse
  PROVE  IInv'
<1>1. PICK h : h = Head(queue)
  OBVIOUS
<1>2. /\ Dequeue /\ CheckRequest(h) # "MACH_MSG_SUCCESS" /\ Touch(Head(queue))
      /\ UNCHANGED <<client, port, server, alive, caught>>
  BY <1>1 DEF Refuse
<1>3. h \in Messages
  BY <1>1, <1>2, Dequeued DEF IInv
<1>4. h.from \notin Client
  BY <1>2, <1>3, MessageShape
<1>5. inbox' = inbox
  BY <1>1, <1>4 DEF Refuse, Answer
<1>6. ReadsInside'
  BY <1>2, TakenInside DEF IInv
<1> QED
  BY <1>1, <1>2, <1>4, <1>5, <1>6, DropStep

(* A request that goes to the catch routine. *)
LEMMA CallCatchStep ==
  ASSUME IInv, CallCatch
  PROVE  IInv'
<1> USE DEF IInv
<1>1. PICK h : h = Head(queue)
  OBVIOUS
<1>2. /\ Dequeue /\ Touch(Head(queue)) /\ server' = [pc |-> "catch", m |-> h]
      /\ UNCHANGED <<client, port, inbox, alive, caught>>
  BY <1>1 DEF CallCatch
<1>3. /\ h \in Messages /\ queue' \in Seq(Messages)
      /\ Unanswered = ToSet(queue)
      /\ ToSet(queue) = ToSet(queue') \cup {h}
      /\ \A i, j \in 1 .. Len(queue') : Same(queue'[i], queue'[j]) => i = j
      /\ \A i \in 1 .. Len(queue') : ~ Same(queue'[i], h)
  BY <1>1, <1>2, Dequeued
<1>4. alive /\ server' # Ready /\ server'.m = h
  BY <1>2 DEF Dequeue, Ready
<1>5. Unanswered' = Unanswered
  BY <1>3, <1>4 DEF Unanswered
<1>6. TypeOK'
  BY <1>2, <1>3 DEF TypeOK
<1>7. NoneTwice'
  BY <1>3, <1>4 DEF NoneTwice
<1>8. ASSUME NEW m \in Unanswered' PROVE Standing(m)'
  <2>1. Standing(m)
    BY <1>5, <1>8
  <2>2. CASE m.from \in Client
    BY <1>2, <2>1, <2>2, Untouching
  <2>3. CASE m.from \notin Client
    BY <2>3 DEF Standing
  <2> QED
    BY <2>2, <2>3
<1>9. ASSUME NEW c \in Client PROVE ClientOK(c)'
  <2>1. Waits(c) => Waits(c)'
    BY <1>2, <1>5 DEF Waits
  <2> QED
    BY <1>2, <1>9, <2>1, Untouching
<1>10. DeadIsEmpty'
  BY <1>2, <1>4 DEF DeadIsEmpty
<1>11. ReadsInside'
  BY <1>2, TakenInside
<1> QED
  BY <1>6, <1>7, <1>8, <1>9, <1>10, <1>11

(* The reply port that a request names is the client's while it waits for *)
(* the answer, and no longer.                                             *)
LEMMA PortIsOwn ==
  ASSUME IInv, NEW c \in Client, NEW m \in Unanswered, m.from = c
  PROVE  /\ m.port = port[c] <=> m.n = client[c].n /\ client[c].pc = "sent"
         /\ m.port = port[c] => inbox[c] = << >> /\ m.id = client[c].args.r
         /\ m.n = client[c].n =>
              /\ caught[c] = Uncaught
              /\ client[c].pc = "out" =>
                   client[c].ret = "MACH_RCV_TOO_LARGE" /\ client[c].state = << >>
         /\ m.n \in Nat /\ m.n <= client[c].n
<1>1. Standing(m)
  BY DEF IInv
<1>2. m.n \in Nat /\ m.port \in Nat
  BY UnansweredIs, MessageShape DEF IInv
<1>3. client[c].n \in Nat /\ port[c] \in Nat /\ client[c].pc \in {"out", "sent"}
  BY ClientShape DEF IInv
<1>4. m.n <= client[c].n /\ (m.n < client[c].n => m.port < port[c])
  BY <1>1 DEF Standing
<1>5. CASE m.n < client[c].n
  <2>1. m.port # port[c] /\ m.n # client[c].n
    BY <1>2, <1>3, <1>4, <1>5
  <2> QED
    BY <1>2, <1>4, <2>1
<1>6. CASE m.n = client[c].n
  <2>1. caught[c] = Uncaught
    BY <1>1, <1>6 DEF Standing
  <2>2. CASE client[c].pc = "sent"
    <3>1. m.port = port[c] /\ inbox[c] = << >> /\ m.id = client[c].args.r
      BY <1>1, <1>6, <2>2 DEF Standing
    <3> QED
      BY <1>2, <1>4, <1>6, <2>1, <2>2, <3>1
  <2>3. CASE client[c].pc = "out"
    <3>1. /\ m.port < port[c]
          /\ client[c].ret = "MACH_RCV_TOO_LARGE" /\ client[c].state = << >>
      BY <1>1, <1>6, <2>3 DEF Standing
    <3>2. m.port # port[c]
      BY <1>2, <1>3, <3>1
    <3> QED
      BY <1>2, <1>4, <2>1, <2>3, <3>1, <3>2
  <2> QED
    BY <1>3, <2>2, <2>3
<1> QED
  BY <1>2, <1>3, <1>4, <1>5, <1>6

(* What a return of the catch routine changes. *)
LEMMA ReturnShape ==
  ASSUME IInv, NEW ret \in {"KERN_SUCCESS", "KERN_FAILURE"}, NEW state \in States,
         CatchReturns(ret, state)
  PROVE  \E h \in Unanswered : 
           /\ h = server.m /\ h \in Messages
           /\ ToSet(queue) = Unanswered' /\ Unanswered = Unanswered' \cup {h}
           /\ \A k \in Unanswered' : ~ Same(k, h)
           /\ h.from \in Client /\ h.n = client[h.from].n =>
                /\ caught' = [caught EXCEPT ![h.from] = Ending(ret, state)]
                /\ Ending(ret, state) \in Answers(h.id)
           /\ ~ (h.from \in Client /\ h.n = client[h.from].n) => caught' = caught
           /\ h.from \in Client /\ h.port = port[h.from] =>
                inbox' = [inbox EXCEPT ![h.from] = Append(@, ReplyTo(h.id, Ending(ret, state)))]
           /\ ~ (h.from \in Client /\ h.port = port[h.from]) => inbox' = inbox
<1>1. TypeOK /\ NoneTwice
  BY DEF IInv
<1>2. server.pc = "catch" /\ server' = Ready /\ queue' = queue
  BY DEF CatchReturns
<1>3. server # Ready /\ server.m \in Messages
  BY <1>1, <1>2 DEF TypeOK, Ready
<1>4. PICK h : h = server.m
  OBVIOUS
<1>5. Unanswered' = ToSet(queue) /\ Unanswered = ToSet(queue) \cup {h}
  BY <1>2, <1>3, <1>4 DEF Unanswered
<1>6. \A k \in ToSet(queue) : ~ Same(k, h)
  <2>1. DOMAIN queue = 1 .. Len(queue)
    BY <1>1, LenProperties DEF TypeOK
  <2> QED
    BY <1>1, <1>3, <1>4, <2>1 DEF NoneTwice, ToSet
<1>7. PICK a : a = Ending(ret, state)
  OBVIOUS
<1>8. a.ret = ret /\ a.state = state
  BY <1>7 DEF Ending
<1>9. h.id = raise \/ ret # "KERN_SUCCESS" => state = << >>
  BY <1>4 DEF CatchReturns
<1>10. a \in Answers(h.id)
  BY <1>7, <1>9 DEF Answers
<1>11. /\ h.from \in Client /\ h.n = client[h.from].n => caught' = [caught EXCEPT ![h.from] = a]
       /\ ~ (h.from \in Client /\ h.n = client[h.from].n) => caught' = caught
  BY <1>4, <1>7 DEF CatchReturns, Ending
<1>12. Answer(h, ReplyTo(h.id, a))
  BY <1>4, <1>8 DEF CatchReturns, ReplyTo
<1>13. /\ h.from \in Client /\ h.port = port[h.from] =>
            inbox' = [inbox EXCEPT ![h.from] = Append(@, ReplyTo(h.id, a))]
       /\ ~ (h.from \in Client /\ h.port = port[h.from]) => inbox' = inbox
  BY <1>12 DEF Answer
<1> QED
  BY <1>3, <1>4, <1>5, <1>6, <1>7, <1>10, <1>11, <1>13

(* The catch routine returns. *)
LEMMA CatchReturnsStep ==
  ASSUME IInv, NEW ret \in {"KERN_SUCCESS", "KERN_FAILURE"}, NEW state \in States,
         CatchReturns(ret, state)
  PROVE  IInv'
<1> USE DEF IInv
<1>1. PICK a : a = Ending(ret, state)
  OBVIOUS
<1>2. PICK h \in Unanswered :
        /\ h = server.m /\ h \in Messages
        /\ ToSet(queue) = Unanswered' /\ Unanswered = Unanswered' \cup {h}
        /\ \A k \in Unanswered' : ~ Same(k, h)
        /\ h.from \in Client /\ h.n = client[h.from].n =>
             caught' = [caught EXCEPT ![h.from] = a] /\ a \in Answers(h.id)
        /\ ~ (h.from \in Client /\ h.n = client[h.from].n) => caught' = caught
        /\ h.from \in Client /\ h.port = port[h.from] =>
             inbox' = [inbox EXCEPT ![h.from] = Append(@, ReplyTo(h.id, a))]
        /\ ~ (h.from \in Client /\ h.port = port[h.from]) => inbox' = inbox
  BY <1>1, ReturnShape
<1>3. /\ server.pc = "catch" /\ server' = Ready /\ touched' = Untouched
      /\ UNCHANGED <<client, port, queue, alive>>
  BY DEF CatchReturns
<1>4. inbox \in [Client -> {<< >>} \cup {<<rep>> : rep \in Replies}] /\ DOMAIN inbox = Client
  BY DEF TypeOK
<1>5. caught \in [Client -> {Uncaught} \cup {Ending(r, s) : r \in Answered, s \in States}]
  BY DEF TypeOK
<1>6. a \in {Ending(r, s) : r \in Answered, s \in States}
  BY <1>1 DEF Answered
<1>7. ASSUME h.from \in Client
      PROVE  /\ h.port = port[h.from] <=> h.n = client[h.from].n /\ client[h.from].pc = "sent"
             /\ h.port = port[h.from] => inbox[h.from] = << >> /\ h.id = client[h.from].args.r
             /\ h.n = client[h.from].n /\ client[h.from].pc = "out" =>
                  /\ client[h.from].ret = "MACH_RCV_TOO_LARGE"
                  /\ client[h.from].state = << >>
             /\ h.id \in Routine
  BY <1>2, <1>7, PortIsOwn, MessageShape
<1>8. ASSUME h.from \in Client, h.port = port[h.from]
      PROVE  /\ inbox' = [inbox EXCEPT ![h.from] = <<ReplyTo(h.id, a)>>]
             /\ ReplyTo(h.id, a) \in Replies
  <2>1. inbox[h.from] = << >> /\ h.n = client[h.from].n /\ h.id \in Routine
    BY <1>7, <1>8
  <2>2. a \in Answers(h.id)
    BY <1>2, <1>8, <2>1
  <2>3. ReplyTo(h.id, a) \in Replies
    BY <2>1, <2>2, ReplyIsUnderstood
  <2>4. Append(inbox[h.from], ReplyTo(h.id, a)) = <<ReplyTo(h.id, a)>>
    BY <2>1
  <2>5. inbox' = [inbox EXCEPT ![h.from] = Append(@, ReplyTo(h.id, a))]
    BY <1>2, <1>8
  <2> QED
    BY <2>3, <2>4, <2>5
<1>9. TypeOK'
  <2>1. inbox' \in [Client -> {<< >>} \cup {<<rep>> : rep \in Replies}]
    <3>1. CASE h.from \in Client /\ h.port = port[h.from]
      BY <1>4, <1>8, <3>1
    <3>2. CASE ~ (h.from \in Client /\ h.port = port[h.from])
      BY <1>2, <1>4, <3>2
    <3> QED
      BY <3>1, <3>2
  <2>2. caught' \in [Client -> {Uncaught} \cup {Ending(r, s) : r \in Answered, s \in States}]
    <3>1. CASE h.from \in Client /\ h.n = client[h.from].n
      BY <1>2, <1>5, <1>6, <3>1
    <3>2. CASE ~ (h.from \in Client /\ h.n = client[h.from].n)
      BY <1>2, <1>5, <3>2
    <3> QED
      BY <3>1, <3>2
  <2> QED
    BY <1>3, <2>1, <2>2 DEF TypeOK
<1>10. NoneTwice'
  BY <1>3 DEF NoneTwice
<1>11. \A d \in Client : d # h.from => inbox'[d] = inbox[d] /\ caught'[d] = caught[d]
  BY <1>2, <1>4, <1>5
<1>12. ASSUME NEW m \in Unanswered' PROVE Standing(m)'
  <2>1. Standing(m) /\ ~ Same(m, h) /\ m \in Unanswered
    BY <1>2, <1>12
  <2>2. CASE m.from \in Client /\ m.from # h.from
    BY <1>3, <1>11, <2>1, <2>2, Untouching
  <2>3. CASE m.from \in Client /\ m.from = h.from /\ h.n = client[h.from].n
    <3>1. m.n # client[m.from].n
      BY <2>1, <2>3 DEF Same
    <3> QED
      BY <1>3, <2>1, <2>3, <3>1 DEF Standing
  <2>4. CASE m.from \in Client /\ m.from = h.from /\ h.n # client[h.from].n
    <3>1. inbox'[m.from] = inbox[m.from] /\ caught'[m.from] = caught[m.from]
      BY <1>2, <1>7, <2>4
    <3> QED
      BY <1>3, <2>1, <2>4, <3>1, Untouching
  <2>5. CASE m.from \notin Client
    BY <2>5 DEF Standing
  <2> QED
    BY <2>2, <2>3, <2>4, <2>5
<1>13. ASSUME NEW c \in Client PROVE ClientOK(c)'
  <2>1. ClientOK(c) /\ client[c].pc \in {"out", "sent"} /\ client'[c] = client[c]
    BY <1>3, <1>13, ClientShape
  <2>2. CASE c = h.from /\ h.port = port[c]
    <3>1. client[c].pc = "sent" /\ h.id = client[c].args.r /\ h.n = client[c].n
      BY <1>7, <1>13, <2>2
    <3>2. caught'[c] = a /\ a \in Answers(client[c].args.r)
      BY <1>2, <1>5, <1>13, <2>2, <3>1
    <3>3. inbox'[c] = <<ReplyTo(client[c].args.r, a)>>
      BY <1>4, <1>8, <1>13, <2>2, <3>1
    <3>4. HasAnswer(c, ReplyTo(client[c].args.r, a))'
      BY <2>1, <3>2 DEF HasAnswer
    <3> QED
      BY <2>1, <3>1, <3>3, <3>4 DEF ClientOK
  <2>3. CASE c = h.from /\ h.port # port[c] /\ h.n = client[c].n
    <3>1. client[c].pc = "out" /\ client[c].ret = "MACH_RCV_TOO_LARGE" /\ client[c].state = << >>
      BY <1>7, <1>13, <2>1, <2>3
    <3>2. inbox'[c] = inbox[c]
      BY <1>2, <2>3
    <3>3. client[c].ret \notin Answered
      BY <3>1 DEF Answered
    <3> QED
      BY <2>1, <3>1, <3>2, <3>3 DEF ClientOK
  <2>4. CASE c # h.from \/ (h.port # port[c] /\ h.n # client[c].n)
    <3>1. inbox'[c] = inbox[c] /\ caught'[c] = caught[c]
      BY <1>2, <1>11, <1>13, <2>4
    <3>2. ASSUME Waits(c) PROVE Waits(c)'
      <4>1. PICK m \in Unanswered : m.from = c /\ m.n = client[c].n
        BY <3>2 DEF Waits
      <4>2. m # h
        BY <2>4, <4>1
      <4>3. m \in Unanswered'
        BY <1>2, <4>1, <4>2
      <4> QED
        BY <2>1, <4>1, <4>3 DEF Waits
    <3> QED
      BY <1>3, <1>13, <2>1, <3>1, <3>2, Untouching
  <2>5. CASE c = h.from /\ h.port = port[c] /\ h.n # client[c].n
    BY <1>7, <1>13, <2>5
  <2> QED
    BY <2>2, <2>3, <2>4, <2>5
<1>14. DeadIsEmpty' /\ ReadsInside'
  <2>1. alive
    <3>1. server # Ready
      BY <1>3 DEF Ready
    <3> QED
      BY <3>1 DEF DeadIsEmpty
  <2> QED
    BY <1>3, <2>1 DEF DeadIsEmpty, ReadsInside, Untouched
<1> QED
  BY <1>9, <1>10, <1>12, <1>13, <1>14

(* The server goes away. *)
LEMMA ServerDiesStep ==
  ASSUME IInv, ServerDies
  PROVE  IInv'
<1> USE DEF IInv
<1>1. /\ alive' = FALSE /\ queue' = << >> /\ server' = Ready
      /\ UNCHANGED <<client, port, touched, caught>>
  BY DEF ServerDies
<1>2. inbox' = [c \in Client |-> IF \E m \in Unanswered : m.from = c /\ m.port = port[c]
                                 THEN Append(inbox[c], SendOnceNotification) ELSE inbox[c]]
  BY DEF ServerDies
<1>3. \A i : i \notin 1 .. 0
  OBVIOUS
<1>4. ToSet(queue') = {} /\ Len(queue') = 0 /\ queue' \in Seq(Messages)
  BY <1>1, EmptySeq, <1>3 DEF ToSet
<1>5. Unanswered' = {}
  BY <1>1, <1>4 DEF Unanswered
<1>6. NoneTwice' /\ DeadIsEmpty' /\ ReadsInside'
  BY <1>1, <1>3, <1>4 DEF NoneTwice, DeadIsEmpty, ReadsInside
<1>7. ASSUME NEW c \in Client
      PROVE  ClientOK(c)' /\ inbox'[c] \in {<< >>} \cup {<<rep>> : rep \in Replies}
  <2>1. /\ ClientOK(c) /\ client[c].pc \in {"out", "sent"}
        /\ client'[c] = client[c] /\ caught'[c] = caught[c]
        /\ inbox[c] \in {<< >>} \cup {<<rep>> : rep \in Replies}
    BY <1>1, <1>7, ClientShape DEF TypeOK
  <2>2. ASSUME NEW m \in Unanswered, m.from = c, m.port = port[c]
        PROVE  ClientOK(c)' /\ inbox'[c] \in {<< >>} \cup {<<rep>> : rep \in Replies}
    <3>1. inbox[c] = << >> /\ client[c].pc = "sent"
      BY <1>7, <2>2, PortIsOwn
    <3>2. inbox'[c] = Append(inbox[c], SendOnceNotification)
      BY <1>2, <1>7, <2>2
    <3>3. inbox'[c] = <<SendOnceNotification>>
      BY <3>1, <3>2
    <3>4. SendOnceNotification \in Replies
      BY NotificationIsUnderstood DEF Routine
    <3> QED
      BY <2>1, <3>1, <3>3, <3>4 DEF ClientOK
  <2>3. ASSUME ~ \E m \in Unanswered : m.from = c /\ m.port = port[c]
        PROVE  ClientOK(c)' /\ inbox'[c] \in {<< >>} \cup {<<rep>> : rep \in Replies}
    <3>1. inbox'[c] = inbox[c]
      BY <1>2, <1>7, <2>3
    <3>2. client[c].pc = "sent" => ~ Waits(c)
      BY <1>7, <2>3, PortIsOwn DEF Waits
    <3> QED
      BY <2>1, <3>1, <3>2 DEF ClientOK, HasAnswer
  <2> QED
    BY <2>2, <2>3
<1>8. inbox' \in [Client -> {<< >>} \cup {<<rep>> : rep \in Replies}]
  BY <1>2, <1>7
<1>9. server' \in {Ready} \cup [pc : {"catch"}, m : Messages] /\ alive' \in BOOLEAN
  BY <1>1
<1>10. TypeOK'
  BY <1>1, <1>4, <1>8, <1>9 DEF TypeOK
<1> QED
  BY <1>5, <1>6, <1>7, <1>10

-------------------------------------------------------------------------------
(* The invariant. *)

(* It holds initially. *)
LEMMA InitIInv == Init => IInv
<1> SUFFICES ASSUME Init PROVE IInv
  OBVIOUS
<1>1. /\ client = [c \in Client |-> [pc |-> "out", n |-> 0, ret |-> "none", state |-> << >>]]
      /\ port = [c \in Client |-> 0] /\ inbox = [c \in Client |-> << >>] /\ queue = << >>
      /\ server = Ready /\ alive = TRUE /\ touched = Untouched
      /\ caught = [c \in Client |-> Uncaught]
  BY DEF Init
<1>2. \A i : i \notin 1 .. 0
  OBVIOUS
<1>3. ToSet(queue) = {} /\ Len(queue) = 0 /\ queue \in Seq(Messages)
  BY <1>1, <1>2, EmptySeq DEF ToSet
<1>4. Unanswered = {}
  BY <1>1, <1>3 DEF Unanswered
<1>5. client \in [Client -> OutOfCall]
  <2>1. [pc |-> "out", n |-> 0, ret |-> "none", state |-> << >>] \in OutOfCall
    BY StateLength DEF OutOfCall, Failed
  <2> QED
    BY <1>1, <2>1
<1>6. TypeOK
  BY <1>1, <1>3, <1>5 DEF TypeOK
<1>7. NoneTwice /\ DeadIsEmpty /\ ReadsInside
  BY <1>1, <1>2, <1>3 DEF NoneTwice, DeadIsEmpty, ReadsInside, Untouched
<1>8. ASSUME NEW c \in Client PROVE ClientOK(c)
  BY <1>1, <1>8 DEF ClientOK, Answered
<1> QED
  BY <1>4, <1>6, <1>7, <1>8 DEF IInv

(* Every step preserves it. *)
LEMMA NextIInv == IInv /\ [Next]_vars => IInv'
<1> SUFFICES ASSUME IInv, [Next]_vars PROVE IInv'
  OBVIOUS
<1>1. ASSUME NEW c \in Client, CallTooLarge(c) PROVE IInv'
  BY <1>1, RefusedStep DEF CallTooLarge, MayCall
<1>2. ASSUME NEW c \in Client, SendInvalid(c) PROVE IInv'
  BY <1>2, RefusedStep DEF SendInvalid, MayCall
<1>3. ASSUME NEW c \in Client, NEW a \in Calls, Send(c, a) PROVE IInv'
  BY <1>3, SendStep
<1>4. ASSUME NEW c \in Client, ReceiveFails(c) PROVE IInv'
  BY <1>4, ReceiveFailsStep
<1>5. ASSUME NEW c \in Client, GetReply(c) PROVE IInv'
  BY <1>5, GetReplyStep
<1>6. ASSUME NEW f \in Foreign, SendForeign(f) PROVE IInv'
  BY <1>6, SendForeignStep
<1>7. CASE BadId
  BY <1>7, BadIdStep
<1>8. CASE Refuse
  BY <1>8, RefuseStep
<1>9. CASE CallCatch
  BY <1>9, CallCatchStep
<1>10. ASSUME NEW ret \in {"KERN_SUCCESS", "KERN_FAILURE"}, NEW state \in WordSeqs(0 .. MaxState),
              CatchReturns(ret, state)
       PROVE  IInv'
  BY <1>10, CatchReturnsStep DEF States
<1>11. CASE ServerDies
  BY <1>11, ServerDiesStep
<1>12. CASE UNCHANGED vars
  <2>1. UNCHANGED <<client, port, inbox, queue, server, alive, touched, caught>>
    BY <1>12 DEF vars
  <2>2. TypeOK' /\ DeadIsEmpty' /\ ReadsInside'
    BY <2>1 DEF IInv, TypeOK, DeadIsEmpty, ReadsInside
  <2>3. Unanswered' = Unanswered /\ NoneTwice'
    BY <2>1, SameRequests DEF IInv
  <2>4. ASSUME NEW m \in Unanswered' PROVE Standing(m)'
    BY <2>1, <2>3, <2>4 DEF IInv, Standing
  <2>5. ASSUME NEW c \in Client PROVE ClientOK(c)'
    <3>1. Waits(c) => Waits(c)'
      BY <2>1, <2>3 DEF Waits
    <3> QED
      BY <2>1, <2>5, <3>1, Untouching DEF IInv
  <2> QED
    BY <2>2, <2>3, <2>4, <2>5 DEF IInv
<1> QED
  BY <1>1, <1>2, <1>3, <1>4, <1>5, <1>6, <1>7, <1>8, <1>9, <1>10, <1>11, <1>12 DEF Next, Serve

(* So it holds of every behaviour. *)
LEMMA SpecIInv == Spec => []IInv
BY InitIInv, NextIInv, PTL DEF Spec

-------------------------------------------------------------------------------
(* What it says of the exchange. *)

(***************************************************************************)
(* The variables of the exchange keep their shapes: in particular a reply  *)
(* port never holds more than one message, and a client's request on the   *)
(* exception port is the one its stub has built.                           *)
(***************************************************************************)
THEOREM TypeCorrect == Spec => []TypeOK
<1>1. IInv => TypeOK
  BY DEF IInv
<1> QED
  BY <1>1, SpecIInv, PTL

(***************************************************************************)
(* For every number of codes and of state words, the catch routine is      *)
(* called with the arguments of the client's call.                         *)
(***************************************************************************)
THEOREM CatchGetsItsArguments == Spec => []ArgumentsArrive
<1>1. IInv => ArgumentsArrive
  <2> SUFFICES ASSUME IInv, NEW c \in Client, client[c].pc = "sent", server # Ready,
                      server.m.from = c, server.m.n = client[c].n
               PROVE  Arguments(server.m) = client[c].args
    BY DEF ArgumentsArrive
  <2>1. PICK m : m = server.m
    OBVIOUS
  <2>2. m \in Unanswered
    BY <2>1, UnansweredIs DEF IInv
  <2>3. Standing(m)
    BY <2>2 DEF IInv
  <2>4. /\ m.id = client[c].args.r /\ m.ports = Ports(client[c].args.r)
        /\ m.body = Body(client[c].args)
    BY <2>1, <2>3 DEF Standing
  <2>5. client[c].args \in Calls
    BY ClientShape DEF IInv, InCall
  <2> QED
    BY <2>1, <2>4, <2>5, ClientIsUnderstood
<1> QED
  BY <1>1, SpecIInv, PTL

(***************************************************************************)
(* Neither stub refuses a message of the other.                            *)
(***************************************************************************)
THEOREM NoneIsMalformed == Spec => []StubsAgree
<1>1. IInv => StubsAgree
  <2> SUFFICES ASSUME IInv, NEW c \in Client, client[c].pc = "out"
               PROVE  client[c].ret \notin {"MIG_BAD_ID", "MIG_BAD_ARGUMENTS", "MIG_TYPE_ERROR",
                                            "MIG_REPLY_MISMATCH"}
    BY DEF StubsAgree
  <2>1. client[c] \in OutOfCall
    BY ClientShape DEF IInv
  <2>2. client[c].ret \in Failed \cup Answered
    BY <2>1 DEF OutOfCall
  <2> QED
    BY <2>2 DEF Failed, Answered
<1> QED
  BY <1>1, SpecIInv, PTL

(***************************************************************************)
(* A call that succeeds does so with the catch routine's answer to that    *)
(* call, never with a late one to an earlier call.                         *)
(***************************************************************************)
THEOREM NoLateReply == Spec => []SuccessIsOwn
<1>1. IInv => SuccessIsOwn
  <2> SUFFICES ASSUME IInv, NEW c \in Client, client[c].pc = "out",
                      client[c].ret = "KERN_SUCCESS"
               PROVE  caught[c] = [ret |-> "KERN_SUCCESS", state |-> client[c].state]
    BY DEF SuccessIsOwn
  <2>1. ClientOK(c) /\ client[c].ret \in Answered
    BY DEF IInv, Answered
  <2> QED
    BY <2>1 DEF ClientOK, Ending
<1> QED
  BY <1>1, SpecIInv, PTL

(***************************************************************************)
(* A client that waits is owed an answer, also after the server has died.  *)
(***************************************************************************)
THEOREM NobodyIsForgotten == Spec => []WaitingIsOwed
<1>1. IInv => WaitingIsOwed
  <2> SUFFICES ASSUME IInv, NEW c \in Client, client[c].pc = "sent", inbox[c] = << >>
               PROVE  \E m \in Unanswered : m.from = c /\ m.n = client[c].n
    BY DEF WaitingIsOwed
  <2>1. ClientOK(c) /\ \A rep : << >> # <<rep>>
    BY DEF IInv
  <2> QED
    BY <2>1 DEF ClientOK, Waits
<1> QED
  BY <1>1, SpecIInv, PTL

(***************************************************************************)
(* Whatever a message says its counts are, the server stub reads inside    *)
(* it.                                                                     *)
(***************************************************************************)
THEOREM StubReadsInside == Spec => []ReadsInside
<1>1. IInv => ReadsInside
  BY DEF IInv
<1> QED
  BY <1>1, SpecIInv, PTL

-------------------------------------------------------------------------------
(* The exchange is a remote call. *)

Waiting == {c \in Client : client[c].pc = "sent"}
Result  == [c \in Client |-> IF client[c].pc = "sent" THEN Uncaught
                             ELSE Ending(client[c].ret, client[c].state)]

(* What a change of one client is to the remote call. *)
LEMMA ClientChange ==
  ASSUME TypeOK, NEW c \in Client, NEW x, client' = [client EXCEPT ![c] = x]
  PROVE  /\ x.pc = "sent" => /\ Waiting' = Waiting \cup {c}
                             /\ Result' = [Result EXCEPT ![c] = Uncaught]
         /\ x.pc = "out" => /\ Waiting' = Waiting \ {c}
                            /\ Result' = [Result EXCEPT ![c] = Ending(x.ret, x.state)]
<1>1. client'[c] = x /\ \A d \in Client \ {c} : client'[d] = client[d]
  BY DEF TypeOK
<1>2. ASSUME x.pc = "sent"
      PROVE  /\ Waiting' = Waiting \cup {c}
             /\ Result' = [Result EXCEPT ![c] = Uncaught]
  <2>1. Waiting' = Waiting \cup {c}
    BY <1>1, <1>2 DEF Waiting
  <2>2. /\ Result'[c] = Uncaught
        /\ \A d \in Client \ {c} : Result'[d] = Result[d]
    BY <1>1, <1>2 DEF Result
  <2>3. /\ Result' = [d \in Client |-> Result'[d]]
        /\ Result = [d \in Client |-> Result[d]]
    BY DEF Result
  <2>4. Result' = [Result EXCEPT ![c] = Uncaught]
    BY <2>2, <2>3
  <2> QED
    BY <2>1, <2>4
<1>3. ASSUME x.pc = "out"
      PROVE  /\ Waiting' = Waiting \ {c}
             /\ Result' = [Result EXCEPT ![c] = Ending(x.ret, x.state)]
  <2>1. Waiting' = Waiting \ {c}
    BY <1>1, <1>3 DEF Waiting
  <2>2. /\ Result'[c] = Ending(x.ret, x.state)
        /\ \A d \in Client \ {c} : Result'[d] = Result[d]
    BY <1>1, <1>3 DEF Result
  <2>3. /\ Result' = [d \in Client |-> Result'[d]]
        /\ Result = [d \in Client |-> Result[d]]
    BY DEF Result
  <2>4. Result' = [Result EXCEPT ![c] = Ending(x.ret, x.state)]
    BY <2>2, <2>3
  <2> QED
    BY <2>1, <2>4
<1> QED
  BY <1>2, <1>3

(* What the remote call answers. *)
LEMMA AnswersOfCall ==
  ASSUME NEW ret \in Answered, NEW state \in States, ret # "KERN_SUCCESS" => state = << >>
  PROVE  Ending(ret, state) \in {Ending("KERN_SUCCESS", s) : s \in WordSeqs(0 .. MaxState)}
                                  \cup {Ending("KERN_FAILURE", << >>)}
BY DEF Answered, States

(* A call that is refused. *)
LEMMA RefusedCall ==
  ASSUME TypeOK, NEW c \in Client, client[c].pc = "out",
         NEW ret \in {"MIG_ARRAY_TOO_LARGE", "MACH_SEND_INVALID_DEST"},
         client' = [client EXCEPT ![c] = [pc |-> "out", n |-> Called(c), ret |-> ret,
                                          state |-> << >>]],
         caught' = [caught EXCEPT ![c] = Uncaught]
  PROVE  RemoteCall!Refuse(c)
<1>1. PICK x : x = [pc |-> "out", n |-> Called(c), ret |-> ret, state |-> << >>]
  OBVIOUS
<1>2. x.pc = "out" /\ x.ret = ret /\ x.state = << >> /\ client' = [client EXCEPT ![c] = x]
  BY <1>1
<1>3. Waiting' = Waiting \ {c} /\ Result' = [Result EXCEPT ![c] = Ending(ret, << >>)]
  <2>1. Waiting' = Waiting \ {c} /\ Result' = [Result EXCEPT ![c] = Ending(x.ret, x.state)]
    BY <1>2, ClientChange
  <2> QED
    BY <1>2, <2>1
<1>4. c \notin Waiting
  BY DEF Waiting
<1>5. Waiting' = Waiting
  BY <1>3, <1>4
<1> QED
  BY <1>3, <1>4, <1>5 DEF RemoteCall!Refuse, Waiting, Result

(* A call that ends. *)
LEMMA EndedCall ==
  ASSUME TypeOK, NEW c \in Client, client[c].pc = "sent", NEW ret, NEW state,
         client' = [client EXCEPT ![c] = [pc |-> "out", n |-> client[c].n, ret |-> ret,
                                          state |-> state]],
         UNCHANGED caught,
         \/ ret \in {"MACH_RCV_TOO_LARGE", "MIG_SERVER_DIED"} /\ state = << >>
         \/ /\ caught[c] = Ending(ret, state) /\ ret \in Answered /\ state \in States
            /\ ret # "KERN_SUCCESS" => state = << >>
  PROVE  RemoteCall!End(c)
<1>1. PICK x : x = [pc |-> "out", n |-> client[c].n, ret |-> ret, state |-> state]
  OBVIOUS
<1>2. x.pc = "out" /\ x.ret = ret /\ x.state = state /\ client' = [client EXCEPT ![c] = x]
  BY <1>1
<1>3. Waiting' = Waiting \ {c} /\ Result' = [Result EXCEPT ![c] = Ending(ret, state)]
  <2>1. Waiting' = Waiting \ {c} /\ Result' = [Result EXCEPT ![c] = Ending(x.ret, x.state)]
    BY <1>2, ClientChange
  <2> QED
    BY <1>2, <2>1
<1>4. c \in Waiting
  BY DEF Waiting
<1>5. Ending(ret, state) \in
        ({caught[c]} \cap ({Ending("KERN_SUCCESS", s) : s \in WordSeqs(0 .. MaxState)}
                             \cup {Ending("KERN_FAILURE", << >>)}))
          \cup {Ending("MACH_RCV_TOO_LARGE", << >>), Ending("MIG_SERVER_DIED", << >>)}
  BY AnswersOfCall
<1> QED
  BY <1>3, <1>4, <1>5 DEF RemoteCall!End, Waiting, Result

(* The catch routine runs, for a call that has not been answered or for    *)
(* none.                                                                   *)
LEMMA RunOfCall ==
  ASSUME IInv, NEW ret \in {"KERN_SUCCESS", "KERN_FAILURE"}, NEW state \in States,
         CatchReturns(ret, state)
  PROVE  caught' = caught \/ \E c \in Client : RemoteCall!Run(c)
<1>1. PICK a : a = Ending(ret, state)
  OBVIOUS
<1>2. PICK h \in Unanswered :
        /\ h.from \in Client /\ h.n = client[h.from].n => caught' = [caught EXCEPT ![h.from] = a]
        /\ ~ (h.from \in Client /\ h.n = client[h.from].n) => caught' = caught
        /\ ret # "KERN_SUCCESS" => state = << >>
  <2>1. ret # "KERN_SUCCESS" => state = << >>
    BY DEF CatchReturns
  <2> QED
    BY <1>1, <2>1, ReturnShape
<1>3. client' = client
  BY DEF CatchReturns
<1>4. Waiting' = Waiting /\ Result' = Result
  BY <1>3 DEF Waiting, Result
<1>5. a \in {Ending("KERN_SUCCESS", s) : s \in WordSeqs(0 .. MaxState)}
              \cup {Ending("KERN_FAILURE", << >>)}
  BY <1>1, <1>2, AnswersOfCall DEF Answered
<1>6. ASSUME NEW c \in Client, h.from = c, h.n = client[c].n
      PROVE  RemoteCall!Run(c)
  <2>1. /\ caught[c] = Uncaught
        /\ client[c].pc = "out" =>
             client[c].ret = "MACH_RCV_TOO_LARGE" /\ client[c].state = << >>
    BY <1>2, <1>6, PortIsOwn
  <2>2. c \in Waiting \/ Result[c] = Ending("MACH_RCV_TOO_LARGE", << >>)
    BY <2>1, ClientShape DEF IInv, Waiting, Result
  <2>3. caught' = [caught EXCEPT ![c] = a]
    BY <1>2, <1>6
  <2> QED
    BY <1>4, <1>5, <2>1, <2>2, <2>3 DEF RemoteCall!Run, Waiting, Result
<1> QED
  BY <1>2, <1>6

(* Every step is a step of the remote call, or none. *)
LEMMA NextIsCall ==
  ASSUME IInv, [Next]_vars
  PROVE  [RemoteCall!Next]_(RemoteCall!vars)
<1>1. TypeOK
  BY DEF IInv
<1>2. ASSUME UNCHANGED <<client, caught>> PROVE UNCHANGED RemoteCall!vars
  BY <1>2 DEF RemoteCall!vars
<1>3. ASSUME NEW c \in Client, CallTooLarge(c) PROVE RemoteCall!Refuse(c)
  BY <1>1, <1>3, RefusedCall DEF CallTooLarge, MayCall
<1>4. ASSUME NEW c \in Client, SendInvalid(c) PROVE RemoteCall!Refuse(c)
  BY <1>1, <1>4, RefusedCall DEF SendInvalid, MayCall
<1>5. ASSUME NEW c \in Client, NEW a \in Calls, Send(c, a) PROVE RemoteCall!Begin(c)
  <2>1. PICK x : x = [pc |-> "sent", n |-> Called(c), args |-> a]
    OBVIOUS
  <2>2. /\ x.pc = "sent" /\ client' = [client EXCEPT ![c] = x] /\ client[c].pc = "out"
        /\ caught' = [caught EXCEPT ![c] = Uncaught]
    BY <1>5, <2>1 DEF Send, MayCall
  <2>3. Waiting' = Waiting \cup {c} /\ Result' = [Result EXCEPT ![c] = Uncaught]
    BY <1>1, <1>5, <2>2, ClientChange
  <2>4. c \notin Waiting
    BY <2>2 DEF Waiting
  <2> QED
    BY <2>2, <2>3, <2>4 DEF RemoteCall!Begin, Waiting, Result
<1>6. ASSUME NEW c \in Client, ReceiveFails(c) PROVE RemoteCall!End(c)
  BY <1>1, <1>6, EndedCall DEF ReceiveFails, Out
<1>7. ASSUME NEW c \in Client, GetReply(c) PROVE RemoteCall!End(c)
  <2>1. PICK ret, state :
          /\ client' = [client EXCEPT ![c] = [pc |-> "out", n |-> client[c].n,
                                              ret |-> ret, state |-> state]]
          /\ \/ ret = "MIG_SERVER_DIED" /\ state = << >>
             \/ /\ caught[c] = Ending(ret, state) /\ ret \in Answered /\ state \in States
                /\ ret # "KERN_SUCCESS" => state = << >>
    BY <1>7, GetReplyEnds
  <2>2. client[c].pc = "sent" /\ UNCHANGED caught
    BY <1>7 DEF GetReply
  <2> QED
    BY <1>1, <1>7, <2>1, <2>2, EndedCall
<1>8. ASSUME NEW ret \in {"KERN_SUCCESS", "KERN_FAILURE"}, NEW state \in WordSeqs(0 .. MaxState),
             CatchReturns(ret, state)
      PROVE  (\E c \in Client : RemoteCall!Run(c)) \/ UNCHANGED RemoteCall!vars
  <2>1. client' = client
    BY <1>8 DEF CatchReturns
  <2>2. caught' = caught \/ \E c \in Client : RemoteCall!Run(c)
    BY <1>8, RunOfCall DEF States
  <2> QED
    BY <1>2, <2>1, <2>2
<1>9. ASSUME (\E f \in Foreign : SendForeign(f)) \/ BadId \/ Refuse \/ CallCatch \/ ServerDies
             \/ UNCHANGED vars
      PROVE  UNCHANGED RemoteCall!vars
  <2>1. UNCHANGED <<client, caught>>
    BY <1>9 DEF SendForeign, BadId, Refuse, CallCatch, ServerDies, vars
  <2> QED
    BY <1>2, <2>1
<1> QED
  BY <1>3, <1>4, <1>5, <1>6, <1>7, <1>8, <1>9 DEF Next, Serve, RemoteCall!Next

(***************************************************************************)
(* Client stub, queue and server stub together implement the remote call:  *)
(* a call runs the catch routine at most once, never when it was refused,  *)
(* and ends with its own answer or with a failure of the way.              *)
(***************************************************************************)
THEOREM StubsAreARemoteCall == Spec => ImplementsRemoteCall
<1>1. Init => RemoteCall!Init
  <2> SUFFICES ASSUME Init PROVE RemoteCall!Init
    OBVIOUS
  <2>1. /\ caught = [c \in Client |-> Uncaught]
        /\ \A c \in Client :
             client[c].pc = "out" /\ client[c].ret = "none" /\ client[c].state = << >>
    BY DEF Init
  <2>2. Waiting = {}
    BY <2>1 DEF Waiting
  <2>3. Result = [c \in Client |-> Uncaught]
    BY <2>1 DEF Result, Ending, Uncaught
  <2> QED
    BY <2>1, <2>2, <2>3 DEF RemoteCall!Init, Waiting, Result
<1>2. IInv /\ [Next]_vars => [RemoteCall!Next]_(RemoteCall!vars)
  BY NextIsCall
<1> QED
  BY <1>1, <1>2, SpecIInv, PTL DEF Spec, ImplementsRemoteCall, RemoteCall!Spec
===============================================================================
