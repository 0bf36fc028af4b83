-------------------------- MODULE MCPClientProofs --------------------------
(***************************************************************************)
(* For any calls and bounds: an answer is its caller's own, a call that    *)
(* waits has a reader, a connection has a process, and what a call has     *)
(* sent and not heard of is bounded, and so are the steps it takes.  IInv  *)
(* is the first inductive invariant; KInv, of the counters and the stacks  *)
(* of connect(), builds on it and gives the types as well.                 *)
(***************************************************************************)
EXTENDS MCPClient, TLAPS

-----------------------------------------------------------------------------
(* The inductive invariant                                                 *)

Fields    == {"pc", "frames", "id", "tries", "fut", "heard", "unanswered"}
Requested == {"write", "wait"}
Letters   == inbox \union outbox \union ToSet(buffer)

\* What is needed of the types: a call's locals are a record, mail is mail.
Shape ==
    /\ DOMAIN call = Call
    /\ \A c \in Call : DOMAIN call[c] = Fields /\ call[c].id \in 0 .. lastId
    /\ lastId \in 0 .. MaxIds /\ spawned \in 0 .. MaxProcs
    /\ proc \in 0 .. MaxProcs /\ reader \in 0 .. MaxProcs
    /\ inbox \subseteq Mail /\ outbox \subseteq Mail /\ buffer \in Seq(Mail)

\* An id belongs to one call, and so does all the mail that bears it; none
\* does before the request is written.
IdsAreOwn ==
    /\ \A c \in Call : call[c].pc \in Requested => call[c].id # 0
    /\ \A c, d \in Call : call[c].id # 0 /\ call[c].id = call[d].id => c = d
    /\ \A m \in Letters : m.id <= lastId
    /\ \A c \in Call, m \in Letters : call[c].id = m.id => m.from = c /\ call[c].pc # "write"

Undone(r) == r.pc \in Requested /\ r.fut = "undone"

\* A future nobody has resolved is pending with a reader, which reads from the
\* process that requests are written to, if there is one.
Served ==
    /\ reader # 0 /\ proc # 0 => reader = proc
    /\ \A c \in Call : Undone(call[c]) =>
         /\ call[c].id \in pending /\ reader # 0
         /\ \A m \in inbox \union outbox : m.id = call[c].id => m.proc = reader

IInv == Shape /\ IdsAreOwn /\ OwnAnswer /\ Served /\ ConnectedHasProcess

-----------------------------------------------------------------------------
(* Locals of a call                                                        *)

\* What a call may have become without a new request: it is nobody's waiter,
\* and an answer it has is its own.
Quiet(r, c) ==
    /\ DOMAIN r = Fields /\ r.id \in {call[c].id, 0} /\ (r.pc \in Requested => r.id # 0)
    /\ (r.fut \in Answer => r.heard = c)
    /\ r.pc = "write" => call[c].pc = "write"
    /\ ~Undone(r)

\* A record that differs from a call's locals in what no property looks at.
Like(r, c) ==
    /\ DOMAIN r = Fields /\ r.id = call[c].id /\ r.fut = call[c].fut
    /\ r.heard = call[c].heard

LEMMA FreshFacts ==
    /\ DOMAIN Fresh = Fields /\ Fresh.id = 0 /\ Fresh.pc = "done" /\ Fresh.fut = "eof"
    /\ \A c \in Call : Quiet(Fresh, c)
  <1>1. DOMAIN Fresh = Fields /\ Fresh.id = 0 /\ Fresh.pc = "done" /\ Fresh.fut = "eof"
    BY DEF Fresh, Fields
  <1> QED
    BY <1>1 DEF Quiet, Answer, Requested, Undone

LEMMA LikeFacts ==
    ASSUME IInv, NEW c \in Call, NEW r, Like(r, c), NEW p, p \notin Requested
    PROVE  /\ Quiet([r EXCEPT !.pc = p], c)
           /\ Like([r EXCEPT !.pc = p], c)
  <1>1. r.fut \in Answer => r.heard = c
    BY DEF IInv, OwnAnswer, Like
  <1>2. /\ DOMAIN [r EXCEPT !.pc = p] = Fields
        /\ [r EXCEPT !.pc = p].pc = p /\ [r EXCEPT !.pc = p].id = r.id
        /\ [r EXCEPT !.pc = p].fut = r.fut /\ [r EXCEPT !.pc = p].heard = r.heard
    BY DEF Like, Fields
  <1> QED
    BY <1>1, <1>2 DEF Quiet, Like, Requested, Undone

LEMMA Nesting ==
    ASSUME Shape, NEW c \in Call, NEW w
    PROVE  /\ Like(call[c], c)
           /\ Like(Nested(call[c], w), c)
           /\ Like(Returned(call[c]), c)
  BY DEF Shape, Like, Nested, Returned, Fields

\* _fail_all_pending leaves nobody waiting.
LEMMA FailAllFacts ==
    ASSUME IInv
    PROVE  /\ DOMAIN FailAll = Call
           /\ \A c \in Call : Quiet(FailAll[c], c) /\ FailAll[c].id = call[c].id
  <1> SUFFICES ASSUME NEW c \in Call
               PROVE  Quiet(FailAll[c], c) /\ FailAll[c].id = call[c].id
    BY DEF FailAll
  <1>0. FailAll[c] = Failed(call[c])
    BY DEF FailAll
  <1>1. DOMAIN call[c] = Fields /\ (call[c].fut \in Answer => call[c].heard = c)
        /\ (call[c].pc \in Requested => call[c].id # 0)
    BY DEF IInv, Shape, OwnAnswer, IdsAreOwn
  <1>2. CASE Undone(call[c])
    <2>1. call[c].id \in pending
      BY <1>2 DEF IInv, Served
    <2>2. Failed(call[c]) = [call[c] EXCEPT !.fut = "eof"]
      BY <1>2, <2>1 DEF Failed, Undone, Requested
    <2>3. /\ DOMAIN Failed(call[c]) = Fields /\ Failed(call[c]).id = call[c].id
          /\ Failed(call[c]).pc = call[c].pc /\ Failed(call[c]).fut = "eof"
      BY <1>1, <2>2 DEF Fields
    <2> QED
      BY <1>0, <1>1, <2>3 DEF Quiet, Undone, Answer
  <1>3. CASE ~Undone(call[c])
    <2>1. Failed(call[c]) = call[c]
      BY <1>3 DEF Failed, Undone, Requested
    <2> QED
      BY <1>0, <1>1, <1>3, <2>1 DEF Quiet
  <1> QED
    BY <1>2, <1>3

-----------------------------------------------------------------------------
(* Steps                                                                   *)

LEMMA LettersAreMail ==
    ASSUME Shape
    PROVE  Letters \subseteq Mail /\ \A m \in Letters : m.id \in 1 .. MaxIds
  <1>1. ToSet(buffer) \subseteq Mail
    <2>1. \A i \in DOMAIN buffer : buffer[i] \in Mail
      BY DEF Shape
    <2> QED
      BY <2>1 DEF ToSet
  <1> QED
    BY <1>1 DEF Shape, Letters, Mail, Id

\* A step without a new request or letter: each call is as it was, and served
\* as it was if it waits, or it waits no more.
LEMMA QuietStep ==
    ASSUME IInv, DOMAIN call' = Call,
           \A c \in Call :
               \/ Quiet(call'[c], c)
               \/ /\ call'[c] = call[c]
                  /\ Undone(call[c]) => reader' = reader /\ call[c].id \in pending',
           lastId' = lastId, spawned' \in 0 .. MaxProcs,
           proc' \in 0 .. MaxProcs, reader' \in 0 .. MaxProcs,
           inbox' \union outbox' \subseteq inbox \union outbox,
           buffer' \in Seq(Mail), Letters' \subseteq Letters,
           reader' # 0 /\ proc' # 0 => reader' = proc',
           ConnectedHasProcess'
    PROVE  IInv'
  <1>0. /\ Shape /\ IdsAreOwn /\ OwnAnswer /\ Served
        /\ \A c \in Call : DOMAIN call[c] = Fields /\ call[c].id \in 0 .. lastId
        /\ lastId \in 0 .. MaxIds /\ MaxIds \in Nat
    BY BoundsAssumption DEF IInv, Shape
  <1>1. \A c \in Call : /\ DOMAIN call'[c] = Fields
                        /\ call'[c].id \in {call[c].id, 0}
                        /\ call'[c].pc = "write" => call[c].pc = "write"
    BY <1>0 DEF Quiet
  <1>2. Shape'
    BY <1>0, <1>1 DEF Shape
  <1>3. IdsAreOwn'
    <2>1. \A c \in Call : call'[c].pc \in Requested => call'[c].id # 0
      BY <1>0 DEF Quiet, IdsAreOwn
    <2>2. \A c, d \in Call : call'[c].id # 0 /\ call'[c].id = call'[d].id => c = d
      BY <1>0, <1>1 DEF IdsAreOwn
    <2>3. \A m \in Letters' : m.id <= lastId' /\ m.id # 0
      BY <1>0, LettersAreMail DEF IdsAreOwn
    <2>4. ASSUME NEW c \in Call, NEW m \in Letters', call'[c].id = m.id
          PROVE  m.from = c /\ call'[c].pc # "write"
      BY <1>0, <1>1, <2>3, <2>4 DEF IdsAreOwn
    <2> QED
      BY <2>1, <2>2, <2>3, <2>4 DEF IdsAreOwn
  <1>4. OwnAnswer'
    BY <1>0 DEF Quiet, OwnAnswer
  <1>5. Served'
    <2>1. ASSUME NEW c \in Call, Undone(call'[c])
          PROVE  /\ call'[c].id \in pending' /\ reader' # 0
                 /\ \A m \in inbox' \union outbox' : m.id = call'[c].id => m.proc = reader'
      <3>1. call'[c] = call[c] /\ reader' = reader /\ call[c].id \in pending'
        BY <2>1 DEF Quiet
      <3> QED
        BY <1>0, <2>1, <3>1 DEF Served
    <2> QED
      BY <2>1 DEF Served, Undone
  <1> QED
    BY <1>2, <1>3, <1>4, <1>5 DEF IInv

\* A call takes a new id, with a reader on the process there is.
LEMMA RegisterStep ==
    ASSUME IInv, NEW c \in Call, NEW r, Like(r, c), Register(c, r), proc # 0,
           UNCHANGED <<inbox, outbox, buffer, proc, spawned>>
    PROVE  IInv'
  <1>0. /\ Shape /\ IdsAreOwn /\ OwnAnswer /\ Served
        /\ \A d \in Call : DOMAIN call[d] = Fields /\ call[d].id \in 0 .. lastId
        /\ lastId \in 0 .. MaxIds /\ MaxIds \in Nat /\ DOMAIN call = Call
        /\ proc \in 0 .. MaxProcs /\ reader \in 0 .. MaxProcs
    BY BoundsAssumption DEF IInv, Shape
  <1>1. /\ lastId' = lastId + 1 /\ lastId < MaxIds
        /\ reader' = proc /\ (reader # 0 => reader' = reader)
        /\ pending' = pending \union {lastId + 1}
        /\ call' = [call EXCEPT ![c] = Registered(r)]
    BY <1>0 DEF Register, Served
  <1>2. /\ DOMAIN Registered(r) = Fields /\ Registered(r).id = lastId + 1
        /\ Registered(r).fut = "undone" /\ Registered(r).pc = "write"
    BY DEF Registered, Like, Fields
  <1>3. /\ DOMAIN call' = Call /\ call'[c] = Registered(r)
        /\ \A d \in Call \ {c} : call'[d] = call[d]
    BY <1>0, <1>1
  <1>4. Shape'
    <2>1. \A d \in Call : DOMAIN call'[d] = Fields /\ call'[d].id \in 0 .. lastId'
      BY <1>0, <1>1, <1>2, <1>3
    <2> QED
      BY <1>0, <1>1, <1>3, <2>1 DEF Shape
  <1>5. \A m \in Letters : m.id <= lastId /\ m.id \in Nat \ {0}
    BY <1>0, LettersAreMail DEF IdsAreOwn
  <1>6. Letters' = Letters
    BY DEF Letters
  <1>7. IdsAreOwn'
    <2>1. \A d \in Call : call'[d].pc \in Requested => call'[d].id # 0
      BY <1>0, <1>2, <1>3 DEF IdsAreOwn
    <2>2. \A d, e \in Call : call'[d].id # 0 /\ call'[d].id = call'[e].id => d = e
      BY <1>0, <1>2, <1>3 DEF IdsAreOwn
    <2>3. \A m \in Letters' : m.id <= lastId'
      BY <1>0, <1>1, <1>5, <1>6
    <2>4. ASSUME NEW d \in Call, NEW m \in Letters', call'[d].id = m.id
          PROVE  m.from = d /\ call'[d].pc # "write"
      <3>1. d # c
        BY <1>0, <1>2, <1>3, <1>5, <1>6, <2>4
      <3> QED
        BY <1>0, <1>3, <1>6, <2>4, <3>1 DEF IdsAreOwn
    <2> QED
      BY <2>1, <2>2, <2>3, <2>4 DEF IdsAreOwn
  <1>8. OwnAnswer'
    BY <1>0, <1>2, <1>3 DEF OwnAnswer, Answer
  <1>9. Served'
    <2>1. ASSUME NEW d \in Call, Undone(call'[d])
          PROVE  /\ call'[d].id \in pending' /\ reader' # 0
                 /\ \A m \in inbox' \union outbox' : m.id = call'[d].id => m.proc = reader'
      <3>1. CASE d = c
        <4>1. \A m \in inbox \union outbox : m.id # lastId + 1
          BY <1>0, <1>5 DEF Letters
        <4> QED
          BY <1>1, <1>2, <1>3, <3>1, <4>1
      <3>2. CASE d # c
        BY <1>0, <1>1, <1>3, <2>1, <3>2 DEF Served
      <3> QED
        BY <3>1, <3>2
    <2> QED
      BY <1>1, <2>1 DEF Served, Undone
  <1> QED
    BY <1>4, <1>7, <1>8, <1>9 DEF IInv, ConnectedHasProcess

\* A step that only turns the locals of c into r, which waits for nothing.
LEMMA CallerStep ==
    ASSUME IInv, NEW c \in Call, NEW r, Quiet(r, c), call' = [call EXCEPT ![c] = r],
           UNCHANGED <<lastId, spawned, reader, inbox, outbox, buffer>>,
           \A d \in Call \ {c} : Undone(call[d]) /\ call[d].id \in pending => call[d].id \in pending',
           proc' \in {proc, 0}, ConnectedHasProcess'
    PROVE  IInv'
  <1>1. /\ DOMAIN call' = Call /\ call'[c] = r
        /\ \A d \in Call \ {c} : call'[d] = call[d]
    BY DEF IInv, Shape
  <1>2. ASSUME NEW d \in Call
        PROVE  \/ Quiet(call'[d], d)
               \/ /\ call'[d] = call[d]
                  /\ Undone(call[d]) => reader' = reader /\ call[d].id \in pending'
    BY <1>1 DEF IInv, Served
  <1>3. /\ lastId' = lastId /\ spawned' \in 0 .. MaxProcs
        /\ proc' \in 0 .. MaxProcs /\ reader' \in 0 .. MaxProcs
        /\ buffer' \in Seq(Mail)
        /\ reader' # 0 /\ proc' # 0 => reader' = proc'
    BY BoundsAssumption DEF IInv, Shape, Served
  <1>4. Letters' \subseteq Letters /\ inbox' \union outbox' \subseteq inbox \union outbox
    BY DEF Letters
  <1> QED
    BY <1>1, <1>2, <1>3, <1>4, QuietStep

\* A step after which nobody waits: the pending futures have been failed.
LEMMA FailStep ==
    ASSUME IInv, DOMAIN call' = Call, \A c \in Call : Quiet(call'[c], c),
           UNCHANGED <<lastId, inbox, buffer>>, outbox' \subseteq outbox,
           spawned' \in 0 .. MaxProcs, proc' \in 0 .. MaxProcs,
           reader' \in {0, reader}, reader' # 0 => proc' \in {0, proc},
           ConnectedHasProcess'
    PROVE  IInv'
  <1>1. /\ buffer' \in Seq(Mail) /\ reader' \in 0 .. MaxProcs
        /\ reader' # 0 /\ proc' # 0 => reader' = proc'
    BY BoundsAssumption DEF IInv, Shape, Served
  <1>2. Letters' \subseteq Letters /\ inbox' \union outbox' \subseteq inbox \union outbox
    BY DEF Letters
  <1> QED
    BY <1>1, <1>2, QuietStep

\* ... but for what the caller itself becomes.
LEMMA FailedBut ==
    ASSUME IInv, NEW c \in Call, NEW r, Quiet(r, c), call' = [FailAll EXCEPT ![c] = r]
    PROVE  DOMAIN call' = Call /\ \A d \in Call : Quiet(call'[d], d)
  BY FailAllFacts

LEMMA LikeFailed ==
    ASSUME IInv, NEW c \in Call, NEW p, p \notin Requested
    PROVE  /\ Quiet([FailAll[c] EXCEPT !.pc = p], c)
           /\ [FailAll EXCEPT ![c].pc = p] = [FailAll EXCEPT ![c] = [FailAll[c] EXCEPT !.pc = p]]
  <1>1. Quiet(FailAll[c], c) /\ DOMAIN FailAll = Call
    BY FailAllFacts
  <1>2. /\ DOMAIN [FailAll[c] EXCEPT !.pc = p] = Fields
        /\ [FailAll[c] EXCEPT !.pc = p].pc = p
        /\ [FailAll[c] EXCEPT !.pc = p].id = FailAll[c].id
        /\ [FailAll[c] EXCEPT !.pc = p].fut = FailAll[c].fut
        /\ [FailAll[c] EXCEPT !.pc = p].heard = FailAll[c].heard
    BY <1>1 DEF Quiet, Fields
  <1>3. Quiet([FailAll[c] EXCEPT !.pc = p], c)
    BY <1>1, <1>2 DEF Quiet, Undone, Requested
  <1> QED
    BY <1>3

-----------------------------------------------------------------------------
(* Actions                                                                 *)

LEMMA InitIInv == Init => IInv
  <1> SUFFICES ASSUME Init PROVE IInv
    OBVIOUS
  <1>0. /\ call = [c \in Call |-> [Fresh EXCEPT !.pc = "idle"]]
        /\ inbox = {} /\ outbox = {} /\ buffer = <<>> /\ lastId = 0 /\ proc = 1
        /\ spawned = 1 /\ reader = 1
    BY DEF Init
  <1>1. /\ DOMAIN [Fresh EXCEPT !.pc = "idle"] = Fields
        /\ [Fresh EXCEPT !.pc = "idle"].pc = "idle" /\ [Fresh EXCEPT !.pc = "idle"].id = 0
        /\ [Fresh EXCEPT !.pc = "idle"].fut = "eof"
    BY DEF Fresh, Fields
  <1>2. /\ DOMAIN call = Call
        /\ \A c \in Call : /\ DOMAIN call[c] = Fields /\ call[c].pc = "idle"
                           /\ call[c].id = 0 /\ call[c].fut = "eof"
    BY <1>0, <1>1
  <1>3. Letters = {}
    BY <1>0 DEF Letters, ToSet
  <1>4. Shape
    BY <1>0, <1>2, BoundsAssumption DEF Shape
  <1>5. IdsAreOwn /\ OwnAnswer
    BY <1>2, <1>3 DEF IdsAreOwn, OwnAnswer, Answer, Requested
  <1>6. Served /\ ConnectedHasProcess
    BY <1>0, <1>2 DEF Served, Undone, Requested, ConnectedHasProcess
  <1> QED
    BY <1>4, <1>5, <1>6 DEF IInv

\* connect() fails, for every frame: the locals are gone.
LEMMA ConnectFalseFacts ==
    ASSUME NEW c \in Call, NEW calls, ConnectFalse(c, calls)
    PROVE  call' = [calls EXCEPT ![c] = Fresh]
  BY DEF ConnectFalse

LEMMA InitialisedStep ==
    ASSUME IInv, NEW c \in Call, NEW r, Like(r, c), Initialised(c, r),
           \/ r = call[c] \/ r = Returned(call[c]),
           UNCHANGED <<inbox, outbox, buffer, proc, spawned>>
    PROVE  IInv'
  <1>1. CASE proc # 0 /\ connected' = TRUE /\ ConnectTrue(c, r)
    <2>0. Like(Returned(r), c)
      BY DEF Like, Returned, Fields
    <2>1. CASE Register(c, Returned(r))
      BY <1>1, <2>0, <2>1, RegisterStep
    <2>2. CASE /\ call' = [call EXCEPT ![c] = [Returned(r) EXCEPT !.pc = "send"]]
               /\ UNCHANGED <<lastId, pending, reader>>
      <3>1. Quiet([Returned(r) EXCEPT !.pc = "send"], c)
        BY <2>0, LikeFacts DEF Requested
      <3> QED
        BY <1>1, <2>2, <3>1, CallerStep DEF ConnectedHasProcess
    <2> QED
      BY <1>1, <2>1, <2>2 DEF ConnectTrue
  <1>2. CASE /\ connected' = FALSE /\ ConnectFalse(c, call)
             /\ UNCHANGED <<lastId, pending, reader>>
    BY <1>2, FreshFacts, ConnectFalseFacts, CallerStep DEF ConnectedHasProcess
  <1> QED
    BY <1>1, <1>2 DEF Initialised

LEMMA GateStep ==
    ASSUME IInv, NEW c \in Call, GateClosed(c) \/ Gate(c)
    PROVE  IInv'
  <1>0. UNCHANGED <<proc, lastId, spawned, reader, inbox, outbox, buffer, pending>>
    BY DEF GateClosed, Gate, server, client
  <1>1. ConnectedHasProcess'
    BY <1>0 DEF IInv, ConnectedHasProcess, GateClosed, Gate, SeeHealth, client
  <1>2. PICK r : Quiet(r, c) /\ call' = [call EXCEPT ![c] = r]
    <2>0. Shape
      BY DEF IInv
    <2>1. CASE call' = Error(c)
      BY <2>1, FreshFacts DEF Error
    <2>2. CASE call' = [call EXCEPT ![c].pc = "send"]
      <3>1. Quiet([call[c] EXCEPT !.pc = "send"], c)
        BY <2>0, Nesting, LikeFacts DEF Requested
      <3> QED
        BY <2>2, <3>1
    <2>3. CASE call' = [call EXCEPT ![c] = [Nested(@, "ensure") EXCEPT !.pc = "close"]]
      <3>1. Quiet([Nested(call[c], "ensure") EXCEPT !.pc = "close"], c)
        BY <2>0, Nesting, LikeFacts DEF Requested
      <3> QED
        BY <2>3, <3>1
    <2> QED
      BY <2>1, <2>2, <2>3 DEF GateClosed, Gate
  <1> QED
    BY <1>0, <1>1, <1>2, CallerStep

LEMMA SendStep ==
    ASSUME IInv, NEW c \in Call, Send(c) \/ Reconnect(c)
    PROVE  IInv'
  <1>0. /\ UNCHANGED <<proc, spawned, inbox, outbox, buffer>>
        /\ Shape /\ Like(call[c], c) /\ ConnectedHasProcess
    BY Nesting DEF IInv, Send, Reconnect, server, client
  <1>1. CASE Register(c, call[c]) /\ proc # 0
    BY <1>0, <1>1, RegisterStep
  <1>2. CASE Initialised(c, call[c])
    BY <1>0, <1>2, InitialisedStep
  <1>3. CASE /\ call' = Error(c) /\ UNCHANGED <<lastId, pending, reader>>
             /\ connected' => connected
    BY <1>0, <1>3, FreshFacts, CallerStep DEF Error, ConnectedHasProcess
  <1>4. CASE Reconnect(c)
    <2>1. \E w : call' = [call EXCEPT ![c] = [Nested(@, w) EXCEPT !.pc = "spawn"]]
      BY <1>4 DEF Reconnect
    <2>2. PICK w : call' = [call EXCEPT ![c] = [Nested(call[c], w) EXCEPT !.pc = "spawn"]]
      BY <2>1
    <2>3. Quiet([Nested(call[c], w) EXCEPT !.pc = "spawn"], c)
      BY <1>0, Nesting, LikeFacts DEF Requested
    <2> QED
      BY <1>0, <1>4, <2>2, <2>3, CallerStep DEF Reconnect, SeeHealth, ConnectedHasProcess
  <1>5. CASE Send(c)
    <2>1. CASE proc = 0 /\ SendFails(c)
      BY <1>2, <1>3, <2>1 DEF SendFails
    <2>2. CASE Healthy /\ Register(c, call[c]) /\ UNCHANGED connected
      BY <1>1, <2>2 DEF Healthy
    <2>3. CASE SendUnhealthy(c)
      BY <1>2, <1>3, <2>3 DEF SendUnhealthy, SeeHealth
    <2> QED
      BY <1>5, <2>1, <2>2, <2>3 DEF Send
  <1> QED
    BY <1>4, <1>5

\* The letter that is written is the only one with the id of its call, and goes
\* to the process the reader reads from.
LEMMA WriteStep ==
    ASSUME IInv, NEW c \in Call, Write(c)
    PROVE  IInv'
  <1>0. /\ Shape /\ IdsAreOwn /\ OwnAnswer /\ Served /\ ConnectedHasProcess
        /\ DOMAIN call = Call /\ DOMAIN call[c] = Fields
        /\ call[c].pc = "write" /\ call[c].id # 0 /\ proc # 0
        /\ call[c].id \in 0 .. lastId /\ lastId \in 0 .. MaxIds
    BY DEF IInv, Shape, IdsAreOwn, Write, At, Requested
  <1>1. /\ UNCHANGED <<outbox, proc, spawned, connected, lastId, reader>>
        /\ ~ \E m \in ToSet(buffer) : m.id = call[c].id
    BY <1>0 DEF Write, IdsAreOwn, Letters
  <1> DEFINE mail == [proc |-> proc, id |-> call[c].id, from |-> c]
  <1>2. /\ UNCHANGED <<pending, buffer>>
        /\ inbox' \subseteq inbox \union {mail} /\ inbox \subseteq inbox'
        /\ call' = [call EXCEPT ![c].pc = "wait",
                       ![c].unanswered = IF Linking(c) \/ life[proc] # "up" THEN @ ELSE @ + 1]
    BY <1>1 DEF Write
  <1>3. /\ DOMAIN call' = Call
        /\ DOMAIN call'[c] = Fields /\ call'[c].pc = "wait" /\ call'[c].id = call[c].id
        /\ call'[c].fut = call[c].fut /\ call'[c].heard = call[c].heard
        /\ \A d \in Call \ {c} : call'[d] = call[d]
    BY <1>0, <1>2 DEF Fields
  <1>4. mail \in Mail /\ mail.id = call[c].id /\ mail.from = c /\ mail.proc = proc
    BY <1>0, BoundsAssumption DEF Mail, Id, Proc, Shape
  <1>5. Letters' \subseteq Letters \union {mail}
    BY <1>1, <1>2 DEF Letters
  <1>6. Shape'
    <2>1. \A d \in Call : DOMAIN call'[d] = Fields /\ call'[d].id \in 0 .. lastId'
      BY <1>0, <1>1, <1>3 DEF Shape
    <2> QED
      BY <1>0, <1>1, <1>2, <1>3, <1>4, <2>1 DEF Shape
  <1>7. IdsAreOwn'
    <2>1. \A d \in Call : call'[d].pc \in Requested => call'[d].id # 0
      BY <1>0, <1>3 DEF IdsAreOwn
    <2>2. \A d, e \in Call : call'[d].id # 0 /\ call'[d].id = call'[e].id => d = e
      BY <1>0, <1>3 DEF IdsAreOwn
    <2>3. \A m \in Letters' : m.id <= lastId'
      BY <1>0, <1>1, <1>4, <1>5 DEF IdsAreOwn
    <2>4. ASSUME NEW d \in Call, NEW m \in Letters', call'[d].id = m.id
          PROVE  m.from = d /\ call'[d].pc # "write"
      <3>1. CASE m = mail
        BY <1>0, <1>3, <1>4, <2>4, <3>1 DEF IdsAreOwn
      <3>2. CASE m \in Letters
        BY <1>0, <1>3, <2>4, <3>2 DEF IdsAreOwn
      <3> QED
        BY <1>5, <3>1, <3>2
    <2> QED
      BY <2>1, <2>2, <2>3, <2>4 DEF IdsAreOwn
  <1>8. OwnAnswer'
    BY <1>0, <1>3 DEF OwnAnswer
  <1>9. Served'
    <2>1. ASSUME NEW d \in Call, Undone(call'[d])
          PROVE  /\ call'[d].id \in pending' /\ reader' # 0
                 /\ \A m \in inbox' \union outbox' : m.id = call'[d].id => m.proc = reader'
      <3>1. Undone(call[d]) /\ call'[d].id = call[d].id
        BY <1>0, <1>3, <2>1 DEF Undone, Requested
      <3>2. mail.proc = reader
        BY <1>0, <1>4, <3>1 DEF Served
      <3> QED
        BY <1>0, <1>1, <1>2, <3>1, <3>2 DEF Served
    <2> QED
      BY <1>0, <1>1, <2>1 DEF Served, Undone
  <1> QED
    BY <1>0, <1>1, <1>6, <1>7, <1>8, <1>9 DEF IInv, ConnectedHasProcess

LEMMA WriteFailsStep ==
    ASSUME IInv, NEW c \in Call, WriteFails(c) \/ GiveUp(c)
    PROVE  IInv'
  <1>0. /\ UNCHANGED <<proc, spawned, inbox, outbox, buffer>>
        /\ Shape /\ Like(call[c], c) /\ ConnectedHasProcess
    BY Nesting DEF IInv, WriteFails, GiveUp, server
  <1>2. CASE Initialised(c, call[c])
    BY <1>0, <1>2, InitialisedStep
  <1>3. CASE /\ call' = Error(c) /\ UNCHANGED <<lastId, pending, reader>>
             /\ connected' => connected
    BY <1>0, <1>3, FreshFacts, CallerStep DEF Error, ConnectedHasProcess
  <1>4. CASE NoProcess(c)
    <2>1. CASE ConnectFalse(c, call) /\ connected' = FALSE
      BY <1>0, <1>4, <2>1, FreshFacts, ConnectFalseFacts, CallerStep
         DEF NoProcess, ConnectedHasProcess
    <2> QED
      BY <1>3, <1>4, <2>1 DEF NoProcess
  <1>5. CASE SendFails(c)
    BY <1>2, <1>3, <1>5 DEF SendFails
  <1> QED
    BY <1>2, <1>4, <1>5 DEF WriteFails, GiveUp

LEMMA TimeoutStep ==
    ASSUME IInv, NEW c \in Call, Timeout(c)
    PROVE  IInv'
  <1>0. /\ UNCHANGED <<proc, connected, lastId, spawned, reader, inbox, outbox, buffer>>
        /\ pending' = pending \ {call[c].id}
        /\ call' = [call EXCEPT ![c] = [call[c] EXCEPT !.fut = "expired"]]
        /\ call[c].pc = "wait" /\ call[c].id # 0
        /\ Shape /\ IdsAreOwn /\ DOMAIN call[c] = Fields /\ ConnectedHasProcess
    BY DEF IInv, Shape, IdsAreOwn, Requested, Timeout, At, server
  <1>1. Quiet([call[c] EXCEPT !.fut = "expired"], c)
    <2>1. LET r == [call[c] EXCEPT !.fut = "expired"]
          IN  DOMAIN r = Fields /\ r.id = call[c].id /\ r.fut = "expired" /\ r.pc = "wait"
      BY <1>0 DEF Fields
    <2> QED
      BY <1>0, <2>1 DEF Quiet, Undone, Answer
  <1>2. \A d \in Call \ {c} : call[d].id \in pending => call[d].id \in pending'
    BY <1>0 DEF IdsAreOwn
  <1> QED
    BY <1>0, <1>1, <1>2, CallerStep DEF ConnectedHasProcess

LEMMA RetryStep ==
    ASSUME IInv, NEW c \in Call, Retry(c)
    PROVE  IInv'
  <1>0. /\ UNCHANGED <<proc, connected, lastId, spawned, reader, inbox, outbox, buffer, pending>>
        /\ Shape /\ OwnAnswer /\ DOMAIN call[c] = Fields /\ ConnectedHasProcess
    BY DEF IInv, Shape, Retry, server, client
  <1>1. DOMAIN call = Call /\ Again(c)
    BY DEF IInv, Shape, Retry
  <1>2. /\ DOMAIN call' = Call /\ \A d \in Call \ {c} : call'[d] = call[d]
        /\ DOMAIN call'[c] = Fields /\ call'[c].id = call[c].id
        /\ call'[c].fut = call[c].fut /\ call'[c].heard = call[c].heard
        /\ call'[c].pc = "send"
    BY <1>0, <1>1 DEF Again, Fields
  <1>3. call'[c].fut \in Answer => call'[c].heard = c
    BY <1>0, <1>2 DEF OwnAnswer
  <1>4. \A d \in Call : Quiet(call'[d], d) \/ call'[d] = call[d]
    BY <1>0, <1>2, <1>3 DEF Quiet, Undone, Requested
  <1> QED
    BY <1>0, <1>2, <1>4, QuietStep DEF IInv, Shape, Served, Letters, ConnectedHasProcess

LEMMA AnsweredStep ==
    ASSUME IInv, NEW c \in Call, Answered(c)
    PROVE  IInv'
  <1>0. /\ UNCHANGED <<proc, connected, lastId, spawned, reader, inbox, outbox, buffer, pending>>
        /\ Shape /\ OwnAnswer /\ ConnectedHasProcess
    BY DEF IInv, Answered, server, client
  <1>1. CASE call' = Error(c)
    BY <1>0, <1>1, FreshFacts, CallerStep DEF Error, ConnectedHasProcess
  <1>2. CASE /\ call[c].fut = "ok"
             /\ call' = [call EXCEPT ![c] = [Fresh EXCEPT !.fut = "ok", !.heard = call[c].heard]]
    <2>1. LET r == [Fresh EXCEPT !.fut = "ok", !.heard = call[c].heard]
          IN  DOMAIN r = Fields /\ r.id = 0 /\ r.pc = "done" /\ r.fut = "ok"
              /\ r.heard = call[c].heard
      BY DEF Fresh, Fields
    <2>2. call[c].heard = c
      BY <1>0, <1>2 DEF OwnAnswer, Answer
    <2>3. Quiet([Fresh EXCEPT !.fut = "ok", !.heard = call[c].heard], c)
      BY <2>1, <2>2 DEF Quiet, Undone, Requested
    <2> QED
      BY <1>0, <1>2, <2>3, CallerStep DEF ConnectedHasProcess
  <1> QED
    BY <1>1, <1>2 DEF Answered

LEMMA SpawnStep ==
    ASSUME IInv, NEW c \in Call, Spawn(c)
    PROVE  IInv'
  <1>0. /\ UNCHANGED <<lastId, inbox, outbox, buffer>> /\ reader' = 0
        /\ spawned < MaxProcs /\ spawned' = spawned + 1 /\ proc' = spawned'
        /\ call' = [FailAll EXCEPT ![c].pc = "send"]
    BY DEF Spawn
  <1>1. spawned' \in 0 .. MaxProcs /\ proc' # 0
    BY <1>0, BoundsAssumption DEF IInv, Shape
  <1>2. /\ Quiet([FailAll[c] EXCEPT !.pc = "send"], c)
        /\ call' = [FailAll EXCEPT ![c] = [FailAll[c] EXCEPT !.pc = "send"]]
    BY <1>0, LikeFailed DEF Requested
  <1>3. DOMAIN call' = Call /\ \A d \in Call : Quiet(call'[d], d)
    BY <1>2, FailedBut
  <1> QED
    BY <1>0, <1>1, <1>3, FailStep DEF ConnectedHasProcess

LEMMA SpawnFailsStep ==
    ASSUME IInv, NEW c \in Call, SpawnFails(c)
    PROVE  IInv'
  <1>0. /\ UNCHANGED <<proc, spawned, inbox, outbox, buffer>>
        /\ Shape /\ Like(Returned(call[c]), c)
    BY Nesting DEF IInv, SpawnFails, server
  <1>1. CASE Initialised(c, Returned(call[c]))
    BY <1>0, <1>1, InitialisedStep
  <1>2. CASE /\ ConnectFalse(c, call) /\ connected' = FALSE
             /\ UNCHANGED <<lastId, pending, reader>>
    BY <1>0, <1>2, FreshFacts, ConnectFalseFacts, CallerStep DEF ConnectedHasProcess
  <1>3. CASE /\ connected' = FALSE
             /\ call' = [call EXCEPT ![c] = [Nested(@, "except") EXCEPT !.pc = "close"]]
             /\ UNCHANGED <<lastId, pending, reader>>
    <2>1. Quiet([Nested(call[c], "except") EXCEPT !.pc = "close"], c)
      BY <1>0, Nesting, LikeFacts DEF Requested
    <2> QED
      BY <1>0, <1>3, <2>1, CallerStep DEF ConnectedHasProcess
  <1> QED
    BY <1>1, <1>2, <1>3 DEF SpawnFails

\* A process that is killed takes the requests it has not answered with it.
LEMMA KillStep ==
    ASSUME IInv, NEW c \in Call, Abandon(c) \/ Terminate(c)
    PROVE  IInv'
  <1>0. /\ UNCHANGED <<proc, connected, lastId, spawned, reader, outbox, buffer, pending>>
        /\ inbox' \subseteq inbox
        /\ Shape /\ Served /\ DOMAIN call = Call /\ Like(call[c], c) /\ ConnectedHasProcess
    BY Nesting DEF IInv, Shape, Abandon, Terminate, Killed, client
  <1>1. PICK p : p \notin Requested /\ call' = [call EXCEPT ![c] = [call[c] EXCEPT !.pc = p]]
    BY DEF Abandon, Terminate, Requested
  <1>2. Quiet([call[c] EXCEPT !.pc = p], c)
    BY <1>0, <1>1, LikeFacts
  <1>3. /\ DOMAIN call' = Call
        /\ \A d \in Call : Quiet(call'[d], d) \/ call'[d] = call[d]
    BY <1>0, <1>1, <1>2
  <1>4. Letters' \subseteq Letters /\ inbox' \union outbox' \subseteq inbox \union outbox
    BY <1>0 DEF Letters
  <1>5. \A d \in Call : Undone(call[d]) => call[d].id \in pending'
    BY <1>0 DEF Served
  <1> QED
    BY <1>0, <1>3, <1>4, <1>5, QuietStep DEF Shape, Served, ConnectedHasProcess

LEMMA AbandonedStep ==
    ASSUME IInv, NEW c \in Call, Abandoned(c)
    PROVE  IInv'
  BY FreshFacts, ConnectFalseFacts, CallerStep DEF Abandoned, server, ConnectedHasProcess

LEMMA AfterCloseFacts ==
    ASSUME IInv, NEW c \in Call, NEW calls, AfterClose(c, calls)
    PROVE  call' = [calls EXCEPT ![c] = Fresh] \/ call' = [calls EXCEPT ![c].pc = "spawn"]
  BY ConnectFalseFacts DEF AfterClose

LEMMA CloseStep ==
    ASSUME IInv, NEW c \in Call, Close(c)
    PROVE  IInv'
  <1>0. /\ UNCHANGED <<proc, connected, lastId, spawned, inbox, outbox, buffer>>
        /\ Shape /\ Served /\ Like(call[c], c) /\ ConnectedHasProcess
    BY Nesting DEF IInv, Close, server
  <1>1. CASE AfterClose(c, call) /\ UNCHANGED <<pending, reader>>
    <2>1. CASE call' = [call EXCEPT ![c] = Fresh]
      BY <1>0, <1>1, <2>1, FreshFacts, CallerStep DEF ConnectedHasProcess
    <2>2. CASE call' = [call EXCEPT ![c].pc = "spawn"]
      <3>1. Quiet([call[c] EXCEPT !.pc = "spawn"], c)
        BY <1>0, LikeFacts DEF Requested
      <3> QED
        BY <1>0, <1>1, <2>2, <3>1, CallerStep DEF ConnectedHasProcess
    <2> QED
      BY <1>1, <2>1, <2>2, AfterCloseFacts
  <1>2. CASE /\ reader = 0 /\ reader' = 0 /\ UNCHANGED pending
             /\ call' = [call EXCEPT ![c].pc = "terminate"]
    <2>1. Quiet([call[c] EXCEPT !.pc = "terminate"], c)
      BY <1>0, LikeFacts DEF Requested
    <2> QED
      BY <1>0, <1>2, <2>1, CallerStep DEF ConnectedHasProcess
  <1>3. CASE reader' = 0 /\ call' = [FailAll EXCEPT ![c].pc = "terminate"]
    <2>1. /\ Quiet([FailAll[c] EXCEPT !.pc = "terminate"], c)
          /\ call' = [FailAll EXCEPT ![c] = [FailAll[c] EXCEPT !.pc = "terminate"]]
      BY <1>3, LikeFailed DEF Requested
    <2>2. DOMAIN call' = Call /\ \A d \in Call : Quiet(call'[d], d)
      BY <2>1, FailedBut
    <2> QED
      BY <1>0, <1>3, <2>2, FailStep DEF Shape, ConnectedHasProcess
  <1> QED
    BY <1>1, <1>2, <1>3 DEF Close

\* What the finally of disconnect() does, whatever the call does next.
LEMMA ForgetStep ==
    ASSUME IInv, NEW c \in Call, Forget, UNCHANGED <<lastId, spawned, reader, inbox, outbox, buffer>>,
           call' = [FailAll EXCEPT ![c] = Fresh] \/ call' = [FailAll EXCEPT ![c].pc = "spawn"]
    PROVE  IInv'
  <1>1. PICK r : Quiet(r, c) /\ call' = [FailAll EXCEPT ![c] = r]
    <2>1. CASE call' = [FailAll EXCEPT ![c] = Fresh]
      BY <2>1, FreshFacts
    <2>2. CASE call' = [FailAll EXCEPT ![c].pc = "spawn"]
      BY <2>2, LikeFailed DEF Requested
    <2> QED
      BY <2>1, <2>2
  <1>2. DOMAIN call' = Call /\ \A d \in Call : Quiet(call'[d], d)
    BY <1>1, FailedBut
  <1> QED
    BY <1>2, FailStep, BoundsAssumption DEF Forget, IInv, Shape, ConnectedHasProcess

LEMMA ClosedStep ==
    ASSUME IInv, NEW c \in Call, Closed(c) \/ TerminateRaises(c)
    PROVE  IInv'
  <1>1. CASE Closed(c)
    BY <1>1, AfterCloseFacts, ForgetStep DEF Closed, server
  <1>2. CASE TerminateRaises(c)
    BY <1>2, ForgetStep DEF TerminateRaises, server
  <1> QED
    BY <1>1, <1>2

LEMMA CancelStep ==
    ASSUME IInv, NEW c \in Call, Cancel(c)
    PROVE  IInv'
  <1>0. /\ UNCHANGED <<lastId, spawned, reader, inbox, outbox, buffer>>
        /\ IdsAreOwn /\ ConnectedHasProcess
    BY DEF IInv, Cancel, server
  <1>1. CASE call' = Error(c) /\ UNCHANGED <<pending, proc, connected>>
    BY <1>0, <1>1, FreshFacts, CallerStep DEF Error, ConnectedHasProcess
  <1>2. CASE /\ At(c, "wait") /\ pending' = pending \ {call[c].id} /\ call' = Error(c)
             /\ UNCHANGED <<proc, connected>>
    <2>1. \A d \in Call \ {c} : call[d].id \in pending => call[d].id \in pending'
      BY <1>0, <1>2 DEF IdsAreOwn, At, Requested
    <2> QED
      BY <1>0, <1>2, <2>1, FreshFacts, CallerStep DEF Error, ConnectedHasProcess
  <1>3. CASE /\ proc' = 0 /\ connected' = FALSE /\ call' = Error(c) /\ UNCHANGED pending
    BY <1>0, <1>3, FreshFacts, CallerStep DEF Error, ConnectedHasProcess
  <1>4. CASE Forget /\ call' = [FailAll EXCEPT ![c] = Fresh]
    BY <1>0, <1>4, ForgetStep
  <1> QED
    BY <1>1, <1>2, <1>3, <1>4 DEF Cancel

LEMMA ReadStep ==
    ASSUME IInv, Read
    PROVE  IInv'
  <1>0. /\ Shape /\ IdsAreOwn /\ OwnAnswer /\ Served /\ ConnectedHasProcess
        /\ DOMAIN call = Call
        /\ UNCHANGED <<inbox, proc, spawned, connected, lastId, reader>>
    BY DEF IInv, Shape, Read
  <1>1. PICK m \in outbox :
          /\ outbox' = outbox \ {m}
          /\ \/ /\ pending' = pending \ {m.id}
                /\ \E answer \in Answer : call' = Deliver(m, answer)
                /\ UNCHANGED buffer
             \/ buffer' = Buffered(m) /\ UNCHANGED <<pending, call>>
    BY DEF Read
  <1>2. m \in Mail /\ m \in Letters
    BY <1>0, <1>1 DEF Shape, Letters
  <1>3. /\ inbox' \union outbox' \subseteq inbox \union outbox
        /\ ConnectedHasProcess'
        /\ spawned' \in 0 .. MaxProcs /\ proc' \in 0 .. MaxProcs /\ reader' \in 0 .. MaxProcs
        /\ reader' # 0 /\ proc' # 0 => reader' = proc'
    BY <1>0, <1>1 DEF Shape, Served, ConnectedHasProcess
  <1>4. ASSUME NEW answer \in Answer, pending' = pending \ {m.id}, call' = Deliver(m, answer),
               UNCHANGED buffer
        PROVE  IInv'
    <2>1. DOMAIN call' = Call
      BY <1>4 DEF Deliver
    <2>2. ASSUME NEW c \in Call
          PROVE  \/ Quiet(call'[c], c)
                 \/ /\ call'[c] = call[c]
                    /\ Undone(call[c]) => reader' = reader /\ call[c].id \in pending'
      <3>1. CASE call[c].id = m.id /\ Undone(call[c])
        <4>1. call'[c] = [call[c] EXCEPT !.fut = answer, !.heard = m.from]
          BY <1>4, <3>1 DEF Deliver, Undone, Requested
        <4>2. m.from = c /\ call[c].pc = "wait" /\ call[c].id # 0 /\ DOMAIN call[c] = Fields
          BY <1>0, <1>2, <3>1 DEF IdsAreOwn, Shape, Undone, Requested
        <4>3. /\ DOMAIN call'[c] = Fields /\ call'[c].id = call[c].id /\ call'[c].pc = "wait"
              /\ call'[c].fut = answer /\ call'[c].heard = c
          BY <4>1, <4>2 DEF Fields
        <4>4. answer # "undone"
          BY DEF Answer
        <4> QED
          BY <4>2, <4>3, <4>4 DEF Quiet, Undone
      <3>2. CASE ~(call[c].id = m.id /\ Undone(call[c]))
        <4>1. call'[c] = call[c]
          BY <1>4, <3>2 DEF Deliver, Undone, Requested
        <4>2. Undone(call[c]) => call[c].id \in pending'
          BY <1>0, <1>4, <3>2 DEF Served
        <4> QED
          BY <1>0, <4>1, <4>2
      <3> QED
        BY <3>1, <3>2
    <2>3. buffer' \in Seq(Mail) /\ Letters' \subseteq Letters
      BY <1>0, <1>1, <1>4 DEF Letters, Shape
    <2> QED
      BY <1>0, <1>3, <2>1, <2>2, <2>3, QuietStep
  <1>5. CASE buffer' = Buffered(m) /\ UNCHANGED <<pending, call>>
    <2>1. /\ Append(buffer, m) \in Seq(Mail)
          /\ ToSet(Append(buffer, m)) \subseteq ToSet(buffer) \union {m}
      BY <1>0, <1>2 DEF Shape, ToSet
    <2>2. buffer' \in Seq(Mail) /\ ToSet(buffer') \subseteq ToSet(buffer) \union {m}
      <3>1. CASE buffer' = Append(buffer, m)
        BY <2>1, <3>1
      <3>2. CASE buffer' = Tail(Append(buffer, m))
        <4>1. Len(Append(buffer, m)) >= 1
          BY <1>0, <1>2 DEF Shape
        <4>2. /\ Tail(Append(buffer, m)) \in Seq(Mail)
              /\ ToSet(Tail(Append(buffer, m))) \subseteq ToSet(Append(buffer, m))
          BY <2>1, <4>1 DEF ToSet
        <4> QED
          BY <2>1, <3>2, <4>2
      <3> QED
        BY <1>5, <3>1, <3>2 DEF Buffered
    <2>3. Letters' \subseteq Letters
      BY <1>0, <1>1, <1>2, <2>2 DEF Letters
    <2>4. \A c \in Call : Undone(call[c]) => call[c].id \in pending'
      BY <1>0, <1>5 DEF Served
    <2> QED
      BY <1>0, <1>3, <1>5, <2>2, <2>3, <2>4, QuietStep
  <1> QED
    BY <1>1, <1>4, <1>5

LEMMA ReaderEndsStep ==
    ASSUME IInv, ReadEOF \/ ReadBreaks \/ GhostEnds
    PROVE  IInv'
  <1>0. /\ UNCHANGED <<inbox, proc, spawned, connected, lastId, buffer>>
        /\ call' = FailAll /\ outbox' \subseteq outbox /\ reader' \in {0, reader}
        /\ Shape /\ ConnectedHasProcess
    BY DEF IInv, ReadEOF, ReadBreaks, GhostEnds, ReaderEnds, server
  <1>1. DOMAIN call' = Call /\ \A c \in Call : Quiet(call'[c], c)
    BY <1>0, FailAllFacts
  <1> QED
    BY <1>0, <1>1, FailStep DEF Shape, ConnectedHasProcess

LEMMA EnvironmentStep ==
    ASSUME IInv, Serve \/ (\E p \in Proc : Die(p) \/ Reap(p)) \/ UNCHANGED vars
    PROVE  IInv'
  <1>0. /\ UNCHANGED <<call, proc, spawned, connected, lastId, buffer, pending, reader>>
        /\ inbox' \union outbox' \subseteq inbox \union outbox
    BY DEF Serve, Die, Reap, client, server, vars
  <1>1. Letters' \subseteq Letters
    BY <1>0 DEF Letters
  <1>2. \A c \in Call : Undone(call[c]) => call[c].id \in pending'
    BY <1>0 DEF IInv, Served
  <1> QED
    BY <1>0, <1>1, <1>2, QuietStep DEF IInv, Shape, Served, ConnectedHasProcess

LEMMA IInvNext == IInv /\ [Next]_vars => IInv'
  BY GateStep, SendStep, WriteStep, WriteFailsStep, TimeoutStep, RetryStep, AnsweredStep,
     SpawnStep, SpawnFailsStep, KillStep, AbandonedStep, CloseStep, ClosedStep, CancelStep,
     ReadStep, ReaderEndsStep, EnvironmentStep
     DEF Next, Progress, Requests, Connects, Closes, Finished

-----------------------------------------------------------------------------
(* The theorems                                                            *)

\* Ids, waiters, readers and processes stay consistent over every step.
THEOREM IInvAlways == Spec => []IInv
  BY InitIInv, IInvNext, PTL DEF Spec

\* An answer goes to the call that asked for it, late, stray and leftover ones
\* included.
THEOREM OwnAnswerAlways == Spec => []OwnAnswer
  <1>1. IInv => OwnAnswer
    BY DEF IInv
  <1> QED
    BY <1>1, IInvAlways, PTL

\* Who waits is pending, with a reader on the process the request went to.
THEOREM WaiterIsServedAlways == Spec => []WaiterIsServed
  <1>1. IInv => WaiterIsServed
    <2>1. \A c \in Call : Waits(c) => Undone(call[c])
      BY DEF Waits, At, Undone, Requested
    <2> QED
      BY <2>1 DEF IInv, Served, WaiterIsServed
  <1> QED
    BY <1>1, IInvAlways, PTL

\* is_connected implies a process.
THEOREM ConnectedHasProcessAlways == Spec => []ConnectedHasProcess
  <1>1. IInv => ConnectedHasProcess
    BY DEF IInv
  <1> QED
    BY <1>1, IInvAlways, PTL


-----------------------------------------------------------------------------
(* What is sent again: the second invariant                                *)

Locals == [pc : Step, frames : Seq(Frame), id : 0 .. MaxIds, tries : 0 .. MaxRetries,
           fut : {"undone", "eof", "expired"} \union Answer,
           heard : Call \union {"none"}, unanswered : 0 .. MaxIds]

\* The call waits for the answer to its tool call, not to an initialize.
AsTool(r) == r.pc = "wait" /\ r.frames = <<>>

\* The retries of the tool call: those of _send_request, put by inside connect().
Outer(r) == IF r.frames = <<>> THEN r.tries ELSE r.frames[1].tries

\* Between two requests: at most one is unanswered, of an external server's
\* call that has been retried.  n is the last id, x the server's being external.
Allowed(r, x) == IF x /\ Outer(r) > 0 THEN 1 ELSE 0

Sound(r, n, x) ==
    /\ r \in Locals
    /\ r.frames # <<>> => r.frames[1].who \in {"ensure", "tool"}
    /\ \A i \in 2 .. Len(r.frames) : r.frames[i].who \in {"init", "except"}
    /\ r.unanswered <= n /\ r.unanswered <= Allowed(r, x)

\* At any point: one more while the call waits, and then the request has
\* arrived if there is an answer.
Good(r, n, x) ==
    /\ r \in Locals
    /\ r.frames # <<>> => r.frames[1].who \in {"ensure", "tool"}
    /\ \A i \in 2 .. Len(r.frames) : r.frames[i].who \in {"init", "except"}
    /\ r.pc \in {"idle", "done"} => r.frames = <<>>
    /\ r.pc \in {"spawn", "abandon", "close", "terminate", "closed"} => r.frames # <<>>
    /\ r.unanswered <= n /\ (r.pc = "write" => r.unanswered < n)
    /\ IF AsTool(r) THEN r.unanswered <= Allowed(r, x) + 1 ELSE r.unanswered <= Allowed(r, x)
    /\ r.fut \in Answer => r.pc # "write" /\ (AsTool(r) => r.unanswered > 0)

Goods == \A c \in Call : Good(call[c], lastId, external)

\* A letter on its way has been counted.
Counted ==
    \A c \in Call, m \in inbox \union outbox :
        AsTool(call[c]) /\ call[c].id = m.id => call[c].unanswered > 0

\* The ranges of the other variables.
Ranges ==
    /\ external \in BOOLEAN /\ connected \in BOOLEAN /\ failed \in BOOLEAN
    /\ attempted \subseteq {"client", "manager"}
    /\ spawned \in Proc /\ ghosts \subseteq Proc /\ pending \subseteq Id
    /\ life \in [Proc -> {"none", "up", "dead", "reaped"}]
    /\ Len(buffer) <= MaxBuffer
    /\ failures \in 0 .. Tolerance /\ managerFails \in 0 .. FailLimit
    /\ faults \in 0 .. MaxFaults

\* What the steps below take from the first invariant.
LEMMA Known ==
    ASSUME IInv
    PROVE  /\ DOMAIN call = Call /\ lastId \in 0 .. MaxIds /\ lastId \in Nat /\ MaxIds \in Nat
           /\ \A c \in Call : DOMAIN call[c] = Fields
  BY BoundsAssumption DEF IInv, Shape

LEMMA FreshGood ==
    ASSUME NEW n \in Nat, NEW x
    PROVE  Good(Fresh, n, x) /\ ~AsTool(Fresh)
  <1>1. Fresh \in Locals
    BY BoundsAssumption DEF Fresh, Locals, Step
  <1>2. Fresh.frames = <<>> /\ Fresh.pc = "done" /\ Fresh.unanswered = 0 /\ Len(Fresh.frames) = 0
    BY DEF Fresh
  <1> QED
    BY <1>1, <1>2 DEF Good, AsTool, Allowed

LEMMA GoodIsSound ==
    ASSUME NEW r, NEW n, NEW x, Good(r, n, x), ~AsTool(r)
    PROVE  Sound(r, n, x)
  BY DEF Good, Sound

\* A sound record may stand anywhere but in a request.
LEMMA SoundAt ==
    ASSUME NEW r, NEW n \in Nat, NEW x, Sound(r, n, x),
           NEW p \in Step \ {"write", "wait", "idle", "done"},
           p # "send" => r.frames # <<>>
    PROVE  LET q == [r EXCEPT !.pc = p] IN Good(q, n, x) /\ ~AsTool(q)
  <1> DEFINE q == [r EXCEPT !.pc = p]
  <1>1. r \in Locals
    BY DEF Sound
  <1>2. /\ q \in Locals /\ q.pc = p /\ q.frames = r.frames /\ q.tries = r.tries
        /\ q.unanswered = r.unanswered
    BY <1>1 DEF Locals
  <1> HIDE DEF q
  <1>3. Allowed(q, x) = Allowed(r, x) /\ ~AsTool(q)
    BY <1>2 DEF Allowed, Outer, AsTool
  <1>4. Good(q, n, x)
    BY <1>2, <1>3 DEF Good, Sound
  <1> QED
    BY <1>3, <1>4 DEF q

LEMMA SoundRegistered ==
    ASSUME NEW r, NEW x, Sound(r, lastId, x), lastId \in Nat, lastId < MaxIds, MaxIds \in Nat
    PROVE  Good(Registered(r), lastId + 1, x) /\ ~AsTool(Registered(r))
  <1> DEFINE q == Registered(r)
  <1>1. r \in Locals
    BY DEF Sound
  <1>2. /\ q \in Locals /\ q.pc = "write" /\ q.frames = r.frames /\ q.tries = r.tries
        /\ q.unanswered = r.unanswered /\ r.unanswered \in Nat /\ q.fut = "undone"
    <2>1. "write" \in Step /\ lastId + 1 \in 0 .. MaxIds
      BY DEF Step
    <2>2. q \in Locals
      BY <1>1, <2>1 DEF Locals, Registered
    <2>3. /\ q.pc = "write" /\ q.frames = r.frames /\ q.tries = r.tries
          /\ q.unanswered = r.unanswered /\ q.fut = "undone"
      BY <1>1 DEF Locals, Registered
    <2>4. r.unanswered \in Nat
      BY <1>1 DEF Locals
    <2> QED
      BY <2>2, <2>3, <2>4
  <1> HIDE DEF q
  <1>3. Allowed(q, x) = Allowed(r, x) /\ ~AsTool(q)
    BY <1>2 DEF Allowed, Outer, AsTool
  <1>4. Good(q, lastId + 1, x)
    BY <1>2, <1>3 DEF Good, Sound, Answer
  <1> QED
    BY <1>3, <1>4 DEF q

LEMMA SoundNested ==
    ASSUME NEW r, NEW n \in Nat, NEW x, Sound(r, n, x),
           NEW w \in {"ensure", "tool", "init", "except"},
           r.frames = <<>> <=> w \in {"ensure", "tool"}
    PROVE  Sound(Nested(r, w), n, x) /\ Nested(r, w).frames # <<>>
  <1> DEFINE q == Nested(r, w)
             f == [who |-> w, tries |-> r.tries]
  <1>1. r \in Locals /\ r.frames \in Seq(Frame) /\ f \in Frame
    BY DEF Sound, Locals, Frame
  <1>2. /\ q.frames = Append(r.frames, f) /\ q.tries = 0
        /\ q.unanswered = r.unanswered
    BY <1>1 DEF Nested, Locals
  <1>3. q \in Locals
    <2>1. Append(r.frames, f) \in Seq(Frame) /\ 0 \in 0 .. MaxRetries
      BY <1>1, BoundsAssumption
    <2>2. q = [r EXCEPT !.frames = Append(r.frames, f), !.tries = 0]
      BY DEF Nested
    <2> HIDE DEF f, q
    <2> QED
      BY <1>1, <2>1, <2>2 DEF Locals
  <1>4. /\ Len(q.frames) = Len(r.frames) + 1 /\ Len(r.frames) \in Nat
        /\ \A i \in 1 .. Len(r.frames) : q.frames[i] = r.frames[i]
        /\ q.frames[Len(r.frames) + 1] = f
    BY <1>1, <1>2
  <1>5. f.who = w /\ f.tries = r.tries
    OBVIOUS
  <1> HIDE DEF q, f
  <1>6. q.frames # <<>>
    BY <1>4
  <1>7. q.frames[1].who \in {"ensure", "tool"} /\ Outer(q) = Outer(r)
    <2>1. CASE r.frames = <<>>
      BY <1>4, <1>5, <1>6, <2>1 DEF Outer
    <2>2. CASE r.frames # <<>>
      <3>1. Len(r.frames) >= 1
        BY <1>1, <2>2
      <3> QED
        BY <1>4, <1>6, <2>2, <3>1 DEF Outer, Sound
    <2> QED
      BY <2>1, <2>2
  <1>8. \A i \in 2 .. Len(q.frames) : q.frames[i].who \in {"init", "except"}
    <2> SUFFICES ASSUME NEW i \in 2 .. Len(q.frames)
                 PROVE  q.frames[i].who \in {"init", "except"}
      OBVIOUS
    <2>1. CASE i = Len(r.frames) + 1
      <3>1. r.frames # <<>>
        BY <1>4, <2>1
      <3> QED
        BY <1>4, <1>5, <2>1, <3>1
    <2>2. CASE i # Len(r.frames) + 1
      BY <1>4, <2>2 DEF Sound
    <2> QED
      BY <2>1, <2>2
  <1>9. Sound(q, n, x)
    BY <1>2, <1>3, <1>7, <1>8 DEF Sound, Allowed
  <1> QED
    BY <1>6, <1>9 DEF q

LEMMA SoundReturned ==
    ASSUME NEW r, NEW n \in Nat, NEW x, Sound(r, n, x), r.frames # <<>>
    PROVE  Sound(Returned(r), n, x)
  <1> DEFINE q == Returned(r)
             s == r.frames
             k == Len(s)
  <1>1. r \in Locals /\ s \in Seq(Frame)
    BY DEF Sound, Locals
  <1>2. k \in Nat /\ k >= 1 /\ s[k] \in Frame
    BY <1>1
  <1>3. /\ Front(s) \in Seq(Frame) /\ Len(Front(s)) = k - 1
        /\ \A i \in 1 .. k - 1 : Front(s)[i] = s[i]
    BY <1>1, <1>2 DEF Front
  <1>4. /\ q.frames = Front(s) /\ q.tries = s[k].tries /\ q.unanswered = r.unanswered
    BY <1>1 DEF Returned, Last, Locals
  <1>5. q \in Locals
    <2>1. s[k].tries \in 0 .. MaxRetries
      BY <1>2 DEF Frame
    <2> QED
      BY <1>1, <1>3, <2>1 DEF Returned, Last, Locals
  <1> HIDE DEF q, s, k
  <1>6. q.frames = <<>> <=> k = 1
    BY <1>2, <1>3, <1>4
  <1>7. /\ q.frames # <<>> => q.frames[1].who \in {"ensure", "tool"}
        /\ Outer(q) = Outer(r)
    <2>1. CASE k = 1
      BY <1>4, <1>6, <2>1 DEF Outer, s
    <2>2. CASE k # 1
      BY <1>2, <1>3, <1>4, <1>6, <2>2 DEF Outer, Sound, s
    <2> QED
      BY <2>1, <2>2
  <1>8. \A i \in 2 .. Len(q.frames) : q.frames[i].who \in {"init", "except"}
    BY <1>2, <1>3, <1>4 DEF Sound, s, k
  <1>9. Sound(q, n, x)
    BY <1>4, <1>5, <1>7, <1>8 DEF Sound, Allowed
  <1> QED
    BY <1>9 DEF q

\* A future that fails, or expires, changes nothing of this.
LEMMA GoodEnds ==
    ASSUME NEW r, NEW n \in Nat, NEW x, Good(r, n, x), NEW f \in {"eof", "expired"}
    PROVE  LET q == [r EXCEPT !.fut = f]
           IN  /\ Good(q, n, x) /\ q.id = r.id /\ q.unanswered = r.unanswered
               /\ AsTool(q) => AsTool(r)
  <1> DEFINE q == [r EXCEPT !.fut = f]
  <1>1. r \in Locals
    BY DEF Good
  <1>2. /\ q \in Locals /\ q.pc = r.pc /\ q.frames = r.frames /\ q.tries = r.tries
        /\ q.unanswered = r.unanswered /\ q.fut = f /\ q.id = r.id
    BY <1>1 DEF Locals
  <1> HIDE DEF q
  <1>3. Allowed(q, x) = Allowed(r, x) /\ AsTool(q) = AsTool(r) /\ f \notin Answer
    BY <1>2 DEF Allowed, Outer, AsTool, Answer
  <1>4. Good(q, n, x)
    BY <1>2, <1>3 DEF Good
  <1> QED
    BY <1>2, <1>3, <1>4 DEF q

\* Steps.

\* A record that has not begun to wait for an answer to its tool call.
Fine(r, c) ==
    /\ Good(r, lastId, external)
    /\ AsTool(r) => /\ AsTool(call[c]) /\ r.id = call[c].id
                    /\ r.unanswered = call[c].unanswered

LEMMA FreshFine ==
    ASSUME IInv, NEW c
    PROVE  Fine(Fresh, c)
  BY Known, FreshGood DEF Fine

LEMMA FineStep ==
    ASSUME IInv, Goods, Counted, DOMAIN call' = Call,
           \A c \in Call : call'[c] = call[c] \/ Fine(call'[c], c),
           UNCHANGED <<lastId, external>>,
           inbox' \union outbox' \subseteq inbox \union outbox
    PROVE  Goods' /\ Counted'
  <1>1. Goods'
    BY DEF Goods, Fine
  <1>2. ASSUME NEW c \in Call, NEW m \in inbox' \union outbox',
               AsTool(call'[c]), call'[c].id = m.id
        PROVE  call'[c].unanswered > 0
    BY <1>2 DEF Counted, Fine
  <1> QED
    BY <1>1, <1>2 DEF Counted, AsTool

\* ... of one call, the others as they were or failed.
LEMMA FineCall ==
    ASSUME IInv, Goods, Counted, NEW c \in Call, NEW r, Fine(r, c),
           \/ call' = [call EXCEPT ![c] = r]
           \/ call' = [FailAll EXCEPT ![c] = r],
           UNCHANGED <<lastId, external>>,
           inbox' \union outbox' \subseteq inbox \union outbox
    PROVE  Goods' /\ Counted'
  <1>1. DOMAIN call' = Call
    BY Known DEF FailAll
  <1>2. ASSUME NEW d \in Call
        PROVE  call'[d] = call[d] \/ Fine(call'[d], d)
    <2>1. CASE d = c
      BY <2>1, Known DEF FailAll
    <2>2. CASE d # c
      <3>1. call'[d] = call[d] \/ call'[d] = Failed(call[d])
        BY <2>2, Known DEF FailAll
      <3>2. Failed(call[d]) = call[d] \/ Failed(call[d]) = [call[d] EXCEPT !.fut = "eof"]
        BY DEF Failed
      <3>3. Fine([call[d] EXCEPT !.fut = "eof"], d)
        BY Known, GoodEnds DEF Goods, Fine
      <3> QED
        BY <3>1, <3>2, <3>3
    <2> QED
      BY <2>1, <2>2
  <1> QED
    BY <1>1, <1>2, FineStep

LEMMA AllFail ==
    ASSUME IInv, Goods, Counted, call' = FailAll,
           UNCHANGED <<lastId, external>>,
           inbox' \union outbox' \subseteq inbox \union outbox
    PROVE  Goods' /\ Counted'
  <1>1. DOMAIN call' = Call
    BY Known DEF FailAll
  <1>2. ASSUME NEW d \in Call
        PROVE  call'[d] = call[d] \/ Fine(call'[d], d)
    <2>1. call'[d] = Failed(call[d])
      BY DEF FailAll
    <2>2. Failed(call[d]) = call[d] \/ Failed(call[d]) = [call[d] EXCEPT !.fut = "eof"]
      BY DEF Failed
    <2>3. Fine([call[d] EXCEPT !.fut = "eof"], d)
      BY Known, GoodEnds DEF Goods, Fine
    <2> QED
      BY <2>1, <2>2, <2>3
  <1> QED
    BY <1>1, <1>2, FineStep

\* A call takes an id, and with it no letter.
LEMMA RegisterCounts ==
    ASSUME IInv, Goods, Counted, NEW c \in Call, NEW r, Sound(r, lastId, external),
           Register(c, r), UNCHANGED <<external, inbox, outbox>>
    PROVE  Goods' /\ Counted'
  <1>1. lastId' = lastId + 1 /\ lastId < MaxIds /\ call' = [call EXCEPT ![c] = Registered(r)]
    BY DEF Register
  <1>2. Good(Registered(r), lastId + 1, external) /\ ~AsTool(Registered(r))
    BY <1>1, Known, SoundRegistered
  <1>3. call'[c] = Registered(r) /\ \A d \in Call \ {c} : call'[d] = call[d]
    BY <1>1, Known
  <1>4. ASSUME NEW d \in Call PROVE Good(call'[d], lastId + 1, external)
    <2>1. CASE d = c
      BY <2>1, <1>2, <1>3
    <2>2. CASE d # c
      <3>1. Good(call[d], lastId, external) /\ call[d].unanswered \in Nat
        BY DEF Goods, Good, Locals
      <3> QED
        BY <2>2, <3>1, <1>3, Known DEF Good
    <2> QED
      BY <2>1, <2>2
  <1>5. Goods'
    BY <1>1, <1>4 DEF Goods
  <1>6. Counted'
    BY <1>2, <1>3 DEF Counted, AsTool
  <1> QED
    BY <1>5, <1>6

LEMMA ConnectFalseCounts ==
    ASSUME IInv, Goods, Counted, NEW c \in Call, NEW calls, ConnectFalse(c, calls),
           calls = call \/ calls = FailAll,
           UNCHANGED <<external, lastId, inbox, outbox>>
    PROVE  Goods' /\ Counted'
  BY ConnectFalseFacts, FreshFine, FineCall

LEMMA InitialisedCounts ==
    ASSUME IInv, Goods, Counted, NEW c \in Call, NEW r, Initialised(c, r),
           Sound(r, lastId, external), r.frames # <<>>,
           UNCHANGED <<external, inbox, outbox>>
    PROVE  Goods' /\ Counted'
  <1>1. CASE ConnectTrue(c, r)
    <2>0. Sound(Returned(r), lastId, external)
      BY Known, SoundReturned
    <2>1. CASE Register(c, Returned(r))
      BY <2>0, <2>1, RegisterCounts
    <2>2. CASE /\ call' = [call EXCEPT ![c] = [Returned(r) EXCEPT !.pc = "send"]]
               /\ UNCHANGED lastId
      <3>1. Fine([Returned(r) EXCEPT !.pc = "send"], c)
        BY <2>0, Known, SoundAt DEF Fine, Step
      <3> QED
        BY <2>2, <3>1, FineCall
    <2> QED
      BY <1>1, <2>1, <2>2 DEF ConnectTrue
  <1>2. CASE ConnectFalse(c, call) /\ UNCHANGED lastId
    BY <1>2, ConnectFalseCounts
  <1> QED
    BY <1>1, <1>2 DEF Initialised

LEMMA GateCounts ==
    ASSUME IInv, Goods, Counted, NEW c \in Call, GateClosed(c) \/ Gate(c)
    PROVE  Goods' /\ Counted'
  <1>0. /\ UNCHANGED <<external, lastId, inbox, outbox>> /\ call[c].pc = "idle"
        /\ Good(call[c], lastId, external) /\ call[c].frames = <<>> /\ lastId \in Nat
    BY Known DEF GateClosed, Gate, server, client, At, Goods, Good
  <1>1. Sound(call[c], lastId, external)
    BY <1>0, GoodIsSound DEF AsTool
  <1>2. PICK r : Fine(r, c) /\ call' = [call EXCEPT ![c] = r]
    <2>1. CASE call' = Error(c)
      BY <2>1, FreshFine DEF Error
    <2>2. CASE call' = [call EXCEPT ![c].pc = "send"]
      <3>1. Fine([call[c] EXCEPT !.pc = "send"], c)
        BY <1>0, <1>1, SoundAt DEF Fine, Step
      <3> QED
        BY <2>2, <3>1
    <2>3. CASE call' = [call EXCEPT ![c] = [Nested(@, "ensure") EXCEPT !.pc = "close"]]
      <3>1. /\ Sound(Nested(call[c], "ensure"), lastId, external)
            /\ Nested(call[c], "ensure").frames # <<>>
        BY <1>0, <1>1, SoundNested
      <3>2. Fine([Nested(call[c], "ensure") EXCEPT !.pc = "close"], c)
        BY <1>0, <3>1, SoundAt DEF Fine, Step
      <3> QED
        BY <2>3, <3>2
    <2> QED
      BY <2>1, <2>2, <2>3 DEF GateClosed, Gate
  <1> QED
    BY <1>0, <1>2, FineCall

LEMMA SendCounts ==
    ASSUME IInv, Goods, Counted, NEW c \in Call, Send(c) \/ Reconnect(c)
    PROVE  Goods' /\ Counted'
  <1>0. /\ UNCHANGED <<external, inbox, outbox>> /\ call[c].pc = "send"
        /\ Good(call[c], lastId, external) /\ lastId \in Nat
    BY Known DEF Send, Reconnect, server, At, Goods
  <1>1. Sound(call[c], lastId, external)
    BY <1>0, GoodIsSound DEF AsTool
  <1>2. CASE Register(c, call[c])
    BY <1>0, <1>1, <1>2, RegisterCounts
  <1>3. CASE Linking(c) /\ Initialised(c, call[c])
    BY <1>0, <1>1, <1>3, InitialisedCounts DEF Linking
  <1>4. CASE call' = Error(c) /\ UNCHANGED lastId
    BY <1>0, <1>4, FreshFine, FineCall DEF Error
  <1>5. CASE Reconnect(c)
    <2> DEFINE w == IF Linking(c) THEN "init" ELSE "tool"
    <2>1. /\ call' = [call EXCEPT ![c] = [Nested(call[c], w) EXCEPT !.pc = "spawn"]]
          /\ UNCHANGED lastId
      BY <1>5 DEF Reconnect
    <2>2. w \in {"tool", "init"} /\ (call[c].frames = <<>> <=> w = "tool")
      BY DEF Linking
    <2> HIDE DEF w
    <2>3. Sound(Nested(call[c], w), lastId, external) /\ Nested(call[c], w).frames # <<>>
      BY <1>0, <1>1, <2>2, SoundNested
    <2>4. Fine([Nested(call[c], w) EXCEPT !.pc = "spawn"], c)
      BY <1>0, <2>3, SoundAt DEF Fine, Step
    <2> QED
      BY <1>0, <2>1, <2>4, FineCall
  <1> QED
    BY <1>2, <1>3, <1>4, <1>5 DEF Send, SendFails, SendUnhealthy

\* A request to a live process is one more that is unanswered, and the letter
\* is the first of its id.
LEMMA WriteCounts ==
    ASSUME IInv, Goods, Counted, NEW c \in Call, Write(c)
    PROVE  Goods' /\ Counted'
  <1>0. /\ call[c].pc = "write" /\ call[c].id # 0 /\ proc # 0
        /\ Good(call[c], lastId, external) /\ lastId \in Nat /\ DOMAIN call = Call
        /\ IdsAreOwn
    BY Known DEF Write, At, Goods, IInv, IdsAreOwn, Requested
  <1>1. ~ \E m \in ToSet(buffer) : m.id = call[c].id
    BY <1>0 DEF IdsAreOwn, Letters
  <1> DEFINE mail == [proc |-> proc, id |-> call[c].id, from |-> c]
             counts == ~(Linking(c) \/ life[proc] # "up")
             r == [call[c] EXCEPT !.pc = "wait", !.unanswered = IF counts THEN @ + 1 ELSE @]
  <1>2. /\ UNCHANGED <<external, lastId, outbox>>
        /\ inbox' = (IF life[proc] # "up" THEN inbox ELSE inbox \union {mail})
        /\ call' = [call EXCEPT ![c].pc = "wait",
                       ![c].unanswered = IF Linking(c) \/ life[proc] # "up" THEN @ ELSE @ + 1]
    BY <1>1 DEF Write
  <1>3. call' = [call EXCEPT ![c] = r]
    BY <1>0, <1>2 DEF Good, Locals
  <1>4. /\ call[c] \in Locals /\ call[c].unanswered \in Nat
        /\ call[c].unanswered + 1 \in 0 .. MaxIds
    BY <1>0, Known DEF Good, Locals
  <1>5. /\ r \in Locals /\ r.pc = "wait" /\ r.frames = call[c].frames
        /\ r.tries = call[c].tries /\ r.fut = call[c].fut /\ r.id = call[c].id
        /\ r.unanswered = IF counts THEN call[c].unanswered + 1 ELSE call[c].unanswered
    <2>1. "wait" \in Step
      BY DEF Step
    <2> HIDE DEF counts
    <2> QED
      BY <1>4, <2>1 DEF Locals
  <1>6. counts => r.frames = <<>>
    BY <1>5 DEF Linking
  <1>7. call[c].fut \notin Answer
    BY <1>0 DEF Good
  <1> HIDE DEF r
  <1>8. Good(r, lastId, external)
    <2>1. Outer(r) = Outer(call[c])
      BY <1>5 DEF Outer
    <2>2. r.unanswered <= Allowed(r, external) + (IF counts THEN 1 ELSE 0)
      BY <1>0, <1>4, <1>5, <2>1 DEF Good, Allowed, AsTool
    <2>3. IF AsTool(r) THEN r.unanswered <= Allowed(r, external) + 1
          ELSE r.unanswered <= Allowed(r, external)
      <3>1. Allowed(r, external) \in Nat /\ r.unanswered \in Nat
        BY <1>4, <1>5 DEF Allowed
      <3>2. counts => AsTool(r)
        BY <1>5, <1>6 DEF AsTool
      <3> HIDE DEF counts
      <3> QED
        BY <2>2, <3>1, <3>2
    <2>4. r.unanswered <= lastId
      BY <1>0, <1>4, <1>5 DEF Good
    <2> HIDE DEF counts
    <2> QED
      BY <1>0, <1>5, <1>7, <2>3, <2>4 DEF Good
  <1>9. /\ DOMAIN call' = Call /\ call'[c] = r /\ \A d \in Call \ {c} : call'[d] = call[d]
    BY <1>0, <1>3
  <1>10. Goods'
    BY <1>2, <1>8, <1>9 DEF Goods
  <1>11. Counted'
    <2> SUFFICES ASSUME NEW d \in Call, NEW m \in inbox' \union outbox',
                        AsTool(call'[d]), call'[d].id = m.id
                 PROVE  call'[d].unanswered > 0
      BY DEF Counted, AsTool
    <2>1. CASE d # c /\ m \in inbox \union outbox
      BY <1>9, <2>1 DEF Counted
    <2>2. CASE d # c /\ m = mail
      BY <1>0, <1>9, <2>2 DEF IdsAreOwn
    <2>3. CASE d = c /\ m \in inbox \union outbox
      BY <1>0, <1>5, <1>9, <2>3 DEF IdsAreOwn, Letters
    <2>4. CASE d = c /\ m = mail /\ m \notin inbox \union outbox
      <3>1. counts
        BY <1>2, <1>5, <1>9, <2>4 DEF Linking, AsTool
      <3> QED
        BY <1>4, <1>5, <1>9, <2>4, <3>1
    <2> QED
      BY <1>2, <2>1, <2>2, <2>3, <2>4
  <1> QED
    BY <1>10, <1>11

LEMMA EndCounts ==
    ASSUME IInv, Goods, Counted, NEW c \in Call, WriteFails(c) \/ GiveUp(c)
    PROVE  Goods' /\ Counted'
  <1>0. /\ UNCHANGED <<external, inbox, outbox>>
        /\ Good(call[c], lastId, external)
    BY DEF WriteFails, GiveUp, server, Goods
  <1>1. CASE Linking(c) /\ Initialised(c, call[c])
    <2>1. Sound(call[c], lastId, external) /\ call[c].frames # <<>>
      BY <1>0, <1>1, GoodIsSound DEF AsTool, Linking
    <2> QED
      BY <1>0, <1>1, <2>1, InitialisedCounts
  <1>2. CASE call' = Error(c) /\ UNCHANGED lastId
    BY <1>0, <1>2, FreshFine, FineCall DEF Error
  <1>3. CASE ConnectFalse(c, call) /\ UNCHANGED lastId
    BY <1>0, <1>3, ConnectFalseCounts
  <1> QED
    BY <1>1, <1>2, <1>3 DEF WriteFails, GiveUp, NoProcess, SendFails

LEMMA TimeoutCounts ==
    ASSUME IInv, Goods, Counted, NEW c \in Call, Timeout(c)
    PROVE  Goods' /\ Counted'
  <1>1. /\ UNCHANGED <<external, lastId, inbox, outbox>>
        /\ call' = [call EXCEPT ![c] = [call[c] EXCEPT !.fut = "expired"]]
    BY DEF Timeout, server
  <1>2. Fine([call[c] EXCEPT !.fut = "expired"], c)
    BY Known, GoodEnds DEF Goods, Fine
  <1> QED
    BY <1>1, <1>2, FineCall

\* A retry after an error takes the request that was answered back; one after
\* a timeout is the first, of an external server's call.
LEMMA RetryCounts ==
    ASSUME IInv, Goods, Counted, NEW c \in Call, Retry(c)
    PROVE  Goods' /\ Counted'
  <1> DEFINE keeps == Linking(c) \/ call[c].fut # "fault"
             r == [call[c] EXCEPT !.pc = "send", !.tries = @ + 1,
                                  !.unanswered = IF keeps THEN @ ELSE @ - 1]
  <1>0. /\ UNCHANGED <<external, lastId, inbox, outbox>>
        /\ call[c].pc = "wait" /\ lastId \in Nat
        /\ \/ call[c].fut = "expired" /\ external /\ call[c].tries = 0
           \/ call[c].fut = "fault" /\ call[c].tries < MaxRetries
        /\ Good(call[c], lastId, external) /\ call[c] \in Locals
    BY Known DEF Retry, At, server, client, Goods, Good
  <1>1. call' = [call EXCEPT ![c] = r]
    <2>1. call' = [call EXCEPT ![c].pc = "send", ![c].tries = @ + 1,
                         ![c].unanswered = IF Linking(c) \/ call[c].fut # "fault"
                                           THEN @ ELSE @ - 1]
      BY DEF Retry, Again
    <2> QED
      BY <2>1, <1>0 DEF Locals
  <1>2. call[c].tries \in Nat /\ call[c].tries + 1 \in 0 .. MaxRetries /\ call[c].unanswered \in Nat
    BY <1>0, BoundsAssumption DEF Locals
  <1>3. ~keeps => AsTool(call[c]) /\ call[c].unanswered > 0
    BY <1>0 DEF Linking, AsTool, Good, Answer
  <1>4. (IF keeps THEN call[c].unanswered ELSE call[c].unanswered - 1) \in 0 .. MaxIds
    <2>1. call[c].unanswered \in 0 .. MaxIds /\ MaxIds \in Nat
      BY <1>0, Known DEF Locals
    <2> HIDE DEF keeps
    <2> QED
      BY <1>3, <2>1
  <1>5. /\ r \in Locals /\ r.pc = "send" /\ r.frames = call[c].frames
        /\ r.tries = call[c].tries + 1
        /\ r.unanswered = IF keeps THEN call[c].unanswered ELSE call[c].unanswered - 1
    <2>1. "send" \in Step
      BY DEF Step
    <2> HIDE DEF keeps
    <2> QED
      BY <1>0, <1>2, <1>4, <2>1 DEF Locals
  <1> HIDE DEF r
  <1>6. r.unanswered <= Allowed(r, external)
    <2>1. CASE call[c].frames # <<>>
      BY <1>0, <1>2, <1>5, <2>1 DEF Good, Allowed, AsTool, Outer, Linking
    <2>2. CASE call[c].frames = <<>> /\ call[c].fut = "fault"
      BY <1>0, <1>2, <1>5, <2>2 DEF Good, Allowed, AsTool, Outer, Linking
    <2>3. CASE call[c].frames = <<>> /\ call[c].fut = "expired"
      BY <1>0, <1>2, <1>5, <2>3 DEF Good, Allowed, AsTool, Outer, Linking
    <2> QED
      BY <1>0, <2>1, <2>2, <2>3
  <1>7. r.unanswered <= lastId
    BY <1>0, <1>2, <1>5 DEF Good
  <1>8. Fine(r, c)
    <2> HIDE DEF keeps
    <2> QED
      BY <1>0, <1>5, <1>6, <1>7 DEF Good, Fine, AsTool
  <1> QED
    BY <1>0, <1>1, <1>8, FineCall

LEMMA AnsweredCounts ==
    ASSUME IInv, Goods, Counted, NEW c \in Call, Answered(c)
    PROVE  Goods' /\ Counted'
  <1>0. UNCHANGED <<external, lastId, inbox, outbox>>
    BY DEF Answered, server, client
  <1>1. CASE call' = Error(c)
    BY <1>0, <1>1, FreshFine, FineCall DEF Error
  <1>2. CASE call' = [call EXCEPT ![c] = [Fresh EXCEPT !.fut = "ok", !.heard = call[c].heard]]
    <2> DEFINE r == [Fresh EXCEPT !.fut = "ok", !.heard = call[c].heard]
    <2>1. call[c].heard \in Call \union {"none"} /\ Fresh \in Locals /\ Good(Fresh, lastId, external)
      BY Known, FreshGood DEF Goods, Good, Locals
    <2>2. /\ r \in Locals /\ r.pc = "done" /\ r.frames = <<>> /\ r.unanswered = 0
          /\ Len(r.frames) = 0
      <3>1. r \in Locals
        BY <2>1 DEF Locals, Answer
      <3> QED
        BY <3>1 DEF Fresh
    <2> HIDE DEF r
    <2>3. Fine(r, c)
      BY <2>2, Known DEF Fine, Good, AsTool, Allowed
    <2> QED
      BY <1>0, <1>2, <2>3, FineCall DEF r
  <1> QED
    BY <1>1, <1>2 DEF Answered

\* A call inside connect() goes on, the others as they were or failed.
LEMMA LinkedStep ==
    ASSUME IInv, Goods, Counted, NEW c \in Call, call[c].frames # <<>>,
           NEW p \in Step \ {"write", "wait", "idle", "done"},
           \/ call' = [call EXCEPT ![c].pc = p]
           \/ call' = [FailAll EXCEPT ![c].pc = p],
           UNCHANGED <<lastId, external>>,
           inbox' \union outbox' \subseteq inbox \union outbox
    PROVE  Goods' /\ Counted'
  <1>1. Good(call[c], lastId, external) /\ Sound(call[c], lastId, external) /\ lastId \in Nat
    BY Known, GoodIsSound DEF Goods, AsTool
  <1>2. CASE call' = [call EXCEPT ![c].pc = p]
    <2>1. Fine([call[c] EXCEPT !.pc = p], c)
      BY <1>1, SoundAt DEF Fine
    <2> QED
      BY <1>2, <2>1, FineCall
  <1>3. CASE call' = [FailAll EXCEPT ![c].pc = p]
    <2>1. Good(FailAll[c], lastId, external) /\ FailAll[c].frames = call[c].frames
      <3>1. FailAll[c] = call[c] \/ FailAll[c] = [call[c] EXCEPT !.fut = "eof"]
        BY DEF FailAll, Failed
      <3>2. Good([call[c] EXCEPT !.fut = "eof"], lastId, external)
        BY <1>1, GoodEnds
      <3> QED
        BY <1>1, <3>1, <3>2 DEF Good, Locals
    <2>2. Sound(FailAll[c], lastId, external)
      BY <2>1, GoodIsSound DEF AsTool
    <2>3. Fine([FailAll[c] EXCEPT !.pc = p], c)
      BY <1>1, <2>1, <2>2, SoundAt DEF Fine
    <2> QED
      BY <1>3, <2>3, FineCall
  <1> QED
    BY <1>2, <1>3

LEMMA SpawnCounts ==
    ASSUME IInv, Goods, Counted, NEW c \in Call, Spawn(c)
    PROVE  Goods' /\ Counted'
  <1>1. /\ UNCHANGED <<external, lastId, inbox, outbox>>
        /\ call' = [FailAll EXCEPT ![c].pc = "send"] /\ call[c].pc = "spawn"
    BY DEF Spawn, At
  <1>2. call[c].frames # <<>>
    BY <1>1 DEF Goods, Good
  <1> QED
    BY <1>1, <1>2, LinkedStep DEF Step

LEMMA SpawnFailsCounts ==
    ASSUME IInv, Goods, Counted, NEW c \in Call, SpawnFails(c)
    PROVE  Goods' /\ Counted'
  <1>0. /\ UNCHANGED <<external, inbox, outbox>> /\ call[c].pc = "spawn"
        /\ Good(call[c], lastId, external) /\ lastId \in Nat
    BY Known DEF SpawnFails, server, At, Goods
  <1>1. call[c].frames # <<>> /\ Sound(call[c], lastId, external)
    BY <1>0, GoodIsSound DEF Good, AsTool
  <1>2. CASE Last(call[c].frames).who = "init" /\ Initialised(c, Returned(call[c]))
    <2> DEFINE s == call[c].frames
    <2>1. s \in Seq(Frame) /\ s[Len(s)].who = "init" /\ s[1].who \in {"ensure", "tool"}
      BY <1>1, <1>2 DEF Last, Sound, Locals
    <2>2. Len(s) \in Nat /\ Len(s) > 1
      BY <1>1, <2>1
    <2>3. Returned(call[c]).frames = Front(s)
      BY <1>1 DEF Returned, Sound, Locals
    <2>4. Len(Front(s)) = Len(s) - 1
      BY <2>1, <2>2 DEF Front
    <2>5. Front(s) # <<>>
      BY <2>2, <2>4
    <2>6. Sound(Returned(call[c]), lastId, external)
      BY <1>0, <1>1, SoundReturned
    <2> QED
      BY <1>0, <1>2, <2>3, <2>5, <2>6, InitialisedCounts
  <1>3. CASE ConnectFalse(c, call) /\ UNCHANGED lastId
    BY <1>0, <1>3, ConnectFalseCounts
  <1>4. CASE /\ call' = [call EXCEPT ![c] = [Nested(@, "except") EXCEPT !.pc = "close"]]
             /\ UNCHANGED lastId
    <2>1. /\ Sound(Nested(call[c], "except"), lastId, external)
          /\ Nested(call[c], "except").frames # <<>>
      BY <1>0, <1>1, SoundNested
    <2>2. Fine([Nested(call[c], "except") EXCEPT !.pc = "close"], c)
      BY <1>0, <2>1, SoundAt DEF Fine, Step
    <2> QED
      BY <1>0, <1>4, <2>2, FineCall
  <1> QED
    BY <1>2, <1>3, <1>4 DEF SpawnFails

LEMMA ConnectCounts ==
    ASSUME IInv, Goods, Counted, NEW c \in Call,
           \/ Abandon(c) \/ Abandoned(c) \/ Close(c) \/ Terminate(c)
           \/ Closed(c) \/ TerminateRaises(c)
    PROVE  Goods' /\ Counted'
  <1>0. /\ UNCHANGED <<external, lastId>>
        /\ inbox' \union outbox' \subseteq inbox \union outbox
    BY DEF Abandon, Abandoned, Close, Terminate, Closed, TerminateRaises, Killed, client, server
  <1>1. call[c].frames # <<>>
    BY DEF Abandon, Abandoned, Close, Terminate, Closed, TerminateRaises, At, Linking, Goods, Good
  <1>2. CASE ConnectFalse(c, call) \/ ConnectFalse(c, FailAll)
    BY <1>0, <1>2, ConnectFalseFacts, FreshFine, FineCall
  <1>3. CASE call' = [FailAll EXCEPT ![c] = Fresh]
    BY <1>0, <1>3, FreshFine, FineCall
  <1>4. CASE \E p \in {"abandon", "spawn", "terminate", "closed"} :
               call' = [call EXCEPT ![c].pc = p] \/ call' = [FailAll EXCEPT ![c].pc = p]
    BY <1>0, <1>1, <1>4, LinkedStep DEF Step
  <1> QED
    BY <1>2, <1>3, <1>4
       DEF Abandon, Abandoned, Close, Terminate, Closed, TerminateRaises, AfterClose

LEMMA CancelCounts ==
    ASSUME IInv, Goods, Counted, NEW c \in Call, Cancel(c)
    PROVE  Goods' /\ Counted'
  <1>1. /\ UNCHANGED <<external, lastId, inbox, outbox>>
        /\ call' = [call EXCEPT ![c] = Fresh] \/ call' = [FailAll EXCEPT ![c] = Fresh]
    BY DEF Cancel, Error, server
  <1> QED
    BY <1>1, FreshFine, FineCall

\* The answer that is read is to a request that has been counted.
LEMMA ReadCounts ==
    ASSUME IInv, Goods, Counted, Read
    PROVE  Goods' /\ Counted'
  <1>0. UNCHANGED <<external, lastId, inbox>> /\ DOMAIN call = Call /\ IdsAreOwn /\ Shape
    BY Known DEF Read, IInv
  <1>1. PICK m \in outbox :
          /\ outbox' = outbox \ {m}
          /\ \/ \E answer \in Answer : call' = Deliver(m, answer)
             \/ UNCHANGED call
    BY DEF Read
  <1>2. m.from \in Call /\ m \in Letters
    BY <1>0, <1>1 DEF Shape, Mail, Letters
  <1>3. CASE UNCHANGED call
    BY <1>0, <1>1, <1>3, FineStep
  <1>4. ASSUME NEW answer \in Answer, call' = Deliver(m, answer)
        PROVE  Goods' /\ Counted'
    <2>1. ASSUME NEW c \in Call
          PROVE  call'[c] = call[c] \/ Fine(call'[c], c)
      <3>1. CASE call[c].id = m.id /\ Undone(call[c])
        <4> DEFINE r == [call[c] EXCEPT !.fut = answer, !.heard = m.from]
        <4>1. call'[c] = r
          BY <1>4, <3>1 DEF Deliver, Undone, Requested
        <4>2. /\ call[c].pc # "write" /\ Good(call[c], lastId, external) /\ call[c] \in Locals
              /\ AsTool(call[c]) => call[c].unanswered > 0
          BY <1>0, <1>1, <1>2, <3>1 DEF IdsAreOwn, Goods, Good, Counted
        <4>3. /\ r \in Locals /\ r.pc = call[c].pc /\ r.frames = call[c].frames
              /\ r.tries = call[c].tries /\ r.id = call[c].id
              /\ r.unanswered = call[c].unanswered
          BY <1>2, <4>2 DEF Locals
        <4> HIDE DEF r
        <4>4. Allowed(r, external) = Allowed(call[c], external) /\ AsTool(r) = AsTool(call[c])
          BY <4>3 DEF Allowed, Outer, AsTool
        <4> QED
          BY <4>1, <4>2, <4>3, <4>4 DEF Good, Fine
      <3>2. CASE ~(call[c].id = m.id /\ Undone(call[c]))
        BY <1>4, <3>2 DEF Deliver, Undone, Requested
      <3> QED
        BY <3>1, <3>2
    <2>2. DOMAIN call' = Call
      BY <1>4 DEF Deliver
    <2> QED
      BY <1>0, <1>1, <2>1, <2>2, FineStep
  <1> QED
    BY <1>1, <1>3, <1>4

LEMMA EnvironmentCounts ==
    ASSUME IInv, Goods, Counted,
           \/ ReadEOF \/ ReadBreaks \/ GhostEnds
           \/ Serve \/ (\E p \in Proc : Die(p) \/ Reap(p)) \/ UNCHANGED vars
    PROVE  Goods' /\ Counted'
  <1>1. /\ UNCHANGED <<external, lastId>> /\ (call' = call \/ call' = FailAll)
        /\ inbox' \union outbox' \subseteq inbox \union outbox
    BY DEF ReadEOF, ReadBreaks, ReaderEnds, GhostEnds, Serve, Die, Reap, client, server, vars
  <1>2. CASE call' = call
    BY <1>1, <1>2, Known, FineStep
  <1> QED
    BY <1>1, <1>2, AllFail

LEMMA CountsNext == IInv /\ Goods /\ Counted /\ [Next]_vars => Goods' /\ Counted'
  BY GateCounts, SendCounts, WriteCounts, EndCounts, TimeoutCounts, RetryCounts,
     AnsweredCounts, SpawnCounts, SpawnFailsCounts, ConnectCounts, CancelCounts,
     ReadCounts, EnvironmentCounts
     DEF Next, Progress, Requests, Connects, Closes, Finished

-----------------------------------------------------------------------------
(* The other variables stay in their ranges.                               *)

\* What requests and connections change of Ranges, and the rest of it.
Moves ==
    /\ connected \in BOOLEAN /\ failed \in BOOLEAN /\ pending \subseteq Id
    /\ failures \in 0 .. Tolerance /\ managerFails \in 0 .. FailLimit

Rest ==
    /\ external \in BOOLEAN /\ attempted \subseteq {"client", "manager"}
    /\ spawned \in Proc /\ ghosts \subseteq Proc
    /\ life \in [Proc -> {"none", "up", "dead", "reaped"}]
    /\ Len(buffer) <= MaxBuffer /\ faults \in 0 .. MaxFaults

LEMMA RangesParts == (Ranges <=> Moves /\ Rest) /\ (Ranges' <=> Moves' /\ Rest')
  BY DEF Ranges, Moves, Rest

LEMMA UpRange ==
    ASSUME NEW top \in Nat, NEW n \in 0 .. top
    PROVE  Up(n, top) \in 0 .. top
  BY DEF Up

LEMMA FailureMoves ==
    ASSUME Moves, Failure, UNCHANGED <<failed, managerFails>>,
           connected' \in BOOLEAN, pending' \subseteq Id
    PROVE  Moves'
  <1>1. failures' \in 0 .. Tolerance
    BY BoundsAssumption, UpRange DEF Failure, Moves
  <1> QED
    BY <1>1 DEF Moves

LEMMA ConnectFalseMoves ==
    ASSUME Moves, NEW c, NEW calls, ConnectFalse(c, calls),
           connected' \in BOOLEAN, pending' \subseteq Id
    PROVE  Moves'
  <1>1. CASE Failure /\ UNCHANGED manager
    BY <1>1, FailureMoves DEF manager
  <1>2. CASE /\ managerFails' = Up(managerFails, FailLimit)
             /\ failed' = (failed \/ managerFails' = FailLimit)
             /\ UNCHANGED failures
    <2>1. managerFails' \in 0 .. FailLimit
      BY <1>2, BoundsAssumption, UpRange DEF Moves
    <2>2. failed' \in BOOLEAN
      BY <1>2
    <2> QED
      BY <1>2, <2>1, <2>2 DEF Moves
  <1> QED
    BY <1>1, <1>2 DEF ConnectFalse

LEMMA RegisterMoves ==
    ASSUME Moves, IInv, NEW c, NEW r, Register(c, r), connected' \in BOOLEAN
    PROVE  Moves'
  <1>1. lastId \in Nat /\ MaxIds \in Nat /\ lastId < MaxIds
    BY BoundsAssumption DEF Register, IInv, Shape
  <1>2. lastId + 1 \in Id
    BY <1>1 DEF Id
  <1>3. pending' = pending \union {lastId + 1}
    BY DEF Register
  <1>4. pending' \subseteq Id
    BY <1>2, <1>3 DEF Moves
  <1> QED
    BY <1>4 DEF Register, Moves, manager

LEMMA InitialisedMoves ==
    ASSUME Moves, IInv, NEW c, NEW r, Initialised(c, r)
    PROVE  Moves'
  <1>1. CASE connected' = TRUE /\ ConnectTrue(c, r)
    <2>1. CASE Register(c, Returned(r))
      BY <1>1, <2>1, RegisterMoves
    <2>2. CASE managerFails' = 0 /\ UNCHANGED <<failed, failures, pending>>
      BY <1>1, <2>2, BoundsAssumption DEF Moves
    <2> QED
      BY <1>1, <2>1, <2>2 DEF ConnectTrue
  <1>2. CASE connected' = FALSE /\ ConnectFalse(c, call) /\ UNCHANGED pending
    BY <1>2, ConnectFalseMoves DEF Moves
  <1> QED
    BY <1>1, <1>2 DEF Initialised

LEMMA EndMoves ==
    ASSUME Moves, IInv, NEW c, SendFails(c) \/ NoProcess(c) \/ SendUnhealthy(c)
    PROVE  Moves'
  <1>1. CASE Initialised(c, call[c])
    BY <1>1, InitialisedMoves
  <1>2. CASE /\ Failure /\ UNCHANGED <<manager, pending>>
             /\ UNCHANGED connected \/ SeeHealth
    <2>1. connected' \in BOOLEAN /\ pending' \subseteq Id
      BY <1>2 DEF SeeHealth, Moves
    <2> QED
      BY <1>2, <2>1, FailureMoves DEF manager
  <1>3. CASE ConnectFalse(c, call) /\ connected' = FALSE /\ UNCHANGED pending
    BY <1>3, ConnectFalseMoves DEF Moves
  <1>4. CASE UNCHANGED <<manager, connected, failures, pending>>
    BY <1>4 DEF Moves, manager
  <1> QED
    BY <1>1, <1>2, <1>3, <1>4 DEF SendFails, NoProcess, SendUnhealthy

LEMMA RequestRanges ==
    ASSUME IInv, Ranges, NEW c \in Call,
           \/ GateClosed(c) \/ Gate(c) \/ Timeout(c) \/ Requests(c)
    PROVE  Ranges'
  <1>0. Moves /\ Rest /\ IdsAreOwn /\ buffer \in Seq(Mail)
    BY RangesParts DEF IInv, Shape
  <1>1. Rest'
    <2>1. UNCHANGED <<external, spawned, ghosts, life, faults>>
          /\ attempted' \subseteq {"client", "manager"}
      BY <1>0 DEF Rest, GateClosed, Gate, Timeout, Requests, Send, Reconnect, Write, WriteFails,
             Retry, GiveUp, Answered, server, client, TakeBuffered
    <2>2. UNCHANGED buffer
      <3>1. CASE Write(c)
        <4>1. ~ \E m \in ToSet(buffer) : m.id = call[c].id
          BY <1>0, <3>1 DEF Write, At, IdsAreOwn, Letters
        <4> QED
          BY <3>1, <4>1 DEF Write
      <3> QED
        BY <3>1 DEF GateClosed, Gate, Timeout, Requests, Send, Reconnect, WriteFails,
             Retry, GiveUp, Answered, server, client
    <2> QED
      BY <1>0, <2>1, <2>2 DEF Rest
  <1>2. Moves'
    <2>1. CASE GateClosed(c) \/ Retry(c)
      BY <1>0, <2>1 DEF Moves, GateClosed, Retry, client, manager
    <2>2. CASE Gate(c)
      <3>1. connected' \in BOOLEAN
        BY <1>0, <2>2 DEF Gate, SeeHealth, Moves
      <3>2. managerFails' \in 0 .. FailLimit
        BY <1>0, <2>2, BoundsAssumption DEF Gate, Moves
      <3> QED
        BY <1>0, <2>2, <3>1, <3>2 DEF Gate, Moves
    <2>3. CASE Timeout(c) \/ Write(c)
      BY <1>0, <2>3 DEF Timeout, Write, TakeBuffered, Moves, manager
    <2>4. CASE Send(c)
      <3>1. CASE Register(c, call[c]) /\ UNCHANGED connected
        BY <1>0, <3>1, RegisterMoves DEF Moves
      <3> QED
        BY <1>0, <2>4, <3>1, EndMoves DEF Send
    <2>5. CASE Reconnect(c)
      BY <1>0, <2>5 DEF Reconnect, SeeHealth, Moves, manager
    <2>6. CASE WriteFails(c) \/ GiveUp(c)
      BY <1>0, <2>6, EndMoves, InitialisedMoves DEF WriteFails, GiveUp
    <2>7. CASE Answered(c)
      <3>1. CASE failures' = 0
        BY <1>0, <2>7, <3>1, BoundsAssumption DEF Answered, client, manager, Moves
      <3>2. CASE Failure
        BY <1>0, <2>7, <3>2, FailureMoves DEF Answered, client, manager, Moves
      <3> QED
        BY <2>7, <3>1, <3>2 DEF Answered
    <2> QED
      BY <2>1, <2>2, <2>3, <2>4, <2>5, <2>6, <2>7 DEF Requests
  <1> QED
    BY <1>1, <1>2, RangesParts

LEMMA ConnectRanges ==
    ASSUME IInv, Ranges, NEW c \in Call, Connects(c) \/ Closes(c) \/ Cancel(c)
    PROVE  Ranges'
  <1>0. /\ Moves /\ Rest /\ spawned \in 0 .. MaxProcs /\ proc \in 0 .. MaxProcs
        /\ reader \in 0 .. MaxProcs /\ MaxProcs \in Nat
    BY RangesParts, BoundsAssumption DEF IInv, Shape
  <1>1. Rest'
    <2>0. UNCHANGED <<external, attempted, buffer, faults>>
      BY DEF Connects, Closes, Cancel, Spawn, SpawnFails, Abandon, Abandoned, Close, Terminate,
             Closed, TerminateRaises, server, client
    <2>1. CASE Spawn(c)
      <3>1. spawned' \in Proc /\ ghosts' \subseteq Proc
        BY <1>0, <2>1 DEF Spawn, Rest, Proc
      <3>2. life' \in [Proc -> {"none", "up", "dead", "reaped"}]
        BY <1>0, <2>1, <3>1 DEF Spawn, Rest
      <3> QED
        BY <1>0, <2>0, <3>1, <3>2 DEF Rest
    <2>2. CASE UNCHANGED <<spawned, ghosts>> /\ (UNCHANGED life \/ Killed(proc))
      <3>1. life' \in [Proc -> {"none", "up", "dead", "reaped"}]
        BY <1>0, <2>2 DEF Killed, Rest
      <3> QED
        BY <1>0, <2>0, <2>2, <3>1 DEF Rest
    <2> QED
      BY <2>1, <2>2 DEF Connects, Closes, Cancel, SpawnFails, Abandon, Abandoned, Close,
             Terminate, Closed, TerminateRaises, server, client
  <1>2. Moves'
    <2>1. CASE /\ connected' \in {connected, FALSE} /\ pending' \in SUBSET pending
               /\ UNCHANGED <<manager, failures>>
      BY <1>0, <2>1 DEF Moves, manager
    <2>2. CASE /\ \E calls : ConnectFalse(c, calls) \/ AfterClose(c, calls)
               /\ connected' \in {connected, FALSE} /\ pending' \in SUBSET pending
      <3>1. connected' \in BOOLEAN /\ pending' \subseteq Id
        BY <1>0, <2>2 DEF Moves
      <3> QED
        BY <1>0, <2>2, <2>1, <3>1, ConnectFalseMoves DEF AfterClose
    <2>3. CASE SpawnFails(c)
      BY <1>0, <2>1, <2>2, <2>3, InitialisedMoves DEF SpawnFails
    <2>4. CASE Spawn(c) \/ Abandon(c) \/ Terminate(c) \/ TerminateRaises(c) \/ Cancel(c)
      BY <2>1, <2>4 DEF Spawn, Abandon, Terminate, TerminateRaises, Cancel, Forget, client
    <2>5. CASE Abandoned(c) \/ Close(c) \/ Closed(c)
      BY <2>1, <2>2, <2>5 DEF Abandoned, Close, Closed, Forget
    <2> QED
      BY <2>3, <2>4, <2>5 DEF Connects, Closes
  <1> QED
    BY <1>1, <1>2, RangesParts

LEMMA OtherRanges ==
    ASSUME IInv, Ranges,
           \/ Read \/ ReadEOF \/ ReadBreaks \/ GhostEnds
           \/ Serve \/ (\E p \in Proc : Die(p) \/ Reap(p)) \/ UNCHANGED vars
    PROVE  Ranges'
  <1>0. Moves /\ Rest /\ outbox \subseteq Mail /\ buffer \in Seq(Mail)
    BY RangesParts DEF IInv, Shape
  <1>1. Moves'
    <2>1. /\ UNCHANGED <<connected, manager, failures>> /\ pending' \subseteq pending
      BY DEF Read, ReadEOF, ReadBreaks, ReaderEnds, GhostEnds, Serve, Die, Reap, client,
             server, vars
    <2> QED
      BY <1>0, <2>1 DEF Moves, manager
  <1>2. Rest'
    <2>1. CASE Read
      <3>1. PICK m \in outbox : buffer' = Buffered(m) \/ UNCHANGED buffer
        BY <2>1 DEF Read
      <3>2. m \in Mail
        BY <1>0
      <3>3. /\ Append(buffer, m) \in Seq(Mail)
            /\ Len(Append(buffer, m)) = Len(buffer) + 1 /\ Len(buffer) \in Nat
        BY <1>0, <3>2
      <3>4. Len(Tail(Append(buffer, m))) = Len(buffer)
        BY <3>3
      <3>5. Len(buffer') <= MaxBuffer
        <4>1. Len(buffer) <= MaxBuffer /\ MaxBuffer \in Nat
          BY <1>0, BoundsAssumption DEF Rest
        <4>2. CASE UNCHANGED buffer
          BY <4>1, <4>2
        <4>3. CASE buffer' = Buffered(m)
          <5>1. CASE Len(Append(buffer, m)) > MaxBuffer
            BY <3>3, <3>4, <4>1, <4>3, <5>1 DEF Buffered
          <5>2. CASE ~ Len(Append(buffer, m)) > MaxBuffer
            BY <3>3, <4>1, <4>3, <5>2 DEF Buffered
          <5> QED
            BY <5>1, <5>2
        <4> QED
          BY <3>1, <4>2, <4>3
      <3> QED
        BY <1>0, <2>1, <3>5 DEF Rest, Read
    <2>2. CASE ReadEOF \/ GhostEnds \/ Serve \/ UNCHANGED vars
      BY <1>0, <2>2 DEF Rest, ReadEOF, ReaderEnds, GhostEnds, Serve, client, server, vars
    <2>3. CASE ReadBreaks
      <3>1. faults' \in 0 .. MaxFaults
        BY <1>0, <2>3, BoundsAssumption DEF ReadBreaks, Rest
      <3> QED
        BY <1>0, <2>3, <3>1 DEF Rest, ReadBreaks, ReaderEnds
    <2>4. ASSUME NEW p \in Proc, Die(p) \/ Reap(p) PROVE Rest'
      <3>1. faults' \in 0 .. MaxFaults
        BY <1>0, <2>4, BoundsAssumption DEF Die, Reap, Rest
      <3>2. life' \in [Proc -> {"none", "up", "dead", "reaped"}]
        BY <1>0, <2>4 DEF Die, Reap, Rest
      <3> QED
        BY <1>0, <2>4, <3>1, <3>2 DEF Rest, Die, Reap, client
    <2> QED
      BY <2>1, <2>2, <2>3, <2>4
  <1> QED
    BY <1>1, <1>2, RangesParts

LEMMA RangesNext == IInv /\ Ranges /\ [Next]_vars => Ranges'
  BY RequestRanges, ConnectRanges, OtherRanges DEF Next, Progress, Finished

KInv == Goods /\ Counted /\ Ranges

LEMMA InitKInv == Init => KInv
  <1> SUFFICES ASSUME Init PROVE KInv
    OBVIOUS
  <1> DEFINE r == [Fresh EXCEPT !.pc = "idle"]
  <1>1. Fresh \in Locals
    BY FreshGood DEF Good
  <1>2. r \in Locals /\ r.pc = "idle" /\ r.frames = <<>> /\ r.unanswered = 0 /\ r.fut = "eof"
        /\ Len(r.frames) = 0
    <2>1. r \in Locals
      BY <1>1 DEF Locals, Step
    <2> QED
      BY <2>1 DEF Fresh
  <1> HIDE DEF r
  <1>3. Good(r, 0, external)
    BY <1>2 DEF Good, AsTool, Allowed, Answer
  <1>4. Goods
    BY <1>3 DEF Init, Goods, r
  <1>5. Counted
    BY DEF Init, Counted
  <1>6. Ranges
    <2>1. Len(buffer) <= MaxBuffer
      BY BoundsAssumption DEF Init
    <2>2. life \in [Proc -> {"none", "up", "dead", "reaped"}]
      BY DEF Init
    <2>3. spawned \in Proc
      BY BoundsAssumption DEF Init, Proc
    <2>4. failures \in 0 .. Tolerance /\ managerFails \in 0 .. FailLimit /\ faults \in 0 .. MaxFaults
      BY BoundsAssumption DEF Init
    <2> QED
      BY <2>1, <2>2, <2>3, <2>4 DEF Init, Ranges
  <1> QED
    BY <1>4, <1>5, <1>6 DEF KInv

\* What a call has sent is accounted for by its attempts, and every counter
\* stays in its range.
THEOREM KInvAlways == Spec => []KInv
  <1>1. IInv /\ KInv /\ [Next]_vars => KInv'
    BY CountsNext, RangesNext DEF KInv
  <1> QED
    BY <1>1, InitKInv, IInvAlways, PTL DEF Spec

\* The types of the variables, a stack of connect() calls in progress among
\* them: the outermost is always the manager's or a tool call's.
THEOREM TypeCorrect == Spec => []TypeOK
  <1>1. IInv /\ KInv => TypeOK
    <2> SUFFICES ASSUME IInv, KInv PROVE TypeOK
      OBVIOUS
    <2>1. ToSet(buffer) \subseteq Mail
      BY LettersAreMail DEF IInv, Letters
    <2>2. \A c \in Call : /\ call[c] \in Locals
                          /\ Linking(c) => call[c].frames[1].who \in {"ensure", "tool"}
      BY DEF KInv, Goods, Good, Linking
    <2> QED
      BY <2>1, <2>2 DEF TypeOK, IInv, Shape, KInv, Ranges, Locals
  <1> QED
    BY <1>1, IInvAlways, KInvAlways, PTL

\* However a call is retried, timed out or reconnected, what it has sent and
\* not heard of is one request, or two if the server is external.
THEOREM SentAgainOnlyOnErrorAlways == Spec => []SentAgainOnlyOnError
  <1>1. KInv => SentAgainOnlyOnError
    <2> SUFFICES ASSUME KInv, NEW c \in Call
                 PROVE  call[c].unanswered <= IF external THEN 2 ELSE 1
      BY DEF SentAgainOnlyOnError
    <2>1. Good(call[c], lastId, external) /\ call[c].unanswered \in Nat
      BY DEF KInv, Goods, Good, Locals
    <2> QED
      BY <2>1 DEF Good, Allowed
  <1> QED
    BY <1>1, KInvAlways, PTL

-----------------------------------------------------------------------------
(* How long a call can go on.  Between two requests a call takes few steps;  *)
(* a request is repeated at most MaxRetries times; and only a connect() that *)
(* has started a process sends an initialize of its own.                     *)

Rank == [idle |-> 12, send |-> 11, close |-> 10, terminate |-> 9, closed |-> 8, spawn |-> 7,
         write |-> 6, wait |-> 5, abandon |-> 3, done |-> 0]

\* The steps of a request with all its retries.
Attempts == 16 * (MaxRetries + 1)

\* What k requests cost, the retries of one that has had t, and the processes
\* to come after n.
Below(k)   == Attempts * k
Repeats(t) == 16 * (MaxRetries - t)
ToStart(n) == 2 * Attempts * (MaxProcs - n)

Resolved(r) == r.pc = "wait" /\ r.fut # "undone"
Weight(r)   == IF Resolved(r) THEN 4 ELSE Rank[r.pc]
Closing(r)  == r.pc \in {"close", "terminate", "closed"}
Dropping(r) == Closing(r) /\ Last(r.frames).who = "except"

\* What is left for a call with these locals, if no more processes start.  Until
\* its process has started, a connect() counts as part of the request it serves.
Ahead(r) ==
    CASE Dropping(r) -> Rank[r.pc] - 7
      [] ~Dropping(r) /\ (Closing(r) \/ r.pc = "spawn") ->
            Below(Len(r.frames) - 1) + Repeats(Last(r.frames).tries) + Rank[r.pc]
      [] OTHER ->
            Below(Len(r.frames)) + Repeats(r.tries) + Weight(r)

ToGo(r, n) == IF r.pc = "done" THEN 0 ELSE ToStart(n) + Ahead(r)
StepsLeft(c) == ToGo(call[c], spawned)

Own(c) == GateClosed(c) \/ Gate(c) \/ Timeout(c) \/ Cancel(c) \/ Progress(c)

\* Every step of a call brings its return nearer, and no step of another call, of
\* the reader or of the server puts it off.
CallsWindDown ==
    [][\A c \in Call : /\ StepsLeft(c)' <= StepsLeft(c)
                       /\ Own(c) => StepsLeft(c)' < StepsLeft(c)]_vars

\* A request with its retries fits between two levels of the stack.
LEMMA Levels ==
    /\ Attempts \in Nat /\ MaxRetries \in Nat
    /\ \A k \in Nat : Below(k) \in Nat
    /\ \A t \in 0 .. MaxRetries : Repeats(t) \in 0 .. Attempts - 16
  <1>1. MaxRetries \in Nat
    BY BoundsAssumption
  <1>2. Attempts \in Nat /\ Attempts = 16 * MaxRetries + 16
    BY <1>1 DEF Attempts
  <1>3. \A k \in Nat : Below(k) \in Nat
    BY <1>2 DEF Below
  <1>4. \A t \in 0 .. MaxRetries : Repeats(t) \in 0 .. Attempts - 16
    BY <1>1, <1>2 DEF Repeats
  <1> QED
    BY <1>1, <1>2, <1>3, <1>4

LEMMA NextLevel ==
    ASSUME NEW k \in Nat
    PROVE  Below(k + 1) = Below(k) + Attempts
  BY Levels DEF Below

LEMMA LevelIsNat ==
    ASSUME NEW k \in Nat, NEW t \in 0 .. MaxRetries
    PROVE  Below(k) + Repeats(t) \in Nat
  <1>1. Below(k) \in Nat /\ Repeats(t) \in Nat
    BY Levels
  <1> QED
    BY <1>1

\* The same for the request a call is in, and for the one its connect() serves.
LEMMA InnerLevel ==
    ASSUME NEW r \in Locals
    PROVE  Below(Len(r.frames)) + Repeats(r.tries) \in Nat
  <1>1. Len(r.frames) \in Nat /\ r.tries \in 0 .. MaxRetries
    BY DEF Locals
  <1> QED
    BY <1>1, LevelIsNat, Zenon

LEMMA OuterLevel ==
    ASSUME NEW r \in Locals, r.frames # <<>>
    PROVE  Below(Len(r.frames) - 1) + Repeats(Last(r.frames).tries) \in Nat
  <1>1. r.frames \in Seq(Frame) /\ Len(r.frames) \in Nat /\ Len(r.frames) >= 1
    BY DEF Locals
  <1>2. r.frames[Len(r.frames)] \in Frame
    BY <1>1
  <1>3. Len(r.frames) - 1 \in Nat /\ Last(r.frames).tries \in 0 .. MaxRetries
    BY <1>1, <1>2 DEF Frame, Last
  <1> QED
    BY <1>3, LevelIsNat, Zenon

\* The two parts of what is left that count: how deep a call is, and in it.
LEMMA AheadPlain ==
    ASSUME NEW r \in Locals, r.pc \in {"idle", "send", "write", "wait", "abandon"}
    PROVE  LET k == Len(r.frames)
               x == Weight(r)
           IN  /\ k \in Nat /\ x \in 3 .. 12
               /\ Ahead(r) = Below(k) + Repeats(r.tries) + x
               /\ Ahead(r) >= Below(k) + x /\ Ahead(r) < Below(k + 1)
               /\ Ahead(r) \in Nat /\ Ahead(r) > 0
  <1> DEFINE k == Len(r.frames)
             x == Weight(r)
  <1>1. k \in Nat /\ r.tries \in 0 .. MaxRetries
    BY DEF Locals
  <1>2. x \in 3 .. 12
    BY DEF Rank, Weight
  <1>3. Ahead(r) = Below(k) + Repeats(r.tries) + x
    BY DEF Ahead, Dropping, Closing
  <1> HIDE DEF k, x
  <1>4. /\ Attempts \in Nat /\ Below(k) \in Nat /\ Below(k + 1) = Below(k) + Attempts
        /\ Repeats(r.tries) \in 0 .. Attempts - 16
    BY <1>1, Levels, NextLevel
  <1>5. /\ Ahead(r) >= Below(k) + x /\ Ahead(r) < Below(k + 1)
        /\ Ahead(r) \in Nat /\ Ahead(r) > 0
    BY <1>2, <1>3, <1>4
  <1> QED
    BY <1>1, <1>2, <1>3, <1>5 DEF k, x

LEMMA AheadOuter ==
    ASSUME NEW r \in Locals, r.pc \in {"spawn", "close", "terminate", "closed"}, r.frames # <<>>,
           ~Dropping(r)
    PROVE  LET k == Len(r.frames) - 1
               t == Last(r.frames).tries
           IN  /\ k \in Nat /\ t \in 0 .. MaxRetries /\ Rank[r.pc] \in 7 .. 10
               /\ Ahead(r) = Below(k) + Repeats(t) + Rank[r.pc]
               /\ Ahead(r) >= Below(k) + 7 /\ Ahead(r) < Below(k + 1)
               /\ Ahead(r) \in Nat /\ Ahead(r) > 0
  <1> DEFINE k == Len(r.frames) - 1
             t == Last(r.frames).tries
  <1>1. k \in Nat /\ t \in 0 .. MaxRetries
    <2>1. r.frames \in Seq(Frame) /\ Len(r.frames) \in Nat /\ Len(r.frames) >= 1
      BY DEF Locals
    <2>2. r.frames[Len(r.frames)] \in Frame
      BY <2>1
    <2> QED
      BY <2>1, <2>2 DEF Frame, Last
  <1> DEFINE x == Rank[r.pc]
  <1>2. x \in 7 .. 10
    BY DEF Rank
  <1>3. Ahead(r) = Below(k) + Repeats(t) + x
    BY DEF Ahead, Closing
  <1> HIDE DEF k, t, x
  <1>4. /\ Attempts \in Nat /\ Below(k) \in Nat /\ Below(k + 1) = Below(k) + Attempts
        /\ Repeats(t) \in 0 .. Attempts - 16
    BY <1>1, Levels, NextLevel
  <1>5. /\ Ahead(r) >= Below(k) + 7 /\ Ahead(r) < Below(k + 1)
        /\ Ahead(r) \in Nat /\ Ahead(r) > 0
    BY <1>2, <1>3, <1>4
  <1> QED
    BY <1>1, <1>2, <1>3, <1>5 DEF k, t, x

LEMMA AheadDropping ==
    ASSUME NEW r, Dropping(r)
    PROVE  Ahead(r) = Rank[r.pc] - 7 /\ Ahead(r) \in 1 .. 3
  BY DEF Ahead, Dropping, Closing, Rank

\* What processes still to start may cost.
LEMMA Starts ==
    ASSUME NEW n \in Proc
    PROVE  /\ ToStart(n) \in Nat
           /\ n + 1 \in Proc => ToStart(n + 1) = ToStart(n) - 2 * Attempts
  <1>1. Attempts \in Nat /\ MaxProcs \in Nat
    BY Levels, BoundsAssumption
  <1>2. MaxProcs - n \in Nat /\ n \in Nat
    BY <1>1 DEF Proc
  <1>3. \A k \in Nat : 2 * Attempts * k \in Nat
    BY <1>1
  <1>4. ToStart(n + 1) = ToStart(n) - 2 * Attempts
    BY <1>1, <1>2 DEF ToStart
  <1> QED
    BY <1>2, <1>3, <1>4 DEF ToStart

LEMMA AheadOfAll ==
    ASSUME NEW r, NEW m, NEW x, Good(r, m, x)
    PROVE  /\ Ahead(r) \in Nat
           /\ r.pc # "done" => Ahead(r) > 0
  <1>1. r \in Locals
    BY DEF Good
  <1>2. CASE r.pc \in {"idle", "send", "write", "wait", "abandon"}
    BY <1>1, <1>2, AheadPlain
  <1>3. CASE Dropping(r)
    BY <1>3, AheadDropping
  <1>4. CASE ~Dropping(r) /\ r.pc \in {"spawn", "close", "terminate", "closed"}
    <2>1. r.frames # <<>>
      BY <1>4 DEF Good
    <2> QED
      BY <1>1, <1>4, <2>1, AheadOuter
  <1>5. CASE r.pc = "done"
    <2>1. Len(r.frames) = 0 /\ r.tries \in 0 .. MaxRetries
      BY <1>1, <1>5 DEF Good, Locals
    <2>2. Ahead(r) = Below(0) + Repeats(r.tries) + 0
      BY <1>5, <2>1 DEF Ahead, Dropping, Closing, Resolved, Weight, Rank
    <2>3. Ahead(r) \in Nat
      BY <2>1, <2>2, Levels DEF Below, Repeats
    <2> QED
      BY <1>5, <2>3
  <1> QED
    BY <1>1, <1>2, <1>3, <1>4, <1>5 DEF Locals, Step

\* A call that another one's step, or the reader's, leaves where it is.
Passive(q, r) ==
    /\ q.pc = r.pc /\ q.frames = r.frames /\ q.tries = r.tries
    /\ r.fut # "undone" => q.fut # "undone"

LEMMA ToGoIsNat ==
    ASSUME NEW r, NEW m, NEW x, Good(r, m, x), NEW n \in Proc
    PROVE  ToGo(r, n) \in Nat
  <1> DEFINE p == ToStart(n)
  <1>1. p \in Nat /\ Ahead(r) \in Nat
    BY Starts, AheadOfAll
  <1>2. ToGo(r, n) = IF r.pc = "done" THEN 0 ELSE p + Ahead(r)
    BY DEF ToGo
  <1> HIDE DEF p
  <1> QED
    BY <1>1, <1>2

LEMMA PassiveStays ==
    ASSUME NEW r, NEW q, NEW m, NEW x, Good(r, m, x), Passive(q, r), NEW n \in Proc,
           NEW n2 \in {n, n + 1}, n2 \in Proc
    PROVE  ToGo(q, n2) \in Int /\ ToGo(q, n2) <= ToGo(r, n)
  <1>1. r \in Locals
    BY DEF Good
  <1>2. Dropping(q) = Dropping(r) /\ Closing(q) = Closing(r)
    BY DEF Passive, Dropping, Closing
  <1>3. Ahead(q) <= Ahead(r) /\ Ahead(q) \in Int /\ Ahead(r) \in Nat
    <2>1. Ahead(r) \in Nat
      BY AheadOfAll
    <2>2. CASE Resolved(q) = Resolved(r) \/ Dropping(r) \/ Closing(r) \/ r.pc = "spawn"
      <3>1. Ahead(q) = Ahead(r)
        BY <1>2, <2>2 DEF Ahead, Passive, Resolved, Weight, Closing
      <3> QED
        BY <2>1, <3>1
    <2>3. CASE r.pc = "wait" /\ r.fut = "undone" /\ Resolved(q)
      <3> DEFINE a == Below(Len(r.frames)) + Repeats(r.tries)
      <3>1. Ahead(r) = a + 5 /\ Ahead(q) = a + 4
        BY <1>2, <2>3 DEF Ahead, Passive, Resolved, Weight, Closing, Dropping, Rank
      <3>2. a \in Nat
        BY <1>1, InnerLevel
      <3> HIDE DEF a
      <3> QED
        BY <2>1, <3>1, <3>2
    <2> QED
      BY <2>2, <2>3 DEF Passive, Resolved
  <1> DEFINE p(k) == ToStart(k)
  <1>4. p(n) \in Nat /\ p(n2) \in Nat /\ p(n2) <= p(n)
    <2>1. CASE n2 = n
      BY <2>1, Starts
    <2>2. CASE n2 = n + 1
      BY <2>2, Starts, Levels
    <2> QED
      BY <2>1, <2>2
  <1>5. /\ ToGo(q, n2) = IF r.pc = "done" THEN 0 ELSE p(n2) + Ahead(q)
        /\ ToGo(r, n) = IF r.pc = "done" THEN 0 ELSE p(n) + Ahead(r)
    BY DEF ToGo, Passive
  <1> HIDE DEF p
  <1> QED
    BY <1>3, <1>4, <1>5

WindsDown(c) ==
    /\ \A d \in Call : StepsLeft(d)' <= StepsLeft(d)
    /\ StepsLeft(c)' < StepsLeft(c)

\* The step of a call that becomes q.
LEMMA CallWinds ==
    ASSUME IInv, KInv, NEW c \in Call, NEW calls, calls = call \/ calls = FailAll,
           NEW q, call' = [calls EXCEPT ![c] = q],
           spawned' \in {spawned, spawned + 1}, spawned' \in Proc,
           ToGo(q, spawned') \in Int, ToGo(q, spawned') < ToGo(call[c], spawned)
    PROVE  WindsDown(c)
  <1>1. spawned \in Proc /\ DOMAIN call = Call
    BY Known DEF KInv, Ranges
  <1>2. call'[c] = q
    BY <1>1 DEF FailAll
  <1>3. ASSUME NEW d \in Call, d # c PROVE ToGo(call'[d], spawned') <= ToGo(call[d], spawned)
    <2>1. call'[d] = call[d] \/ call'[d] = Failed(call[d])
      BY <1>1, <1>3 DEF FailAll
    <2>2. Good(call[d], lastId, external) /\ call[d] \in Locals
      BY DEF KInv, Goods, Good
    <2>3. Passive(call'[d], call[d])
      BY <2>1, <2>2 DEF Passive, Failed, Locals
    <2> QED
      BY <1>1, <2>2, <2>3, PassiveStays
  <1>4. ToGo(q, spawned') <= ToGo(call[c], spawned)
    <2>1. Good(call[c], lastId, external)
      BY DEF KInv, Goods
    <2>2. ToGo(call[c], spawned) \in Nat
      BY <1>1, <2>1, ToGoIsNat
    <2> HIDE DEF ToGo
    <2> QED
      BY <2>2
  <1>5. \A d \in Call : ToGo(call'[d], spawned') <= ToGo(call[d], spawned)
    BY <1>2, <1>3, <1>4
  <1>6. ToGo(call'[c], spawned') < ToGo(call[c], spawned)
    BY <1>2
  <1> QED
    BY <1>5, <1>6 DEF WindsDown, StepsLeft

\* No call's: the reader, the server.
LEMMA OthersWind ==
    ASSUME IInv, KInv, UNCHANGED spawned,
           \A d \in Call : Passive(call'[d], call[d])
    PROVE  \A d \in Call : StepsLeft(d)' <= StepsLeft(d)
  <1>1. spawned \in Proc
    BY DEF KInv, Ranges
  <1>2. ASSUME NEW d \in Call PROVE ToGo(call'[d], spawned') <= ToGo(call[d], spawned)
    <2>1. Good(call[d], lastId, external)
      BY DEF KInv, Goods
    <2> QED
      BY <1>1, <1>2, <2>1, PassiveStays
  <1> QED
    BY <1>2 DEF StepsLeft

\* The ways a call gets on, no process having started.
LEMMA ReturnWinds ==
    ASSUME IInv, KInv, NEW c \in Call, NEW calls, calls = call \/ calls = FailAll,
           NEW q, q.pc = "done", ~At(c, "done"), call' = [calls EXCEPT ![c] = q],
           UNCHANGED spawned
    PROVE  WindsDown(c)
  <1>1. spawned \in Proc /\ Good(call[c], lastId, external)
    BY DEF KInv, Ranges, Goods
  <1> DEFINE p == ToStart(spawned)
  <1>2. p \in Nat /\ Ahead(call[c]) \in Nat /\ Ahead(call[c]) > 0
    BY <1>1, Starts, AheadOfAll DEF At
  <1>3. ToGo(call[c], spawned) = p + Ahead(call[c])
    BY DEF ToGo, At
  <1>4. ToGo(q, spawned) = 0
    BY DEF ToGo
  <1> HIDE DEF p
  <1>5. ToGo(q, spawned') \in Int /\ ToGo(q, spawned') < ToGo(call[c], spawned)
    BY <1>2, <1>3, <1>4
  <1> QED
    BY <1>1, <1>5, CallWinds

LEMMA NearerWinds ==
    ASSUME IInv, KInv, NEW c \in Call, NEW calls, calls = call \/ calls = FailAll,
           NEW q, call' = [calls EXCEPT ![c] = q], UNCHANGED spawned,
           ~At(c, "done"), q.pc # "done", Ahead(q) \in Int, Ahead(q) < Ahead(call[c])
    PROVE  WindsDown(c)
  <1>1. spawned \in Proc /\ Good(call[c], lastId, external)
    BY DEF KInv, Ranges, Goods
  <1> DEFINE p == ToStart(spawned)
  <1>2. p \in Nat /\ Ahead(call[c]) \in Nat
    BY <1>1, Starts, AheadOfAll
  <1>3. ToGo(call[c], spawned) = p + Ahead(call[c]) /\ ToGo(q, spawned') = p + Ahead(q)
    BY DEF ToGo, At
  <1> HIDE DEF p
  <1>4. ToGo(q, spawned') \in Int /\ ToGo(q, spawned') < ToGo(call[c], spawned)
    BY <1>2, <1>3
  <1> QED
    BY <1>1, <1>4, CallWinds

\* Closer in the same request, ...
LEMMA PlainDown ==
    ASSUME NEW r \in Locals, NEW q \in Locals, q.frames = r.frames, q.tries = r.tries,
           r.pc \in {"idle", "send", "write", "wait", "abandon"},
           q.pc \in {"idle", "send", "write", "wait", "abandon"}, Weight(q) < Weight(r)
    PROVE  Ahead(q) \in Int /\ Ahead(q) < Ahead(r)
  <1> DEFINE a == Below(Len(r.frames)) + Repeats(r.tries)
             x == Weight(r)
             y == Weight(q)
  <1>1. x \in Int /\ y \in Int /\ Ahead(q) \in Nat /\ Ahead(r) \in Nat
    BY AheadPlain
  <1>2. Ahead(r) = a + x /\ Ahead(q) = a + y
    BY AheadPlain
  <1>3. a \in Nat
    BY InnerLevel
  <1>4. y < x
    OBVIOUS
  <1> HIDE DEF a, x, y
  <1> QED
    BY <1>1, <1>2, <1>3, <1>4

\* ... in a disconnect(), ...
LEMMA CloseDown ==
    ASSUME NEW r \in Locals, NEW q \in Locals, q.frames = r.frames, q.tries = r.tries,
           r.frames # <<>>, Closing(r), q.pc \in {"terminate", "closed", "spawn"},
           Rank[q.pc] < Rank[r.pc], q.pc = "spawn" => ~Dropping(r)
    PROVE  Ahead(q) \in Int /\ Ahead(q) < Ahead(r)
  <1>1. CASE Dropping(r)
    <2>1. Dropping(q)
      BY <1>1 DEF Dropping, Closing
    <2>2. Rank[q.pc] \in Int /\ Rank[r.pc] \in Int
      BY DEF Rank, Closing
    <2> QED
      BY <1>1, <2>1, <2>2, AheadDropping
  <1>2. CASE ~Dropping(r)
    <2> DEFINE a == Below(Len(r.frames) - 1) + Repeats(Last(r.frames).tries)
               x == Rank[r.pc]
               y == Rank[q.pc]
    <2>1. ~Dropping(q) /\ r.pc \in {"spawn", "close", "terminate", "closed"}
      BY <1>2 DEF Dropping, Closing
    <2>2. x \in Int /\ y \in Int /\ Ahead(q) \in Nat /\ Ahead(r) \in Nat
      BY <1>2, <2>1, AheadOuter
    <2>3. Ahead(r) = a + x /\ Ahead(q) = a + y
      BY <1>2, <2>1, AheadOuter
    <2>4. a \in Nat
      BY OuterLevel
    <2>5. y < x
      OBVIOUS
    <2> HIDE DEF a, x, y
    <2> QED
      BY <2>2, <2>3, <2>4, <2>5
  <1> QED
    BY <1>1, <1>2

\* ... into a connect() or the disconnect() before it or after it, ...
LEMMA NestedDown ==
    ASSUME NEW r, NEW n \in Nat, NEW x, Sound(r, n, x),
           NEW w \in {"ensure", "tool", "init", "except"}, NEW p \in {"spawn", "close"},
           r.frames = <<>> <=> w \in {"ensure", "tool"}, w = "except" => p = "close"
    PROVE  LET q == [Nested(r, w) EXCEPT !.pc = p]
           IN  /\ Ahead(q) \in Int /\ q.pc = p
               /\ r.pc \in {"idle", "send"} /\ w # "except" => Ahead(q) < Ahead(r)
               /\ r.pc = "spawn" /\ w = "except" => Ahead(q) < Ahead(r)
  <1> DEFINE q == [Nested(r, w) EXCEPT !.pc = p]
             f == [who |-> w, tries |-> r.tries]
  <1>0. p \in Step \ {"write", "wait", "idle", "done"} /\ r \in Locals
    BY DEF Step, Sound
  <1>1. Good(q, n, x)
    <2>1. Sound(Nested(r, w), n, x) /\ Nested(r, w).frames # <<>>
      BY SoundNested
    <2> QED
      BY <1>0, <2>1, SoundAt
  <1>2. q \in Locals
    BY <1>1 DEF Good
  <1>3. q.pc = p /\ q.frames = Append(r.frames, f)
    BY <1>0 DEF Nested, Locals
  <1>4. /\ r.frames \in Seq(Frame) /\ f \in Frame /\ Len(r.frames) \in Nat
        /\ Len(q.frames) = Len(r.frames) + 1 /\ q.frames # <<>> /\ q.frames[Len(q.frames)] = f
    BY <1>0, <1>3 DEF Locals, Frame
  <1>5. Last(q.frames).who = w /\ Last(q.frames).tries = r.tries
    BY <1>4 DEF Last
  <1> HIDE DEF q, f
  <1>6. CASE w # "except"
    <2>1. ~Dropping(q)
      BY <1>5, <1>6 DEF Dropping
    <2> DEFINE a == Below(Len(r.frames)) + Repeats(r.tries)
               y == Rank[p]
    <2>2. Len(q.frames) - 1 = Len(r.frames)
      BY <1>4
    <2>3. y \in 7 .. 10 /\ Ahead(q) = a + y /\ Ahead(q) \in Nat
      BY <1>2, <1>3, <1>4, <1>5, <2>1, <2>2, AheadOuter
    <2>4. r.pc \in {"idle", "send"} => Ahead(r) = a + Weight(r) /\ Weight(r) \in {11, 12}
      BY <1>0, AheadPlain DEF Weight, Resolved, Rank
    <2>5. a \in Nat
      BY <1>0, InnerLevel
    <2> HIDE DEF a, y
    <2>6. r.pc \in {"idle", "send"} => Ahead(q) < Ahead(r)
      BY <2>3, <2>4, <2>5
    <2> QED
      BY <1>3, <1>6, <2>3, <2>6 DEF q
  <1>7. CASE w = "except"
    <2>1. Dropping(q) /\ q.pc = "close"
      BY <1>3, <1>5, <1>7 DEF Dropping, Closing
    <2>2. Ahead(q) = 3
      BY <2>1, AheadDropping DEF Rank
    <2>3. r.pc = "spawn" => Ahead(r) \in Nat /\ Ahead(r) >= 7
      <3> SUFFICES ASSUME r.pc = "spawn" PROVE Ahead(r) \in Nat /\ Ahead(r) >= 7
        OBVIOUS
      <3> DEFINE a == Below(Len(r.frames) - 1)
      <3>1. ~Dropping(r) /\ r.frames # <<>>
        BY <1>7 DEF Dropping, Closing
      <3>2. Ahead(r) \in Nat /\ Ahead(r) >= a + 7 /\ Len(r.frames) - 1 \in Nat
        BY <1>0, <3>1, AheadOuter
      <3>3. a \in Nat
        BY <3>2, Levels
      <3> HIDE DEF a
      <3> QED
        BY <3>2, <3>3
    <2> QED
      BY <1>3, <1>7, <2>1, <2>2, <2>3 DEF q
  <1> QED
    BY <1>6, <1>7

\* ... and out of one.
LEMMA ReturnedDown ==
    ASSUME NEW r, NEW n \in Nat, NEW x, Sound(r, n, x), r.frames # <<>>
    PROVE  /\ Returned(r).frames = Front(r.frames)
           /\ Len(Returned(r).frames) = Len(r.frames) - 1
           /\ Len(r.frames) \in Nat /\ Len(r.frames) >= 1
           /\ \A q \in Locals :
                 /\ q.pc \in {"send", "write"} /\ q.frames = Returned(r).frames
                 => Ahead(q) \in Int /\ Ahead(q) < Below(Len(r.frames))
  <1>1. r \in Locals /\ r.frames \in Seq(Frame)
    BY DEF Sound, Locals
  <1>2. Len(r.frames) \in Nat /\ Len(r.frames) >= 1
    BY <1>1
  <1>3. Len(Front(r.frames)) = Len(r.frames) - 1
    BY <1>1, <1>2 DEF Front
  <1>4. Returned(r).frames = Front(r.frames)
    BY <1>1 DEF Returned, Locals
  <1>5. ASSUME NEW q \in Locals, q.pc \in {"send", "write"}, q.frames = Returned(r).frames
        PROVE  Ahead(q) \in Int /\ Ahead(q) < Below(Len(r.frames))
    <2>1. Len(q.frames) = Len(r.frames) - 1 /\ Len(q.frames) + 1 = Len(r.frames)
      BY <1>2, <1>3, <1>4, <1>5
    <2>2. Ahead(q) \in Nat /\ Ahead(q) < Below(Len(q.frames) + 1)
      BY <1>5, AheadPlain
    <2> QED
      BY <2>1, <2>2
  <1> QED
    BY <1>2, <1>3, <1>4, <1>5

\* What is known of a call that takes a step.
LEMMA KnownOf ==
    ASSUME IInv, KInv, NEW c \in Call
    PROVE  /\ Good(call[c], lastId, external) /\ call[c] \in Locals
           /\ lastId \in Nat /\ MaxIds \in Nat
           /\ ~AsTool(call[c]) => Sound(call[c], lastId, external)
  BY Known, GoodIsSound DEF KInv, Goods, Good

LEMMA FalseWinds ==
    ASSUME IInv, KInv, NEW c \in Call, NEW calls, calls = call \/ calls = FailAll,
           ConnectFalse(c, calls), ~At(c, "done"), UNCHANGED spawned
    PROVE  WindsDown(c)
  BY ConnectFalseFacts, FreshFacts, ReturnWinds

LEMMA RegisterWinds ==
    ASSUME IInv, KInv, NEW c \in Call, NEW r, Sound(r, lastId, external), Register(c, r),
           ~At(c, "done"), UNCHANGED spawned,
           \A q \in Locals : q.pc = "write" /\ q.frames = r.frames /\ q.tries = r.tries
                             => Ahead(q) \in Int /\ Ahead(q) < Ahead(call[c])
    PROVE  WindsDown(c)
  <1> DEFINE q == Registered(r)
  <1>1. Good(q, lastId + 1, external) /\ lastId < MaxIds
    BY KnownOf, SoundRegistered DEF Register
  <1>2. q \in Locals /\ q.pc = "write" /\ q.frames = r.frames /\ q.tries = r.tries
    BY <1>1 DEF Good, Sound, Locals, Registered
  <1>3. call' = [call EXCEPT ![c] = q]
    BY DEF Register
  <1> HIDE DEF q
  <1> QED
    BY <1>2, <1>3, NearerWinds

LEMMA InitialisedWinds ==
    ASSUME IInv, KInv, NEW c \in Call, NEW r, Initialised(c, r), Sound(r, lastId, external),
           r.frames # <<>>, ~At(c, "done"), UNCHANGED spawned,
           Ahead(call[c]) >= Below(Len(r.frames))
    PROVE  WindsDown(c)
  <1>0. Good(call[c], lastId, external) /\ Ahead(call[c]) \in Nat /\ lastId \in Nat
    BY KnownOf, AheadOfAll
  <1>1. Below(Len(r.frames)) \in Nat
    BY <1>0, ReturnedDown, Levels
  <1>2. \A q \in Locals : q.pc \in {"send", "write"} /\ q.frames = Returned(r).frames
                          => Ahead(q) \in Int /\ Ahead(q) < Ahead(call[c])
    <2> SUFFICES ASSUME NEW q \in Locals, q.pc \in {"send", "write"}, q.frames = Returned(r).frames
                 PROVE  Ahead(q) \in Int /\ Ahead(q) < Ahead(call[c])
      OBVIOUS
    <2> DEFINE a == Below(Len(r.frames))
    <2>1. Ahead(q) \in Int /\ Ahead(q) < a /\ a \in Nat /\ a <= Ahead(call[c])
      BY <1>0, <1>1, ReturnedDown
    <2> HIDE DEF a
    <2> QED
      BY <1>0, <2>1
  <1>3. Sound(Returned(r), lastId, external)
    BY <1>0, SoundReturned
  <1>4. CASE ConnectTrue(c, r)
    <2>1. CASE Register(c, Returned(r))
      BY <1>2, <1>3, <2>1, RegisterWinds
    <2>2. CASE call' = [call EXCEPT ![c] = [Returned(r) EXCEPT !.pc = "send"]]
      <3> DEFINE q == [Returned(r) EXCEPT !.pc = "send"]
      <3>1. Good(q, lastId, external)
        BY <1>0, <1>3, SoundAt DEF Step
      <3>2. q \in Locals /\ q.pc = "send" /\ q.frames = Returned(r).frames
        BY <1>3, <3>1 DEF Good, Sound, Locals
      <3> HIDE DEF q
      <3>3. Ahead(q) \in Int /\ Ahead(q) < Ahead(call[c])
        BY <1>2, <3>2
      <3> QED
        BY <2>2, <3>2, <3>3, NearerWinds DEF q
    <2> QED
      BY <1>4, <2>1, <2>2 DEF ConnectTrue
  <1>5. CASE ConnectFalse(c, call)
    BY <1>5, FalseWinds
  <1> QED
    BY <1>4, <1>5 DEF Initialised

\* An error ends the call, or the initialize of a connect().
LEMMA ErrorWinds ==
    ASSUME IInv, KInv, NEW c \in Call, call[c].pc \in {"send", "write", "wait"}, UNCHANGED spawned,
           \/ SendFails(c) \/ NoProcess(c) \/ SendUnhealthy(c)
           \/ Linking(c) /\ Initialised(c, call[c])
    PROVE  WindsDown(c)
  <1>1. ~At(c, "done") /\ call[c] \in Locals
    BY KnownOf DEF At
  <1>2. CASE Linking(c) /\ Initialised(c, call[c])
    <2>1. call[c].frames # <<>> /\ Sound(call[c], lastId, external)
      BY <1>2, KnownOf DEF Linking, AsTool
    <2> DEFINE a == Below(Len(call[c].frames))
               x == Weight(call[c])
    <2>2. /\ Ahead(call[c]) >= a + x /\ x \in 3 .. 12 /\ Len(call[c].frames) \in Nat
          /\ Ahead(call[c]) \in Nat
      BY <1>1, AheadPlain
    <2>3. a \in Nat
      BY <2>2, Levels
    <2>4. Ahead(call[c]) >= a
      <3> HIDE DEF a, x
      <3> QED
        BY <2>2, <2>3
    <2> QED
      BY <1>1, <1>2, <2>1, <2>4, InitialisedWinds
  <1>3. CASE ConnectFalse(c, call)
    BY <1>1, <1>3, FalseWinds
  <1>4. CASE call' = Error(c)
    BY <1>1, <1>4, FreshFacts, ReturnWinds DEF Error
  <1> QED
    BY <1>2, <1>3, <1>4 DEF SendFails, NoProcess, SendUnhealthy

\* The locals after a step are what the invariant says.
LEMMA LocalsAfter ==
    ASSUME IInv, KInv, [Next]_vars, NEW c \in Call
    PROVE  call'[c] \in Locals
  BY CountsNext DEF KInv, Goods, Good

LEMMA GateWinds ==
    ASSUME IInv, KInv, NEW c \in Call, GateClosed(c) \/ Gate(c)
    PROVE  WindsDown(c)
  <1> DEFINE r == call[c]
  <1>0. /\ r.pc = "idle" /\ ~At(c, "done") /\ UNCHANGED spawned
        /\ r \in Locals /\ r.frames = <<>> /\ lastId \in Nat /\ Sound(r, lastId, external)
    <2>1. call[c].pc = "idle" /\ ~At(c, "done") /\ UNCHANGED spawned
      BY DEF GateClosed, Gate, At, client
    <2> QED
      BY <2>1, KnownOf DEF Good, AsTool
  <1>1. CASE call' = Error(c)
    BY <1>0, <1>1, FreshFacts, ReturnWinds DEF Error
  <1>2. CASE call' = [call EXCEPT ![c].pc = "send"]
    <2> DEFINE q == [r EXCEPT !.pc = "send"]
    <2>1. q \in Locals /\ q.pc = "send" /\ q.frames = r.frames /\ q.tries = r.tries
      BY <1>0 DEF Locals, Step
    <2>2. Weight(q) < Weight(r)
      BY <1>0, <2>1 DEF Weight, Resolved, Rank
    <2> HIDE DEF q
    <2>3. Ahead(q) \in Int /\ Ahead(q) < Ahead(r)
      BY <1>0, <2>1, <2>2, PlainDown
    <2> QED
      BY <1>0, <1>2, <2>1, <2>3, NearerWinds DEF q
  <1>3. CASE call' = [call EXCEPT ![c] = [Nested(@, "ensure") EXCEPT !.pc = "close"]]
    <2> DEFINE q == [Nested(r, "ensure") EXCEPT !.pc = "close"]
    <2>1. Ahead(q) \in Int /\ Ahead(q) < Ahead(r) /\ q.pc = "close"
      BY <1>0, NestedDown
    <2> HIDE DEF q
    <2> QED
      BY <1>0, <1>3, <2>1, NearerWinds DEF q
  <1> QED
    BY <1>1, <1>2, <1>3 DEF GateClosed, Gate

LEMMA SendWinds ==
    ASSUME IInv, KInv, NEW c \in Call, Send(c)
    PROVE  WindsDown(c)
  <1>0. /\ call[c].pc = "send" /\ ~At(c, "done") /\ UNCHANGED spawned
        /\ call[c] \in Locals /\ Sound(call[c], lastId, external)
    BY KnownOf DEF Send, At, AsTool
  <1>1. CASE Register(c, call[c])
    <2>1. ASSUME NEW q \in Locals, q.pc = "write", q.frames = call[c].frames,
                 q.tries = call[c].tries
          PROVE  Ahead(q) \in Int /\ Ahead(q) < Ahead(call[c])
      <3>1. Weight(q) < Weight(call[c])
        BY <1>0, <2>1 DEF Weight, Resolved, Rank
      <3> QED
        BY <1>0, <2>1, <3>1, PlainDown
    <2> QED
      BY <1>0, <1>1, <2>1, RegisterWinds
  <1>2. CASE SendFails(c) \/ SendUnhealthy(c)
    BY <1>0, <1>2, ErrorWinds
  <1> QED
    BY <1>1, <1>2 DEF Send

LEMMA ReconnectWinds ==
    ASSUME IInv, KInv, NEW c \in Call, Reconnect(c)
    PROVE  WindsDown(c)
  <1> DEFINE w == IF Linking(c) THEN "init" ELSE "tool"
             q == [Nested(call[c], w) EXCEPT !.pc = "spawn"]
  <1>0. /\ call[c].pc = "send" /\ ~At(c, "done") /\ UNCHANGED spawned /\ lastId \in Nat
        /\ Sound(call[c], lastId, external)
    BY KnownOf DEF Reconnect, At, AsTool
  <1>1. call' = [call EXCEPT ![c] = q]
    BY DEF Reconnect
  <1>2. /\ w \in {"ensure", "tool", "init", "except"} /\ w # "except"
        /\ call[c].frames = <<>> <=> w \in {"ensure", "tool"}
    BY DEF Linking
  <1> HIDE DEF w
  <1>3. Ahead(q) \in Int /\ Ahead(q) < Ahead(call[c]) /\ q.pc = "spawn"
    BY <1>0, <1>2, NestedDown
  <1> HIDE DEF q
  <1> QED
    BY <1>0, <1>1, <1>3, NearerWinds

LEMMA WriteWinds ==
    ASSUME IInv, KInv, NEW c \in Call, Write(c)
    PROVE  WindsDown(c)
  <1> DEFINE u == IF Linking(c) \/ life[proc] # "up" THEN call[c].unanswered
                                                     ELSE call[c].unanswered + 1
             q == [call[c] EXCEPT !.pc = "wait", !.unanswered = u]
  <1>0. /\ call[c].pc = "write" /\ ~At(c, "done") /\ UNCHANGED spawned /\ call[c] \in Locals
        /\ DOMAIN call = Call
    BY KnownOf, Known DEF Write, At
  <1>1. ~ \E m \in ToSet(buffer) : m.id = call[c].id
    BY <1>0 DEF IInv, IdsAreOwn, Letters, Requested
  <1>2. call' = [call EXCEPT ![c] = q]
    BY <1>0, <1>1 DEF Write, Locals
  <1>3. q = call'[c] /\ q.pc = "wait" /\ q.frames = call[c].frames /\ q.tries = call[c].tries
    BY <1>0, <1>2 DEF Locals
  <1>4. call'[c] \in Locals
    BY LocalsAfter DEF Next, Progress, Requests
  <1> HIDE DEF q
  <1>5. Weight(q) < Weight(call[c])
    BY <1>0, <1>3 DEF Weight, Resolved, Rank
  <1>6. Ahead(q) \in Int /\ Ahead(q) < Ahead(call[c])
    BY <1>0, <1>3, <1>4, <1>5, PlainDown
  <1> QED
    BY <1>0, <1>2, <1>3, <1>6, NearerWinds

LEMMA WriteFailsWinds ==
    ASSUME IInv, KInv, NEW c \in Call, WriteFails(c)
    PROVE  WindsDown(c)
  BY ErrorWinds DEF WriteFails, At, client

LEMMA TimeoutWinds ==
    ASSUME IInv, KInv, NEW c \in Call, Timeout(c)
    PROVE  WindsDown(c)
  <1> DEFINE q == [call[c] EXCEPT !.fut = "expired"]
  <1>0. /\ call[c].pc = "wait" /\ call[c].fut = "undone" /\ ~At(c, "done") /\ UNCHANGED spawned
        /\ call[c] \in Locals /\ call' = [call EXCEPT ![c] = q]
    BY KnownOf DEF Timeout, At
  <1>1. /\ q \in Locals /\ q.pc = "wait" /\ q.fut = "expired" /\ q.frames = call[c].frames
        /\ q.tries = call[c].tries
    BY <1>0 DEF Locals
  <1> HIDE DEF q
  <1>2. Weight(q) < Weight(call[c])
    BY <1>0, <1>1 DEF Weight, Resolved, Rank
  <1>3. Ahead(q) \in Int /\ Ahead(q) < Ahead(call[c])
    BY <1>0, <1>1, <1>2, PlainDown
  <1> QED
    BY <1>0, <1>1, <1>3, NearerWinds

LEMMA RetryWinds ==
    ASSUME IInv, KInv, NEW c \in Call, Retry(c)
    PROVE  WindsDown(c)
  <1> DEFINE r == call[c]
             u == IF Linking(c) \/ r.fut # "fault" THEN r.unanswered ELSE r.unanswered - 1
             q == [r EXCEPT !.pc = "send", !.tries = @ + 1, !.unanswered = u]
  <1>0. /\ r.pc = "wait" /\ ~At(c, "done") /\ UNCHANGED spawned /\ r \in Locals
        /\ DOMAIN call = Call /\ r.fut # "undone" /\ r.tries < MaxRetries
    <2>1. call[c] \in Locals /\ DOMAIN call = Call
      BY KnownOf, Known
    <2>2. MaxRetries \in Nat \ {0}
      BY BoundsAssumption
    <2> QED
      BY <2>1, <2>2 DEF Retry, At, client
  <1>1. call' = [call EXCEPT ![c] = q]
    BY <1>0 DEF Retry, Again, Locals
  <1>2. q = call'[c] /\ q.pc = "send" /\ q.frames = r.frames /\ q.tries = r.tries + 1
    BY <1>0, <1>1 DEF Locals
  <1>3. call'[c] \in Locals
    BY LocalsAfter DEF Next, Progress, Requests
  <1> HIDE DEF q
  <1>4. Weight(q) = 11 /\ Weight(r) = 4
    BY <1>0, <1>2 DEF Weight, Resolved, Rank
  <1> DEFINE a == Below(Len(r.frames))
  <1>5. /\ Ahead(r) = a + Repeats(r.tries) + 4
        /\ Ahead(q) = a + Repeats(q.tries) + 11
        /\ Len(r.frames) \in Nat /\ Ahead(q) \in Nat
    BY <1>0, <1>2, <1>3, <1>4, AheadPlain
  <1>6. a \in Nat /\ r.tries \in Nat /\ MaxRetries \in Nat
    BY <1>0, <1>5, Levels DEF Locals
  <1>7. Ahead(q) < Ahead(r)
    <2>1. q.tries = r.tries + 1
      BY <1>2
    <2> DEFINE t == r.tries
               s == q.tries
    <2>2. Ahead(r) = a + Repeats(t) + 4 /\ Ahead(q) = a + Repeats(s) + 11
          /\ s = t + 1 /\ t \in Nat
      BY <1>5, <1>6, <2>1
    <2> HIDE DEF a, t, s
    <2> QED
      BY <1>6, <2>2 DEF Repeats
  <1>8. Ahead(q) \in Int /\ Ahead(q) < Ahead(call[c]) /\ q.pc # "done"
    BY <1>2, <1>5, <1>7
  <1> HIDE DEF r, u, a
  <1> QED
    BY <1>0, <1>1, <1>8, NearerWinds

LEMMA AnsweredWinds ==
    ASSUME IInv, KInv, NEW c \in Call, Answered(c)
    PROVE  WindsDown(c)
  <1>0. ~At(c, "done") /\ UNCHANGED spawned
    BY DEF Answered, At, client
  <1>1. CASE call' = Error(c)
    BY <1>0, <1>1, FreshFacts, ReturnWinds DEF Error
  <1>2. CASE call' = [call EXCEPT ![c] = [Fresh EXCEPT !.fut = "ok", !.heard = call[c].heard]]
    <2> DEFINE q == [Fresh EXCEPT !.fut = "ok", !.heard = call[c].heard]
    <2>1. q.pc = "done"
      BY FreshFacts DEF Fields
    <2> HIDE DEF q
    <2> QED
      BY <1>0, <1>2, <2>1, ReturnWinds DEF q
  <1> QED
    BY <1>1, <1>2 DEF Answered

LEMMA GiveUpWinds ==
    ASSUME IInv, KInv, NEW c \in Call, GiveUp(c)
    PROVE  WindsDown(c)
  BY ErrorWinds DEF GiveUp, At, client

\* A process has started: the initialize has all its attempts, for which the
\* process pays.
LEMMA SpawnWinds ==
    ASSUME IInv, KInv, NEW c \in Call, Spawn(c)
    PROVE  WindsDown(c)
  <1> DEFINE r == call[c]
             q == [FailAll[c] EXCEPT !.pc = "send"]
  <1>0. /\ r.pc = "spawn" /\ ~At(c, "done") /\ spawned' = spawned + 1 /\ spawned' \in Proc
        /\ spawned \in Proc /\ r \in Locals /\ r.frames # <<>>
    <2>1. Good(call[c], lastId, external) /\ call[c] \in Locals /\ spawned \in Proc
      BY KnownOf DEF KInv, Ranges
    <2>2. spawned + 1 \in Proc
      BY <2>1, BoundsAssumption DEF Spawn, Proc
    <2> QED
      BY <2>1, <2>2 DEF Spawn, At, Good
  <1>1. call' = [FailAll EXCEPT ![c] = q]
    BY LikeFailed DEF Spawn, Requested
  <1>2. /\ q \in Locals /\ q.pc = "send" /\ q.frames = r.frames
    <2>1. FailAll[c] = call[c]
      BY <1>0 DEF FailAll, Failed
    <2> QED
      BY <1>0, <2>1 DEF Locals, Step
  <1> DEFINE k == Len(r.frames) - 1
             a == Below(k)
             p == ToStart(spawned)
             p2 == ToStart(spawned')
  <1>3. ~Dropping(r)
    BY <1>0 DEF Dropping, Closing
  <1>4. k \in Nat /\ Len(q.frames) = k + 1 /\ Ahead(r) \in Nat /\ Ahead(r) >= a + 7
    BY <1>0, <1>2, <1>3, AheadOuter
  <1>5. Ahead(q) \in Nat /\ Ahead(q) < Below(Len(q.frames) + 1)
    BY <1>2, AheadPlain
  <1>6. Below(Len(q.frames) + 1) = a + 2 * Attempts /\ a \in Nat /\ Attempts \in Nat
    <2> HIDE DEF k
    <2>1. Below(k + 1 + 1) = Below(k + 1) + Attempts
      BY <1>4, NextLevel
    <2>2. Below(k + 1) = Below(k) + Attempts
      BY <1>4, NextLevel
    <2>3. Below(k) \in Nat /\ Attempts \in Nat
      BY <1>4, Levels
    <2>4. Below(Len(q.frames) + 1) = Below(k + 1 + 1)
      BY <1>4
    <2> QED
      BY <2>1, <2>2, <2>3, <2>4
  <1>7. p \in Nat /\ p2 \in Nat /\ p2 = p - 2 * Attempts
    BY <1>0, Starts
  <1>8. ToGo(q, spawned') = p2 + Ahead(q) /\ ToGo(r, spawned) = p + Ahead(r)
    BY <1>0, <1>2 DEF ToGo
  <1> HIDE DEF k, a, p, p2, q
  <1>9. ToGo(q, spawned') \in Int /\ ToGo(q, spawned') < ToGo(r, spawned)
    <2> DEFINE b == Below(Len(q.frames) + 1)
               e == 2 * Attempts
    <2>1. b = a + e /\ e \in Nat /\ p2 = p - e /\ Ahead(q) < b
      BY <1>5, <1>6, <1>7
    <2> HIDE DEF b, e
    <2> QED
      BY <1>4, <1>5, <1>6, <1>7, <1>8, <2>1
  <1> QED
    BY <1>0, <1>1, <1>9, CallWinds

LEMMA SpawnFailsWinds ==
    ASSUME IInv, KInv, NEW c \in Call, SpawnFails(c)
    PROVE  WindsDown(c)
  <1> DEFINE r == call[c]
  <1>0. /\ r.pc = "spawn" /\ ~At(c, "done") /\ UNCHANGED spawned /\ r \in Locals
        /\ r.frames # <<>> /\ lastId \in Nat /\ Sound(r, lastId, external)
    BY KnownOf DEF SpawnFails, At, Good, AsTool
  <1>1. CASE Last(r.frames).who = "init" /\ Initialised(c, Returned(r))
    <2>1. Sound(Returned(r), lastId, external)
      BY <1>0, SoundReturned
    <2>2. Len(Returned(r).frames) = Len(r.frames) - 1 /\ Len(r.frames) \in Nat
      BY <1>0, ReturnedDown
    <2>3. Returned(r).frames # <<>>
      <3>1. Len(r.frames) # 1
        BY <1>0, <1>1 DEF Sound, Last, Locals
      <3>2. Len(Returned(r).frames) # 0
        BY <2>2, <3>1
      <3> QED
        BY <3>2
    <2> DEFINE a == Below(Len(r.frames) - 1)
    <2>4. Ahead(r) \in Nat /\ Ahead(r) >= a + 7 /\ Len(r.frames) - 1 \in Nat
      BY <1>0, AheadOuter DEF Dropping, Closing
    <2>5. a \in Nat
      BY <2>4, Levels
    <2>6. Ahead(r) >= a
      <3> HIDE DEF a
      <3> QED
        BY <2>4, <2>5
    <2>7. Ahead(r) >= Below(Len(Returned(r).frames))
      BY <2>2, <2>6
    <2> QED
      BY <1>0, <1>1, <2>1, <2>3, <2>7, InitialisedWinds
  <1>2. CASE ConnectFalse(c, call)
    BY <1>0, <1>2, FalseWinds
  <1>3. CASE call' = [call EXCEPT ![c] = [Nested(@, "except") EXCEPT !.pc = "close"]]
    <2> DEFINE q == [Nested(r, "except") EXCEPT !.pc = "close"]
    <2>1. Ahead(q) \in Int /\ Ahead(q) < Ahead(r) /\ q.pc = "close"
      BY <1>0, NestedDown
    <2> HIDE DEF q
    <2> QED
      BY <1>0, <1>3, <2>1, NearerWinds DEF q
  <1> QED
    BY <1>1, <1>2, <1>3 DEF SpawnFails

LEMMA AbandonWinds ==
    ASSUME IInv, KInv, NEW c \in Call, Abandon(c)
    PROVE  WindsDown(c)
  <1> DEFINE q == [call[c] EXCEPT !.pc = "abandon"]
  <1>0. /\ call[c].pc = "wait" /\ call[c].fut = "empty" /\ ~At(c, "done") /\ UNCHANGED spawned
        /\ call[c] \in Locals /\ call' = [call EXCEPT ![c] = q]
    BY KnownOf DEF Abandon, At, client
  <1>1. /\ q \in Locals /\ q.pc = "abandon" /\ q.frames = call[c].frames
        /\ q.tries = call[c].tries
    BY <1>0 DEF Locals, Step
  <1> HIDE DEF q
  <1>2. Weight(q) < Weight(call[c])
    BY <1>0, <1>1 DEF Weight, Resolved, Rank
  <1>3. Ahead(q) \in Int /\ Ahead(q) < Ahead(call[c])
    BY <1>0, <1>1, <1>2, PlainDown
  <1> QED
    BY <1>0, <1>1, <1>3, NearerWinds

\* A step of a disconnect().
LEMMA OnwardWinds ==
    ASSUME IInv, KInv, NEW c \in Call, Closing(call[c]), NEW p \in {"terminate", "closed", "spawn"},
           Rank[p] < Rank[call[c].pc], p = "spawn" => ~Dropping(call[c]), UNCHANGED spawned,
           call' = [call EXCEPT ![c].pc = p] \/ call' = [FailAll EXCEPT ![c].pc = p]
    PROVE  WindsDown(c)
  <1> DEFINE r == call[c]
             q == [r EXCEPT !.pc = p]
  <1>0. r \in Locals /\ r.frames # <<>> /\ ~At(c, "done")
    BY KnownOf DEF Good, Closing, At
  <1>1. FailAll[c] = r
    BY DEF FailAll, Failed, Closing
  <1>2. call' = [call EXCEPT ![c] = q] \/ call' = [FailAll EXCEPT ![c] = q]
    BY <1>1, LikeFailed DEF Requested
  <1>3. q \in Locals /\ q.pc = p /\ q.frames = r.frames /\ q.tries = r.tries
    BY <1>0 DEF Locals, Step
  <1> HIDE DEF q
  <1>4. Ahead(q) \in Int /\ Ahead(q) < Ahead(r)
    BY <1>0, <1>3, CloseDown
  <1> QED
    BY <1>0, <1>2, <1>3, <1>4, NearerWinds

LEMMA ClosesWind ==
    ASSUME IInv, KInv, NEW c \in Call, Abandoned(c) \/ Closes(c) \/ Cancel(c)
    PROVE  WindsDown(c)
  <1>0. ~At(c, "done") /\ UNCHANGED spawned
    BY DEF Abandoned, Closes, Cancel, Close, Terminate, Closed, TerminateRaises, At, client
  <1>1. CASE ConnectFalse(c, call) \/ ConnectFalse(c, FailAll)
    BY <1>0, <1>1, FalseWinds
  <1>2. CASE call' = Error(c) \/ call' = [FailAll EXCEPT ![c] = Fresh]
    BY <1>0, <1>2, FreshFacts, ReturnWinds DEF Error
  <1>3. CASE Close(c) /\ (call' = [call EXCEPT ![c].pc = "terminate"]
                          \/ call' = [FailAll EXCEPT ![c].pc = "terminate"])
    BY <1>0, <1>3, OnwardWinds DEF Close, At, Closing, Rank
  <1>4. CASE Terminate(c)
    <2>1. Closing(call[c]) /\ Rank["closed"] < Rank[call[c].pc]
      BY <1>4 DEF Terminate, At, Closing, Rank
    <2>2. call' = [call EXCEPT ![c].pc = "closed"]
      BY <1>4 DEF Terminate
    <2> QED
      BY <1>0, <2>1, <2>2, OnwardWinds
  <1>5. CASE (Close(c) \/ Closed(c)) /\ Last(call[c].frames).who # "except"
             /\ (call' = [call EXCEPT ![c].pc = "spawn"] \/ call' = [FailAll EXCEPT ![c].pc = "spawn"])
    BY <1>0, <1>5, OnwardWinds DEF Close, Closed, At, Closing, Dropping, Rank
  <1> QED
    BY <1>1, <1>2, <1>3, <1>4, <1>5
       DEF Abandoned, Closes, Cancel, Close, Terminate, Closed, TerminateRaises, AfterClose

LEMMA OwnWinds ==
    ASSUME IInv, KInv, NEW c \in Call, Own(c)
    PROVE  WindsDown(c)
  <1>1. CASE Cancel(c) \/ Abandoned(c) \/ Closes(c)
    BY <1>1, ClosesWind
  <1>2. CASE Requests(c)
    BY <1>2, SendWinds, ReconnectWinds, WriteWinds, WriteFailsWinds, RetryWinds, GiveUpWinds,
       AnsweredWinds DEF Requests
  <1>3. CASE Connects(c)
    BY <1>3, ClosesWind, SpawnWinds, SpawnFailsWinds, AbandonWinds DEF Connects
  <1> QED
    BY <1>1, <1>2, <1>3, GateWinds, TimeoutWinds DEF Own, Progress

LEMMA EnvironmentWinds ==
    ASSUME IInv, KInv,
           \/ Read \/ ReadEOF \/ ReadBreaks \/ GhostEnds
           \/ Serve \/ (\E p \in Proc : Die(p) \/ Reap(p)) \/ UNCHANGED vars
    PROVE  \A d \in Call : StepsLeft(d)' <= StepsLeft(d)
  <1>1. UNCHANGED spawned
    BY DEF Read, ReadEOF, ReadBreaks, ReaderEnds, GhostEnds, Serve, Die, Reap, client, vars
  <1>2. ASSUME NEW d \in Call PROVE Passive(call'[d], call[d])
    <2>1. call[d] \in Locals
      BY KnownOf
    <2>2. CASE call'[d] = Failed(call[d]) \/ call'[d] = call[d]
      BY <2>1, <2>2 DEF Passive, Failed, Locals
    <2>3. ASSUME NEW m, NEW answer \in Answer, call' = Deliver(m, answer)
          PROVE  Passive(call'[d], call[d])
      BY <2>1, <2>3 DEF Deliver, Passive, Answer, Locals
    <2> QED
      BY <2>2, <2>3 DEF Read, ReadEOF, ReadBreaks, ReaderEnds, GhostEnds, Serve, Die, Reap, vars,
         FailAll
  <1> QED
    BY <1>1, <1>2, OthersWind

\* However a call is retried, reconnected and cut off, and whatever the server, the
\* reader and the other calls do, its steps are bounded in MaxRetries and in the
\* processes that start: the part of EveryCallReturns that is not about fairness,
\* and without the bound on ids.
THEOREM CallsWindDownAlways == Spec => CallsWindDown
  <1>1. ASSUME IInv, KInv, [Next]_vars, NEW c \in Call
        PROVE  StepsLeft(c)' <= StepsLeft(c) /\ (Own(c) => StepsLeft(c)' < StepsLeft(c))
    <2>1. Own(c) => StepsLeft(c)' < StepsLeft(c)
      BY <1>1, OwnWinds DEF WindsDown
    <2>2. StepsLeft(c)' <= StepsLeft(c)
      <3>1. CASE \E d \in Call : Own(d)
        BY <1>1, <3>1, OwnWinds DEF WindsDown
      <3>2. CASE \/ Read \/ ReadEOF \/ ReadBreaks \/ GhostEnds
                 \/ Serve \/ (\E p \in Proc : Die(p) \/ Reap(p)) \/ UNCHANGED vars
        BY <1>1, <3>2, EnvironmentWinds
      <3> QED
        BY <1>1, <3>1, <3>2 DEF Next, Own, Finished
    <2> QED
      BY <2>1, <2>2
  <1>2. IInv /\ KInv /\ [Next]_vars
        => \A c \in Call : /\ StepsLeft(c)' <= StepsLeft(c)
                           /\ Own(c) => StepsLeft(c)' < StepsLeft(c)
    BY <1>1
  <1> QED
    BY <1>2, IInvAlways, KInvAlways, PTL DEF Spec, CallsWindDown
=============================================================================
