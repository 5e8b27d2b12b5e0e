----------------------------- MODULE UbusClient -----------------------------
(***************************************************************************)
(* What one ubus call does with the connection: Client::request, lookup    *)
(* and call of rust/src/ubus_socket.rs, the retry and the failure classes  *)
(* of Executor::call, and the fallback to the ubus program (state::ubus).  *)
(*                                                                         *)
(* Calls run one after the other (module UbusQueue).  ubusd and the vendor *)
(* service behind it are external: a service may answer late, fail, hang,  *)
(* or register again under a new id; ubusd may restart.  One object is     *)
(* enough, since the calls of different objects share nothing but the      *)
(* connection.                                                             *)
(***************************************************************************)
EXTENDS Integers, Sequences, TLAPS

CONSTANTS
    Calls,        \* bound: number of calls
    MaxSeq,       \* sequence numbers are 1..MaxSeq (65535 in the code)
    MaxChanges,   \* bound: restarts of ubusd and new registrations
    OwnNotFound   \* whether a service may itself answer NOT_FOUND

ASSUME UbusAssumption == Calls \in Nat /\ OwnNotFound \in BOOLEAN

VARIABLES
    \* the client
    stream,    \* Client.stream: the number of the open connection, 0 = None
    seq,       \* Client.seq
    id,        \* Client.ids of the object, 0 = not cached
    down,      \* Executor.socket_down
    pc,        \* the step of the call
    call,      \* the call in progress, or the last one
    req,       \* the request in progress
    retry,     \* Executor::call may still repeat the call on a fresh stream
    relooked,  \* Client::call: the id that was not found, 0 = none yet
    \* ubusd and the service
    opened,    \* connections opened so far
    dead,      \* connections up to this one are closed by a restart
    object,    \* id of the registered object, 0 = none
    changes,   \* bound: restarts and registrations so far
    wire,      \* requests ubusd has not handled yet
    inbox,     \* frames waiting in the open connection
    \* history
    sent,      \* number of the last request
    ran,       \* how often the service ran each call
    foreign    \* a reply was taken for an answer to another request

client == <<stream, seq, id, down, pc, call, req, retry, relooked>>
ubusd == <<opened, dead, object, changes, wire>>
vars == <<client, ubusd, inbox, sent, ran, foreign>>

Phases == {"lookup", "invoke", "relookup"}
NoRequest == [phase |-> "lookup", seq |-> 0, peer |-> 0, reused |-> FALSE, no |-> 0]

Init ==
    /\ stream = 0 /\ seq = 0 /\ id = 0 /\ down = FALSE
    /\ pc = "idle" /\ call = 0 /\ req = NoRequest
    /\ retry = FALSE /\ relooked = 0
    /\ opened = 0 /\ dead = 0 /\ object = 1 /\ changes = 0
    /\ wire = {} /\ inbox = << >>
    /\ sent = 0 /\ ran = [k \in 1..Calls |-> 0] /\ foreign = FALSE

(***************************************************************************)
(* How a call ends.                                                        *)
(***************************************************************************)

\* Ok, Status, Missing, Error, TimedOut: the answer goes to the caller.
Answer ==
    /\ pc' = "idle"
    /\ down' = FALSE
    /\ UNCHANGED <<retry, relooked>>

MutNotSent ==
    /\ pc' = "resolve"
    /\ relooked' = 0
    /\ UNCHANGED <<retry, down>>

\* Failure::NotSent: once more when the first stream was an old one, else the
\* ubus program.
NotSent ==
    \/ /\ retry
       /\ retry' = FALSE
       /\ relooked' = 0
       /\ pc' = "resolve"
       /\ UNCHANGED down
    \/ /\ ~retry
       /\ down' = TRUE
       /\ pc' = "cli"
       /\ UNCHANGED <<retry, relooked>>

MutFailed(failure) ==
    CASE req.phase = "lookup" -> NotSent
      [] req.phase = "relookup" -> Answer
      [] req.phase = "invoke" /\ failure \in {"not_sent", "error"} -> NotSent
      [] req.phase = "invoke" /\ failure = "timed_out" -> Answer

\* A transport failure: a lookup has no effects, so it counts as not sent; a
\* repeated lookup ends the call with the NOT_FOUND it already has.
Failed(failure) ==
    CASE req.phase = "lookup" -> NotSent
      [] req.phase = "relookup" -> Answer
      [] req.phase = "invoke" /\ failure = "not_sent" -> NotSent
      [] req.phase = "invoke" /\ failure # "not_sent" -> Answer

DropStream == stream' = 0 /\ inbox' = << >>

Reused(phase) == [phase |-> phase, seq |-> 0, peer |-> 0,
                  reused |-> stream # 0, no |-> 0]

(***************************************************************************)
(* A call.                                                                 *)
(***************************************************************************)

\* Executor::call: straight to the ubus program while the socket is down.
Begin ==
    /\ pc = "idle"
    /\ call < Calls
    /\ call' = call + 1
    /\ pc' = IF down THEN "cli" ELSE "resolve"
    /\ retry' = (stream # 0)
    /\ relooked' = 0
    /\ UNCHANGED <<stream, seq, id, down, req, ubusd, inbox, sent, ran, foreign>>

\* socket_retry has passed.
SocketRetry ==
    /\ pc = "idle" /\ down
    /\ down' = FALSE
    /\ UNCHANGED <<stream, seq, id, pc, call, req, retry, relooked, ubusd, inbox, sent, ran, foreign>>

\* Client::call: invoke with the cached id, or look it up first.
Resolve ==
    /\ pc = "resolve"
    /\ pc' = "connect"
    /\ req' = Reused(IF id = 0 THEN "lookup" ELSE "invoke")
    /\ UNCHANGED <<stream, seq, id, down, call, retry, relooked, ubusd, inbox, sent, ran, foreign>>

\* Client::connect; it may fail or meet a ubusd that does not greet.
Connect ==
    /\ pc = "connect"
    /\ \/ /\ stream # 0
          /\ pc' = "write"
          /\ UNCHANGED <<stream, opened, down, retry, relooked>>
       \/ /\ stream = 0
          /\ opened' = opened + 1
          /\ stream' = opened + 1
          /\ pc' = "write"
          /\ UNCHANGED <<down, retry, relooked>>
       \/ /\ stream = 0
          /\ Failed("not_sent")
          /\ UNCHANGED <<stream, opened>>
    /\ UNCHANGED <<seq, id, call, req, dead, object, changes, wire, inbox, sent, ran, foreign>>

\* next_seq wraps past MaxSeq to 1.
NextSeq == IF seq = MaxSeq THEN 1 ELSE seq + 1

\* The request reaches ubusd; the stream belongs to it until its reply.
Write ==
    /\ pc = "write"
    /\ stream > dead
    /\ seq' = NextSeq
    /\ sent' = sent + 1
    /\ LET peer == IF req.phase = "invoke" THEN id ELSE 0
       IN /\ req' = [req EXCEPT !.seq = NextSeq, !.peer = peer, !.no = sent + 1]
          /\ wire' = wire \cup {[stream |-> stream, seq |-> NextSeq, peer |-> peer,
                                 phase |-> req.phase, call |-> call, no |-> sent + 1]}
    /\ pc' = "read"
    /\ UNCHANGED <<stream, id, down, call, retry, relooked, opened, dead, object, changes, inbox, ran, foreign>>

\* A closed connection: nothing was delivered, and the ids are void.
WriteError ==
    /\ pc = "write"
    /\ stream <= dead
    /\ seq' = NextSeq
    /\ id' = 0
    /\ DropStream
    /\ Failed(IF req.reused THEN "not_sent" ELSE "error")
    /\ UNCHANGED <<call, req, ubusd, sent, ran, foreign>>

\* The deadline passes before the whole frame is written.
WriteTimeout ==
    /\ pc = "write"
    /\ seq' = NextSeq
    /\ DropStream
    /\ Failed("timed_out")
    /\ UNCHANGED <<id, call, req, ubusd, sent, ran, foreign>>

ReadError ==
    /\ pc = "read"
    /\ stream <= dead
    /\ id' = 0
    /\ DropStream
    /\ Failed("error")
    /\ UNCHANGED <<seq, call, req, ubusd, sent, ran, foreign>>

ReadTimeout ==
    /\ pc = "read"
    /\ DropStream
    /\ Failed("timed_out")
    /\ UNCHANGED <<seq, id, call, req, ubusd, sent, ran, foreign>>

Matches(frame) == frame.seq = req.seq /\ frame.peer = req.peer

\* What Client::lookup and Client::call make of the reply: an id to invoke, the
\* answer, or a NOT_FOUND that is worth one more lookup.
Completes(frame) ==
    \/ /\ req.phase = "lookup" /\ frame.found # 0
       /\ id' = frame.found
       /\ pc' = "connect" /\ req' = Reused("invoke")
       /\ UNCHANGED <<down, retry, relooked>>
    \/ /\ req.phase = "lookup" /\ frame.found = 0
       /\ Answer /\ UNCHANGED <<id, req>>
    \/ /\ req.phase = "invoke" /\ frame.code = "not_found" /\ relooked = 0
       /\ id' = 0
       /\ relooked' = req.peer
       /\ pc' = "connect" /\ req' = Reused("relookup")
       /\ UNCHANGED <<down, retry>>
    \/ /\ req.phase = "invoke" /\ (frame.code # "not_found" \/ relooked # 0)
       /\ Answer /\ UNCHANGED <<id, req>>
    \/ /\ req.phase = "relookup" /\ frame.found \in {0, relooked}
       /\ Answer /\ id' = frame.found /\ UNCHANGED req
    \/ /\ req.phase = "relookup" /\ frame.found \notin {0, relooked}
       /\ id' = frame.found
       /\ pc' = "connect" /\ req' = Reused("invoke")
       /\ UNCHANGED <<down, retry, relooked>>

\* The first frame that matches completes the request; what comes before it
\* is skipped.
Read ==
    /\ pc = "read"
    /\ \E k \in DOMAIN inbox :
          /\ Matches(inbox[k]) /\ \A j \in 1..(k - 1) : ~Matches(inbox[j])
          /\ inbox' = SubSeq(inbox, k + 1, Len(inbox))
          /\ foreign' = (foreign \/ inbox[k].no # req.no)
          /\ Completes(inbox[k])
    /\ UNCHANGED <<stream, seq, call, ubusd, sent, ran>>

\* The caller is dropped: a request in progress takes its stream with it.
Cancel ==
    /\ pc # "idle"
    /\ IF pc \in {"write", "read"}
       THEN DropStream
       ELSE UNCHANGED <<stream, inbox>>
    /\ pc' = "idle"
    /\ UNCHANGED <<seq, id, down, call, req, retry, relooked, ubusd, sent, ran, foreign>>

\* state::ubus_cli: a process of its own, which may fail before it is heard.
Cli ==
    /\ pc = "cli"
    /\ pc' = "idle"
    /\ ran' \in {ran} \cup
          (IF object # 0 THEN {[ran EXCEPT ![call] = @ + 1]} ELSE {})
    /\ UNCHANGED <<stream, seq, id, down, call, req, retry, relooked, ubusd, inbox, sent, foreign>>

(***************************************************************************)
(* ubusd and the service (external).                                       *)
(***************************************************************************)

Reply(m, code) == [seq |-> m.seq, peer |-> m.peer, no |-> m.no, code |-> code,
                   found |-> IF m.phase = "invoke" THEN 0 ELSE object]

Deliver(m, code) ==
    inbox' = IF m.stream = stream THEN Append(inbox, Reply(m, code)) ELSE inbox

ServiceCodes ==
    {"ok", "failed"} \cup (IF OwnNotFound THEN {"not_found"} ELSE {})

\* ubusd handles a request, however late.  Only the registered id reaches the
\* service, which may run the call and never answer.
Serve(m) ==
    /\ wire' = wire \ {m}
    /\ \/ /\ m.phase # "invoke"
          /\ Deliver(m, IF object = 0 THEN "not_found" ELSE "ok")
          /\ UNCHANGED ran
       \/ /\ m.phase = "invoke" /\ m.peer # object
          /\ Deliver(m, "not_found")
          /\ UNCHANGED ran
       \/ /\ m.phase = "invoke" /\ m.peer = object
          /\ ran' = [ran EXCEPT ![m.call] = @ + 1]
          /\ \/ \E code \in ServiceCodes : Deliver(m, code)
             \/ UNCHANGED inbox
    /\ UNCHANGED <<client, opened, dead, object, changes, sent, foreign>>

\* The service goes away, or registers under a new id.
Register(new) ==
    /\ changes < MaxChanges
    /\ changes' = changes + 1
    /\ object' = new
    /\ UNCHANGED <<client, opened, dead, wire, inbox, sent, ran, foreign>>

\* ubusd restarts: its connections close and the service registers again.
RestartUbusd ==
    /\ changes < MaxChanges
    /\ changes' = changes + 1
    /\ dead' = opened
    /\ object' = changes + 2
    /\ wire' = {}
    /\ UNCHANGED <<client, opened, inbox, sent, ran, foreign>>

ClientStep ==
    \/ Resolve \/ Connect \/ Write \/ WriteError \/ WriteTimeout
    \/ ReadError \/ ReadTimeout \/ Read \/ Cli

Next ==
    \/ Begin \/ SocketRetry \/ ClientStep \/ Cancel
    \/ \E m \in wire : Serve(m)
    \/ \E new \in {0, changes + 2} : Register(new)
    \/ RestartUbusd

Spec == Init /\ [][Next]_vars

\* A call in progress is polled, and its deadline passes in the end.
FairSpec == Spec /\ WF_vars(ClientStep)

-----------------------------------------------------------------------------
TypeOK ==
    /\ stream \in 0..opened
    /\ seq \in 0..MaxSeq
    /\ id \in 0..(changes + 1)
    /\ relooked \in 0..(changes + 1)
    /\ {down, retry, foreign} \subseteq BOOLEAN
    /\ pc \in {"idle", "resolve", "connect", "write", "read", "cli"}
    /\ call \in 0..Calls
    /\ req.phase \in Phases /\ req.seq \in 0..MaxSeq
    /\ dead \in 0..opened
    /\ ran \in [1..Calls -> Nat]

\* A call runs at most once on the device: no retry on a fresh connection, no
\* repeated lookup and no fallback to the ubus program follows a request that
\* the service may have run.
AtMostOnce == \A k \in 1..Calls : ran[k] <= 1

\* A reply is only ever taken for an answer to its own request, also after
\* timeouts and cancellations and when the sequence numbers wrap.
ReplyIsOwn == ~foreign

\* A call has one effect and gets its own answer.
CallSafe == AtMostOnce /\ ReplyIsOwn

\* Every call comes to an end, whatever ubusd does.
CallEnds == pc # "idle" ~> pc = "idle"

(***************************************************************************)
(* Proofs.  A connection carries one request at a time and is dropped with *)
(* an unanswered one, so what is on a stream belongs to the request in     *)
(* progress, whatever its sequence number; and a request that may have     *)
(* reached the service ends its call.                                      *)
(***************************************************************************)

Message == [stream : Nat, seq : Nat, peer : Nat, phase : Phases, call : Nat, no : Nat]
Request == [phase : Phases, seq : Nat, peer : Nat, reused : BOOLEAN, no : Nat]
Frame == [seq : Nat, peer : Nat, no : Nat, code : {"ok", "failed", "not_found"}, found : Nat]

Types ==
    /\ stream \in Nat /\ seq \in Nat /\ id \in Nat /\ relooked \in Nat
    /\ opened \in Nat /\ dead \in Nat /\ object \in Nat /\ changes \in Nat /\ sent \in Nat
    /\ pc \in {"idle", "resolve", "connect", "write", "read", "cli"}
    /\ call \in 0..Calls /\ (pc # "idle" => call # 0)
    /\ req \in Request
    /\ wire \subseteq Message
    /\ inbox \in Seq(Frame)
    /\ ran \in [1..Calls -> Nat]

\* Between two requests the stream is quiet; during one it holds the request
\* or the reply to it.
OneAtATime ==
    /\ stream <= opened
    /\ \A m \in wire : m.stream \in 1..opened
    /\ pc # "read" => inbox = << >> /\ \A m \in wire : m.stream # stream
    /\ pc = "read" =>
          /\ stream # 0
          /\ Len(inbox) <= 1
          /\ \A k \in DOMAIN inbox : inbox[k].no = req.no
          /\ \A m \in wire : m.stream = stream =>
                /\ inbox = << >>
                /\ m.no = req.no /\ m.phase = req.phase /\ m.call = call
          /\ \A m, n \in wire : m.stream = stream /\ n.stream = stream => m = n

StreamInv == Types /\ OneAtATime /\ ~foreign

\* Invocations on the wire.
Invokes == {m \in wire : m.phase = "invoke"}

\* The service has not run call k, and nothing on the wire will make it.
Fresh(k) == ran[k] = 0 /\ \A m \in Invokes : m.call # k

\* A call is fresh until its invocation is written, and again once ubusd has
\* said that nothing took it.
EffectInv ==
    /\ \A k \in 1..Calls : ran[k] <= 1
    /\ \A m \in Invokes : m.call \in 1..call /\ ran[m.call] = 0
    /\ \A m, n \in Invokes : m.call = n.call => m = n
    /\ \A k \in 1..Calls : k > call => Fresh(k)
    /\ pc \in {"resolve", "connect", "write", "cli"} => Fresh(call)
    /\ pc = "read" /\ req.phase # "invoke" => Fresh(call)
    /\ pc = "read" =>
          \A k \in DOMAIN inbox : inbox[k].code = "not_found" => Fresh(call)

\* A transport failure ends the call, repeats it or leaves it to the ubus
\* program; a sent invocation is not repeated.
LEMMA FailedShape ==
    ASSUME Types, NEW failure, Failed(failure)
    PROVE  /\ pc' \in {"idle", "resolve", "cli"}
           /\ req.phase = "invoke" /\ failure # "not_sent" => pc' = "idle"
           /\ relooked' \in Nat
<1>1. req.phase \in Phases
  BY DEF Types, Request
<1>2. CASE req.phase = "lookup"
  BY <1>2 DEF Failed, NotSent, Types
<1>3. CASE req.phase = "relookup"
  BY <1>3 DEF Failed, Answer, Types
<1>4. CASE req.phase = "invoke" /\ failure = "not_sent"
  BY <1>4 DEF Failed, NotSent, Types
<1>5. CASE req.phase = "invoke" /\ failure # "not_sent"
  BY <1>5 DEF Failed, Answer, Types
<1> QED
  BY <1>1, <1>2, <1>3, <1>4, <1>5 DEF Phases

\* Beginning, resolving, dropping and the external changes of ids.
LEMMA QuietStep ==
    ASSUME StreamInv, Begin \/ SocketRetry \/ Resolve \/ Cancel \/ Cli
    PROVE  StreamInv'
<1> USE UbusAssumption DEF StreamInv, Types, OneAtATime
<1>1. CASE Begin
  <2>1. UNCHANGED <<stream, seq, id, req, opened, dead, object, changes, wire, inbox, sent, ran, foreign>>
    BY <1>1 DEF Begin, ubusd
  <2>2. /\ pc = "idle" /\ pc' \in {"resolve", "cli"} /\ relooked' = 0
        /\ call' \in 0..Calls /\ call' # 0
    BY <1>1 DEF Begin
  <2> QED
    BY <2>1, <2>2
<1>2. CASE SocketRetry
  BY <1>2 DEF SocketRetry, ubusd
<1>3. CASE Resolve
  <2>1. req' \in Request
    BY <1>3 DEF Resolve, Reused, Phases, Request
  <2> QED
    BY <1>3, <2>1 DEF Resolve, ubusd
<1>4. CASE Cancel
  <2>1. /\ UNCHANGED <<seq, id, relooked, call, req, opened, dead, object, changes, wire, sent, ran, foreign>>
        /\ pc' = "idle"
    BY <1>4 DEF Cancel, ubusd
  <2>2. CASE pc \in {"write", "read"}
    BY <1>4, <2>1, <2>2 DEF Cancel, DropStream
  <2>3. CASE pc \notin {"write", "read"}
    BY <1>4, <2>1, <2>3 DEF Cancel
  <2> QED
    BY <2>2, <2>3
<1>5. CASE Cli
  <2>1. ran' = ran \/ ran' = [ran EXCEPT ![call] = @ + 1]
    BY <1>5 DEF Cli
  <2>2. ran' \in [1..Calls -> Nat]
    BY <1>5, <2>1 DEF Cli
  <2> QED
    BY <1>5, <2>2 DEF Cli, ubusd
<1> QED
  BY <1>1, <1>2, <1>3, <1>4, <1>5

\* A stream that is dropped leaves nothing that could be read later.
LEMMA DropStep ==
    ASSUME StreamInv, WriteError \/ WriteTimeout \/ ReadError \/ ReadTimeout
    PROVE  StreamInv'
<1> USE DEF StreamInv
<1>1. pc' \in {"idle", "resolve", "cli"} /\ relooked' \in Nat
  <2>1. PICK failure : Failed(failure)
    BY DEF WriteError, WriteTimeout, ReadError, ReadTimeout
  <2> QED
    BY <2>1, FailedShape
<1>2. stream' = 0 /\ inbox' = << >>
  BY DEF WriteError, WriteTimeout, ReadError, ReadTimeout, DropStream
<1>3. seq' \in Nat /\ id' \in Nat
  BY DEF WriteError, WriteTimeout, ReadError, ReadTimeout, NextSeq, Types
<1>4. UNCHANGED <<call, req, opened, dead, object, changes, wire, sent, ran, foreign>> /\ pc # "idle"
  BY DEF WriteError, WriteTimeout, ReadError, ReadTimeout, ubusd
<1>5. Types'
  BY <1>1, <1>2, <1>3, <1>4 DEF Types
<1> QED
  BY <1>1, <1>2, <1>4, <1>5 DEF OneAtATime, Types

\* A new connection has a number that no request on the wire carries.
LEMMA ConnectStep ==
    ASSUME StreamInv, Connect
    PROVE  StreamInv'
<1> USE DEF StreamInv
<1>1. /\ UNCHANGED <<seq, id, call, req, dead, object, changes, wire, inbox, sent, ran, foreign>>
      /\ pc = "connect"
  BY DEF Connect
<1>2. CASE stream # 0 /\ pc' = "write" /\ UNCHANGED <<stream, opened, relooked>>
  BY <1>1, <1>2 DEF Types, OneAtATime
<1>3. CASE /\ stream = 0 /\ opened' = opened + 1 /\ stream' = opened + 1
           /\ pc' = "write" /\ UNCHANGED relooked
  <2>1. Types'
    BY <1>1, <1>3 DEF Types
  <2>2. \A m \in wire : m.stream \in 1..opened' /\ m.stream # stream'
    BY <1>3 DEF Types, OneAtATime
  <2> QED
    BY <1>1, <1>3, <2>1, <2>2 DEF Types, OneAtATime
<1>4. CASE stream = 0 /\ Failed("not_sent") /\ UNCHANGED <<stream, opened>>
  <2>1. pc' \in {"idle", "resolve", "cli"} /\ relooked' \in Nat
    BY <1>4, FailedShape
  <2> QED
    BY <1>1, <1>4, <2>1 DEF Types, OneAtATime
<1> QED
  BY <1>2, <1>3, <1>4 DEF Connect

\* The request is alone on its stream.
LEMMA WriteStep ==
    ASSUME StreamInv, Write
    PROVE  StreamInv'
<1> USE DEF StreamInv
<1> DEFINE peer == IF req.phase = "invoke" THEN id ELSE 0
           new == [stream |-> stream, seq |-> NextSeq, peer |-> peer,
                   phase |-> req.phase, call |-> call, no |-> sent + 1]
           r == [req EXCEPT !.seq = NextSeq, !.peer = peer, !.no = sent + 1]
<1>1. /\ UNCHANGED <<stream, id, call, relooked, opened, dead, object, changes, inbox, ran, foreign>>
      /\ pc = "write" /\ pc' = "read" /\ sent' = sent + 1 /\ seq' = NextSeq
      /\ wire' = wire \cup {new} /\ stream > dead
      /\ req' = r
  BY DEF Write
<1>2. NextSeq \in Nat /\ peer \in Nat
  BY DEF NextSeq, Types
<1>3. req.phase \in Phases
  BY DEF Types, Request
<1>4. new \in Message /\ new.no = sent + 1 /\ new.phase = req.phase /\ new.call = call
      /\ new.stream = stream
  BY <1>2, <1>3 DEF Message, Types
<1> HIDE DEF new, peer
<1>5. r \in Request /\ r.no = sent + 1 /\ r.phase = req.phase
  <2>1. req \in Request /\ sent + 1 \in Nat
    BY DEF Types
  <2>2. r \in Request
    BY <1>2, <2>1 DEF Request
  <2>3. r.no = sent + 1
    BY <2>1 DEF Request
  <2>4. r.phase = req.phase
    BY <2>1 DEF Request
  <2> QED
    BY <2>2, <2>3, <2>4
<1> HIDE DEF r
<1>6. Types'
  BY <1>1, <1>2, <1>4, <1>5 DEF Types
<1>7. stream # 0
  BY <1>1 DEF Types, OneAtATime
<1> QED
  BY <1>1, <1>4, <1>5, <1>6, <1>7 DEF OneAtATime, Types

\* What a frame that completes the request leads to.
ReadEnds(frame) ==
    /\ id' \in Nat /\ relooked' \in Nat /\ req' \in Request
    /\ pc' \in {"idle", "connect"}
    /\ pc' = "connect" /\ req.phase = "invoke" => frame.code = "not_found"

\* Only a NOT_FOUND keeps a call with a sent invocation going.
LEMMA ReadShape ==
    ASSUME Types, NEW frame \in Frame, Completes(frame)
    PROVE  ReadEnds(frame)
<1>1. frame.found \in Nat
  BY DEF Frame
<1>2. req.peer \in Nat /\ id \in Nat /\ relooked \in Nat /\ req \in Request
  BY DEF Types, Request
<1>3. Reused("invoke") \in Request /\ Reused("relookup") \in Request
  BY DEF Reused, Request, Phases
<1> QED
  BY <1>1, <1>2, <1>3 DEF Completes, Answer, ReadEnds

\* The only frame of a stream is the reply to its request.
LEMMA ReadStep ==
    ASSUME StreamInv, Read
    PROVE  StreamInv'
<1> USE DEF StreamInv
<1>1. /\ pc = "read"
      /\ UNCHANGED <<stream, seq, call, opened, dead, object, changes, wire, sent, ran>>
  BY DEF Read, ubusd
<1>2. PICK k \in DOMAIN inbox :
        /\ inbox' = SubSeq(inbox, k + 1, Len(inbox))
        /\ foreign' = (foreign \/ inbox[k].no # req.no)
        /\ ReadEnds(inbox[k])
  <2>1. \A k \in DOMAIN inbox : inbox[k] \in Frame
    BY DEF Types
  <2> QED
    BY <2>1, ReadShape DEF Read
<1>3. k = 1 /\ Len(inbox) = 1
  <2>1. inbox \in Seq(Frame) /\ Len(inbox) <= 1
    BY <1>1 DEF OneAtATime, Types
  <2>2. DOMAIN inbox = 1..Len(inbox) /\ Len(inbox) \in Nat
    BY <2>1
  <2> QED
    BY <2>1, <2>2
<1>4. inbox' = << >>
  BY <1>2, <1>3 DEF Types
<1>5. ~foreign'
  BY <1>1, <1>2 DEF OneAtATime
<1>6. \A m \in wire : m.stream # stream
  <2>1. inbox # << >>
    BY <1>3
  <2> QED
    BY <1>1, <2>1 DEF OneAtATime
<1>7. Types'
  BY <1>1, <1>2, <1>4 DEF Types, ReadEnds
<1>8. pc' # "read"
  BY <1>2 DEF ReadEnds
<1> QED
  BY <1>1, <1>4, <1>5, <1>6, <1>7, <1>8 DEF OneAtATime

\* ubusd answers on the stream the request came from, if it is still open.
LEMMA ServeStep ==
    ASSUME StreamInv, NEW m \in wire, Serve(m)
    PROVE  StreamInv'
<1> USE DEF StreamInv
<1>1. /\ UNCHANGED <<stream, seq, id, pc, call, req, relooked, opened, dead, object, changes, sent, foreign>>
      /\ wire' = wire \ {m}
  BY DEF Serve, client
<1>2. m \in Message /\ m.stream # 0
  BY DEF Types, OneAtATime
<1>3. ran' \in [1..Calls -> Nat]
  BY DEF Serve, Types
<1>4. inbox' = inbox \/ \E code \in {"ok", "failed", "not_found"} : Deliver(m, code)
  BY DEF Serve, ServiceCodes
<1>5. CASE inbox' = inbox
  <2>1. Types'
    BY <1>1, <1>3, <1>5 DEF Types
  <2> QED
    BY <1>1, <1>5, <2>1 DEF OneAtATime
<1>6. ASSUME NEW code \in {"ok", "failed", "not_found"}, Deliver(m, code), inbox' # inbox
      PROVE  StreamInv'
  <2>1. m.stream = stream /\ inbox' = Append(inbox, Reply(m, code))
    BY <1>6 DEF Deliver
  <2>2. pc = "read" /\ inbox = << >> /\ m.no = req.no
    BY <2>1 DEF OneAtATime
  <2>3. Reply(m, code) \in Frame /\ Reply(m, code).no = m.no
    BY <1>2 DEF Reply, Frame, Message, Types
  <2>4. inbox' = <<Reply(m, code)>>
    BY <2>1, <2>2
  <2>5. inbox' \in Seq(Frame) /\ Len(inbox') = 1 /\ inbox'[1] = Reply(m, code)
    BY <2>3, <2>4
  <2>6. \A n \in wire' : n.stream # stream
    BY <1>1, <2>1, <2>2 DEF OneAtATime
  <2>7. Types'
    BY <1>1, <1>3, <2>5 DEF Types
  <2>8. \A k \in DOMAIN inbox' : inbox'[k].no = req'.no
    BY <1>1, <2>2, <2>3, <2>5
  <2> QED
    BY <1>1, <2>2, <2>5, <2>6, <2>7, <2>8 DEF OneAtATime
<1> QED
  BY <1>4, <1>5, <1>6

\* A service that registers, and a ubusd that starts again.
LEMMA ChangeStep ==
    ASSUME StreamInv, (\E new \in {0, changes + 2} : Register(new)) \/ RestartUbusd
    PROVE  StreamInv'
<1> USE DEF StreamInv
<1>1. /\ UNCHANGED <<stream, seq, id, pc, call, req, relooked, opened, inbox, sent, ran, foreign>>
      /\ changes' = changes + 1 /\ dead' \in {dead, opened}
      /\ object' \in {0, changes + 2}
      /\ wire' \subseteq wire
  BY DEF Register, RestartUbusd, client
<1>2. Types'
  BY <1>1 DEF Types
<1> QED
  BY <1>1, <1>2 DEF OneAtATime

\* Every step keeps the streams in order.
LEMMA StepStream ==
    ASSUME StreamInv, [Next]_vars
    PROVE  StreamInv'
<1>1. CASE UNCHANGED vars
  BY <1>1 DEF vars, client, ubusd, StreamInv, Types, OneAtATime
<1> QED
  BY <1>1, QuietStep, DropStep, ConnectStep, WriteStep, ReadStep, ServeStep, ChangeStep
     DEF Next, ClientStep

\* A reply is only ever taken for the answer to its own request
\* (Client::request drops its stream with an unanswered request), for any
\* number of calls and sequence numbers, whatever ubusd and the services do.
THEOREM ReplyIsOwnHolds == Spec => []ReplyIsOwn
<1>1. Init => StreamInv
  BY UbusAssumption DEF Init, StreamInv, Types, OneAtATime, NoRequest, Request, Phases
<1>2. StreamInv /\ [Next]_vars => StreamInv'
  BY StepStream
<1>3. StreamInv => ReplyIsOwn
  BY DEF StreamInv, ReplyIsOwn
<1> QED
  BY <1>1, <1>2, <1>3, PTL DEF Spec

(***************************************************************************)
(* One effect.                                                             *)
(***************************************************************************)

EffectState == StreamInv /\ EffectInv

\* Steps that send no invocation and handle none: a call in progress that goes
\* on is as fresh as before.
LEMMA StillFresh ==
    ASSUME EffectState, Types', call' = call, wire' \subseteq wire, ran' = ran,
           pc' \in {"resolve", "connect", "write", "cli"} => Fresh(call),
           pc' # "read" \/ (pc = "read" /\ inbox' = inbox /\ req' = req)
    PROVE  EffectInv'
<1> USE DEF EffectState
<1>1. Invokes' \subseteq Invokes
  BY DEF Invokes
<1>2. \A k \in 1..Calls : Fresh(k) => Fresh(k)'
  BY <1>1 DEF Fresh
<1>3. call \in 1..Calls /\ Fresh(call) => Fresh(call)'
  BY <1>1 DEF Fresh
<1>4. pc' # "idle" => call \in 1..Calls
  BY DEF Types
<1>5. /\ \A k \in 1..Calls : ran'[k] <= 1
      /\ \A m \in Invokes' : m.call \in 1..call' /\ ran'[m.call] = 0
      /\ \A m, n \in Invokes' : m.call = n.call => m = n
  BY <1>1 DEF EffectInv
<1>6. \A k \in 1..Calls : k > call' => Fresh(k)'
  BY <1>2 DEF EffectInv
<1>7. pc' \in {"resolve", "connect", "write", "cli"} => Fresh(call)'
  BY <1>3, <1>4
<1>8. pc' = "read" => pc = "read" /\ inbox' = inbox /\ req' = req
  OBVIOUS
<1>9. /\ pc' = "read" /\ req'.phase # "invoke" => Fresh(call)'
      /\ pc' = "read" =>
          \A k \in DOMAIN inbox' : inbox'[k].code = "not_found" => Fresh(call)'
  BY <1>3, <1>4, <1>8 DEF EffectInv
<1> QED
  BY <1>5, <1>6, <1>7, <1>9 DEF EffectInv

\* A transport failure is followed by another attempt only while the call is
\* fresh.
LEMMA DropFresh ==
    ASSUME EffectState, WriteError \/ WriteTimeout \/ ReadError \/ ReadTimeout
    PROVE  EffectInv'
<1> USE DEF EffectState
<1>1. Types' /\ pc' # "read"
  <2>1. PICK failure : Failed(failure)
    BY DEF WriteError, WriteTimeout, ReadError, ReadTimeout
  <2> QED
    BY <2>1, FailedShape, DropStep DEF StreamInv
<1>2. call' = call /\ wire' = wire /\ ran' = ran
  BY DEF WriteError, WriteTimeout, ReadError, ReadTimeout, ubusd
<1>3. CASE pc = "write"
  <2>1. Fresh(call)
    BY <1>3 DEF EffectInv
  <2> QED
    BY <1>1, <1>2, <2>1, StillFresh
<1>4. CASE pc # "write"
  <2>1. pc = "read" /\ (Failed("error") \/ Failed("timed_out"))
    BY <1>4 DEF WriteError, WriteTimeout, ReadError, ReadTimeout
  <2>2. req.phase = "invoke" => pc' = "idle"
    BY <2>1, FailedShape DEF StreamInv
  <2>3. pc' \in {"resolve", "connect", "write", "cli"} => Fresh(call)
    BY <2>1, <2>2 DEF EffectInv
  <2> QED
    BY <1>1, <1>2, <2>3, StillFresh
<1> QED
  BY <1>3, <1>4

\* A reply to an invocation keeps the call going only if nothing ran it.
LEMMA ReadFresh ==
    ASSUME EffectState, Read
    PROVE  EffectInv'
<1> USE DEF EffectState
<1>1. pc = "read" /\ call' = call /\ wire' = wire /\ ran' = ran
  BY DEF Read, ubusd
<1>2. PICK k \in DOMAIN inbox : inbox[k] \in Frame /\ Completes(inbox[k])
  BY DEF Read, StreamInv, Types
<1>3. ReadEnds(inbox[k])
  BY <1>2, ReadShape DEF StreamInv
<1>4. pc' \in {"resolve", "connect", "write", "cli"} => Fresh(call)
  BY <1>1, <1>2, <1>3 DEF ReadEnds, EffectInv
<1>5. Types' /\ pc' # "read"
  BY <1>3, ReadStep DEF StreamInv, ReadEnds
<1> QED
  BY <1>1, <1>4, <1>5, StillFresh

\* The steps between requests, and those of ubusd that handle none.
LEMMA QuietFresh ==
    ASSUME EffectState,
           \/ SocketRetry \/ Resolve \/ Connect \/ Cancel \/ RestartUbusd
           \/ \E new \in {0, changes + 2} : Register(new)
    PROVE  EffectInv'
<1> USE DEF EffectState
<1>1. Types'
  BY QuietStep, ConnectStep, ChangeStep DEF StreamInv
<1>2. call' = call /\ wire' \subseteq wire /\ ran' = ran
  BY DEF SocketRetry, Resolve, Connect, Cancel, RestartUbusd, Register, client, ubusd
<1>3. CASE SocketRetry \/ Cancel
  <2>1. pc' = "idle"
    BY <1>3 DEF SocketRetry, Cancel
  <2> QED
    BY <1>1, <1>2, <2>1, StillFresh
<1>4. CASE Resolve \/ Connect
  <2>1. pc \in {"resolve", "connect"}
    BY <1>4 DEF Resolve, Connect
  <2>2. pc' # "read"
    BY <1>4, FailedShape DEF Resolve, Connect, StreamInv
  <2>3. Fresh(call)
    BY <2>1 DEF EffectInv
  <2> QED
    BY <1>1, <1>2, <2>2, <2>3, StillFresh
<1>5. CASE RestartUbusd \/ \E new \in {0, changes + 2} : Register(new)
  <2>1. pc' = pc /\ inbox' = inbox /\ req' = req
    BY <1>5 DEF RestartUbusd, Register, client
  <2>2. pc' \in {"resolve", "connect", "write", "cli"} => Fresh(call)
    BY <2>1 DEF EffectInv
  <2> QED
    BY <1>1, <1>2, <2>1, <2>2, StillFresh
<1> QED
  BY <1>3, <1>4, <1>5

\* A new call is fresh, as calls are numbered upwards.
LEMMA BeginFresh ==
    ASSUME EffectState, Begin
    PROVE  EffectInv'
<1> USE DEF EffectState
<1>1. /\ wire' = wire /\ ran' = ran /\ call' = call + 1 /\ call < Calls
      /\ pc' \in {"resolve", "cli"}
  BY DEF Begin, ubusd
<1>2. Invokes' = Invokes
  BY <1>1 DEF Invokes
<1>3. call + 1 \in 1..Calls
  BY <1>1, UbusAssumption DEF StreamInv, Types
<1>4. Fresh(call)' /\ \A k \in 1..Calls : k > call' => Fresh(k)'
  BY <1>1, <1>2, <1>3 DEF EffectInv, Fresh, StreamInv, Types
<1>5. \A m \in Invokes' : m.call \in 1..call' /\ ran'[m.call] = 0
  BY <1>1, <1>2 DEF EffectInv, StreamInv, Types
<1> QED
  BY <1>1, <1>2, <1>4, <1>5 DEF EffectInv

\* The one invocation of a fresh call.
LEMMA WriteFresh ==
    ASSUME EffectState, Write
    PROVE  EffectInv'
<1> USE DEF EffectState
<1>1. PICK new \in Message :
        /\ wire' = wire \cup {new} /\ new.call = call /\ new.phase = req.phase
  BY WriteStep DEF Write, StreamInv, Types
<1>2. /\ pc = "write" /\ pc' = "read" /\ call' = call /\ ran' = ran /\ inbox' = << >>
      /\ call \in 1..Calls /\ Fresh(call)
  BY DEF Write, StreamInv, Types, OneAtATime, EffectInv
<1>3. req'.phase = req.phase
  <2>1. req' = [req EXCEPT !.seq = NextSeq, !.peer = IF req.phase = "invoke" THEN id ELSE 0,
                           !.no = sent + 1]
    BY DEF Write
  <2>2. req \in Request
    BY DEF StreamInv, Types
  <2> QED
    BY <2>1, <2>2 DEF Request
<1>4. Invokes' = IF req.phase = "invoke" THEN Invokes \cup {new} ELSE Invokes
  BY <1>1 DEF Invokes
<1>5. /\ \A m \in Invokes' : m.call \in 1..call' /\ ran'[m.call] = 0
      /\ \A m, n \in Invokes' : m.call = n.call => m = n
  BY <1>1, <1>2, <1>4 DEF EffectInv, Fresh, StreamInv, Types
<1>6. \A k \in 1..Calls : k > call' => Fresh(k)'
  BY <1>1, <1>2, <1>4 DEF EffectInv, Fresh, StreamInv, Types
<1>7. req'.phase # "invoke" => Fresh(call)'
  BY <1>2, <1>3, <1>4 DEF Fresh
<1>8. DOMAIN inbox' = {}
  BY <1>2
<1>9. \A k \in 1..Calls : ran'[k] <= 1
  BY <1>2 DEF EffectInv
<1> QED
  BY <1>2, <1>5, <1>6, <1>7, <1>8, <1>9 DEF EffectInv

\* The ubus program runs a call that nothing else has run or will run.
LEMMA CliFresh ==
    ASSUME EffectState, Cli
    PROVE  EffectInv'
<1> USE DEF EffectState
<1>1. /\ pc = "cli" /\ pc' = "idle" /\ wire' = wire /\ call' = call
      /\ call \in 1..Calls /\ Fresh(call) /\ ran \in [1..Calls -> Nat]
  BY DEF Cli, ubusd, EffectInv, StreamInv, Types
<1>2. ran' = ran \/ ran' = [ran EXCEPT ![call] = @ + 1]
  BY DEF Cli
<1>3. \A k \in 1..Calls : k # call => ran'[k] = ran[k]
  BY <1>1, <1>2
<1>4. ran'[call] <= 1
  <2>1. ran[call] = 0
    BY <1>1 DEF Fresh
  <2>2. ran'[call] \in {0, 0 + 1}
    BY <1>1, <1>2, <2>1
  <2> QED
    BY <2>2
<1>5. Invokes' = Invokes /\ \A m \in Invokes : m.call # call
  BY <1>1 DEF Invokes, Fresh
<1>6. \A m \in Invokes' : m.call \in 1..call' /\ ran'[m.call] = 0
  <2>1. \A m \in Invokes : m.call \in 1..call /\ m.call \in 1..Calls /\ ran[m.call] = 0
    BY <1>1, UbusAssumption DEF EffectInv
  <2> QED
    BY <1>1, <1>3, <1>5, <2>1
<1>7. \A k \in 1..Calls : k > call' => Fresh(k)'
  BY <1>1, <1>3, <1>5 DEF EffectInv, Fresh
<1> QED
  BY <1>1, <1>3, <1>4, <1>5, <1>6, <1>7 DEF EffectInv

\* A service runs a call from its one invocation.
LEMMA ServeFresh ==
    ASSUME EffectState, ~OwnNotFound, NEW m \in wire, Serve(m)
    PROVE  EffectInv'
<1> USE DEF EffectState
<1>1. /\ UNCHANGED <<stream, pc, call, req>> /\ wire' = wire \ {m}
      /\ ran \in [1..Calls -> Nat] /\ call \in 0..Calls
  BY DEF Serve, client, StreamInv, Types
<1>2. Invokes' = Invokes \ {m}
  BY <1>1 DEF Invokes
<1>3. StreamInv'
  BY ServeStep
<1>4. CASE m \notin Invokes \/ m.peer # object
  <2>1. ran' = ran
    BY <1>4 DEF Serve, Invokes
  <2>2. \A k \in 0..Calls : Fresh(k) => Fresh(k)'
    BY <1>2, <2>1 DEF Fresh
  <2>3. Fresh(call) => Fresh(call)'
    BY <1>1, <1>2, <2>1 DEF Fresh
  <2>4. m \in Invokes => m.call \in 1..call /\ ran[m.call] = 0 /\ \A n \in Invokes' : n.call # m.call
    BY <1>2 DEF EffectInv
  <2>5. inbox' # inbox => m.stream = stream /\ \E code : inbox' = Append(inbox, Reply(m, code))
    BY DEF Serve, Deliver
  <2>6. ASSUME pc' = "read", NEW k \in DOMAIN inbox', inbox'[k].code = "not_found"
        PROVE  Fresh(call)'
    <3>1. CASE inbox' = inbox
      BY <1>1, <2>3, <2>6, <3>1 DEF EffectInv
    <3>2. CASE inbox' # inbox
      <4>1. m.call = call /\ m.phase = req.phase
        BY <1>1, <2>5, <2>6, <3>2 DEF StreamInv, OneAtATime
      <4>2. CASE m \in Invokes
        BY <1>1, <2>1, <2>4, <4>1, <4>2 DEF Fresh
      <4>3. CASE m \notin Invokes
        BY <1>1, <2>3, <2>6, <4>1, <4>3 DEF EffectInv, Invokes
      <4> QED
        BY <4>2, <4>3
    <3> QED
      BY <3>1, <3>2
  <2>7. /\ \A k \in 1..Calls : ran'[k] <= 1
        /\ \A n \in Invokes' : n.call \in 1..call' /\ ran'[n.call] = 0
        /\ \A n, o \in Invokes' : n.call = o.call => n = o
        /\ \A k \in 1..Calls : k > call' => Fresh(k)'
    BY <1>1, <1>2, <2>1, <2>2 DEF EffectInv
  <2> QED
    BY <1>1, <2>3, <2>6, <2>7 DEF EffectInv
<1>5. CASE m \in Invokes /\ m.peer = object
  <2>1. /\ ran' = [ran EXCEPT ![m.call] = @ + 1]
        /\ inbox' = inbox \/ \E code \in ServiceCodes : Deliver(m, code)
    BY <1>5 DEF Serve, Invokes
  <2>2. m.call \in 1..call /\ ran[m.call] = 0 /\ \A n \in Invokes' : n.call # m.call
    BY <1>2, <1>5 DEF EffectInv
  <2>3. m.call \in 1..Calls /\ \A k \in 1..Calls : ran'[k] = IF k = m.call THEN 1 ELSE ran[k]
    <3>1. m.call \in 1..Calls
      BY <1>1, <2>2, UbusAssumption
    <3>2. 0 + 1 = 1
      OBVIOUS
    <3> QED
      BY <1>1, <2>1, <2>2, <3>1, <3>2
  <2>4. \A k \in 1..Calls : Fresh(k) => Fresh(k)'
    BY <1>2, <1>5, <2>3 DEF Fresh
  <2>5. Fresh(call) /\ pc # "idle" => Fresh(call)'
    BY <1>1, <1>2, <1>5, <2>3 DEF Fresh, StreamInv, Types
  <2>6. ASSUME pc' = "read", NEW k \in DOMAIN inbox', inbox'[k].code = "not_found"
        PROVE  Fresh(call)'
    <3>1. CASE inbox' = inbox
      BY <1>1, <2>5, <2>6, <3>1 DEF EffectInv
    <3>2. CASE inbox' # inbox
      <4>1. PICK code \in {"ok", "failed"} :
              m.stream = stream /\ inbox' = Append(inbox, Reply(m, code))
        BY <2>1, <3>2 DEF Deliver, ServiceCodes
      <4>2. inbox = << >>
        BY <1>1, <2>6, <4>1 DEF StreamInv, OneAtATime
      <4>3. inbox'[k] = Reply(m, code)
        BY <2>6, <4>1, <4>2
      <4> QED
        BY <2>6, <4>3 DEF Reply
    <3> QED
      BY <3>1, <3>2
  <2>7. /\ \A k \in 1..Calls : ran'[k] <= 1
        /\ \A n \in Invokes' : n.call \in 1..call' /\ ran'[n.call] = 0
        /\ \A n, o \in Invokes' : n.call = o.call => n = o
        /\ \A k \in 1..Calls : k > call' => Fresh(k)'
    <3>1. \A n \in Invokes' : n \in Invokes /\ n.call \in 1..Calls /\ n.call \in 1..call
      BY <1>1, <1>2, UbusAssumption DEF EffectInv
    <3>2. \A n \in Invokes' : ran'[n.call] = 0
      BY <2>2, <2>3, <3>1 DEF EffectInv
    <3>3. \A k \in 1..Calls : ran'[k] <= 1
      BY <2>3 DEF EffectInv
    <3> QED
      BY <1>1, <2>4, <3>1, <3>2, <3>3 DEF EffectInv
  <2> QED
    BY <1>1, <2>5, <2>6, <2>7 DEF EffectInv
<1> QED
  BY <1>4, <1>5

\* Every step, if no service answers NOT_FOUND to a call it has run.
LEMMA StepEffect ==
    ASSUME EffectState, ~OwnNotFound, [Next]_vars
    PROVE  EffectState'
<1>1. StreamInv'
  BY StepStream DEF EffectState
<1>2. CASE UNCHANGED vars
  BY <1>2 DEF vars, client, ubusd, EffectState, StreamInv, Types, OneAtATime, EffectInv,
              Fresh, Invokes
<1> QED
  BY <1>1, <1>2, DropFresh, ReadFresh, QuietFresh, BeginFresh, WriteFresh, CliFresh, ServeFresh
     DEF Next, ClientStep, EffectState

\* A call has one effect at most and gets its own answer (Executor::call,
\* Client::call and Client::request): no retry, no second lookup and no
\* fallback to the ubus program follows a request that the service may have
\* run.  The hypothesis is about the services: one that runs a call and then
\* answers NOT_FOUND itself is asked twice.
THEOREM CallSafeHolds == ~OwnNotFound => (Spec => []CallSafe)
<1> SUFFICES ASSUME ~OwnNotFound
             PROVE  Spec => []CallSafe
  OBVIOUS
<1>1. Init => EffectState
  <2>1. Init => StreamInv
    BY UbusAssumption DEF Init, StreamInv, Types, OneAtATime, NoRequest, Request, Phases
  <2> QED
    BY <2>1, UbusAssumption DEF Init, EffectState, EffectInv, Fresh, Invokes
<1>2. EffectState /\ [Next]_vars => EffectState'
  BY StepEffect
<1>3. EffectState => CallSafe
  BY DEF EffectState, StreamInv, EffectInv, CallSafe, AtMostOnce, ReplyIsOwn
<1> QED
  BY <1>1, <1>2, <1>3, PTL DEF Spec
=============================================================================
