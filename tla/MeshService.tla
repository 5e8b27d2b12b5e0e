----------------------------- MODULE MeshService -----------------------------
(***************************************************************************)
(* The data channel of a direct session (mesh/service.rs): the browser     *)
(* multiplexes HTTP requests over it, one job each.  Request bodies are    *)
(* queued in memory under one budget for the session, responses flow under *)
(* a window of unacknowledged bytes, and every frame goes out through one  *)
(* bounded channel.  Bytes are counted in pieces.                          *)
(***************************************************************************)
EXTENDS Naturals, FiniteSets

CONSTANTS
    Ids,           \* request ids the browser uses; an id may be used again
    MaxInFlight,
    Window,        \* unacknowledged response pieces
    MaxBuffered,   \* request pieces in memory
    OutCap,        \* frames in the out channel
    MaxBody,       \* bound: pieces of a request or a response body
    MaxJobs,       \* bound: requests opened
    MaxFrames      \* bound: frames the browser sends

VARIABLES
    flight,    \* flight[i]: the entry of flights, or none; its job, 0 for none
    job,       \* job[j]: the task of the jth request that was opened
    buffered,  \* the session's budget in use
    out,       \* frames in the out channel
    frames     \* frames the browser has sent

vars == <<flight, job, buffered, out, frames>>

Jobs == 1..MaxJobs
NoFlight == [job |-> 0, received |-> 0, expected |-> 0]
NoJob == [step |-> "none", held |-> 0, queue |-> 0, open |-> FALSE, sent |-> 0, acked |-> 0, cancelled |-> FALSE]

Sends == frames < MaxFrames /\ frames' = frames + 1

\* retain: the entries whose job is done go when the next frame arrives.
Kept == [i \in Ids |-> IF flight[i].job # 0 /\ job[flight[i].job].step = "ended" THEN NoFlight ELSE flight[i]]
InFlight == {i \in Ids : Kept[i].job # 0}
Opened == Cardinality({j \in Jobs : job[j].step # "none"})

\* reply: try_send, which gives up on a full channel.
Reply == out' = IF out < OutCap THEN out + 1 ELSE out

(***************************************************************************)
(* handle: one frame from the browser.                                     *)
(***************************************************************************)

\* A frame that is refused: a busy session, an id in use, a bad request, an
\* unknown frame, a budget that is used up.
Refuse ==
    /\ Sends
    /\ flight' = Kept
    /\ Reply
    /\ UNCHANGED <<job, buffered>>

\* open: `first` pieces come with the request, `body` is the announced length.
Open(i, body, first) ==
    /\ Sends
    /\ i \notin InFlight /\ Cardinality(InFlight) < MaxInFlight
    /\ first <= body
    /\ buffered + first <= MaxBuffered
    /\ Opened < MaxJobs
    /\ buffered' = buffered + first
    /\ flight' = [Kept EXCEPT ![i] = [job |-> Opened + 1, received |-> first, expected |-> body]]
    /\ job' = [job EXCEPT ![Opened + 1] = [NoJob EXCEPT !.step = "connect", !.held = first, !.queue = first, !.open = first < body]]
    /\ UNCHANGED out

MutOver(n) == FALSE

\* over_buffer: the budget does not take n more pieces.
Over(n) == buffered + n > MaxBuffered

\* more_body: too much, or over the budget, ends the request.
MoreBody(i, n) ==
    LET f == Kept[i] IN
    /\ Sends
    /\ i \in InFlight
    /\ \/ /\ f.received + n > f.expected \/ Over(n)
          /\ flight' = [Kept EXCEPT ![i] = NoFlight]
          /\ job' = [job EXCEPT ![f.job].cancelled = TRUE, ![f.job].open = FALSE]
          /\ Reply
          /\ UNCHANGED buffered
       \/ /\ f.received + n <= f.expected /\ ~Over(n)
          /\ flight' = [Kept EXCEPT ![i].received = @ + n]
          /\ buffered' = buffered + n
          /\ job' = [job EXCEPT ![f.job].held = @ + n,
                                ![f.job].queue = IF job[f.job].step \in {"connect", "body"} THEN @ + n ELSE @,
                                ![f.job].open = f.received + n < f.expected]
          /\ UNCHANGED out

\* http.ack.
Ack(i) ==
    /\ Sends
    /\ i \in InFlight /\ job[Kept[i].job].acked < job[Kept[i].job].sent
    /\ flight' = Kept
    /\ job' = [job EXCEPT ![Kept[i].job].acked = @ + 1]
    /\ UNCHANGED <<buffered, out>>

\* http.cancel.
Cancel(i) ==
    /\ Sends
    /\ i \in InFlight
    /\ flight' = [Kept EXCEPT ![i] = NoFlight]
    /\ job' = [job EXCEPT ![Kept[i].job].cancelled = TRUE, ![Kept[i].job].open = FALSE]
    /\ UNCHANGED <<buffered, out>>

(***************************************************************************)
(* The task of a request.                                                 *)
(***************************************************************************)

\* release: n of what the request holds go back to the budget.
Released(j, n) == IF n < job[j].held THEN n ELSE job[j].held

\* exchange: connected, and the first pieces written.
Connect(j) ==
    /\ job[j].step = "connect" /\ ~job[j].cancelled
    /\ job' = [job EXCEPT ![j].step = "body"]
    /\ UNCHANGED <<flight, buffered, out, frames>>

\* A queued piece is written to the device's web server.
Write(j) ==
    /\ job[j].step = "body" /\ ~job[j].cancelled /\ job[j].queue > 0
    /\ buffered' = buffered - Released(j, 1)
    /\ job' = [job EXCEPT ![j].queue = @ - 1, ![j].held = @ - Released(j, 1)]
    /\ UNCHANGED <<flight, out, frames>>

\* The body is complete; the head of the response goes out.
Head(j) ==
    /\ job[j].step = "body" /\ ~job[j].cancelled /\ job[j].queue = 0 /\ ~job[j].open
    /\ out < OutCap
    /\ out' = out + 1
    /\ job' = [job EXCEPT ![j].step = "response"]
    /\ UNCHANGED <<flight, buffered, frames>>

\* room: fewer than a window is unacknowledged.
Room(j) == job[j].sent - job[j].acked <= Window

\* A piece of the response; the last one ends the exchange.
Piece(j, last) ==
    /\ job[j].step = "response" /\ ~job[j].cancelled
    /\ Room(j)
    /\ out < OutCap
    /\ out' = out + 1
    /\ job[j].sent < MaxBody
    /\ job' = [job EXCEPT ![j].sent = @ + 1, ![j].step = IF last THEN "release" ELSE @]
    /\ UNCHANGED <<flight, buffered, frames>>

\* The web server or a timeout ends the exchange, or the browser cancelled it.
Fail(j) ==
    /\ job[j].step \in {"connect", "body", "response"}
    /\ job' = [job EXCEPT ![j].step = IF job[j].cancelled THEN "release" ELSE "release_error"]
    /\ UNCHANGED <<flight, buffered, out, frames>>

\* What was never written no longer counts; an error frame waits for room.
Release(j) ==
    /\ job[j].step \in {"release", "release_error"}
    /\ buffered' = buffered - job[j].held
    /\ job' = [job EXCEPT ![j].held = 0, ![j].queue = 0, ![j].step = IF @ = "release" THEN "done" ELSE "error"]
    /\ UNCHANGED <<flight, out, frames>>

ErrorFrame(j) ==
    /\ job[j].step = "error"
    /\ out < OutCap
    /\ out' = out + 1
    /\ job' = [job EXCEPT ![j].step = "done"]
    /\ UNCHANGED <<flight, buffered, frames>>

\* done is stored and the task ends.
Done(j) ==
    /\ job[j].step = "done"
    /\ job' = [job EXCEPT ![j].step = "ended"]
    /\ UNCHANGED <<flight, buffered, out, frames>>

\* The peer sends a frame of the out channel.
Drain ==
    /\ out > 0
    /\ out' = out - 1
    /\ UNCHANGED <<flight, job, buffered, frames>>

Init ==
    /\ flight = [i \in Ids |-> NoFlight]
    /\ job = [j \in Jobs |-> NoJob]
    /\ buffered = 0 /\ out = 0 /\ frames = 0

Next ==
    \/ Refuse \/ Drain
    \/ \E i \in Ids :
         \/ \E body \in 0..MaxBody, first \in 0..MaxBody : Open(i, body, first)
         \/ \E n \in 1..MaxBody : MoreBody(i, n)
         \/ Ack(i) \/ Cancel(i)
    \/ \E j \in Jobs :
         \/ \E last \in BOOLEAN : Piece(j, last)
         \/ Connect(j) \/ Write(j) \/ Head(j) \/ Fail(j) \/ Release(j) \/ ErrorFrame(j) \/ Done(j)

Spec == Init /\ [][Next]_vars

(***************************************************************************)
(* Properties.                                                             *)
(***************************************************************************)
Sum(f) ==
    LET upTo[n \in 0..MaxJobs] == IF n = 0 THEN 0 ELSE upTo[n - 1] + f[n] IN upTo[MaxJobs]
Queued == Sum([j \in Jobs |-> job[j].queue])
Held == Sum([j \in Jobs |-> job[j].held])

\* The budget covers what the session has in memory, and never more than
\* MAX_BUFFERED is: no release of one request, by its end, by a cancel or after a
\* write, gives back what another one holds (release, more_body, open).
Bounded ==
    /\ Queued <= buffered /\ Held <= buffered /\ buffered <= MaxBuffered
    /\ \A j \in Jobs : job[j].sent - job[j].acked <= Window + 1

\* Once every request of the session has ended, its whole budget is free again
\* (Job::run: "Whatever of the request body was never written no longer counts").
BudgetReturned == (\A j \in Jobs : job[j].step \in {"none", "ended"}) => buffered = 0

(***************************************************************************)
(* The inductive invariant behind Bounded.                                 *)
(***************************************************************************)
JobShapes ==
    [step: {"none", "connect", "body", "response", "release", "release_error", "error", "done", "ended"}, held: Nat, queue: Nat,
     open: BOOLEAN, sent: Nat, acked: Nat, cancelled: BOOLEAN]

Shapes ==
    /\ flight \in [Ids -> [job: 0..MaxJobs, received: Nat, expected: Nat]]
    /\ job \in [Jobs -> JobShapes] /\ buffered \in Nat /\ out \in Nat /\ frames \in Nat

\* Jobs are opened one after the other, and have nothing before.
Order ==
    /\ \E n \in 0..MaxJobs : \A j \in Jobs : IF j <= n THEN job[j].step # "none" ELSE job[j] = NoJob
    /\ \A i \in Ids : flight[i].job # 0 => job[flight[i].job].step # "none"

\* What a request has queued it holds; what it has sent has been acknowledged
\* up to a window and a piece.
Shares ==
    \A j \in Jobs : job[j].queue <= job[j].held /\ job[j].acked <= job[j].sent /\ job[j].sent <= job[j].acked + Window + 1

\* The budget is what the requests hold together.
MeshInv == Shapes /\ Order /\ Shares /\ buffered = Held /\ buffered <= MaxBuffered
=============================================================================
