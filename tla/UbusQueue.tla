----------------------------- MODULE UbusQueue -----------------------------
(***************************************************************************)
(* How the single ubus connection is shared: struct Executor of            *)
(* rust/src/ubus_socket.rs, its tickets, yield_to_interactive and the part *)
(* of Executor::call that waits for the connection.                        *)
(*                                                                         *)
(* Controls, panels and schedules are interactive callers; state           *)
(* collection is the low-priority lane.  The runtime is multi-threaded, so *)
(* each atomic operation is a step of its own.  tokio's Mutex hands the    *)
(* connection over in FIFO order, and Notify::notify_waiters wakes every   *)
(* caller whose Notified was enabled before; both are external.  What a    *)
(* call does once it has the connection is module UbusClient.              *)
(***************************************************************************)
EXTENDS Integers, Sequences, FiniteSets

CONSTANTS
    Interactive,  \* interactive callers
    Collectors,   \* collection calls
    MaxWaiting,   \* MAX_INTERACTIVE_WAITING (8)
    MaxCalls      \* bound: calls each caller makes

Callers == Interactive \cup Collectors

VARIABLES
    waiting,   \* Executor.interactive_waiting
    owner,     \* who holds Executor.client
    queue,     \* callers waiting for Executor.client, in order
    notified,  \* collectors whose enabled Notified has fired
    pc,        \* where each caller is in Executor::call
    made       \* bound: calls made by each caller

vars == <<waiting, owner, queue, notified, pc, made>>

Nobody == "nobody"

PCs == {"idle", "refused", "queueing", "locking", "granted", "notifying",
        "dropping", "abandoning", "enabled", "parked", "calling"}

Init ==
    /\ waiting = 0
    /\ owner = Nobody
    /\ queue = << >>
    /\ notified = {}
    /\ pc = [c \in Callers |-> "idle"]
    /\ made = [c \in Callers |-> 0]

GoTo(c, where) == pc' = [pc EXCEPT ![c] = where]

CountCall(c) ==
    /\ made[c] < MaxCalls
    /\ made' = [made EXCEPT ![c] = @ + 1]

\* Callers whose Notified is enabled: they are woken by notify_waiters.
Registered == {c \in Collectors : pc[c] \in {"enabled", "parked"}}

(***************************************************************************)
(* Interactive callers.                                                    *)
(***************************************************************************)

\* Executor::ticket: fetch_add, and whether the queue was full.
Ticket(i) ==
    /\ pc[i] = "idle"
    /\ CountCall(i)
    /\ waiting' = waiting + 1
    /\ GoTo(i, IF waiting >= MaxWaiting THEN "refused" ELSE "queueing")
    /\ UNCHANGED <<owner, queue, notified>>

\* The full queue: fetch_sub and "ubus busy".
Refuse(i) ==
    /\ pc[i] = "refused"
    /\ waiting' = waiting - 1
    /\ GoTo(i, "idle")
    /\ UNCHANGED <<owner, queue, notified, made>>

\* drop(ticket) once the connection is taken, or the drop of a cancelled call:
\* fetch_sub, and a notification when this was the last one waiting.
DropTicket(i) ==
    /\ pc[i] \in {"granted", "dropping"}
    /\ waiting' = waiting - 1
    /\ GoTo(i, CASE waiting = 1 /\ pc[i] = "granted" -> "notifying"
                 [] waiting = 1 /\ pc[i] = "dropping" -> "abandoning"
                 [] waiting # 1 /\ pc[i] = "granted" -> "calling"
                 [] waiting # 1 /\ pc[i] = "dropping" -> "idle")
    /\ UNCHANGED <<owner, queue, notified, made>>

\* interactive_idle.notify_waiters().
Notify(i) ==
    /\ pc[i] \in {"notifying", "abandoning"}
    /\ notified' = notified \cup Registered
    /\ GoTo(i, IF pc[i] = "notifying" THEN "calling" ELSE "idle")
    /\ UNCHANGED <<waiting, owner, queue, made>>

\* The caller gives up while it waits for the connection.
Cancel(i) ==
    /\ pc[i] \in {"queueing", "locking"}
    /\ queue' = SelectSeq(queue, LAMBDA c : c # i)
    /\ GoTo(i, "dropping")
    /\ UNCHANGED <<waiting, owner, notified, made>>

(***************************************************************************)
(* Collection calls: yield_to_interactive and the loop around it.          *)
(***************************************************************************)

\* A new call: interactive_idle.notified() is created and enabled.
Collect(c) ==
    /\ pc[c] = "idle"
    /\ CountCall(c)
    /\ notified' = notified \ {c}
    /\ GoTo(c, "enabled")
    /\ UNCHANGED <<waiting, owner, queue>>

\* Nobody waits: go for the connection; otherwise wait for the notification.
CheckWaiting(c) ==
    /\ pc[c] = "enabled"
    /\ GoTo(c, IF waiting = 0 THEN "queueing" ELSE "parked")
    /\ UNCHANGED <<waiting, owner, queue, notified, made>>

\* The notification arrived: the loop enables a new Notified.
Wake(c) ==
    /\ pc[c] = "parked"
    /\ c \in notified
    /\ notified' = notified \ {c}
    /\ GoTo(c, "enabled")
    /\ UNCHANGED <<waiting, owner, queue, made>>

MutRecheck(c) ==
    /\ pc[c] = "granted"
    /\ GoTo(c, "calling")
    /\ UNCHANGED <<waiting, owner, queue, notified, made>>

\* With the connection in hand, an interactive caller waits: hand it on.
Recheck(c) ==
    /\ pc[c] = "granted"
    /\ IF waiting > 0
       THEN /\ owner' = Nobody
            /\ notified' = notified \ {c}
            /\ GoTo(c, "enabled")
       ELSE /\ GoTo(c, "calling")
            /\ UNCHANGED <<owner, notified>>
    /\ UNCHANGED <<waiting, queue, made>>

(***************************************************************************)
(* The connection.                                                         *)
(***************************************************************************)

Enqueue(c) ==
    /\ pc[c] = "queueing"
    /\ queue' = Append(queue, c)
    /\ GoTo(c, "locking")
    /\ UNCHANGED <<waiting, owner, notified, made>>

Acquire(c) ==
    /\ owner = Nobody
    /\ queue # << >> /\ Head(queue) = c
    /\ owner' = c
    /\ queue' = Tail(queue)
    /\ GoTo(c, "granted")
    /\ UNCHANGED <<waiting, notified, made>>

\* The call is answered, fails, times out or is cancelled.
Finish(c) ==
    /\ pc[c] = "calling"
    /\ owner' = Nobody
    /\ GoTo(c, "idle")
    /\ UNCHANGED <<waiting, queue, notified, made>>

Share(c) == Enqueue(c) \/ Acquire(c) \/ Finish(c)

Interact(i) == Ticket(i) \/ Refuse(i) \/ DropTicket(i) \/ Notify(i) \/ Cancel(i)

Gather(c) == Collect(c) \/ CheckWaiting(c) \/ Wake(c) \/ Recheck(c)

Next ==
    \/ \E i \in Interactive : Interact(i)
    \/ \E c \in Collectors : Gather(c)
    \/ \E c \in Callers : Share(c)

\* A call that has begun is polled until it ends (each is bounded by a 5 s or
\* 8 s timeout); nobody has to start a call or to cancel one.
Fairness ==
    /\ \A i \in Interactive : WF_vars(Refuse(i) \/ DropTicket(i) \/ Notify(i))
    /\ \A c \in Collectors : WF_vars(CheckWaiting(c) \/ Wake(c) \/ Recheck(c))
    /\ \A c \in Callers : WF_vars(Share(c))

Spec == Init /\ [][Next]_vars

FairSpec == Spec /\ Fairness

-----------------------------------------------------------------------------
\* Interactive callers that hold a ticket.
Ticketed ==
    {i \in Interactive : pc[i] \in {"queueing", "locking", "granted", "dropping"}}

Refused == {i \in Interactive : pc[i] = "refused"}

TypeOK ==
    /\ waiting \in Nat
    /\ owner \in Callers \cup {Nobody}
    /\ queue \in Seq(Callers)
    /\ notified \subseteq Collectors
    /\ pc \in [Callers -> PCs]
    /\ made \in [Callers -> 0..MaxCalls]

\* interactive_waiting counts the tickets that are out and the callers that
\* are being refused, through every cancellation, and no more than MaxWaiting
\* tickets are ever out (MAX_INTERACTIVE_WAITING).
TicketAccounting ==
    /\ waiting = Cardinality(Ticketed) + Cardinality(Refused)
    /\ Cardinality(Ticketed) <= MaxWaiting

\* One request is in flight at a time: only the owner of the connection is
\* past the lock, and every caller waits in the queue at most once.
OneInFlight ==
    /\ \A c \in Callers :
          pc[c] \in {"granted", "notifying", "calling"} <=> owner = c
    /\ \A c \in Callers :
          Cardinality({k \in DOMAIN queue : queue[k] = c}) =
              (IF pc[c] = "locking" THEN 1 ELSE 0)

\* A control never sits behind collection: no collection call starts a
\* request while an interactive caller waits for the connection.
CollectionYields ==
    [][\A c \in Collectors :
          pc[c] # "calling" /\ pc'[c] = "calling" => Ticketed = {}]_vars

\* An interactive caller that queued is served unless it cancels.
InteractiveServed ==
    \A i \in Interactive :
        pc[i] = "queueing" ~> pc[i] \in {"calling", "idle"}

\* Interactive requests come first and are served: the tickets that tell
\* collection to wait are counted exactly, one request is in flight, and a
\* caller that queued is not left waiting.
ControlsFirst ==
    []TicketAccounting /\ []OneInFlight /\ CollectionYields /\ InteractiveServed

\* A collection call that gave way goes on once no interactive caller waits.
CollectionResumes ==
    \A c \in Collectors : pc[c] = "parked" ~> pc[c] # "parked"
=============================================================================
