----------------------------- MODULE MeshSession -----------------------------
(***************************************************************************)
(* The device end of a direct session (mesh/mod.rs) and its rendezvous     *)
(* socket (mesh/rendezvous.rs): one task answers the browser's offers and  *)
(* starts a peer task for each, another keeps the socket open; a bounded   *)
(* queue of events joins them, and a stop has to end all of them wherever  *)
(* they wait.                                                              *)
(***************************************************************************)
EXTENDS Naturals, Sequences, FiniteSets

CONSTANTS
    None,
    QueueCap,    \* capacity of the event channel
    MaxOffers,   \* bound: offers of the browser
    MaxDrops     \* bound: sockets that end and presence messages

VARIABLES
    run,        \* the session: loop, resolve, close (waits for rendezvous), ended
    peer,       \* the offer of the peer it holds, or None
    tasks,      \* peer tasks that run: an aborted one runs until its next await
    give_up,    \* a grace period runs
    ever_up,
    grace,      \* the grace period has passed
    expired,   \* the deadline has passed
    stop,       \* the caller's stop
    queue,      \* events: up, down, or an offer
    rv,         \* the rendezvous task: connect, open, send (waits for the queue), wait, ended
    rv_stop,    \* its stop
    pending,    \* the event it wants to send
    offers, drops

vars == <<run, peer, tasks, give_up, ever_up, grace, expired, stop, queue, rv, rv_stop, pending, offers, drops>>

(***************************************************************************)
(* mod.rs: run.                                                            *)
(***************************************************************************)
Loop == run = "loop"

\* Some("hub") up: the browser is there.
PeerUp ==
    /\ Loop /\ queue # <<>> /\ Head(queue).kind = "up"
    /\ ever_up' = TRUE /\ give_up' = FALSE /\ grace' = FALSE
    /\ queue' = Tail(queue)
    /\ UNCHANGED <<run, peer, tasks, expired, stop, rv, rv_stop, pending, offers, drops>>

\* down: it may stay away for 30 s, once it was there.
PeerDown ==
    /\ Loop /\ queue # <<>> /\ Head(queue).kind = "down"
    /\ give_up' = (give_up \/ ever_up)
    /\ grace' = IF ever_up THEN FALSE ELSE grace
    /\ queue' = Tail(queue)
    /\ UNCHANGED <<run, peer, tasks, ever_up, expired, stop, rv, rv_stop, pending, offers, drops>>

\* An offer: the old peer is dropped, which aborts its task; then the STUN
\* servers are looked up, and the loop sees nothing else meanwhile.
Offer ==
    /\ Loop /\ queue # <<>> /\ Head(queue).kind = "offer"
    /\ peer' = None
    /\ run' = "resolve"
    /\ UNCHANGED <<tasks, give_up, ever_up, grace, expired, stop, queue, rv, rv_stop, pending, offers, drops>>

\* The new peer task.
Spawn ==
    /\ run = "resolve"
    /\ peer' = Head(queue).n /\ tasks' = tasks \cup {peer'}
    /\ queue' = Tail(queue)
    /\ run' = "loop"
    /\ UNCHANGED <<give_up, ever_up, grace, expired, stop, rv, rv_stop, pending, offers, drops>>

\* stop, the deadline or the grace period: the peer is dropped, the rendezvous
\* task is told, and waited for at most 2 s.
Break ==
    /\ Loop
    /\ stop \/ expired \/ (give_up /\ grace)
    /\ peer' = None /\ rv_stop' = TRUE
    /\ run' = "close"
    /\ UNCHANGED <<tasks, give_up, ever_up, grace, expired, stop, queue, rv, pending, offers, drops>>

\* The wait ends; the event queue is dropped with the session.
Return ==
    /\ run = "close"
    /\ run' = "ended" /\ queue' = <<>>
    /\ UNCHANGED <<peer, tasks, give_up, ever_up, grace, expired, stop, rv, rv_stop, pending, offers, drops>>

\* An aborted peer task comes to an await and ends; so does one that failed.
PeerEnds(p) ==
    /\ p \in tasks /\ p # peer
    /\ tasks' = tasks \ {p}
    /\ UNCHANGED <<run, peer, give_up, ever_up, grace, expired, stop, queue, rv, rv_stop, pending, offers, drops>>

(***************************************************************************)
(* rendezvous.rs: run and session.                                         *)
(***************************************************************************)

\* The handshake, at most 10 s, or stop.
Connect ==
    /\ rv = "connect"
    /\ \/ ~rv_stop /\ rv' = "open" /\ UNCHANGED drops
       \/ ~rv_stop /\ drops < MaxDrops /\ drops' = drops + 1 /\ rv' = "wait"
       \/ rv_stop /\ rv' = "ended" /\ UNCHANGED drops
    /\ UNCHANGED <<run, peer, tasks, give_up, ever_up, grace, expired, stop, queue, rv_stop, pending, offers>>

\* A frame of the hub that is a well-formed event; events.send waits for room.
Receive ==
    /\ rv = "open"
    /\ \/ offers < MaxOffers /\ offers' = offers + 1 /\ pending' = [kind |-> "offer", n |-> offers'] /\ UNCHANGED drops
       \/ /\ drops < MaxDrops /\ drops' = drops + 1
          /\ pending' \in [kind : {"up", "down"}, n : {0}]
          /\ UNCHANGED offers
    /\ rv' = "send"
    /\ UNCHANGED <<run, peer, tasks, give_up, ever_up, grace, expired, stop, queue, rv_stop>>

Enqueue ==
    /\ rv = "send" /\ run # "ended"
    /\ Len(queue) < QueueCap
    /\ queue' = Append(queue, pending) /\ pending' = None
    /\ rv' = "open"
    /\ UNCHANGED <<run, peer, tasks, give_up, ever_up, grace, expired, stop, rv_stop, offers, drops>>

\* The receiver is gone, so send fails and the task returns.
Closed ==
    /\ rv = "send" /\ run = "ended"
    /\ rv' = "ended" /\ pending' = None
    /\ UNCHANGED <<run, peer, tasks, give_up, ever_up, grace, expired, stop, queue, rv_stop, offers, drops>>

\* The socket ends, or the stop is seen.
Disconnect ==
    /\ rv = "open"
    /\ \/ rv_stop /\ rv' = "ended" /\ UNCHANGED drops
       \/ ~rv_stop /\ drops < MaxDrops /\ drops' = drops + 1 /\ rv' = "wait"
    /\ UNCHANGED <<run, peer, tasks, give_up, ever_up, grace, expired, stop, queue, rv_stop, pending, offers>>

MutBackoff ==
    /\ rv = "wait" /\ ~rv_stop
    /\ rv' = "connect"
    /\ UNCHANGED <<run, peer, tasks, give_up, ever_up, grace, expired, stop, queue, rv_stop, pending, offers, drops>>

\* The pause before the next attempt.
Backoff ==
    /\ rv = "wait"
    /\ rv' = IF rv_stop THEN "ended" ELSE "connect"
    /\ UNCHANGED <<run, peer, tasks, give_up, ever_up, grace, expired, stop, queue, rv_stop, pending, offers, drops>>

(***************************************************************************)
(* The caller and time.                                                    *)
(***************************************************************************)
Stop ==
    /\ ~stop /\ stop' = TRUE
    /\ UNCHANGED <<run, peer, tasks, give_up, ever_up, grace, expired, queue, rv, rv_stop, pending, offers, drops>>

\* The deadline, at most an hour.
Expire ==
    /\ ~expired /\ expired' = TRUE
    /\ UNCHANGED <<run, peer, tasks, give_up, ever_up, grace, stop, queue, rv, rv_stop, pending, offers, drops>>

\* The browser stays away.
Away ==
    /\ give_up /\ ~grace /\ grace' = TRUE
    /\ UNCHANGED <<run, peer, tasks, give_up, ever_up, expired, stop, queue, rv, rv_stop, pending, offers, drops>>

Init ==
    /\ run = "loop" /\ peer = None /\ tasks = {}
    /\ give_up = TRUE /\ ever_up = FALSE /\ grace = FALSE /\ expired = FALSE /\ stop = FALSE
    /\ queue = <<>> /\ rv = "connect" /\ rv_stop = FALSE /\ pending = None
    /\ offers = 0 /\ drops = 0

Steps ==
    \/ Spawn \/ Break \/ Return \/ Connect \/ Enqueue \/ Closed \/ Disconnect \/ Backoff
    \/ \E p \in 1..MaxOffers : PeerEnds(p)

Next ==
    \/ PeerUp \/ PeerDown \/ Offer \/ Receive
    \/ Steps \/ Stop \/ Expire \/ Away

\* Timers and tasks make progress: the runtime polls a task that was woken.
\* Which ready branch of select! runs is random, so one that is ready again and
\* again is taken (strong fairness).
Fairness ==
    /\ WF_vars(Spawn) /\ WF_vars(Return) /\ WF_vars(Connect) /\ WF_vars(Closed) /\ WF_vars(Backoff)
    /\ WF_vars(Expire)
    /\ SF_vars(Break) /\ SF_vars(Disconnect)
    /\ \A p \in 1..MaxOffers : WF_vars(PeerEnds(p))

Spec == Init /\ [][Next]_vars /\ Fairness

(***************************************************************************)
(* Properties.                                                             *)
(***************************************************************************)

\* A session that was stopped or has expired ends with everything it started:
\* every peer task, with its UDP socket, and the rendezvous task, wherever it was
\* (mod.rs: "Nothing keeps running afterwards").
NothingRuns ==
    (stop \/ expired) ~> (run = "ended" /\ tasks = {} /\ rv = "ended")
=============================================================================
