----------------------------- MODULE StateStream -----------------------------
(* The state stream: the sampler and the refreshes that controls leave behind *)
(* collect the device's state (server.rs refresh_snapshot), reading uci       *)
(* packages through a cache that is keyed by the stamps of two files          *)
(* (state.rs uci_show_raw), and publish it to the event streams. A round      *)
(* reads one package here; rounds overlap, and each read, run of uci and      *)
(* publication is a step.                                                     *)
EXTENDS Naturals, FiniteSets

CONSTANTS None,
          Rounds,           \* rounds that may be under way: the sampler's and others
          Sampler,          \* the one that starts again and again
          Streams,          \* event streams
          MaxStreams,       \* permits of sse_slots
          Values,           \* what the package may say
          MaxWrites,        \* bound: changes of the package
          MaxFails          \* bound: runs of uci that fail

VARIABLES conf,             \* /etc/config/<package>: its stamp and value
          pend,             \* /tmp/.uci/<package>: the same, or None
          writes, fails,    \* changes and failed runs so far
          cache,            \* UCI_CACHE: the stamp pair and the values, or None
          round,            \* round[r]: what it is at, and what it has read
          snapshot,         \* the value last published
          tx,               \* the value of the watch channel
          stream            \* stream[x]: open, the channel changed since it looked, what it sent

vars == <<conf, pend, writes, fails, cache, round, snapshot, tx, stream>>
files == <<conf, pend, writes>>

(* What `uci show` prints: pending changes over the configuration (external). *)
Shown == IF pend # None /\ pend.val # None THEN pend.val ELSE conf.val
Stamp(file) == IF file = None THEN None ELSE file.at
Present == <<Stamp(conf), Stamp(pend)>>

Idle == [at |-> "idle", stamp |-> <<None, None>>, val |-> None]
Closed == [open |-> FALSE, fresh |-> FALSE, val |-> None]

TypeOK ==
  /\ writes \in 0..MaxWrites /\ fails \in 0..MaxFails /\ snapshot \in Values \cup {None}
  /\ round \in [Rounds -> [at: {"idle", "stamp", "look", "show", "store", "publish"},
                           stamp: (0..MaxWrites \cup {None}) \X (0..MaxWrites \cup {None}),
                           val: Values \cup {None}]]
  /\ stream \in [Streams -> [open: BOOLEAN, fresh: BOOLEAN, val: Values \cup {None}]]

Init ==
  /\ conf = [at |-> 0, val |-> CHOOSE v \in Values: TRUE] /\ pend = None
  /\ writes = 0 /\ fails = 0
  /\ cache = None /\ round = [r \in Rounds |-> Idle]
  /\ snapshot = conf.val /\ tx = conf.val
  /\ stream = [x \in Streams |-> Closed]

-----------------------------------------------------------------------------
(* uci, of a control or of the firmware: a change is staged, and committed  *)
(* or reverted. Both leave an empty changes file; every write has a stamp   *)
(* of its own (external).                                                   *)
Write(c, p) ==
  /\ writes < MaxWrites /\ writes' = writes + 1 /\ conf' = c /\ pend' = p
  /\ UNCHANGED <<fails, cache, round, snapshot, tx, stream>>
Stage(v) == Write(conf, [at |-> writes + 1, val |-> v])
Commit == pend # None /\ pend.val # None
          /\ Write([at |-> writes + 1, val |-> pend.val], [at |-> writes + 1, val |-> None])
Revert == pend # None /\ pend.val # None /\ Write(conf, [at |-> writes + 1, val |-> None])

-----------------------------------------------------------------------------
Set(r, st) == round' = [round EXCEPT ![r] = st]

(* A round begins: the sampler's after its sleep, another one when a control *)
(* succeeded or asked for it. uci_stamp looks at the configuration first...  *)
Begin(r) ==
  /\ round[r].at = "idle"
  /\ r # Sampler => writes < MaxWrites      \* bound: no round for its own sake
  /\ Set(r, [Idle EXCEPT !.at = "stamp", !.stamp = <<Stamp(conf), None>>])
  /\ UNCHANGED <<files, fails, cache, snapshot, tx, stream>>
(* ...and then at the changes file. *)
StampChanges(r) ==
  /\ round[r].at = "stamp"
  /\ Set(r, [round[r] EXCEPT !.at = "look", !.stamp = <<@[1], Stamp(pend)>>])
  /\ UNCHANGED <<files, fails, cache, snapshot, tx, stream>>
(* The cache answers if it has the same pair of stamps. *)
Hit(r) == cache # None /\ cache.stamp = round[r].stamp
Look(r) ==
  /\ round[r].at = "look"
  /\ Set(r, IF Hit(r) THEN [round[r] EXCEPT !.at = "publish", !.val = cache.val]
            ELSE [round[r] EXCEPT !.at = "show"])
  /\ UNCHANGED <<files, fails, cache, snapshot, tx, stream>>
(* Otherwise uci is run; what it prints is kept under the stamps that were  *)
(* read before. A run that failed yields nothing and keeps nothing: the     *)
(* package's fields are missing from that round.                            *)
MutKey(r) == Present
Key(r) == round[r].stamp
Show(r) ==
  /\ round[r].at = "show"
  /\ \/ Set(r, [round[r] EXCEPT !.at = "store", !.val = Shown]) /\ UNCHANGED fails
     \/ /\ fails < MaxFails /\ fails' = fails + 1
        /\ Set(r, [round[r] EXCEPT !.at = "publish", !.val = None])
  /\ UNCHANGED <<files, cache, snapshot, tx, stream>>
Store(r) ==
  /\ round[r].at = "store"
  /\ cache' = [stamp |-> Key(r), val |-> round[r].val]
  /\ Set(r, [round[r] EXCEPT !.at = "publish"])
  /\ UNCHANGED <<files, fails, snapshot, tx, stream>>

(* The end of refresh_snapshot: only a state that differs is sent. *)
Publish(r) ==
  /\ round[r].at = "publish"
  /\ snapshot' = round[r].val
  /\ IF round[r].val = snapshot THEN UNCHANGED <<tx, stream>>
     ELSE /\ tx' = round[r].val
          /\ stream' = [x \in Streams |-> [stream[x] EXCEPT !.fresh = stream[x].open]]
  /\ Set(r, Idle)
  /\ UNCHANGED <<files, fails, cache>>

(* An event stream: it takes a permit and is told of the present state as *)
(* if it had just changed; it sends whatever the channel holds when it    *)
(* looks, and its permit goes with it.                                    *)
MutSubscribe == [open |-> TRUE, fresh |-> FALSE, val |-> None]
Subscribe == [open |-> TRUE, fresh |-> TRUE, val |-> None]
Open(x) ==
  /\ ~stream[x].open
  /\ Cardinality({y \in Streams: stream[y].open}) < MaxStreams
  /\ stream' = [stream EXCEPT ![x] = Subscribe]
  /\ UNCHANGED <<files, fails, cache, round, snapshot, tx>>
Send(x) ==
  /\ stream[x].open /\ stream[x].fresh
  /\ stream' = [stream EXCEPT ![x] = [open |-> TRUE, fresh |-> FALSE, val |-> tx]]
  /\ UNCHANGED <<files, fails, cache, round, snapshot, tx>>
Close(x) ==
  /\ stream[x].open /\ stream' = [stream EXCEPT ![x] = Closed]
  /\ UNCHANGED <<files, fails, cache, round, snapshot, tx>>

Step(r) == Begin(r) \/ StampChanges(r) \/ Look(r) \/ Show(r) \/ Store(r) \/ Publish(r)

Next ==
  \/ \E v \in Values: Stage(v)
  \/ Commit \/ Revert
  \/ \E r \in Rounds: Step(r)
  \/ \E x \in Streams: Open(x) \/ Send(x) \/ Close(x)

(* Timers fire and tasks are polled: the sampler goes on, a round that has *)
(* begun ends, and an open stream is polled after each change.             *)
Fairness ==
  /\ WF_vars(Step(Sampler))
  /\ \A r \in Rounds \ {Sampler}: WF_vars(round[r].at # "idle" /\ Step(r))
  /\ \A x \in Streams: WF_vars(Send(x))

Spec == Init /\ [][Next]_vars /\ Fairness

-----------------------------------------------------------------------------
(* The cache never answers for files that have changed: an entry under the   *)
(* present stamps has the present values, though the two stamps are read one *)
(* after the other, and uci is run after both, while others stage, commit    *)
(* and revert (uci_stamp, uci_show_raw).                                     *)
CacheCurrent == cache # None /\ cache.stamp = Present => cache.val = Shown

(* Again and again the snapshot and every open stream show the device's state *)
(* as it is: a slow round that publishes old values is put right by a later   *)
(* one, and no stream misses the last change (refresh_snapshot, events).      *)
StreamConverges ==
  []<>(snapshot = Shown /\ \A x \in Streams: stream[x].open => stream[x].val = Shown)
(* The inductive invariant of CacheCurrent: a pair of stamps that was read  *)
(* before a write differs from every pair after it, since each write gives  *)
(* the changes file a stamp that no earlier one had.                        *)
Old(stamp) == stamp[2] = None \/ stamp[2] \in 0..writes

Progress == [at: {"idle", "stamp", "look", "show", "store", "publish"},
             stamp: (Nat \cup {None}) \X (Nat \cup {None}), val: Values \cup {None}]

CacheInv ==
  /\ writes \in Nat
  /\ conf \in [at: Nat, val: Values]
  /\ pend # None => pend \in [at: 0..writes, val: Values \cup {None}]
  /\ round \in [Rounds -> Progress]
  /\ \A r \in Rounds: Old(round[r].stamp)
  /\ \A r \in Rounds: round[r].at = "store" /\ round[r].stamp = Present => round[r].val = Shown
  /\ cache # None => cache \in [stamp: (Nat \cup {None}) \X (Nat \cup {None}), val: Values \cup {None}]
                     /\ Old(cache.stamp)
  /\ CacheCurrent
=============================================================================
