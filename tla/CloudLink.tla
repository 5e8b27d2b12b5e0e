----------------------------- MODULE CloudLink -----------------------------
(***************************************************************************)
(* The cloud connection: the settings with their two saving paths, the     *)
(* supervisor that follows them over a watch channel, the MQTT session     *)
(* with enrollment, and the member route with its fallback.                *)
(***************************************************************************)
EXTENDS Naturals

CONSTANTS
    Configs,      \* settings: [on, pending, remote, feats, home]
    NoConfig,     \* what the channel holds when the file was not usable
    Members,      \* member endpoints a platform may assign
    Broker,       \* the configured (free) endpoint
    None,         \* no member endpoint
    Outages,      \* sets of endpoints that may be left after an outage
    Tries,        \* PRIMARY_FAILURES_BEFORE_FALLBACK
    MaxOffers,    \* bound: settings sent to the channel
    MaxRevision   \* bound: revisions of the route

VARIABLES
    file, config, \* cloud.json and Cloud.config
    marker,       \* the file that says the defaults were applied
    unsent,       \* save_remote_features was acknowledged, not yet activated
    offer, value, \* the watch channel: version and value
    taken, cur,   \* the version the supervisor has seen, and its copy
    pc,           \* where the supervisor stands
    started,      \* the first connection was spread over the start window
    onFallback, failures,
    endpoint,     \* the endpoint of this session
    link,         \* "down", "dialing", "up"
    enrolled, long,
    route,        \* mqtt-route.json
    answering     \* the endpoints that answer now

vars == <<file, config, marker, unsent, offer, value, taken, cur, pc, started,
          onFallback, failures, endpoint, link, enrolled, long, route, answering>>

ownerVars == <<file, config, marker, unsent, offer, value>>
loopVars == <<taken, cur, pc, started, onFallback, failures>>
sessionVars == <<endpoint, link, enrolled, long>>

Free == [revision |-> 0, broker |-> None, home |-> "none"]

Default == CHOOSE c \in Configs : ~c.on

(***************************************************************************)
(* Settings.                                                               *)
(***************************************************************************)

\* apply_cloud_feature_defaults: switched on once, then the owner's choice.
WithDefaults(c) ==
    IF c.on /\ c.remote /\ ~c.feats THEN [c EXCEPT !.feats = TRUE] ELSE c

\* update (also app_update and quick_connect): the file, then the channel.
Save(c) ==
    /\ offer < MaxOffers
    /\ file' = c /\ config' = c
    /\ offer' = offer + 1 /\ value' = c
    /\ UNCHANGED <<marker, unsent, loopVars, sessionVars, route, answering>>

Update == \E c \in Configs : c # config /\ Save(c)

\* quick_connect is refused while an account is configured.
QuickConnect == ~config.on /\ \E c \in Configs : c.on /\ c.pending /\ c.remote /\ Save(c)

\* save_remote_features: saved and acknowledged; the channel gets it later.
SaveFeatures ==
    /\ config.on /\ config.remote /\ ~unsent
    /\ file' = [config EXCEPT !.feats = ~@]
    /\ config' = file'
    /\ unsent' = TRUE
    /\ UNCHANGED <<marker, offer, value, loopVars, sessionVars, route, answering>>

\* activate_saved_features sends what is saved by then.
Activate ==
    /\ unsent /\ offer < MaxOffers
    /\ unsent' = FALSE
    /\ offer' = offer + 1 /\ value' = config
    /\ UNCHANGED <<file, config, marker, loopVars, sessionVars, route, answering>>

(***************************************************************************)
(* The member route.                                                       *)
(***************************************************************************)

Member(c) == IF route.home = c.home THEN route.broker ELSE None

Primary(c) == IF Member(c) \in {None, Broker} THEN Broker ELSE Member(c)

HasFallback(c) == Member(c) \notin {None, Broker}

\* mqtt.route.set: an older revision of the same platform changes nothing.
Applied(r, b, home) ==
    IF r <= route.revision /\ route.home = home
    THEN route ELSE [revision |-> r, broker |-> b, home |-> home]

(***************************************************************************)
(* The supervisor.                                                         *)
(***************************************************************************)

stale == offer # taken

NoSession == endpoint' = None /\ link' = "down" /\ enrolled' = FALSE /\ long' = FALSE

\* borrow_and_update at the head of the outer loop.
Adopt ==
    /\ pc = "read"
    /\ cur' = value /\ taken' = offer
    /\ pc' = IF value = NoConfig THEN "off"
             ELSE IF ~value.on THEN "off"
             ELSE IF started THEN "dial" ELSE "spread"
    /\ onFallback' = FALSE /\ failures' = 0
    /\ UNCHANGED <<ownerVars, started, sessionVars, route, answering>>

\* The start window is over; a change in it goes back to reading.
Spread ==
    /\ pc = "spread"
    /\ started' = TRUE
    /\ pc' = "dial"
    /\ UNCHANGED <<ownerVars, taken, cur, onFallback, failures, sessionVars, route, answering>>

\* The head of the inner loop: choose the endpoint and start a session.
Dial ==
    /\ pc = "dial"
    /\ endpoint' = IF onFallback /\ HasFallback(cur) THEN Broker ELSE Primary(cur)
    /\ link' = "dialing" /\ enrolled' = FALSE /\ long' = FALSE
    /\ pc' = "session"
    /\ UNCHANGED <<ownerVars, taken, cur, started, onFallback, failures, route, answering>>

ViaFallback == onFallback /\ HasFallback(cur)

MutSeeChange ==
    /\ stale
    /\ pc \in {"off", "spread", "session"}
    /\ link # "dialing"
    /\ pc' = "read" /\ NoSession
    /\ started' = (started \/ pc = "spread")
    /\ UNCHANGED <<ownerVars, taken, cur, onFallback, failures, route, answering>>

\* config_rx.changed(): while disabled, in the start window, in the session
\* (its receiver is a copy, so the version is still unseen here) and between
\* two tries.  The session stops its tunnels and says goodbye first.
SeeChange ==
    /\ stale
    /\ pc \in {"off", "spread", "session", "backoff"}
    /\ pc' = "read" /\ NoSession
    /\ started' = (started \/ pc = "spread")
    /\ UNCHANGED <<ownerVars, taken, cur, onFallback, failures, route, answering>>

MutAfterFailure ==
    IF ViaFallback THEN onFallback' = TRUE /\ UNCHANGED failures /\ pc' = "backoff"
    ELSE LET n == IF long THEN 1 ELSE failures + 1 IN
         IF ~HasFallback(cur) THEN UNCHANGED <<onFallback, failures>> /\ pc' = "backoff"
         ELSE IF n >= Tries THEN onFallback' = TRUE /\ failures' = 0 /\ pc' = "dial"
         ELSE onFallback' = FALSE /\ failures' = n /\ pc' = "backoff"

\* SessionEnd::Failed: back to the member endpoint after a failed fallback,
\* over to the fallback after enough failures in a row, without a pause.
AfterFailure ==
    IF ViaFallback THEN onFallback' = FALSE /\ UNCHANGED failures /\ pc' = "backoff"
    ELSE LET n == IF long THEN 1 ELSE failures + 1 IN
         IF ~HasFallback(cur) THEN UNCHANGED <<onFallback, failures>> /\ pc' = "backoff"
         ELSE IF n >= Tries THEN onFallback' = TRUE /\ failures' = 0 /\ pc' = "dial"
         ELSE failures' = n /\ UNCHANGED onFallback /\ pc' = "backoff"

Fail == AfterFailure /\ NoSession /\ UNCHANGED <<ownerVars, taken, cur, started, route, answering>>

DialFails == pc = "session" /\ link = "dialing" /\ Fail

ConnectionLost == pc = "session" /\ link = "up" /\ Fail

\* The pause before the next try is over.
Backoff ==
    /\ pc = "backoff"
    /\ pc' = "dial"
    /\ UNCHANGED <<ownerVars, taken, cur, started, onFallback, failures, sessionVars, route, answering>>

\* Half an hour on the fallback: try the member endpoint again.
RetryPrimary ==
    /\ pc = "session" /\ ViaFallback
    /\ onFallback' = FALSE /\ failures' = 0
    /\ pc' = "dial" /\ NoSession
    /\ UNCHANGED <<ownerVars, taken, cur, started, route, answering>>

(***************************************************************************)
(* The session.                                                            *)
(***************************************************************************)

\* ConnAck.  A device with an enrollment account is not a device yet.
ConnAck ==
    /\ pc = "session" /\ link = "dialing" /\ endpoint \in answering
    /\ link' = "up" /\ enrolled' = ~cur.pending
    /\ UNCHANGED <<ownerVars, loopVars, endpoint, long, route, answering>>

\* The answer to the enrollment: bound under this device's topic, or the end.
EnrollResult ==
    /\ link = "up" /\ ~enrolled
    /\ \/ enrolled' = TRUE /\ UNCHANGED <<ownerVars, loopVars, endpoint, link, long, route, answering>>
       \/ Fail

\* The session has been up for a minute (the MQTT client gives up a connection
\* attempt long before that).
Lasted ==
    /\ link = "up" /\ HasFallback(cur) /\ ~long
    /\ long' = TRUE
    /\ UNCHANGED <<ownerVars, loopVars, endpoint, link, enrolled, route, answering>>

\* mqtt.route.set over the session; new endpoints end it at once.
RouteSet ==
    /\ link = "up" /\ enrolled
    /\ \E r \in 1..MaxRevision, b \in Members \cup {None} :
         route' = Applied(r, b, cur.home)
    /\ LET after == IF route'.home = cur.home THEN route'.broker ELSE None IN
       IF after = Member(cur) THEN UNCHANGED <<loopVars, sessionVars>>
       ELSE pc' = "read" /\ NoSession
            /\ UNCHANGED <<taken, cur, started, onFallback, failures>>
    /\ UNCHANGED <<ownerVars, answering>>

\* Some endpoints stop answering for good.
Outage ==
    /\ answering = UNION Outages
    /\ answering' \in Outages
    /\ UNCHANGED <<ownerVars, loopVars, sessionVars, route>>

\* The process starts again: the file is read, the defaults are applied once,
\* and a route file that cannot be used counts as the free route.
Restart ==
    /\ offer < MaxOffers
    /\ \E usable \in BOOLEAN :
         /\ config' = IF ~usable THEN Default
                      ELSE IF marker THEN file ELSE WithDefaults(file)
         /\ value' = IF usable THEN config' ELSE NoConfig
         /\ file' = IF usable THEN config' ELSE file
    /\ marker' = TRUE /\ unsent' = FALSE
    /\ offer' = offer + 1
    /\ route' \in {route, Free}
    /\ pc' = "read" /\ started' = FALSE /\ NoSession
    /\ onFallback' = FALSE /\ failures' = 0
    /\ UNCHANGED <<taken, cur, answering>>

Init ==
    /\ file = Default /\ config = Default /\ marker = FALSE /\ unsent = FALSE
    /\ offer = 1 /\ value = Default /\ taken = 0 /\ cur = NoConfig
    /\ pc = "read" /\ started = FALSE /\ onFallback = FALSE /\ failures = 0
    /\ endpoint = None /\ link = "down" /\ enrolled = FALSE /\ long = FALSE
    /\ route = Free /\ answering = UNION Outages

Owner == Update \/ QuickConnect \/ SaveFeatures

Loop == Adopt \/ Spread \/ Dial \/ Backoff

Session == EnrollResult \/ Lasted \/ RouteSet

Next ==
    \/ Owner \/ Activate \/ Loop \/ SeeChange \/ DialFails \/ ConnectionLost
    \/ RetryPrimary \/ ConnAck \/ Session \/ Outage \/ Restart

\* The supervisor runs.  A select! picks among its ready branches at random,
\* so one that is ready again and again is taken; a try that finds no broker
\* ends; a broker that answers is reached in the end; the timer of the
\* fallback expires.
Fairness ==
    /\ WF_vars(Loop) /\ WF_vars(Activate) /\ SF_vars(SeeChange)
    /\ WF_vars(DialFails) /\ SF_vars(ConnAck) /\ WF_vars(RetryPrimary)

Spec == Init /\ [][Next]_vars /\ Fairness

(***************************************************************************)
(* Properties.                                                             *)
(***************************************************************************)

\* The supervisor follows the settings as a last-value channel promises: it
\* works with the newest ones it could read, never goes back to older ones,
\* and no change is left unnoticed, whatever the session is doing when it
\* comes (watch channel, borrow_and_update and the copied receiver).
Latest == INSTANCE LatestValue WITH offered <- offer, taken <- taken
FollowsSettings == Latest!Spec

\* A session never talks to a member endpoint that another platform assigned,
\* and never keeps one that has been withdrawn, through moves between
\* platforms, restarts and route changes.
MemberAtHome ==
    endpoint \notin {None, Broker} =>
        /\ route.broker = endpoint
        /\ cur # NoConfig => route.home = cur.home

\* While the cloud stays enabled and some endpoint of the device answers, the
\* device keeps getting connected, whichever endpoint it is.
KeepsConnecting ==
    <>[](cur # NoConfig /\ pc # "off" /\ {Primary(cur), Broker} \cap answering # {})
        => []<>(link = "up")
=============================================================================
