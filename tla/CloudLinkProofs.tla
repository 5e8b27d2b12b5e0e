-------------------------- MODULE CloudLinkProofs --------------------------
(***************************************************************************)
(* The supervisor of the cloud connection takes every step a last-value    *)
(* channel allows and no other (the safety part of the refinement; that    *)
(* the newest settings are always taken in the end is a matter of fairness *)
(* and stays with TLC), a session never outlives the member route it was   *)
(* dialled by, and a remote session never outlives its connection, for all *)
(* settings, endpoints, revisions, ids and limits.                         *)
(***************************************************************************)
EXTENDS CloudRemote, TLAPS

channel == <<offer, taken>>

\* Only the owner's saves, the activation and a restart offer settings, and
\* only the head of the supervisor's loop takes them.
LEMMA StepFollows ==
    ASSUME [Next]_vars
    PROVE  [Latest!Offer \/ Latest!Take]_channel
<1>1. CASE UNCHANGED vars
  BY <1>1 DEF vars, channel
<1>2. CASE Owner \/ Activate \/ Restart
  BY <1>2 DEF Owner, Update, QuickConnect, Save, SaveFeatures, Activate, Restart,
              loopVars, channel, Latest!Offer
<1>3. CASE Adopt
  <2>1. taken' = offer /\ offer' = offer
    BY <1>3 DEF Adopt, ownerVars
  <2> QED
    BY <2>1 DEF channel, Latest!Take
<1>4. CASE Spread \/ Dial \/ Backoff \/ SeeChange \/ RetryPrimary \/ Outage
  BY <1>4 DEF Spread, Dial, Backoff, SeeChange, RetryPrimary, Outage,
              ownerVars, loopVars, channel
<1>5. CASE DialFails \/ ConnectionLost \/ ConnAck
  BY <1>5 DEF DialFails, ConnectionLost, Fail, ConnAck, ownerVars, loopVars, channel
<1>6. CASE Session
  BY <1>6 DEF Session, EnrollResult, Fail, Lasted, RouteSet, ownerVars, loopVars, channel
<1> QED
  BY <1>1, <1>2, <1>3, <1>4, <1>5, <1>6 DEF Next, Loop

\* The supervisor implements the safety part of the last-value channel: it
\* takes nothing but the newest settings and never goes back to older ones
\* (watch channel, borrow_and_update in supervise).
THEOREM FollowsSafely ==
    Spec => Latest!Init /\ [][Latest!Offer \/ Latest!Take]_channel
<1>1. Init => Latest!Init
  BY DEF Init, Latest!Init
<1> QED
  BY <1>1, StepFollows, PTL DEF Spec

(***************************************************************************)
(* The member route.                                                       *)
(***************************************************************************)

\* There is an endpoint only in a session, and a member endpoint is the one
\* the route assigns at the platform of the settings in use.  (MemberAtHome
\* says nothing of the settings when there are none.)
RouteInv ==
    /\ pc # "session" => endpoint = None
    /\ endpoint \notin {None, Broker} =>
          route.broker = endpoint /\ route.home = cur.home

\* The session starts with an endpoint of the current route.
LEMMA DialRoute ==
    ASSUME RouteInv, Dial
    PROVE  RouteInv'
<1>1. endpoint' \in {Broker, Primary(cur)} /\ pc' = "session"
  BY DEF Dial
<1>2. route' = route /\ cur' = cur
  BY DEF Dial
<1>3. Primary(cur) # Broker /\ Primary(cur) # None =>
        route.broker = Primary(cur) /\ route.home = cur.home
  BY DEF Primary, Member
<1> QED
  BY <1>1, <1>2, <1>3 DEF RouteInv

\* A new route that changes the member endpoint ends the session at once.
LEMMA RouteSetRoute ==
    ASSUME RouteInv, RouteSet
    PROVE  RouteInv'
<1> DEFINE after == IF route'.home = cur.home THEN route'.broker ELSE None
<1>1. CASE after = Member(cur)
  <2>1. pc' = pc /\ cur' = cur /\ endpoint' = endpoint
    BY <1>1 DEF RouteSet, loopVars, sessionVars
  <2>2. endpoint \notin {None, Broker} => Member(cur) = endpoint
    BY DEF RouteInv, Member
  <2>3. endpoint \notin {None, Broker} =>
          route'.broker = endpoint /\ route'.home = cur.home
    BY <1>1, <2>2
  <2> QED
    BY <2>1, <2>3 DEF RouteInv
<1>2. CASE after # Member(cur)
  <2>1. endpoint' = None
    BY <1>2 DEF RouteSet, NoSession
  <2> QED
    BY <2>1 DEF RouteInv
<1> QED
  BY <1>1, <1>2

\* No step leaves a session at an endpoint its route does not assign.
LEMMA StepRoute ==
    ASSUME RouteInv, [Next]_vars
    PROVE  RouteInv'
<1>1. CASE UNCHANGED vars
  BY <1>1 DEF vars, RouteInv
<1>2. CASE Owner \/ Activate \/ Outage \/ Lasted \/ ConnAck
  <2>1. UNCHANGED <<pc, endpoint, route, cur>>
    BY <1>2 DEF Owner, Update, QuickConnect, Save, SaveFeatures, Activate, Outage,
                Lasted, ConnAck, loopVars, sessionVars
  <2> QED
    BY <2>1 DEF RouteInv
<1>3. CASE Adopt \/ Spread \/ Backoff
  <2>1. pc # "session" /\ endpoint' = endpoint
    BY <1>3 DEF Adopt, Spread, Backoff, sessionVars
  <2> QED
    BY <2>1 DEF RouteInv
<1>4. CASE SeeChange \/ RetryPrimary \/ Restart \/ DialFails \/ ConnectionLost \/ Fail
  <2>1. endpoint' = None
    BY <1>4 DEF SeeChange, RetryPrimary, Restart, DialFails, ConnectionLost, Fail, NoSession
  <2> QED
    BY <2>1 DEF RouteInv
<1>5. CASE EnrollResult
  <2>1. CASE Fail
    BY <1>4, <2>1
  <2>2. CASE UNCHANGED <<ownerVars, loopVars, endpoint, link, long, route, answering>>
    BY <2>2 DEF RouteInv, loopVars
  <2> QED
    BY <1>5, <2>1, <2>2 DEF EnrollResult
<1>6. CASE Dial
  BY <1>6, DialRoute
<1>7. CASE RouteSet
  BY <1>7, RouteSetRoute
<1> QED
  BY <1>1, <1>2, <1>3, <1>4, <1>5, <1>6, <1>7 DEF Next, Loop, Session

\* A session never talks to a member endpoint of another platform, nor to one
\* that has been withdrawn (mqtt.route.set, load_route, the endpoint choice of
\* supervise), through moves between platforms, restarts and route changes.
THEOREM MemberAtHomeHolds == Spec => []MemberAtHome
<1>1. Init => RouteInv
  BY DEF Init, RouteInv
<1>2. RouteInv /\ [Next]_vars => RouteInv'
  BY StepRoute
<1>3. RouteInv => MemberAtHome
  BY DEF RouteInv, MemberAtHome
<1> QED
  BY <1>1, <1>2, <1>3, PTL DEF Spec

(***************************************************************************)
(* Remote sessions.                                                        *)
(***************************************************************************)

Tunnel ==
    [id : Ids, mine : BOOLEAN, kind : Kinds, ver : Nat, stop : BOOLEAN,
     stage : {"open", "busy", "leaving"}]

RemoteTypes ==
    /\ offer \in Nat /\ taken \in Nat
    /\ tunnels \subseteq Tunnel
    /\ active \subseteq Ids /\ seen \subseteq Ids /\ held \subseteq Ids

\* A connection is being made, or there is one, only inside a session.
LinkInv ==
    /\ link \in {"down", "dialing", "up"}
    /\ pc # "session" => link = "down"

Running == {t \in Mine : t.stage # "leaving"}

\* What the tables of the bridge manager and the tasks it started have to do
\* with one another: a session that is being made starts without either, an
\* id has one task, and no id of a task or of a close is forgotten.
TableInv ==
    /\ link = "dialing" => Mine = {}
    /\ link # "down" => active = {t.id : t \in Running}
    /\ \A t \in Mine : t.id \in seen
    /\ \A t, u \in Mine : t.id = u.id => t = u
    /\ held \subseteq seen

RemoteInv ==
    RouteInv /\ RemoteTypes /\ LinkInv /\ TableInv /\ TunnelsFollow /\ ClosedStaysClosed

\* Every step of the supervisor keeps the connection inside a session.
LEMMA StepLink ==
    ASSUME RemoteTypes, LinkInv, [Next]_vars
    PROVE  LinkInv' /\ offer' \in Nat /\ taken' \in Nat
<1> USE DEF RemoteTypes, LinkInv
<1>1. CASE UNCHANGED vars
  BY <1>1 DEF vars
<1>2. CASE Owner \/ Activate \/ Outage
  BY <1>2 DEF Owner, Update, QuickConnect, Save, SaveFeatures, Activate, Outage,
              ownerVars, loopVars, sessionVars
<1>3. CASE Adopt \/ Spread \/ Backoff \/ Dial
  BY <1>3 DEF Adopt, Spread, Backoff, Dial, ownerVars, sessionVars
<1>4. CASE SeeChange \/ RetryPrimary \/ Restart
  BY <1>4 DEF SeeChange, RetryPrimary, Restart, ownerVars, NoSession
<1>5. CASE Fail
  BY <1>5 DEF Fail, ownerVars, NoSession
<1>6. CASE ConnAck \/ Lasted
  BY <1>6 DEF ConnAck, Lasted, ownerVars, loopVars
<1>7. CASE EnrollResult
  BY <1>5, <1>7 DEF EnrollResult, ownerVars, loopVars
<1>8. CASE RouteSet
  BY <1>8 DEF RouteSet, ownerVars, loopVars, sessionVars, NoSession
<1> QED
  BY <1>1, <1>2, <1>3, <1>4, <1>5, <1>6, <1>7, <1>8
     DEF Next, Loop, Session, DialFails, ConnectionLost

\* The steps of the connection but for a restart of the process.
ConnectionStep ==
    \/ Owner \/ Activate \/ Loop \/ SeeChange \/ DialFails \/ ConnectionLost
    \/ RetryPrimary \/ ConnAck \/ Session \/ Outage

\* The steps of the connection, as far as they touch the remote sessions: the
\* settings in use change only outside a session, a session is made from the
\* head of the inner loop, and comes up only from being made.
LEMMA StepShape ==
    ASSUME RemoteTypes, LinkInv, ConnectionStep
    PROVE  /\ link # "down" => taken' = taken
           /\ link' = "dialing" => link = "dialing" \/ (pc = "dial" /\ pc' = "session")
           /\ link' = "up" => link \in {"dialing", "up"}
           /\ pc = "dial" /\ pc' = "session" => link = "down" /\ link' = "dialing"
<1> USE DEF RemoteTypes, LinkInv
<1>2. CASE Owner \/ Activate \/ Outage
  BY <1>2 DEF Owner, Update, QuickConnect, Save, SaveFeatures, Activate, Outage,
              ownerVars, loopVars, sessionVars
<1>3. CASE Adopt \/ Spread \/ Backoff \/ Dial
  BY <1>3 DEF Adopt, Spread, Backoff, Dial, ownerVars, sessionVars
<1>4. CASE SeeChange \/ RetryPrimary
  BY <1>4 DEF SeeChange, RetryPrimary, ownerVars, NoSession
<1>5. CASE Fail
  BY <1>5 DEF Fail, ownerVars, NoSession, AfterFailure
<1>6. CASE ConnAck \/ Lasted
  BY <1>6 DEF ConnAck, Lasted, ownerVars, loopVars
<1>7. CASE EnrollResult
  BY <1>5, <1>7 DEF EnrollResult, ownerVars, loopVars
<1>8. CASE RouteSet
  BY <1>8 DEF RouteSet, ownerVars, loopVars, sessionVars, NoSession
<1> QED
  BY <1>2, <1>3, <1>4, <1>5, <1>6, <1>7, <1>8
     DEF ConnectionStep, Loop, Session, DialFails, ConnectionLost

\* A step of the connection other than a restart keeps the tables, the tasks
\* and the connection in step.
LEMMA LinkStepRemote ==
    ASSUME RemoteInv, NEW ACTION Step, LinkStep(Step), ConnectionStep
    PROVE  RemoteTypes' /\ TableInv' /\ TunnelsFollow' /\ ClosedStaysClosed'
<1> USE DEF RemoteInv
<1>1. LinkInv' /\ offer' \in Nat /\ taken' \in Nat
  BY StepLink DEF ConnectionStep, Next
<1>2. /\ link # "down" => taken' = taken
      /\ link' = "dialing" => link = "dialing" \/ (pc = "dial" /\ pc' = "session")
      /\ link' = "up" => link \in {"dialing", "up"}
      /\ pc = "dial" /\ pc' = "session" => link = "down" /\ link' = "dialing"
  BY StepShape
<1>3. CASE pc = "dial" /\ pc' = "session"
  <2>1. /\ active' = {} /\ seen' = {} /\ held' = {}
        /\ tunnels' = {[t EXCEPT !.mine = FALSE, !.ver = 0] : t \in tunnels}
    BY <1>3 DEF LinkStep
  <2>2. \A t \in tunnels : t \in Tunnel /\ t.stop
    BY <1>2, <1>3 DEF RemoteTypes, TunnelsFollow, Tunnel
  <2>3. \A t \in tunnels' : t \in Tunnel /\ t.stop /\ ~t.mine
    <3>1. ASSUME NEW t \in tunnels
          PROVE  LET n == [t EXCEPT !.mine = FALSE, !.ver = 0]
                 IN  n \in Tunnel /\ n.stop /\ ~n.mine
      BY <2>2 DEF Tunnel
    <3> QED
      BY <2>1, <3>1
  <2>4. RemoteTypes' /\ Mine' = {} /\ Running' = {}
    BY <1>1, <2>1, <2>3 DEF RemoteTypes, Mine, Running
  <2> QED
    BY <2>1, <2>3, <2>4 DEF TableInv, TunnelsFollow, ClosedStaysClosed
<1>4. CASE ~(pc = "dial" /\ pc' = "session") /\ link # "down" /\ link' = "down"
  <2>1. tunnels' = StopAll /\ UNCHANGED <<active, seen, held>>
    BY <1>4 DEF LinkStep
  <2>2. \A u \in tunnels' : \E t \in tunnels : u = [t EXCEPT !.stop = TRUE]
    BY <2>1 DEF StopAll
  <2>3. \A t \in tunnels : t \in Tunnel
    BY DEF RemoteTypes
  <2>4. \A u \in tunnels' : u \in Tunnel /\ u.stop
    BY <2>2, <2>3 DEF Tunnel
  <2>5. \A u \in Mine' : \E t \in Mine : u = [t EXCEPT !.stop = TRUE] /\ t \in Tunnel
    BY <2>2, <2>3 DEF Mine, Tunnel
  <2>6. \A u \in Mine' : u.id \in seen'
    BY <2>1, <2>5 DEF TableInv, Tunnel
  <2>7. ASSUME NEW u \in Mine', NEW v \in Mine', u.id = v.id
        PROVE  u = v
    <3>1. PICK t \in Mine : u = [t EXCEPT !.stop = TRUE] /\ t \in Tunnel
      BY <2>5
    <3>2. PICK w \in Mine : v = [w EXCEPT !.stop = TRUE] /\ w \in Tunnel
      BY <2>5
    <3>3. t.id = w.id
      BY <2>7, <3>1, <3>2 DEF Tunnel
    <3> QED
      BY <3>1, <3>2, <3>3 DEF TableInv
  <2> QED
    BY <1>1, <1>4, <2>1, <2>4, <2>6, <2>7
       DEF RemoteTypes, TableInv, TunnelsFollow, ClosedStaysClosed, Mine
<1>5. CASE ~(pc = "dial" /\ pc' = "session") /\ ~(link # "down" /\ link' = "down")
  <2>1. UNCHANGED <<tunnels, active, seen, held>>
    BY <1>5 DEF LinkStep
  <2>2. Mine' = Mine /\ Running' = Running
    BY <2>1 DEF Mine, Running
  <2>3. TunnelsFollow'
    BY <1>1, <1>2, <1>5, <2>1 DEF TunnelsFollow, LinkInv
  <2>4. TableInv'
    BY <1>1, <1>2, <1>5, <2>1, <2>2 DEF TableInv, LinkInv
  <2> QED
    BY <1>1, <2>1, <2>2, <2>3, <2>4 DEF RemoteTypes, ClosedStaysClosed
<1> QED
  BY <1>3, <1>4, <1>5

\* One task goes from one stage to another.  Nothing else of it changes.
LEMMA StageStep ==
    ASSUME RemoteInv, NEW t \in tunnels, NEW s \in {"open", "busy", "leaving"},
           tunnels' = (tunnels \ {t}) \cup {[t EXCEPT !.stage = s]},
           UNCHANGED <<vars, seen, held>>
    PROVE  /\ tunnels' \subseteq Tunnel /\ LinkInv' /\ TunnelsFollow' /\ ClosedStaysClosed'
           /\ link' = "dialing" => Mine' = {}
           /\ \A u \in Mine' : u.id \in seen'
           /\ \A u, v \in Mine' : u.id = v.id => u = v
           /\ t.stage # "leaving" /\ s # "leaving" =>
                 {u.id : u \in Running'} = {u.id : u \in Running}
           /\ ~t.mine => {u.id : u \in Running'} = {u.id : u \in Running}
           /\ t.mine /\ s = "leaving" =>
                 {u.id : u \in Running'} = {u.id : u \in Running} \ {t.id}
<1> USE DEF RemoteInv
<1> DEFINE n == [t EXCEPT !.stage = s]
<1>1. /\ n \in Tunnel /\ n.id = t.id /\ n.mine = t.mine /\ n.stop = t.stop
      /\ n.ver = t.ver /\ n.stage = s
  BY DEF RemoteTypes, Tunnel
<1>2. tunnels' = (tunnels \ {t}) \cup {n}
  OBVIOUS
<1> HIDE DEF n
<1>3. UNCHANGED <<link, pc, taken, offer>>
  BY DEF vars
<1>4. tunnels' \subseteq Tunnel /\ LinkInv' /\ TunnelsFollow'
  BY <1>1, <1>2, <1>3 DEF RemoteTypes, LinkInv, TunnelsFollow
<1>5. Mine' = IF t.mine THEN (Mine \ {t}) \cup {n} ELSE Mine
  BY <1>1, <1>2 DEF Mine
<1>6. ClosedStaysClosed'
  BY <1>1, <1>2, <1>5 DEF ClosedStaysClosed, Mine
<1>7. /\ link' = "dialing" => Mine' = {}
      /\ \A u \in Mine' : u.id \in seen'
  BY <1>1, <1>3, <1>5 DEF TableInv, Mine
<1>8. \A u, v \in Mine' : u.id = v.id => u = v
  BY <1>1, <1>5 DEF TableInv, Mine
<1>9. ~t.mine => {u.id : u \in Running'} = {u.id : u \in Running}
  BY <1>5 DEF Running
<1>10. ASSUME t.mine
       PROVE  /\ Running' = (Running \ {t}) \cup (IF s = "leaving" THEN {} ELSE {n})
              /\ \A u \in Running : u.id = t.id => u = t
              /\ t.stage # "leaving" => t \in Running
  BY <1>1, <1>5, <1>10 DEF Running, TableInv, Mine
<1>11. t.mine /\ s = "leaving" =>
         {u.id : u \in Running'} = {u.id : u \in Running} \ {t.id}
  BY <1>10
<1>12. t.mine /\ t.stage # "leaving" /\ s # "leaving" =>
         {u.id : u \in Running'} = {u.id : u \in Running}
  BY <1>1, <1>10
<1> QED
  BY <1>4, <1>6, <1>7, <1>8, <1>9, <1>11, <1>12

\* A stage step that leaves the table alone, or frees the task's own slot.
LEMMA StageRemote ==
    ASSUME RemoteInv, Request \/ Answer \/ Leave
    PROVE  RemoteInv'
<1> USE DEF RemoteInv
<1>1. UNCHANGED <<vars, seen, held>>
  BY DEF Request, Answer, Leave
<1>2. RouteInv' /\ offer' \in Nat /\ taken' \in Nat /\ link' = link
  BY <1>1 DEF vars, RouteInv, RemoteTypes
<1>3. CASE Request \/ Answer
  <2>1. PICK t \in tunnels, s \in {"open", "busy"} :
          /\ t.stage # "leaving"
          /\ tunnels' = (tunnels \ {t}) \cup {[t EXCEPT !.stage = s]}
          /\ active' = active
    BY <1>3 DEF Request, Answer
  <2>2. s \in {"open", "busy", "leaving"}
    OBVIOUS
  <2>3. /\ tunnels' \subseteq Tunnel /\ LinkInv' /\ TunnelsFollow' /\ ClosedStaysClosed'
        /\ link' = "dialing" => Mine' = {}
        /\ \A u \in Mine' : u.id \in seen'
        /\ \A u, v \in Mine' : u.id = v.id => u = v
        /\ {u.id : u \in Running'} = {u.id : u \in Running}
    BY <1>1, <2>1, <2>2, StageStep
  <2> QED
    BY <1>1, <1>2, <2>1, <2>3 DEF RemoteTypes, TableInv
<1>4. CASE Leave
  <2>1. PICK t \in tunnels :
          /\ tunnels' = (tunnels \ {t}) \cup {[t EXCEPT !.stage = "leaving"]}
          /\ active' = Freed(t)
    BY <1>4 DEF Leave
  <2>2. t.mine \in BOOLEAN
    BY DEF RemoteTypes, Tunnel
  <2>3. /\ tunnels' \subseteq Tunnel /\ LinkInv' /\ TunnelsFollow' /\ ClosedStaysClosed'
        /\ link' = "dialing" => Mine' = {}
        /\ \A u \in Mine' : u.id \in seen'
        /\ \A u, v \in Mine' : u.id = v.id => u = v
        /\ ~t.mine => {u.id : u \in Running'} = {u.id : u \in Running}
        /\ t.mine => {u.id : u \in Running'} = {u.id : u \in Running} \ {t.id}
    BY <1>1, <2>1, StageStep
  <2>4. active' \subseteq Ids
    BY <2>1 DEF RemoteTypes, Freed
  <2>5. link' # "down" => active' = {u.id : u \in Running'}
    BY <1>2, <2>1, <2>3 DEF TableInv, Freed
  <2> QED
    BY <1>1, <1>2, <2>3, <2>4, <2>5 DEF RemoteTypes, TableInv
<1> QED
  BY <1>3, <1>4

\* A task that has left its slot goes; ids that no task holds are forgotten.
LEMMA GoneRemote ==
    ASSUME RemoteInv, Gone \/ Forget
    PROVE  RemoteInv'
<1> USE DEF RemoteInv
<1>1. UNCHANGED <<link, pc, taken, offer, endpoint, route, cur, active>>
  BY DEF Gone, Forget, vars
<1>2. RouteInv' /\ LinkInv'
  BY <1>1 DEF RouteInv, LinkInv
<1>3. CASE Gone
  <2>1. PICK t \in tunnels : t.stage = "leaving" /\ tunnels' = tunnels \ {t}
    BY <1>3 DEF Gone
  <2>2. Mine' = Mine \ {t} /\ Running' = Running /\ UNCHANGED <<seen, held>>
    BY <1>3, <2>1 DEF Gone, Mine, Running
  <2> QED
    BY <1>1, <1>2, <2>1, <2>2
       DEF RemoteTypes, TableInv, TunnelsFollow, ClosedStaysClosed, Mine
<1>4. CASE Forget
  <2>1. PICK i \in seen \ {t.id : t \in Mine} : seen' = seen \ {i} /\ held' = held \ {i}
    BY <1>4 DEF Forget
  <2>2. Mine' = Mine /\ Running' = Running /\ tunnels' = tunnels
    BY <1>4 DEF Forget, Mine, Running
  <2> QED
    BY <1>1, <1>2, <2>1, <2>2
       DEF RemoteTypes, TableInv, TunnelsFollow, ClosedStaysClosed
<1> QED
  BY <1>3, <1>4

\* The tasks once those of an id have been told to stop.
Stopped(i) == {IF t.id = i /\ t.mine THEN [t EXCEPT !.stop = TRUE] ELSE t : t \in tunnels}

\* The tasks T are those of now, but for stop signals, and those of i have one.
StopsOnly(T, i) ==
    /\ T \subseteq Tunnel
    /\ \A u \in T : /\ ~u.stop => u \in tunnels
                    /\ u.id = i /\ u.mine => u.stop
    /\ \A u \in T : u.mine =>
          \E t \in Mine : u.id = t.id /\ u.stage = t.stage /\ (t.stop => u.stop)
    /\ \A t \in Mine : \E u \in T : u.mine /\ u.id = t.id /\ u.stage = t.stage
    /\ \A u, v \in T : u.mine /\ v.mine /\ u.id = v.id => u = v

\* What stopping the tasks of an id leaves as it was.
LEMMA StopOne ==
    ASSUME RemoteInv, NEW i
    PROVE  StopsOnly(Stopped(i), i)
<1> USE DEF RemoteInv
<1> DEFINE N(t) == IF t.id = i /\ t.mine THEN [t EXCEPT !.stop = TRUE] ELSE t
<1>1. ASSUME NEW t \in tunnels
      PROVE  /\ N(t) \in Tunnel /\ t \in Tunnel
             /\ N(t).id = t.id /\ N(t).mine = t.mine /\ N(t).stage = t.stage
             /\ t.stop => N(t).stop
             /\ ~N(t).stop => N(t) = t
             /\ t.id = i /\ t.mine => N(t).stop
  BY DEF RemoteTypes, Tunnel
<1>2. Stopped(i) = {N(t) : t \in tunnels}
  BY DEF Stopped
<1> HIDE DEF N
<1>3. \A u \in Stopped(i) : \E t \in tunnels : u = N(t)
  BY <1>2
<1>4. \A t \in tunnels : N(t) \in Stopped(i)
  BY <1>2
<1>5. Stopped(i) \subseteq Tunnel
  BY <1>1, <1>3
<1>6. \A u \in Stopped(i) : /\ ~u.stop => u \in tunnels
                            /\ u.id = i /\ u.mine => u.stop
  BY <1>1, <1>3
<1>7. \A u \in Stopped(i) : u.mine =>
        \E t \in Mine : u.id = t.id /\ u.stage = t.stage /\ (t.stop => u.stop)
  BY <1>1, <1>3 DEF Mine
<1>8. \A t \in Mine : \E u \in Stopped(i) : u.mine /\ u.id = t.id /\ u.stage = t.stage
  BY <1>1, <1>4 DEF Mine
<1>9. ASSUME NEW u \in Stopped(i), NEW v \in Stopped(i), u.mine, v.mine, u.id = v.id
      PROVE  u = v
  <2>1. PICK t \in tunnels : u = N(t)
    BY <1>3
  <2>2. PICK w \in tunnels : v = N(w)
    BY <1>3
  <2>3. t \in Mine /\ w \in Mine /\ t.id = w.id
    BY <1>1, <1>9, <2>1, <2>2 DEF Mine
  <2> QED
    BY <2>1, <2>2, <2>3 DEF TableInv
<1> HIDE DEF RemoteInv
<1> QED
  BY <1>5, <1>6, <1>7, <1>8, <1>9, Zenon DEF StopsOnly

\* close stops the tasks of the id and remembers it.
LEMMA CloseRemote ==
    ASSUME RemoteInv, Close
    PROVE  RemoteInv'
<1> USE DEF RemoteInv
<1>1. UNCHANGED <<link, pc, taken, offer, endpoint, route, cur, active>>
  BY DEF Close, vars
<1>2. RouteInv' /\ LinkInv'
  BY <1>1 DEF RouteInv, LinkInv
<1>3. PICK i \in Ids :
        /\ tunnels' = Stopped(i)
        /\ seen' = IF i \in {t.id : t \in Mine} THEN seen ELSE Remember(i)
        /\ held' = IF Cardinality(seen) < MaxSeen \/ i \in seen THEN held \cup {i} ELSE held
  BY DEF Close, Stopped
<1>4. /\ tunnels' \subseteq Tunnel
      /\ \A u \in tunnels' : /\ ~u.stop => u \in tunnels
                             /\ u.id = i /\ u.mine => u.stop
      /\ \A u \in tunnels' : u.mine =>
            \E t \in Mine : u.id = t.id /\ u.stage = t.stage /\ (t.stop => u.stop)
      /\ \A t \in Mine : \E u \in tunnels' : u.mine /\ u.id = t.id /\ u.stage = t.stage
      /\ \A u, v \in tunnels' : u.mine /\ v.mine /\ u.id = v.id => u = v
  <2>1. StopsOnly(Stopped(i), i)
    BY StopOne
  <2> QED
    BY <1>3, <2>1 DEF StopsOnly
<1>5. seen \subseteq seen' /\ seen' \subseteq Ids /\ held' \subseteq seen \cup {i}
  BY <1>3 DEF Remember, TableInv, RemoteTypes
<1>6. held' \subseteq seen'
  BY <1>3 DEF Remember, TableInv
<1>7. \A u \in Mine' : u.id \in seen'
  BY <1>4, <1>5 DEF TableInv, Mine
<1>8. {u.id : u \in Running'} = {t.id : t \in Running}
  BY <1>4 DEF Running, Mine
<1>9. link' = "dialing" => Mine' = {}
  BY <1>1, <1>4 DEF TableInv, Mine
<1>10. TableInv'
  BY <1>1, <1>4, <1>6, <1>7, <1>8, <1>9 DEF TableInv, Mine
<1>11. TunnelsFollow'
  BY <1>1, <1>4 DEF TunnelsFollow
<1>12. ASSUME NEW u \in Mine', u.id \in held'
       PROVE  u.stop
  <2>1. u.id = i \/ u.id \in held
    BY <1>3, <1>12
  <2>2. PICK t \in Mine : u.id = t.id /\ (t.stop => u.stop)
    BY <1>4 DEF Mine
  <2> QED
    BY <1>4, <2>1, <2>2 DEF ClosedStaysClosed, Mine
<1>13. RemoteTypes'
  BY <1>1, <1>4, <1>5, <1>6 DEF RemoteTypes
<1> QED
  BY <1>2, <1>10, <1>11, <1>12, <1>13 DEF ClosedStaysClosed

\* remote.open of an id not seen: no task of this session had it.
LEMMA OpenRemote ==
    ASSUME RemoteInv, Open
    PROVE  RemoteInv'
<1> USE DEF RemoteInv
<1>1. UNCHANGED <<link, pc, taken, offer, endpoint, route, cur, held>> /\ link = "up"
  BY DEF Open, vars
<1>2. RouteInv' /\ LinkInv'
  BY <1>1 DEF RouteInv, LinkInv
<1> DEFINE New(i, k) == [id |-> i, mine |-> TRUE, kind |-> k, ver |-> taken,
                         stop |-> FALSE, stage |-> "open"]
<1>3. PICK i \in Ids \ seen, k \in Kinds :
        /\ tunnels' = Stopped(i) \cup {New(i, k)}
        /\ active' = active \cup {i} /\ seen' = seen \cup {i}
  BY DEF Open, Stopped
<1> DEFINE n == New(i, k)
<1>4. /\ n \in Tunnel /\ n.id = i /\ n.mine /\ n.ver = taken /\ ~n.stop /\ n.stage = "open"
  BY DEF Tunnel, RemoteTypes
<1>5. tunnels' = Stopped(i) \cup {n}
  BY <1>3
<1> HIDE DEF n, New
<1>6. /\ Stopped(i) \subseteq Tunnel
      /\ \A u \in Stopped(i) : ~u.stop => u \in tunnels
      /\ \A u \in Stopped(i) : u.mine =>
            \E t \in Mine : u.id = t.id /\ u.stage = t.stage /\ (t.stop => u.stop)
      /\ \A t \in Mine : \E u \in Stopped(i) : u.mine /\ u.id = t.id /\ u.stage = t.stage
      /\ \A u, v \in Stopped(i) : u.mine /\ v.mine /\ u.id = v.id => u = v
  <2>1. StopsOnly(Stopped(i), i)
    BY StopOne
  <2> QED
    BY <2>1 DEF StopsOnly
<1>7. \A u \in Stopped(i) : u.mine => u.id # i /\ u.id \in seen
  BY <1>6 DEF TableInv
<1>8. \A u, v \in Mine' : u.id = v.id => u = v
  BY <1>4, <1>5, <1>6, <1>7 DEF Mine
<1>9. \A u \in Mine' : u.id \in seen'
  BY <1>3, <1>4, <1>5, <1>7 DEF Mine
<1>10. {u.id : u \in Running'} = {t.id : t \in Running} \cup {i}
  <2>1. \A u \in Running' : u.id = i \/ \E t \in Running : u.id = t.id
    BY <1>4, <1>5, <1>6 DEF Running, Mine
  <2>2. n \in Running'
    BY <1>4, <1>5 DEF Running, Mine
  <2>3. \A t \in Running : \E u \in Running' : u.id = t.id
    BY <1>5, <1>6 DEF Running, Mine
  <2> QED
    BY <1>4, <2>1, <2>2, <2>3
<1>11. TableInv'
  BY <1>1, <1>3, <1>8, <1>9, <1>10 DEF TableInv
<1>12. TunnelsFollow'
  BY <1>1, <1>4, <1>5, <1>6 DEF TunnelsFollow
<1>13. ASSUME NEW u \in Mine', u.id \in held'
       PROVE  u.stop
  <2>1. u.id # i
    BY <1>1, <1>3, <1>13 DEF TableInv
  <2>2. PICK t \in Mine : u.id = t.id /\ (t.stop => u.stop)
    BY <1>4, <1>5, <1>6, <2>1 DEF Mine
  <2> QED
    BY <1>1, <1>13, <2>2 DEF ClosedStaysClosed
<1>14. RemoteTypes'
  BY <1>1, <1>3, <1>4, <1>5, <1>6 DEF RemoteTypes
<1> QED
  BY <1>2, <1>11, <1>12, <1>13, <1>14 DEF ClosedStaysClosed

\* Every step of the connection and of its remote sessions.
LEMMA StepRemote ==
    ASSUME RemoteInv, [RemoteNext]_remoteSpecVars
    PROVE  RemoteInv'
<1> USE DEF RemoteInv
<1>1. CASE UNCHANGED remoteSpecVars
  BY <1>1 DEF remoteSpecVars, vars, remoteVars, RouteInv, RemoteTypes, LinkInv, TableInv,
              TunnelsFollow, ClosedStaysClosed, Mine, Running
<1>2. CASE RestartAll
  <2>1. Restart
    BY <1>2 DEF RestartAll
  <2>2. RouteInv' /\ LinkInv' /\ offer' \in Nat /\ taken' \in Nat
    BY <2>1, StepRoute, StepLink DEF Next
  <2>3. /\ tunnels' = {} /\ UNCHANGED <<active, seen, held>> /\ link' = "down"
        /\ Mine' = {} /\ Running' = {}
    BY <1>2 DEF RestartAll, Restart, NoSession, Mine, Running
  <2> QED
    BY <2>2, <2>3 DEF RemoteTypes, TableInv, TunnelsFollow, ClosedStaysClosed
<1>3. ASSUME NEW ACTION Step, LinkStep(Step), Step => ConnectionStep
      PROVE  RemoteInv'
  <2>1. ConnectionStep
    BY <1>3 DEF LinkStep
  <2>2. RouteInv' /\ LinkInv'
    BY <2>1, StepRoute, StepLink DEF Next, ConnectionStep
  <2>3. RemoteTypes' /\ TableInv' /\ TunnelsFollow' /\ ClosedStaysClosed'
    BY <1>3, <2>1, LinkStepRemote
  <2> QED
    BY <2>2, <2>3
<1>4. CASE \/ LinkStep(Owner) \/ LinkStep(Activate) \/ LinkStep(Loop) \/ LinkStep(SeeChange)
           \/ LinkStep(DialFails) \/ LinkStep(ConnectionLost) \/ LinkStep(RetryPrimary)
           \/ LinkStep(ConnAck) \/ LinkStep(Session) \/ LinkStep(Outage)
  BY <1>3, <1>4, Zenon DEF ConnectionStep
<1>5. CASE Open \/ Close \/ Forget \/ Request \/ Answer \/ Leave \/ Gone
  BY <1>5, OpenRemote, CloseRemote, GoneRemote, StageRemote
<1> QED
  BY <1>1, <1>2, <1>4, <1>5 DEF RemoteNext

\* Remote access follows the connection, its settings and the platform's word
\* (BridgeManager::receive, close and shutdown, run_session), for any number
\* of ids, tunnels and reconnections: no tunnel outlives its connection or the
\* settings that allowed it, the slots are those of the running tunnels, a
\* closed id stays closed, and the endpoint is of the current route.
THEOREM RemoteSafeHolds == RemoteSpec => []RemoteSafe
<1>1. RemoteInit => RemoteInv
  BY DEF RemoteInit, Init, RemoteInv, RouteInv, RemoteTypes, LinkInv, TableInv,
         TunnelsFollow, ClosedStaysClosed, Mine, Running
<1>2. RemoteInv /\ [RemoteNext]_remoteSpecVars => RemoteInv'
  BY StepRemote
<1>3. RemoteInv => RemoteSafe
  BY DEF RemoteInv, RemoteSafe, RouteInv, MemberAtHome, TableInv, SlotsExact, Running
<1> QED
  BY <1>1, <1>2, <1>3, PTL DEF RemoteSpec
=============================================================================
