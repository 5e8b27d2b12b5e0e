------------------------------- MODULE MCLive -------------------------------
(***************************************************************************)
(* What must eventually happen, in the parts where tasks wait for each     *)
(* other: the clock lease, the ubus executor, updates, a mesh session, a   *)
(* web shell and the state stream, in one run.  `live` says which part a   *)
(* behaviour is about; the others keep their initial state.  The fairness  *)
(* of a part is its module's.                                              *)
(***************************************************************************)
EXTENDS ClockDomain, TLC

CONSTANT None

VARIABLES live,
    qWaiting, qOwner, qQueue, qNotified, qPc, qMade,
    bStream, bSeq, bId, bDown, bPc, bCall, bReq, bRetry, bRelooked, bOpened,
    bDead, bObject, bChanges, bWire, bInbox, bSent, bRan, bForeign,
    oVersion, oEnabled, oOta, oDisk, oMarker, oPending, oHolder, oNms,
    oInstallers, oRequests, oReboots, oStoreErrors, oConfirmed, oCool,
    mRun, mPeer, mTasks, mGiveUp, mEverUp, mGrace, mExpired, mStop, mQueue,
    mRv, mRvStop, mPending, mOffers, mDrops,
    wSlots, wActive, wS,
    sConf, sPend, sWrites, sFails, sCache, sRound, sSnapshot, sTx, sStream

Queue == INSTANCE UbusQueue WITH
    Interactive <- {"i1", "i2"}, Collectors <- {"c1", "c2"}, MaxWaiting <- 1,
    MaxCalls <- 1,
    waiting <- qWaiting, owner <- qOwner, queue <- qQueue,
    notified <- qNotified, pc <- qPc, made <- qMade

Bus == INSTANCE UbusClient WITH
    Calls <- 2, MaxSeq <- 2, MaxChanges <- 1, OwnNotFound <- TRUE,
    stream <- bStream, seq <- bSeq, id <- bId, down <- bDown, pc <- bPc,
    call <- bCall, req <- bReq, retry <- bRetry, relooked <- bRelooked,
    opened <- bOpened, dead <- bDead, object <- bObject, changes <- bChanges,
    wire <- bWire, inbox <- bInbox, sent <- bSent, ran <- bRan,
    foreign <- bForeign

Update == INSTANCE Ota WITH
    MaxVersion <- 2, Auto <- FALSE, RetryDelay <- <<1, 1, 1>>,
    InstallWait <- 2, AutoEvery <- 1, Timely <- FALSE, ByHand <- {},
    Slots <- {"s1"}, MaxRequests <- 1, MaxReboots <- 1, MaxStoreErrors <- 1,
    version <- oVersion, enabled <- oEnabled, ota <- oOta, disk <- oDisk,
    marker <- oMarker, pending <- oPending, holder <- oHolder, nms <- oNms,
    installers <- oInstallers, requests <- oRequests, reboots <- oReboots,
    storeErrors <- oStoreErrors, confirmed <- oConfirmed, cool <- oCool

Mesh == INSTANCE MeshSession WITH
    QueueCap <- 1, MaxOffers <- 2, MaxDrops <- 3,
    run <- mRun, peer <- mPeer, tasks <- mTasks, give_up <- mGiveUp,
    ever_up <- mEverUp, grace <- mGrace, expired <- mExpired, stop <- mStop,
    queue <- mQueue, rv <- mRv, rv_stop <- mRvStop, pending <- mPending,
    offers <- mOffers, drops <- mDrops

Shell == INSTANCE WebShell WITH
    Clients <- {"a", "b"}, MaxSessions <- 1,
    slots <- wSlots, active <- wActive, s <- wS

State == INSTANCE StateStream WITH
    Rounds <- {"sampler", "other"}, Sampler <- "sampler", Streams <- {"e"},
    MaxStreams <- 1, Values <- {"x", "y"}, MaxWrites <- 1, MaxFails <- 1,
    conf <- sConf, pend <- sPend, writes <- sWrites, fails <- sFails,
    cache <- sCache, round <- sRound, snapshot <- sSnapshot, tx <- sTx,
    stream <- sStream

clockVars == vars
queueVars == <<qWaiting, qOwner, qQueue, qNotified, qPc, qMade>>
busVars == <<bStream, bSeq, bId, bDown, bPc, bCall, bReq, bRetry, bRelooked,
            bOpened, bDead, bObject, bChanges, bWire, bInbox, bSent, bRan,
            bForeign>>
otaVars == <<oVersion, oEnabled, oOta, oDisk, oMarker, oPending, oHolder, oNms,
            oInstallers, oRequests, oReboots, oStoreErrors, oConfirmed, oCool>>
meshVars == <<mRun, mPeer, mTasks, mGiveUp, mEverUp, mGrace, mExpired, mStop,
            mQueue, mRv, mRvStop, mPending, mOffers, mDrops>>
shellVars == <<wSlots, wActive, wS>>
stateVars == <<sConf, sPend, sWrites, sFails, sCache, sRound, sSnapshot, sTx,
            sStream>>
all == <<live, clockVars, queueVars, busVars, otaVars, meshVars, shellVars, stateVars>>

LiveInit ==
    /\ live \in {"clock", "queue", "bus", "ota", "mesh", "shell", "state"}
    /\ Init /\ Queue!Init /\ Bus!Init /\ Update!Init /\ Mesh!Init /\ Shell!Init /\ State!Init

\* A step of a part leaves the others alone.
InClock == live = "clock" /\ UNCHANGED <<live, queueVars, busVars, otaVars, meshVars, shellVars, stateVars>>
InQueue == live = "queue" /\ UNCHANGED <<live, clockVars, busVars, otaVars, meshVars, shellVars, stateVars>>
InBus == live = "bus" /\ UNCHANGED <<live, clockVars, queueVars, otaVars, meshVars, shellVars, stateVars>>
InUpdate == live = "ota" /\ UNCHANGED <<live, clockVars, queueVars, busVars, meshVars, shellVars, stateVars>>
InMesh == live = "mesh" /\ UNCHANGED <<live, clockVars, queueVars, busVars, otaVars, shellVars, stateVars>>
InShell == live = "shell" /\ UNCHANGED <<live, clockVars, queueVars, busVars, otaVars, meshVars, stateVars>>
InState == live = "state" /\ UNCHANGED <<live, clockVars, queueVars, busVars, otaVars, meshVars, shellVars>>

ClockStep == InClock /\ Next
QueueStep == InQueue /\ Queue!Next
BusStep == InBus /\ Bus!Next
UpdateStep == InUpdate /\ Update!Next
MeshStep == InMesh /\ Mesh!Next
ShellStep == InShell /\ Shell!Next
StateStep == InState /\ State!Next

LiveNext == ClockStep \/ QueueStep \/ BusStep \/ UpdateStep \/ MeshStep \/ ShellStep \/ StateStep

\* The fairness of each part is its module's.  A behaviour is about one part, so
\* one formula states the fairness of one action of each: Weak for a task that
\* goes on when it can, Strong for what a random select!, or a fair mutex, gives
\* its turn.
Weak1 ==
    \/ InClock /\ (LoadLeases("r1") \/ ExchangeLease("r1") \/ DropLease("r1"))
    \/ InQueue /\ (Queue!Refuse("i1") \/ Queue!DropTicket("i1") \/ Queue!Notify("i1"))
    \/ InUpdate /\ Update!Work
    \/ InMesh /\ Mesh!Spawn
    \/ InShell /\ Shell!Progress("a")
    \/ InState /\ State!Step("sampler")
Weak2 ==
    \/ InClock /\ (LoadLeases("r2") \/ ExchangeLease("r2") \/ DropLease("r2"))
    \/ InQueue /\ (Queue!Refuse("i2") \/ Queue!DropTicket("i2") \/ Queue!Notify("i2"))
    \/ InUpdate /\ Update!Tick
    \/ InMesh /\ Mesh!Return
    \/ InShell /\ Shell!Progress("b")
    \/ InState /\ (sRound["other"].at # "idle" /\ State!Step("other"))
Weak3 ==
    \/ InClock /\ Acquire("w1")
    \/ InQueue /\ (Queue!CheckWaiting("c1") \/ Queue!Wake("c1") \/ Queue!Recheck("c1"))
    \/ InBus /\ Bus!ClientStep
    \/ InMesh /\ Mesh!Connect
    \/ InShell /\ Shell!Writer("a")
    \/ InState /\ State!Send("e")
Weak4 ==
    \/ InClock /\ Acquire("w2")
    \/ InQueue /\ (Queue!CheckWaiting("c2") \/ Queue!Wake("c2") \/ Queue!Recheck("c2"))
    \/ InMesh /\ Mesh!Closed
    \/ InShell /\ Shell!Writer("b")
Weak5 ==
    \/ InClock /\ (SpinAgain("w1") \/ GiveUp("w1"))
    \/ InQueue /\ Queue!Share("i1")
    \/ InMesh /\ Mesh!Backoff
Weak6 ==
    \/ InClock /\ (SpinAgain("w2") \/ GiveUp("w2"))
    \/ InQueue /\ Queue!Share("i2")
    \/ InMesh /\ Mesh!Expire
Weak7 ==
    \/ InClock /\ (BumpGeneration("w1") \/ FreeLeases("w1") \/ ClearWaiting("w1"))
    \/ InQueue /\ Queue!Share("c1")
    \/ InMesh /\ Mesh!PeerEnds(1)
Weak8 ==
    \/ InClock /\ (BumpGeneration("w2") \/ FreeLeases("w2") \/ ClearWaiting("w2"))
    \/ InQueue /\ Queue!Share("c2")
    \/ InMesh /\ Mesh!PeerEnds(2)
Strong1 ==
    \/ InUpdate /\ Update!Round
    \/ InMesh /\ Mesh!Break
    \/ InShell /\ Shell!Break("a")
Strong2 ==
    \/ InUpdate /\ Update!TakeLock
    \/ InMesh /\ Mesh!Disconnect
    \/ InShell /\ Shell!Break("b")
Strong3 ==
    \/ InUpdate /\ Update!CloudResult

LiveSpec ==
    /\ LiveInit /\ [][LiveNext]_all
    /\ WF_all(Weak1) /\ WF_all(Weak2) /\ WF_all(Weak3) /\ WF_all(Weak4)
    /\ WF_all(Weak5) /\ WF_all(Weak6) /\ WF_all(Weak7) /\ WF_all(Weak8)
    /\ SF_all(Strong1) /\ SF_all(Strong2) /\ SF_all(Strong3)

-----------------------------------------------------------------------------
\* UbusQueue.ControlsFirst: a caller that queued is served or gives up, and
\* collection stands back meanwhile.
ControlsFirst == Queue!ControlsFirst

\* UbusClient.CallEnds: a call comes to an end, whatever ubusd does.
CallEnds == Bus!CallEnds

\* Ota.UpdatesSettle: installations and requests settle, whatever an installer does.
UpdatesSettle == Update!UpdatesSettle

\* MeshSession.NothingRuns: a session that ends leaves no task behind.
NothingRuns == Mesh!NothingRuns

\* WebShell.StopEnds and NoLeftover: a session that is to end gives its permit
\* back, and a permit that is free has left no process behind.
ShellEnds == []Shell!NoLeftover /\ Shell!StopEnds

\* StateStream.StreamConverges: streams come to show the device's state.
StreamConverges == State!StreamConverges
=============================================================================
