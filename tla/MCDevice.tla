------------------------------ MODULE MCDevice ------------------------------
(***************************************************************************)
(* The device's controls and probes, each on its own: a control is one     *)
(* caller's business, and a part meets the others only through the device. *)
(* `live` says which part a behaviour is about.  As no two are at work in  *)
(* one behaviour, they share the variables x1, x2, ..., which have the     *)
(* type of the part that is at work; the NAT watcher (NatWatch) has its    *)
(* own, which rest while another part is at work.  The proofs about the    *)
(* parts follow the properties; the invariants stand in their modules.     *)
(***************************************************************************)
EXTENDS NatWatch, Sequences, FiniteSets, TLC, FiniteSetTheorems, TLAPS

CONSTANTS
    Slots,           \* places for installers (Ota)
    MaxVersion, AutoUpdates, RetryDelay, InstallWait, AutoEvery, ByHand, MaxRequests, MaxReboots,  \* Ota
    Procs, Keys,     \* Identity: processes, keys the hardware may make
    Policies, Zgd, ChargeEvents, ChargeFaults,  \* ChargeProtection
    Instances, MaxStarts,                       \* Neighbor
    Pcis, Arfcns, Records, Window, MaxFrames,   \* NeighborReader
    FanOps, FanEvents, FanFaults,               \* Cooling
    Callers, External, MaxAttempts, MaxIds, Reads,  \* ApnControl
    Servers, Count,  \* NatProbe
    Patient, Fields, Vals, Late, Automatic, UciJobs, UciFaults,  \* UciControl
    PresentBands, BandIndex, BadCount, Guestless, WifiFaults,  \* WifiLayout
    Datas, Filters, Ticks, Control, MaxTries, ExtraEvents, ExtraFaults, ExtraOps  \* ExtraWifi

VARIABLES live,
    x1, x2, x3, x4, x5, x6, x7, x8, x9, x10, x11, x12, x13, x14

all == <<live, vars, x1, x2, x3, x4, x5, x6, x7, x8, x9, x10, x11, x12, x13, x14>>

\* The plans of the controls that stage their writes (UciControl).
UciKinds == INSTANCE UciControl WITH
    Auto <- Automatic, Plans <- {}, MaxJobs <- 0, MaxFaults <- 0,
    flash <- x1, staged <- x2, job <- x3, begun <- x4, faults <- x5, dirty <- x6
UciPlans ==
    {UciKinds!WifiConfigure, UciKinds!WifiPower, UciKinds!WifiPolicy,
     UciKinds!WirelessConfig, UciKinds!MultiwanPolicy}

\* Waits of the NAT watcher before its retries (NatWatch).
RetryPlan == <<1, 2, 2>>

\* STUN servers, in the order they are tried (NatProbe).
StunServers == <<1, 2>>

\* The bands, and which radio each has (WifiLayout).
TwoBands == <<"2g", "5g">>
RadioOf == [b \in {"2g", "5g"} |-> IF b = "2g" THEN 0 ELSE 1]

\* retry_delay(1..3) (Ota).
Cooldowns == <<1, 2, 3>>

Places == Permutations(Slots)

Uci == INSTANCE UciControl WITH
    Auto <- Automatic, Plans <- UciPlans, MaxJobs <- UciJobs, MaxFaults <- UciFaults,
    flash <- x1, staged <- x2, job <- x3, begun <- x4, faults <- x5,
    dirty <- x6

Wifi == INSTANCE WifiLayout WITH
    present_bands <- PresentBands, Index <- BandIndex, Bad <- BadCount, MaxFaults <- WifiFaults,
    single <- x1, radio <- x2, ssid <- x3, module <- x4, mesh <- x5,
    width <- x6, restrict <- x7, faults <- x8

Probe == INSTANCE NatProbe WITH
    net <- x1, caps <- x2, capture <- x3, phase <- x4, sent <- x5,
    probes <- x6, todo <- x7, both <- x8, ports <- x9, second <- x10,
    mapping <- x11, lost <- x12

Cells == INSTANCE Neighbor WITH
    owner <- x1, dirs <- x2, m <- x3, net <- x4, starts <- x5

Reader == INSTANCE NeighborReader WITH
    frames <- x1, directs <- x2, samples <- x3, discarded <- x4,
    malformed <- x5

Fan == INSTANCE Cooling WITH
    MaxOps <- FanOps, MaxEvents <- FanEvents, MaxFaults <- FanFaults,
    conf <- x1, fan <- x2, pump <- x3, temp <- x4, vendor <- x5, off <- x6,
    mem <- x7, op <- x8, sample <- x9, ops <- x10, events <- x11,
    faults <- x12, last <- x13

Charge == INSTANCE ChargeProtection WITH
    MaxEvents <- ChargeEvents, MaxFaults <- ChargeFaults,
    saved <- x1, disabled <- x2, kern <- x3, op <- x4, events <- x5,
    faults <- x6, good <- x7

Update == INSTANCE Ota WITH
    Auto <- AutoUpdates, Timely <- TRUE, MaxStoreErrors <- 0,
    version <- x1, enabled <- x2, ota <- x3, disk <- x4, marker <- x5,
    pending <- x6, holder <- x7, nms <- x8, installers <- x9, requests <- x10,
    reboots <- x11, storeErrors <- x12, confirmed <- x13, cool <- x14

Apn == INSTANCE ApnControl WITH
    state <- x1, lock <- x2, gate <- x3, alive <- x4, used <- x5, last <- x6,
    multi <- x7, cfg <- x8, pc <- x9, op <- x10

Id == INSTANCE Identity WITH
    dir <- x1, disk <- x2, lock <- x3, proc <- x4, made <- x5, told <- x6,
    loose <- x7

Extra == INSTANCE ExtraWifi WITH
    MaxEvents <- ExtraEvents, MaxFaults <- ExtraFaults, MaxOps <- ExtraOps,
    conf <- x1, filter <- x2, radio <- x3, base <- x4, ap <- x5, file <- x6,
    iface <- x7, rec <- x8, job <- x9, ops <- x10, events <- x11,
    faults <- x12, drift <- x13

(***************************************************************************)
(* What the proofs below need of the values.                               *)
(***************************************************************************)
ASSUME IdentityAssumption == None \notin Procs
ASSUME CellsAssumption == None \notin Instances
ASSUME ApnAssumption == None \notin Callers /\ Reads \in Nat
ASSUME UciAssumption == Vals # {} /\ None \notin Uci!Values /\ Late \subseteq Fields
ASSUME WifiAssumption ==
    /\ IsFiniteSet(Wifi!Bands) /\ \A a, b, c \in Wifi!Bands : a = b \/ b = c \/ a = c
    /\ BadCount \in Nat /\ BadCount > 2
ASSUME OtaAssumption ==
    /\ MaxVersion \in Nat /\ ByHand \subseteq Int
    /\ InstallWait \in Nat /\ InstallWait > 0 /\ AutoEvery \in Nat
    /\ RetryDelay[1] \in Nat /\ RetryDelay[2] \in Nat /\ RetryDelay[3] \in Nat
    /\ 0 < RetryDelay[1] /\ RetryDelay[1] <= RetryDelay[2] /\ RetryDelay[2] <= RetryDelay[3]
ASSUME ProbeAssumption ==
    Servers \in Seq(Probe!All) /\ None \notin Probe!Endpoints /\ None \notin Probe!Mappings
ASSUME ExtraAssumption ==
    /\ Control \notin Ticks /\ MaxTries \in Nat
    /\ None \notin Filters /\ None \notin Extra!Settings /\ None \notin [c: Extra!Settings, filter: Filters]

\* release_hold writes another policy: there is one.
ASSUME ChargeAssumption ==
    /\ None \notin Charge!Operation
    /\ \E p, q \in Policies : p # q

\* What a component has no use for.
Idle0 ==
    x1 = None /\ x2 = None /\ x3 = None /\ x4 = None /\ x5 = None /\ x6 = None
    /\ x7 = None /\ x8 = None /\ x9 = None /\ x10 = None /\ x11 = None /\
    x12 = None /\ x13 = None /\ x14 = None
Idle5 ==
    x6 = None /\ x7 = None /\ x8 = None /\ x9 = None /\ x10 = None /\
    x11 = None /\ x12 = None /\ x13 = None /\ x14 = None
Idle6 ==
    x7 = None /\ x8 = None /\ x9 = None /\ x10 = None /\ x11 = None /\
    x12 = None /\ x13 = None /\ x14 = None
Idle7 ==
    x8 = None /\ x9 = None /\ x10 = None /\ x11 = None /\ x12 = None /\
    x13 = None /\ x14 = None
Idle8 == x9 = None /\ x10 = None /\ x11 = None /\ x12 = None /\ x13 = None /\ x14 = None
Idle10 == x11 = None /\ x12 = None /\ x13 = None /\ x14 = None
Idle12 == x13 = None /\ x14 = None
Idle13 == x14 = None
Keep0 == UNCHANGED <<live, x1, x2, x3, x4, x5, x6, x7, x8, x9, x10, x11, x12, x13, x14>>
Keep5 == UNCHANGED <<live, vars, x6, x7, x8, x9, x10, x11, x12, x13, x14>>
Keep6 == UNCHANGED <<live, vars, x7, x8, x9, x10, x11, x12, x13, x14>>
Keep7 == UNCHANGED <<live, vars, x8, x9, x10, x11, x12, x13, x14>>
Keep8 == UNCHANGED <<live, vars, x9, x10, x11, x12, x13, x14>>
Keep10 == UNCHANGED <<live, vars, x11, x12, x13, x14>>
Keep12 == UNCHANGED <<live, vars, x13, x14>>
Keep13 == UNCHANGED <<live, vars, x14>>
Keep14 == UNCHANGED <<live, vars>>

AllInit ==
    /\ Init
    /\ \/ live = "watch" /\ Idle0
       \/ live = "uci" /\ Uci!Init /\ Idle6
       \/ live = "wifi" /\ Wifi!Init /\ Idle8
       \/ live = "probe" /\ Probe!Init /\ Idle12
       \/ live = "cells" /\ Cells!Init /\ Idle5
       \/ live = "reader" /\ Reader!Init /\ Idle5
       \/ live = "cooling" /\ Fan!Init /\ Idle13
       \/ live = "charge" /\ Charge!Init /\ Idle7
       \/ live = "ota" /\ Update!Init
       \/ live = "apn" /\ Apn!Init /\ Idle10
       \/ live = "identity" /\ Id!Init /\ Idle7
       \/ live = "extra" /\ Extra!Init /\ Idle13

UciStep == live = "uci" /\ Uci!Next /\ Keep6
WifiStep == live = "wifi" /\ Wifi!Next /\ Keep8
ProbeStep == live = "probe" /\ Probe!Next /\ Keep12
CellsStep == live = "cells" /\ Cells!Next /\ Keep5
ReaderStep == live = "reader" /\ Reader!Next /\ Keep5
FanStep == live = "cooling" /\ Fan!Next /\ Keep13
ChargeStep == live = "charge" /\ Charge!Next /\ Keep7
UpdateStep == live = "ota" /\ Update!Next /\ Keep14
ApnStep == live = "apn" /\ Apn!Next /\ Keep10
IdStep == live = "identity" /\ Id!Next /\ Keep7
ExtraStep == live = "extra" /\ Extra!Next /\ Keep13

WatchStep == live = "watch" /\ Next /\ Keep0

AllNext ==
    WatchStep \/ UciStep \/ WifiStep \/ ProbeStep \/ CellsStep \/ ReaderStep
    \/ FanStep \/ ChargeStep \/ UpdateStep \/ ApnStep \/ IdStep \/ ExtraStep

AllSpec == AllInit /\ [][AllNext]_all

-----------------------------------------------------------------------------
\* UciControl.NothingLeft and AllOrNothing: no write waits for another
\* control's commit, and a control that ran alone did all or nothing.
UciWhole == [](live = "uci" => Uci!NothingLeft) /\ [][live = "uci" => Uci!DoneWhole]_all

\* WifiLayout.CountKept: no control makes an AP count that cannot start.
CountKept == [][live = "wifi" => Wifi!CountStays]_all

\* NatProbe.NeverTooOpen and FindsTheNat: no NAT is reported more open than
\* it is, and with good servers it is found.
NatTrue == live = "probe" => Probe!NeverTooOpen /\ Probe!FindsTheNat

\* Neighbor.OneCollector and NeighborReader.NoSilentAttribution: one
\* collector, whose directory is there, and no cell gets a frequency that the
\* capture does not give it.
CellsTrue == /\ live = "cells" => Cells!OneCollector
             /\ live = "reader" => Reader!NoSilentAttribution

\* Cooling.HotStaysFull and KernelRules: a lost sensor does not slow the fan
\* of a hot device, and after a shutdown the kernel drives it.
FanSafe == live = "cooling" => Fan!HotStaysFull /\ Fan!KernelRules

\* ChargeProtection.OffMeansOff: told off, no hold runs.
OffMeansOff == live = "charge" => Charge!OffMeansOff

\* ApnControl.ExpiredIsGone and SecretStaysHome: no live vendor session is
\* called expired, and no profile takes another modem's password.
ApnSafe == live = "apn" => Apn!ExpiredIsGone /\ Apn!SecretStaysHome

\* Ota.InstallSafe and TrueResults: one installer at a time, from a current
\* candidate, and none at work for an installation that failed; success is
\* confirmed, and a failure is followed by its cooldown.
UpdatesTrue == [](live = "ota" => Update!InstallSafe) /\ [][live = "ota" => Update!Confirmed /\ Update!Cooled]_all

\* Identity.ToldSurvives and KeyKept: a key that callers were told outlives
\* kills and power cuts, and while its marker is there they are told no
\* other.
IdentityKept == [](live = "identity" => Id!ToldSurvives) /\ [][live = "identity" => Id!SameKey]_all

\* ExtraWifi.ServesSettings and FilterFollows: an extra SSID is served with
\* its present settings or not at all, and the rounds do not give up on an
\* old MAC filter.
ExtraSafe == live = "extra" => Extra!ExtraSafe

(***************************************************************************)
(* NatWatch: FiledUnderItsWan from NatInv, whatever part is at work (the   *)
(* watcher rests while it is another one).                                 *)
(***************************************************************************)

\* A detection that ends files what it saw.
LEMMA EndFiles ==
    ASSUME NatInv, running # None, NEW failed \in BOOLEAN, End(failed),
           UNCHANGED <<wan, known>>
    PROVE  NatInv'
<1>1. last'.label = label /\ last'.during = during
  BY DEF End
<1>2. label \in Nat /\ wan \in Nat /\ wan \in during /\ during \subseteq label .. wan
  BY DEF NatInv, Behind, LabelIsOldest
<1>3. label <= wan
  BY <1>2
<1>4. ASSUME label = wan PROVE during = {wan}
  <2>1. \A d \in during : d \in wan .. wan
    BY <1>2, <1>4
  <2>2. \A d \in wan .. wan : d = wan
    BY <1>2
  <2> QED
    BY <1>2, <2>1, <2>2
<1>5. Filed'
  BY <1>1, <1>2, <1>3, <1>4 DEF Filed
<1>6. running' = None
  BY DEF End
<1> QED
  BY <1>5, <1>6 DEF NatInv, Behind, LabelIsOldest

\* Every step keeps the order of the addresses and the labels.
LEMMA StepNatInv ==
    ASSUME None # "watcher", None # "request", NatInv, [Next]_vars
    PROVE  NatInv'
<1> USE DEF NatInv
<1>1. CASE UNCHANGED vars
  BY <1>1 DEF vars, Behind, LabelIsOldest, Filed
<1>2. CASE WanChanges
  <2>1. wan' = wan + 1 /\ UNCHANGED <<known, running, label, last>>
    BY <1>2 DEF WanChanges
  <2>2. Behind' /\ Filed'
    BY <2>1 DEF Behind, Filed
  <2>3. LabelIsOldest'
    <3> SUFFICES ASSUME running # None
                 PROVE  wan' \in during' /\ during' \subseteq label .. wan'
      BY <2>1 DEF LabelIsOldest
    <3>1. during' = during \cup {wan'}
      BY <1>2 DEF WanChanges
    <3>2. label \in Nat /\ wan \in during /\ during \subseteq label .. wan /\ wan \in Nat
      BY DEF LabelIsOldest, Behind
    <3> QED
      BY <2>1, <3>1, <3>2
  <2> QED
    BY <2>2, <2>3
<1>3. CASE Request
  <2>1. label' = known /\ during' = {wan} /\ UNCHANGED <<wan, known, last>>
    BY <1>3 DEF Request, Begin
  <2> QED
    BY <2>1 DEF Behind, LabelIsOldest, Filed
<1>4. CASE RequestEnds \/ WatcherEnds
  BY <1>4, EndFiles DEF RequestEnds, WatcherEnds
<1>5. CASE Tick
  <2>1. UNCHANGED <<wan, last>>
    BY <1>5 DEF Tick
  <2>2. PICK address \in {wan, wan - 1}, speedtest \in BOOLEAN :
          /\ address >= known
          /\ known' = IF address = 0 THEN known ELSE address
          /\ \/ UNCHANGED <<running, label, during>>
             \/ label' = known' /\ during' = {wan}
    BY <1>5 DEF Tick, watcher
  <2>3. known' \in Nat /\ known' <= wan
    BY <2>2 DEF Behind
  <2>4. Behind' /\ Filed'
    BY <2>1, <2>3 DEF Behind, Filed
  <2>5. LabelIsOldest'
    BY <2>1, <2>2, <2>3 DEF LabelIsOldest, Behind
  <2> QED
    BY <2>4, <2>5
<1> QED
  BY <1>1, <1>2, <1>3, <1>4, <1>5 DEF Next

\* A successful result filed under the address of now was measured on it from
\* beginning to end (measure notes the addresses before the detection runs),
\* whenever addresses change and whoever asks for the detection.
THEOREM FiledUnderItsWanHolds ==
    ASSUME None # "watcher", None # "request"
    PROVE  Spec => []FiledUnderItsWan
<1>1. Init => NatInv
  BY DEF Init, NatInv, Behind, LabelIsOldest, Filed
<1>2. NatInv /\ [Next]_vars => NatInv'
  BY StepNatInv
<1>3. NatInv => FiledUnderItsWan
  BY DEF NatInv, Filed, FiledUnderItsWan
<1> QED
  BY <1>1, <1>2, <1>3, PTL DEF Spec

(***************************************************************************)
(* Identity: IdentityKept from IdentityInv and FlashInv.  x1 is dir, x2    *)
(* disk, x3 lock, x4 proc, x5 made, x6 told, x7 loose.                     *)
(***************************************************************************)

\* What a request that goes on keeps, and that the others are left alone.
LEMMA GoesOn ==
    ASSUME x4 \in [Procs -> Id!Requests], NEW p \in Procs, NEW at, Id!Goes(p, at)
    PROVE  /\ x4'[p].at = at /\ x4'[p].key = x4[p].key /\ x4'[p].file = x4[p].file
           /\ \A q \in Procs \ {p}: x4'[q] = x4[q]
<1>1. x4' = [x4 EXCEPT ![p] = [x4[p] EXCEPT !.at = at]]
  BY DEF Id!Goes
<1>2. x4[p] \in Id!Requests /\ x4'[p] = [x4[p] EXCEPT !.at = at]
  BY <1>1
<1>3. x4'[p].at = at /\ x4'[p].key = x4[p].key /\ x4'[p].file = x4[p].file
  BY <1>2 DEF Id!Requests
<1> QED
  BY <1>1, <1>3

LEMMA PublishesOn ==
    ASSUME x4 \in [Procs -> Id!Requests], NEW p \in Procs, NEW file, Id!Publishes(p, file)
    PROVE  /\ x4'[p].at = "link" /\ x4'[p].file = file
           /\ \A q \in Procs \ {p}: x4'[q] = x4[q]
<1>1. x4' = [x4 EXCEPT ![p] = [[x4[p] EXCEPT !.at = "link"] EXCEPT !.file = file]]
  BY DEF Id!Publishes
<1>2. x4[p] \in Id!Requests /\ x4'[p] = [[x4[p] EXCEPT !.at = "link"] EXCEPT !.file = file]
  BY <1>1
<1>3. x4'[p].at = "link" /\ x4'[p].file = file
  BY <1>2 DEF Id!Requests
<1> QED
  BY <1>1, <1>3

\* A step of a request, or of the world, keeps it; and what is told stays.
LEMMA StepIdentity ==
    ASSUME None \notin Procs, Id!IdentityInv, [Id!Next]_(Id!vars)
    PROVE  Id!Kept' /\ Id!SameKey
<1> USE DEF Id!Kept, Id!Excluded, Id!MarkerBefore, Id!ToldIsMarked, Id!Named, Id!SameKey,
       Id!Passed, Id!Requests, Id!Directories
<1>1. CASE UNCHANGED Id!vars
  BY <1>1 DEF Id!vars, Id!IdentityInv, Id!Shapes
<1>2. ASSUME NEW p \in Procs, NEW op \in Id!Operations, Id!Begin(p, op)
      PROVE  Id!Kept' /\ Id!SameKey
  <2>1. UNCHANGED <<x1, x6>> /\ x3 = None /\ x3' = p
    BY <1>2 DEF Id!Begin
  <2>2. \/ x4' = [x4 EXCEPT ![p] = [op |-> op, at |-> "check", key |-> x1.key, file |-> None]]
        \/ x4' = [x4 EXCEPT ![p] = [op |-> op, at |-> "make", key |-> None, file |-> None]]
    BY <1>2 DEF Id!Begin
  <2>3. x4'[p].at \in {"check", "make"} /\ \A q \in Procs \ {p}: x4'[q] = x4[q]
    BY <2>2 DEF Id!IdentityInv, Id!Shapes
  <2>4. \A q \in Procs \ {p}: x4[q].at = "idle"
    BY <2>1 DEF Id!IdentityInv, Id!Shapes
  <2> QED
    BY <2>1, <2>3, <2>4 DEF Id!IdentityInv, Id!Shapes
<1>3. ASSUME NEW p \in Procs, Id!Check(p) \/ Id!Generate(p) \/ Id!SelfTest(p) \/ Id!EnsureMarker(p)
      PROVE  Id!Kept' /\ Id!SameKey
  <2>1. UNCHANGED <<x1, x3, x6>> /\ x4[p].at # "idle"
    BY <1>3 DEF Id!Check, Id!Generate, Id!SelfTest, Id!EnsureMarker, Id!At
  <2>2. /\ \/ x4'[p].at \in {"marker", "test"}
           \/ x4'[p].at = "link" /\ x4'[p].file \in {"key", "mark"}
           \/ (x4'[p].at \in {"sign", "answer"} /\ x1.mark = x4[p].key /\ x4'[p].key = x4[p].key)
        /\ \A q \in Procs \ {p}: x4'[q] = x4[q]
    <3>1. CASE Id!Check(p)
      BY <3>1, GoesOn DEF Id!Check, Id!IdentityInv, Id!Shapes
    <3>2. CASE Id!Generate(p)
      <4>1. PICK k \in Keys \ x5: x4' = [x4 EXCEPT ![p].at = "test", ![p].key = k]
        BY <3>2 DEF Id!Generate
      <4>2. x4[p] \in Id!Requests
            /\ x4'[p] = [[x4[p] EXCEPT !.at = "test"] EXCEPT !.key = k]
        BY <4>1 DEF Id!IdentityInv, Id!Shapes
      <4>3. x4'[p].at = "test"
        BY <4>2 DEF Id!Requests
      <4> QED
        BY <4>1, <4>3 DEF Id!IdentityInv, Id!Shapes
    <3>3. CASE Id!SelfTest(p)
      BY <3>3, PublishesOn DEF Id!SelfTest, Id!IdentityInv, Id!Shapes
    <3>4. CASE Id!EnsureMarker(p)
      BY <3>4, PublishesOn, GoesOn DEF Id!EnsureMarker, Id!MarkerAgrees, Id!Confirmed,
             Id!IdentityInv, Id!Shapes
    <3> QED
      BY <1>3, <3>1, <3>2, <3>3, <3>4
  <2> QED
    BY <2>1, <2>2 DEF Id!IdentityInv, Id!Shapes
<1>4. ASSUME NEW p \in Procs, Id!Link(p)
      PROVE  Id!Kept' /\ Id!SameKey
  <2>1. /\ x4'[p].at = "unlink" /\ x4'[p].key = x4[p].key
        /\ x4'[p].file = x4[p].file
        /\ \A q \in Procs \ {p}: x4'[q] = x4[q]
    BY <1>4, GoesOn DEF Id!Link, Id!IdentityInv, Id!Shapes
  <2>2. UNCHANGED <<x3, x6>> /\ x4[p].at = "link"
    BY <1>4 DEF Id!Link, Id!At
  <2>3. \A q \in Procs \ {p}: x4[q].at = "idle"
    BY <2>2 DEF Id!IdentityInv, Id!Shapes
  <2>4. CASE x4[p].file = "mark"
    <3>1. x1.mark = None /\ x1'.mark = x4[p].key
      BY <1>4, <2>4 DEF Id!Link, Id!IdentityInv, Id!Shapes
    <3> QED
      BY <2>1, <2>2, <2>3, <3>1 DEF Id!IdentityInv, Id!Shapes
  <2>5. CASE x4[p].file # "mark"
    <3>1. x1'.mark = x1.mark
      BY <1>4, <2>5 DEF Id!Link, Id!IdentityInv, Id!Shapes
    <3> QED
      BY <2>1, <2>2, <2>3, <2>5, <3>1 DEF Id!IdentityInv, Id!Shapes
  <2> QED
    BY <2>4, <2>5
<1>5. ASSUME NEW p \in Procs, Id!Unlink(p) \/ Id!Sync(p) \/ Id!Sign(p)
      PROVE  Id!Kept' /\ Id!SameKey
  <2>1. UNCHANGED <<x3, x6>> /\ x4[p].at # "idle" /\ x1'.mark = x1.mark
    BY <1>5 DEF Id!Unlink, Id!Sync, Id!Sign, Id!At, Id!IdentityInv, Id!Shapes
  <2>2. /\ x4'[p].key = x4[p].key
        /\ \/ x4'[p].at = "marker"
           \/ x4'[p].at \in {"sign", "answer"} /\ Id!Passed(x4[p])
           \/ /\ x4'[p].at = "sync" /\ x4[p].at = "unlink"
              /\ x4'[p].file = x4[p].file
        /\ \A q \in Procs \ {p}: x4'[q] = x4[q]
    <3>1. x4 \in [Procs -> Id!Requests] 
      BY DEF Id!IdentityInv, Id!Shapes
    <3>2. CASE Id!Unlink(p)
      BY <3>1, <3>2, GoesOn DEF Id!Unlink, Id!At
    <3>3. CASE Id!Sync(p)
      BY <3>1, <3>3, GoesOn DEF Id!Sync, Id!Confirmed, Id!At, Id!IdentityInv, Id!Shapes
    <3>4. CASE Id!Sign(p)
      BY <3>1, <3>4, GoesOn DEF Id!Sign, Id!At
    <3> QED
      BY <1>5, <3>2, <3>3, <3>4
  <2> QED
    BY <2>1, <2>2 DEF Id!IdentityInv, Id!Shapes
<1>6. ASSUME NEW p \in Procs, Id!Answer(p) \/ Id!Stop(p)
      PROVE  Id!Kept' /\ Id!SameKey
  BY <1>6 DEF Id!Answer, Id!Stop, Id!Idle, Id!At, Id!IdentityInv, Id!Shapes
<1>7. CASE Id!Commit
  BY <1>7 DEF Id!Commit, Id!IdentityInv, Id!Shapes
<1>8. CASE Id!PowerCut
  BY <1>8 DEF Id!PowerCut, Id!Promise, Id!Idle, Id!IdentityInv, Id!Shapes
<1>9. CASE \E file \in {"key", "mark"}: Id!Lose(file)
  BY <1>9 DEF Id!Lose, Id!Changed, Id!Promise, Id!IdentityInv, Id!Shapes
<1>10. CASE Id!Damage \/ \E k \in x5: Id!Replace(k)
  BY <1>10 DEF Id!Damage, Id!Replace, Id!Changed, Id!Promise, Id!IdentityInv, Id!Shapes
<1> QED
  BY <1>1, <1>2, <1>3, <1>4, <1>5, <1>6, <1>7, <1>8, <1>9, <1>10 DEF Id!Next

\* Every step keeps the shapes.
LEMMA StepShapes ==
    ASSUME Id!Shapes, Id!Named, [Id!Next]_(Id!vars)
    PROVE  Id!Shapes'
<1> USE DEF Id!Shapes
<1>1. CASE UNCHANGED Id!vars
  BY <1>1 DEF Id!vars
<1>2. ASSUME NEW p \in Procs, NEW op \in Id!Operations, Id!Begin(p, op)
      PROVE  Id!Shapes'
  BY <1>2 DEF Id!Begin, Id!Loads, Id!Requests
<1>3. ASSUME NEW p \in Procs, Id!Check(p) \/ Id!Sign(p)
      PROVE  Id!Shapes'
  BY <1>3 DEF Id!Check, Id!Sign, Id!Goes, Id!Requests
<1>4. ASSUME NEW p \in Procs, Id!Generate(p) \/ Id!SelfTest(p)
      PROVE  Id!Shapes'
  BY <1>4 DEF Id!Generate, Id!SelfTest, Id!Publishes, Id!Requests
<1>5. ASSUME NEW p \in Procs, Id!EnsureMarker(p)
      PROVE  Id!Shapes'
  BY <1>5 DEF Id!EnsureMarker, Id!Publishes, Id!Confirmed, Id!Goes, Id!Requests
<1>6. ASSUME NEW p \in Procs, Id!Link(p)
      PROVE  Id!Shapes'
  <2> Id!Goes(p, "unlink") /\ x2' = x2
    BY <1>6 DEF Id!Link
  <2>1. x4' \in [Procs -> Id!Requests]
    BY DEF Id!Goes, Id!Requests
  <2>2. x4[p].file \in {"key", "mark"} /\ x4[p].key \in Keys \cup {None}
    BY <1>6 DEF Id!Link, Id!At, Id!Named, Id!Requests
  <2>3. x5' \subseteq Keys \cup {None}
    BY <1>6, <2>2 DEF Id!Link
  <2>4. CASE x4[p].file = "key"
    <3>1. x1' = [x1 EXCEPT !.key = x4[p].key, !.extra = @ \cup {"key"}]
      BY <1>6, <2>4 DEF Id!Link
    <3> QED
      BY <2>1, <2>2, <2>3, <3>1 DEF Id!Directories
  <2>5. CASE x4[p].file = "mark"
    <3>1. x1' = [x1 EXCEPT !.mark = x4[p].key, !.extra = @ \cup {"mark"}]
      BY <1>6, <2>5 DEF Id!Link
    <3> QED
      BY <2>1, <2>2, <2>3, <3>1 DEF Id!Directories
  <2> QED
    BY <2>2, <2>4, <2>5
<1>7. ASSUME NEW p \in Procs, Id!Unlink(p) \/ Id!Sync(p)
      PROVE  Id!Shapes'
  <2>1. x4' \in [Procs -> Id!Requests] /\ x5' = x5
    BY <1>7 DEF Id!Unlink, Id!Sync, Id!Confirmed, Id!Goes, Id!Requests
  <2>2. x1' \in Id!Directories /\ x2' \in Id!Directories
    BY <1>7 DEF Id!Unlink, Id!Sync, Id!Directories
  <2> QED
    BY <2>1, <2>2
<1>8. ASSUME NEW p \in Procs, Id!Answer(p) \/ Id!Stop(p)
      PROVE  Id!Shapes'
  BY <1>8 DEF Id!Answer, Id!Stop, Id!Idle, Id!Requests
<1>9. CASE Id!Commit \/ Id!PowerCut
  BY <1>9 DEF Id!Commit, Id!PowerCut, Id!Idle, Id!Requests
<1>10. CASE \E file \in {"key", "mark"}: Id!Lose(file)
  <2>1. UNCHANGED <<x2, x4, x5>>
    BY <1>10 DEF Id!Lose, Id!Changed
  <2>2. \/ x1' = [x1 EXCEPT !.key = None, !.extra = @ \ {"key"}]
        \/ x1' = [x1 EXCEPT !.mark = None, !.extra = @ \ {"mark"}]
    BY <1>10 DEF Id!Lose, Id!Changed
  <2> QED
    BY <2>1, <2>2 DEF Id!Directories
<1>11. CASE Id!Damage
  BY <1>11 DEF Id!Damage, Id!Changed, Id!Directories
<1>12. ASSUME NEW k \in x5, Id!Replace(k)
       PROVE  Id!Shapes'
  BY <1>12 DEF Id!Replace, Id!Changed, Id!Directories
<1> QED
  BY <1>1, <1>2, <1>3, <1>4, <1>5, <1>6, <1>7, <1>8, <1>9, <1>10, <1>11, <1>12 DEF Id!Next

\* A step that leaves the marker and its publication alone, and tells nothing.
LEMMA QuietStep ==
    ASSUME Id!FlashInv, UNCHANGED <<x6, x7>>, x1'.mark = x1.mark, x2'.mark = x2.mark,
           \A p \in Procs: Id!Publishing(x4'[p]) <=> Id!Publishing(x4[p])
    PROVE  Id!FlashInv'
BY DEF Id!FlashInv, Id!FlashFollows, Id!Unannounced, Id!Publishing

LEMMA StepFlash ==
    ASSUME None \notin Procs, Id!IdentityInv, Id!FlashInv, [Id!Next]_(Id!vars)
    PROVE  Id!FlashInv'
<1>0. /\ x4 \in [Procs -> Id!Requests] /\ x1 \in Id!Directories /\ x2 \in Id!Directories
      /\ Id!Excluded /\ Id!MarkerBefore /\ Id!ToldIsMarked /\ Id!Named
  BY DEF Id!IdentityInv, Id!Shapes, Id!Kept
<1>1. CASE UNCHANGED Id!vars
  BY <1>1, QuietStep DEF Id!vars
<1>2. ASSUME NEW p \in Procs, NEW op \in Id!Operations, Id!Begin(p, op)
      PROVE  Id!FlashInv'
  <2>1. UNCHANGED <<x1, x2, x6, x7>> /\ x4[p].at = "idle"
    BY <1>2 DEF Id!Begin, Id!At
  <2>2. \/ x4' = [x4 EXCEPT ![p] = [op |-> op, at |-> "check", key |-> x1.key, file |-> None]]
        \/ x4' = [x4 EXCEPT ![p] = [op |-> op, at |-> "make", key |-> None, file |-> None]]
    BY <1>2 DEF Id!Begin
  <2>3. x4'[p].at \in {"check", "make"} /\ \A q \in Procs \ {p}: x4'[q] = x4[q]
    BY <1>0, <2>2
  <2>4. \A q \in Procs: Id!Publishing(x4'[q]) <=> Id!Publishing(x4[q])
    BY <2>1, <2>3 DEF Id!Publishing
  <2> QED
    BY <2>1, <2>4, QuietStep
<1>3. ASSUME NEW p \in Procs,
             Id!Check(p) \/ Id!Generate(p) \/ Id!SelfTest(p) \/ Id!EnsureMarker(p) \/ Id!Sign(p)
      PROVE  Id!FlashInv'
  <2>1. UNCHANGED <<x1, x2, x6, x7>> /\ x4[p].at \notin {"unlink", "sync"}
    BY <1>3 DEF Id!Check, Id!Generate, Id!SelfTest, Id!EnsureMarker, Id!Sign, Id!At
  <2>2. x4'[p].at \notin {"unlink", "sync"} /\ \A q \in Procs \ {p}: x4'[q] = x4[q]
    <3>1. CASE Id!Check(p)
      BY <1>0, <3>1, GoesOn DEF Id!Check
    <3>2. CASE Id!Generate(p)
      <4>1. PICK k \in Keys \ x5: x4' = [x4 EXCEPT ![p].at = "test", ![p].key = k]
        BY <3>2 DEF Id!Generate
      <4>2. x4[p] \in Id!Requests
            /\ x4'[p] = [[x4[p] EXCEPT !.at = "test"] EXCEPT !.key = k]
        BY <1>0, <4>1
      <4>3. x4'[p].at = "test"
        BY <4>2 DEF Id!Requests
      <4> QED
        BY <1>0, <4>1, <4>3
    <3>3. CASE Id!SelfTest(p)
      BY <1>0, <3>3, PublishesOn DEF Id!SelfTest
    <3>4. CASE Id!EnsureMarker(p)
      BY <1>0, <3>4, PublishesOn, GoesOn DEF Id!EnsureMarker, Id!Confirmed
    <3>5. CASE Id!Sign(p)
      BY <1>0, <3>5, GoesOn DEF Id!Sign
    <3> QED
      BY <1>3, <3>1, <3>2, <3>3, <3>4, <3>5
  <2>3. \A q \in Procs: Id!Publishing(x4'[q]) <=> Id!Publishing(x4[q])
    BY <2>1, <2>2 DEF Id!Publishing
  <2> QED
    BY <2>1, <2>3, QuietStep
<1>4. ASSUME NEW p \in Procs, Id!Link(p)
      PROVE  Id!FlashInv'
  <2>1. /\ x4'[p].at = "unlink" /\ x4'[p].file = x4[p].file
        /\ \A q \in Procs \ {p}: x4'[q] = x4[q]
    BY <1>0, <1>4, GoesOn DEF Id!Link
  <2>2. /\ UNCHANGED <<x2, x6, x7>> /\ x4[p].at = "link"
        /\ x4[p].file \in {"key", "mark"}
    BY <1>0, <1>4 DEF Id!Link, Id!At, Id!Named
  <2>3. CASE x4[p].file = "mark"
    <3>1. x1.mark = None /\ Id!Publishing(x4'[p])
      BY <1>4, <2>1, <2>3 DEF Id!Link, Id!Publishing
    <3>2. x6 = None
      BY <1>0, <3>1 DEF Id!ToldIsMarked
    <3> QED
      BY <2>2, <3>1, <3>2 DEF Id!FlashInv, Id!FlashFollows, Id!Unannounced
  <2>4. CASE x4[p].file = "key"
    <3>1. x1'.mark = x1.mark
      BY <1>0, <1>4, <2>4 DEF Id!Link, Id!Directories
    <3>2. \A q \in Procs: Id!Publishing(x4'[q]) <=> Id!Publishing(x4[q])
      BY <2>1, <2>2, <2>4 DEF Id!Publishing
    <3> QED
      BY <2>2, <3>1, <3>2, QuietStep
  <2> QED
    BY <2>2, <2>3, <2>4
<1>5. ASSUME NEW p \in Procs, Id!Unlink(p)
      PROVE  Id!FlashInv'
  <2>1. /\ x4'[p].at = "sync" /\ x4'[p].file = x4[p].file
        /\ \A q \in Procs \ {p}: x4'[q] = x4[q]
    BY <1>0, <1>5, GoesOn DEF Id!Unlink
  <2>2. UNCHANGED <<x2, x6, x7>> /\ x4[p].at = "unlink" /\ x1'.mark = x1.mark
    BY <1>0, <1>5 DEF Id!Unlink, Id!At, Id!Directories
  <2>3. \A q \in Procs: Id!Publishing(x4'[q]) <=> Id!Publishing(x4[q])
    BY <2>1, <2>2 DEF Id!Publishing
  <2> QED
    BY <2>2, <2>3, QuietStep
<1>6. ASSUME NEW p \in Procs, Id!Sync(p)
      PROVE  Id!FlashInv'
  <2>1. /\ x4'[p].at \in {"marker", "sign", "answer"}
        /\ \A q \in Procs \ {p}: x4'[q] = x4[q]
    BY <1>0, <1>6, GoesOn DEF Id!Sync, Id!Confirmed
  <2>2. UNCHANGED <<x1, x6>> /\ x2' = x1
    BY <1>6 DEF Id!Sync
  <2> QED
    BY <2>1, <2>2 DEF Id!FlashInv, Id!FlashFollows, Id!Unannounced, Id!Publishing
<1>7. ASSUME NEW p \in Procs, Id!Answer(p)
      PROVE  Id!FlashInv'
  <2>1. /\ x4[p].at = "answer" /\ UNCHANGED <<x1, x2, x7>>
        /\ x4' = [x4 EXCEPT ![p] = Id!Idle]
    BY <1>7 DEF Id!Answer, Id!At
  <2>2. \A q \in Procs \ {p}: x4[q].at = "idle"
    BY <1>0, <2>1 DEF Id!Excluded
  <2>3. \A q \in Procs: ~Id!Publishing(x4[q]) /\ ~Id!Publishing(x4'[q])
    BY <1>0, <2>1, <2>2 DEF Id!Publishing, Id!Idle
  <2> QED
    BY <2>1, <2>3 DEF Id!FlashInv, Id!FlashFollows, Id!Unannounced
<1>8. ASSUME NEW p \in Procs, Id!Stop(p)
      PROVE  Id!FlashInv'
  <2>1. /\ UNCHANGED <<x1, x2, x6>> /\ x4' = [x4 EXCEPT ![p] = Id!Idle]
        /\ x7' = (x7 \/ x4[p].at \in {"unlink", "sync"})
    BY <1>8 DEF Id!Stop
  <2>2. ~Id!Publishing(x4'[p]) /\ \A q \in Procs \ {p}: x4'[q] = x4[q]
    BY <1>0, <2>1 DEF Id!Publishing, Id!Idle
  <2>3. Id!Publishing(x4[p]) => x7'
    BY <2>1 DEF Id!Publishing
  <2>4. x7 => x7'
    BY <2>1
  <2> QED
    BY <2>1, <2>2, <2>3, <2>4 DEF Id!FlashInv, Id!FlashFollows, Id!Unannounced
<1>9. CASE Id!Commit
  BY <1>9 DEF Id!Commit, Id!FlashInv, Id!FlashFollows, Id!Unannounced
<1>10. CASE Id!PowerCut
  BY <1>10 DEF Id!PowerCut, Id!Idle, Id!FlashInv, Id!FlashFollows, Id!Unannounced, Id!Publishing
<1>11. CASE \/ Id!Damage \/ (\E k \in x5: Id!Replace(k))
            \/ \E file \in {"key", "mark"}: Id!Lose(file)
  <2>1. UNCHANGED <<x2, x4, x7>> /\ x6' \in {x6, None}
    BY <1>11 DEF Id!Damage, Id!Replace, Id!Lose, Id!Changed, Id!Promise
  <2>2. x1'.mark \in {x1.mark, None}
    BY <1>0, <1>11 DEF Id!Damage, Id!Replace, Id!Lose, Id!Changed, Id!Directories
  <2> QED
    BY <2>1, <2>2 DEF Id!FlashInv, Id!FlashFollows, Id!Unannounced
<1> QED
  BY <1>1, <1>2, <1>3, <1>4, <1>5, <1>6, <1>7, <1>8, <1>9, <1>10, <1>11 DEF Id!Next

LEMMA IdentityStarts == Id!Init => Id!IdentityInv /\ Id!FlashInv
BY DEF Id!Init, Id!IdentityInv, Id!Shapes, Id!Kept, Id!Excluded, Id!MarkerBefore, Id!ToldIsMarked,
       Id!Named, Id!Passed, Id!Empty, Id!Idle, Id!Requests, Id!Directories, Id!FlashInv,
       Id!FlashFollows, Id!Unannounced, Id!Publishing

LEMMA IdentityTold == Id!IdentityInv /\ Id!FlashInv => Id!ToldSurvives
BY DEF Id!IdentityInv, Id!Kept, Id!ToldIsMarked, Id!FlashInv, Id!FlashFollows, Id!Unannounced,
       Id!ToldSurvives

\* Callers are told one key for as long as its marker is there, whatever is
\* lost, damaged, replaced, killed or cut off (checked_record, initialize).
THEOREM KeyKeptHolds == Id!Spec => Id!KeyKept
<1>1. Id!Init => Id!IdentityInv
  BY IdentityStarts
<1>2. Id!IdentityInv /\ [Id!Next]_(Id!vars) => Id!IdentityInv'
  BY StepIdentity, StepShapes, IdentityAssumption DEF Id!IdentityInv, Id!Kept
<1>3. Id!IdentityInv /\ [Id!Next]_(Id!vars) => [Id!SameKey]_(Id!vars)
  BY StepIdentity, IdentityAssumption
<1> QED
  BY <1>1, <1>2, <1>3, PTL DEF Id!Spec, Id!KeyKept

\* A key that callers were told outlives a power cut, for any processes and
\* keys (publish_new syncs the directory before ensure_marker returns).
THEOREM ToldSurvivesHolds == Id!Spec => []Id!ToldSurvives
<1>2. Id!IdentityInv /\ Id!FlashInv /\ [Id!Next]_(Id!vars) => (Id!IdentityInv /\ Id!FlashInv)'
  BY StepIdentity, StepShapes, StepFlash, IdentityAssumption DEF Id!IdentityInv, Id!Kept
<1> QED
  BY IdentityStarts, IdentityTold, <1>2, PTL DEF Id!Spec

LEMMA IdAtWork ==
    ASSUME live' = "identity", [AllNext]_all
    PROVE  live = "identity" /\ [Id!Next]_(Id!vars)
BY DEF AllNext, all, Id!vars, WatchStep, UciStep, WifiStep, ProbeStep, CellsStep, ReaderStep, FanStep,
       ChargeStep, UpdateStep, ApnStep, IdStep, ExtraStep, Keep0, Keep5, Keep6, Keep7, Keep8, Keep10,
       Keep12, Keep13, Keep14

\* Both for any processes and any supply of keys: what callers were told
\* outlives kills and power cuts, and they are told no other key while its
\* marker is there (identity.rs, publish_new, ensure_marker).
THEOREM IdentityKeptHolds == AllSpec => IdentityKept
<1> DEFINE Inv == live = "identity" => Id!IdentityInv /\ Id!FlashInv
<1>1. AllInit => Inv
  BY IdentityStarts DEF AllInit
<1>2. Inv /\ [AllNext]_all => Inv'
  BY IdAtWork, IdentityAssumption, StepIdentity, StepShapes, StepFlash DEF Id!IdentityInv, Id!Kept
<1>3. Inv => (live = "identity" => Id!ToldSurvives)
  BY IdentityTold
<1>4. Inv /\ [AllNext]_all => [live = "identity" => Id!SameKey]_all
  <2> SUFFICES ASSUME Inv, AllNext, live = "identity" PROVE Id!SameKey
    BY DEF all
  <2>1. live' = "identity"
    BY DEF AllNext, all, WatchStep, UciStep, WifiStep, ProbeStep, CellsStep, ReaderStep, FanStep,
       ChargeStep, UpdateStep, ApnStep, IdStep, ExtraStep, Keep0, Keep5, Keep6, Keep7, Keep8, Keep10,
       Keep12, Keep13, Keep14
  <2> QED
    BY <2>1, IdAtWork, IdentityAssumption, StepIdentity
<1> QED
  BY <1>1, <1>2, <1>3, <1>4, PTL DEF AllSpec, IdentityKept
(***************************************************************************)
(* ChargeProtection: OffMeansOff from ChargeInv.  x1 is saved, x2          *)
(* disabled, x3 kern, x4 op, x5 events, x6 faults, x7 good.                *)
(***************************************************************************)
LEMMA ChargeInit == Charge!Init => Charge!ChargeInv
<1> SUFFICES ASSUME Charge!Init PROVE Charge!ChargeInv
  OBVIOUS
<1>1. (CHOOSE p \in Policies : TRUE) \in Policies
  BY ChargeAssumption
<1>2. /\ x1 = FALSE /\ x2 = FALSE /\ x4 = None /\ x7 = FALSE
      /\ x3 = Charge!Booted(CHOOSE p \in Policies : TRUE)
  BY DEF Charge!Init
<1>3. x3 \in Charge!Driver
  BY <1>1, <1>2 DEF Charge!Booted, Charge!Driver
<1> QED
  BY <1>2, <1>3 DEF Charge!ChargeInv, Charge!Read, Charge!OffMeansOff

LEMMA ChargeStepKept ==
    ASSUME Charge!ChargeInv, Charge!Next
    PROVE  Charge!ChargeInv'
<1>0. /\ x3 \in Charge!Driver /\ x4 \in Charge!Operation \cup {None}
      /\ x7 \in BOOLEAN /\ x2 \in BOOLEAN /\ x1 \in BOOLEAN
      /\ Charge!Read /\ Charge!OffMeansOff /\ (x7 => x3.long)
  BY DEF Charge!ChargeInv
<1>1. ASSUME NEW wanted \in BOOLEAN, Charge!Set(wanted) PROVE Charge!ChargeInv'
  <2>1. x4 = None /\ x3' = x3
    BY <1>1 DEF Charge!Set
  <2>2. CASE x1' = x1 /\ x2' = x2 /\ x4' = x4 /\ x7' = x7
    BY <1>0, <2>1, <2>2, Zenon DEF Charge!ChargeInv, Charge!Read, Charge!OffMeansOff
  <2>3. CASE /\ x1' = wanted /\ x2' = wanted /\ x7' = FALSE
             /\ x4' \in {[step |-> "ask", seen |-> x3, release |-> FALSE, sure |-> TRUE],
                         [step |-> "default", seen |-> x3, release |-> FALSE, sure |-> FALSE], None}
    <3>1. /\ x4' \in Charge!Operation \cup {None}
          /\ x4' # None => x4'.step \in {"ask", "default"} /\ x4'.seen = x3
      <4>1. CASE x4' = [step |-> "ask", seen |-> x3, release |-> FALSE, sure |-> TRUE]
        BY <1>0, <4>1 DEF Charge!Operation
      <4>2. CASE x4' = [step |-> "default", seen |-> x3, release |-> FALSE, sure |-> FALSE]
        BY <1>0, <4>2 DEF Charge!Operation
      <4> QED
        BY <2>3, <4>1, <4>2
    <3>2. x1' \in BOOLEAN /\ x2' \in BOOLEAN /\ x7' \in BOOLEAN /\ ~x7'
      BY <2>3
    <3>3. Charge!Read'
      BY <1>0, <2>1, <3>1, <3>2 DEF Charge!Read
    <3> QED
      BY <1>0, <2>1, <3>1, <3>2, <3>3 DEF Charge!ChargeInv, Charge!OffMeansOff
  <2> QED
    BY <1>1, <2>2, <2>3 DEF Charge!Set, Charge!Fault
<1>2. CASE Charge!Tick
  <2>1. /\ x4' = [step |-> "ask", seen |-> x3, release |-> FALSE, sure |-> TRUE]
        /\ x1' = x1 /\ x2' = x2 /\ x3' = x3 /\ x7' = x7
    BY <1>2 DEF Charge!Tick
  <2> QED
    BY <1>0, <2>1 DEF Charge!ChargeInv, Charge!Read, Charge!OffMeansOff, Charge!Operation
<1>3. CASE Charge!Release
  <2>1. /\ x4' = [step |-> "other", seen |-> x3, release |-> TRUE, sure |-> FALSE]
        /\ x1' = x1 /\ x2' = x2 /\ x3' = x3 /\ x7' = x7
    BY <1>3 DEF Charge!Release
  <2> QED
    BY <1>0, <2>1 DEF Charge!ChargeInv, Charge!Read, Charge!OffMeansOff, Charge!Operation
<1>4. CASE Charge!Ask
  <2>0. x4 \in Charge!Operation /\ x4.step = "ask" /\ x1' = x1 /\ x2' = x2 /\ x3' = x3 /\ x7' = x7
    BY <1>0, <1>4 DEF Charge!Ask
  <2>1. PICK answered \in BOOLEAN :
          x4' = [x4 EXCEPT !.step = "threshold", !.release = Charge!Holding(x4.seen, answered),
                           !.sure = answered]
    BY <1>4 DEF Charge!Ask
  <2>2. Charge!Holding(x4.seen, answered) \in BOOLEAN
    BY DEF Charge!Holding
  <2>3. /\ x4' \in Charge!Operation /\ x4'.step = "threshold" /\ x4'.seen = x4.seen
        /\ x4'.release = Charge!Holding(x4.seen, answered) /\ x4'.sure = answered
    BY <2>0, <2>1, <2>2 DEF Charge!Operation
  <2>4. x4'.sure => x4'.release \/ ~x3.hold
    BY <2>3 DEF Charge!Holding
  <2> QED
    <3>1. Charge!Read'
      <4>1. x4'.seen.long = x3'.long /\ x4'.seen.debug = x3'.debug
        <5>1. x4.seen.long = x3.long /\ x4.seen.debug = x3.debug
          BY <1>0, <2>0, ChargeAssumption DEF Charge!Read
        <5> QED
          BY <2>0, <2>3, <5>1, Zenon
      <4>2. x4'.step \notin {"other", "back"} /\ x4'.step # "default"
        BY <2>3
      <4>3. x4'.sure => x4'.release \/ ~x3'.hold
        BY <2>0, <2>4, Zenon
      <4> QED
        BY <4>1, <4>2, <4>3, Zenon DEF Charge!Read
    <3>2. Charge!OffMeansOff' /\ (x7' => x3'.long)
      BY <1>0, <2>0, Zenon DEF Charge!OffMeansOff
    <3>3. x1' \in BOOLEAN /\ x2' \in BOOLEAN /\ x7' \in BOOLEAN
      BY <1>0, <2>0
    <3> QED
      BY <1>0, <2>0, <2>3, <3>1, <3>2, <3>3 DEF Charge!ChargeInv
<1>5. CASE Charge!Threshold
  <2>0. /\ x4 \in Charge!Operation /\ x4.step = "threshold" /\ x1' = x1 /\ x2' = x2
        /\ x4.seen \in Charge!Driver
        /\ x4.seen.long = x3.long /\ x4.seen.debug = x3.debug /\ (x4.sure => x4.release \/ ~x3.hold)
    BY <1>0, <1>5 DEF Charge!Threshold, Charge!Operation, Charge!Read
  <2>1. CASE x3' = x3 /\ x4' = None /\ x7' = x7
    BY <1>0, <2>0, <2>1, Zenon DEF Charge!ChargeInv, Charge!Read, Charge!OffMeansOff
  <2>2. CASE /\ x3' \in Charge!Driver /\ x3'.long /\ x3'.hold = x3.hold
             /\ x4' = Charge!After(x3') \/ x4' = Charge!After(x4.seen)
             /\ Charge!Verified
    <3>1. x7' \in BOOLEAN /\ (x7' => x4.sure /\ ~x4.release)
      BY <2>2 DEF Charge!Verified
    <3>2. x7' => ~x3'.hold
      BY <2>0, <2>2, <3>1
    <3>3. x4' = None \/ (x4' \in Charge!Operation /\ x4'.step = "other" /\ x4'.sure = x4.sure)
      <4> SUFFICES ASSUME NEW k \in Charge!Driver
                   PROVE  LET o == [x4 EXCEPT !.step = "other", !.seen = k]
                          IN  o \in Charge!Operation /\ o.step = "other" /\ o.sure = x4.sure
        BY <2>0, <2>2 DEF Charge!After
      <4> QED
        BY <2>0 DEF Charge!Operation
    <3> QED
      BY <1>0, <2>0, <2>2, <3>1, <3>2, <3>3, ChargeAssumption
      DEF Charge!ChargeInv, Charge!Read, Charge!OffMeansOff
  <2>3. \/ x3' = x3 /\ x4' = None /\ x7' = x7
        \/ x3' = x3 /\ x4.seen.long /\ x4' = Charge!After(x4.seen) /\ Charge!Verified
        \/ /\ x3' = [x3 EXCEPT !.long = TRUE, !.debug = TRUE, !.mode = 1]
           /\ x4' = Charge!After(x3') /\ Charge!Verified
    BY <1>5 DEF Charge!Threshold
  <2> QED
    BY <1>0, <2>0, <2>1, <2>2, <2>3 DEF Charge!Driver
<1>6. CASE Charge!Default
  <2>1. x1' = x1 /\ x2' = x2 /\ x7' = x7 /\ x4' = None /\ x7' = FALSE
    BY <1>0, <1>6 DEF Charge!Default, Charge!Read
  <2>2. x3' \in Charge!Driver
    BY <1>0, <1>6 DEF Charge!Default, Charge!Driver
  <2> QED
    BY <1>0, <2>1, <2>2 DEF Charge!ChargeInv, Charge!Read, Charge!OffMeansOff
<1>7. CASE Charge!WriteOther
  <2>0. x4 \in Charge!Operation /\ x4 # None /\ x4.step = "other" /\ x1' = x1 /\ x2' = x2 /\ x7' = x7
    BY <1>0, <1>7 DEF Charge!WriteOther
  <2>1. CASE x4' = None /\ x3' = x3
    BY <1>0, <2>0, <2>1, Zenon DEF Charge!ChargeInv, Charge!Read, Charge!OffMeansOff
  <2>2. CASE /\ x3' = [x3 EXCEPT !.policy = Charge!Other(x4.seen.policy), !.hold = FALSE, !.mode = 1]
             /\ x4' = [x4 EXCEPT !.step = "back"]
    <3>1. Charge!Other(x4.seen.policy) \in Policies
      BY ChargeAssumption DEF Charge!Other
    <3>2. x3' \in Charge!Driver /\ x3'.long = x3.long /\ x3'.hold = FALSE
      BY <1>0, <2>2, <3>1 DEF Charge!Driver
    <3>3. x4' \in Charge!Operation /\ x4'.step = "back" /\ x4'.sure = x4.sure
      BY <2>0, <2>2 DEF Charge!Operation
    <3>4. x4.sure => x3.long
      BY <1>0, <2>0 DEF Charge!Read
    <3>5. x4'.sure => x3'.long
      BY <3>2, <3>3, <3>4, Zenon
    <3>6. x7' => x3'.long
      BY <1>0, <2>0, <3>2, Zenon
    <3>7. Charge!Read'
      BY <3>3, <3>5 DEF Charge!Read
    <3>8. Charge!OffMeansOff'
      BY <3>2, <3>6 DEF Charge!OffMeansOff
    <3>9. x1' \in BOOLEAN /\ x2' \in BOOLEAN /\ x7' \in BOOLEAN
      BY <1>0, <2>0
    <3> QED
      BY <3>2, <3>3, <3>6, <3>7, <3>8, <3>9 DEF Charge!ChargeInv
  <2> QED
    BY <1>7, <2>1, <2>2 DEF Charge!WriteOther
<1>8. CASE Charge!WriteBack
  <2>0. /\ x4 \in Charge!Operation /\ x4 # None /\ x4.step = "back" /\ x1' = x1 /\ x2' = x2
        /\ x4' = None
    BY <1>0, <1>8 DEF Charge!WriteBack
  <2>1. CASE x3' = x3 /\ x7' = x7
    BY <1>0, <2>0, <2>1, Zenon DEF Charge!ChargeInv, Charge!Read, Charge!OffMeansOff
  <2>2. CASE /\ x3' = [x3 EXCEPT !.policy = x4.seen.policy, !.hold = FALSE, !.mode = 1]
             /\ x7' = (x4.sure /\ x2)
    <3>1. x4.seen.policy \in Policies \cup {Zgd}
      BY <2>0 DEF Charge!Operation, Charge!Driver
    <3>2. x3' \in Charge!Driver /\ x3'.long = x3.long /\ x3'.hold = FALSE
      BY <1>0, <2>2, <3>1 DEF Charge!Driver
    <3>3. x7' \in BOOLEAN /\ (x7' => x4.sure)
      BY <2>2
    <3>4. x4.sure => x3.long
      BY <1>0, <2>0 DEF Charge!Read
    <3>5. x7' => x3'.long
      BY <3>2, <3>3, <3>4, Zenon
    <3>6. x1' \in BOOLEAN /\ x2' \in BOOLEAN
      BY <1>0, <2>0
    <3> QED
      BY <2>0, <3>2, <3>3, <3>5, <3>6 DEF Charge!ChargeInv, Charge!Read, Charge!OffMeansOff
  <2> QED
    BY <1>8, <2>1, <2>2 DEF Charge!WriteBack
<1>9. CASE Charge!HoldStarts \/ Charge!StockPolicy
  <2>0. x1' = x1 /\ x2' = x2 /\ x7' = FALSE /\ Charge!Unsure
    BY <1>9 DEF Charge!HoldStarts, Charge!StockPolicy, Charge!Happens
  <2>1. x3' \in Charge!Driver /\ x3'.long = x3.long /\ x3'.debug = x3.debug
    BY <1>0, <1>9 DEF Charge!HoldStarts, Charge!StockPolicy, Charge!Driver
  <2>2. x1' \in BOOLEAN /\ x2' \in BOOLEAN /\ x7' \in BOOLEAN /\ ~x7'
    BY <1>0, <2>0
  <2>3. CASE x4 = None
    BY <2>0, <2>1, <2>2, <2>3 DEF Charge!ChargeInv, Charge!Read, Charge!OffMeansOff, Charge!Unsure
  <2>4. CASE x4 # None
    <3>1. /\ x4' \in Charge!Operation /\ x4'.step = x4.step /\ x4'.seen = x4.seen
          /\ x4'.sure = FALSE
      BY <1>0, <2>0, <2>4 DEF Charge!Unsure, Charge!Operation
    <3>2. x4'.step \in {"ask", "threshold"} => x4'.seen.long = x3'.long /\ x4'.seen.debug = x3'.debug
      <4>1. x4.step \in {"ask", "threshold"} => x4.seen.long = x3.long /\ x4.seen.debug = x3.debug
        BY <1>0, <2>4 DEF Charge!Read
      <4> QED
        BY <2>1, <3>1, <4>1, Zenon
    <3>3. Charge!Read'
      BY <2>2, <3>1, <3>2, Zenon DEF Charge!Read
    <3> QED
      BY <2>1, <2>2, <3>1, <3>3 DEF Charge!ChargeInv, Charge!OffMeansOff
  <2> QED
    BY <2>3, <2>4
<1>10. CASE Charge!Reboot \/ Charge!Restart
  <2>1. x1' = x1 /\ x2' = x1 /\ x7' = FALSE /\ x4' = None
    BY <1>10 DEF Charge!Reboot, Charge!Restart, Charge!Happens
  <2>2. x3' \in Charge!Driver
    <3>1. x3' = x3 \/ x3' = Charge!Booted(x3.policy)
      BY <1>10 DEF Charge!Reboot, Charge!Restart
    <3>2. x3.policy \in Policies \cup {Zgd}
      BY <1>0 DEF Charge!Driver
    <3>3. Charge!Booted(x3.policy) \in Charge!Driver
      BY <3>2 DEF Charge!Booted, Charge!Driver
    <3> QED
      BY <1>0, <3>1, <3>3
  <2>3. x1' \in BOOLEAN /\ x2' \in BOOLEAN /\ x7' \in BOOLEAN /\ ~x7'
    BY <1>0, <2>1
  <2> QED
    BY <2>1, <2>2, <2>3 DEF Charge!ChargeInv, Charge!Read, Charge!OffMeansOff
<1> QED
  BY <1>1, <1>2, <1>3, <1>4, <1>5, <1>6, <1>7, <1>8, <1>9, <1>10 DEF Charge!Next

LEMMA ChargeAtWork ==
    ASSUME live' = "charge", [AllNext]_all
    PROVE  live = "charge" /\ [Charge!Next]_(Charge!vars)
BY DEF AllNext, all, Charge!vars, WatchStep, UciStep, WifiStep, ProbeStep, CellsStep, ReaderStep, FanStep,
       ChargeStep, UpdateStep, ApnStep, IdStep, ExtraStep, Keep0, Keep5, Keep6, Keep7, Keep8, Keep10,
       Keep12, Keep13, Keep14

\* For any policies, any driver events and failures: once the protection is
\* reported off, no hold runs and the long threshold is set
\* (charge_protection.rs, enforce and release_hold).
THEOREM OffMeansOffHolds == AllSpec => []OffMeansOff
<1> DEFINE Inv == live = "charge" => Charge!ChargeInv
<1>1. AllInit => Inv
  BY ChargeInit DEF AllInit
<1>2. Inv /\ [AllNext]_all => Inv'
  <2> SUFFICES ASSUME Inv, [AllNext]_all, live' = "charge" PROVE Charge!ChargeInv'
    OBVIOUS
  <2>1. live = "charge" /\ (Charge!Next \/ UNCHANGED Charge!vars)
    BY ChargeAtWork
  <2>2. CASE UNCHANGED Charge!vars
    <3>1. x1' = x1 /\ x2' = x2 /\ x3' = x3 /\ x4' = x4 /\ x7' = x7
      BY <2>2 DEF Charge!vars
    <3> QED
      BY <2>1, <3>1, Zenon DEF Charge!ChargeInv, Charge!Read, Charge!OffMeansOff
  <2> QED
    BY <2>1, <2>2, ChargeStepKept
<1>3. Inv => OffMeansOff
  BY DEF OffMeansOff, Charge!ChargeInv
<1> QED
  BY <1>1, <1>2, <1>3, PTL DEF AllSpec
(***************************************************************************)
(* NeighborReader: NoSilentAttribution from ReaderInv.  x1 is frames, x2   *)
(* directs, x3 samples, x4 discarded, x5 malformed.                        *)
(***************************************************************************)
LEMMA RangeOfAppend ==
    ASSUME NEW S, NEW q \in Seq(S), NEW e \in S
    PROVE  Reader!Range(Append(q, e)) = Reader!Range(q) \cup {e}
<1>1. DOMAIN Append(q, e) = 1 .. Len(q) + 1 /\ DOMAIN q = 1 .. Len(q) /\ Len(q) \in Nat
  OBVIOUS
<1>2. \A k \in 1 .. Len(q) + 1 : Append(q, e)[k] = IF k = Len(q) + 1 THEN e ELSE q[k]
  OBVIOUS
<1>3. ASSUME NEW k \in 1 .. Len(q) + 1 PROVE Append(q, e)[k] \in Reader!Range(q) \cup {e}
  BY <1>1, <1>2 DEF Reader!Range
<1>4. ASSUME NEW k \in 1 .. Len(q) PROVE q[k] \in Reader!Range(Append(q, e))
  BY <1>1, <1>2 DEF Reader!Range
<1>5. e \in Reader!Range(Append(q, e))
  BY <1>1, <1>2 DEF Reader!Range
<1> QED
  BY <1>1, <1>3, <1>4, <1>5 DEF Reader!Range

LEMMA ReaderStepKept ==
    ASSUME Reader!ReaderInv, Reader!Next
    PROVE  Reader!ReaderInv'
<1>0. /\ x1 \in Seq(Reader!Frame) /\ x4 \in Nat /\ Len(x1) \in Nat
      /\ x4 = 0 =>
           /\ x2 \in Seq(Reader!Frame)
           /\ Reader!Range(x2) = {f \in Reader!Range(x1) : f.kind = "direct"}
  BY DEF Reader!ReaderInv
<1>1. ASSUME NEW p \in Pcis, NEW a \in Arfcns, Reader!Direct(p, a) PROVE Reader!ReaderInv'
  <2> DEFINE r == [kind |-> "direct", pci |-> p, arfcn |-> a, seq |-> Len(x1) + 1]
  <2>1. r \in Reader!Frame /\ r.kind = "direct"
    BY <1>0 DEF Reader!Frame
  <2>2. /\ x1' = Append(x1, r) /\ x2' = Reader!Keep(x2, r)
        /\ x4' = x4 + (IF Len(x2) = Records THEN 1 ELSE 0)
    BY <1>1 DEF Reader!Direct
  <2> HIDE DEF r
  <2>3. x1' \in Seq(Reader!Frame) /\ Reader!Range(x1') = Reader!Range(x1) \cup {r} /\ x4' \in Nat
    BY <1>0, <2>1, <2>2, RangeOfAppend
  <2>4. CASE x4' = 0
    <3>1. x4 = 0 /\ x2' = Append(x2, r)
      BY <1>0, <2>2, <2>4 DEF Reader!Keep
    <3>2. x2' \in Seq(Reader!Frame) /\ Reader!Range(x2') = Reader!Range(x2) \cup {r}
      BY <1>0, <2>1, <3>1, RangeOfAppend
    <3> QED
      BY <1>0, <2>1, <2>3, <3>1, <3>2 DEF Reader!ReaderInv
  <2> QED
    BY <2>3, <2>4 DEF Reader!ReaderInv
<1>2. ASSUME NEW r \in Reader!Frame, r.kind # "direct", x1' = Append(x1, r), x2' = x2, x4' \in Nat,
             x4' = 0 => x4 = 0
      PROVE  Reader!ReaderInv'
  <2>1. x1' \in Seq(Reader!Frame) /\ Reader!Range(x1') = Reader!Range(x1) \cup {r}
    BY <1>0, <1>2, RangeOfAppend
  <2>2. {f \in Reader!Range(x1') : f.kind = "direct"} = {f \in Reader!Range(x1) : f.kind = "direct"}
    BY <1>2, <2>1
  <2> QED
    BY <1>0, <1>2, <2>1, <2>2 DEF Reader!ReaderInv, Reader!Range
<1>3. ASSUME NEW p \in Pcis, NEW wide \in BOOLEAN, Reader!Sample(p, wide) PROVE Reader!ReaderInv'
  <2> DEFINE r == [kind |-> "sample", pci |-> p, wide |-> wide, seq |-> Len(x1) + 1]
  <2>1. r \in Reader!Frame /\ r.kind # "direct"
    BY <1>0 DEF Reader!Frame
  <2>2. x1' = Append(x1, r) /\ x2' = x2 /\ x4' = x4 + (IF Len(x3) = Records THEN 1 ELSE 0)
    BY <1>3 DEF Reader!Sample
  <2> HIDE DEF r
  <2>3. x4' \in Nat /\ (x4' = 0 => x4 = 0)
    BY <1>0, <2>2
  <2> QED
    BY <1>2, <2>1, <2>2, <2>3
<1>4. CASE Reader!Broken
  <2> DEFINE r == [kind |-> "broken"]
  <2>1. r \in Reader!Frame /\ r.kind # "direct"
    BY <1>0 DEF Reader!Frame
  <2>2. x1' = Append(x1, r) /\ x2' = x2 /\ x4' = x4
    BY <1>4 DEF Reader!Broken
  <2> HIDE DEF r
  <2> QED
    BY <1>0, <1>2, <2>1, <2>2
<1> QED
  BY <1>1, <1>3, <1>4 DEF Reader!Next
(***************************************************************************)
(* Neighbor: OneCollector from CellsInv.  x1 is owner, x2 dirs, x3 m, x4   *)
(* net, x5 starts.                                                         *)
(***************************************************************************)

\* An instance whose manager becomes r, while the lock and the directories
\* stay.
LEMMA CellsOne ==
    ASSUME Cells!CellsInv, NEW i \in Instances, NEW r \in Cells!Manager,
           x3' = [x3 EXCEPT ![i] = r], x1' = x1, x2' = x2, x4' = x4,
           r.lock => x1 = i,
           r.child = "running" => r.lock /\ i \in x2,
           r.stop = "again" => ~r.lock
    PROVE  Cells!CellsInv'
<1>1. x3' \in [Instances -> Cells!Manager] /\ x3'[i] = r /\ \A j \in Instances \ {i} : x3'[j] = x3[j]
  BY DEF Cells!CellsInv
<1>2. ASSUME NEW j \in Instances
      PROVE  /\ x3'[j].lock => x1 = j
             /\ x3'[j].child = "running" => x3'[j].lock /\ j \in x2
             /\ x3'[j].stop = "again" => ~x3'[j].lock
  <2>1. CASE j = i
    BY <1>1, <2>1
  <2>2. CASE j # i
    BY <1>1, <2>2 DEF Cells!CellsInv
  <2> QED
    BY <2>1, <2>2
<1> QED
  BY <1>1, <1>2 DEF Cells!CellsInv

\* Nobody else has the lock, and it becomes o.
LEMMA CellsLocked ==
    ASSUME Cells!CellsInv, NEW i \in Instances, NEW r \in Cells!Manager, NEW o,
           \A j \in Instances \ {i} : ~x3[j].lock,
           x3' = [x3 EXCEPT ![i] = r], x1' = o, x4' = x4,
           r.lock => o = i,
           r.child = "running" => r.lock /\ i \in x2',
           r.stop = "again" => ~r.lock
    PROVE  Cells!CellsInv'
<1>1. x3' \in [Instances -> Cells!Manager] /\ x3'[i] = r /\ \A j \in Instances \ {i} : x3'[j] = x3[j]
  BY DEF Cells!CellsInv
<1>2. ASSUME NEW j \in Instances
      PROVE  /\ x3'[j].lock => o = j
             /\ x3'[j].child = "running" => x3'[j].lock /\ j \in x2'
             /\ x3'[j].stop = "again" => ~x3'[j].lock
  <2>1. CASE j = i
    BY <1>1, <2>1
  <2>2. CASE j # i
    BY <1>1, <2>2 DEF Cells!CellsInv
  <2> QED
    BY <2>1, <2>2
<1> QED
  BY <1>1, <1>2 DEF Cells!CellsInv

LEMMA CellsStart ==
    ASSUME Cells!CellsInv, NEW i \in Instances, NEW s \in Cells!Manager, NEW failed \in {"no", "off"},
           ~s.lock, s.child # "running", s.stop = "no", Cells!Start(i, s, failed), x4' = x4
    PROVE  Cells!CellsInv'
<1>1. ASSUME NEW t \in {"dependency_missing", "blocked"},
             x3' = [x3 EXCEPT ![i] = [s EXCEPT !.status = t]], UNCHANGED <<x1, x2>>
      PROVE  Cells!CellsInv'
  <2> DEFINE r == [s EXCEPT !.status = t]
  <2>1. r \in Cells!Manager /\ r.lock = s.lock /\ r.child = s.child /\ r.stop = s.stop
    BY DEF Cells!Manager
  <2>2. x3' = [x3 EXCEPT ![i] = r]
    BY <1>1
  <2> HIDE DEF r
  <2>3. ~r.lock
    BY <2>1, Zenon
  <2> QED
    BY <1>1, <2>1, <2>2, <2>3, CellsOne
<1>2. ASSUME x1 = None PROVE \A j \in Instances : ~x3[j].lock
  BY <1>2, CellsAssumption DEF Cells!CellsInv
<1>3. ASSUME x1 = None, x1' = i, x2' = {i},
             x3' = [x3 EXCEPT ![i] = [s EXCEPT !.lock = TRUE, !.run = TRUE, !.child = "running",
                                               !.status = "collecting"]]
      PROVE  Cells!CellsInv'
  <2> DEFINE r == [s EXCEPT !.lock = TRUE, !.run = TRUE, !.child = "running", !.status = "collecting"]
  <2>1. r \in Cells!Manager /\ r.lock = TRUE /\ r.child = "running" /\ r.stop = "no"
    BY DEF Cells!Manager
  <2>2. x3' = [x3 EXCEPT ![i] = r]
    BY <1>3
  <2> HIDE DEF r
  <2> QED
    BY <1>2, <1>3, <2>1, <2>2, CellsLocked
<1>4. ASSUME x1 = None, x1' = i, x2' = {},
             x3' = [x3 EXCEPT ![i] = [s EXCEPT !.lock = TRUE, !.status = "error", !.stop = failed,
                                               !.enabled = (failed = "no")]]
      PROVE  Cells!CellsInv'
  <2> DEFINE r == [s EXCEPT !.lock = TRUE, !.status = "error", !.stop = failed, !.enabled = (failed = "no")]
  <2>1. r \in Cells!Manager /\ r.lock = TRUE /\ r.child = s.child /\ r.stop = failed
    <3>1. (failed = "no") \in BOOLEAN
      OBVIOUS
    <3> QED
      BY <3>1 DEF Cells!Manager
  <2>2. x3' = [x3 EXCEPT ![i] = r]
    BY <1>4
  <2> HIDE DEF r
  <2> QED
    BY <1>2, <1>4, <2>1, <2>2, CellsLocked
<1> QED
  BY <1>1, <1>3, <1>4 DEF Cells!Start

LEMMA CellsStepKept ==
    ASSUME Cells!CellsInv, Cells!Next
    PROVE  Cells!CellsInv'
<1>0. /\ x3 \in [Instances -> Cells!Manager] /\ x4 \in {1, 2}
      /\ \A i \in Instances :
           /\ x3[i].lock => x1 = i
           /\ x3[i].child = "running" => x3[i].lock /\ i \in x2
           /\ x3[i].stop = "again" => ~x3[i].lock
  BY DEF Cells!CellsInv
<1>1. ASSUME NEW i \in Instances, Cells!Enable(i) PROVE Cells!CellsInv'
  <2> DEFINE s == [x3[i] EXCEPT !.enabled = TRUE]
  <2>1. x3[i] \in Cells!Manager /\ ~x3[i].lock /\ x3[i].stop = "no" /\ x3[i].child # "running"
    BY <1>0, <1>1 DEF Cells!Enable, Cells!Free
  <2>2. s \in Cells!Manager /\ s.lock = x3[i].lock /\ s.child = x3[i].child /\ s.stop = "no"
    BY <2>1 DEF Cells!Manager
  <2>3. Cells!Start(i, s, "off") /\ x4' = x4
    BY <1>1 DEF Cells!Enable
  <2> HIDE DEF s
  <2>4. ~s.lock
    BY <2>1, <2>2, Zenon
  <2> QED
    BY <2>1, <2>2, <2>3, <2>4, CellsStart
<1>2. ASSUME NEW i \in Instances, Cells!Disable(i) PROVE Cells!CellsInv'
  <2> DEFINE r == [x3[i] EXCEPT !.stop = "off", !.enabled = @ /\ "off" # "off"]
  <2>1. x3[i] \in Cells!Manager
    BY <1>0
  <2>2. x3' = [x3 EXCEPT ![i] = r] /\ x1' = x1 /\ x2' = x2 /\ x4' = x4
    BY <1>0, <1>2 DEF Cells!Disable, Cells!Stop
  <2>3. r \in Cells!Manager /\ r.lock = x3[i].lock /\ r.child = x3[i].child /\ r.stop = "off"
    BY <2>1 DEF Cells!Manager
  <2> HIDE DEF r
  <2>4. (r.lock => x1 = i) /\ (r.child = "running" => r.lock /\ i \in x2)
    BY <1>0, <2>3, Zenon
  <2> QED
    BY <2>2, <2>3, <2>4, CellsOne
<1>a. ASSUME NEW i \in Instances, NEW r \in Cells!Manager, x3' = [x3 EXCEPT ![i] = r],
             x1' = x1, x2' = x2, x4' = x4, r.lock = x3[i].lock,
             r.child = "running" => x3[i].child = "running", r.stop # "again"
      PROVE  Cells!CellsInv'
  <2>1. (r.lock => x1 = i) /\ (r.child = "running" => r.lock /\ i \in x2)
    BY <1>0, <1>a, Zenon
  <2> QED
    BY <1>a, <2>1, CellsOne
<1>3. ASSUME NEW i \in Instances, Cells!Tick(i) PROVE Cells!CellsInv'
  <2>0. x3[i] \in Cells!Manager /\ x3[i].stop = "no" /\ x4' = x4
    BY <1>0, <1>3 DEF Cells!Tick, Cells!Free
  <2>1. CASE x3[i].child = "none" /\ ~x3[i].lock /\ Cells!Start(i, x3[i], "no")
    BY <2>0, <2>1, CellsStart
  <2>2. CASE /\ x3' = [x3 EXCEPT ![i].context = x4, ![i].stop = IF x3[i].context = 0 THEN "no" ELSE "restart"]
             /\ UNCHANGED <<x1, x2, x5>>
    <3> DEFINE t == IF x3[i].context = 0 THEN "no" ELSE "restart"
               r == [x3[i] EXCEPT !.context = x4, !.stop = t]
    <3>1. t \in {"no", "restart"}
      OBVIOUS
    <3>2. x3' = [x3 EXCEPT ![i] = r] /\ x1' = x1 /\ x2' = x2
      BY <1>0, <2>2
    <3> HIDE DEF t
    <3>3. r \in Cells!Manager /\ r.lock = x3[i].lock /\ r.child = x3[i].child /\ r.stop = t
      BY <1>0, <2>0, <3>1 DEF Cells!Manager
    <3> HIDE DEF r
    <3> QED
      BY <1>a, <2>0, <3>1, <3>2, <3>3
  <2>3. CASE /\ x3' = [x3 EXCEPT ![i].child = "none", ![i].status = "error"]
             /\ UNCHANGED <<x1, x2, x5>>
    <3> DEFINE r == [x3[i] EXCEPT !.child = "none", !.status = "error"]
    <3>1. x3' = [x3 EXCEPT ![i] = r] /\ x1' = x1 /\ x2' = x2
      BY <1>0, <2>3
    <3>2. r \in Cells!Manager /\ r.lock = x3[i].lock /\ r.child = "none" /\ r.stop = "no"
      BY <2>0 DEF Cells!Manager
    <3> HIDE DEF r
    <3> QED
      BY <1>a, <2>0, <3>1, <3>2
  <2>4. CASE /\ x3' = [x3 EXCEPT ![i].stop = "limit", ![i].status = "error"]
             /\ UNCHANGED <<x1, x2, x5>>
    <3> DEFINE r == [x3[i] EXCEPT !.stop = "limit", !.status = "error"]
    <3>1. x3' = [x3 EXCEPT ![i] = r] /\ x1' = x1 /\ x2' = x2
      BY <1>0, <2>4
    <3>2. r \in Cells!Manager /\ r.lock = x3[i].lock /\ r.child = x3[i].child /\ r.stop = "limit"
      BY <2>0 DEF Cells!Manager
    <3> HIDE DEF r
    <3> QED
      BY <1>a, <2>0, <3>1, <3>2
  <2>5. CASE /\ x3' = [x3 EXCEPT ![i].status = "ready"]
             /\ UNCHANGED <<x1, x2, x5>>
    <3> DEFINE r == [x3[i] EXCEPT !.status = "ready"]
    <3>1. x3' = [x3 EXCEPT ![i] = r] /\ x1' = x1 /\ x2' = x2
      BY <1>0, <2>5
    <3>2. r \in Cells!Manager /\ r.lock = x3[i].lock /\ r.child = x3[i].child /\ r.stop = "no"
      BY <2>0 DEF Cells!Manager
    <3> HIDE DEF r
    <3> QED
      BY <1>a, <2>0, <3>1, <3>2
  <2> QED
    BY <1>3, <2>1, <2>2, <2>3, <2>4, <2>5 DEF Cells!Tick
<1>4. ASSUME NEW i \in Instances, Cells!Stopped(i) PROVE Cells!CellsInv'
  <2> DEFINE s == [x3[i] EXCEPT !.child = "none", !.stop = "no"]
  <2>0. x3[i] \in Cells!Manager /\ x4' = x4
    BY <1>0, <1>4 DEF Cells!Stopped
  <2>1. s \in Cells!Manager /\ s.lock = x3[i].lock /\ s.child = "none" /\ s.stop = "no"
    BY <2>0 DEF Cells!Manager
  <2>2. CASE x3[i].stop = "limit"
    <3>1. x3' = [x3 EXCEPT ![i] = s] /\ x1' = x1 /\ x2' = x2
      BY <1>4, <2>2 DEF Cells!Stopped
    <3> HIDE DEF s
    <3> QED
      BY <1>a, <2>0, <2>1, <3>1
  <2>3. CASE x3[i].stop # "limit"
    <3> DEFINE t == IF x3[i].stop = "restart" THEN "again" ELSE "no"
               st == IF x3[i].stop = "restart" THEN s.status ELSE "disabled"
               r == [s EXCEPT !.run = FALSE, !.lock = FALSE, !.stop = t, !.status = st]
    <3>1. /\ x3' = [x3 EXCEPT ![i] = r]
          /\ x2' = IF x3[i].run THEN x2 \ {i} ELSE x2
          /\ x1' = IF x3[i].lock THEN None ELSE x1
      BY <1>4, <2>3 DEF Cells!Stopped
    <3> HIDE DEF s
    <3>2. t \in {"no", "again"} /\ st \in {"disabled", "dependency_missing", "blocked", "collecting", "ready", "error"}
      BY <2>1 DEF Cells!Manager
    <3> HIDE DEF t, st
    <3>3. r \in Cells!Manager /\ r.lock = FALSE /\ r.child = "none"
      BY <2>1, <3>2 DEF Cells!Manager
    <3> HIDE DEF r
    <3>4. CASE x3[i].lock
      <4>1. \A j \in Instances \ {i} : ~x3[j].lock
        BY <1>0, <3>4
      <4> QED
        BY <2>0, <3>1, <3>3, <4>1, CellsLocked
    <3>5. CASE ~x3[i].lock
      <4>1. x3' \in [Instances -> Cells!Manager] /\ x3'[i] = r /\ \A j \in Instances \ {i} : x3'[j] = x3[j]
        BY <1>0, <3>1, <3>3
      <4>2. x1' = x1 /\ \A j \in Instances \ {i} : j \in x2 => j \in x2'
        BY <3>1, <3>5
      <4>3. ASSUME NEW j \in Instances
            PROVE  /\ x3'[j].lock => x1' = j
                   /\ x3'[j].child = "running" => x3'[j].lock /\ j \in x2'
                   /\ x3'[j].stop = "again" => ~x3'[j].lock
        <5>1. CASE j = i
          BY <3>3, <4>1, <5>1
        <5>2. CASE j # i
          <6>1. x3'[j] = x3[j]
            BY <4>1, <5>2
          <6> QED
            BY <1>0, <4>2, <5>2, <6>1, Zenon
        <5> QED
          BY <5>1, <5>2
      <4> QED
        BY <1>0, <2>0, <4>1, <4>3 DEF Cells!CellsInv
    <3> QED
      BY <3>4, <3>5
  <2> QED
    BY <2>2, <2>3
<1>5. ASSUME NEW i \in Instances, Cells!Again(i) PROVE Cells!CellsInv'
  <2> DEFINE s == [x3[i] EXCEPT !.stop = "no"]
  <2>1. x3[i] \in Cells!Manager /\ x3[i].stop = "again" /\ x3[i].child # "running" /\ ~x3[i].lock
    BY <1>0, <1>5 DEF Cells!Again
  <2>2. s \in Cells!Manager /\ s.lock = x3[i].lock /\ s.child = x3[i].child /\ s.stop = "no"
    BY <2>1 DEF Cells!Manager
  <2>3. Cells!Start(i, s, "no") /\ x4' = x4
    BY <1>5 DEF Cells!Again
  <2> HIDE DEF s
  <2>4. ~s.lock
    BY <2>1, <2>2, Zenon
  <2> QED
    BY <2>1, <2>2, <2>3, <2>4, CellsStart
<1>6. ASSUME NEW i \in Instances, Cells!Exits(i) PROVE Cells!CellsInv'
  <2> DEFINE r == [x3[i] EXCEPT !.child = "exited"]
  <2>0. x3[i] \in Cells!Manager
    BY <1>0
  <2>1. x3' = [x3 EXCEPT ![i] = r] /\ x1' = x1 /\ x2' = x2 /\ x4' = x4
    BY <1>0, <1>6 DEF Cells!Exits
  <2>2. r \in Cells!Manager /\ r.lock = x3[i].lock /\ r.child = "exited" /\ r.stop = x3[i].stop
    BY <2>0 DEF Cells!Manager
  <2> HIDE DEF r
  <2>3. (r.lock => x1 = i) /\ (r.stop = "again" => ~r.lock)
    BY <1>0, <2>2, Zenon
  <2> QED
    BY <2>1, <2>2, <2>3, CellsOne
<1>7. CASE Cells!Moves
  <2>1. x4' \in {1, 2} /\ x1' = x1 /\ x2' = x2 /\ x3' = x3
    BY <1>7 DEF Cells!Moves
  <2> QED
    BY <1>0, <2>1, Zenon DEF Cells!CellsInv
<1> QED
  BY <1>1, <1>2, <1>3, <1>4, <1>5, <1>6, <1>7 DEF Cells!Next

LEMMA CellsAtWork ==
    ASSUME [AllNext]_all
    PROVE  /\ live' = "cells" => live = "cells" /\ [Cells!Next]_(Cells!vars)
           /\ live' = "reader" => live = "reader" /\ [Reader!Next]_(Reader!vars)
BY DEF AllNext, all, Cells!vars, Reader!vars, WatchStep, UciStep, WifiStep, ProbeStep, CellsStep, ReaderStep,
       FanStep, ChargeStep, UpdateStep, ApnStep, IdStep, ExtraStep, Keep0, Keep5, Keep6, Keep7, Keep8,
       Keep10, Keep12, Keep13, Keep14

\* For any number of instances that replace each other, and any capture: one
\* collector at most, with its directory (neighbor_manager.rs, start, restart,
\* shutdown), and no cell is given a frequency that the whole capture does not
\* give it, unless the result says that it is partial (neighbor.rs, result).
THEOREM CellsTrueHolds == AllSpec => []CellsTrue
<1> DEFINE Inv == /\ live = "cells" => Cells!CellsInv
                  /\ live = "reader" => Reader!ReaderInv
<1>1. AllInit => Inv
  <2>1. Cells!Init => Cells!CellsInv
    <3> SUFFICES ASSUME Cells!Init PROVE Cells!CellsInv
      OBVIOUS
    <3>1. x3 = [i \in Instances |-> Cells!Off] /\ x4 = 1
      BY DEF Cells!Init
    <3>2. /\ Cells!Off \in Cells!Manager /\ Cells!Off.lock = FALSE /\ Cells!Off.child # "running"
          /\ Cells!Off.stop # "again"
      BY DEF Cells!Off, Cells!Manager
    <3> QED
      BY <3>1, <3>2 DEF Cells!CellsInv
  <2>2. Reader!Init => Reader!ReaderInv
    BY DEF Reader!Init, Reader!ReaderInv, Reader!Range
  <2> QED
    BY <2>1, <2>2 DEF AllInit
<1>2. Inv /\ [AllNext]_all => Inv'
  <2> SUFFICES ASSUME Inv, [AllNext]_all PROVE Inv'
    OBVIOUS
  <2>1. ASSUME live' = "cells" PROVE Cells!CellsInv'
    <3>1. CASE UNCHANGED Cells!vars
      <4>1. x1' = x1 /\ x2' = x2 /\ x3' = x3 /\ x4' = x4
        BY <3>1 DEF Cells!vars
      <4> QED
        BY <2>1, <4>1, CellsAtWork, Zenon DEF Cells!CellsInv
    <3> QED
      BY <2>1, <3>1, CellsAtWork, CellsStepKept
  <2>2. ASSUME live' = "reader" PROVE Reader!ReaderInv'
    <3>1. CASE UNCHANGED Reader!vars
      BY <2>2, <3>1, CellsAtWork DEF Reader!vars, Reader!ReaderInv, Reader!Range
    <3> QED
      BY <2>2, <3>1, CellsAtWork, ReaderStepKept
  <2> QED
    BY <2>1, <2>2
<1>3. Inv => CellsTrue
  <2>1. Cells!CellsInv => Cells!OneCollector
    BY DEF Cells!CellsInv, Cells!OneCollector
  <2>2. Reader!ReaderInv => Reader!NoSilentAttribution
    <3> SUFFICES ASSUME Reader!ReaderInv, ~Reader!Partial, NEW x \in Reader!Attributed
                 PROVE  Reader!Anchors(x[1], {f \in Reader!Range(x1) : f.kind = "direct"}) = {x[2]}
      BY DEF Reader!NoSilentAttribution
    <3>1. x4 = 0
      BY DEF Reader!ReaderInv, Reader!Partial
    <3>2. Reader!Range(x2) = {f \in Reader!Range(x1) : f.kind = "direct"}
      BY <3>1 DEF Reader!ReaderInv
    <3>3. Reader!Anchors(x[1], Reader!Range(x2)) = {x[2]}
      BY DEF Reader!Attributed
    <3> QED
      BY <3>2, <3>3, Zenon
  <2> QED
    BY <2>1, <2>2 DEF CellsTrue
<1> QED
  BY <1>1, <1>2, <1>3, PTL DEF AllSpec
(***************************************************************************)
(* Cooling: FanSafe from CoolInv.  x1 is conf, x2 fan, x3 pump, x4 temp,   *)
(* x5 vendor, x6 off, x7 mem, x8 op, x9 sample, x10 ops, x11 events, x12   *)
(* faults, x13 last.                                                       *)
(***************************************************************************)

\* A step that leaves the fan and what was applied last alone.
LEMMA CoolFrame ==
    ASSUME Fan!CoolInv, Fan!Shapes', x7'.hard = x7.hard, x7'.stopping = x7.stopping, x2' = x2,
           x13' = x13, x7.stopping => x8' = None /\ x1' = x1
    PROVE  Fan!CoolInv'
<1>1. x13'.seen = "hot" => x7'.hard
  BY Zenon DEF Fan!CoolInv
<1>2. x7'.stopping => x8' = None
  BY Zenon
<1>3. Fan!HotStaysFull'
  BY Zenon DEF Fan!CoolInv, Fan!HotStaysFull
<1>4. Fan!KernelRules'
  BY Zenon DEF Fan!CoolInv, Fan!KernelRules
<1> QED
  BY <1>1, <1>2, <1>3, <1>4 DEF Fan!CoolInv

\* apply_fan_recorded, in a process that is not stopping.
LEMMA CoolApply ==
    ASSUME Fan!CoolInv, NEW c \in Fan!Config, NEW m \in Fan!Memory, NEW ok \in BOOLEAN,
           m.hard = x7.hard, ~m.stopping, Fan!Apply(c, m, ok)
    PROVE  /\ x2' \in Fan!Driven /\ x7' \in Fan!Memory /\ x13' \in Fan!Applied
           /\ ~x7'.stopping
           /\ x13'.seen = "hot" => x7'.hard
           /\ Fan!HotStaysFull'
<1>0. /\ x2 \in Fan!Driven /\ x13 \in Fan!Applied /\ x4 \in Fan!Temps
      /\ (x13.seen = "hot" => m.hard)
  BY DEF Fan!CoolInv, Fan!Shapes
<1>1. CASE /\ x2' = [x2 EXCEPT !.by = "kernel"] \/ x2' = [x2 EXCEPT !.by = "datad"]
           /\ x7' = m
           /\ x13' = [x13 EXCEPT !.ok = FALSE, !.broken = FALSE] \/ x13' = [x13 EXCEPT !.ok = FALSE, !.broken = TRUE]
  <2>1. x2' \in Fan!Driven
    BY <1>0, <1>1 DEF Fan!Driven
  <2>2. x13' \in Fan!Applied /\ x13'.ok = FALSE /\ x13'.seen = x13.seen
    BY <1>0, <1>1 DEF Fan!Applied
  <2>3. Fan!HotStaysFull'
    BY <2>2 DEF Fan!HotStaysFull
  <2>4. x13'.seen = "hot" => x7'.hard
    BY <1>0, <1>1, <2>2, Zenon
  <2>5. ~x7'.stopping /\ x7' \in Fan!Memory
    BY <1>1, Zenon
  <2> QED
    BY <2>1, <2>2, <2>3, <2>4, <2>5
<1>2. CASE LET p == Fan!Policy(c, m) IN
           /\ p.pwm # None
           /\ x2' = [by |-> p.by, pwm |-> p.pwm] /\ x7' = [m EXCEPT !.hard = p.hard]
           /\ x13' = [ok |-> TRUE, temp |-> x4, seen |-> IF x4 = "lost" THEN x13.seen ELSE x4,
                      broken |-> FALSE]
  <2> DEFINE p == Fan!Policy(c, m)
  <2>1. /\ p.by \in {"kernel", "datad"} /\ p.pwm \in {"full", "fixed", "curve", None} /\ p.hard \in BOOLEAN
        /\ Fan!Urgent(m) => p.by = "datad" /\ p.pwm = "full" /\ p.hard = TRUE
    BY <1>0 DEF Fan!Policy, Fan!curve_pwm, Fan!Driven, Fan!Memory, Fan!Temps
  <2>2. /\ p.pwm # None /\ x2' = [by |-> p.by, pwm |-> p.pwm] /\ x7' = [m EXCEPT !.hard = p.hard]
    BY <1>2
  <2> HIDE DEF p
  <2>3. x2' \in Fan!Driven
    BY <2>1, <2>2 DEF Fan!Driven
  <2>4. x7' \in Fan!Memory /\ x7'.hard = p.hard /\ x7'.stopping = m.stopping
    BY <2>1, <2>2 DEF Fan!Memory
  <2>5. /\ x13' \in Fan!Applied /\ x13'.temp = x4
        /\ x13'.seen = IF x4 = "lost" THEN x13.seen ELSE x4
    BY <1>0, <1>2 DEF Fan!Applied, Fan!Temps
  <2>6. x13'.seen = "hot" => Fan!Urgent(m)
    BY <1>0, <2>5 DEF Fan!Urgent
  <2>7. x13'.seen = "hot" => x7'.hard /\ x2' = [by |-> "datad", pwm |-> "full"]
    BY <2>1, <2>2, <2>4, <2>6
  <2>8. ~x7'.stopping
    BY <2>4, Zenon
  <2> QED
    BY <2>3, <2>4, <2>5, <2>7, <2>8 DEF Fan!HotStaysFull
<1> QED
  BY <1>1, <1>2 DEF Fan!Apply, Fan!Restored
LEMMA CoolStepKept ==
    ASSUME Fan!CoolInv, Fan!Next
    PROVE  Fan!CoolInv'
<1>0. /\ x1 \in Fan!Config \cup {None} /\ x8 \in Fan!Switching \cup {None}
      /\ x9 \in Fan!Reading \cup {None}
      /\ x7 \in Fan!Memory /\ x2 \in Fan!Driven /\ x13 \in Fan!Applied /\ x4 \in Fan!Temps
      /\ x5 \in [fan : BOOLEAN, liquid : BOOLEAN]
      /\ (x7.stopping => x8 = None) /\ (x13.seen = "hot" => x7.hard)
  BY DEF Fan!CoolInv, Fan!Shapes
<1>a. ASSUME Fan!Shapes', x7'.hard = x7.hard, ~x7.stopping, x7'.stopping = x7.stopping, x2' = x2,
             x13' = x13
      PROVE  Fan!CoolInv'
  BY <1>a, CoolFrame
<1>b. ASSUME Fan!Shapes', ~x7'.stopping, x13'.seen = "hot" => x7'.hard, Fan!HotStaysFull'
      PROVE  Fan!CoolInv'
  BY <1>b DEF Fan!CoolInv, Fan!KernelRules
<1>c. Fan!load \in Fan!Config
  BY <1>0 DEF Fan!load, Fan!Default, Fan!Config
<1>d. \A s \in Fan!Reading \cup {None} : Fan!Counted(s) \in Fan!Reading \cup {None}
  BY DEF Fan!Counted, Fan!Reading
<1>e. [x7 EXCEPT !.handed = FALSE] \in Fan!Memory
      /\ [x7 EXCEPT !.handed = FALSE].hard = x7.hard
      /\ [x7 EXCEPT !.handed = FALSE].stopping = x7.stopping
  BY <1>0 DEF Fan!Memory
<1>1. CASE Fan!ExecuteFan
  <2>1. /\ x7' = [x7 EXCEPT !.handed = FALSE] /\ x8 = None
        /\ x1' = x1 /\ x2' = x2 /\ x4' = x4 /\ x5' = x5 /\ x13' = x13
    BY <1>1 DEF Fan!ExecuteFan, Fan!world
  <2>2. CASE x7.stopping
    <3>1. x8' = x8 /\ x9' = x9
      BY <1>1, <2>2 DEF Fan!ExecuteFan
    <3>2. Fan!Shapes'
      BY <1>0, <1>e, <2>1, <3>1 DEF Fan!Shapes
    <3> QED
      BY <1>e, <2>1, <3>1, <3>2, CoolFrame
  <2>3. CASE ~x7.stopping
    <3>1. x9' = Fan!Counted(x9)
      BY <1>1, <2>3 DEF Fan!ExecuteFan
    <3>2. PICK i \in Fan!FanInputs :
            x8' = [step |-> "apply", what |-> "fan",
                   c |-> [Fan!load EXCEPT !.always = i.always, !.mode = IF i.always THEN @ ELSE i.mode]]
      BY <1>1, <2>3 DEF Fan!ExecuteFan
    <3>3. i.always \in BOOLEAN /\ (IF i.always THEN Fan!load.mode ELSE i.mode) \in {"automatic", "custom"}
      <4>0. Fan!load.mode \in {"automatic", "custom"}
        BY <1>c DEF Fan!Config
      <4>1. CASE i = [always |-> TRUE]
        <5>1. i.always = TRUE
          BY <4>1
        <5> QED
          BY <4>0, <5>1
      <4>2. CASE i \in {[always |-> FALSE, mode |-> "automatic"], [always |-> FALSE, mode |-> "custom"]}
        <5>1. i.always = FALSE /\ i.mode \in {"automatic", "custom"}
          BY <4>2
        <5> QED
          BY <5>1
      <4> QED
        BY <4>1, <4>2 DEF Fan!FanInputs
    <3> DEFINE c == [Fan!load EXCEPT !.always = i.always, !.mode = IF i.always THEN @ ELSE i.mode]
    <3>4. c \in Fan!Config
      <4> DEFINE a == i.always
                 d == IF i.always THEN Fan!load.mode ELSE i.mode
      <4>1. c = [Fan!load EXCEPT !.always = a, !.mode = d]
        BY <1>c
      <4>2. a \in BOOLEAN /\ d \in {"automatic", "custom"}
        BY <3>3
      <4> HIDE DEF a, d, c
      <4> QED
        BY <1>c, <4>1, <4>2 DEF Fan!Config
    <3> HIDE DEF c
    <3>5. x8' \in Fan!Switching
      BY <3>2, <3>4 DEF Fan!Switching, c
    <3>6. Fan!Shapes'
      BY <1>0, <1>d, <1>e, <2>1, <3>1, <3>5 DEF Fan!Shapes
    <3> QED
      BY <1>a, <1>e, <2>1, <2>3, <3>6
  <2> QED
    BY <2>2, <2>3
<1>2. CASE Fan!ExecuteLiquid
  <2>1. /\ x7' = [x7 EXCEPT !.handed = FALSE] /\ ~x7.stopping /\ x9' = Fan!Counted(x9)
        /\ x1' = x1 /\ x2' = x2 /\ x4' = x4 /\ x5' = x5 /\ x13' = x13
    BY <1>2 DEF Fan!ExecuteLiquid, Fan!world
  <2>2. PICK l \in {"off", "low", "high"} :
          x8' = [step |-> "apply", what |-> "liquid", c |-> [Fan!load EXCEPT !.liquid = l]]
    BY <1>2 DEF Fan!ExecuteLiquid
  <2>3. [Fan!load EXCEPT !.liquid = l] \in Fan!Config
    BY <1>c DEF Fan!Config
  <2>4. x8' \in Fan!Switching
    BY <2>2, <2>3 DEF Fan!Switching
  <2>5. Fan!Shapes'
    BY <1>0, <1>d, <1>e, <2>1, <2>4 DEF Fan!Shapes
  <2> QED
    BY <1>a, <1>e, <2>1, <2>5
<1>3. CASE Fan!ControlApply
  <2>0. /\ x8 \in Fan!Switching /\ x8.c \in Fan!Config /\ x8.c.liquid \in {"off", "low", "high"}
        /\ ~x7.stopping /\ x1' = x1 /\ x4' = x4 /\ x5' = x5 /\ x9' = x9
    BY <1>0, <1>3 DEF Fan!ControlApply, Fan!world, Fan!Switching, Fan!Config
  <2>1. [x8 EXCEPT !.step = "vendor"] \in Fan!Switching
    BY <2>0 DEF Fan!Switching
  <2>2. ASSUME NEW ok \in BOOLEAN, Fan!Apply(x8.c, x7, ok),
               x8' = IF ok THEN [x8 EXCEPT !.step = "vendor"] ELSE None
        PROVE  Fan!CoolInv'
    <3>1. Fan!Shapes'
      BY <1>0, <2>0, <2>1, <2>2, CoolApply DEF Fan!Shapes
    <3> QED
      BY <1>0, <1>b, <2>0, <2>2, <3>1, CoolApply
  <2>3. CASE /\ x7' = [x7 EXCEPT !.written = x8.c.liquid] /\ x8' = [x8 EXCEPT !.step = "vendor"]
             /\ x2' = x2 /\ x13' = x13
    <3>1. x7' \in Fan!Memory /\ x7'.hard = x7.hard /\ x7'.stopping = x7.stopping
      BY <1>0, <2>0, <2>3 DEF Fan!Memory
    <3>2. Fan!Shapes'
      BY <1>0, <2>0, <2>1, <2>3, <3>1 DEF Fan!Shapes
    <3> QED
      BY <1>a, <2>0, <2>3, <3>1, <3>2
  <2>4. CASE x8' = None /\ x2' = x2 /\ x7' = x7 /\ x13' = x13
    <3>1. Fan!Shapes'
      BY <1>0, <2>0, <2>4 DEF Fan!Shapes
    <3> QED
      BY <1>a, <2>0, <2>4, <3>1
  <2> QED
    BY <1>3, <2>2, <2>3, <2>4 DEF Fan!ControlApply
<1>4. CASE Fan!ControlVendor \/ Fan!ControlSave
  <2>0. /\ x8 \in Fan!Switching /\ x8.c \in Fan!Config /\ ~x7.stopping
        /\ x7' = x7 /\ x2' = x2 /\ x13' = x13 /\ x4' = x4
    BY <1>0, <1>4 DEF Fan!ControlVendor, Fan!ControlSave, Fan!world, Fan!Switching
  <2>1. x8' \in Fan!Switching \cup {None}
    BY <1>4, <2>0 DEF Fan!ControlVendor, Fan!ControlSave, Fan!Switching
  <2>2. x1' \in Fan!Config \cup {None}
    BY <1>0, <1>4, <2>0 DEF Fan!ControlVendor, Fan!ControlSave
  <2>3. x9' \in Fan!Reading \cup {None}
    <3>1. x9 # None => [x9 EXCEPT !.old = TRUE] \in Fan!Reading
      BY <1>0 DEF Fan!Reading
    <3> QED
      BY <1>0, <1>4, <3>1 DEF Fan!ControlVendor, Fan!ControlSave
  <2>4. x5' \in [fan : BOOLEAN, liquid : BOOLEAN]
    <3>1. x8.c.always \in BOOLEAN /\ (x8.c.liquid # "off") \in BOOLEAN
      BY <2>0 DEF Fan!Config
    <3>2. \/ x5' = x5 \/ x5' = [x5 EXCEPT !.fan = x8.c.always]
          \/ x5' = [x5 EXCEPT !.liquid = x8.c.liquid # "off"]
      BY <1>4 DEF Fan!ControlVendor, Fan!ControlSave, Fan!world
    <3> QED
      BY <1>0, <3>1, <3>2
  <2>5. Fan!Shapes'
    BY <1>0, <2>0, <2>1, <2>2, <2>3, <2>4 DEF Fan!Shapes
  <2> QED
    BY <1>a, <2>0, <2>5
<1>5. CASE Fan!SampleRevision \/ Fan!SampleFan \/ Fan!SampleLiquid
  <2>0. /\ x1' = x1 /\ x2' = x2 /\ x4' = x4 /\ x5' = x5 /\ x7' = x7 /\ x8' = x8 /\ x13' = x13
    BY <1>5 DEF Fan!SampleRevision, Fan!SampleFan, Fan!SampleLiquid, Fan!world
  <2>1. x9' \in Fan!Reading
    <3>1. CASE Fan!SampleRevision
      BY <3>1 DEF Fan!SampleRevision, Fan!Reading
    <3>2. CASE Fan!SampleFan
      <4>1. x5.fan \in BOOLEAN /\ x9 \in Fan!Reading
        BY <1>0, <3>2 DEF Fan!SampleFan
      <4> QED
        BY <3>2, <4>1 DEF Fan!SampleFan, Fan!Reading
    <3>3. CASE Fan!SampleLiquid
      <4>1. x5.liquid \in BOOLEAN /\ x9 \in Fan!Reading
        BY <1>0, <3>3 DEF Fan!SampleLiquid
      <4> QED
        BY <3>3, <4>1 DEF Fan!SampleLiquid, Fan!Reading
    <3> QED
      BY <1>5, <3>1, <3>2, <3>3
  <2>2. Fan!Shapes'
    BY <1>0, <2>0, <2>1 DEF Fan!Shapes
  <2>3. x7.stopping => x8' = None /\ x1' = x1
    BY <1>0, <2>0
  <2> QED
    BY <2>0, <2>2, <2>3, CoolFrame
<1>6. CASE Fan!SampleSync
  <2>0. x8 = None /\ x9 \in Fan!Reading /\ x9' = None /\ x8' = x8 /\ x4' = x4 /\ x5' = x5
    BY <1>0, <1>6 DEF Fan!SampleSync, Fan!world
  <2>1. CASE x7.stopping \/ x9.stale \/ x1 = None \/ Fan!Synced(x9) = x1
    <3>1. x1' = x1 /\ x2' = x2 /\ x7' = x7 /\ x13' = x13
      BY <1>6, <2>1 DEF Fan!SampleSync
    <3>2. Fan!Shapes'
      BY <1>0, <2>0, <3>1 DEF Fan!Shapes
    <3> QED
      BY <2>0, <3>1, <3>2, CoolFrame
  <2>2. CASE ~(x7.stopping \/ x9.stale \/ x1 = None \/ Fan!Synced(x9) = x1)
    <3> DEFINE c == Fan!Synced(x9)
               l == Fan!Pumped(c, x7, TRUE)
    <3>0. x1 \in Fan!Config /\ ~x7.stopping
      BY <1>0, <2>2
    <3>1. PICK ok \in BOOLEAN :
            /\ IF c.always = x1.always
               THEN ok /\ Fan!NoFault /\ x7' = [x7 EXCEPT !.written = l.written] /\ UNCHANGED <<x2, x13>>
               ELSE Fan!Apply(c, IF ok /\ c.liquid # x1.liquid
                                 THEN [x7 EXCEPT !.written = l.written] ELSE x7, ok)
            /\ x1' = IF ok THEN c ELSE x1
      BY <1>6, <2>2, Zenon DEF Fan!SampleSync
    <3>2. c \in Fan!Config
      <4> DEFINE a == x9.fan
                 d == IF x9.fan \/ ~x1.always THEN x1.mode ELSE "custom"
                 q == IF x9.liquid = (x1.liquid # "off") THEN x1.liquid
                      ELSE IF x9.liquid THEN "high" ELSE "off"
      <4>1. c = [x1 EXCEPT !.always = a, !.mode = d, !.liquid = q]
        BY DEF Fan!Synced
      <4>2. a \in BOOLEAN /\ d \in {"automatic", "custom"} /\ q \in {"off", "low", "high"}
        BY <2>0, <3>0 DEF Fan!Reading, Fan!Config
      <4> HIDE DEF a, d, q, c
      <4> QED
        BY <3>0, <4>1, <4>2 DEF Fan!Config
    <3>3. l.written \in {"off", "low", "high"}
      <4> HIDE DEF c
      <4> QED
        BY <3>2 DEF Fan!Pumped, Fan!Config
    <3> HIDE DEF c, l
    <3>4. /\ [x7 EXCEPT !.written = l.written] \in Fan!Memory
          /\ [x7 EXCEPT !.written = l.written].hard = x7.hard
          /\ [x7 EXCEPT !.written = l.written].stopping = x7.stopping
      BY <1>0, <3>3 DEF Fan!Memory
    <3>5. x1' \in Fan!Config
      BY <3>0, <3>1, <3>2
    <3>6. CASE c.always = x1.always
      <4>1. x7' = [x7 EXCEPT !.written = l.written] /\ x2' = x2 /\ x13' = x13
        BY <3>1, <3>6
      <4>2. Fan!Shapes'
        BY <1>0, <2>0, <3>4, <3>5, <4>1 DEF Fan!Shapes
      <4> QED
        BY <1>a, <3>0, <3>4, <4>1, <4>2
    <3>7. CASE c.always # x1.always
      <4> DEFINE m == IF ok /\ c.liquid # x1.liquid THEN [x7 EXCEPT !.written = l.written] ELSE x7
      <4>1. Fan!Apply(c, m, ok)
        BY <3>1, <3>7
      <4>2. m \in Fan!Memory /\ m.hard = x7.hard /\ m.stopping = x7.stopping
        BY <1>0, <3>4
      <4> HIDE DEF m
      <4>3. ~m.stopping
        BY <3>0, <4>2, Zenon
      <4>4. Fan!Shapes'
        BY <1>0, <2>0, <3>2, <3>5, <4>1, <4>2, <4>3, CoolApply DEF Fan!Shapes
      <4> QED
        BY <1>b, <3>2, <4>1, <4>2, <4>3, <4>4, CoolApply
    <3> QED
      BY <3>6, <3>7
  <2> QED
    BY <2>1, <2>2
<1>7. CASE Fan!TickOff
  <2>0. /\ x1 \in Fan!Config /\ ~x7.stopping /\ x1' = x1 /\ x4' = x4 /\ x5' = x5 /\ x8' = x8 /\ x9' = x9
    BY <1>0, <1>7 DEF Fan!TickOff, Fan!MayTick, Fan!world
  <2>1. CASE x7.handed
    <3>1. x2' = x2 /\ x7' = x7 /\ x13' = x13
      BY <1>7, <2>1 DEF Fan!TickOff
    <3>2. Fan!Shapes'
      BY <1>0, <2>0, <3>1 DEF Fan!Shapes
    <3> QED
      BY <1>a, <2>0, <3>1, <3>2
  <2>2. CASE ~x7.handed
    <3>1. /\ x7' = [x7 EXCEPT !.handed = TRUE, !.written = IF x1.liquid # "off" THEN "off" ELSE @]
          /\ \/ x2' = [x2 EXCEPT !.by = "kernel"] /\ x13' = [x13 EXCEPT !.ok = FALSE, !.broken = FALSE]
             \/ x2' = x2 /\ x13' = x13
      BY <1>7, <2>2 DEF Fan!TickOff, Fan!Restored
    <3>2. x7' \in Fan!Memory /\ x7'.hard = x7.hard /\ x7'.stopping = x7.stopping
      <4> DEFINE w == IF x1.liquid # "off" THEN "off" ELSE x7.written
      <4>1. w \in {"off", "low", "high", None}
        BY <1>0 DEF Fan!Memory
      <4>2. x7' = [x7 EXCEPT !.handed = TRUE, !.written = w]
        BY <1>0, <3>1
      <4> HIDE DEF w
      <4> QED
        BY <1>0, <4>1, <4>2 DEF Fan!Memory
    <3>3. CASE x2' = x2 /\ x13' = x13
      <4>1. Fan!Shapes'
        BY <1>0, <2>0, <3>2, <3>3 DEF Fan!Shapes
      <4> QED
        BY <1>a, <2>0, <3>2, <3>3, <4>1
    <3>4. CASE x2' = [x2 EXCEPT !.by = "kernel"] /\ x13' = [x13 EXCEPT !.ok = FALSE, !.broken = FALSE]
      <4>1. x2' \in Fan!Driven
        BY <1>0, <3>4 DEF Fan!Driven
      <4>2. x13' \in Fan!Applied /\ x13'.ok = FALSE /\ x13'.seen = x13.seen
        BY <1>0, <3>4 DEF Fan!Applied
      <4>3. Fan!Shapes'
        BY <1>0, <2>0, <3>2, <4>1, <4>2 DEF Fan!Shapes
      <4>4. Fan!HotStaysFull'
        BY <4>2 DEF Fan!HotStaysFull
      <4>5. ~x7'.stopping /\ (x13'.seen = "hot" => x7'.hard)
        BY <1>0, <2>0, <3>2, <4>2, Zenon
      <4> QED
        BY <1>b, <4>3, <4>4, <4>5
    <3> QED
      BY <3>1, <3>3, <3>4
  <2> QED
    BY <2>1, <2>2
<1>8. CASE Fan!TickOn
  <2>0. /\ x1 \in Fan!Config /\ ~x7.stopping /\ x1' = x1 /\ x4' = x4 /\ x5' = x5 /\ x8' = x8 /\ x9' = x9
    BY <1>0, <1>8 DEF Fan!TickOn, Fan!MayTick, Fan!world
  <2> DEFINE m == [x7 EXCEPT !.handed = FALSE]
             l == IF x1.liquid = "off" THEN [pump |-> x3, written |-> m.written]
                  ELSE Fan!Pumped(x1, m, x7.handed)
  <2>1. PICK ok \in BOOLEAN : Fan!Apply(x1, [m EXCEPT !.written = l.written], ok)
    BY <1>8, Zenon DEF Fan!TickOn
  <2>2. m \in Fan!Memory /\ m.hard = x7.hard /\ m.stopping = x7.stopping
    BY <1>e
  <2> HIDE DEF m
  <2>3. l.written \in {"off", "low", "high", None}
    <3>1. m.written \in {"off", "low", "high", None} /\ x1.liquid \in {"off", "low", "high"}
      BY <2>0, <2>2 DEF Fan!Memory, Fan!Config
    <3> QED
      BY <3>1 DEF Fan!Pumped
  <2> HIDE DEF l
  <2> DEFINE n == [m EXCEPT !.written = l.written]
  <2>4. n \in Fan!Memory /\ n.hard = m.hard /\ n.stopping = m.stopping
    BY <2>2, <2>3 DEF Fan!Memory
  <2>5. Fan!Apply(x1, n, ok)
    BY <2>1
  <2> HIDE DEF n
  <2>6. ~n.stopping /\ n.hard = x7.hard
    BY <2>0, <2>2, <2>4, Zenon
  <2>7. Fan!Shapes'
    BY <1>0, <2>0, <2>4, <2>5, <2>6, CoolApply DEF Fan!Shapes
  <2> QED
    BY <1>b, <2>0, <2>4, <2>5, <2>6, <2>7, CoolApply
<1>9. CASE Fan!Shutdown
  <2>0. /\ x8 = None /\ x7' = [x7 EXCEPT !.stopping = TRUE]
        /\ x1' = x1 /\ x4' = x4 /\ x5' = x5 /\ x8' = x8 /\ x9' = x9
    BY <1>9 DEF Fan!Shutdown, Fan!world
  <2>1. x7' \in Fan!Memory /\ x7'.hard = x7.hard
    BY <1>0, <2>0 DEF Fan!Memory
  <2>2. \/ x1 = None /\ x2' = x2 /\ x13' = x13
        \/ x1 # None /\ x2' = [x2 EXCEPT !.by = "kernel"] /\ x13' = [x13 EXCEPT !.ok = FALSE, !.broken = FALSE]
        \/ x2' = x2 /\ x13' = [x13 EXCEPT !.broken = TRUE]
    BY <1>9 DEF Fan!Shutdown, Fan!Restored
  <2>3. x2' \in Fan!Driven /\ x13' \in Fan!Applied /\ x13'.seen = x13.seen
    BY <1>0, <2>2 DEF Fan!Driven, Fan!Applied
  <2>4. Fan!Shapes'
    BY <1>0, <2>0, <2>1, <2>3 DEF Fan!Shapes
  <2>5. x13'.seen = "hot" => x7'.hard
    BY <1>0, <2>1, <2>3, Zenon
  <2>6. Fan!HotStaysFull'
    <3>1. CASE x2' = x2 /\ x13' = x13
      BY <3>1, Zenon DEF Fan!CoolInv, Fan!HotStaysFull
    <3>2. CASE x13' = [x13 EXCEPT !.ok = FALSE, !.broken = FALSE]
      <4>1. x13'.ok = FALSE
        BY <1>0, <3>2 DEF Fan!Applied
      <4> QED
        BY <4>1 DEF Fan!HotStaysFull
    <3>3. CASE x2' = x2 /\ x13' = [x13 EXCEPT !.broken = TRUE]
      <4>1. x13'.ok = x13.ok /\ x13'.temp = x13.temp
        BY <1>0, <3>3 DEF Fan!Applied
      <4> QED
        BY <2>3, <3>3, <4>1, Zenon DEF Fan!CoolInv, Fan!HotStaysFull
    <3> QED
      BY <2>2, <3>1, <3>2, <3>3
  <2>7. Fan!KernelRules'
    <3>1. CASE x1 = None
      BY <2>0, <3>1 DEF Fan!KernelRules
    <3>2. CASE x2' = [x2 EXCEPT !.by = "kernel"]
      <4>1. x2'.by = "kernel"
        BY <1>0, <3>2 DEF Fan!Driven
      <4> QED
        BY <4>1 DEF Fan!KernelRules
    <3>3. CASE x13' = [x13 EXCEPT !.broken = TRUE]
      <4>1. x13'.broken = TRUE
        BY <1>0, <3>3 DEF Fan!Applied
      <4> QED
        BY <4>1 DEF Fan!KernelRules
    <3> QED
      BY <2>2, <3>1, <3>2, <3>3
  <2>8. x7'.stopping => x8' = None
    BY <2>0
  <2> QED
    BY <2>4, <2>5, <2>6, <2>7, <2>8 DEF Fan!CoolInv
<1>10. CASE Fan!Restart
  <2>1. /\ x7' = Fan!Fresh /\ x8' = None /\ x9' = None
        /\ x13' = [ok |-> FALSE, temp |-> "warm", seen |-> "warm", broken |-> FALSE]
        /\ x1' = x1 /\ x2' = x2 /\ x4' = x4 /\ x5' = x5
    BY <1>10 DEF Fan!Restart, Fan!world
  <2>2. x7' \in Fan!Memory /\ x7'.stopping = FALSE
    BY <2>1 DEF Fan!Fresh, Fan!Memory
  <2>3. x13' \in Fan!Applied /\ x13'.ok = FALSE /\ x13'.seen = "warm"
    BY <2>1 DEF Fan!Applied, Fan!Temps
  <2>4. Fan!Shapes'
    BY <1>0, <2>1, <2>2, <2>3 DEF Fan!Shapes
  <2>5. Fan!HotStaysFull'
    BY <2>3 DEF Fan!HotStaysFull
  <2> QED
    BY <1>b, <2>2, <2>3, <2>4, <2>5
<1>11. CASE Fan!Event
  <2>1. /\ x1' = x1 /\ x2' = x2 /\ x7' = x7 /\ x8' = x8 /\ x9' = x9 /\ x13' = x13
    BY <1>11 DEF Fan!Event
  <2>2. x4' \in Fan!Temps /\ x5' \in [fan : BOOLEAN, liquid : BOOLEAN]
    <3>1. \/ x4' \in Fan!Temps /\ x5' = x5
          \/ \E k \in {"fan", "liquid"} : x5' = [x5 EXCEPT ![k] = ~@] /\ x4' = x4
          \/ x4' = x4 /\ x5' = x5
      BY <1>11 DEF Fan!Event, Fan!Temps
    <3>2. CASE \E k \in {"fan", "liquid"} : x5' = [x5 EXCEPT ![k] = ~@] /\ x4' = x4
      <4>1. (~x5.fan) \in BOOLEAN /\ (~x5.liquid) \in BOOLEAN
        OBVIOUS
      <4>2. x5' = [x5 EXCEPT !.fan = ~x5.fan] \/ x5' = [x5 EXCEPT !.liquid = ~x5.liquid]
        BY <1>0, <3>2
      <4> QED
        BY <1>0, <3>2, <4>1, <4>2
    <3> QED
      BY <1>0, <3>1, <3>2
  <2>3. Fan!Shapes'
    BY <1>0, <2>1, <2>2 DEF Fan!Shapes
  <2>4. x7.stopping => x8' = None /\ x1' = x1
    BY <1>0, <2>1
  <2> QED
    BY <2>1, <2>3, <2>4, CoolFrame
<1> QED
  BY <1>1, <1>2, <1>3, <1>4, <1>5, <1>6, <1>7, <1>8, <1>9, <1>10, <1>11 DEF Fan!Next

LEMMA FanAtWork ==
    ASSUME live' = "cooling", [AllNext]_all
    PROVE  live = "cooling" /\ [Fan!Next]_(Fan!vars)
BY DEF AllNext, all, Fan!vars, Fan!world, Fan!counts, WatchStep, UciStep, WifiStep, ProbeStep, CellsStep,
       ReaderStep, FanStep, ChargeStep, UpdateStep, ApnStep, IdStep, ExtraStep, Keep0, Keep5, Keep6, Keep7,
       Keep8, Keep10, Keep12, Keep13, Keep14

\* For any controls, any failures and whatever the surroundings do: a sensor
\* that is lost after 80 degrees leaves the fan at full speed (cooling.rs,
\* apply_fan), and after the shutdown of a configured controller nothing takes
\* the fan from the kernel again (shutdown, STOPPING).
THEOREM FanSafeHolds == AllSpec => []FanSafe
<1> DEFINE Inv == live = "cooling" => Fan!CoolInv
<1>1. AllInit => Inv
  <2> SUFFICES ASSUME Fan!Init PROVE Fan!CoolInv
    BY DEF AllInit
  <2>1. /\ x1 = None /\ x2 = [by |-> "kernel", pwm |-> "curve"] /\ x4 = "warm" /\ x7 = Fan!Fresh
        /\ x5 = [fan |-> FALSE, liquid |-> FALSE] /\ x8 = None /\ x9 = None
        /\ x13 = [ok |-> FALSE, temp |-> "warm", seen |-> "warm", broken |-> FALSE]
    BY DEF Fan!Init
  <2>2. x7 \in Fan!Memory /\ x7.stopping = FALSE
    BY <2>1 DEF Fan!Fresh, Fan!Memory
  <2>3. x13 \in Fan!Applied /\ x13.ok = FALSE /\ x13.seen = "warm"
    BY <2>1 DEF Fan!Applied, Fan!Temps
  <2>4. Fan!Shapes
    BY <2>1, <2>2, <2>3 DEF Fan!Shapes, Fan!Driven, Fan!Temps
  <2>5. Fan!HotStaysFull /\ Fan!KernelRules
    BY <2>1, <2>3 DEF Fan!HotStaysFull, Fan!KernelRules
  <2> QED
    BY <2>1, <2>3, <2>4, <2>5 DEF Fan!CoolInv
<1>2. Inv /\ [AllNext]_all => Inv'
  <2> SUFFICES ASSUME Inv, [AllNext]_all, live' = "cooling" PROVE Fan!CoolInv'
    OBVIOUS
  <2>1. live = "cooling" /\ (Fan!Next \/ UNCHANGED Fan!vars)
    BY FanAtWork
  <2>2. CASE UNCHANGED Fan!vars
    <3>1. /\ x1' = x1 /\ x2' = x2 /\ x4' = x4 /\ x5' = x5 /\ x7' = x7 /\ x8' = x8 /\ x9' = x9
          /\ x13' = x13
      BY <2>2 DEF Fan!vars, Fan!world
    <3>2. Fan!Shapes'
      BY <2>1, <3>1 DEF Fan!CoolInv, Fan!Shapes
    <3>3. x7.stopping => x8' = None /\ x1' = x1
      BY <2>1, <3>1 DEF Fan!CoolInv
    <3> QED
      BY <2>1, <3>1, <3>2, <3>3, CoolFrame
  <2> QED
    BY <2>1, <2>2, CoolStepKept
<1>3. Inv => FanSafe
  BY DEF FanSafe, Fan!CoolInv
<1> QED
  BY <1>1, <1>2, <1>3, PTL DEF AllSpec
(***************************************************************************)
(* ApnControl: ApnSafe from ApnInv.  x1 is state, x2 lock, x3 gate, x4     *)
(* alive, x5 used, x6 last, x7 multi, x8 cfg, x9 pc, x10 op.               *)
(***************************************************************************)

\* A caller that does not act still fits, if nobody else took its lock or
\* changed the session behind it.
LEMMA ApnOthers ==
    ASSUME Apn!ApnInv, NEW c \in Callers, NEW d \in Callers \ {c}, x9'[d] = x9[d], x10'[d] = x10[d],
           x2' = x2 \/ x2 \in {None, c}, x1'.session = x1.session \/ x2 \in {None, c},
           x5' \in Nat, x5 <= x5'
    PROVE  Apn!Fits(d, x9[d], x10[d])'
<1>1. Apn!Fits(d, x9[d], x10[d]) /\ x5 \in Nat /\ x10[d] \in Apn!Ops
  BY DEF Apn!ApnInv, Apn!Global
<1>2. x9[d] \in Apn!UnderLock => x2' = d
  BY <1>1, ApnAssumption DEF Apn!Fits
<1>3. x9[d] \in {"status", "apn_probe"} => x1'.session # None
  BY <1>1, ApnAssumption DEF Apn!Fits, Apn!UnderLock
<1>4. x9[d] = "login_check" => x10[d].reads <= x5'
  BY <1>1 DEF Apn!Fits, Apn!Ops
<1> QED
  BY <1>1, <1>2, <1>3, <1>4 DEF Apn!Fits

\* A step of one caller.
LEMMA ApnOne ==
    ASSUME Apn!ApnInv, NEW c \in Callers, NEW l \in Apn!Places, NEW o \in Apn!Ops,
           x9' = [x9 EXCEPT ![c] = l], x10' = [x10 EXCEPT ![c] = o],
           x2' = x2 \/ x2 \in {None, c}, x1'.session = x1.session \/ x2 \in {None, c},
           x5 <= x5', Apn!Global', Apn!Fits(c, l, o)'
    PROVE  Apn!ApnInv'
<1>1. /\ x9' \in [Callers -> Apn!Places] /\ x10' \in [Callers -> Apn!Ops]
      /\ x9'[c] = l /\ x10'[c] = o
      /\ \A d \in Callers \ {c} : x9'[d] = x9[d] /\ x10'[d] = x10[d]
  BY DEF Apn!ApnInv
<1>2. x5' \in Nat
  BY DEF Apn!Global
<1>3. ASSUME NEW d \in Callers PROVE Apn!Fits(d, x9[d], x10[d])'
  <2>1. CASE d = c
    <3>1. Apn!Fits(d, l, o)'
      BY <2>1
    <3> QED
      BY <1>1, <2>1, <3>1 DEF Apn!Fits
  <2>2. CASE d # c
    BY <1>1, <1>2, <2>2, ApnOthers
  <2> QED
    BY <2>1, <2>2
<1> QED
  BY <1>1, <1>3 DEF Apn!ApnInv

\* Steps that leave the session, the vendor and the profiles alone.
LEMMA ApnSame ==
    ASSUME Apn!Global, x1' = x1, x4' = x4, x5' = x5, x6' = x6, x8' = x8
    PROVE  Apn!Global'
BY Zenon DEF Apn!Global, Apn!ExpiredIsGone, Apn!SecretStaysHome

LEMMA ApnReturn ==
    ASSUME Apn!ApnInv, NEW c \in Callers, Apn!Return(c),
           x1'.session = x1.session \/ x2 \in {None, c}, x5 <= x5', Apn!Global'
    PROVE  Apn!ApnInv'
<1>1. Apn!NoRequest \in Apn!Ops /\ "idle" \in Apn!Places
  BY DEF Apn!NoRequest, Apn!Ops, Apn!Places
<1>2. /\ x9' = [x9 EXCEPT ![c] = "idle"] /\ x10' = [x10 EXCEPT ![c] = Apn!NoRequest]
      /\ x2' = x2 \/ x2 = c
  BY DEF Apn!Return, Apn!Goto
<1>3. Apn!Fits(c, "idle", Apn!NoRequest)'
  BY <1>1 DEF Apn!Fits, Apn!UnderLock
<1> QED
  BY <1>1, <1>2, <1>3, ApnOne
\* Steps that only count the attempts.
LEMMA ApnCounts ==
    ASSUME Apn!Global, NEW n \in Nat, x1' = [x1 EXCEPT !.attempts = n],
           x4' = x4, x5' = x5, x6' = x6, x8' = x8
    PROVE  Apn!Global' /\ x1'.session = x1.session
<1>1. x1 \in Apn!Session
  BY DEF Apn!Global
<1>2. x1' \in Apn!Session /\ x1'.session = x1.session /\ x1'.expired = x1.expired
  BY <1>1 DEF Apn!Session
<1> QED
  BY <1>2, Zenon DEF Apn!Global, Apn!ExpiredIsGone, Apn!SecretStaysHome

\* The vendor's sessions change: the last one obtained here does not come back.
LEMMA ApnVendor ==
    ASSUME Apn!Global, x5' \in Nat, x5 <= x5', x6 \in x4' => x6 \in x4, x1' = x1, x6' = x6, x8' = x8
    PROVE  Apn!Global'
<1>1. x6' <= x5'
  BY DEF Apn!Global
<1>2. Apn!ExpiredIsGone'
  BY Zenon DEF Apn!Global, Apn!ExpiredIsGone
<1> QED
  BY <1>1, <1>2, Zenon DEF Apn!Global, Apn!SecretStaysHome

\* Steps of nobody: the vendor's own, and the window of the attempts.
LEMMA ApnNobody ==
    ASSUME Apn!ApnInv, x9' = x9, x10' = x10, x2' = x2, x1'.session = x1.session,
           x5 <= x5', Apn!Global'
    PROVE  Apn!ApnInv'
<1>1. x5 \in Nat /\ x5' \in Nat
  BY DEF Apn!ApnInv, Apn!Global
<1>2. ASSUME NEW d \in Callers PROVE Apn!Fits(d, x9[d], x10[d])'
  <2>1. Apn!Fits(d, x9[d], x10[d])
    BY DEF Apn!ApnInv
  <2>2. x9[d] = "login_check" => x10[d].reads <= x5'
    BY <1>1, <2>1 DEF Apn!Fits, Apn!Ops
  <2> QED
    BY <2>1, <2>2 DEF Apn!Fits
<1> QED
  BY <1>2 DEF Apn!ApnInv

\* A positive no about the session that is kept: it is the last one, and gone.
LEMMA ApnSettles ==
    ASSUME Apn!Global, NEW a \in {"yes", "no", "unknown"}, x1.session # None,
           Apn!Exists(x1.session, a), Apn!Settle(a), x4' = x4, x5' = x5, x6' = x6, x8' = x8
    PROVE  Apn!Global'
<1>1. CASE a = "no"
  <2>1. x1' = [x1 EXCEPT !.session = None, !.expired = TRUE] /\ x1 \in Apn!Session
    BY <1>1 DEF Apn!Settle, Apn!Global
  <2>2. x1' \in Apn!Session /\ x1'.session = None
    BY <2>1 DEF Apn!Session
  <2>3. x6 \notin x4
    BY <1>1 DEF Apn!Exists, Apn!Global
  <2>4. Apn!ExpiredIsGone'
    BY <2>3 DEF Apn!ExpiredIsGone
  <2> QED
    BY <2>2, <2>4 DEF Apn!Global, Apn!SecretStaysHome
<1>2. CASE a # "no"
  BY <1>2, ApnSame DEF Apn!Settle
<1> QED
  BY <1>1, <1>2
LEMMA ApnLoginKept ==
    ASSUME Apn!ApnInv, NEW c \in Callers,
           \/ Apn!Login(c) \/ Apn!LoginInfo(c) \/ Apn!LoginCall(c) \/ Apn!LoginCheck(c)
           \/ Apn!LoginLockout(c) \/ Apn!Cancel(c)
    PROVE  Apn!ApnInv'
<1>a. /\ Apn!Global /\ Apn!Fits(c, x9[c], x10[c]) /\ x10[c] \in Apn!Ops
      /\ x5 \in Nat /\ x6 \in Nat /\ x6 <= x5
  BY DEF Apn!ApnInv, Apn!Fits, Apn!Global
<1>o. PICK o \in Apn!Ops : o = x10[c] /\ x10 = [x10 EXCEPT ![c] = o]
  BY <1>a DEF Apn!ApnInv
<1>1. CASE Apn!Login(c)
  <2>1. /\ x1' = [x1 EXCEPT !.attempts = x1.attempts + 1] /\ x2 = None /\ x2' = c /\ x4' = x4
        /\ x5' = x5 /\ x6' = x6 /\ x8' = x8 /\ x10' = x10 /\ x9' = [x9 EXCEPT ![c] = "login_info"]
    BY <1>1 DEF Apn!Login, Apn!Goto, Apn!Vendor
  <2>2. x1.attempts + 1 \in Nat
    BY <1>a DEF Apn!Global, Apn!Session
  <2>3. Apn!Global'
    BY <1>a, <2>1, <2>2, ApnCounts
  <2>4. Apn!Fits(c, "login_info", o)' /\ "login_info" \in Apn!Places
    BY <1>a, <1>o, <2>1 DEF Apn!Fits, Apn!UnderLock, Apn!Places
  <2>5. x10' = [x10 EXCEPT ![c] = o] /\ x5 <= x5'
    BY <1>a, <1>o, <2>1
  <2> QED
    BY <2>1, <2>3, <2>4, <2>5, ApnOne
<1>2. CASE Apn!LoginInfo(c)
  <2>1. /\ x1' = x1 /\ x4' = x4 /\ x5' = x5 /\ x6' = x6 /\ x8' = x8 /\ x2 = c
        /\ x9[c] = "login_info"
    BY <1>2, <1>a DEF Apn!LoginInfo, Apn!Vendor, Apn!Fits, Apn!UnderLock
  <2>2. Apn!Global'
    BY <1>a, <2>1, ApnSame
  <2>3. CASE Apn!Return(c)
    BY <1>a, <2>1, <2>2, <2>3, ApnReturn
  <2>4. CASE Apn!Goto(c, "login_call") /\ UNCHANGED <<x2, x3, x10>>
    <3>1. x9' = [x9 EXCEPT ![c] = "login_call"] /\ x2' = x2 /\ x10' = x10
      BY <2>4 DEF Apn!Goto
    <3>2. Apn!Fits(c, "login_call", o)' /\ "login_call" \in Apn!Places
      BY <1>a, <1>o, <2>1, <3>1 DEF Apn!Fits, Apn!UnderLock, Apn!Places
    <3>x. x10' = [x10 EXCEPT ![c] = o] /\ x5 <= x5'
      BY <1>a, <1>o, <2>1, <2>2, <3>1
    <3> QED
      BY <2>1, <2>2, <3>1, <3>2, <3>x, ApnOne
  <2> QED
    BY <1>2, <2>3, <2>4 DEF Apn!LoginInfo
<1>3. CASE Apn!LoginCall(c)
  <2>1. /\ x1' = x1 /\ x2' = x2 /\ x6' = x6 /\ x8' = x8 /\ x9[c] = "login_call"
        /\ (x5' = x5 + 1 /\ x4' = {x5 + 1}) \/ (x5' = x5 /\ x4' = x4)
        /\ x10' = [x10 EXCEPT ![c].reads = x5']
    BY <1>3 DEF Apn!LoginCall
  <2>2. PICK l \in {"login_check", "login_lockout"} : x9' = [x9 EXCEPT ![c] = l]
    BY <1>3 DEF Apn!LoginCall, Apn!Goto
  <2>3. x5' \in Nat /\ x5 <= x5' /\ (x6 \in x4' => x6 \in x4)
    BY <1>a, <2>1
  <2>4. Apn!Global'
    BY <1>a, <2>1, <2>3, ApnVendor
  <2>5. PICK q \in Apn!Ops : q.reads = x5' /\ x10' = [x10 EXCEPT ![c] = q]
    <3>1. /\ [x10[c] EXCEPT !.reads = x5'] \in Apn!Ops /\ [x10[c] EXCEPT !.reads = x5'].reads = x5'
          /\ x10' = [x10 EXCEPT ![c] = [x10[c] EXCEPT !.reads = x5']]
      BY <1>a, <2>1, <2>3 DEF Apn!Ops, Apn!ApnInv
    <3> QED
      BY <3>1
  <2>6. x2' = c
    BY <1>a, <1>o, <2>1 DEF Apn!Fits, Apn!UnderLock
  <2>7. Apn!Fits(c, l, q)' /\ l \in Apn!Places
    BY <2>2, <2>3, <2>5, <2>6 DEF Apn!Fits, Apn!UnderLock, Apn!Places
  <2> QED
    BY <1>a, <1>o, <2>1, <2>2, <2>3, <2>4, <2>5, <2>7, ApnOne
<1>4. CASE Apn!LoginCheck(c)
  <2>1. PICK a \in {"yes", "no", "unknown"} :
          /\ x1' = [x1 EXCEPT !.session = x10[c].reads, !.checkable = (a = "yes"), !.expired = FALSE]
          /\ x6' = x10[c].reads /\ x4' = x4 /\ x5' = x5 /\ x8' = x8 /\ x9[c] = "login_check"
    BY <1>4 DEF Apn!LoginCheck, Apn!Vendor
  <2>2. x10[c].reads \in Nat /\ x10[c].reads <= x5 /\ x2 = c
    BY <1>a, <1>o, <2>1 DEF Apn!Fits, Apn!Ops, Apn!UnderLock
  <2>3. (a = "yes") \in BOOLEAN /\ x1 \in Apn!Session
    BY <1>a DEF Apn!Global
  <2>4. x1' \in Apn!Session /\ x1'.session = x10[c].reads /\ x1'.expired = FALSE
    BY <2>1, <2>2, <2>3 DEF Apn!Session
  <2>5. Apn!ExpiredIsGone'
    BY <2>4 DEF Apn!ExpiredIsGone
  <2>6. Apn!Global'
    BY <1>a, <2>1, <2>2, <2>4, <2>5 DEF Apn!Global, Apn!SecretStaysHome
  <2>7. Apn!Return(c)
    BY <1>4 DEF Apn!LoginCheck
  <2> QED
    BY <1>a, <2>1, <2>2, <2>6, <2>7, ApnReturn
<1>5. CASE Apn!LoginLockout(c) \/ Apn!Cancel(c)
  <2>1. /\ x1' = x1 /\ x4' = x4 /\ x5' = x5 /\ x6' = x6 /\ x8' = x8 /\ Apn!Return(c)
    BY <1>5 DEF Apn!LoginLockout, Apn!Cancel, Apn!Vendor
  <2>2. Apn!Global'
    BY <1>a, <2>1, ApnSame
  <2> QED
    BY <1>a, <2>1, <2>2, ApnReturn
<1> QED
  BY <1>1, <1>2, <1>3, <1>4, <1>5

LEMMA ApnSessionKept ==
    ASSUME Apn!ApnInv, NEW c \in Callers,
           \/ Apn!Status(c) \/ Apn!StatusAnswer(c) \/ Apn!ApnCheck(c) \/ Apn!ApnProbe(c)
           \/ \E r \in Apn!Requests : Apn!Apn(c, r)
    PROVE  Apn!ApnInv'
<1>a. /\ Apn!Global /\ Apn!Fits(c, x9[c], x10[c]) /\ x10[c] \in Apn!Ops
      /\ x5 \in Nat
  BY DEF Apn!ApnInv, Apn!Fits, Apn!Global
<1>o. PICK o \in Apn!Ops : o = x10[c] /\ x10 = [x10 EXCEPT ![c] = o]
  BY <1>a DEF Apn!ApnInv
<1>b. {"status", "apn_check", "apn_probe", "apn_slot"} \subseteq Apn!Places
  BY DEF Apn!Places, Apn!UnderLock
<1>1. CASE Apn!Status(c)
  <2>1. /\ x1' = x1 /\ x4' = x4 /\ x5' = x5 /\ x6' = x6 /\ x8' = x8 /\ x2 = None /\ x2' = c
        /\ x10' = x10 /\ x9' = [x9 EXCEPT ![c] = "status"] /\ x1'.session # None
    BY <1>1 DEF Apn!Status, Apn!Vendor, Apn!Goto, Apn!Known
  <2>2. Apn!Global'
    BY <1>a, <2>1, ApnSame
  <2>3. Apn!Fits(c, "status", o)'
    BY <1>a, <1>o, <1>b, <2>1 DEF Apn!Fits
  <2>x. x10' = [x10 EXCEPT ![c] = o] /\ x5 <= x5'
    BY <1>a, <1>o, <2>1, <2>2
  <2> QED
    BY <1>b, <2>1, <2>2, <2>3, <2>x, ApnOne
<1>2. CASE Apn!StatusAnswer(c)
  <2>1. /\ x4' = x4 /\ x5' = x5 /\ x6' = x6 /\ x8' = x8 /\ x9[c] = "status" /\ Apn!Return(c)
    BY <1>2 DEF Apn!StatusAnswer, Apn!Vendor
  <2>2. x2 = c /\ x1.session # None
    BY <1>a, <1>o, <2>1 DEF Apn!Fits, Apn!UnderLock
  <2>3. Apn!Global'
    BY <1>2, <1>a, <2>1, <2>2, ApnSettles DEF Apn!StatusAnswer
  <2> QED
    BY <1>a, <2>1, <2>2, <2>3, ApnReturn
<1>3. CASE Apn!ApnCheck(c)
  <2>1. /\ x1' = x1 /\ x4' = x4 /\ x5' = x5 /\ x6' = x6 /\ x8' = x8 /\ x2 = None
        /\ x9[c] = "apn_check"
    BY <1>3 DEF Apn!ApnCheck, Apn!Vendor
  <2>2. Apn!Global'
    BY <1>a, <2>1, ApnSame
  <2>3. CASE Apn!Return(c)
    BY <1>a, <2>1, <2>2, <2>3, ApnReturn
  <2>4. CASE ~Apn!Return(c)
    <3>1. /\ x10' = x10
          /\ \/ x9' = [x9 EXCEPT ![c] = "apn_slot"] /\ x2' = x2
             \/ x9' = [x9 EXCEPT ![c] = "apn_probe"] /\ x2' = c /\ x1'.session # None
      BY <1>3, <2>1, <2>4 DEF Apn!ApnCheck, Apn!Goto, Apn!Known
    <3>2. x10[c].secret \in {None, "new"}
      BY <1>a, <1>o, <2>1 DEF Apn!Fits
    <3>3. CASE x9' = [x9 EXCEPT ![c] = "apn_slot"] /\ x2' = x2
      <4>1. Apn!Fits(c, "apn_slot", o)'
        BY <1>a, <1>o, <1>b, <3>1, <3>2 DEF Apn!Fits, Apn!UnderLock
      <4>x. x10' = [x10 EXCEPT ![c] = o] /\ x5 <= x5'
        BY <1>a, <1>o, <2>1, <2>2, <3>1
      <4> QED
        BY <1>b, <2>1, <2>2, <3>1, <3>3, <4>1, <4>x, ApnOne
    <3>4. CASE x9' = [x9 EXCEPT ![c] = "apn_probe"] /\ x2' = c /\ x1'.session # None
      <4>1. Apn!Fits(c, "apn_probe", o)'
        BY <1>a, <1>o, <1>b, <3>1, <3>2, <3>4 DEF Apn!Fits, Apn!UnderLock
      <4>x. x10' = [x10 EXCEPT ![c] = o] /\ x5 <= x5'
        BY <1>a, <1>o, <2>1, <2>2, <3>1
      <4> QED
        BY <1>b, <2>1, <2>2, <3>1, <3>4, <4>1, <4>x, ApnOne
    <3> QED
      BY <3>1, <3>3, <3>4
  <2> QED
    BY <2>3, <2>4
<1>4. CASE Apn!ApnProbe(c)
  <2>1. /\ x4' = x4 /\ x5' = x5 /\ x6' = x6 /\ x8' = x8 /\ x9[c] = "apn_probe"
    BY <1>4 DEF Apn!ApnProbe, Apn!Vendor
  <2>2. x2 = c /\ x1.session # None /\ x10[c].secret \in {None, "new"}
    BY <1>a, <1>o, <2>1 DEF Apn!Fits, Apn!UnderLock
  <2>3. Apn!Global'
    BY <1>4, <1>a, <2>1, <2>2, ApnSettles DEF Apn!ApnProbe
  <2>4. CASE Apn!Return(c)
    BY <1>a, <2>1, <2>2, <2>3, <2>4, ApnReturn
  <2>5. CASE ~Apn!Return(c)
    <3>1. x10' = x10 /\ x9' = [x9 EXCEPT ![c] = "apn_slot"]
      BY <1>4, <2>5 DEF Apn!ApnProbe, Apn!Goto
    <3>2. Apn!Fits(c, "apn_slot", o)'
      BY <1>a, <1>o, <1>b, <2>2 DEF Apn!Fits, Apn!UnderLock
    <3>x. x10' = [x10 EXCEPT ![c] = o] /\ x5 <= x5'
      BY <1>a, <1>o, <2>1, <2>2, <3>1
    <3> QED
      BY <1>b, <2>1, <2>2, <2>3, <3>1, <3>2, <3>x, ApnOne
  <2> QED
    BY <2>4, <2>5
<1>5. CASE \E r \in Apn!Requests : Apn!Apn(c, r)
  <2>1. PICK r \in Apn!Requests : Apn!Apn(c, r)
    BY <1>5
  <2> DEFINE k == [action |-> r.action, slot |-> r.slot, secret |-> r.secret, reads |-> 0]
  <2>2. /\ x1' = x1 /\ x4' = x4 /\ x5' = x5 /\ x6' = x6 /\ x8' = x8 /\ x2' = x2
        /\ x9' = [x9 EXCEPT ![c] = "apn_check"] /\ x10' = [x10 EXCEPT ![c] = k]
    BY <2>1 DEF Apn!Apn, Apn!Goto, Apn!Vendor
  <2>k. k \in Apn!Ops /\ k.secret \in {None, "new"}
    BY <2>1 DEF Apn!Requests, Apn!Ops
  <2>3. PICK q \in Apn!Ops : q.secret \in {None, "new"} /\ x10' = [x10 EXCEPT ![c] = q]
    <3> HIDE DEF k
    <3> QED
      BY <2>2, <2>k
  <2>4. Apn!Global'
    BY <1>a, <2>2, ApnSame
  <2>x. x5 <= x5'
    BY <1>a, <2>2
  <2>5. Apn!Fits(c, "apn_check", q)'
    BY <1>b, <2>3 DEF Apn!Fits, Apn!UnderLock
  <2> QED
    BY <1>b, <2>2, <2>3, <2>4, <2>5, <2>x, ApnOne
<1> QED
  BY <1>1, <1>2, <1>3, <1>4, <1>5
LEMMA ApnControlKept ==
    ASSUME Apn!ApnInv, NEW c \in Callers,
           Apn!ApnSlot(c) \/ Apn!ApnList(c) \/ Apn!ApnCall(c) \/ Apn!ApnConfirm(c)
    PROVE  Apn!ApnInv'
<1>a. /\ Apn!Global /\ Apn!Fits(c, x9[c], x10[c]) /\ x10[c] \in Apn!Ops /\ x5 \in Nat
      /\ x8 \in [Apn!Modems -> Apn!Profile] /\ Apn!Reached(x10[c].slot) \in Apn!Modems
  BY DEF Apn!ApnInv, Apn!Fits, Apn!Global, Apn!Ops, Apn!Reached, Apn!Modems
<1>b. {"apn_list", "apn_call", "apn_confirm"} \subseteq Apn!Places
  BY DEF Apn!Places
<1>c. x1' = x1 /\ x4' = x4 /\ x5' = x5 /\ x6' = x6 /\ x5 <= x5'
  BY <1>a DEF Apn!ApnSlot, Apn!ApnList, Apn!ApnCall, Apn!ApnConfirm, Apn!Vendor
<1>1. CASE Apn!ApnSlot(c)
  <2>1. x8' = x8 /\ x10[c].secret \in {None, "new"}
    BY <1>1, <1>a DEF Apn!ApnSlot, Apn!Vendor, Apn!Fits
  <2>2. Apn!Global'
    BY <1>a, <1>c, <2>1, ApnSame
  <2>3. CASE Apn!Return(c)
    BY <1>c, <2>2, <2>3, ApnReturn
  <2>4. CASE ~Apn!Return(c)
    <3>1. /\ x10' = [x10 EXCEPT ![c].slot = Apn!Target(x10[c].slot)] /\ x2' = x2
          /\ x9' = [x9 EXCEPT ![c] = IF x10[c].action = "modify" THEN "apn_list" ELSE "apn_call"]
      BY <1>1, <2>4 DEF Apn!ApnSlot, Apn!Goto
    <3>2. PICK l \in {"apn_list", "apn_call"} : x9' = [x9 EXCEPT ![c] = l]
      BY <3>1
    <3>3. Apn!Target(x10[c].slot) \in Apn!Modems \cup {None}
      BY <1>a DEF Apn!Target, Apn!Ops
    <3>4. PICK q \in Apn!Ops : q.secret \in {None, "new"} /\ x10' = [x10 EXCEPT ![c] = q]
      <4> DEFINE k == [x10[c] EXCEPT !.slot = Apn!Target(x10[c].slot)]
      <4>1. k \in Apn!Ops /\ k.secret = x10[c].secret /\ x10' = [x10 EXCEPT ![c] = k]
        BY <1>a, <3>1, <3>3 DEF Apn!Ops, Apn!ApnInv
      <4> HIDE DEF k
      <4> QED
        BY <2>1, <4>1
    <3>5. Apn!Fits(c, l, q)' /\ l \in Apn!Places
      BY <1>b, <3>2, <3>4 DEF Apn!Fits, Apn!UnderLock
    <3> QED
      BY <1>c, <2>2, <3>1, <3>2, <3>4, <3>5, ApnOne
  <2> QED
    BY <2>3, <2>4
<1>2. CASE Apn!ApnList(c)
  <2>1. x8' = x8 /\ x10[c].secret \in {None, "new"}
    BY <1>2, <1>a DEF Apn!ApnList, Apn!Vendor, Apn!Fits
  <2>2. Apn!Global'
    BY <1>a, <1>c, <2>1, ApnSame
  <2>3. CASE Apn!Return(c)
    BY <1>c, <2>2, <2>3, ApnReturn
  <2>4. CASE ~Apn!Return(c)
    <3>1. PICK v : /\ v = IF x10[c].secret = None THEN Apn!Existing(x10[c]) ELSE x10[c].secret
                   /\ x10' = [x10 EXCEPT ![c].secret = v]
                   /\ x2' = x2 /\ x9' = [x9 EXCEPT ![c] = "apn_call"]
      BY <1>2, <1>a, <2>4 DEF Apn!ApnList, Apn!Goto, Apn!ApnInv
    <3>2. v \in {"new", "empty", Apn!Own(Apn!Reached(x10[c].slot))}
      BY <1>a, <2>1, <3>1 DEF Apn!Existing, Apn!Global, Apn!SecretStaysHome
    <3>3. v \in Apn!Modems \cup {None, "new", "empty"}
      BY <1>a, <3>2 DEF Apn!Own
    <3>4. PICK q \in Apn!Ops : /\ q.secret \in {None, "new", "empty", Apn!Own(Apn!Reached(q.slot))}
                               /\ x10' = [x10 EXCEPT ![c] = q]
      <4> DEFINE k == [x10[c] EXCEPT !.secret = v]
      <4>1. /\ k \in Apn!Ops /\ k.secret = v /\ k.slot = x10[c].slot
            /\ x10' = [x10 EXCEPT ![c] = k]
        BY <1>a, <3>1, <3>3 DEF Apn!Ops, Apn!ApnInv
      <4> HIDE DEF k
      <4> QED
        BY <3>2, <4>1
    <3>5. Apn!Fits(c, "apn_call", q)' /\ "apn_call" \in Apn!Places
      BY <1>b, <3>4 DEF Apn!Fits, Apn!UnderLock, Apn!Reached, Apn!Own
    <3> QED
      BY <1>c, <2>2, <3>1, <3>4, <3>5, ApnOne
  <2> QED
    BY <2>3, <2>4
<1>3. CASE Apn!ApnCall(c)
  <2> DEFINE m == Apn!Reached(x10[c].slot)
  <2>1. x9[c] = "apn_call" /\ x10[c].secret \in {None, "new", "empty", Apn!Own(m)} /\ m \in Apn!Modems
    BY <1>3, <1>a DEF Apn!ApnCall, Apn!Fits
  <2>2. PICK k : /\ x8' = x8 \/ x8' = [x8 EXCEPT ![m] = k]
                 /\ k = Apn!Changed(x10[c], x8[m])
    BY <1>3, <1>a DEF Apn!ApnCall
  <2>3. k \in Apn!Profile /\ k.secret \in {Apn!Own(m), "new", "empty"}
    <3>1. x8[m] \in Apn!Profile /\ x8[m].secret \in {Apn!Own(m), "new", "empty"}
      BY <1>a, <2>1 DEF Apn!Global, Apn!SecretStaysHome
    <3>2. CASE x10[c].action = "delete"
      BY <2>2, <3>1, <3>2 DEF Apn!Changed, Apn!Profile
    <3>3. CASE x10[c].action \in {"add", "modify"}
      <4>1. PICK v : /\ v = IF x10[c].secret = None THEN "empty" ELSE x10[c].secret
                     /\ k = [has |-> TRUE, secret |-> v]
        BY <2>2, <3>3 DEF Apn!Changed
      <4>2. v \in {Apn!Own(m), "new", "empty"}
        BY <2>1, <4>1
      <4> QED
        BY <2>1, <4>1, <4>2 DEF Apn!Profile, Apn!Own
    <3>4. CASE x10[c].action \notin {"add", "modify", "delete"}
      BY <2>2, <3>1, <3>4 DEF Apn!Changed
    <3> QED
      BY <3>2, <3>3, <3>4
  <2> HIDE DEF m
  <2>4. x8' \in [Apn!Modems -> Apn!Profile]
    BY <1>a, <2>1, <2>2, <2>3
  <2>5. Apn!SecretStaysHome'
    BY <1>a, <2>1, <2>2, <2>3 DEF Apn!Global, Apn!SecretStaysHome, Apn!Own
  <2>6. Apn!Global'
    BY <1>a, <1>c, <2>4, <2>5, Zenon DEF Apn!Global, Apn!ExpiredIsGone
  <2>7. CASE Apn!Return(c)
    BY <1>c, <2>6, <2>7, ApnReturn
  <2>8. CASE ~Apn!Return(c)
    <3>1. /\ x10' = [x10 EXCEPT ![c].reads = Reads] /\ x2' = x2
          /\ x9' = [x9 EXCEPT ![c] = "apn_confirm"]
      BY <1>3, <2>8 DEF Apn!ApnCall, Apn!Goto
    <3>2. PICK q \in Apn!Ops : x10' = [x10 EXCEPT ![c] = q]
      <4> DEFINE j == [x10[c] EXCEPT !.reads = Reads]
      <4>1. j \in Apn!Ops /\ x10' = [x10 EXCEPT ![c] = j]
        BY <1>a, <3>1, ApnAssumption DEF Apn!Ops, Apn!ApnInv
      <4> HIDE DEF j
      <4> QED
        BY <4>1
    <3>3. Apn!Fits(c, "apn_confirm", q)' /\ "apn_confirm" \in Apn!Places
      BY <1>b, <3>2 DEF Apn!Fits, Apn!UnderLock
    <3> QED
      BY <1>c, <2>6, <3>1, <3>2, <3>3, ApnOne
  <2> QED
    BY <2>7, <2>8
<1>4. CASE Apn!ApnConfirm(c)
  <2>1. x8' = x8 /\ x9[c] = "apn_confirm"
    BY <1>4 DEF Apn!ApnConfirm, Apn!Vendor
  <2>2. Apn!Global'
    BY <1>a, <1>c, <2>1, ApnSame
  <2>3. CASE Apn!Return(c)
    BY <1>c, <2>2, <2>3, ApnReturn
  <2>4. CASE ~Apn!Return(c)
    <3>1. /\ x10' = [x10 EXCEPT ![c].reads = x10[c].reads - 1] /\ x2' = x2 /\ x10[c].reads > 1
          /\ x9' = x9
      BY <1>4, <2>4 DEF Apn!ApnConfirm
    <3>2. x10[c].reads - 1 \in Nat /\ x9' = [x9 EXCEPT ![c] = "apn_confirm"]
      BY <1>a, <2>1, <3>1 DEF Apn!Ops, Apn!ApnInv
    <3>3. PICK q \in Apn!Ops : x10' = [x10 EXCEPT ![c] = q]
      <4> DEFINE j == [x10[c] EXCEPT !.reads = x10[c].reads - 1]
      <4>1. j \in Apn!Ops /\ x10' = [x10 EXCEPT ![c] = j]
        BY <1>a, <3>1, <3>2 DEF Apn!Ops, Apn!ApnInv
      <4> HIDE DEF j
      <4> QED
        BY <4>1
    <3>4. Apn!Fits(c, "apn_confirm", q)' /\ "apn_confirm" \in Apn!Places
      BY <1>b, <3>3 DEF Apn!Fits, Apn!UnderLock
    <3> QED
      BY <1>c, <2>2, <3>1, <3>2, <3>3, <3>4, ApnOne
  <2> QED
    BY <2>3, <2>4
<1> QED
  BY <1>1, <1>2, <1>3, <1>4

LEMMA ApnStepKept == Apn!ApnInv /\ Apn!Next => Apn!ApnInv'
<1> SUFFICES ASSUME Apn!ApnInv, Apn!Next PROVE Apn!ApnInv'
  OBVIOUS
<1>a. Apn!Global /\ x5 \in Nat /\ x6 \in Nat /\ x6 <= x5
  BY DEF Apn!ApnInv, Apn!Global
<1>1. CASE Apn!SessionEnds \/ Apn!Elsewhere
  <2>1. /\ x1' = x1 /\ x2' = x2 /\ x6' = x6 /\ x8' = x8 /\ x9' = x9 /\ x10' = x10
        /\ x5' \in Nat /\ x5 <= x5' /\ (x6 \in x4' => x6 \in x4)
    BY <1>1, <1>a DEF Apn!SessionEnds, Apn!Elsewhere
  <2>2. Apn!Global'
    BY <1>a, <2>1, ApnVendor
  <2> QED
    BY <2>1, <2>2, ApnNobody
<1>2. CASE Apn!WindowPasses
  <2>1. /\ x1' = [x1 EXCEPT !.attempts = 0] /\ x2' = x2 /\ x4' = x4 /\ x5' = x5 /\ x6' = x6
        /\ x8' = x8 /\ x9' = x9 /\ x10' = x10
    BY <1>2 DEF Apn!WindowPasses, Apn!Vendor
  <2>2. Apn!Global' /\ x1'.session = x1.session /\ x5 <= x5'
    BY <1>a, <2>1, ApnCounts
  <2> QED
    BY <2>1, <2>2, ApnNobody
<1> QED
  BY <1>1, <1>2, ApnLoginKept, ApnSessionKept, ApnControlKept DEF Apn!Next

LEMMA ApnAtWork ==
    ASSUME live' = "apn", [AllNext]_all
    PROVE  live = "apn" /\ [Apn!Next]_(Apn!vars)
BY DEF AllNext, all, Apn!vars, WatchStep, UciStep, WifiStep, ProbeStep, CellsStep,
       ReaderStep, FanStep, ChargeStep, UpdateStep, ApnStep, IdStep, ExtraStep, Keep0, Keep5, Keep6, Keep7,
       Keep8, Keep10, Keep12, Keep13, Keep14

\* For any callers, any modems and whatever the vendor answers, loses or does
\* by itself: a session that is called expired is gone at the vendor
\* (device_session.rs, active and login), and the password of one modem's
\* profile never becomes another's (control.rs, the completion of a modify).
THEOREM ApnSafeHolds == AllSpec => []ApnSafe
<1> DEFINE Inv == live = "apn" => Apn!ApnInv
<1>1. AllInit => Inv
  <2> SUFFICES ASSUME Apn!Init PROVE Apn!ApnInv
    BY DEF AllInit
  <2>1. /\ x1 = [session |-> None, checkable |-> FALSE, expired |-> FALSE, attempts |-> 0]
        /\ x5 = 0 /\ x6 = 0 /\ x8 = [slot \in Apn!Modems |-> [has |-> TRUE, secret |-> Apn!Own(slot)]]
        /\ x9 = [c \in Callers |-> "idle"] /\ x10 = [c \in Callers |-> Apn!NoRequest]
    BY DEF Apn!Init
  <2>2. x1 \in Apn!Session /\ x1.session = None /\ x1.expired = FALSE
    BY <2>1 DEF Apn!Session
  <2>3. x8 \in [Apn!Modems -> Apn!Profile] /\ Apn!SecretStaysHome
    BY <2>1 DEF Apn!Profile, Apn!Own, Apn!SecretStaysHome
  <2>4. Apn!ExpiredIsGone
    BY <2>2 DEF Apn!ExpiredIsGone
  <2>5. Apn!NoRequest \in Apn!Ops /\ "idle" \in Apn!Places
    BY DEF Apn!NoRequest, Apn!Ops, Apn!Places
  <2>6. Apn!Global
    BY <2>1, <2>2, <2>3, <2>4 DEF Apn!Global
  <2>7. \A c \in Callers : Apn!Fits(c, "idle", Apn!NoRequest)
    BY <2>5 DEF Apn!Fits, Apn!UnderLock
  <2> QED
    BY <2>1, <2>5, <2>6, <2>7 DEF Apn!ApnInv
<1>2. Inv /\ [AllNext]_all => Inv'
  <2> SUFFICES ASSUME Inv, [AllNext]_all, live' = "apn" PROVE Apn!ApnInv'
    OBVIOUS
  <2>1. live = "apn" /\ (Apn!Next \/ UNCHANGED Apn!vars)
    BY ApnAtWork
  <2>2. CASE UNCHANGED Apn!vars
    <3>1. /\ x1' = x1 /\ x2' = x2 /\ x4' = x4 /\ x5' = x5 /\ x6' = x6 /\ x8' = x8 /\ x9' = x9
          /\ x10' = x10
      BY <2>2 DEF Apn!vars
    <3>2. Apn!Global' /\ x5 <= x5'
      BY <2>1, <3>1, ApnSame DEF Apn!ApnInv, Apn!Global
    <3> QED
      BY <2>1, <3>1, <3>2, ApnNobody
  <2> QED
    BY <2>1, <2>2, ApnStepKept
<1>3. Inv => ApnSafe
  BY DEF ApnSafe, Apn!ApnInv, Apn!Global
<1> QED
  BY <1>1, <1>2, <1>3, PTL DEF AllSpec

(***************************************************************************)
(* ExtraWifi: ExtraSafe from ExtraInv.  Present: whoever applies settings  *)
(* applies the present ones, unless the history says otherwise.  Earned:   *)
(* as long as the AP has another filter than the attempts are for, each    *)
(* attempt that counts was paid for by a failure.                          *)
(***************************************************************************)

\* One actor's job changes, or none.
LEMMA ExtraOne ==
    ASSUME x9 \in [Extra!Actors -> Extra!Jobs], NEW a \in Extra!Actors, NEW j \in Extra!Jobs, x9' = [x9 EXCEPT ![a] = j]
    PROVE  x9' \in [Extra!Actors -> Extra!Jobs] /\ x9'[a] = j /\ \A b \in Extra!Actors : b # a => x9'[b] = x9[b]
OBVIOUS

LEMMA ExtraFields ==
    ASSUME x9 \in [Extra!Actors -> Extra!Jobs], NEW a \in Extra!Actors
    PROVE  /\ x9[a] = [at |-> x9[a].at, c |-> x9[a].c, old |-> x9[a].old, then |-> x9[a].then,
                        filter |-> x9[a].filter, result |-> x9[a].result]
           /\ x9[a].at \in Extra!Applying \cup {"idle", "counted", "halt", "switch", "judge", "undo", "restore", "forget", "done"}
           /\ x9[a].c \in Extra!Settings \cup {None} /\ x9[a].old \in Extra!Settings \cup {None}
           /\ x9[a].then \in {None, "counted", "switch", "forget", "judge", "done"}
           /\ x9[a].filter \in Filters \cup {None} /\ x9[a].result \in {None, "up", "waits", "error"}
BY DEF Extra!Jobs

LEMMA ExtraReturns ==
    ASSUME x9 \in [Extra!Actors -> Extra!Jobs], NEW a \in Extra!Actors, x9[a].then \in {"counted", "judge", "done"},
           NEW r \in {"up", "waits", "error"}, Extra!Returns(a, r)
    PROVE  /\ x9' \in [Extra!Actors -> Extra!Jobs] /\ \A b \in Extra!Actors : b # a => x9'[b] = x9[b]
           /\ x9'[a].at = x9[a].then /\ x9'[a].result = r
           /\ x9'[a].c = x9[a].c /\ x9'[a].then = x9[a].then /\ x9'[a].old = x9[a].old
           /\ x9'[a].filter = x9[a].filter
<1> DEFINE j == [x9[a] EXCEPT !.at = x9[a].then, !.result = r]
<1>1. x9[a] \in Extra!Jobs
  OBVIOUS
<1>2. x9[a].then \in Extra!Applying \cup {"idle", "counted", "halt", "switch", "judge", "undo", "restore", "forget", "done"}
  OBVIOUS
<1>3. j \in Extra!Jobs
  BY <1>1, <1>2 DEF Extra!Jobs
<1>4. x9' = [x9 EXCEPT ![a] = j]
  BY DEF Extra!Returns
<1>5. /\ j.at = x9[a].then /\ j.result = r /\ j.c = x9[a].c /\ j.then = x9[a].then /\ j.old = x9[a].old
      /\ j.filter = x9[a].filter
  BY <1>1 DEF Extra!Jobs
<1> HIDE DEF j
<1> QED
  BY <1>3, <1>4, <1>5

LEMMA ExtraGoes ==
    ASSUME x9 \in [Extra!Actors -> Extra!Jobs], NEW a \in Extra!Actors,
           NEW p \in Extra!Applying \cup {"idle", "counted", "halt", "switch", "judge", "undo", "restore", "forget", "done"},
           Extra!Goes(a, p)
    PROVE  /\ x9' \in [Extra!Actors -> Extra!Jobs] /\ \A b \in Extra!Actors : b # a => x9'[b] = x9[b]
           /\ x9'[a].at = p /\ x9'[a].result = x9[a].result
           /\ x9'[a].c = x9[a].c /\ x9'[a].then = x9[a].then /\ x9'[a].old = x9[a].old
           /\ x9'[a].filter = x9[a].filter
<1> DEFINE j == [x9[a] EXCEPT !.at = p]
<1>1. x9[a] \in Extra!Jobs
  OBVIOUS
<1>3. j \in Extra!Jobs
  BY <1>1 DEF Extra!Jobs
<1>4. x9' = [x9 EXCEPT ![a] = j]
  BY DEF Extra!Goes
<1>5. /\ j.at = p /\ j.result = x9[a].result /\ j.c = x9[a].c /\ j.then = x9[a].then /\ j.old = x9[a].old
      /\ j.filter = x9[a].filter
  BY <1>1 DEF Extra!Jobs
<1> HIDE DEF j
<1> QED
  BY <1>3, <1>4, <1>5

LEMMA ExtraDecide ==
    ASSUME Extra!ExtraInv, NEW a \in Extra!Actors, Extra!Decide(a)
    PROVE  Extra!ExtraInv'
<1>a. /\ x9 \in [Extra!Actors -> Extra!Jobs] /\ Extra!Shapes /\ Extra!Rounds /\ Extra!Controls /\ Extra!InHand /\ Extra!FromFile /\ Extra!Present /\ Extra!Earned
      /\ UNCHANGED <<x1, x2, x3, x4, x5, x6, x7, x8, x10, x11, x12>>
      /\ x9[a].at = "apply"
  BY DEF Extra!ExtraInv, Extra!Shapes, Extra!Decide, Extra!device, Extra!slot, Extra!bounds
<1>b. x13' \subseteq {"settings", "filter"} /\ x13 \subseteq x13'
      /\ ("settings" \in x13' => "settings" \in x13)
      /\ ("filter" \notin x13' => x8.sig = None \/ x8.sig.filter = x2)
  BY DEF Extra!Decide, Extra!Drifts, Extra!ExtraInv, Extra!Shapes
<1>c. x9[a].then \in {"counted", "judge", "done"} /\ (a \in Ticks <=> x9[a].then = "counted") /\ x9[a].c # None
  BY <1>a, ExtraAssumption DEF Extra!Rounds, Extra!Controls, Extra!InHand, Extra!Actors, Extra!Idle, Extra!Applying
<1>1. /\ x9' \in [Extra!Actors -> Extra!Jobs] /\ \A b \in Extra!Actors : b # a => x9'[b] = x9[b]
      /\ x9'[a].c = x9[a].c /\ x9'[a].then = x9[a].then
      /\ \/ x9'[a].at = "stop"
         \/ x9'[a].at = x9[a].then /\ x9'[a].result = "waits"
         \/ x9'[a].at = x9[a].then /\ x9'[a].result = "up" /\ Extra!UpToDate
         \/ /\ x9'[a].at = (IF x5 # None \/ x7 = "ours" THEN "restart" ELSE "add")
            /\ x9'[a].filter = x2 /\ x9[a].c.on = TRUE
  <2>1. CASE Extra!Goes(a, "stop")
    BY <1>a, <2>1, ExtraGoes DEF Extra!Applying
  <2>2. CASE Extra!Returns(a, "waits")
    BY <1>a, <1>c, <2>2, ExtraReturns
  <2>3. CASE Extra!Returns(a, "up") /\ Extra!UpToDate
    BY <1>a, <1>c, <2>3, ExtraReturns
  <2>4. CASE /\ x9' = [x9 EXCEPT ![a].at = IF x5 # None \/ x7 = "ours" THEN "restart" ELSE "add", ![a].filter = x2]
             /\ x9[a].c.on
    <3>1. x2 \in Filters /\ x9[a].c \in Extra!Settings
      BY <1>a, <1>c DEF Extra!Shapes, Extra!Jobs
    <3>2. x9[a].c.on = TRUE
      BY <3>1, <2>4 DEF Extra!Settings
    <3> DEFINE j == [x9[a] EXCEPT !.at = IF x5 # None \/ x7 = "ours" THEN "restart" ELSE "add", !.filter = x2]
    <3>3. x9[a] \in Extra!Jobs
      BY <1>a
    <3>4. j \in Extra!Jobs /\ x9' = [x9 EXCEPT ![a] = j]
      BY <2>4, <3>1, <3>3 DEF Extra!Jobs, Extra!Applying
    <3>5. /\ j.at = (IF x5 # None \/ x7 = "ours" THEN "restart" ELSE "add") /\ j.filter = x2
          /\ j.c = x9[a].c /\ j.then = x9[a].then
      BY <3>3 DEF Extra!Jobs
    <3> HIDE DEF j
    <3> QED
      BY <1>a, <3>2, <3>4, <3>5
  <2> QED
    BY <2>1, <2>2, <2>3, <2>4 DEF Extra!Decide
<1>2. Extra!Shapes'
  BY <1>a, <1>b, <1>1 DEF Extra!Shapes
<1>3. Extra!Rounds'
  BY <1>a, <1>c, <1>1 DEF Extra!Rounds, Extra!Actors, Extra!Applying, Extra!Idle
<1>4. Extra!Controls'
  BY <1>a, <1>c, <1>1, ExtraAssumption DEF Extra!Controls, Extra!Actors, Extra!Applying, Extra!Idle
<1>5. Extra!InHand'
  BY <1>a, <1>c, <1>1, ExtraAssumption DEF Extra!InHand, Extra!Shapes, Extra!Applying, Extra!Starting
<1>6. Extra!FromFile'
  BY <1>a DEF Extra!FromFile
<1>7. Extra!Present'
  <2>1. Extra!Serves(x1)' <=> Extra!Serves(x1)
    BY <1>a DEF Extra!Serves
  <2>2. Extra!HalfWay' <=> Extra!HalfWay
    BY <1>a, <1>c, <1>1 DEF Extra!HalfWay, Extra!Actors
  <2> QED
    BY <1>a, <1>b, <1>c, <1>1, <2>1, <2>2 DEF Extra!Present, Extra!Applying, Extra!Starting, Extra!Actors
<1>8. Extra!Earned'
  BY <1>a, <1>b, <1>c, <1>1 DEF Extra!Earned, Extra!Wrong, Extra!Ended, Extra!Busy, Extra!Idle, Extra!Applying, Extra!Starting, Extra!FromFile, Extra!UpToDate, Extra!AclApplied, Extra!Actors
<1> QED
  BY <1>2, <1>3, <1>4, <1>5, <1>6, <1>7, <1>8 DEF Extra!ExtraInv

LEMMA ExtraApplying ==
    ASSUME Extra!ExtraInv, NEW a \in Extra!Actors, x9[a].at \in Extra!Applying
    PROVE  /\ x9 \in [Extra!Actors -> Extra!Jobs] /\ x9[a].then \in {"counted", "judge", "done"}
           /\ (a \in Ticks <=> x9[a].then = "counted") /\ x9[a].c \in Extra!Settings /\ x9[a].c # None
<1>1. /\ x9 \in [Extra!Actors -> Extra!Jobs] /\ x9[a].then \in {"counted", "judge", "done"}
      /\ (a \in Ticks <=> x9[a].then = "counted") /\ x9[a].c # None
  BY ExtraAssumption DEF Extra!ExtraInv, Extra!Shapes, Extra!Rounds, Extra!Controls, Extra!InHand, Extra!Actors, Extra!Idle, Extra!Applying
<1>2. x9[a].c \in Extra!Settings
  BY <1>1 DEF Extra!Jobs
<1> QED
  BY <1>1, <1>2

LEMMA ExtraStop ==
    ASSUME Extra!ExtraInv, NEW a \in Extra!Actors, Extra!Stop(a)
    PROVE  Extra!ExtraInv'
<1>a. /\ Extra!Shapes /\ Extra!Rounds /\ Extra!Controls /\ Extra!InHand /\ Extra!FromFile /\ Extra!Present /\ Extra!Earned
      /\ UNCHANGED <<x1, x2, x8, x13>> /\ x9[a].at \in {"stop", "restart"} /\ x9[a].at \in Extra!Applying
  BY DEF Extra!ExtraInv, Extra!Stop, Extra!device, Extra!Applying
<1>c. /\ x9 \in [Extra!Actors -> Extra!Jobs] /\ x9[a].then \in {"counted", "judge", "done"}
      /\ (a \in Ticks <=> x9[a].then = "counted") /\ x9[a].c # None
  BY <1>a, ExtraApplying
<1>b. /\ x5' \in {x5, None} /\ x6' \in {x6, None} /\ x12' \in {x12, x12 + 1}
      /\ x7' \in {x7, "absent"} /\ (x5' = None \/ (x6' = x6 /\ x7' = x7))
  BY DEF Extra!Stop, Extra!Stopped, Extra!StopFails, Extra!slot, Extra!Fine, Extra!Faulty, Extra!bounds
<1>1. /\ x9' \in [Extra!Actors -> Extra!Jobs] /\ \A b \in Extra!Actors : b # a => x9'[b] = x9[b]
      /\ x9'[a].c = x9[a].c /\ x9'[a].then = x9[a].then
      /\ \/ x9'[a].at = x9[a].then /\ x9'[a].result = "waits"
         \/ x9[a].at = "restart" /\ x9'[a].at = "add" /\ x9'[a].filter = x9[a].filter /\ x5' = None
         \/ x9'[a].at = x9[a].then /\ x9'[a].result = "error" /\ x12' = x12 + 1
  <2>1. CASE Extra!Returns(a, "waits")
    BY <1>c, <2>1, ExtraReturns
  <2>2. CASE x9[a].at = "restart" /\ Extra!Goes(a, "add") /\ Extra!Stopped
    BY <1>c, <2>2, ExtraGoes DEF Extra!Applying, Extra!Stopped
  <2>3. CASE Extra!Returns(a, "error") /\ Extra!Faulty
    BY <1>c, <2>3, ExtraReturns DEF Extra!Faulty
  <2> QED
    BY <1>a, <2>1, <2>2, <2>3 DEF Extra!Stop
<1>2. Extra!Shapes'
  BY <1>a, <1>b, <1>1 DEF Extra!Shapes
<1>3. Extra!Rounds'
  BY <1>a, <1>c, <1>1 DEF Extra!Rounds, Extra!Actors, Extra!Applying, Extra!Idle
<1>4. Extra!Controls'
  BY <1>a, <1>c, <1>1, ExtraAssumption DEF Extra!Controls, Extra!Actors, Extra!Applying, Extra!Idle
<1>5. Extra!InHand'
  BY <1>a, <1>c, <1>1, ExtraAssumption DEF Extra!InHand, Extra!Applying, Extra!Starting
<1>6. Extra!FromFile'
  BY <1>a, <1>b DEF Extra!FromFile
<1>7. Extra!Present'
  <2>1. x5' = None \/ (Extra!Serves(x1)' <=> Extra!Serves(x1))
    BY <1>a, <1>b DEF Extra!Serves
  <2>2. Extra!HalfWay' <=> Extra!HalfWay
    BY <1>a, <1>c, <1>1 DEF Extra!HalfWay, Extra!Actors, Extra!Applying
  <2>3. x5' = None \/ x5' = x5
    BY <1>b
  <2> QED
    BY <1>a, <1>b, <1>c, <1>1, <2>1, <2>2, <2>3 DEF Extra!Present, Extra!Applying, Extra!Starting, Extra!Actors
<1>8. Extra!Earned'
  <2>1. Extra!Wrong' => Extra!Wrong
    BY <1>a, <1>b DEF Extra!Wrong
  <2>2. x12 \in Nat /\ x8.attempts \in Nat /\ x12 <= x12'
    BY <1>a, <1>b DEF Extra!Shapes
  <2>3. \A t \in Ticks : Extra!Busy(t)' => Extra!Busy(t)
    BY <1>a, <1>c, <1>1 DEF Extra!Busy, Extra!Idle, Extra!Actors, Extra!Applying
  <2>4. \A t \in Ticks : t # a => (Extra!Ended(t)' <=> Extra!Ended(t))
    BY <1>1 DEF Extra!Ended, Extra!Actors
  <2> QED
    BY <1>a, <1>b, <1>c, <1>1, <2>1, <2>2, <2>3, <2>4 DEF Extra!Earned, Extra!Ended, Extra!Wrong, Extra!Applying, Extra!Starting, Extra!Actors
<1> QED
  BY <1>2, <1>3, <1>4, <1>5, <1>6, <1>7, <1>8 DEF Extra!ExtraInv

LEMMA ExtraAdd ==
    ASSUME Extra!ExtraInv, NEW a \in Extra!Actors, Extra!Add(a)
    PROVE  Extra!ExtraInv'
<1>a. /\ Extra!Shapes /\ Extra!Rounds /\ Extra!Controls /\ Extra!InHand /\ Extra!FromFile /\ Extra!Present /\ Extra!Earned
      /\ UNCHANGED <<x1, x2, x5, x8, x13>> /\ x9[a].at = "add" /\ x9[a].at \in Extra!Applying
  BY DEF Extra!ExtraInv, Extra!Add, Extra!device, Extra!Applying
<1>c. /\ x9 \in [Extra!Actors -> Extra!Jobs] /\ x9[a].then \in {"counted", "judge", "done"}
      /\ (a \in Ticks <=> x9[a].then = "counted") /\ x9[a].c # None /\ x9[a].c \in Extra!Settings
  BY <1>a, ExtraApplying
<1>d. x9[a].filter \in Filters /\ x9[a].c.data \in Datas
  BY <1>a, <1>c DEF Extra!InHand, Extra!Jobs, Extra!Settings, Extra!Starting
<1>b. /\ x12' \in {x12, x12 + 1}
      /\ \/ x6' = x6 /\ x7' = x7
         \/ /\ x7 = "absent" /\ x6' = [data |-> x9[a].c.data, filter |-> x9[a].filter]
            /\ x7' \in {"absent", "bare"}
  BY DEF Extra!Add, Extra!Fine, Extra!Faulty, Extra!bounds
<1>1. /\ x9' \in [Extra!Actors -> Extra!Jobs] /\ \A b \in Extra!Actors : b # a => x9'[b] = x9[b]
      /\ x9'[a].c = x9[a].c /\ x9'[a].then = x9[a].then
      /\ \/ x9'[a].at = x9[a].then
         \/ /\ x9'[a].at = "mark" /\ x9'[a].filter = x9[a].filter
            /\ x6' = [data |-> x9[a].c.data, filter |-> x9[a].filter]
  <2>1. CASE Extra!Returns(a, "error")
    BY <1>c, <2>1, ExtraReturns
  <2>2. CASE Extra!Goes(a, "mark") /\ x6' = [data |-> x9[a].c.data, filter |-> x9[a].filter]
    BY <1>c, <2>2, ExtraGoes DEF Extra!Applying
  <2> QED
    BY <2>1, <2>2 DEF Extra!Add
<1>e. x6' \in {None, x6} \/ (x6'.data = x9[a].c.data /\ x6'.filter = x9[a].filter)
  BY <1>b
<1>2. Extra!Shapes'
  BY <1>a, <1>b, <1>d, <1>1 DEF Extra!Shapes
<1>3. Extra!Rounds'
  BY <1>a, <1>c, <1>1 DEF Extra!Rounds, Extra!Actors, Extra!Applying, Extra!Idle
<1>4. Extra!Controls'
  BY <1>a, <1>c, <1>1, ExtraAssumption DEF Extra!Controls, Extra!Actors, Extra!Applying, Extra!Idle
<1>5. Extra!InHand'
  BY <1>a, <1>c, <1>1, ExtraAssumption DEF Extra!InHand, Extra!Applying, Extra!Starting
<1>6. Extra!FromFile'
  BY <1>a, <1>b DEF Extra!FromFile
<1>7. Extra!Present'
  <2>1. Extra!Serves(x1)' <=> Extra!Serves(x1)
    BY <1>a DEF Extra!Serves
  <2>2. Extra!HalfWay' <=> Extra!HalfWay
    BY <1>a, <1>c, <1>1 DEF Extra!HalfWay, Extra!Actors, Extra!Applying
  <2>3. "settings" \notin x13 => x9[a].c = x1
    BY <1>a DEF Extra!Present
  <2> QED
    BY <1>a, <1>c, <1>e, <1>1, <2>1, <2>2, <2>3 DEF Extra!Present, Extra!Applying, Extra!Starting, Extra!Actors
<1>8. Extra!Earned'
  <2>1. "filter" \notin x13 => ~Extra!Wrong /\ ~Extra!Wrong'
    BY <1>a DEF Extra!Wrong, Extra!Earned
  <2>2. \A t \in Ticks : Extra!Busy(t)' => Extra!Busy(t)
    BY <1>a, <1>c, <1>1 DEF Extra!Busy, Extra!Idle, Extra!Actors, Extra!Applying
  <2> QED
    BY <1>a, <1>c, <1>e, <1>1, <2>1, <2>2 DEF Extra!Earned, Extra!Starting, Extra!Actors
<1> QED
  BY <1>2, <1>3, <1>4, <1>5, <1>6, <1>7, <1>8 DEF Extra!ExtraInv

LEMMA ExtraMark ==
    ASSUME Extra!ExtraInv, NEW a \in Extra!Actors, Extra!Mark(a)
    PROVE  Extra!ExtraInv'
<1>a. /\ Extra!Shapes /\ Extra!Rounds /\ Extra!Controls /\ Extra!InHand /\ Extra!FromFile /\ Extra!Present /\ Extra!Earned
      /\ UNCHANGED <<x1, x2, x5, x6, x8, x12, x13>> /\ x9[a].at = "mark" /\ x9[a].at \in Extra!Applying
  BY DEF Extra!ExtraInv, Extra!Mark, Extra!device, Extra!bounds, Extra!Applying
<1>c. /\ x9 \in [Extra!Actors -> Extra!Jobs] /\ x9[a].then \in {"counted", "judge", "done"}
      /\ (a \in Ticks <=> x9[a].then = "counted") /\ x9[a].c # None
  BY <1>a, ExtraApplying
<1>b. x7' = x7 \/ x7' = "ours"
  BY DEF Extra!Mark
<1>1. /\ x9' \in [Extra!Actors -> Extra!Jobs] /\ \A b \in Extra!Actors : b # a => x9'[b] = x9[b]
      /\ x9'[a].c = x9[a].c /\ x9'[a].then = x9[a].then
      /\ x9'[a].at = x9[a].then \/ (x9'[a].at = "run" /\ x9'[a].filter = x9[a].filter)
  <2>1. CASE Extra!Returns(a, "error")
    BY <1>c, <2>1, ExtraReturns
  <2>2. CASE Extra!Goes(a, "run")
    BY <1>c, <2>2, ExtraGoes DEF Extra!Applying
  <2> QED
    BY <2>1, <2>2 DEF Extra!Mark
<1>2. Extra!Shapes'
  BY <1>a, <1>b, <1>1 DEF Extra!Shapes
<1>3. Extra!Rounds'
  BY <1>a, <1>c, <1>1 DEF Extra!Rounds, Extra!Actors, Extra!Applying, Extra!Idle
<1>4. Extra!Controls'
  BY <1>a, <1>c, <1>1, ExtraAssumption DEF Extra!Controls, Extra!Actors, Extra!Applying, Extra!Idle
<1>5. Extra!InHand'
  BY <1>a, <1>c, <1>1, ExtraAssumption DEF Extra!InHand, Extra!Applying, Extra!Starting
<1>6. Extra!FromFile'
  BY <1>a, <1>b DEF Extra!FromFile
<1>7. Extra!Present'
  <2>1. Extra!Serves(x1)' <=> Extra!Serves(x1)
    BY <1>a DEF Extra!Serves
  <2>2. Extra!HalfWay' <=> Extra!HalfWay
    BY <1>a, <1>c, <1>1 DEF Extra!HalfWay, Extra!Actors, Extra!Applying
  <2> QED
    BY <1>a, <1>c, <1>1, <2>1, <2>2 DEF Extra!Present, Extra!Applying, Extra!Starting, Extra!Actors
<1>8. Extra!Earned'
  <2>1. "filter" \notin x13 => ~Extra!Wrong /\ ~Extra!Wrong'
    BY <1>a DEF Extra!Wrong, Extra!Earned
  <2>2. \A t \in Ticks : Extra!Busy(t)' => Extra!Busy(t)
    BY <1>a, <1>c, <1>1 DEF Extra!Busy, Extra!Idle, Extra!Actors, Extra!Applying
  <2> QED
    BY <1>a, <1>c, <1>1, <2>1, <2>2 DEF Extra!Earned, Extra!Starting, Extra!Actors
<1> QED
  BY <1>2, <1>3, <1>4, <1>5, <1>6, <1>7, <1>8 DEF Extra!ExtraInv

LEMMA ExtraRun ==
    ASSUME Extra!ExtraInv, NEW a \in Extra!Actors, Extra!Run(a)
    PROVE  Extra!ExtraInv'
<1>a. /\ Extra!Shapes /\ Extra!Rounds /\ Extra!Controls /\ Extra!InHand /\ Extra!FromFile /\ Extra!Present /\ Extra!Earned
      /\ UNCHANGED <<x1, x2, x6, x8, x13>> /\ x9[a].at = "run" /\ x9[a].at \in Extra!Applying
  BY DEF Extra!ExtraInv, Extra!Run, Extra!device, Extra!Applying
<1>c. /\ x9 \in [Extra!Actors -> Extra!Jobs] /\ x9[a].then \in {"counted", "judge", "done"}
      /\ (a \in Ticks <=> x9[a].then = "counted") /\ x9[a].c # None /\ x9[a].c \in Extra!Settings
  BY <1>a, ExtraApplying
<1>b. /\ x12' \in {x12, x12 + 1}
      /\ \/ /\ x6 # None /\ x7 # "absent" /\ x7' = x7
            /\ x5' = [data |-> x6.data, filter |-> x6.filter, ready |-> TRUE]
         \/ x5 = None /\ x5' = None /\ x7' = "absent"
         \/ x5 # None /\ x5' = [x5 EXCEPT !.ready = FALSE] /\ x7' = "absent"
  BY DEF Extra!Run, Extra!Runs, Extra!Fine, Extra!Faulty, Extra!bounds
<1>d. \/ /\ x6 # None /\ x7 # "absent" /\ x7' = x7
         /\ x5' \in [data: Datas, filter: Filters, ready: BOOLEAN]
         /\ x5'.data = x6.data /\ x5'.filter = x6.filter
      \/ x5' = None /\ x7' = "absent"
      \/ /\ x5 # None /\ x5' \in [data: Datas, filter: Filters, ready: BOOLEAN] /\ x7' = "absent"
         /\ x5'.data = x5.data /\ x5'.filter = x5.filter /\ x5'.ready = FALSE
  <2>1. x6 # None => x6.data \in Datas /\ x6.filter \in Filters
    BY <1>a DEF Extra!Shapes
  <2>2. x5 # None => x5 \in [data: Datas, filter: Filters, ready: BOOLEAN]
    BY <1>a DEF Extra!Shapes
  <2>3. CASE x5 # None /\ x5' = [x5 EXCEPT !.ready = FALSE] /\ x7' = "absent"
    BY <2>2, <2>3
  <2>4. CASE /\ x6 # None /\ x7 # "absent" /\ x7' = x7
             /\ x5' = [data |-> x6.data, filter |-> x6.filter, ready |-> TRUE]
    BY <2>1, <2>4
  <2>5. CASE x5 = None /\ x5' = None /\ x7' = "absent"
    BY <2>5
  <2> QED
    BY <1>b, <2>3, <2>4, <2>5
<1>1. /\ x9' \in [Extra!Actors -> Extra!Jobs] /\ \A b \in Extra!Actors : b # a => x9'[b] = x9[b]
      /\ x9'[a].c = x9[a].c /\ x9'[a].then = x9[a].then /\ x9'[a].at = x9[a].then
  <2>1. Extra!Returns(a, "error") \/ Extra!Returns(a, "up")
    BY DEF Extra!Run
  <2> QED
    BY <1>c, <2>1, ExtraReturns
<1>e. x12' \in Nat /\ x7' \in {"absent", "ours", "bare"}
  BY <1>a, <1>b DEF Extra!Shapes
<1>2. Extra!Shapes'
  BY <1>a, <1>d, <1>e, <1>1 DEF Extra!Shapes
<1>3. Extra!Rounds'
  BY <1>a, <1>c, <1>1 DEF Extra!Rounds, Extra!Actors, Extra!Applying, Extra!Idle
<1>4. Extra!Controls'
  BY <1>a, <1>c, <1>1, ExtraAssumption DEF Extra!Controls, Extra!Actors, Extra!Applying, Extra!Idle
<1>5. Extra!InHand'
  BY <1>a, <1>c, <1>1, ExtraAssumption DEF Extra!InHand, Extra!Applying, Extra!Starting
<1>6. Extra!FromFile'
  BY <1>a, <1>d DEF Extra!FromFile
<1>7. Extra!Present'
  <2> SUFFICES ASSUME "settings" \notin x13 PROVE Extra!Present'
    BY <1>a DEF Extra!Present
  <2>1. x9[a].c = x1 /\ x1.on = TRUE /\ (x6 = None \/ x6.data = x1.data)
    BY <1>a DEF Extra!Present, Extra!Starting
  <2>2. Extra!HalfWay' <=> Extra!HalfWay
    BY <1>a, <1>c, <1>1 DEF Extra!HalfWay, Extra!Actors, Extra!Applying
  <2>3. Extra!HalfWay \/ x5 = None \/ Extra!Serves(x1)
    BY <1>a DEF Extra!Present
  <2>4. Extra!HalfWay' \/ x5' = None \/ Extra!Serves(x1)'
    <3>1. CASE x6 # None /\ x5'.data = x6.data
      BY <1>a, <1>c, <2>1, <3>1 DEF Extra!Serves
    <3>2. CASE x5 # None /\ x5'.data = x5.data
      BY <1>a, <2>2, <2>3, <3>2 DEF Extra!Serves
    <3> QED
      BY <1>d, <3>1, <3>2
  <2> QED
    BY <1>a, <1>c, <1>1, <2>4 DEF Extra!Present, Extra!Applying, Extra!Starting, Extra!Actors
<1>8. Extra!Earned'
  <2>1. "filter" \notin x13 => ~Extra!Wrong'
    <3>1. "filter" \notin x13 => ~Extra!Wrong /\ (x8.sig = None \/ x6 = None \/ x6.filter = x8.sig.filter)
      BY <1>a DEF Extra!Earned
    <3> QED
      BY <1>a, <1>d, <3>1 DEF Extra!Wrong
  <2>2. \A t \in Ticks : Extra!Busy(t)' => Extra!Busy(t)
    BY <1>a, <1>c, <1>1 DEF Extra!Busy, Extra!Idle, Extra!Actors, Extra!Applying
  <2> QED
    BY <1>a, <1>c, <1>1, <2>1, <2>2 DEF Extra!Earned, Extra!Starting, Extra!Actors
<1> QED
  BY <1>2, <1>3, <1>4, <1>5, <1>6, <1>7, <1>8 DEF Extra!ExtraInv

\* A round that reads the settings, ends, or clears up.
LEMMA ExtraTick ==
    ASSUME Extra!ExtraInv, NEW t \in Ticks, Extra!Tick(t)
    PROVE  Extra!ExtraInv'
<1> DEFINE j == [Extra!Idle EXCEPT !.at = "apply", !.c = x1, !.then = "counted"]
<1>a. /\ Extra!Shapes /\ Extra!Rounds /\ Extra!Controls /\ Extra!InHand /\ Extra!FromFile /\ Extra!Present /\ Extra!Earned /\ t \in Extra!Actors
      /\ UNCHANGED <<x1, x2, x5, x6, x7, x12>> /\ x9[t] = Extra!Idle /\ x1 # None
      /\ x8' = Extra!Current /\ x9' = [x9 EXCEPT ![t] = j]
  BY DEF Extra!ExtraInv, Extra!Tick, Extra!device, Extra!slot, Extra!bounds, Extra!Busy, Extra!Sets, Extra!Actors
<1>b. /\ x13' \subseteq {"settings", "filter"} /\ ("settings" \in x13 <=> "settings" \in x13')
      /\ "filter" \notin x13' => "filter" \notin x13 /\ \A a \in Extra!Actors : x9[a] = Extra!Idle
  BY <1>a DEF Extra!Tick, Extra!Drifts, Extra!Shapes, Extra!Busy
<1>c. x1 \in Extra!Settings /\ x9 \in [Extra!Actors -> Extra!Jobs] /\ x2 \in Filters /\ x12 \in Nat
  BY <1>a DEF Extra!Shapes
<1>d. /\ j \in Extra!Jobs /\ j.at = "apply" /\ j.c = x1 /\ j.then = "counted"
  BY <1>c DEF Extra!Jobs, Extra!Idle, Extra!Applying
<1>1. x9' \in [Extra!Actors -> Extra!Jobs] /\ x9'[t] = j /\ \A b \in Extra!Actors : b # t => x9'[b] = x9[b]
  BY <1>a, <1>c, <1>d, ExtraOne
<1> HIDE DEF j
<1>e. Extra!Signature \in [c: Extra!Settings, filter: Filters] /\ Extra!Signature # None
  BY <1>c, ExtraAssumption DEF Extra!Signature
<1>f. /\ x8' \in [sig: [c: Extra!Settings, filter: Filters] \cup {None}, attempts: Nat]
      /\ x8' = x8 \/ x8'.attempts = 0
  BY <1>a, <1>e DEF Extra!Current, Extra!Shapes
<1>2. Extra!Shapes'
  BY <1>a, <1>b, <1>f, <1>1 DEF Extra!Shapes
<1>3. Extra!Rounds'
  BY <1>a, <1>d, <1>1 DEF Extra!Rounds, Extra!Actors, Extra!Applying
<1>4. Extra!Controls'
  BY <1>a, <1>1, ExtraAssumption DEF Extra!Controls, Extra!Actors
<1>5. Extra!InHand'
  BY <1>a, <1>d, <1>1 DEF Extra!InHand, Extra!Starting
<1>6. Extra!FromFile'
  BY <1>a DEF Extra!FromFile
<1>7. Extra!Present'
  <2>1. Extra!Serves(x1)' <=> Extra!Serves(x1)
    BY <1>a DEF Extra!Serves
  <2>2. (Extra!HalfWay' <=> Extra!HalfWay) /\ x9'[Control] = x9[Control]
    BY <1>a, <1>1, ExtraAssumption DEF Extra!HalfWay, Extra!Actors
  <2> QED
    BY <1>a, <1>b, <1>d, <1>1, <2>1, <2>2 DEF Extra!Present, Extra!Starting, Extra!Actors
<1>8. Extra!Earned'
  <2> SUFFICES ASSUME "filter" \notin x13' PROVE Extra!Earned'
    BY DEF Extra!Earned
  <2>1. \A b \in Extra!Actors : b # t => x9'[b].at = "idle" /\ x9'[b] = Extra!Idle
    BY <1>b, <1>1 DEF Extra!Idle
  <2>2. \A b \in Extra!Actors : x9'[b].at \notin Extra!Starting /\ x9'[b].at # "counted"
    BY <1>1, <1>d, <2>1 DEF Extra!Starting
  <2>3. Extra!Wrong' => x8'.attempts <= x12'
    <3>1. CASE x8' = x8
      BY <1>a, <1>b, <3>1 DEF Extra!Earned, Extra!Wrong
    <3>2. CASE x8'.attempts = 0
      BY <1>a, <1>c, <3>2
    <3> QED
      BY <1>f, <3>1, <3>2
  <2> QED
    BY <2>1, <2>2, <2>3 DEF Extra!Earned, Extra!Ended, Extra!Busy, Extra!Starting, Extra!Actors
<1> QED
  BY <1>2, <1>3, <1>4, <1>5, <1>6, <1>7, <1>8 DEF Extra!ExtraInv

LEMMA ExtraIdle == Extra!Idle \in Extra!Jobs /\ Extra!Idle.at = "idle" /\ Extra!Idle.then = None
BY DEF Extra!Idle, Extra!Jobs

LEMMA ExtraCounted ==
    ASSUME Extra!ExtraInv, NEW t \in Ticks, Extra!Counted(t)
    PROVE  Extra!ExtraInv'
<1>a. /\ Extra!Shapes /\ Extra!Rounds /\ Extra!Controls /\ Extra!InHand /\ Extra!FromFile /\ Extra!Present /\ Extra!Earned /\ t \in Extra!Actors
      /\ UNCHANGED <<x1, x2, x5, x6, x7, x12, x13>> /\ x9[t].at = "counted"
      /\ x9' = [x9 EXCEPT ![t] = Extra!Idle]
      /\ x8' = IF x9[t].result = "waits" THEN x8 ELSE [x8 EXCEPT !.attempts = @ + 1]
  BY DEF Extra!ExtraInv, Extra!Counted, Extra!device, Extra!slot, Extra!bounds, Extra!Sets, Extra!Actors
<1>c. x9 \in [Extra!Actors -> Extra!Jobs] /\ x8.attempts \in Nat /\ x12 \in Nat
  BY <1>a DEF Extra!Shapes
<1>1. x9' \in [Extra!Actors -> Extra!Jobs] /\ x9'[t] = Extra!Idle /\ \A b \in Extra!Actors : b # t => x9'[b] = x9[b]
  BY <1>a, <1>c, ExtraOne, ExtraIdle
<1>f. /\ x8' \in [sig: [c: Extra!Settings, filter: Filters] \cup {None}, attempts: Nat] /\ x8'.sig = x8.sig
      /\ x8'.attempts = IF x9[t].result = "waits" THEN x8.attempts ELSE x8.attempts + 1
  BY <1>a DEF Extra!Shapes
<1>2. Extra!Shapes'
  BY <1>a, <1>f, <1>1 DEF Extra!Shapes
<1>3. Extra!Rounds'
  BY <1>a, <1>1 DEF Extra!Rounds, Extra!Actors
<1>4. Extra!Controls'
  BY <1>a, <1>1, ExtraAssumption DEF Extra!Controls, Extra!Actors
<1>5. Extra!InHand'
  BY <1>a, <1>1, ExtraIdle DEF Extra!InHand, Extra!Starting, Extra!Applying
<1>6. Extra!FromFile'
  BY <1>a DEF Extra!FromFile
<1>7. Extra!Present'
  <2>1. Extra!Serves(x1)' <=> Extra!Serves(x1)
    BY <1>a DEF Extra!Serves
  <2>2. (Extra!HalfWay' <=> Extra!HalfWay) /\ x9'[Control] = x9[Control]
    BY <1>a, <1>1, ExtraAssumption DEF Extra!HalfWay, Extra!Actors
  <2> QED
    BY <1>a, <1>1, <2>1, <2>2, ExtraIdle DEF Extra!Present, Extra!Starting, Extra!Applying, Extra!Actors
<1>8. Extra!Earned'
  <2> SUFFICES ASSUME "filter" \notin x13 PROVE Extra!Earned'
    BY <1>a DEF Extra!Earned
  <2>1. \A u \in Ticks : u # t => x9[u] = Extra!Idle
    BY <1>a, ExtraIdle DEF Extra!Earned, Extra!Busy
  <2>2. \A u \in Ticks : x9'[u] = Extra!Idle
    BY <1>1, <2>1 DEF Extra!Actors
  <2>3. Extra!Wrong' => Extra!Wrong
    BY <1>a, <1>f DEF Extra!Wrong
  <2>4. Extra!Wrong' => x8'.attempts <= x12'
    BY <1>a, <1>c, <1>f, <2>3 DEF Extra!Earned, Extra!Ended
  <2> QED
    BY <1>a, <1>f, <1>1, <2>2, <2>3, <2>4, ExtraIdle DEF Extra!Earned, Extra!Ended, Extra!Busy, Extra!Starting, Extra!Actors
<1> QED
  BY <1>2, <1>3, <1>4, <1>5, <1>6, <1>7, <1>8 DEF Extra!ExtraInv

\* What a stop may do to the slot.
LEMMA ExtraStops ==
    ASSUME Extra!Shapes, Extra!FromFile, (Extra!Stopped /\ Extra!Fine) \/ (Extra!StopFails /\ Extra!Faulty)
    PROVE  /\ x5' \in {x5, None} /\ x6' \in {x6, None} /\ x12' \in {x12, x12 + 1}
           /\ x7' \in {x7, "absent"} /\ (x5' = None \/ (x6' = x6 /\ x7' = x7))
           /\ x12 \in Nat /\ x12' \in Nat /\ Extra!FromFile'
<1>1. /\ x5' \in {x5, None} /\ x6' \in {x6, None} /\ x12' \in {x12, x12 + 1}
      /\ x7' \in {x7, "absent"} /\ (x5' = None \/ (x6' = x6 /\ x7' = x7))
  BY DEF Extra!Stopped, Extra!StopFails, Extra!slot, Extra!Fine, Extra!Faulty, Extra!bounds
<1> QED
  BY <1>1 DEF Extra!FromFile, Extra!Shapes

LEMMA ExtraRemove ==
    ASSUME Extra!ExtraInv, NEW t \in Ticks, Extra!Remove(t)
    PROVE  Extra!ExtraInv'
<1>a. /\ Extra!Shapes /\ Extra!Rounds /\ Extra!Controls /\ Extra!InHand /\ Extra!FromFile /\ Extra!Present /\ Extra!Earned
      /\ UNCHANGED <<x1, x2, x9, x13>> /\ x8' = Extra!NoRecord
  BY DEF Extra!ExtraInv, Extra!Remove, Extra!device
<1>b. /\ x5' \in {x5, None} /\ x6' \in {x6, None} /\ x12' \in {x12, x12 + 1}
      /\ x7' \in {x7, "absent"} /\ x12' \in Nat /\ Extra!FromFile'
  BY <1>a, ExtraStops DEF Extra!Remove
<1>f. x8' \in [sig: [c: Extra!Settings, filter: Filters] \cup {None}, attempts: Nat] /\ x8'.sig = None
  BY <1>a DEF Extra!NoRecord
<1>2. Extra!Shapes'
  BY <1>a, <1>b, <1>f DEF Extra!Shapes
<1>3. Extra!Rounds' /\ Extra!Controls' /\ Extra!InHand'
  BY <1>a DEF Extra!Rounds, Extra!Controls, Extra!InHand
<1>7. Extra!Present'
  <2>1. x5' = None \/ (x5' = x5 /\ (Extra!Serves(x1)' <=> Extra!Serves(x1)))
    BY <1>a, <1>b DEF Extra!Serves
  <2>2. Extra!HalfWay' <=> Extra!HalfWay
    BY <1>a DEF Extra!HalfWay
  <2>3. x6' = None \/ x6' = x6
    BY <1>b
  <2> QED
    BY <1>a, <2>1, <2>2, <2>3 DEF Extra!Present
<1>8. Extra!Earned'
  BY <1>a, <1>f DEF Extra!Earned, Extra!Wrong, Extra!Busy
<1> QED
  BY <1>b, <1>2, <1>3, <1>7, <1>8 DEF Extra!ExtraInv

\* The control: its job changes, and the settings, or the slot.
LEMMA ExtraConfigure ==
    ASSUME Extra!ExtraInv, NEW new \in Extra!Settings, Extra!Configure(new)
    PROVE  Extra!ExtraInv'
<1> DEFINE j == [Extra!Idle EXCEPT !.at = "halt", !.c = new, !.old = x1, !.then = "switch"]
<1>a. /\ Extra!Shapes /\ Extra!Rounds /\ Extra!Controls /\ Extra!InHand /\ Extra!FromFile /\ Extra!Present /\ Extra!Earned /\ Control \in Extra!Actors
      /\ UNCHANGED <<x2, x5, x6, x7, x8, x12>> /\ x1' = new
      /\ x9[Control] = Extra!Idle /\ x9' = [x9 EXCEPT ![Control] = j]
  BY DEF Extra!ExtraInv, Extra!Configure, Extra!device, Extra!slot, Extra!Sets, Extra!Busy, Extra!Actors
<1>b. /\ x13' \subseteq {"settings", "filter"} /\ ("filter" \in x13' <=> "filter" \in x13)
      /\ "settings" \notin x13' => \A t \in Ticks : x9[t] = Extra!Idle
  BY <1>a DEF Extra!Configure, Extra!Drifts, Extra!Overlaps, Extra!Busy, Extra!Shapes
<1>c. x9 \in [Extra!Actors -> Extra!Jobs] /\ x1 \in Extra!Settings \cup {None} /\ new # None
  BY <1>a, ExtraAssumption DEF Extra!Shapes
<1>d. j \in Extra!Jobs /\ j.at = "halt" /\ j.c = new /\ j.then = "switch"
  BY <1>c DEF Extra!Jobs, Extra!Idle
<1>1. x9' \in [Extra!Actors -> Extra!Jobs] /\ x9'[Control] = j /\ \A b \in Extra!Actors : b # Control => x9'[b] = x9[b]
  BY <1>a, <1>c, <1>d, ExtraOne
<1> HIDE DEF j
<1>2. Extra!Shapes'
  BY <1>a, <1>b, <1>1 DEF Extra!Shapes
<1>3. Extra!Rounds'
  BY <1>a, <1>1, ExtraAssumption DEF Extra!Rounds, Extra!Actors
<1>4. Extra!Controls'
  BY <1>d, <1>1 DEF Extra!Controls
<1>5. Extra!InHand'
  BY <1>a, <1>c, <1>d, <1>1 DEF Extra!InHand, Extra!Starting, Extra!Applying
<1>6. Extra!FromFile'
  BY <1>a DEF Extra!FromFile
<1>7. Extra!Present'
  <2> SUFFICES ASSUME "settings" \notin x13' PROVE Extra!Present'
    BY DEF Extra!Present
  <2>1. Extra!HalfWay'
    BY <1>d, <1>1 DEF Extra!HalfWay
  <2>2. \A b \in Extra!Actors : x9'[b].at \notin Extra!Applying
    BY <1>b, <1>d, <1>1, ExtraIdle DEF Extra!Actors, Extra!Applying
  <2> QED
    BY <1>a, <1>d, <1>1, <2>1, <2>2 DEF Extra!Present, Extra!Applying, Extra!Starting
<1>8. Extra!Earned'
  <2>1. Extra!Wrong' <=> Extra!Wrong
    BY <1>a DEF Extra!Wrong
  <2>2. \A t \in Ticks : x9'[t] = x9[t]
    BY <1>1, ExtraAssumption DEF Extra!Actors
  <2> QED
    BY <1>a, <1>b, <1>d, <1>1, <2>1, <2>2 DEF Extra!Earned, Extra!Ended, Extra!Busy, Extra!Starting, Extra!Actors
<1> QED
  BY <1>2, <1>3, <1>4, <1>5, <1>6, <1>7, <1>8 DEF Extra!ExtraInv

\* A step of the control outside apply that leaves the settings alone: what
\* it makes of the slot, of the signature and of its own job.
LEMMA ExtraControl ==
    ASSUME Extra!ExtraInv, x9' \in [Extra!Actors -> Extra!Jobs], \A b \in Extra!Actors : b # Control => x9'[b] = x9[b],
           UNCHANGED <<x1, x2>>, Extra!FromFile',
           x5' = None \/ x5' = x5, x6' = None \/ x6' = x6, x7' = x7 \/ x7' = "absent",
           x12' \in Nat, x12 <= x12', x8' = x8 \/ x8' = Extra!NoRecord,
           x13' \subseteq {"settings", "filter"}, x13 \subseteq x13',
           Extra!Controls',
           x9'[Control].at \in {"apply", "switch"} => x9'[Control].c # None,
           x9'[Control].at = "halt" => x9'[Control].then = "forget",
           x9'[Control].at \notin {"stop", "restart", "add", "mark", "run"},
           "settings" \notin x13' =>
             /\ x9'[Control].at \in {"undo", "restore"} \/ ~Extra!HalfWay \/ x5' = None
             /\ x9'[Control].at \in {"apply", "switch"} => x9'[Control].c = x1
             /\ x9'[Control].at \in {"halt", "forget"} => x9'[Control].old = x1
    PROVE  Extra!ExtraInv'
<1>a. /\ Extra!Shapes /\ Extra!Rounds /\ Extra!Controls /\ Extra!InHand /\ Extra!FromFile /\ Extra!Present /\ Extra!Earned /\ Control \in Extra!Actors
  BY DEF Extra!ExtraInv, Extra!Actors
<1>f. x8' \in [sig: [c: Extra!Settings, filter: Filters] \cup {None}, attempts: Nat] /\ (x8' = x8 \/ x8'.sig = None)
  BY <1>a DEF Extra!NoRecord, Extra!Shapes
<1>t. \A t \in Ticks : x9'[t] = x9[t] /\ t \in Extra!Actors
  BY ExtraAssumption DEF Extra!Actors
<1>2. Extra!Shapes'
  BY <1>a, <1>f DEF Extra!Shapes
<1>3. Extra!Rounds'
  BY <1>a, <1>t DEF Extra!Rounds
<1>5. Extra!InHand'
  BY <1>a DEF Extra!InHand, Extra!Starting, Extra!Applying
<1>7. Extra!Present'
  <2> SUFFICES ASSUME "settings" \notin x13' PROVE Extra!Present'
    BY DEF Extra!Present
  <2>1. x5' = None \/ (x5' = x5 /\ (Extra!Serves(x1)' <=> Extra!Serves(x1)))
    BY DEF Extra!Serves
  <2>2. Extra!HalfWay' \/ x5' = None \/ Extra!Serves(x1)'
    <3>1. "settings" \notin x13 /\ (Extra!HalfWay \/ x5 = None \/ Extra!Serves(x1))
      BY <1>a DEF Extra!Present
    <3>2. x9'[Control].at \in {"undo", "restore"} => Extra!HalfWay'
      BY DEF Extra!HalfWay
    <3> QED
      BY <2>1, <3>1, <3>2
  <2> QED
    BY <1>a, <2>2 DEF Extra!Present, Extra!Applying, Extra!Starting
<1>8. Extra!Earned'
  <2>1. Extra!Wrong' => Extra!Wrong /\ x8' = x8
    BY <1>f DEF Extra!Wrong
  <2>2. \A t \in Ticks : (Extra!Busy(t)' <=> Extra!Busy(t)) /\ (Extra!Ended(t)' <=> Extra!Ended(t))
    BY <1>t DEF Extra!Busy, Extra!Ended
  <2>3. x8.attempts \in Nat /\ x12 \in Nat
    BY <1>a DEF Extra!Shapes
  <2>4. Extra!Wrong' => ~Extra!Wrong \/ "filter" \in x13 \/ x8'.attempts <= x12'
    BY <1>a, <2>1, <2>3 DEF Extra!Earned
  <2>5. \A t \in Ticks : Extra!Wrong' /\ "filter" \notin x13 /\ Extra!Ended(t)' => x8'.attempts + 1 <= x12'
    BY <1>a, <2>1, <2>2, <2>3 DEF Extra!Earned
  <2> QED
    BY <1>a, <1>f, <1>t, <2>1, <2>2, <2>4, <2>5 DEF Extra!Earned, Extra!Starting
<1> QED
  BY <1>2, <1>3, <1>5, <1>7, <1>8 DEF Extra!ExtraInv

LEMMA ExtraDelete ==
    ASSUME Extra!ExtraInv, Extra!Delete
    PROVE  Extra!ExtraInv'
<1> DEFINE j == [Extra!Idle EXCEPT !.at = "halt", !.old = x1, !.then = "forget"]
<1>a. /\ Extra!Shapes /\ Extra!FromFile /\ Control \in Extra!Actors /\ UNCHANGED <<x1, x2, x5, x6, x7, x8, x12, x13>>
      /\ x9[Control] = Extra!Idle /\ x9' = [x9 EXCEPT ![Control] = j]
  BY DEF Extra!ExtraInv, Extra!Delete, Extra!device, Extra!slot, Extra!Sets, Extra!Busy, Extra!Actors
<1>b. x9 \in [Extra!Actors -> Extra!Jobs] /\ x12 \in Nat /\ x13 \subseteq {"settings", "filter"} /\ x1 \in Extra!Settings \cup {None}
  BY <1>a DEF Extra!Shapes
<1>c. j \in Extra!Jobs /\ j.at = "halt" /\ j.old = x1 /\ j.then = "forget"
  BY <1>b DEF Extra!Jobs, Extra!Idle
<1>1. x9' \in [Extra!Actors -> Extra!Jobs] /\ x9'[Control] = j /\ \A b \in Extra!Actors : b # Control => x9'[b] = x9[b]
  BY <1>a, <1>b, <1>c, ExtraOne
<1> HIDE DEF j
<1>2. Extra!FromFile' /\ x12' \in Nat /\ x12 <= x12'
  BY <1>a, <1>b DEF Extra!FromFile
<1>3. ~Extra!HalfWay /\ Extra!Controls'
  BY <1>a, <1>c, <1>1, ExtraIdle DEF Extra!HalfWay, Extra!Controls
<1> QED
  BY <1>a, <1>b, <1>c, <1>1, <1>2, <1>3, ExtraControl

LEMMA ExtraHalt ==
    ASSUME Extra!ExtraInv, Extra!Halt
    PROVE  Extra!ExtraInv'
<1>a. /\ Extra!Shapes /\ Extra!Controls /\ Extra!InHand /\ Extra!FromFile /\ Extra!Present /\ Control \in Extra!Actors /\ x9[Control].at = "halt"
      /\ UNCHANGED <<x1, x2, x8, x13>> /\ x9 \in [Extra!Actors -> Extra!Jobs]
  BY DEF Extra!ExtraInv, Extra!Halt, Extra!device, Extra!Shapes, Extra!Actors
<1>b. x9[Control].then \in {"switch", "forget"}
  BY <1>a DEF Extra!Controls, Extra!Idle, Extra!Applying
<1>c. /\ x5' \in {x5, None} /\ x6' \in {x6, None} /\ x12' \in {x12, x12 + 1}
      /\ x7' \in {x7, "absent"} /\ x12 \in Nat /\ x12' \in Nat /\ Extra!FromFile'
  BY <1>a, ExtraStops DEF Extra!Halt
<1>d. x12 <= x12' /\ x13' \subseteq {"settings", "filter"}
  BY <1>a, <1>c DEF Extra!Shapes
<1>1. /\ x9' \in [Extra!Actors -> Extra!Jobs] /\ \A b \in Extra!Actors : b # Control => x9'[b] = x9[b]
      /\ \/ /\ x9'[Control].at = x9[Control].then /\ x5' = None
            /\ x9'[Control].c = x9[Control].c /\ x9'[Control].old = x9[Control].old
         \/ x9'[Control].at = "undo"
         \/ x9'[Control] = Extra!Idle /\ x9[Control].then = "forget"
  <2>1. CASE Extra!Goes(Control, x9[Control].then) /\ Extra!Stopped
    BY <1>a, <1>b, <2>1, ExtraGoes DEF Extra!Stopped
  <2>2. CASE Extra!Goes(Control, "undo")
    BY <1>a, <2>2, ExtraGoes
  <2>3. CASE Extra!Sets(Control, Extra!Idle) /\ x9[Control].then = "forget"
    BY <1>a, <2>3, ExtraOne, ExtraIdle DEF Extra!Sets
  <2> QED
    BY <1>b, <2>1, <2>2, <2>3 DEF Extra!Halt
<1>2. Extra!Controls' /\ (x9[Control].then = "forget" => ~Extra!HalfWay)
  BY <1>a, <1>b, <1>1 DEF Extra!Controls, Extra!HalfWay
<1>3. /\ x9[Control].then = "switch" => x9[Control].c # None
      /\ "settings" \notin x13 =>
           /\ x9[Control].then = "switch" => x9[Control].c = x1
           /\ x9[Control].then = "forget" => x9[Control].old = x1
  BY <1>a DEF Extra!InHand, Extra!Present
<1> QED
  BY <1>a, <1>b, <1>c, <1>d, <1>1, <1>2, <1>3, ExtraControl, ExtraIdle

LEMMA ExtraSwitch ==
    ASSUME Extra!ExtraInv, Extra!Switch
    PROVE  Extra!ExtraInv'
<1> DEFINE j == [x9[Control] EXCEPT !.at = "apply", !.then = "judge"]
<1>a. /\ Extra!Shapes /\ Extra!InHand /\ Extra!FromFile /\ Extra!Present /\ Control \in Extra!Actors /\ x9[Control].at = "switch"
      /\ UNCHANGED <<x1, x2, x5, x6, x7, x12, x13>> /\ x8' = Extra!NoRecord
      /\ x9 \in [Extra!Actors -> Extra!Jobs] /\ x9' = [x9 EXCEPT ![Control] = j]
  BY DEF Extra!ExtraInv, Extra!Switch, Extra!device, Extra!slot, Extra!bounds, Extra!Shapes, Extra!Actors
<1>b. x9[Control] \in Extra!Jobs
  BY <1>a
<1>c. j \in Extra!Jobs /\ j.at = "apply" /\ j.then = "judge" /\ j.c = x9[Control].c
  BY <1>b DEF Extra!Jobs, Extra!Applying
<1>1. x9' \in [Extra!Actors -> Extra!Jobs] /\ x9'[Control] = j /\ \A b \in Extra!Actors : b # Control => x9'[b] = x9[b]
  BY <1>a, <1>c, ExtraOne
<1> HIDE DEF j
<1>2. /\ Extra!FromFile' /\ x12' \in Nat /\ x12 <= x12' /\ Extra!Controls' /\ ~Extra!HalfWay
      /\ x13' \subseteq {"settings", "filter"}
  BY <1>a, <1>c, <1>1 DEF Extra!FromFile, Extra!Shapes, Extra!Controls, Extra!HalfWay, Extra!Applying
<1>3. x9[Control].c # None /\ ("settings" \notin x13 => x9[Control].c = x1)
  BY <1>a DEF Extra!InHand, Extra!Present
<1> QED
  BY <1>a, <1>c, <1>1, <1>2, <1>3, ExtraControl

LEMMA ExtraJudge ==
    ASSUME Extra!ExtraInv, Extra!Judge \/ Extra!Done
    PROVE  Extra!ExtraInv'
<1>a. /\ Extra!Shapes /\ Extra!FromFile /\ Control \in Extra!Actors /\ x9[Control].at \in {"judge", "done"}
      /\ UNCHANGED <<x1, x2, x5, x6, x7, x8, x12, x13>> /\ x9 \in [Extra!Actors -> Extra!Jobs]
  BY DEF Extra!ExtraInv, Extra!Judge, Extra!Done, Extra!device, Extra!slot, Extra!bounds, Extra!Shapes, Extra!Actors
<1>1. /\ x9' \in [Extra!Actors -> Extra!Jobs] /\ \A b \in Extra!Actors : b # Control => x9'[b] = x9[b]
      /\ x9'[Control].at = "undo" \/ x9'[Control] = Extra!Idle
  <2>1. CASE Extra!Goes(Control, "undo")
    BY <1>a, <2>1, ExtraGoes
  <2>2. CASE Extra!Sets(Control, Extra!Idle)
    BY <1>a, <2>2, ExtraOne, ExtraIdle DEF Extra!Sets
  <2> QED
    BY <2>1, <2>2 DEF Extra!Judge, Extra!Done
<1>2. /\ Extra!FromFile' /\ x12' \in Nat /\ x12 <= x12' /\ Extra!Controls' /\ ~Extra!HalfWay
      /\ x13' \subseteq {"settings", "filter"}
  BY <1>a, <1>1 DEF Extra!FromFile, Extra!Shapes, Extra!Controls, Extra!HalfWay
<1> QED
  BY <1>a, <1>1, <1>2, ExtraControl, ExtraIdle

LEMMA ExtraUndo ==
    ASSUME Extra!ExtraInv, Extra!Undo
    PROVE  Extra!ExtraInv'
<1>a. /\ Extra!Shapes /\ Extra!FromFile /\ Control \in Extra!Actors
      /\ UNCHANGED <<x1, x2, x8, x13>> /\ x9 \in [Extra!Actors -> Extra!Jobs]
  BY DEF Extra!ExtraInv, Extra!Undo, Extra!device, Extra!Shapes, Extra!Actors
<1>c. /\ x5' \in {x5, None} /\ x6' \in {x6, None} /\ x12' \in {x12, x12 + 1}
      /\ x7' \in {x7, "absent"} /\ x12 \in Nat /\ x12' \in Nat /\ Extra!FromFile'
  BY <1>a, ExtraStops DEF Extra!Undo
<1>d. x12 <= x12' /\ x13' \subseteq {"settings", "filter"}
  BY <1>a, <1>c DEF Extra!Shapes
<1>1. /\ x9' \in [Extra!Actors -> Extra!Jobs] /\ \A b \in Extra!Actors : b # Control => x9'[b] = x9[b]
      /\ x9'[Control].at = "restore"
  BY <1>a, ExtraGoes DEF Extra!Undo
<1>2. Extra!Controls'
  BY <1>1 DEF Extra!Controls
<1> QED
  BY <1>a, <1>c, <1>d, <1>1, <1>2, ExtraControl

LEMMA ExtraDrop ==
    ASSUME Extra!ExtraInv, Extra!Drop
    PROVE  Extra!ExtraInv'
<1>a. /\ Extra!Shapes /\ Extra!FromFile /\ Control \in Extra!Actors
      /\ UNCHANGED <<x1, x2, x5, x6, x7, x8, x12>> /\ x9 \in [Extra!Actors -> Extra!Jobs]
      /\ x9' = [x9 EXCEPT ![Control] = Extra!Idle]
  BY DEF Extra!ExtraInv, Extra!Drop, Extra!Event, Extra!device, Extra!slot, Extra!Sets, Extra!Shapes, Extra!Actors
<1>b. /\ x13' \subseteq {"settings", "filter"} /\ x13 \subseteq x13' /\ ("settings" \notin x13' => ~Extra!HalfWay)
  BY <1>a DEF Extra!Drop, Extra!Drifts, Extra!Shapes
<1>1. x9' \in [Extra!Actors -> Extra!Jobs] /\ x9'[Control] = Extra!Idle /\ \A b \in Extra!Actors : b # Control => x9'[b] = x9[b]
  BY <1>a, ExtraOne, ExtraIdle
<1>2. Extra!FromFile' /\ x12' \in Nat /\ x12 <= x12' /\ Extra!Controls'
  BY <1>a, <1>1 DEF Extra!FromFile, Extra!Shapes, Extra!Controls
<1> QED
  BY <1>a, <1>b, <1>1, <1>2, ExtraControl, ExtraIdle

LEMMA ExtraReapplies ==
    ASSUME x9 \in [Extra!Actors -> Extra!Jobs], Control \in Extra!Actors, Extra!Reapplies(Control)
    PROVE  /\ x9' \in [Extra!Actors -> Extra!Jobs] /\ \A b \in Extra!Actors : b # Control => x9'[b] = x9[b]
           /\ \/ x9[Control].old = None /\ x9'[Control] = Extra!Idle
              \/ /\ x9[Control].old # None /\ x9'[Control].at = "apply" /\ x9'[Control].then = "done"
                 /\ x9'[Control].c = x9[Control].old
<1>1. CASE x9[Control].old = None
  BY <1>1, ExtraOne, ExtraIdle DEF Extra!Reapplies, Extra!Sets
<1>2. CASE x9[Control].old # None
  <2> DEFINE j == [x9[Control] EXCEPT !.at = "apply", !.c = x9[Control].old, !.then = "done"]
  <2>1. x9[Control] \in Extra!Jobs
    OBVIOUS
  <2>2. x9[Control].old \in Extra!Settings \cup {None}
    BY <2>1 DEF Extra!Jobs
  <2>3. j \in Extra!Jobs /\ j.at = "apply" /\ j.then = "done" /\ j.c = x9[Control].old
    BY <2>1, <2>2 DEF Extra!Jobs, Extra!Applying
  <2>4. x9' = [x9 EXCEPT ![Control] = j]
    BY <1>2 DEF Extra!Reapplies
  <2> HIDE DEF j
  <2> QED
    BY <1>2, <2>3, <2>4, ExtraOne
<1> QED
  BY <1>1, <1>2

LEMMA ExtraForget ==
    ASSUME Extra!ExtraInv, Extra!Forget, UNCHANGED <<x1, x13>>, Extra!Reapplies(Control)
    PROVE  Extra!ExtraInv'
<1>a. /\ Extra!Shapes /\ Extra!InHand /\ Extra!FromFile /\ Extra!Present /\ Control \in Extra!Actors /\ x9[Control].at = "forget"
      /\ UNCHANGED <<x2, x5, x6, x7, x8>> /\ x9 \in [Extra!Actors -> Extra!Jobs]
      /\ x12' \in {x12, x12 + 1}
  BY DEF Extra!ExtraInv, Extra!Forget, Extra!device, Extra!slot, Extra!Shapes, Extra!Actors, Extra!Fine, Extra!Faulty, Extra!bounds
<1>1. /\ x9' \in [Extra!Actors -> Extra!Jobs] /\ \A b \in Extra!Actors : b # Control => x9'[b] = x9[b]
      /\ \/ x9'[Control] = Extra!Idle
         \/ /\ x9[Control].old # None /\ x9'[Control].at = "apply" /\ x9'[Control].then = "done"
            /\ x9'[Control].c = x9[Control].old
  BY <1>a, ExtraReapplies
<1>2. /\ Extra!FromFile' /\ x12' \in Nat /\ x12 <= x12' /\ ~Extra!HalfWay /\ x13' \subseteq {"settings", "filter"}
  BY <1>a DEF Extra!FromFile, Extra!Shapes, Extra!HalfWay
<1>3. Extra!Controls'
  BY <1>1 DEF Extra!Controls, Extra!Applying
<1>4. "settings" \notin x13 => x9[Control].old = x1
  BY <1>a DEF Extra!Present
<1> QED
  BY <1>a, <1>1, <1>2, <1>3, <1>4, ExtraControl, ExtraIdle

\* The control writes the settings and is through, or applies them.
LEMMA ExtraCommits ==
    ASSUME Extra!ExtraInv, NEW new \in Extra!Settings \cup {None}, UNCHANGED <<x2, x5, x6, x7, x8>>,
           x12' \in Nat, x12 <= x12',
           Extra!Commits(new) \/ ("settings" \in x13' /\ x13' = x13 \cup {"settings"} /\ x1' = x1),
           x9' \in [Extra!Actors -> Extra!Jobs], \A b \in Extra!Actors : b # Control => x9'[b] = x9[b],
           \/ x9'[Control] = Extra!Idle
           \/ x9'[Control].at = "apply" /\ x9'[Control].then = "done" /\ x9'[Control].c = new /\ new # None
    PROVE  Extra!ExtraInv'
<1>a. /\ Extra!Shapes /\ Extra!Rounds /\ Extra!InHand /\ Extra!FromFile /\ Extra!Present /\ Extra!Earned /\ Control \in Extra!Actors
  BY DEF Extra!ExtraInv, Extra!Actors
<1>b. /\ x13' \subseteq {"settings", "filter"} /\ ("filter" \in x13' <=> "filter" \in x13)
      /\ x1' \in Extra!Settings \cup {None}
      /\ "settings" \notin x13' =>
           x1' = new /\ (x5 = None \/ Extra!Serves(new)) /\ \A t \in Ticks : x9[t] = Extra!Idle
  BY <1>a DEF Extra!Commits, Extra!Drifts, Extra!Overlaps, Extra!Busy, Extra!Shapes
<1>t. \A t \in Ticks : x9'[t] = x9[t] /\ t \in Extra!Actors
  BY ExtraAssumption DEF Extra!Actors
<1>2. Extra!Shapes'
  BY <1>a, <1>b DEF Extra!Shapes
<1>3. Extra!Rounds'
  BY <1>a, <1>t DEF Extra!Rounds
<1>4. Extra!Controls'
  BY DEF Extra!Controls, Extra!Applying
<1>5. Extra!InHand'
  BY <1>a, ExtraIdle DEF Extra!InHand, Extra!Starting, Extra!Applying
<1>6. Extra!FromFile'
  BY <1>a DEF Extra!FromFile
<1>7. Extra!Present'
  <2> SUFFICES ASSUME "settings" \notin x13' PROVE Extra!Present'
    BY DEF Extra!Present
  <2>1. x5' = None \/ Extra!Serves(x1)'
    BY <1>b DEF Extra!Serves
  <2>2. \A b \in Extra!Actors : b # Control => x9'[b].at = "idle"
    BY <1>b, <1>t, ExtraIdle DEF Extra!Actors
  <2>3. x9'[Control].at \in {"idle", "apply"} /\ (x9'[Control].at = "apply" => x9'[Control].c = x1')
    BY <1>b, ExtraIdle
  <2> QED
    BY <1>a, <2>1, <2>2, <2>3 DEF Extra!Present, Extra!Applying, Extra!Starting
<1>8. Extra!Earned'
  <2>1. Extra!Wrong' <=> Extra!Wrong
    BY DEF Extra!Wrong
  <2>2. \A t \in Ticks : (Extra!Busy(t)' <=> Extra!Busy(t)) /\ (Extra!Ended(t)' <=> Extra!Ended(t))
    BY <1>t DEF Extra!Busy, Extra!Ended
  <2>3. x8.attempts \in Nat /\ x12 \in Nat
    BY <1>a DEF Extra!Shapes
  <2>4. x9'[Control].at \notin Extra!Starting
    BY ExtraIdle DEF Extra!Starting
  <2>5. Extra!Wrong /\ "filter" \notin x13 => x8'.attempts <= x12'
    BY <1>a, <2>3 DEF Extra!Earned
  <2>6. \A t \in Ticks : Extra!Wrong /\ "filter" \notin x13 /\ Extra!Ended(t) => x8'.attempts + 1 <= x12'
    BY <1>a, <2>3 DEF Extra!Earned
  <2> QED
    BY <1>a, <1>b, <1>t, <2>1, <2>2, <2>4, <2>5, <2>6 DEF Extra!Earned, Extra!Starting
<1> QED
  BY <1>2, <1>3, <1>4, <1>5, <1>6, <1>7, <1>8 DEF Extra!ExtraInv

LEMMA ExtraWritten ==
    ASSUME Extra!ExtraInv, Extra!Restore \/ Extra!Forget
    PROVE  Extra!ExtraInv'
<1>a. /\ Extra!Shapes /\ Control \in Extra!Actors /\ x9 \in [Extra!Actors -> Extra!Jobs]
      /\ UNCHANGED <<x2, x5, x6, x7, x8>> /\ x12' \in {x12, x12 + 1}
  BY DEF Extra!ExtraInv, Extra!Restore, Extra!Forget, Extra!device, Extra!slot, Extra!Shapes, Extra!Actors, Extra!Fine, Extra!Faulty, Extra!bounds
<1>b. x12' \in Nat /\ x12 <= x12' /\ x9[Control].old \in Extra!Settings \cup {None}
  BY <1>a DEF Extra!Shapes, Extra!Jobs
<1>1. CASE Extra!Restore
  <2>1. /\ x9' \in [Extra!Actors -> Extra!Jobs] /\ \A b \in Extra!Actors : b # Control => x9'[b] = x9[b]
        /\ \/ x9'[Control] = Extra!Idle
           \/ /\ x9'[Control].at = "apply" /\ x9'[Control].then = "done"
              /\ x9'[Control].c = x9[Control].old /\ x9[Control].old # None
    BY <1>a, <1>1, ExtraReapplies DEF Extra!Restore
  <2>2. Extra!Commits(x9[Control].old) \/ ("settings" \in x13' /\ x13' = x13 \cup {"settings"} /\ x1' = x1)
    BY <1>1 DEF Extra!Restore, Extra!Drifts
  <2>3. PICK new \in Extra!Settings \cup {None} : new = x9[Control].old
    BY <1>b
  <2> QED
    BY <1>a, <1>b, <2>1, <2>2, <2>3, ExtraCommits
<1>2. CASE Extra!Forget /\ Extra!Commits(None) /\ Extra!Sets(Control, Extra!Idle)
  <2>1. /\ x9' \in [Extra!Actors -> Extra!Jobs] /\ \A b \in Extra!Actors : b # Control => x9'[b] = x9[b]
        /\ x9'[Control] = Extra!Idle
    BY <1>a, <1>2, ExtraOne, ExtraIdle DEF Extra!Sets
  <2> QED
    BY <1>a, <1>b, <1>2, <2>1, ExtraCommits
<1> QED
  BY <1>1, <1>2, ExtraForget DEF Extra!Forget

\* The world around.
LEMMA ExtraDevice ==
    ASSUME Extra!ExtraInv, Extra!DeviceChanges
    PROVE  Extra!ExtraInv'
<1>a. /\ Extra!Shapes /\ Extra!Rounds /\ Extra!Controls /\ Extra!InHand /\ Extra!FromFile /\ Extra!Present /\ Extra!Earned
      /\ UNCHANGED <<x1, x5, x6, x7, x8, x9, x12, x13>> /\ x2' \in Filters
  BY DEF Extra!ExtraInv, Extra!DeviceChanges, Extra!Event, Extra!slot, Extra!Shapes
<1>1. (Extra!Serves(x1)' <=> Extra!Serves(x1)) /\ (Extra!HalfWay' <=> Extra!HalfWay)
  BY <1>a DEF Extra!Serves, Extra!HalfWay
<1>2. Extra!Shapes' /\ Extra!Rounds' /\ Extra!Controls' /\ Extra!InHand' /\ Extra!FromFile'
  BY <1>a DEF Extra!Shapes, Extra!Rounds, Extra!Controls, Extra!InHand, Extra!FromFile
<1>3. Extra!Present'
  BY <1>a, <1>1 DEF Extra!Present
<1>4. Extra!Earned'
  BY <1>a DEF Extra!Earned, Extra!Wrong, Extra!Ended, Extra!Busy
<1> QED
  BY <1>2, <1>3, <1>4 DEF Extra!ExtraInv

LEMMA ExtraSuffers ==
    ASSUME Extra!ExtraInv, Extra!ApSuffers
    PROVE  Extra!ExtraInv'
<1>a. /\ Extra!Shapes /\ Extra!Rounds /\ Extra!Controls /\ Extra!InHand /\ Extra!FromFile /\ Extra!Present /\ Extra!Earned
      /\ UNCHANGED <<x1, x2, x6, x8, x9, x12, x13>> /\ x5 # None
      /\ (x5' = None /\ x7' = x7) \/ (x5' = [x5 EXCEPT !.ready = FALSE] /\ x7' \in {x7, "absent"})
  BY DEF Extra!ExtraInv, Extra!ApSuffers, Extra!Event, Extra!device
<1>b. x5 \in [data: Datas, filter: Filters, ready: BOOLEAN]
  BY <1>a DEF Extra!Shapes
<1>c. /\ \/ x5' = None
         \/ /\ x5' \in [data: Datas, filter: Filters, ready: BOOLEAN]
            /\ x5'.data = x5.data /\ x5'.filter = x5.filter /\ x5'.ready = FALSE
      /\ x7' \in {x7, "absent"}
  BY <1>a, <1>b
<1>1. (x5' = None \/ (Extra!Serves(x1)' <=> Extra!Serves(x1))) /\ (Extra!HalfWay' <=> Extra!HalfWay)
  BY <1>a, <1>c DEF Extra!Serves, Extra!HalfWay
<1>2. Extra!Shapes'
  BY <1>a, <1>c DEF Extra!Shapes
<1>3. Extra!Rounds' /\ Extra!Controls' /\ Extra!InHand' /\ Extra!FromFile'
  BY <1>a, <1>c DEF Extra!Rounds, Extra!Controls, Extra!InHand, Extra!FromFile
<1>4. Extra!Present'
  BY <1>a, <1>1 DEF Extra!Present
<1>5. Extra!Wrong' => Extra!Wrong
  BY <1>a, <1>c DEF Extra!Wrong
<1>6. Extra!Earned'
  BY <1>a, <1>5 DEF Extra!Earned, Extra!Ended, Extra!Busy
<1> QED
  BY <1>2, <1>3, <1>4, <1>6 DEF Extra!ExtraInv

LEMMA ExtraEnds ==
    ASSUME Extra!ExtraInv, Extra!Kill \/ Extra!Reboot
    PROVE  Extra!ExtraInv'
<1>a. /\ Extra!Shapes /\ Extra!FromFile /\ Extra!Present /\ UNCHANGED <<x1, x2, x6, x12>>
      /\ x8' = Extra!NoRecord /\ x9' = [a \in Extra!Actors |-> Extra!Idle] /\ Control \in Extra!Actors
      /\ x5' = None \/ (x5' = x5 /\ x7' = x7)
  BY DEF Extra!ExtraInv, Extra!Kill, Extra!Reboot, Extra!Event, Extra!device, Extra!slot, Extra!Actors
<1>b. /\ x13' \subseteq {"settings", "filter"} /\ x13 \subseteq x13'
      /\ "settings" \notin x13' => x5' = None \/ (~Extra!HalfWay /\ x5' = x5)
  BY <1>a DEF Extra!Kill, Extra!Reboot, Extra!Drifts, Extra!Shapes, Extra!slot
<1>c. x7' \in {x7, "absent"}
  BY DEF Extra!Kill, Extra!Reboot, Extra!slot
<1>f. x8' \in [sig: [c: Extra!Settings, filter: Filters] \cup {None}, attempts: Nat] /\ x8'.sig = None
  BY <1>a DEF Extra!NoRecord
<1>1. x9' \in [Extra!Actors -> Extra!Jobs] /\ \A a \in Extra!Actors : x9'[a] = Extra!Idle /\ x9'[a].at = "idle"
  BY <1>a, ExtraIdle
<1>2. Extra!Shapes'
  BY <1>a, <1>b, <1>c, <1>f, <1>1 DEF Extra!Shapes
<1>3. Extra!Rounds' /\ Extra!Controls' /\ Extra!InHand'
  BY <1>a, <1>1 DEF Extra!Rounds, Extra!Controls, Extra!InHand, Extra!Actors, Extra!Starting, Extra!Applying
<1>4. Extra!FromFile'
  BY <1>a DEF Extra!FromFile
<1>5. Extra!Present'
  <2>1. x5' = x5 => (Extra!Serves(x1)' <=> Extra!Serves(x1))
    BY <1>a DEF Extra!Serves
  <2> QED
    BY <1>a, <1>b, <1>1, <2>1 DEF Extra!Present, Extra!Applying, Extra!Starting
<1>6. Extra!Earned'
  BY <1>f, <1>1 DEF Extra!Earned, Extra!Wrong, Extra!Busy, Extra!Actors
<1> QED
  BY <1>2, <1>3, <1>4, <1>5, <1>6 DEF Extra!ExtraInv

LEMMA ExtraStepKept ==
    ASSUME Extra!ExtraInv, Extra!Next
    PROVE  Extra!ExtraInv'
<1>1. ASSUME NEW a \in Extra!Actors, Extra!Apply(a) PROVE Extra!ExtraInv'
  BY <1>1, ExtraDecide, ExtraStop, ExtraAdd, ExtraMark, ExtraRun DEF Extra!Apply
<1>2. ASSUME NEW t \in Ticks, Extra!Tick(t) \/ Extra!Counted(t) \/ Extra!Remove(t) PROVE Extra!ExtraInv'
  BY <1>2, ExtraTick, ExtraCounted, ExtraRemove
<1>3. ASSUME NEW new \in Extra!Settings, Extra!Configure(new) PROVE Extra!ExtraInv'
  BY <1>3, ExtraConfigure
<1> QED
  BY <1>1, <1>2, <1>3, ExtraDelete, ExtraHalt, ExtraSwitch, ExtraJudge, ExtraUndo, ExtraWritten, ExtraDevice,
     ExtraSuffers, ExtraDrop, ExtraEnds DEF Extra!Next

LEMMA ExtraSame ==
    ASSUME Extra!ExtraInv, UNCHANGED Extra!vars
    PROVE  Extra!ExtraInv'
<1>a. UNCHANGED <<x1, x2, x5, x6, x7, x8, x9, x12, x13>>
  BY DEF Extra!vars
<1>1. (Extra!Serves(x1)' <=> Extra!Serves(x1)) /\ (Extra!HalfWay' <=> Extra!HalfWay)
  BY <1>a DEF Extra!Serves, Extra!HalfWay
<1> QED
  BY <1>a, <1>1 DEF Extra!ExtraInv, Extra!Shapes, Extra!Rounds, Extra!Controls, Extra!InHand, Extra!FromFile, Extra!Present, Extra!Earned, Extra!Wrong, Extra!Ended, Extra!Busy

LEMMA ExtraInit == Extra!Init => Extra!ExtraInv
<1> SUFFICES ASSUME Extra!Init PROVE Extra!ExtraInv
  OBVIOUS
<1>1. /\ x1 = None /\ x2 \in Filters /\ x5 = None /\ x6 = None /\ x7 = "absent" /\ x8 = Extra!NoRecord
      /\ x9 = [a \in Extra!Actors |-> Extra!Idle] /\ x12 = 0 /\ x13 = {} /\ Control \in Extra!Actors
  BY DEF Extra!Init, Extra!Actors
<1>2. x8 \in [sig: [c: Extra!Settings, filter: Filters] \cup {None}, attempts: Nat] /\ x8.sig = None
  BY <1>1 DEF Extra!NoRecord
<1>3. x9 \in [Extra!Actors -> Extra!Jobs] /\ \A a \in Extra!Actors : x9[a] = Extra!Idle /\ x9[a].at = "idle"
  BY <1>1, ExtraIdle
<1>4. Extra!Shapes /\ Extra!FromFile
  BY <1>1, <1>2, <1>3 DEF Extra!Shapes, Extra!FromFile
<1>5. Extra!Rounds /\ Extra!Controls /\ Extra!InHand
  BY <1>1, <1>3 DEF Extra!Rounds, Extra!Controls, Extra!InHand, Extra!Actors, Extra!Starting, Extra!Applying
<1>6. Extra!Present
  BY <1>1, <1>3 DEF Extra!Present, Extra!Starting, Extra!Applying
<1>7. Extra!Earned
  BY <1>2, <1>3 DEF Extra!Earned, Extra!Wrong, Extra!Busy, Extra!Actors
<1> QED
  BY <1>4, <1>5, <1>6, <1>7 DEF Extra!ExtraInv

LEMMA ExtraSuffices == Extra!ExtraInv => Extra!ExtraSafe
<1> SUFFICES ASSUME Extra!ExtraInv PROVE Extra!ExtraSafe
  OBVIOUS
<1>1. Extra!ServesSettings
  <2>1. ~Extra!Busy(Control) => ~Extra!HalfWay
    BY ExtraIdle DEF Extra!Busy, Extra!HalfWay
  <2> QED
    BY <2>1 DEF Extra!ServesSettings, Extra!ExtraInv, Extra!Present
<1>2. Extra!FilterFollows
  <2> SUFFICES ASSUME x1 # None, x8.sig = Extra!Signature, x8.attempts >= MaxTries, x12 < MaxTries,
                      "filter" \notin x13, x5 # None
               PROVE  x5.filter = x2
    BY DEF Extra!FilterFollows
  <2>1. x1 \in Extra!Settings /\ x2 \in Filters /\ x8.attempts \in Nat /\ x12 \in Nat
    BY DEF Extra!ExtraInv, Extra!Shapes
  <2>2. x8.sig # None /\ x8.sig.filter = x2
    BY <2>1, ExtraAssumption DEF Extra!Signature
  <2>3. Extra!Wrong => x8.attempts <= x12
    BY DEF Extra!ExtraInv, Extra!Earned
  <2> QED
    BY <2>1, <2>2, <2>3, ExtraAssumption DEF Extra!Wrong
<1> QED
  BY <1>1, <1>2 DEF Extra!ExtraSafe

LEMMA ExtraAtWork ==
    ASSUME live' = "extra", [AllNext]_all
    PROVE  live = "extra" /\ [Extra!Next]_(Extra!vars)
BY DEF AllNext, all, Extra!vars, Extra!device, Extra!slot, Extra!bounds, WatchStep, UciStep, WifiStep, ProbeStep,
       CellsStep, ReaderStep, FanStep, ChargeStep, UpdateStep, ApnStep, IdStep, ExtraStep, Keep0, Keep5, Keep6,
       Keep7, Keep8, Keep10, Keep12, Keep13, Keep14

\* For any settings and filters, any number of rounds and of attempts, any
\* steps that fail and whatever happens around the AP: an AP that runs serves
\* the present settings, and the rounds do not give up on an AP with an old
\* filter (extra_wifi.rs, tick and apply, and control.rs, extra_wifi), where
\* the history says that neither was disturbed.
THEOREM ExtraSafeHolds == AllSpec => []ExtraSafe
<1> DEFINE Inv == live = "extra" => Extra!ExtraInv
<1>1. AllInit => Inv
  BY ExtraInit DEF AllInit
<1>2. Inv /\ [AllNext]_all => Inv'
  <2> SUFFICES ASSUME Inv, [AllNext]_all, live' = "extra" PROVE Extra!ExtraInv'
    OBVIOUS
  <2> QED
    BY ExtraAtWork, ExtraStepKept, ExtraSame
<1>3. Inv => ExtraSafe
  BY ExtraSuffices DEF ExtraSafe
<1> QED
  BY <1>1, <1>2, <1>3, PTL DEF AllSpec

(***************************************************************************)
(* NatProbe: NatTrue from ProbeInv.  Unopened: until the filtering tests   *)
(* are over no socket has sent elsewhere than to its own server, so what   *)
(* comes through (Honest) and what does not (Silences) is the filter's     *)
(* doing; Settled: each view gets its verdict or the main server is asked  *)
(* for one.                                                                *)
(***************************************************************************)

LEMMA ProbeEnds ==
    ASSUME NEW s \in Probe!All
    PROVE  /\ Probe!Primary(s) \in Probe!Endpoints /\ Probe!AlternateIp(s) \in Probe!Endpoints
           /\ Probe!Alternate(s) \in Probe!Endpoints /\ Probe!ChangedPort(s) \in Probe!Endpoints
           /\ Probe!Ip(Probe!Primary(s)) = <<s, "p">> /\ Probe!Ip(Probe!ChangedPort(s)) = <<s, "p">>
           /\ Probe!Ip(Probe!Alternate(s)) = <<s, "a">> /\ Probe!Ip(Probe!AlternateIp(s)) = <<s, "a">>
           /\ Probe!Primary(s)[3] = "p" /\ Probe!ChangedPort(s)[3] = "a"
           /\ Probe!Primary(s)[1] = s
           /\ Probe!Alternate(s) # Probe!Primary(s) /\ Probe!ChangedPort(s) # Probe!Primary(s) /\ Probe!Alternate(s) # Probe!AlternateIp(s)
           /\ <<s, "p">> # <<s, "a">>
BY DEF Probe!Primary, Probe!AlternateIp, Probe!Alternate, Probe!ChangedPort, Probe!Ip, Probe!Endpoints

LEMMA ProbeNone ==
    ASSUME NEW s \in Probe!All
    PROVE  Probe!Primary(s) # None /\ Probe!AlternateIp(s) # None /\ Probe!Alternate(s) # None /\ Probe!ChangedPort(s) # None
BY ProbeEnds, ProbeAssumption

LEMMA ProbeRanks ==
    /\ Probe!Rank("independent") = 1 /\ Probe!Rank("address") = 2 /\ Probe!Rank("address_port") = 3
<1>1. Probe!Behaviours[1] = "independent" /\ Probe!Behaviours[2] = "address" /\ Probe!Behaviours[3] = "address_port"
  BY DEF Probe!Behaviours
<1>2. \A i \in 1 .. 3 : i = 1 \/ i = 2 \/ i = 3
  OBVIOUS
<1> QED
  BY <1>1, <1>2 DEF Probe!Rank

LEMMA ProbePolicies == Probe!FilterKinds = {"independent", "address", "address_port"}
<1>1. Probe!Behaviours[1] = "independent" /\ Probe!Behaviours[2] = "address" /\ Probe!Behaviours[3] = "address_port"
  BY DEF Probe!Behaviours
<1>2. 1 .. 3 = {1, 2, 3}
  OBVIOUS
<1> QED
  BY <1>1, <1>2 DEF Probe!FilterKinds

\* The network and what its filters do in either view.
LEMMA ProbeNet ==
    ASSUME Probe!Shapes
    PROVE  /\ x1.nat \in BOOLEAN /\ x1.filter \in Probe!FilterKinds /\ x1.firewall \in Probe!FilterKinds /\ x1.mapping \in Probe!FilterKinds
           /\ x1.nat = FALSE => x1.mapping = "independent"
           /\ Probe!TrueFilter(TRUE) = (IF x1.nat = TRUE THEN x1.filter ELSE "independent")
           /\ Probe!TrueFilter(TRUE) \in Probe!FilterKinds /\ Probe!TrueFilter(FALSE) \in Probe!FilterKinds
           /\ Probe!TrueFilter(FALSE) = "independent" <=> Probe!TrueFilter(TRUE) = "independent" /\ x1.firewall = "independent"
           /\ Probe!TrueFilter(FALSE) # "address_port" <=> Probe!TrueFilter(TRUE) # "address_port" /\ x1.firewall # "address_port"
<1>1. /\ x1.nat \in BOOLEAN /\ x1.filter \in Probe!FilterKinds /\ x1.firewall \in Probe!FilterKinds /\ x1.mapping \in Probe!FilterKinds
      /\ x1.nat = FALSE => x1.mapping = "independent"
  BY ProbePolicies DEF Probe!Shapes, Probe!Networks
<1>2. Probe!TrueFilter(TRUE) = (IF x1.nat = TRUE THEN x1.filter ELSE "independent")
  BY <1>1 DEF Probe!TrueFilter
<1>3. Probe!TrueFilter(TRUE) \in Probe!FilterKinds
  BY <1>1, <1>2, ProbePolicies
<1>4. Probe!TrueFilter(FALSE) = Probe!Stricter(Probe!TrueFilter(TRUE), x1.firewall)
  BY <1>2 DEF Probe!TrueFilter
<1>5. PICK a \in {"independent", "address", "address_port"} : a = Probe!TrueFilter(TRUE)
  BY <1>3, ProbePolicies
<1>6. PICK b \in {"independent", "address", "address_port"} : b = x1.firewall
  BY <1>1, ProbePolicies
<1>7. /\ Probe!Stricter(a, b) \in {"independent", "address", "address_port"}
      /\ Probe!Stricter(a, b) = "independent" <=> a = "independent" /\ b = "independent"
      /\ Probe!Stricter(a, b) # "address_port" <=> a # "address_port" /\ b # "address_port"
  <2> USE DEF Probe!Stricter
  <2>1. CASE a = "independent"
    BY <2>1, ProbeRanks
  <2>2. CASE a = "address"
    BY <2>2, ProbeRanks
  <2>3. CASE a = "address_port"
    BY <2>3, ProbeRanks
  <2> QED
    BY <2>1, <2>2, <2>3
<1> QED
  BY <1>1, <1>2, <1>3, <1>4, <1>5, <1>6, <1>7, ProbePolicies

\* What reaches a socket that has sent to its own server only.
LEMMA ProbePasses ==
    ASSUME Probe!Shapes, NEW s \in Probe!All
    PROVE  /\ Probe!OnWire(s, Probe!Primary(s), Probe!Primary(s), {Probe!Primary(s)}) /\ Probe!OnSocket(s, Probe!Primary(s), Probe!Primary(s), {Probe!Primary(s)})
           /\ Probe!OnWire(s, Probe!Primary(s), Probe!Alternate(s), {Probe!Primary(s)}) <=> Probe!TrueFilter(TRUE) = "independent"
           /\ Probe!OnSocket(s, Probe!Primary(s), Probe!Alternate(s), {Probe!Primary(s)}) <=> Probe!TrueFilter(FALSE) = "independent"
           /\ Probe!OnWire(s, Probe!Primary(s), Probe!ChangedPort(s), {Probe!Primary(s)}) <=> Probe!TrueFilter(TRUE) # "address_port"
           /\ Probe!OnSocket(s, Probe!Primary(s), Probe!ChangedPort(s), {Probe!Primary(s)}) <=> Probe!TrueFilter(FALSE) # "address_port"
<1>1. {d \in {Probe!Primary(s)} : Probe!Mapped(s, d) = Probe!Mapped(s, Probe!Primary(s))} = {Probe!Primary(s)}
  OBVIOUS
<1>2. ASSUME NEW policy \in Probe!FilterKinds
      PROVE  /\ Probe!Passes(policy, {Probe!Primary(s)}, Probe!Primary(s))
             /\ Probe!Passes(policy, {Probe!Primary(s)}, Probe!Alternate(s)) <=> policy = "independent"
             /\ Probe!Passes(policy, {Probe!Primary(s)}, Probe!ChangedPort(s)) <=> policy # "address_port"
  BY ProbeEnds, ProbePolicies DEF Probe!Passes
<1>3. ASSUME NEW src
      PROVE  Probe!OnWire(s, Probe!Primary(s), src, {Probe!Primary(s)}) <=> x1.nat = FALSE \/ Probe!Passes(x1.filter, {Probe!Primary(s)}, src)
  <2>1. x1.nat \in BOOLEAN
    BY ProbeNet
  <2> QED
    BY <1>1, <2>1 DEF Probe!OnWire
<1>4. ASSUME NEW src
      PROVE  Probe!OnSocket(s, Probe!Primary(s), src, {Probe!Primary(s)})
             <=> Probe!OnWire(s, Probe!Primary(s), src, {Probe!Primary(s)}) /\ Probe!Passes(x1.firewall, {Probe!Primary(s)}, src)
  BY DEF Probe!OnSocket
<1>5. x1.filter \in Probe!FilterKinds /\ x1.firewall \in Probe!FilterKinds /\ x1.nat \in BOOLEAN
  BY ProbeNet
<1>6. /\ Probe!OnWire(s, Probe!Primary(s), Probe!Primary(s), {Probe!Primary(s)})
      /\ Probe!OnWire(s, Probe!Primary(s), Probe!Alternate(s), {Probe!Primary(s)}) <=> Probe!TrueFilter(TRUE) = "independent"
      /\ Probe!OnWire(s, Probe!Primary(s), Probe!ChangedPort(s), {Probe!Primary(s)}) <=> Probe!TrueFilter(TRUE) # "address_port"
  <2>1. /\ Probe!Passes(x1.filter, {Probe!Primary(s)}, Probe!Primary(s))
        /\ Probe!Passes(x1.filter, {Probe!Primary(s)}, Probe!Alternate(s)) <=> x1.filter = "independent"
        /\ Probe!Passes(x1.filter, {Probe!Primary(s)}, Probe!ChangedPort(s)) <=> x1.filter # "address_port"
    BY <1>2, <1>5
  <2>2. Probe!TrueFilter(TRUE) = (IF x1.nat = TRUE THEN x1.filter ELSE "independent")
    BY ProbeNet
  <2> QED
    BY <1>3, <1>5, <2>1, <2>2
<1>7. /\ Probe!Passes(x1.firewall, {Probe!Primary(s)}, Probe!Primary(s))
      /\ Probe!Passes(x1.firewall, {Probe!Primary(s)}, Probe!Alternate(s)) <=> x1.firewall = "independent"
      /\ Probe!Passes(x1.firewall, {Probe!Primary(s)}, Probe!ChangedPort(s)) <=> x1.firewall # "address_port"
  BY <1>2, <1>5
<1>8. /\ Probe!TrueFilter(FALSE) = "independent" <=> Probe!TrueFilter(TRUE) = "independent" /\ x1.firewall = "independent"
      /\ Probe!TrueFilter(FALSE) # "address_port" <=> Probe!TrueFilter(TRUE) # "address_port" /\ x1.firewall # "address_port"
  BY ProbeNet
<1> QED
  BY <1>4, <1>6, <1>7, <1>8

\* The two filtering tests.
LEMMA ProbeBoth ==
    ASSUME Probe!Shapes, NEW s \in Probe!All, x5[s] \subseteq {Probe!Primary(s)}, NEW arrives \in BOOLEAN,
           NEW wire \in BOOLEAN, NEW q, q = Probe!Query(s, Probe!Primary(s), "both", arrives)
    PROVE  /\ q \in Probe!Answers
           /\ Probe!View(q, wire) # None /\ Probe!Ip(Probe!View(q, wire)) # Probe!Ip(Probe!Primary(s)) => Probe!TrueFilter(wire) = "independent"
           /\ arrives = TRUE /\ x2[s].both = "yes" =>
                Probe!View(q, wire) = IF Probe!TrueFilter(wire) = "independent" THEN Probe!Alternate(s) ELSE None
<1>1. x5[s] \cup {Probe!Primary(s)} = {Probe!Primary(s)}
  OBVIOUS
<1>2. Probe!Source(Probe!Primary(s), "both") = Probe!Obeys(x2[s].both, Probe!Alternate(s), Probe!Primary(s))
  BY ProbeEnds DEF Probe!Source
<1>3. PICK src : src = Probe!Obeys(x2[s].both, Probe!Alternate(s), Probe!Primary(s))
  OBVIOUS
<1>4. /\ src \in {Probe!Alternate(s), Probe!Primary(s), None} /\ (x2[s].both = "yes" => src = Probe!Alternate(s))
  BY <1>3 DEF Probe!Obeys
<1>5. q = [wire   |-> IF arrives /\ src # None /\ Probe!OnWire(s, Probe!Primary(s), src, {Probe!Primary(s)}) THEN src ELSE None,
           socket |-> IF arrives /\ src # None /\ Probe!OnSocket(s, Probe!Primary(s), src, {Probe!Primary(s)}) THEN src ELSE None]
  BY <1>1, <1>2, <1>3 DEF Probe!Query
<1>6. /\ q.wire = (IF arrives /\ src # None /\ Probe!OnWire(s, Probe!Primary(s), src, {Probe!Primary(s)}) THEN src ELSE None)
      /\ q.socket = (IF arrives /\ src # None /\ Probe!OnSocket(s, Probe!Primary(s), src, {Probe!Primary(s)}) THEN src ELSE None)
  BY <1>5
<1>7. q \in Probe!Answers
  <2>1. /\ q.wire \in Probe!Endpoints \cup {None} /\ q.socket \in Probe!Endpoints \cup {None}
    BY <1>4, <1>6, ProbeEnds
  <2> QED
    BY <1>5, <1>6, <2>1 DEF Probe!Answers
<1>8. CASE wire = TRUE
  <2>1. Probe!View(q, wire) = q.wire
    BY <1>8 DEF Probe!View
  <2>2. /\ Probe!View(q, wire) \in {src, None}
        /\ src = Probe!Alternate(s) /\ Probe!View(q, wire) = src => Probe!TrueFilter(wire) = "independent"
        /\ src = Probe!Alternate(s) /\ arrives = TRUE =>
             Probe!View(q, wire) = IF Probe!TrueFilter(wire) = "independent" THEN Probe!Alternate(s) ELSE None
    BY <1>6, <1>8, <2>1, ProbePasses, ProbeNone
  <2> QED
    BY <1>4, <1>7, <2>2
<1>9. CASE wire = FALSE
  <2>1. Probe!View(q, wire) = q.socket
    BY <1>9 DEF Probe!View
  <2>2. /\ Probe!View(q, wire) \in {src, None}
        /\ src = Probe!Alternate(s) /\ Probe!View(q, wire) = src => Probe!TrueFilter(wire) = "independent"
        /\ src = Probe!Alternate(s) /\ arrives = TRUE =>
             Probe!View(q, wire) = IF Probe!TrueFilter(wire) = "independent" THEN Probe!Alternate(s) ELSE None
    BY <1>6, <1>9, <2>1, ProbePasses, ProbeNone
  <2> QED
    BY <1>4, <1>7, <2>2
<1> QED
  BY <1>8, <1>9

LEMMA ProbePort ==
    ASSUME Probe!Shapes, NEW s \in Probe!All, x5[s] \subseteq {Probe!Primary(s)}, NEW arrives \in BOOLEAN,
           NEW wire \in BOOLEAN, NEW q, q = Probe!Query(s, Probe!Primary(s), "port", arrives)
    PROVE  /\ q \in Probe!Answers
           /\ Probe!PortVerdict(Probe!View(q, wire), s) = "passed" => Probe!TrueFilter(wire) \in {"independent", "address"}
           /\ arrives = TRUE /\ x2[s].port = "yes" =>
                Probe!View(q, wire) = IF Probe!TrueFilter(wire) = "address_port" THEN None ELSE Probe!ChangedPort(s)
<1>1. x5[s] \cup {Probe!Primary(s)} = {Probe!Primary(s)}
  OBVIOUS
<1>2. Probe!Source(Probe!Primary(s), "port") = Probe!Obeys(x2[s].port, Probe!ChangedPort(s), Probe!Primary(s))
  BY ProbeEnds DEF Probe!Source
<1>3. PICK src : src = Probe!Obeys(x2[s].port, Probe!ChangedPort(s), Probe!Primary(s))
  OBVIOUS
<1>4. /\ src \in {Probe!ChangedPort(s), Probe!Primary(s), None} /\ (x2[s].port = "yes" => src = Probe!ChangedPort(s))
  BY <1>3 DEF Probe!Obeys
<1>5. q = [wire   |-> IF arrives /\ src # None /\ Probe!OnWire(s, Probe!Primary(s), src, {Probe!Primary(s)}) THEN src ELSE None,
           socket |-> IF arrives /\ src # None /\ Probe!OnSocket(s, Probe!Primary(s), src, {Probe!Primary(s)}) THEN src ELSE None]
  BY <1>1, <1>2, <1>3 DEF Probe!Query
<1>6. /\ q.wire = (IF arrives /\ src # None /\ Probe!OnWire(s, Probe!Primary(s), src, {Probe!Primary(s)}) THEN src ELSE None)
      /\ q.socket = (IF arrives /\ src # None /\ Probe!OnSocket(s, Probe!Primary(s), src, {Probe!Primary(s)}) THEN src ELSE None)
  BY <1>5
<1>7. q \in Probe!Answers
  <2>1. /\ q.wire \in Probe!Endpoints \cup {None} /\ q.socket \in Probe!Endpoints \cup {None}
    BY <1>4, <1>6, ProbeEnds
  <2> QED
    BY <1>5, <1>6, <2>1 DEF Probe!Answers
<1>a. Probe!PortVerdict(Probe!Primary(s), s) # "passed" /\ Probe!PortVerdict(None, s) # "passed"
  BY ProbeEnds, ProbeNone DEF Probe!PortVerdict
<1>b. Probe!TrueFilter(wire) \in Probe!FilterKinds
  BY ProbeNet
<1>8. CASE wire = TRUE
  <2>1. Probe!View(q, wire) = q.wire
    BY <1>8 DEF Probe!View
  <2>2. /\ Probe!View(q, wire) \in {src, None}
        /\ src = Probe!ChangedPort(s) /\ Probe!View(q, wire) = src => Probe!TrueFilter(wire) # "address_port"
        /\ src = Probe!ChangedPort(s) /\ arrives = TRUE =>
             Probe!View(q, wire) = IF Probe!TrueFilter(wire) = "address_port" THEN None ELSE Probe!ChangedPort(s)
    BY <1>6, <1>8, <2>1, ProbePasses, ProbeNone
  <2> QED
    BY <1>4, <1>7, <1>a, <1>b, <2>2, ProbePolicies
<1>9. CASE wire = FALSE
  <2>1. Probe!View(q, wire) = q.socket
    BY <1>9 DEF Probe!View
  <2>2. /\ Probe!View(q, wire) \in {src, None}
        /\ src = Probe!ChangedPort(s) /\ Probe!View(q, wire) = src => Probe!TrueFilter(wire) # "address_port"
        /\ src = Probe!ChangedPort(s) /\ arrives = TRUE =>
             Probe!View(q, wire) = IF Probe!TrueFilter(wire) = "address_port" THEN None ELSE Probe!ChangedPort(s)
    BY <1>6, <1>9, <2>1, ProbePasses, ProbeNone
  <2> QED
    BY <1>4, <1>7, <1>a, <1>b, <2>2, ProbePolicies
<1> QED
  BY <1>8, <1>9

\* The mapping tests.
LEMMA ProbeMapped ==
    ASSUME Probe!Shapes, NEW s \in Probe!All, NEW d \in Probe!Endpoints
    PROVE  /\ Probe!Mapped(s, d) # None
           /\ Probe!Mapped(s, d) = (IF x1.nat = FALSE \/ x1.mapping = "independent" THEN <<s>>
                              ELSE IF x1.mapping = "address" THEN <<s, Probe!Ip(d)>> ELSE <<s, d>>)
<1>1. x1.nat \in BOOLEAN
  BY ProbeNet
<1>2. Probe!Mapped(s, d) = (IF x1.nat = FALSE \/ x1.mapping = "independent" THEN <<s>>
                      ELSE IF x1.mapping = "address" THEN <<s, Probe!Ip(d)>> ELSE <<s, d>>)
  BY <1>1 DEF Probe!Mapped
<1>3. Probe!Ip(d) \in Probe!All \X {"p", "a"}
  BY DEF Probe!Ip, Probe!Endpoints
<1>4. <<s>> \in Probe!Mappings /\ <<s, Probe!Ip(d)>> \in Probe!Mappings /\ <<s, d>> \in Probe!Mappings
  BY <1>3 DEF Probe!Mappings
<1> QED
  BY <1>2, <1>4, ProbeAssumption

LEMMA ProbeSecond ==
    ASSUME Probe!Shapes, NEW s \in Probe!All, x1.nat = TRUE
    PROVE  /\ Probe!Mapped(s, Probe!AlternateIp(s)) = Probe!Mapped(s, Probe!Primary(s)) <=> x1.mapping = "independent"
           /\ Probe!Mapped(s, Probe!Alternate(s)) = Probe!Mapped(s, Probe!AlternateIp(s)) <=> x1.mapping # "address_port"
           /\ \A t \in Probe!All : t # s => (Probe!Mapped(s, Probe!Primary(t)) = Probe!Mapped(s, Probe!Primary(s)) <=> x1.mapping = "independent")
<1>1. x1.mapping \in {"independent", "address", "address_port"}
  BY ProbeNet, ProbePolicies
<1>2. ASSUME NEW d \in Probe!Endpoints, NEW e \in Probe!Endpoints
      PROVE  Probe!Mapped(s, d) = Probe!Mapped(s, e)
             <=> x1.mapping = "independent" \/ (x1.mapping = "address" /\ Probe!Ip(d) = Probe!Ip(e)) \/ d = e
  <2>1. Probe!Mapped(s, d) = (IF x1.mapping = "independent" THEN <<s>> ELSE IF x1.mapping = "address" THEN <<s, Probe!Ip(d)>> ELSE <<s, d>>)
    BY ProbeMapped
  <2>2. Probe!Mapped(s, e) = (IF x1.mapping = "independent" THEN <<s>> ELSE IF x1.mapping = "address" THEN <<s, Probe!Ip(e)>> ELSE <<s, e>>)
    BY ProbeMapped
  <2> QED
    BY <2>1, <2>2, <1>1
<1>3. ASSUME NEW t \in Probe!All, t # s PROVE Probe!Primary(t) # Probe!Primary(s) /\ Probe!Ip(Probe!Primary(t)) # Probe!Ip(Probe!Primary(s))
  BY <1>3 DEF Probe!Primary, Probe!Ip
<1>4. Probe!Primary(s) # Probe!AlternateIp(s)
  BY DEF Probe!Primary, Probe!AlternateIp
<1>5. \A t \in Probe!All : t # s => (Probe!Mapped(s, Probe!Primary(t)) = Probe!Mapped(s, Probe!Primary(s)) <=> x1.mapping = "independent")
  BY <1>2, <1>3, ProbeEnds
<1>6. Probe!Mapped(s, Probe!AlternateIp(s)) = Probe!Mapped(s, Probe!Primary(s)) <=> x1.mapping = "independent"
  BY <1>2, <1>4, ProbeEnds
<1>7. Probe!Mapped(s, Probe!Alternate(s)) = Probe!Mapped(s, Probe!AlternateIp(s)) <=> x1.mapping # "address_port"
  BY <1>1, <1>2, ProbeEnds
<1> QED
  BY <1>5, <1>6, <1>7

\* An answer from where the socket has just sent to comes through.
LEMMA ProbeAnswers ==
    ASSUME Probe!Shapes, NEW s \in Probe!All, NEW dest \in Probe!Endpoints, NEW arrives \in BOOLEAN
    PROVE  Probe!Query(s, dest, "none", arrives).socket = IF arrives = TRUE THEN dest ELSE None
<1> DEFINE out == x5[s] \cup {dest}
<1> DEFINE holes == {d \in out : Probe!Mapped(s, d) = Probe!Mapped(s, dest)}
<1>1. dest \in out /\ dest \in holes
  OBVIOUS
<1>2. x1.filter \in Probe!FilterKinds /\ x1.firewall \in Probe!FilterKinds
  BY ProbeNet
<1>3. Probe!Passes(x1.filter, holes, dest) /\ Probe!Passes(x1.firewall, out, dest)
  <2> HIDE DEF out, holes
  <2> QED
    BY <1>1, <1>2, ProbePolicies DEF Probe!Passes
<1>4. Probe!OnSocket(s, dest, dest, out)
  BY <1>3 DEF Probe!OnSocket, Probe!OnWire
<1>5. Probe!Source(dest, "none") = dest /\ dest # None
  BY ProbeAssumption DEF Probe!Source
<1>6. Probe!Query(s, dest, "none", arrives).socket = IF arrives /\ dest # None /\ Probe!OnSocket(s, dest, dest, out) THEN dest ELSE None
  BY <1>5 DEF Probe!Query
<1> QED
  BY <1>4, <1>5, <1>6

\* Steps that leave the filtering tests' answers alone.
LEMMA ProbeKeeps ==
    ASSUME UNCHANGED <<x1, x2, x3, x6, x8, x9>>, x12' = FALSE => x12 = FALSE, Probe!Honest, Probe!Silences,
           x4 \in {"ports", "second", "third", "other", "done"}
    PROVE  Probe!Honest' /\ Probe!Silences'
<1>1. Probe!Main' = Probe!Main /\ (Probe!Good' <=> Probe!Good)
  BY DEF Probe!Main, Probe!Good
<1>2. ASSUME NEW wire \in BOOLEAN
      PROVE  Probe!TrueFilter(wire)' = Probe!TrueFilter(wire) /\ Probe!View(x8, wire)' = Probe!View(x8, wire)
  BY DEF Probe!TrueFilter, Probe!View
<1>3. Probe!Honest'
  BY <1>1, <1>2 DEF Probe!Honest
<1>4. Probe!Silences'
  BY <1>1, <1>2 DEF Probe!Silences
<1> QED
  BY <1>3, <1>4

LEMMA ProbeKinds ==
    ASSUME NEW k \in Probe!ServerKinds
    PROVE  k.alt \in BOOLEAN
<1>1. CASE k \in [alive : {TRUE}, alt : {TRUE}, both : {"yes", "same", "silent"}, port : {"yes", "same", "silent"}]
  <2>1. k.alt \in {TRUE}
    BY <1>1
  <2> QED
    BY <2>1
<1>2. CASE k = [alive |-> FALSE, alt |-> FALSE, both |-> "silent", port |-> "silent"]
  BY <1>2
<1>3. CASE k = [alive |-> TRUE, alt |-> FALSE, both |-> "silent", port |-> "silent"]
  BY <1>3
<1> QED
  BY <1>1, <1>2, <1>3 DEF Probe!ServerKinds

LEMMA ProbeMain ==
    ASSUME Probe!Shapes, x4 \notin {"open", "blocked"}
    PROVE  /\ Probe!Main \in Probe!All /\ x2[Probe!Main] \in Probe!ServerKinds /\ x2[Probe!Main].alt \in BOOLEAN
           /\ Len(x6) \in Nat \ {0} /\ 1 \in DOMAIN x6 /\ DOMAIN x6 = 1 .. Len(x6)
<1>1. x6 \in Seq(Probe!All) /\ x6 # <<>> /\ x2 \in [Probe!All -> Probe!ServerKinds]
  BY DEF Probe!Shapes
<1>2. Len(x6) \in Nat \ {0} /\ DOMAIN x6 = 1 .. Len(x6)
  BY <1>1
<1>3. Probe!Main \in Probe!All
  BY <1>1, <1>2 DEF Probe!Main
<1>4. x2[Probe!Main] \in Probe!ServerKinds
  BY <1>1, <1>3
<1> QED
  BY <1>2, <1>3, <1>4, ProbeKinds

LEMMA ProbeOpen ==
    ASSUME Probe!ProbeInv, Probe!Open
    PROVE  Probe!ProbeInv'
<1>a. /\ Probe!Shapes /\ Probe!Unopened /\ Probe!Fresh /\ x4 = "open" /\ x4' = x4 /\ x7 \in Nat \ {0} /\ x7 <= Len(Servers)
      /\ UNCHANGED <<x1, x2, x3, x8, x9, x10, x11>> /\ x7' = x7 + 1
  BY DEF Probe!ProbeInv, Probe!Open, Probe!fixed, Probe!Shapes
<1>b. PICK arrives \in BOOLEAN :
        /\ Probe!Asked(Servers[x7], Probe!Primary(Servers[x7]), arrives)
        /\ x6' = Append(x6, Servers[x7]) \/ x6' = x6
  BY Zenon DEF Probe!Open
<1>1. PICK s : s = Servers[x7] /\ Probe!Asked(s, Probe!Primary(s), arrives) /\ (x6' = Append(x6, s) \/ x6' = x6)
  BY <1>b
<1>2. s \in Probe!All
  <2>1. x7 \in DOMAIN Servers
    BY <1>a, ProbeAssumption
  <2> QED
    BY <1>1, <2>1 DEF Probe!All
<1>3. x6' \in Seq(Probe!All)
  BY <1>a, <1>1, <1>2 DEF Probe!Shapes
<1>4. x5' = [x5 EXCEPT ![s] = @ \cup {Probe!Primary(s)}] /\ x12' = (x12 \/ ~arrives)
  BY <1>1 DEF Probe!Asked
<1>5. x5 \in [Probe!All -> SUBSET Probe!Endpoints] /\ Probe!Primary(s) \in Probe!Endpoints
  BY <1>a, <1>2, ProbeEnds DEF Probe!Shapes
<1>6. x5' \in [Probe!All -> SUBSET Probe!Endpoints] /\ \A r \in Probe!All : x5'[r] \subseteq {Probe!Primary(r)}
  <2>1. \A r \in Probe!All : x5[r] \subseteq {Probe!Primary(r)}
    BY <1>a DEF Probe!Unopened
  <2> QED
    BY <1>2, <1>4, <1>5, <2>1
<1>7. x12' \in BOOLEAN
  BY <1>4
<1>8. Probe!Shapes'
  BY <1>a, <1>3, <1>6, <1>7 DEF Probe!Shapes
<1>9. Probe!Unopened' /\ Probe!Fresh'
  BY <1>a, <1>6 DEF Probe!Unopened, Probe!Fresh, Probe!View
<1> QED
  BY <1>a, <1>8, <1>9 DEF Probe!ProbeInv

LEMMA ProbeOpened ==
    ASSUME Probe!ProbeInv, Probe!Opened
    PROVE  Probe!ProbeInv'
<1>a. /\ Probe!Shapes /\ Probe!Unopened /\ Probe!Fresh /\ x4 = "open" /\ x7' = 1
      /\ UNCHANGED <<x1, x2, x3, x5, x8, x9, x10, x12>>
  BY DEF Probe!ProbeInv, Probe!Opened, Probe!fixed
<1>1. CASE x4' = "blocked" /\ UNCHANGED <<x6, x11>>
  <2>1. Probe!Shapes'
    BY <1>a, <1>1 DEF Probe!Shapes
  <2> QED
    BY <1>1, <2>1 DEF Probe!ProbeInv, Probe!Unopened, Probe!Fresh
<1>2. CASE x4' # "blocked"
  <2>1. PICK l \in DOMAIN x6 :
          /\ x6' = Probe!Led(l) /\ x11' = (IF x1.nat THEN "unknown" ELSE "independent")
          /\ x4' = Probe!Planned(x6[l])
    BY <1>2 DEF Probe!Opened
  <2>2. x6 \in Seq(Probe!All) /\ Len(x6) \in Nat \ {0} /\ DOMAIN x6 = 1 .. Len(x6)
    BY <1>a DEF Probe!Shapes
  <2>3. \A i \in 1 .. Len(x6) : x6[i] \in Probe!All
    BY <2>2
  <2>4. x6' = [i \in 1 .. Len(x6) |->
           IF i = 1 THEN x6[l] ELSE IF i = l + 1 THEN x6[Len(x6)] ELSE x6[i - 1]]
    BY <2>1, <2>2 DEF Probe!Led
  <2>5. \A i \in 1 .. Len(x6) :
          (IF i = 1 THEN x6[l] ELSE IF i = l + 1 THEN x6[Len(x6)] ELSE x6[i - 1]) \in Probe!All
    BY <2>2, <2>3
  <2>6. x6' \in Seq(Probe!All) /\ x6' # <<>> /\ Probe!Main' = x6[l] /\ x6[l] \in Probe!All
    BY <2>2, <2>3, <2>4, <2>5 DEF Probe!Main
  <2>7. x2[x6[l]].alt \in BOOLEAN /\ x1.nat \in BOOLEAN
    BY <1>a, <2>6, ProbeNet, ProbeKinds DEF Probe!Shapes
  <2>8. \/ x4' = "both" /\ x2[Probe!Main'].alt = TRUE
        \/ x4' = "other" /\ x2[Probe!Main'].alt = FALSE
    BY <2>1, <2>6, <2>7 DEF Probe!Planned
  <2>9. Probe!Shapes'
    BY <1>a, <2>6, <2>8 DEF Probe!Shapes
  <2>10. Probe!Unopened' /\ Probe!Fresh'
    BY <1>a, <2>8 DEF Probe!Unopened, Probe!Fresh, Probe!View
  <2>11. Probe!Honest'
    <3>1. \A wire \in BOOLEAN : Probe!View(x8, wire)' = None
      BY <1>a DEF Probe!Fresh, Probe!View
    <3> QED
      BY <1>a, <3>1 DEF Probe!Honest, Probe!Fresh
  <2>12. Probe!Silences' /\ Probe!Settled'
    BY <1>a, <2>8 DEF Probe!Silences, Probe!Good, Probe!Settled
  <2>13. Probe!MapTrue'
    BY <1>a, <2>1, <2>7, <2>8, ProbeNet DEF Probe!MapTrue
  <2> QED
    BY <2>9, <2>10, <2>11, <2>12, <2>13 DEF Probe!ProbeInv
<1> QED
  BY <1>1, <1>2 DEF Probe!Opened, Probe!Planned

LEMMA ProbeAskBoth ==
    ASSUME Probe!ProbeInv, Probe!AskBoth
    PROVE  Probe!ProbeInv'
<1>a. /\ Probe!Shapes /\ Probe!Unopened /\ Probe!Fresh /\ Probe!Settled /\ Probe!MapTrue /\ x4 = "both" /\ x4' = "ports"
      /\ UNCHANGED <<x1, x2, x3, x6, x7, x9, x10, x11>>
  BY DEF Probe!ProbeInv, Probe!AskBoth, Probe!fixed
<1>1. PICK arrives \in BOOLEAN : x8' = Probe!Query(Probe!Main, Probe!Primary(Probe!Main), "both", arrives) /\ Probe!Asked(Probe!Main, Probe!Primary(Probe!Main), arrives)
  BY DEF Probe!AskBoth
<1>2. Probe!Main \in Probe!All /\ Probe!Main' = Probe!Main /\ x5 \in [Probe!All -> SUBSET Probe!Endpoints] /\ Probe!Primary(Probe!Main) \in Probe!Endpoints
  BY <1>a, ProbeMain, ProbeEnds DEF Probe!Main, Probe!Shapes
<1>3. \A r \in Probe!All : x5[r] \subseteq {Probe!Primary(r)}
  BY <1>a DEF Probe!Unopened
<1>4. PICK q : q = Probe!Query(Probe!Main, Probe!Primary(Probe!Main), "both", arrives)
  OBVIOUS
<1>5. ASSUME NEW wire \in BOOLEAN
      PROVE  /\ q \in Probe!Answers /\ Probe!TrueFilter(wire)' = Probe!TrueFilter(wire) /\ Probe!View(x8, wire)' = Probe!View(q, wire)
             /\ Probe!View(q, wire) # None /\ Probe!Ip(Probe!View(q, wire)) # Probe!Ip(Probe!Primary(Probe!Main)) => Probe!TrueFilter(wire) = "independent"
             /\ arrives = TRUE /\ x2[Probe!Main].both = "yes" =>
                  Probe!View(q, wire) = IF Probe!TrueFilter(wire) = "independent" THEN Probe!Alternate(Probe!Main) ELSE None
  <2>1. Probe!TrueFilter(wire)' = Probe!TrueFilter(wire) /\ Probe!View(x8, wire)' = Probe!View(q, wire)
    BY <1>a, <1>1, <1>4 DEF Probe!TrueFilter, Probe!View
  <2>2. x5[Probe!Main] \subseteq {Probe!Primary(Probe!Main)}
    BY <1>2, <1>3
  <2> QED
    BY <1>a, <1>2, <1>4, <2>1, <2>2, ProbeBoth
<1>6. x5' = [x5 EXCEPT ![Probe!Main] = @ \cup {Probe!Primary(Probe!Main)}] /\ x12' \in BOOLEAN /\ (x12' = FALSE => arrives = TRUE)
  BY <1>1 DEF Probe!Asked
<1>7. x5' \in [Probe!All -> SUBSET Probe!Endpoints] /\ \A r \in Probe!All : x5'[r] \subseteq {Probe!Primary(r)}
  BY <1>2, <1>3, <1>6
<1>8. x8' \in Probe!Answers
  BY <1>1, <1>4, <1>5
<1>9. Probe!Shapes'
  BY <1>a, <1>6, <1>7, <1>8 DEF Probe!Shapes
<1>10. Probe!Unopened' /\ Probe!Fresh'
  BY <1>a, <1>7 DEF Probe!Unopened, Probe!Fresh
<1>11. Probe!Honest' /\ Probe!Silences'
  <2>1. x9' = {}
    BY <1>a DEF Probe!Fresh
  <2>2. Probe!Honest'
    BY <1>2, <1>5, <2>1 DEF Probe!Honest
  <2>3. Probe!Silences'
    BY <1>a, <1>2, <1>5, <1>6, <2>1 DEF Probe!Silences, Probe!Good
  <2> QED
    BY <2>2, <2>3
<1>12. Probe!Settled' /\ Probe!MapTrue'
  BY <1>a, <1>2 DEF Probe!Settled, Probe!MapTrue
<1> QED
  BY <1>9, <1>10, <1>11, <1>12 DEF Probe!ProbeInv

LEMMA ProbeAskPort ==
    ASSUME Probe!ProbeInv, Probe!AskPort
    PROVE  Probe!ProbeInv'
<1>a. /\ Probe!Shapes /\ Probe!Unopened /\ Probe!Honest /\ Probe!Silences /\ Probe!Settled /\ Probe!MapTrue /\ x4 = "ports" /\ x4' = "ports"
      /\ UNCHANGED <<x1, x2, x3, x6, x8, x10, x11>>
  BY DEF Probe!ProbeInv, Probe!AskPort, Probe!fixed
<1>1. PICK arrives \in BOOLEAN, i \in Probe!Askable :
        /\ Probe!First(i, Probe!Askable) /\ x7' = i + 1 /\ Probe!Asked(x6[i], Probe!Primary(x6[i]), arrives)
        /\ x9' = x9 \cup {[server |-> x6[i], seen |-> Probe!Query(x6[i], Probe!Primary(x6[i]), "port", arrives)]}
  BY DEF Probe!AskPort
<1>2. /\ Probe!Main \in Probe!All /\ Probe!Main' = Probe!Main /\ x5 \in [Probe!All -> SUBSET Probe!Endpoints] /\ x6 \in Seq(Probe!All)
      /\ DOMAIN x6 = 1 .. Len(x6) /\ Len(x6) \in Nat \ {0}
  BY <1>a, ProbeMain DEF Probe!Main, Probe!Shapes
<1>3. i \in DOMAIN x6 /\ i \in Nat \ {0} /\ (\A j \in Probe!Askable : i <= j)
  BY <1>1, <1>2 DEF Probe!Askable, Probe!WithAlternate, Probe!First
<1>4. PICK s \in Probe!All : s = x6[i]
  BY <1>2, <1>3
<1>5. PICK q : q = Probe!Query(s, Probe!Primary(s), "port", arrives)
  OBVIOUS
<1>6. \A r \in Probe!All : x5[r] \subseteq {Probe!Primary(r)}
  BY <1>a DEF Probe!Unopened
<1>7. ASSUME NEW wire \in BOOLEAN
      PROVE  /\ q \in Probe!Answers /\ Probe!TrueFilter(wire)' = Probe!TrueFilter(wire) /\ Probe!View(x8, wire)' = Probe!View(x8, wire)
             /\ Probe!PortVerdict(Probe!View(q, wire), s) = "passed" => Probe!TrueFilter(wire) \in {"independent", "address"}
             /\ arrives = TRUE /\ x2[s].port = "yes" =>
                  Probe!View(q, wire) = IF Probe!TrueFilter(wire) = "address_port" THEN None ELSE Probe!ChangedPort(s)
  <2>1. Probe!TrueFilter(wire)' = Probe!TrueFilter(wire) /\ Probe!View(x8, wire)' = Probe!View(x8, wire)
    BY <1>a DEF Probe!TrueFilter, Probe!View
  <2>2. x5[s] \subseteq {Probe!Primary(s)}
    BY <1>6
  <2> QED
    BY <1>a, <1>5, <2>1, <2>2, ProbePort
<1>8. /\ x5' = [x5 EXCEPT ![s] = @ \cup {Probe!Primary(s)}] /\ x12' \in BOOLEAN
      /\ x12' = FALSE => arrives = TRUE /\ x12 = FALSE
  <2>1. x12 \in BOOLEAN
    BY <1>a DEF Probe!Shapes
  <2> QED
    BY <1>1, <1>4, <2>1 DEF Probe!Asked
<1>9. x5' \in [Probe!All -> SUBSET Probe!Endpoints] /\ \A r \in Probe!All : x5'[r] \subseteq {Probe!Primary(r)}
  BY <1>2, <1>6, <1>8, ProbeEnds
<1>10. PICK n : n = [server |-> s, seen |-> q]
  OBVIOUS
<1>11. x9' = x9 \cup {n} /\ n.server = s /\ n.seen = q /\ n \in [server : Probe!All, seen : Probe!Answers]
  BY <1>1, <1>4, <1>5, <1>7, <1>10
<1>12. Probe!Shapes'
  BY <1>a, <1>1, <1>3, <1>8, <1>9, <1>11 DEF Probe!Shapes
<1>13. Probe!Unopened' /\ Probe!Fresh'
  BY <1>a, <1>9 DEF Probe!Unopened, Probe!Fresh
<1>14. Probe!Honest'
  BY <1>a, <1>2, <1>7, <1>11 DEF Probe!Honest
<1>15. Probe!Silences'
  BY <1>a, <1>2, <1>7, <1>8, <1>11 DEF Probe!Silences, Probe!Good
<1>16. Probe!Settled'
  <2>1. x2[Probe!Main].alt = TRUE /\ (x7 = 1 \/ Probe!MainAsked)
    BY <1>a DEF Probe!Settled
  <2>2. CASE x7 = 1
    <3>1. 1 \in Probe!Askable
      BY <1>2, <2>1, <2>2 DEF Probe!Askable, Probe!WithAlternate, Probe!Main
    <3>2. i = 1
      BY <1>3, <3>1
    <3> QED
      BY <1>a, <1>2, <1>4, <1>11, <2>1, <3>2 DEF Probe!Settled, Probe!MainAsked, Probe!Main
  <2>3. CASE Probe!MainAsked
    BY <1>a, <1>2, <1>11, <2>1, <2>3 DEF Probe!Settled, Probe!MainAsked
  <2> QED
    BY <2>1, <2>2, <2>3
<1>17. Probe!MapTrue'
  BY <1>a, <1>2, <1>8 DEF Probe!MapTrue
<1> QED
  BY <1>12, <1>13, <1>14, <1>15, <1>16, <1>17 DEF Probe!ProbeInv

LEMMA ProbeFiltered ==
    ASSUME Probe!ProbeInv, Probe!Filtered
    PROVE  Probe!ProbeInv'
<1>a. /\ Probe!Shapes /\ Probe!Honest /\ Probe!Silences /\ Probe!Settled /\ Probe!MapTrue /\ x4 = "ports"
      /\ x4' = (IF x11 = "unknown" THEN "second" ELSE "done")
      /\ UNCHANGED <<x1, x2, x3, x5, x6, x7, x8, x9, x10, x11, x12>>
  BY DEF Probe!ProbeInv, Probe!Filtered, Probe!fixed
<1>1. Probe!Main \in Probe!All /\ Probe!Main' = Probe!Main /\ 1 \in DOMAIN x6 /\ x2[Probe!Main].alt = TRUE /\ x1.nat \in BOOLEAN
  BY <1>a, ProbeMain, ProbeNet DEF Probe!Main, Probe!Settled
<1>2. Probe!Shapes' /\ Probe!Unopened' /\ Probe!Fresh'
  BY <1>a DEF Probe!Shapes, Probe!Unopened, Probe!Fresh
<1>3. Probe!Honest' /\ Probe!Silences'
  BY <1>a, ProbeKeeps
<1>4. Probe!MainAsked \/ \A wire \in {FALSE, x3} : ~Probe!Undecided(wire)
  <2>1. CASE Probe!Askable = {}
    <3>1. x7 # 1
      BY <1>1, <2>1 DEF Probe!Askable, Probe!WithAlternate, Probe!Main
    <3> QED
      BY <1>a, <3>1 DEF Probe!Settled
  <2>2. CASE ~Probe!Needed
    <3>1. x3 \in BOOLEAN
      BY <1>a DEF Probe!Shapes
    <3> QED
      BY <2>2, <3>1 DEF Probe!Needed
  <2> QED
    BY <2>1, <2>2 DEF Probe!Filtered
<1>5. Probe!Settled'
  <2>1. Probe!MainAsked' = Probe!MainAsked /\ \A wire \in BOOLEAN : Probe!Undecided(wire)' = Probe!Undecided(wire)
    BY <1>a, <1>1 DEF Probe!MainAsked, Probe!Undecided, Probe!View
  <2>2. x3 \in BOOLEAN /\ x3' = x3
    BY <1>a DEF Probe!Shapes
  <2> QED
    BY <1>a, <1>1, <1>4, <2>1, <2>2 DEF Probe!Settled
<1>6. Probe!MapTrue'
  BY <1>a, <1>1, ProbeNet DEF Probe!MapTrue
<1> QED
  BY <1>2, <1>3, <1>5, <1>6 DEF Probe!ProbeInv

\* The mapping tests leave the verdicts of the filtering tests alone.
LEMMA ProbeAsks ==
    ASSUME Probe!ProbeInv, x4 \in {"second", "third", "other"}, x4' \in {"third", "other", "done"},
           NEW dest \in Probe!Endpoints, NEW arrives \in BOOLEAN, Probe!Asked(Probe!Main, dest, arrives),
           UNCHANGED <<x1, x2, x3, x6, x7, x8, x9>>
    PROVE  /\ Probe!Shapes' /\ Probe!Unopened' /\ Probe!Fresh' /\ Probe!Honest' /\ Probe!Silences' /\ Probe!Settled' /\ Probe!Main' = Probe!Main /\ Probe!Main \in Probe!All
           /\ x12' = FALSE => x12 = FALSE /\ arrives = TRUE
<1>a. Probe!Shapes /\ Probe!Honest /\ Probe!Silences /\ Probe!Settled
  BY DEF Probe!ProbeInv
<1>1. Probe!Main \in Probe!All /\ Probe!Main' = Probe!Main /\ x12 \in BOOLEAN /\ x5 \in [Probe!All -> SUBSET Probe!Endpoints] /\ x3 \in BOOLEAN
  BY <1>a, ProbeMain DEF Probe!Main, Probe!Shapes
<1>2. x5' = [x5 EXCEPT ![Probe!Main] = @ \cup {dest}] /\ x12' \in BOOLEAN /\ (x12' = FALSE => x12 = FALSE /\ arrives = TRUE)
  BY <1>1 DEF Probe!Asked
<1>3. x5' \in [Probe!All -> SUBSET Probe!Endpoints]
  BY <1>1, <1>2
<1>4. Probe!Shapes' /\ Probe!Unopened' /\ Probe!Fresh'
  BY <1>a, <1>2, <1>3 DEF Probe!Shapes, Probe!Unopened, Probe!Fresh
<1>5. Probe!Honest' /\ Probe!Silences'
  BY <1>a, <1>2, ProbeKeeps
<1>6. Probe!Settled'
  <2>1. Probe!MainAsked' = Probe!MainAsked /\ \A wire \in BOOLEAN : Probe!Undecided(wire)' = Probe!Undecided(wire)
    BY <1>1 DEF Probe!MainAsked, Probe!Undecided, Probe!View
  <2> QED
    BY <1>a, <1>1, <2>1 DEF Probe!Settled
<1> QED
  BY <1>1, <1>2, <1>4, <1>5, <1>6

LEMMA ProbeAskSecond ==
    ASSUME Probe!ProbeInv, Probe!AskSecond
    PROVE  Probe!ProbeInv'
<1>a. /\ Probe!Shapes /\ Probe!MapTrue /\ x4 = "second" /\ UNCHANGED <<x1, x2, x3, x6, x7, x8, x9>>
  BY DEF Probe!ProbeInv, Probe!AskSecond, Probe!fixed
<1>1. PICK arrives \in BOOLEAN :
        /\ Probe!Asked(Probe!Main, Probe!AlternateIp(Probe!Main), arrives)
        /\ x10' = (IF Probe!Query(Probe!Main, Probe!AlternateIp(Probe!Main), "none", arrives).socket = None THEN None
                      ELSE Probe!Mapped(Probe!Main, Probe!AlternateIp(Probe!Main)))
        /\ x11' = (IF x10' = Probe!Mapped(Probe!Main, Probe!Primary(Probe!Main)) THEN "independent" ELSE x11)
        /\ x4' = (IF x10' = None THEN "other" ELSE IF x11' = "independent" THEN "done" ELSE "third")
  BY DEF Probe!AskSecond
<1>2. Probe!Main \in Probe!All /\ x2[Probe!Main].alt = TRUE /\ x1.nat = TRUE /\ x11 = "unknown"
  BY <1>a, ProbeMain DEF Probe!MapTrue
<1>3. Probe!AlternateIp(Probe!Main) \in Probe!Endpoints /\ Probe!Primary(Probe!Main) \in Probe!Endpoints /\ Probe!AlternateIp(Probe!Main) # None
  BY <1>2, ProbeEnds, ProbeNone
<1>4. /\ Probe!Shapes' /\ Probe!Unopened' /\ Probe!Fresh' /\ Probe!Honest' /\ Probe!Silences' /\ Probe!Settled' /\ Probe!Main' = Probe!Main
      /\ x12' = FALSE => x12 = FALSE /\ arrives = TRUE
  <2>1. x4' \in {"third", "other", "done"}
    BY <1>1
  <2> QED
    BY <1>a, <1>1, <1>3, <2>1, ProbeAsks
<1>5. x10' = IF arrives = TRUE THEN Probe!Mapped(Probe!Main, Probe!AlternateIp(Probe!Main)) ELSE None
  BY <1>a, <1>1, <1>2, <1>3, ProbeAnswers
<1>6. /\ Probe!Mapped(Probe!Main, Probe!AlternateIp(Probe!Main)) # None /\ Probe!Mapped(Probe!Main, Probe!Primary(Probe!Main)) # None
      /\ Probe!Mapped(Probe!Main, Probe!AlternateIp(Probe!Main)) = Probe!Mapped(Probe!Main, Probe!Primary(Probe!Main)) <=> x1.mapping = "independent"
      /\ Probe!Mapped(Probe!Main, Probe!AlternateIp(Probe!Main))' = Probe!Mapped(Probe!Main, Probe!AlternateIp(Probe!Main))
  <2>1. Probe!Mapped(Probe!Main, Probe!AlternateIp(Probe!Main))' = Probe!Mapped(Probe!Main, Probe!AlternateIp(Probe!Main))
    BY <1>a, <1>4 DEF Probe!Mapped, Probe!AlternateIp, Probe!Ip
  <2> QED
    BY <1>a, <1>2, <1>3, <2>1, ProbeMapped, ProbeSecond
<1>7. Probe!MapTrue'
  <2>1. x11 = "independent" => x1.mapping = "independent"
    BY <1>2
  <2>2. CASE arrives = FALSE
    BY <1>a, <1>1, <1>2, <1>4, <1>5, <1>6, <2>1, <2>2 DEF Probe!MapTrue
  <2>3. CASE arrives = TRUE /\ x1.mapping = "independent"
    BY <1>a, <1>1, <1>2, <1>4, <1>5, <1>6, <2>3 DEF Probe!MapTrue
  <2>4. CASE arrives = TRUE /\ x1.mapping # "independent"
    <3>1. x11' = x11 /\ x10' # None /\ x11' # "independent" /\ x4' = "third"
      BY <1>1, <1>5, <1>6, <2>1, <2>4
    <3> QED
      BY <1>a, <1>2, <1>4, <1>5, <1>6, <2>4, <3>1 DEF Probe!MapTrue
  <2> QED
    BY <2>2, <2>3, <2>4
<1> QED
  BY <1>4, <1>7 DEF Probe!ProbeInv

LEMMA ProbeAskThird ==
    ASSUME Probe!ProbeInv, Probe!AskThird
    PROVE  Probe!ProbeInv'
<1>a. /\ Probe!Shapes /\ Probe!MapTrue /\ x4 = "third" /\ x4' = "done"
      /\ UNCHANGED <<x1, x2, x3, x6, x7, x8, x9>>
  BY DEF Probe!ProbeInv, Probe!AskThird, Probe!fixed
<1>1. PICK arrives \in BOOLEAN :
        /\ Probe!Asked(Probe!Main, Probe!Alternate(Probe!Main), arrives)
        /\ x11' = (IF Probe!Query(Probe!Main, Probe!Alternate(Probe!Main), "none", arrives).socket = None THEN "dependent"
                       ELSE IF Probe!Mapped(Probe!Main, Probe!Alternate(Probe!Main)) = x10 THEN "address" ELSE "address_port")
  BY DEF Probe!AskThird
<1>2. /\ Probe!Main \in Probe!All /\ x1.nat = TRUE /\ x1.mapping # "independent" /\ x10 = Probe!Mapped(Probe!Main, Probe!AlternateIp(Probe!Main))
      /\ x1.mapping \in {"independent", "address", "address_port"}
  BY <1>a, ProbeMain, ProbeNet, ProbePolicies DEF Probe!MapTrue
<1>3. Probe!Alternate(Probe!Main) \in Probe!Endpoints /\ Probe!Alternate(Probe!Main) # None
  BY <1>2, ProbeEnds, ProbeNone
<1>4. /\ Probe!Shapes' /\ Probe!Unopened' /\ Probe!Fresh' /\ Probe!Honest' /\ Probe!Silences' /\ Probe!Settled' /\ Probe!Main' = Probe!Main
      /\ x12' = FALSE => x12 = FALSE /\ arrives = TRUE
  BY <1>a, <1>1, <1>3, ProbeAsks
<1>5. /\ arrives = FALSE => x11' = "dependent"
      /\ arrives = TRUE => x11' = IF Probe!Mapped(Probe!Main, Probe!Alternate(Probe!Main)) = x10 THEN "address" ELSE "address_port"
  BY <1>a, <1>1, <1>2, <1>3, ProbeAnswers
<1>6. Probe!Mapped(Probe!Main, Probe!Alternate(Probe!Main)) = x10 <=> x1.mapping # "address_port"
  BY <1>a, <1>2, ProbeSecond
<1>7. x11' = IF arrives = TRUE THEN x1.mapping ELSE "dependent"
  BY <1>2, <1>5, <1>6
<1>8. Probe!MapTrue'
  BY <1>a, <1>2, <1>4, <1>7 DEF Probe!MapTrue
<1> QED
  BY <1>4, <1>8 DEF Probe!ProbeInv

LEMMA ProbeAskOther ==
    ASSUME Probe!ProbeInv, Probe!AskOther
    PROVE  Probe!ProbeInv'
<1>a. /\ Probe!Shapes /\ Probe!Honest /\ Probe!Silences /\ Probe!Settled /\ Probe!MapTrue /\ x4 = "other" /\ x4' = "done"
      /\ UNCHANGED <<x1, x2, x3, x6, x7, x8, x9>>
  BY DEF Probe!ProbeInv, Probe!AskOther, Probe!fixed
<1>1. CASE UNCHANGED <<x5, x12, x11>>
  <2>1. Probe!Shapes' /\ Probe!Unopened' /\ Probe!Fresh' /\ Probe!Main' = Probe!Main
    BY <1>a, <1>1 DEF Probe!Shapes, Probe!Unopened, Probe!Fresh, Probe!Main
  <2>2. Probe!Honest' /\ Probe!Silences'
    BY <1>a, <1>1, ProbeKeeps
  <2>3. Probe!Settled'
    <3>1. Probe!MainAsked' = Probe!MainAsked /\ \A wire \in BOOLEAN : Probe!Undecided(wire)' = Probe!Undecided(wire)
      BY <1>a, <2>1 DEF Probe!MainAsked, Probe!Undecided, Probe!View
    <3>2. x3 \in BOOLEAN
      BY <1>a DEF Probe!Shapes
    <3> QED
      BY <1>a, <2>1, <3>1, <3>2 DEF Probe!Settled
  <2>4. Probe!MapTrue'
    BY <1>a, <1>1, <2>1 DEF Probe!MapTrue
  <2> QED
    BY <2>1, <2>2, <2>3, <2>4 DEF Probe!ProbeInv
<1>2. CASE ~UNCHANGED <<x5, x12, x11>>
  <2>1. PICK arrives \in BOOLEAN, i \in Probe!Others :
          /\ x11 = "unknown" /\ Probe!Asked(Probe!Main, Probe!Primary(x6[i]), arrives)
          /\ x11' = (IF Probe!Query(Probe!Main, Probe!Primary(x6[i]), "none", arrives).socket = None THEN x11
                         ELSE IF Probe!Mapped(Probe!Main, Probe!Primary(x6[i])) = Probe!Mapped(Probe!Main, Probe!Primary(Probe!Main)) THEN "independent"
                         ELSE "dependent")
    BY <1>2 DEF Probe!AskOther
  <2>2. Probe!Main \in Probe!All /\ x6[i] \in Probe!All /\ x6[i] # Probe!Main
    BY <1>a, ProbeMain DEF Probe!Others, Probe!Shapes
  <2>3. PICK t \in Probe!All : t = x6[i] /\ t # Probe!Main
    BY <2>2
  <2>4. Probe!Primary(t) \in Probe!Endpoints /\ Probe!Primary(t) # None
    BY ProbeEnds, ProbeNone
  <2>5. /\ Probe!Shapes' /\ Probe!Unopened' /\ Probe!Fresh' /\ Probe!Honest' /\ Probe!Silences' /\ Probe!Settled' /\ Probe!Main' = Probe!Main
        /\ x12' = FALSE => x12 = FALSE /\ arrives = TRUE
    BY <1>a, <2>1, <2>3, <2>4, ProbeAsks
  <2>6. x1.nat = TRUE
    <3>1. x1.nat \in BOOLEAN /\ (x1.nat = FALSE => x1.mapping = "independent")
      BY <1>a, ProbeNet
    <3> QED
      BY <1>a, <2>1, <3>1 DEF Probe!MapTrue
  <2>7. x11' = x11 \/ (x11' = "independent" /\ x1.mapping = "independent")
        \/ (x11' = "dependent" /\ x1.mapping # "independent")
    BY <1>a, <2>1, <2>2, <2>3, <2>6, ProbeSecond
  <2>8. Probe!MapTrue'
    BY <1>a, <2>5, <2>6, <2>7 DEF Probe!MapTrue
  <2> QED
    BY <2>5, <2>8 DEF Probe!ProbeInv
<1> QED
  BY <1>1, <1>2

LEMMA ProbeSame ==
    ASSUME Probe!ProbeInv, UNCHANGED Probe!vars
    PROVE  Probe!ProbeInv'
<1>a. UNCHANGED <<x1, x2, x3, x4, x5, x6, x7, x8, x9, x10, x11, x12>>
  BY DEF Probe!vars, Probe!fixed
<1>1. Probe!ProbeInv' <=> Probe!ProbeInv
  BY <1>a DEF Probe!ProbeInv, Probe!Shapes, Probe!Unopened, Probe!Fresh, Probe!Honest, Probe!Silences, Probe!Settled, Probe!MapTrue, Probe!Good, Probe!Main, Probe!MainAsked,
              Probe!Undecided, Probe!View, Probe!TrueFilter, Probe!Mapped, Probe!AlternateIp
<1> QED
  BY <1>1

LEMMA ProbeStepKept ==
    ASSUME Probe!ProbeInv, Probe!Next
    PROVE  Probe!ProbeInv'
BY ProbeOpen, ProbeOpened, ProbeAskBoth, ProbeAskPort, ProbeFiltered, ProbeAskSecond, ProbeAskThird, ProbeAskOther,
   ProbeSame DEF Probe!Next, Probe!Ended

LEMMA ProbeInit == Probe!Init => Probe!ProbeInv
<1> SUFFICES ASSUME Probe!Init PROVE Probe!ProbeInv
  OBVIOUS
<1>1. /\ x1 \in Probe!Networks /\ x2 \in [Probe!All -> Probe!ServerKinds] /\ x3 \in BOOLEAN /\ x4 = "open"
      /\ x5 = [s \in Probe!All |-> {}] /\ x6 = <<>> /\ x7 = 1 /\ x9 = {} /\ x12 = FALSE
      /\ x8 = [socket |-> None, wire |-> None]
  BY DEF Probe!Init
<1>2. x8.socket = None /\ x8.wire = None /\ x8 \in Probe!Answers
  BY <1>1 DEF Probe!Answers
<1>3. x5 \in [Probe!All -> SUBSET Probe!Endpoints] /\ x6 \in Seq(Probe!All)
  BY <1>1
<1>4. Probe!Shapes
  <2>a. x12 \in BOOLEAN
    BY <1>1
  <2>1. x7 \in Nat \ {0} /\ x9 \subseteq [server : Probe!All, seen : Probe!Answers]
    BY <1>1
  <2>2. x4 \in {"open", "blocked", "both", "ports", "second", "third", "other", "done"}
    BY <1>1
  <2>3. x1 \in Probe!Networks /\ x2 \in [Probe!All -> Probe!ServerKinds] /\ x3 \in BOOLEAN /\ x4 = "open"
    BY <1>1
  <2> QED
    BY <1>2, <1>3, <2>a, <2>1, <2>2, <2>3 DEF Probe!Shapes
<1>5. Probe!Unopened /\ Probe!Fresh
  BY <1>1, <1>2 DEF Probe!Unopened, Probe!Fresh, Probe!View
<1> QED
  BY <1>1, <1>4, <1>5 DEF Probe!ProbeInv

LEMMA ProbeSuffices == Probe!ProbeInv => Probe!NeverTooOpen /\ Probe!FindsTheNat
<1> SUFFICES ASSUME Probe!ProbeInv, x4 = "done" PROVE Probe!NeverTooOpen /\ Probe!FindsTheNat
  BY DEF Probe!NeverTooOpen, Probe!FindsTheNat
<1>a. Probe!Shapes /\ Probe!Honest /\ Probe!Silences /\ Probe!Settled /\ Probe!MapTrue
  BY DEF Probe!ProbeInv
<1>b. Probe!Main \in Probe!All /\ x2[Probe!Main].alt \in BOOLEAN /\ x3 \in BOOLEAN /\ x12 \in BOOLEAN
  BY <1>a, ProbeMain DEF Probe!Shapes
<1>1. ASSUME NEW wire \in BOOLEAN
      PROVE  /\ Probe!Evaluate(wire) = "independent" => Probe!TrueFilter(wire) = "independent"
             /\ Probe!Evaluate(wire) = "address" => Probe!TrueFilter(wire) \in {"independent", "address"}
             /\ Probe!Evaluate(wire) \in {"unknown", "independent", "address", "address_port"}
  <2>1. /\ Probe!View(x8, wire) # None /\ Probe!Ip(Probe!View(x8, wire)) # Probe!Ip(Probe!Primary(Probe!Main)) => Probe!TrueFilter(wire) = "independent"
        /\ "passed" \in {Probe!PortVerdict(Probe!View(p.seen, wire), p.server) : p \in x9} =>
             Probe!TrueFilter(wire) \in {"independent", "address"}
    BY <1>a DEF Probe!Honest
  <2> QED
    BY <1>b, <2>1 DEF Probe!Evaluate
<1>2. ASSUME NEW wire \in BOOLEAN, Probe!Evaluate(wire) # "unknown"
      PROVE  Probe!Rank(Probe!Evaluate(wire)) >= Probe!Rank(Probe!TrueFilter(wire))
  <2>1. Probe!TrueFilter(wire) \in {"independent", "address", "address_port"}
    BY <1>a, ProbeNet, ProbePolicies
  <2>2. CASE Probe!Evaluate(wire) = "independent"
    BY <1>1, <2>2, ProbeRanks
  <2>3. CASE Probe!Evaluate(wire) = "address"
    BY <1>1, <2>3, ProbeRanks
  <2>4. CASE Probe!Evaluate(wire) = "address_port"
    BY <2>1, <2>4, ProbeRanks
  <2> QED
    BY <1>1, <1>2, <2>2, <2>3, <2>4
<1>3. Probe!NeverTooOpen
  BY <1>a, <1>b, <1>2 DEF Probe!NeverTooOpen, Probe!MapTrue
<1>4. ASSUME x12 = FALSE, Probe!Good, NEW wire \in BOOLEAN, Probe!MainAsked \/ ~Probe!Undecided(wire)
      PROVE  Probe!Evaluate(wire) = Probe!TrueFilter(wire)
  <2> DEFINE verdicts == {Probe!PortVerdict(Probe!View(p.seen, wire), p.server) : p \in x9} \ {"ignored"}
  <2>1. /\ x2[Probe!Main].alt = TRUE
        /\ Probe!View(x8, wire) = IF Probe!TrueFilter(wire) = "independent" THEN Probe!Alternate(Probe!Main) ELSE None
        /\ \A p \in x9 :
             p.server = Probe!Main => Probe!View(p.seen, wire) = IF Probe!TrueFilter(wire) = "address_port" THEN None ELSE Probe!ChangedPort(Probe!Main)
    BY <1>4, <1>a DEF Probe!Silences, Probe!Good
  <2>2. Probe!TrueFilter(wire) \in {"independent", "address", "address_port"}
    BY <1>a, ProbeNet, ProbePolicies
  <2>3. CASE Probe!TrueFilter(wire) = "independent"
    BY <1>b, <2>1, <2>3, ProbeEnds, ProbeNone DEF Probe!Evaluate
  <2>4. CASE Probe!TrueFilter(wire) # "independent" /\ "passed" \in verdicts
    <3>1. Probe!Evaluate(wire) = "address"
      BY <2>1, <2>4 DEF Probe!Evaluate
    <3> QED
      BY <1>1, <2>4, <3>1
  <2>5. CASE Probe!TrueFilter(wire) # "independent" /\ "passed" \notin verdicts
    <3>1. Probe!View(x8, wire) = None /\ \A p \in x9 : Probe!PortVerdict(Probe!View(p.seen, wire), p.server) # "passed"
      BY <2>1, <2>5
    <3>2. PICK p \in x9 : p.server = Probe!Main
      BY <1>4, <3>1 DEF Probe!Undecided, Probe!MainAsked
    <3>3. Probe!PortVerdict(Probe!ChangedPort(Probe!Main), Probe!Main) = "passed" /\ Probe!PortVerdict(None, Probe!Main) = "silent"
      BY <1>b, ProbeEnds, ProbeNone DEF Probe!PortVerdict
    <3>4. Probe!TrueFilter(wire) = "address_port" /\ Probe!PortVerdict(Probe!View(p.seen, wire), p.server) = "silent"
      BY <2>1, <3>1, <3>2, <3>3
    <3>5. \A r \in x9 : Probe!PortVerdict(Probe!View(r.seen, wire), r.server) \in {"silent", "ignored"}
      BY <3>1 DEF Probe!PortVerdict
    <3>6. verdicts = {"silent"}
      BY <3>2, <3>4, <3>5
    <3>7. Probe!Evaluate(wire) = "address_port"
      BY <2>1, <3>1, <3>6, <2>5 DEF Probe!Evaluate
    <3> QED
      BY <3>4, <3>7
  <2> QED
    BY <2>3, <2>4, <2>5
<1>5. Probe!FindsTheNat
  <2> SUFFICES ASSUME x12 = FALSE, Probe!Good
               PROVE  x11 = x1.mapping /\ \A wire \in {FALSE, x3} : Probe!Evaluate(wire) = Probe!TrueFilter(wire)
    BY <1>b DEF Probe!FindsTheNat, Probe!Good
  <2>1. x11 = x1.mapping
    BY <1>a DEF Probe!MapTrue, Probe!Good
  <2>2. \A wire \in {FALSE, x3} : wire \in BOOLEAN /\ (Probe!MainAsked \/ ~Probe!Undecided(wire))
    BY <1>a, <1>b DEF Probe!Settled, Probe!Good
  <2> QED
    BY <1>4, <2>1, <2>2
<1> QED
  BY <1>3, <1>5

LEMMA ProbeAtWork ==
    ASSUME live' = "probe", [AllNext]_all
    PROVE  live = "probe" /\ [Probe!Next]_(Probe!vars)
BY DEF AllNext, all, Probe!vars, Probe!fixed, WatchStep, UciStep, WifiStep, ProbeStep, CellsStep, ReaderStep,
       FanStep, ChargeStep, UpdateStep, ApnStep, IdStep, ExtraStep, Keep0, Keep5, Keep6, Keep7, Keep8, Keep10,
       Keep12, Keep13, Keep14

\* For any servers in any order, whatever each of them ignores or answers, any
\* NAT and firewall and any lost answers: no NAT is reported more open than it
\* is, and with a good leading server and no loss it is found (nat.rs,
\* open_probes, filtering, evaluate, run).
THEOREM NatTrueHolds == AllSpec => []NatTrue
<1> DEFINE Inv == live = "probe" => Probe!ProbeInv
<1>1. AllInit => Inv
  BY ProbeInit DEF AllInit
<1>2. Inv /\ [AllNext]_all => Inv'
  <2> SUFFICES ASSUME Inv, [AllNext]_all, live' = "probe" PROVE Probe!ProbeInv'
    OBVIOUS
  <2> QED
    BY ProbeAtWork, ProbeStepKept, ProbeSame
<1>3. Inv => NatTrue
  BY ProbeSuffices DEF NatTrue
<1> QED
  BY <1>1, <1>2, <1>3, PTL DEF AllSpec

-----------------------------------------------------------------------------
(***************************************************************************)
(* UciControl: every plan the controls have is sound; whoever staged a     *)
(* write owes a commit, a revert or a restore (Owed), which is what leaves *)
(* nothing behind; and while a control runs alone the package is, field by *)
(* field, what the round it is in has made of it (Tracks), which is what   *)
(* its last word is true of.                                               *)
(***************************************************************************)

\* What the controls' plans have in common.
LEMMA UciSound == \A p \in UciPlans : Uci!Sound(p)
<1>1. Uci!Sound(UciKinds!WifiConfigure)
  BY DEF UciKinds!WifiConfigure, Uci!Sound, Uci!PlanShapes
<1>2. Uci!Sound(UciKinds!WifiPower)
  BY DEF UciKinds!WifiConfigure, UciKinds!WifiPower, Uci!Sound, Uci!PlanShapes
<1>3. Uci!Sound(UciKinds!WifiPolicy)
  BY DEF UciKinds!WifiPolicy, Uci!Sound, Uci!PlanShapes
<1>4. Uci!Sound(UciKinds!WirelessConfig)
  BY DEF UciKinds!WirelessConfig, Uci!Sound, Uci!PlanShapes
<1>5. Uci!Sound(UciKinds!MultiwanPolicy)
  BY DEF UciKinds!MultiwanInterface, UciKinds!MultiwanPolicy, Uci!Sound, Uci!PlanShapes
<1> QED
  BY <1>1, <1>2, <1>3, <1>4, <1>5 DEF UciPlans

\* A control at work has all the fields of one.
LEMMA UciAtWorkIsAJob ==
    ASSUME Uci!Shapes, NEW c \in Callers, Uci!Working(c)
    PROVE  /\ x3[c] \in Uci!Jobs /\ Uci!Sound(x3[c].plan)
           /\ DOMAIN x3[c].old = DOMAIN x3[c].want /\ x3[c].todo \subseteq DOMAIN x3[c].want
           /\ DOMAIN x3[c].want \subseteq Fields
           /\ x3[c].want \in [DOMAIN x3[c].want -> Uci!Values] /\ x3[c].old \in [DOMAIN x3[c].want -> Uci!Values]
<1>1. x3[c] \in {Uci!Idle} \cup Uci!Ends \cup Uci!Jobs BY DEF Uci!Shapes
<1>2. x3[c] # Uci!Idle BY DEF Uci!Working, Uci!Idle
<1>3. x3[c] \notin Uci!Ends BY DEF Uci!Working, Uci!Ends
<1>4. x3[c] \in Uci!Jobs BY <1>1, <1>2, <1>3
<1>5. DOMAIN x3[c].old = DOMAIN x3[c].want /\ x3[c].todo \subseteq DOMAIN x3[c].want BY DEF Uci!Shapes
<1>6. x3[c].plan \in UciPlans /\ x3[c].want \in Uci!Requests /\ x3[c].old \in Uci!Requests BY <1>4 DEF Uci!Jobs
<1>7. PICK fs \in SUBSET Fields : x3[c].want \in [fs -> Uci!Values] BY <1>6 DEF Uci!Requests
<1>8. PICK gs \in SUBSET Fields : x3[c].old \in [gs -> Uci!Values] BY <1>6 DEF Uci!Requests
<1>9. DOMAIN x3[c].want = fs /\ DOMAIN x3[c].old = gs BY <1>7, <1>8
<1> QED BY <1>4, <1>5, <1>6, <1>7, <1>8, <1>9, UciSound

\* What one control does, as far as the invariant is concerned: it writes its
\* own record, whoever staged something still owes, and it keeps track.
LEMMA UciOne ==
    ASSUME Uci!UciInv, NEW c \in Callers, Uci!Working(c), NEW j \in Uci!Ends \cup Uci!Jobs,
           x3' = [x3 EXCEPT ![c] = j],
           x1' \in [Fields -> Uci!Values], x2' \in [Fields -> Uci!Values \cup {None}], x6' \in BOOLEAN,
           j.phase # "done" => DOMAIN j.old = DOMAIN j.want /\ j.todo \subseteq DOMAIN j.want,
           \/ x2' = Uci!Nothing \/ x6' = TRUE \/ Uci!Owes(c)'
           \/ x2' = x2 /\ x6' = x6 /\ ~Uci!Owes(c),
           j.alone = TRUE => x3[c].alone = TRUE,
           j.phase # "done" /\ j.alone = TRUE => Uci!Tracks(c)'
    PROVE  Uci!UciInv'
<1> DEFINE J == {Uci!Idle} \cup Uci!Ends \cup Uci!Jobs
<1>1. x3 \in [Callers -> J] BY DEF Uci!UciInv, Uci!Shapes
<1>2. j \in J /\ x3'[c] = j /\ \A d \in Callers : d # c => x3'[d] = x3[d] BY <1>1
<1>3. x3' \in [Callers -> J] BY <1>1, <1>2
<1>4. Uci!Shapes'
  <2>1. ASSUME NEW d \in Callers, Uci!Working(d)'
        PROVE  DOMAIN x3'[d].old = DOMAIN x3'[d].want /\ x3'[d].todo \subseteq DOMAIN x3'[d].want
    <3>1. CASE d = c BY <3>1, <2>1, <1>2 DEF Uci!Working
    <3>2. CASE d # c BY <3>2, <2>1, <1>2 DEF Uci!Working, Uci!UciInv, Uci!Shapes
    <3> QED BY <3>1, <3>2
  <2> QED BY <1>3, <2>1 DEF Uci!Shapes
<1>5. Uci!Owed'
  <2>1. CASE x2' = Uci!Nothing \/ x6' = TRUE \/ Uci!Owes(c)' BY <2>1 DEF Uci!Owed, Uci!Nothing
  <2>2. CASE x2' = x2 /\ x6' = x6 /\ ~Uci!Owes(c)
    <3>1. x2 = Uci!Nothing \/ x6 = TRUE \/ \E d \in Callers : Uci!Owes(d) BY DEF Uci!UciInv, Uci!Owed
    <3>2. CASE x2 = Uci!Nothing \/ x6 = TRUE BY <3>2, <2>2 DEF Uci!Owed, Uci!Nothing
    <3>3. ASSUME NEW d \in Callers, Uci!Owes(d) PROVE Uci!Owed'
      <4>1. d # c /\ x3'[d] = x3[d] BY <3>3, <2>2, <1>2
      <4>2. Uci!Owes(d)' BY <3>3, <4>1 DEF Uci!Owes
      <4> QED BY <4>2 DEF Uci!Owed
    <3> QED BY <3>1, <3>2, <3>3
  <2> QED BY <2>1, <2>2
<1>6. Uci!Alone'
  <2> SUFFICES ASSUME NEW d \in Callers, Uci!Working(d)', x3'[d].alone = TRUE PROVE Uci!Tracks(d)' BY DEF Uci!Alone
  <2>1. CASE d = c BY <2>1, <1>2 DEF Uci!Working
  <2>2. CASE d # c
    <3>1. Uci!Working(d) /\ x3[d].alone = TRUE BY <2>2, <1>2 DEF Uci!Working
    <3>2. Uci!Tracks(d) BY <3>1 DEF Uci!UciInv, Uci!Alone
    <3>3. ~Uci!Working(c) BY <3>2, <2>2 DEF Uci!Tracks
    <3> QED BY <3>3
  <2> QED BY <2>1, <2>2
<1> QED BY <1>4, <1>5, <1>6 DEF Uci!UciInv

\* The control that runs alone stays alone while it is at work.
LEMMA UciStaysAlone ==
    ASSUME Uci!UciInv, NEW c \in Callers, Uci!Working(c), x3[c].alone = TRUE,
           NEW j, x3' = [x3 EXCEPT ![c] = j]
    PROVE  Uci!Tracks(c) /\ \A d \in Callers : d # c => ~Uci!Working(d)'
<1>1. Uci!Tracks(c) BY DEF Uci!UciInv, Uci!Alone
<1>2. \A d \in Callers : d # c => ~Uci!Working(d) BY <1>1 DEF Uci!Tracks
<1>3. \A d \in Callers : d # c => x3'[d] = x3[d] BY DEF Uci!UciInv, Uci!Shapes
<1> QED BY <1>1, <1>2, <1>3 DEF Uci!Working

\* Tracks after a step, in terms of the record the step leaves.
LEMMA UciTracked ==
    ASSUME NEW c \in Callers, NEW j, x3'[c] = j,
           \A d \in Callers : d # c => ~Uci!Working(d)',
           \A f \in DOMAIN j.old : j.old[f] = j.before[f],
           j.phase \in {"stage", "commit"} => \A f \in Fields : f \in j.todo \/ Uci!uci_read(f)' = Uci!Aim(j, f),
           j.phase = "commit" => j.todo = {},
           j.phase \in {"stage", "commit", "revert"} /\ j.plan.rounds = 1 => x1' = j.before,
           j.phase = "revert" => j.plan.rounds = 1,
           j.phase \in {"apply", "verify"} => x2' = Uci!Nothing /\ \A f \in Fields : x1'[f] = Uci!Aim(j, f),
           j.phase = "verify" => Uci!Last(j),
           j.phase = "restore" => \A f \in Fields : f \in j.todo \/ Uci!uci_read(f)' = j.before[f]
    PROVE  Uci!Tracks(c)'
BY DEF Uci!Tracks, Uci!Aim, Uci!Now, Uci!Last, Uci!Nothing

\* A control that ends needs no more than that its writes are accounted for.
LEMMA UciEnds ==
    ASSUME Uci!UciInv, NEW c \in Callers, Uci!Working(c), NEW o \in {"ok", "kept", "failed", "restored", "unrestored", "dropped"},
           Uci!End(c, o),
           x1' \in [Fields -> Uci!Values], x2' \in [Fields -> Uci!Values \cup {None}], x6' \in BOOLEAN,
           \/ x2' = Uci!Nothing \/ x6' = TRUE
           \/ x2' = x2 /\ x6' = x6 /\ ~Uci!Owes(c)
    PROVE  Uci!UciInv'
<1> DEFINE j == [phase |-> "done", outcome |-> o, alone |-> x3[c].alone]
<1>1. x3[c].alone \in BOOLEAN BY UciAtWorkIsAJob DEF Uci!UciInv, Uci!Jobs
<1>2. j \in Uci!Ends BY <1>1 DEF Uci!Ends
<1>3. x3' = [x3 EXCEPT ![c] = j] BY DEF Uci!End
<1>4. j.phase = "done" /\ j.alone = x3[c].alone OBVIOUS
<1> HIDE DEF j
<1> QED BY <1>2, <1>3, <1>4, UciOne

\* Who ends tells of its own work only.
LEMMA UciTells ==
    ASSUME Uci!UciInv, NEW c \in Callers, Uci!Working(c), NEW j \in Uci!Ends \cup Uci!Jobs, x3' = [x3 EXCEPT ![c] = j],
           j.phase = "done" /\ j.alone = TRUE =>
             /\ j.outcome = "ok" => x1' = Uci!Wanted(x3[c]) /\ x2' = Uci!Nothing
             /\ j.outcome \in {"restored", "failed"} => x1' = x3[c].before
    PROVE  Uci!DoneWhole
<1>1. x3'[c] = j /\ \A d \in Callers : d # c => x3'[d] = x3[d] BY DEF Uci!UciInv, Uci!Shapes
<1> SUFFICES ASSUME NEW d \in Callers, Uci!Working(d), x3'[d].phase = "done", x3'[d].alone
             PROVE  /\ x3'[d].outcome = "ok" => x1' = Uci!Wanted(x3[d]) /\ x2' = Uci!Nothing
                    /\ x3'[d].outcome \in {"restored", "failed"} => x1' = x3[d].before
    BY DEF Uci!DoneWhole
<1>2. d = c BY <1>1 DEF Uci!Working
<1>3. j.alone \in BOOLEAN BY DEF Uci!Ends, Uci!Jobs
<1>4. j.alone BY <1>1, <1>2, Zenon
<1>5. j.alone = TRUE BY <1>3, <1>4, Zenon
<1> QED BY <1>1, <1>2, <1>5

\* Both halves, for a control that only moves on.
LEMMA UciMoves ==
    ASSUME Uci!UciInv, NEW c \in Callers, Uci!Working(c), NEW j \in Uci!Jobs, x3' = [x3 EXCEPT ![c] = j],
           x1' \in [Fields -> Uci!Values], x2' \in [Fields -> Uci!Values \cup {None}], x6' = x6,
           DOMAIN j.old = DOMAIN j.want, j.todo \subseteq DOMAIN j.want,
           x2' = Uci!Nothing \/ Uci!Owes(c)' \/ (x2' = x2 /\ ~Uci!Owes(c)),
           j.alone = x3[c].alone,
           j.alone = TRUE => Uci!Tracks(c)'
    PROVE  Uci!UciInv' /\ Uci!DoneWhole
<1>1. x6' \in BOOLEAN BY DEF Uci!UciInv, Uci!Shapes
<1>2. j.phase # "done" BY DEF Uci!Jobs, Uci!Phases
<1>3. Uci!UciInv' BY <1>1, UciOne
<1> QED BY <1>2, <1>3, UciTells

\* Both halves, for a control that ends.
LEMMA UciStops ==
    ASSUME Uci!UciInv, NEW c \in Callers, Uci!Working(c), NEW o \in {"ok", "kept", "failed", "restored", "unrestored", "dropped"},
           Uci!End(c, o),
           x1' \in [Fields -> Uci!Values], x2' \in [Fields -> Uci!Values \cup {None}], x6' \in BOOLEAN,
           \/ x2' = Uci!Nothing \/ x6' = TRUE
           \/ x2' = x2 /\ x6' = x6 /\ ~Uci!Owes(c),
           x3[c].alone = TRUE =>
             /\ o = "ok" => x1' = Uci!Wanted(x3[c]) /\ x2' = Uci!Nothing
             /\ o \in {"restored", "failed"} => x1' = x3[c].before
    PROVE  Uci!UciInv' /\ Uci!DoneWhole
<1> DEFINE j == [phase |-> "done", outcome |-> o, alone |-> x3[c].alone]
<1>1. x3[c].alone \in BOOLEAN BY UciAtWorkIsAJob DEF Uci!UciInv, Uci!Jobs
<1>2. j \in Uci!Ends BY <1>1 DEF Uci!Ends
<1>3. x3' = [x3 EXCEPT ![c] = j] BY DEF Uci!End
<1>4. j.phase = "done" /\ j.outcome = o /\ j.alone = x3[c].alone OBVIOUS
<1> HIDE DEF j
<1>5. Uci!DoneWhole BY <1>2, <1>3, <1>4, UciTells
<1> QED BY <1>5, UciEnds

\* What a step that wrote nothing to the package leaves behind.
LEMMA UciStill ==
    ASSUME Uci!UciInv PROVE
      /\ x1 \in [Fields -> Uci!Values] /\ x2 \in [Fields -> Uci!Values \cup {None}] /\ x6 \in BOOLEAN
      /\ Uci!Nothing \in [Fields -> Uci!Values \cup {None}] /\ Uci!Committed \in [Fields -> Uci!Values]
      /\ \A f \in Fields : Uci!Committed[f] = Uci!uci_read(f) /\ Uci!Nothing[f] = None
BY UciAssumption DEF Uci!UciInv, Uci!Shapes, Uci!Nothing, Uci!Committed, Uci!uci_read

\* A step of a control failed: it takes its writes back or says how it left them.
LEMMA UciFails ==
    ASSUME Uci!UciInv, NEW c \in Callers, Uci!Working(c), NEW how, Uci!Failed(c, how), UNCHANGED <<x1, x2>>,
           \/ x3[c].phase = "stage" /\ how \in x3[c].plan.stage
           \/ x3[c].phase = "commit" /\ how = x3[c].plan.commit
           \/ x3[c].phase = "apply" /\ how = x3[c].plan.apply
           \/ x3[c].phase = "verify" /\ how = x3[c].plan.verify
    PROVE  Uci!UciInv' /\ Uci!DoneWhole
<1> DEFINE p == x3[c].plan
<1>a. /\ x3[c] \in Uci!Jobs /\ Uci!Sound(p)
      /\ DOMAIN x3[c].old = DOMAIN x3[c].want /\ x3[c].todo \subseteq DOMAIN x3[c].want
      /\ DOMAIN x3[c].want \subseteq Fields
    BY UciAtWorkIsAJob DEF Uci!UciInv
<1>b. x1' \in [Fields -> Uci!Values] /\ x2' \in [Fields -> Uci!Values \cup {None}] /\ x6 \in BOOLEAN BY UciStill
<1>c. x3[c].alone = TRUE => Uci!Tracks(c) BY DEF Uci!UciInv, Uci!Alone
<1>1. CASE how = "revert"
  <2> DEFINE j == [x3[c] EXCEPT !.phase = "revert"]
  <2>1. x3' = [x3 EXCEPT ![c] = j] /\ x6' = x6 BY <1>1 DEF Uci!Failed, Uci!Goto
  <2>2. j \in Uci!Jobs BY <1>a DEF Uci!Jobs, Uci!Phases
  <2>3. j.phase = "revert" /\ j.old = x3[c].old /\ j.want = x3[c].want /\ j.todo = x3[c].todo /\ j.alone = x3[c].alone /\ j.plan = p /\ j.before = x3[c].before
      BY <1>a DEF Uci!Jobs
  <2> HIDE DEF j
  <2>4. x3'[c] = j BY <2>1 DEF Uci!UciInv, Uci!Shapes
  <2>5. Uci!Owes(c)' BY <2>3, <2>4 DEF Uci!Owes
  <2>6. x3[c].phase \in {"stage", "commit"} /\ p.rounds = 1 BY <1>1, <1>a DEF Uci!Sound, Uci!PlanShapes
  <2>7. ASSUME j.alone = TRUE PROVE Uci!Tracks(c)'
    <3>1. Uci!Tracks(c) /\ \A d \in Callers : d # c => ~Uci!Working(d)' BY <2>1, <2>3, <2>7, UciStaysAlone
    <3>2. (\A f \in DOMAIN j.old : j.old[f] = j.before[f]) /\ x1' = j.before BY <3>1, <2>3, <2>6 DEF Uci!Tracks
    <3> QED BY <3>1, <3>2, <2>3, <2>4, <2>6, UciTracked
  <2> QED BY <1>a, <1>b, <2>1, <2>2, <2>3, <2>5, <2>7, UciMoves
<1>2. CASE how = "restore"
  <2> DEFINE j == [x3[c] EXCEPT !.phase = "restore", !.todo = DOMAIN x3[c].old]
  <2>1. x3' = [x3 EXCEPT ![c] = j] /\ x6' = x6 BY <1>2 DEF Uci!Failed
  <2>2. j \in Uci!Jobs BY <1>a DEF Uci!Jobs, Uci!Phases
  <2>3. j.phase = "restore" /\ j.old = x3[c].old /\ j.want = x3[c].want /\ j.todo = DOMAIN x3[c].old /\ j.alone = x3[c].alone /\ j.plan = p /\ j.before = x3[c].before
      BY <1>a DEF Uci!Jobs
  <2> HIDE DEF j
  <2>4. x3'[c] = j BY <2>1 DEF Uci!UciInv, Uci!Shapes
  <2>5. Uci!Owes(c)' BY <2>3, <2>4 DEF Uci!Owes
  <2>7. ASSUME j.alone = TRUE PROVE Uci!Tracks(c)'
    <3>1. Uci!Tracks(c) /\ \A d \in Callers : d # c => ~Uci!Working(d)' BY <2>1, <2>3, <2>7, UciStaysAlone
    <3>2. ASSUME NEW f \in Fields, f \notin DOMAIN x3[c].old PROVE Uci!uci_read(f)' = x3[c].before[f]
      <4>1. f \notin x3[c].todo /\ Uci!Aim(x3[c], f) = x3[c].before[f] BY <1>a, <3>2 DEF Uci!Aim
      <4>2. CASE x3[c].phase \in {"stage", "commit"} BY <4>1, <4>2, <3>1 DEF Uci!Tracks, Uci!uci_read
      <4>3. CASE x3[c].phase \in {"apply", "verify"} BY <4>1, <4>3, <3>1 DEF Uci!Tracks, Uci!uci_read, Uci!Nothing
      <4> QED BY <4>2, <4>3
    <3>3. \A f \in DOMAIN j.old : j.old[f] = j.before[f] BY <3>1, <2>3 DEF Uci!Tracks
    <3> QED BY <3>1, <3>2, <3>3, <2>3, <2>4, UciTracked
  <2> QED BY <1>a, <1>b, <2>1, <2>2, <2>3, <2>5, <2>7, UciMoves
<1>3. CASE how = "leave"
  <2>1. Uci!End(c, "failed") /\ x6' = IF x3[c].todo = DOMAIN x3[c].want THEN x6 ELSE TRUE BY <1>3 DEF Uci!Failed
  <2>2. x6' \in BOOLEAN BY <1>b, <2>1, Zenon
  <2>3. x3[c].phase = "stage" /\ "leave" \in p.stage /\ p.rounds = 1 BY <1>3, <1>a DEF Uci!Sound, Uci!PlanShapes
  <2>4. x6' = TRUE \/ (x6' = x6 /\ x3[c].todo = DOMAIN x3[c].want) BY <2>1
  <2>5. x6' = TRUE \/ (x6' = x6 /\ ~Uci!Owes(c)) BY <2>3, <2>4 DEF Uci!Owes
  <2>6. x3[c].alone = TRUE => x1' = x3[c].before BY <1>c, <2>3 DEF Uci!Tracks
  <2> QED BY <1>b, <2>1, <2>2, <2>5, <2>6, UciStops
<1>4. CASE how = "keep"
  <2>1. Uci!End(c, "kept") /\ x6' = x6 BY <1>4 DEF Uci!Failed
  <2>2. x3[c].phase \in {"apply", "verify"} BY <1>4, <1>a DEF Uci!Sound, Uci!PlanShapes
  <2>3. ~Uci!Owes(c) BY <2>2 DEF Uci!Owes
  <2> QED BY <1>b, <2>1, <2>3, UciStops
<1> QED BY <1>1, <1>2, <1>3, <1>4 DEF Uci!Failed

LEMMA UciStageFails == ASSUME Uci!UciInv, NEW c \in Callers, Uci!StageFails(c) PROVE Uci!UciInv' /\ Uci!DoneWhole
<1>1. PICK how \in x3[c].plan.stage : Uci!Failed(c, how) BY DEF Uci!StageFails
<1>2. Uci!Working(c) /\ x3[c].phase = "stage" /\ UNCHANGED <<x1, x2>> BY DEF Uci!StageFails, Uci!Working
<1> QED BY <1>1, <1>2, UciFails

LEMMA UciCommitFails == ASSUME Uci!UciInv, NEW c \in Callers, Uci!CommitFails(c) PROVE Uci!UciInv' /\ Uci!DoneWhole
<1>1. Uci!Working(c) /\ x3[c].phase = "commit" /\ UNCHANGED <<x1, x2>> /\ Uci!Failed(c, x3[c].plan.commit) BY DEF Uci!CommitFails, Uci!Working
<1> QED BY <1>1, UciFails

LEMMA UciApplyFails == ASSUME Uci!UciInv, NEW c \in Callers, Uci!ApplyFails(c) PROVE Uci!UciInv' /\ Uci!DoneWhole
<1>1. Uci!Working(c) /\ x3[c].phase = "apply" /\ UNCHANGED <<x1, x2>> /\ Uci!Failed(c, x3[c].plan.apply) BY DEF Uci!ApplyFails, Uci!Working
<1> QED BY <1>1, UciFails

LEMMA UciStage == ASSUME Uci!UciInv, NEW c \in Callers, Uci!Stage(c) PROVE Uci!UciInv' /\ Uci!DoneWhole
<1>w. Uci!Working(c) /\ x3[c].phase = "stage" BY DEF Uci!Stage, Uci!Working
<1>a. /\ x3[c] \in Uci!Jobs /\ Uci!Sound(x3[c].plan)
      /\ DOMAIN x3[c].old = DOMAIN x3[c].want /\ x3[c].todo \subseteq DOMAIN x3[c].want
      /\ DOMAIN x3[c].want \subseteq Fields /\ x3[c].want \in [DOMAIN x3[c].want -> Uci!Values]
    BY <1>w, UciAtWorkIsAJob DEF Uci!UciInv
<1>b. x1 \in [Fields -> Uci!Values] /\ x2 \in [Fields -> Uci!Values \cup {None}] BY UciStill
<1>1. PICK f \in x3[c].todo :
        /\ x2' = [x2 EXCEPT ![f] = Uci!Now(x3[c], f)]
        /\ x3' = [x3 EXCEPT ![c].todo = @ \ {f}, ![c].phase = IF x3[c].todo = {f} THEN "commit" ELSE "stage"]
    BY DEF Uci!Stage
<1>2. UNCHANGED <<x1, x6>> BY DEF Uci!Stage
<1> DEFINE ph == IF x3[c].todo = {f} THEN "commit" ELSE "stage"
           j == [x3[c] EXCEPT !.todo = @ \ {f}, !.phase = ph]
<1>3. x3' = [x3 EXCEPT ![c] = j] BY <1>1
<1>4. ph \in Uci!Phases /\ x3[c].todo \ {f} \in SUBSET Fields BY <1>a DEF Uci!Phases
<1>5. j \in Uci!Jobs BY <1>a, <1>4 DEF Uci!Jobs
<1>6. /\ j.phase = ph /\ j.todo = x3[c].todo \ {f} /\ j.old = x3[c].old /\ j.want = x3[c].want /\ j.alone = x3[c].alone
      /\ j.plan = x3[c].plan /\ j.before = x3[c].before /\ j.round = x3[c].round
    BY <1>a DEF Uci!Jobs
<1> HIDE DEF j
<1>7. x3'[c] = j BY <1>3 DEF Uci!UciInv, Uci!Shapes
<1>8. f \in DOMAIN x3[c].want /\ f \in Fields BY <1>a
<1>9. Uci!Now(x3[c], f) \in Uci!Values BY <1>a, <1>8 DEF Uci!Now, Uci!Values
<1>10. x2' \in [Fields -> Uci!Values \cup {None}] BY <1>1, <1>9, <1>b
<1>11. Uci!Owes(c)' BY <1>6, <1>7, <1>8 DEF Uci!Owes
<1>12. ASSUME j.alone = TRUE PROVE Uci!Tracks(c)'
  <2>1. Uci!Tracks(c) /\ \A d \in Callers : d # c => ~Uci!Working(d)' BY <1>w, <1>3, <1>6, <1>12, UciStaysAlone
  <2>2. \A e \in DOMAIN j.old : j.old[e] = j.before[e] BY <2>1, <1>6 DEF Uci!Tracks
  <2>3. ASSUME NEW e \in Fields, e \notin j.todo PROVE Uci!uci_read(e)' = Uci!Aim(j, e)
    <3>1. Uci!Aim(j, e) = Uci!Aim(x3[c], e) BY <1>6 DEF Uci!Aim, Uci!Now
    <3>2. CASE e = f
      <4>1. x2'[e] = Uci!Now(x3[c], e) BY <1>1, <1>b, <3>2
      <4>2. x2'[e] # None BY <4>1, <3>2, <1>9, UciAssumption
      <4> QED BY <3>1, <3>2, <4>1, <4>2, <1>8 DEF Uci!Aim, Uci!uci_read
    <3>3. CASE e # f
      <4>1. e \notin x3[c].todo /\ x2'[e] = x2[e] /\ x1' = x1 BY <3>3, <2>3, <1>6, <1>1, <1>2, <1>b
      <4>2. Uci!uci_read(e) = Uci!Aim(x3[c], e) BY <4>1, <2>1, <1>w DEF Uci!Tracks
      <4> QED BY <3>1, <4>1, <4>2 DEF Uci!uci_read
    <3> QED BY <3>2, <3>3
  <2>4. j.plan.rounds = 1 => x1' = j.before BY <2>1, <1>w, <1>2, <1>6 DEF Uci!Tracks
  <2>5. ph = "commit" => j.todo = {} BY <1>6
  <2>6. ph \in {"stage", "commit"} OBVIOUS
  <2> HIDE DEF ph
  <2> QED BY <2>1, <2>2, <2>3, <2>4, <2>5, <2>6, <1>6, <1>7, UciTracked
<1> QED BY <1>w, <1>a, <1>b, <1>2, <1>3, <1>5, <1>6, <1>10, <1>11, <1>12, UciMoves

LEMMA UciCommit == ASSUME Uci!UciInv, NEW c \in Callers, Uci!Commit(c) PROVE Uci!UciInv' /\ Uci!DoneWhole
<1>w. Uci!Working(c) /\ x3[c].phase = "commit" BY DEF Uci!Commit, Uci!Working
<1>a. /\ x3[c] \in Uci!Jobs
      /\ DOMAIN x3[c].old = DOMAIN x3[c].want /\ x3[c].todo \subseteq DOMAIN x3[c].want
    BY <1>w, UciAtWorkIsAJob DEF Uci!UciInv
<1>b. /\ Uci!Nothing \in [Fields -> Uci!Values \cup {None}] /\ Uci!Committed \in [Fields -> Uci!Values]
      /\ \A f \in Fields : Uci!Committed[f] = Uci!uci_read(f)
    BY UciStill
<1> DEFINE j == [x3[c] EXCEPT !.phase = "apply"]
<1>1. x3' = [x3 EXCEPT ![c] = j] /\ x1' = Uci!Committed /\ x2' = Uci!Nothing /\ x6' = x6 BY DEF Uci!Commit, Uci!Goto
<1>2. j \in Uci!Jobs BY <1>a DEF Uci!Jobs, Uci!Phases
<1>3. /\ j.phase = "apply" /\ j.todo = x3[c].todo /\ j.old = x3[c].old /\ j.want = x3[c].want /\ j.alone = x3[c].alone
      /\ j.plan = x3[c].plan /\ j.before = x3[c].before /\ j.round = x3[c].round
    BY <1>a DEF Uci!Jobs
<1> HIDE DEF j
<1>4. x3'[c] = j BY <1>1 DEF Uci!UciInv, Uci!Shapes
<1>5. ASSUME j.alone = TRUE PROVE Uci!Tracks(c)'
  <2>1. Uci!Tracks(c) /\ \A d \in Callers : d # c => ~Uci!Working(d)' BY <1>w, <1>1, <1>3, <1>5, UciStaysAlone
  <2>2. \A e \in DOMAIN j.old : j.old[e] = j.before[e] BY <2>1, <1>3 DEF Uci!Tracks
  <2>3. ASSUME NEW f \in Fields PROVE x1'[f] = Uci!Aim(j, f)
    <3>1. Uci!Aim(j, f) = Uci!Aim(x3[c], f) BY <1>3 DEF Uci!Aim, Uci!Now
    <3>2. Uci!uci_read(f) = Uci!Aim(x3[c], f) BY <2>1, <1>w DEF Uci!Tracks
    <3> QED BY <3>1, <3>2, <1>1, <1>b
  <2> QED BY <2>1, <2>2, <2>3, <1>1, <1>3, <1>4, UciTracked
<1> QED BY <1>w, <1>a, <1>b, <1>1, <1>2, <1>3, <1>5, UciMoves

\* Through with the last round, the package is what was wanted.
LEMMA UciWanted ==
    ASSUME Uci!UciInv, NEW c \in Callers, Uci!Working(c), x3[c].alone = TRUE, x3[c].phase \in {"apply", "verify"}, Uci!Last(x3[c])
    PROVE  x1 = Uci!Wanted(x3[c]) /\ x2 = Uci!Nothing
<1>a. x3[c] \in Uci!Jobs /\ x3[c].plan \in Uci!PlanShapes BY UciAtWorkIsAJob DEF Uci!UciInv, Uci!Sound
<1>b. x1 \in [Fields -> Uci!Values] BY UciStill
<1>1. Uci!Tracks(c) BY DEF Uci!UciInv, Uci!Alone
<1>2. x2 = Uci!Nothing /\ \A f \in Fields : x1[f] = Uci!Aim(x3[c], f) BY <1>1 DEF Uci!Tracks
<1>3. x3[c].round \in {1, 2} /\ x3[c].plan.rounds \in {1, 2} BY <1>a DEF Uci!Jobs, Uci!PlanShapes
<1>4. ASSUME NEW f \in Fields PROVE Uci!Aim(x3[c], f) = Uci!Wanted(x3[c])[f]
  <2>1. CASE f \in DOMAIN x3[c].want
    <3>1. Uci!Now(x3[c], f) = x3[c].want[f] BY <2>1, <1>3 DEF Uci!Last, Uci!Now
    <3> QED BY <2>1, <3>1 DEF Uci!Aim, Uci!Wanted
  <2>2. CASE f \notin DOMAIN x3[c].want BY <2>2 DEF Uci!Aim, Uci!Wanted
  <2> QED BY <2>1, <2>2
<1>5. Uci!Wanted(x3[c]) = [f \in Fields |-> Uci!Wanted(x3[c])[f]] BY DEF Uci!Wanted
<1>6. x1 = [f \in Fields |-> x1[f]] BY <1>b
<1> QED BY <1>2, <1>4, <1>5, <1>6

LEMMA UciApply == ASSUME Uci!UciInv, NEW c \in Callers, Uci!Apply(c) PROVE Uci!UciInv' /\ Uci!DoneWhole
<1>w. Uci!Working(c) /\ x3[c].phase = "apply" /\ ~Uci!Owes(c) BY DEF Uci!Apply, Uci!Working, Uci!Owes
<1>a. /\ x3[c] \in Uci!Jobs /\ x3[c].plan \in Uci!PlanShapes
      /\ DOMAIN x3[c].old = DOMAIN x3[c].want /\ x3[c].todo \subseteq DOMAIN x3[c].want
      /\ DOMAIN x3[c].want \subseteq Fields
    BY <1>w, UciAtWorkIsAJob DEF Uci!UciInv, Uci!Sound
<1>b. x1 \in [Fields -> Uci!Values] /\ x2 \in [Fields -> Uci!Values \cup {None}] /\ x6 \in BOOLEAN BY UciStill
<1>c. UNCHANGED <<x1, x2, x6>> BY DEF Uci!Apply
<1>d. x3[c].round \in {1, 2} /\ x3[c].plan.rounds \in {1, 2} BY <1>a DEF Uci!Jobs, Uci!PlanShapes
<1> DEFINE more == x3[c].round < x3[c].plan.rounds /\ Late \cap DOMAIN x3[c].want # {}
<1>1. CASE more
  <2> DEFINE j == [x3[c] EXCEPT !.round = @ + 1, !.todo = Late \cap DOMAIN x3[c].want, !.phase = "stage"]
  <2>1. x3' = [x3 EXCEPT ![c] = j] BY <1>1 DEF Uci!Apply
  <2>2. x3[c].round + 1 \in {1, 2} /\ Late \cap DOMAIN x3[c].want \in SUBSET Fields /\ "stage" \in Uci!Phases
      BY <1>1, <1>a, <1>d DEF Uci!Phases
  <2>3. j \in Uci!Jobs BY <1>a, <2>2 DEF Uci!Jobs
  <2>4. /\ j.phase = "stage" /\ j.todo = Late \cap DOMAIN x3[c].want /\ j.old = x3[c].old /\ j.want = x3[c].want /\ j.alone = x3[c].alone
        /\ j.plan = x3[c].plan /\ j.before = x3[c].before /\ j.round = x3[c].round + 1
      BY <1>a DEF Uci!Jobs
  <2> HIDE DEF j
  <2>5. x3'[c] = j BY <2>1 DEF Uci!UciInv, Uci!Shapes
  <2>6. ASSUME j.alone = TRUE PROVE Uci!Tracks(c)'
    <3>1. Uci!Tracks(c) /\ \A d \in Callers : d # c => ~Uci!Working(d)' BY <1>w, <2>1, <2>4, <2>6, UciStaysAlone
    <3>2. \A e \in DOMAIN j.old : j.old[e] = j.before[e] BY <3>1, <2>4 DEF Uci!Tracks
    <3>3. ASSUME NEW f \in Fields, f \notin j.todo PROVE Uci!uci_read(f)' = Uci!Aim(j, f)
      <4>1. Uci!Aim(j, f) = Uci!Aim(x3[c], f) BY <3>3, <2>4 DEF Uci!Aim, Uci!Now
      <4>2. x2 = Uci!Nothing /\ x1[f] = Uci!Aim(x3[c], f) BY <3>1, <1>w DEF Uci!Tracks
      <4> QED BY <4>1, <4>2, <1>c DEF Uci!uci_read, Uci!Nothing
    <3>4. j.plan.rounds # 1 BY <1>1, <1>d, <2>4
    <3> QED BY <3>1, <3>2, <3>3, <3>4, <2>4, <2>5, UciTracked
  <2>7. j.todo \subseteq DOMAIN j.want BY <2>4
  <2> QED BY <1>w, <1>a, <1>b, <1>c, <2>1, <2>3, <2>4, <2>6, <2>7, UciMoves
<1>2. CASE ~more /\ x3[c].plan.verify = "none"
  <2>1. Uci!End(c, "ok") BY <1>2 DEF Uci!Apply
  <2>2. Uci!Last(x3[c]) BY <1>2, <1>d DEF Uci!Last
  <2>3. x3[c].alone = TRUE => x1' = Uci!Wanted(x3[c]) /\ x2' = Uci!Nothing BY <1>w, <1>c, <2>2, UciWanted
  <2> QED BY <1>w, <1>b, <1>c, <2>1, <2>3, UciStops
<1>3. CASE ~more /\ x3[c].plan.verify # "none"
  <2> DEFINE j == [x3[c] EXCEPT !.phase = "verify"]
  <2>1. x3' = [x3 EXCEPT ![c] = j] BY <1>3 DEF Uci!Apply, Uci!Goto
  <2>2. j \in Uci!Jobs BY <1>a DEF Uci!Jobs, Uci!Phases
  <2>3. /\ j.phase = "verify" /\ j.todo = x3[c].todo /\ j.old = x3[c].old /\ j.want = x3[c].want /\ j.alone = x3[c].alone
        /\ j.plan = x3[c].plan /\ j.before = x3[c].before /\ j.round = x3[c].round
      BY <1>a DEF Uci!Jobs
  <2> HIDE DEF j
  <2>4. x3'[c] = j BY <2>1 DEF Uci!UciInv, Uci!Shapes
  <2>5. Uci!Last(j) BY <1>3, <1>d, <2>3 DEF Uci!Last
  <2>6. ASSUME j.alone = TRUE PROVE Uci!Tracks(c)'
    <3>1. Uci!Tracks(c) /\ \A d \in Callers : d # c => ~Uci!Working(d)' BY <1>w, <2>1, <2>3, <2>6, UciStaysAlone
    <3>2. \A e \in DOMAIN j.old : j.old[e] = j.before[e] BY <3>1, <2>3 DEF Uci!Tracks
    <3>3. x2' = Uci!Nothing BY <3>1, <1>c, <1>w DEF Uci!Tracks
    <3>4. ASSUME NEW f \in Fields PROVE x1'[f] = Uci!Aim(j, f)
      <4>1. Uci!Aim(j, f) = Uci!Aim(x3[c], f) BY <2>3 DEF Uci!Aim, Uci!Now
      <4> QED BY <4>1, <3>1, <1>c, <1>w DEF Uci!Tracks
    <3> QED BY <3>1, <3>2, <3>3, <3>4, <2>3, <2>4, <2>5, UciTracked
  <2> QED BY <1>w, <1>a, <1>b, <1>c, <2>1, <2>2, <2>3, <2>6, UciMoves
<1> QED BY <1>1, <1>2, <1>3

LEMMA UciVerify == ASSUME Uci!UciInv, NEW c \in Callers, Uci!Verify(c) PROVE Uci!UciInv' /\ Uci!DoneWhole
<1>w. Uci!Working(c) /\ x3[c].phase = "verify" /\ ~Uci!Owes(c) /\ UNCHANGED <<x1, x2>> BY DEF Uci!Verify, Uci!Working, Uci!Owes
<1>b. x1 \in [Fields -> Uci!Values] /\ x2 \in [Fields -> Uci!Values \cup {None}] /\ x6 \in BOOLEAN BY UciStill
<1>1. CASE Uci!End(c, "ok") /\ UNCHANGED x6
  <2>1. ASSUME x3[c].alone = TRUE PROVE x1' = Uci!Wanted(x3[c]) /\ x2' = Uci!Nothing
    <3>1. Uci!Last(x3[c]) BY <1>w, <2>1 DEF Uci!UciInv, Uci!Alone, Uci!Tracks
    <3> QED BY <3>1, <2>1, <1>w, UciWanted
  <2> QED BY <1>1, <1>w, <1>b, <2>1, UciStops
<1>2. CASE Uci!Failed(c, x3[c].plan.verify) BY <1>2, <1>w, UciFails
<1> QED BY <1>1, <1>2 DEF Uci!Verify

LEMMA UciRevert == ASSUME Uci!UciInv, NEW c \in Callers, Uci!Revert(c) PROVE Uci!UciInv' /\ Uci!DoneWhole
<1>w. Uci!Working(c) /\ x3[c].phase = "revert" /\ Uci!End(c, "failed") /\ x1' = x1 BY DEF Uci!Revert, Uci!Working
<1>b. /\ x1 \in [Fields -> Uci!Values] /\ x2 \in [Fields -> Uci!Values \cup {None}] /\ x6 \in BOOLEAN
      /\ Uci!Nothing \in [Fields -> Uci!Values \cup {None}]
    BY UciStill
<1>1. (x2' = Uci!Nothing /\ x6' = x6) \/ (x6' = TRUE /\ x2' = x2) BY DEF Uci!Revert
<1>2. x6' \in BOOLEAN /\ x2' \in [Fields -> Uci!Values \cup {None}] BY <1>1, <1>b
<1>3. x3[c].alone = TRUE => x1 = x3[c].before BY <1>w DEF Uci!UciInv, Uci!Alone, Uci!Tracks
<1> QED BY <1>w, <1>b, <1>1, <1>2, <1>3, UciStops

LEMMA UciDropped == ASSUME Uci!UciInv, NEW c \in Callers, Uci!Dropped(c) PROVE Uci!UciInv' /\ Uci!DoneWhole
<1>b. x1 \in [Fields -> Uci!Values] /\ x2 \in [Fields -> Uci!Values \cup {None}] BY UciStill
<1> QED BY <1>b, UciStops DEF Uci!Dropped

LEMMA UciRestore == ASSUME Uci!UciInv, NEW c \in Callers, Uci!Restore(c) PROVE Uci!UciInv' /\ Uci!DoneWhole
<1>w. Uci!Working(c) /\ x3[c].phase = "restore" BY DEF Uci!Restore, Uci!Working
<1>a. /\ x3[c] \in Uci!Jobs
      /\ DOMAIN x3[c].old = DOMAIN x3[c].want /\ x3[c].todo \subseteq DOMAIN x3[c].want
      /\ DOMAIN x3[c].want \subseteq Fields /\ x3[c].old \in [DOMAIN x3[c].want -> Uci!Values]
    BY <1>w, UciAtWorkIsAJob DEF Uci!UciInv
<1>b. /\ x1 \in [Fields -> Uci!Values] /\ x2 \in [Fields -> Uci!Values \cup {None}] /\ x6 \in BOOLEAN
      /\ Uci!Nothing \in [Fields -> Uci!Values \cup {None}] /\ Uci!Committed \in [Fields -> Uci!Values]
      /\ \A f \in Fields : Uci!Committed[f] = Uci!uci_read(f)
    BY UciStill
<1>1. ASSUME NEW f \in x3[c].todo, x2' = [x2 EXCEPT ![f] = Uci!Old(c, f)],
             x3' = [x3 EXCEPT ![c].todo = @ \ {f}], UNCHANGED <<x1, x5, x6>>
      PROVE  Uci!UciInv' /\ Uci!DoneWhole
  <2> DEFINE j == [x3[c] EXCEPT !.todo = @ \ {f}]
  <2>1. x3' = [x3 EXCEPT ![c] = j] BY <1>1
  <2>2. x3[c].todo \ {f} \in SUBSET Fields BY <1>a
  <2>3. j \in Uci!Jobs BY <1>a, <2>2 DEF Uci!Jobs
  <2>4. /\ j.phase = "restore" /\ j.todo = x3[c].todo \ {f} /\ j.old = x3[c].old /\ j.want = x3[c].want /\ j.alone = x3[c].alone
        /\ j.plan = x3[c].plan /\ j.before = x3[c].before /\ j.round = x3[c].round
      BY <1>a, <1>w DEF Uci!Jobs
  <2> HIDE DEF j
  <2>5. x3'[c] = j BY <2>1 DEF Uci!UciInv, Uci!Shapes
  <2>6. f \in Fields /\ f \in DOMAIN x3[c].old /\ Uci!Old(c, f) \in Uci!Values BY <1>a DEF Uci!Old
  <2>7. x2' \in [Fields -> Uci!Values \cup {None}] BY <1>1, <1>b, <2>6
  <2>8. Uci!Owes(c)' BY <2>4, <2>5 DEF Uci!Owes
  <2>9. ASSUME j.alone = TRUE PROVE Uci!Tracks(c)'
    <3>1. Uci!Tracks(c) /\ \A d \in Callers : d # c => ~Uci!Working(d)' BY <1>w, <2>1, <2>4, <2>9, UciStaysAlone
    <3>2. \A e \in DOMAIN j.old : j.old[e] = j.before[e] BY <3>1, <2>4 DEF Uci!Tracks
    <3>3. ASSUME NEW e \in Fields, e \notin j.todo PROVE Uci!uci_read(e)' = j.before[e]
      <4>1. CASE e = f
        <5>1. x2'[e] = Uci!Old(c, f) BY <4>1, <1>1, <1>b
        <5>2. x2'[e] # None BY <5>1, <2>6, UciAssumption
        <5> QED BY <4>1, <5>1, <5>2, <2>6, <2>4, <3>2 DEF Uci!uci_read, Uci!Old
      <4>2. CASE e # f
        <5>1. e \notin x3[c].todo /\ x2'[e] = x2[e] /\ x1' = x1 BY <4>2, <3>3, <2>4, <1>1, <1>b
        <5>2. Uci!uci_read(e) = x3[c].before[e] BY <5>1, <3>1, <1>w DEF Uci!Tracks
        <5> QED BY <5>1, <5>2, <2>4 DEF Uci!uci_read
      <4> QED BY <4>1, <4>2
    <3> QED BY <3>1, <3>2, <3>3, <2>4, <2>5, UciTracked
  <2>10. j.todo \subseteq DOMAIN j.want BY <2>4, <1>a
  <2> QED BY <1>w, <1>a, <1>b, <1>1, <2>1, <2>3, <2>4, <2>7, <2>8, <2>9, <2>10, UciMoves
<1>2. CASE x3[c].todo = {} /\ x1' = Uci!Committed /\ x2' = Uci!Nothing /\ Uci!End(c, "restored") /\ x6' = x6
  <2>1. ASSUME x3[c].alone = TRUE PROVE x1' = x3[c].before
    <3>1. Uci!Tracks(c) BY <2>1, <1>w DEF Uci!UciInv, Uci!Alone
    <3>2. \A f \in Fields : x1'[f] = x3[c].before[f] BY <3>1, <1>2, <1>w, <1>b DEF Uci!Tracks
    <3>3. x3[c].before \in [Fields -> Uci!Values] BY <1>a DEF Uci!Jobs
    <3> QED BY <3>2, <3>3, <1>2, <1>b
  <2> QED BY <1>2, <1>w, <1>b, <2>1, UciStops
<1>3. CASE x6' = TRUE /\ Uci!End(c, "unrestored") /\ UNCHANGED <<x1, x2>>
  BY <1>3, <1>w, <1>b, UciStops
<1> QED BY <1>1, <1>2, <1>3 DEF Uci!Restore

\* The first round's share: what it does not write is as it should be.
LEMMA UciFirst ==
    ASSUME NEW p \in UciPlans, NEW fs \in SUBSET Fields, NEW ws \in SUBSET fs
    PROVE  /\ Uci!FirstRound(p, fs, ws).todo \subseteq fs /\ ws \subseteq Uci!FirstRound(p, fs, ws).todo
           /\ Uci!FirstRound(p, fs, ws).n \in {1, 2}
           /\ Uci!FirstRound(p, fs, ws).n < p.rounds => fs \cap Late \subseteq Uci!FirstRound(p, fs, ws).todo
<1>1. Uci!Sound(p) BY UciSound
<1>2. p.rounds \in {1, 2} BY <1>1 DEF Uci!Sound, Uci!PlanShapes
<1> QED BY <1>2 DEF Uci!FirstRound

LEMMA UciBegin == ASSUME Uci!UciInv, NEW c \in Callers, Uci!Begin(c) PROVE Uci!UciInv' /\ Uci!DoneWhole
<1> DEFINE How(p, fs, w) ==
        LET ws == IF p.skips THEN {f \in fs : Uci!uci_read(f) # w[f]} ELSE fs
            first == Uci!FirstRound(p, fs, ws)
            alone == (\A d \in Callers : ~Uci!Working(d)) /\ x2 = Uci!Nothing
        IN  x3' = [d \in Callers |->
              IF d = c
              THEN IF ws = {} THEN [phase |-> "done", outcome |-> "same", alone |-> alone]
                   ELSE [phase |-> "stage", plan |-> p, want |-> w, todo |-> first.todo, round |-> first.n,
                         old |-> [f \in fs |-> Uci!uci_read(f)], before |-> x1, alone |-> alone]
              ELSE IF Uci!Working(d) THEN [x3[d] EXCEPT !.alone = FALSE] ELSE x3[d]]
<1>0. PICK p \in UciPlans, fs \in (SUBSET Fields) \ {{}} : \E w \in [fs -> Vals] : How(p, fs, w)
    BY Zenon DEF Uci!Begin
<1>1. PICK w \in [fs -> Vals] : How(p, fs, w) BY <1>0
<1> DEFINE ws == IF p.skips THEN {f \in fs : Uci!uci_read(f) # w[f]} ELSE fs
           first == Uci!FirstRound(p, fs, ws)
           alone == (\A d \in Callers : ~Uci!Working(d)) /\ x2 = Uci!Nothing
           old == [f \in fs |-> Uci!uci_read(f)]
           same == [phase |-> "done", outcome |-> "same", alone |-> alone]
           new == [phase |-> "stage", plan |-> p, want |-> w, todo |-> first.todo, round |-> first.n,
                   old |-> old, before |-> x1, alone |-> alone]
           mine == IF ws = {} THEN same ELSE new
           J == {Uci!Idle} \cup Uci!Ends \cup Uci!Jobs
<1>2. ~Uci!Working(c) /\ UNCHANGED <<x1, x2, x6>> BY DEF Uci!Begin
<1>3. x3' = [d \in Callers |-> IF d = c THEN mine ELSE IF Uci!Working(d) THEN [x3[d] EXCEPT !.alone = FALSE] ELSE x3[d]]
    BY <1>1, Zenon
<1>4. alone \in BOOLEAN BY Zenon
<1>5. /\ x1 \in [Fields -> Uci!Values] /\ x2 \in [Fields -> Uci!Values \cup {None}] /\ x6 \in BOOLEAN
      /\ x3 \in [Callers -> J]
    BY DEF Uci!UciInv, Uci!Shapes
<1>6. ws \subseteq fs /\ fs \subseteq Fields OBVIOUS
<1>7. first.todo \subseteq fs /\ ws \subseteq first.todo /\ first.n \in {1, 2} /\ (first.n < p.rounds => fs \cap Late \subseteq first.todo)
    BY <1>6, UciFirst
<1>8. w \in [fs -> Uci!Values] /\ old \in [fs -> Uci!Values] BY <1>5, <1>6 DEF Uci!uci_read, Uci!Values
<1>9. w \in Uci!Requests /\ old \in Uci!Requests BY <1>6, <1>8 DEF Uci!Requests
<1>10. alone = TRUE => x2 = Uci!Nothing /\ \A d \in Callers : ~Uci!Working(d) BY Zenon
<1>11. ASSUME NEW f \in fs, f \notin ws PROVE Uci!uci_read(f) = w[f] BY <1>11
<1> HIDE DEF alone, ws, first, old
<1>12. same \in Uci!Ends BY <1>4 DEF Uci!Ends
<1>13. new \in Uci!Jobs BY <1>4, <1>5, <1>6, <1>7, <1>9 DEF Uci!Jobs, Uci!Phases
<1>14. mine \in J BY <1>12, <1>13
<1>15. /\ new.phase = "stage" /\ new.plan = p /\ new.want = w /\ new.todo = first.todo /\ new.round = first.n
       /\ new.old = old /\ new.before = x1 /\ new.alone = alone
    OBVIOUS
<1>16. same.phase = "done" OBVIOUS
<1>17. mine = same \/ mine = new OBVIOUS
<1> HIDE DEF same, new, mine
<1>18. x3'[c] = mine BY <1>3
<1>19. ASSUME NEW d \in Callers, d # c
       PROVE  x3'[d] \in J /\ (Uci!Working(d) => x3[d] \in Uci!Jobs /\ x3'[d] = [x3[d] EXCEPT !.alone = FALSE]) /\ (~Uci!Working(d) => x3'[d] = x3[d])
  <2>1. CASE ~Uci!Working(d) BY <1>3, <1>5, <1>19, <2>1
  <2>2. CASE Uci!Working(d)
    <3>1. x3[d] \in Uci!Jobs BY <2>2, UciAtWorkIsAJob DEF Uci!UciInv
    <3>2. x3'[d] = [x3[d] EXCEPT !.alone = FALSE] BY <1>3, <1>19, <2>2
    <3>3. [x3[d] EXCEPT !.alone = FALSE] \in Uci!Jobs BY <3>1 DEF Uci!Jobs
    <3> QED BY <2>2, <3>1, <3>2, <3>3
  <2> QED BY <2>1, <2>2
<1>20. ASSUME NEW d \in Callers, Uci!Working(d)
       PROVE  /\ d # c /\ x3'[d].phase = x3[d].phase /\ x3'[d].alone = FALSE /\ x3'[d].plan = x3[d].plan
              /\ x3'[d].todo = x3[d].todo /\ x3'[d].want = x3[d].want /\ x3'[d].old = x3[d].old
  <2>1. d # c BY <1>2, <1>20
  <2>2. x3[d] \in Uci!Jobs /\ x3'[d] = [x3[d] EXCEPT !.alone = FALSE] BY <2>1, <1>19, <1>20
  <2> QED BY <2>1, <2>2 DEF Uci!Jobs
<1>21. Uci!Shapes'
  <2>1. x3' \in [Callers -> J]
    <3>1. \A d \in Callers : x3'[d] \in J BY <1>14, <1>18, <1>19
    <3> QED BY <1>3, <3>1
  <2>2. ASSUME NEW d \in Callers, Uci!Working(d)'
        PROVE  DOMAIN x3'[d].old = DOMAIN x3'[d].want /\ x3'[d].todo \subseteq DOMAIN x3'[d].want
    <3>1. CASE d = c
      <4>1. mine = new BY <3>1, <2>2, <1>16, <1>17, <1>18 DEF Uci!Working
      <4>2. DOMAIN old = fs /\ DOMAIN w = fs BY <1>8
      <4> QED BY <3>1, <4>1, <4>2, <1>7, <1>15, <1>18
    <3>2. CASE d # c
      <4>1. Uci!Working(d) BY <3>2, <2>2, <1>19 DEF Uci!Working
      <4> QED BY <4>1, <1>20 DEF Uci!UciInv, Uci!Shapes
    <3> QED BY <3>1, <3>2
  <2> QED BY <2>1, <2>2, <1>2, <1>5 DEF Uci!Shapes
<1>22. Uci!Owed'
  <2>1. x2 = Uci!Nothing \/ x6 = TRUE \/ \E d \in Callers : Uci!Owes(d) BY DEF Uci!UciInv, Uci!Owed
  <2>2. CASE x2 = Uci!Nothing \/ x6 = TRUE BY <2>2, <1>2 DEF Uci!Owed, Uci!Nothing
  <2>3. ASSUME NEW d \in Callers, Uci!Owes(d) PROVE Uci!Owed'
    <3>1. Uci!Working(d) BY <2>3 DEF Uci!Owes, Uci!Working
    <3>2. Uci!Owes(d)' BY <3>1, <2>3, <1>20 DEF Uci!Owes
    <3> QED BY <3>2 DEF Uci!Owed
  <2> QED BY <2>1, <2>2, <2>3
<1>23. Uci!Alone'
  <2> SUFFICES ASSUME NEW d \in Callers, Uci!Working(d)', x3'[d].alone = TRUE PROVE Uci!Tracks(d)' BY DEF Uci!Alone
  <2>1. CASE d # c
    <3>1. Uci!Working(d) BY <2>1, <1>19 DEF Uci!Working
    <3> QED BY <3>1, <1>20
  <2>2. CASE d = c
    <3>1. mine = new BY <2>2, <1>16, <1>17, <1>18 DEF Uci!Working
    <3>2. alone = TRUE BY <2>2, <3>1, <1>15, <1>18
    <3>3. x2 = Uci!Nothing /\ \A e \in Callers : ~Uci!Working(e) BY <3>2, <1>10
    <3>4. \A e \in Callers : e # c => ~Uci!Working(e)' BY <3>3, <1>19 DEF Uci!Working
    <3>5. \A f \in Fields : Uci!uci_read(f) = x1[f] /\ Uci!uci_read(f)' = x1[f] BY <3>3, <1>2 DEF Uci!uci_read, Uci!Nothing
    <3>6. \A f \in DOMAIN old : old[f] = x1[f] BY <3>5, <1>6 DEF old
    <3>7. ASSUME NEW f \in Fields, f \notin first.todo PROVE Uci!uci_read(f)' = Uci!Aim(new, f)
      <4>1. CASE f \notin fs BY <4>1, <3>5, <1>8, <1>15 DEF Uci!Aim
      <4>2. CASE f \in fs
        <5>1. f \notin ws /\ Uci!uci_read(f) = w[f] BY <4>2, <3>7, <1>7, <1>11
        <5>2. Uci!Now(new, f) = w[f] BY <4>2, <3>7, <1>7, <1>15 DEF Uci!Now
        <5> QED BY <4>2, <5>1, <5>2, <3>5, <1>8, <1>15 DEF Uci!Aim
      <4> QED BY <4>1, <4>2
    <3>8. x1' = new.before BY <1>2, <1>15
    <3> QED BY <2>2, <3>1, <3>4, <3>6, <3>7, <3>8, <1>15, <1>18, UciTracked
  <2> QED BY <2>1, <2>2
<1>24. Uci!DoneWhole
  <2> SUFFICES ASSUME NEW d \in Callers, Uci!Working(d) PROVE x3'[d].phase # "done" BY DEF Uci!DoneWhole
  <2> QED BY <1>20 DEF Uci!Working
<1> QED BY <1>21, <1>22, <1>23, <1>24 DEF Uci!UciInv

LEMMA UciInit == Uci!Init => Uci!UciInv
<1> SUFFICES ASSUME Uci!Init PROVE Uci!UciInv OBVIOUS
<1>1. PICK v \in Vals : x1 = [f \in Fields |-> v] BY UciAssumption DEF Uci!Init
<1>2. x1 \in [Fields -> Uci!Values] BY <1>1 DEF Uci!Values
<1>3. x2 \in [Fields -> Uci!Values \cup {None}] /\ x2 = Uci!Nothing BY DEF Uci!Init, Uci!Nothing
<1>4. x6 \in BOOLEAN BY DEF Uci!Init
<1>5. x3 = [c \in Callers |-> Uci!Idle] BY DEF Uci!Init
<1>6. \A c \in Callers : ~Uci!Working(c) BY <1>5 DEF Uci!Working, Uci!Idle
<1>7. Uci!Shapes BY <1>2, <1>3, <1>4, <1>5, <1>6 DEF Uci!Shapes
<1> QED BY <1>3, <1>6, <1>7 DEF Uci!UciInv, Uci!Owed, Uci!Alone

LEMMA UciNextWhole == ASSUME Uci!UciInv, Uci!Next PROVE Uci!UciInv' /\ Uci!DoneWhole
<1>1. PICK c \in Callers : Uci!Step(c) BY DEF Uci!Next
<1> QED BY <1>1, UciBegin, UciStage, UciStageFails, UciCommit, UciCommitFails, UciApply, UciApplyFails, UciVerify,
       UciRevert, UciRestore, UciDropped DEF Uci!Step

LEMMA UciKept == ASSUME Uci!UciInv, [Uci!Next]_(Uci!vars) PROVE Uci!UciInv'
<1>1. CASE Uci!Next BY <1>1, UciNextWhole
<1>2. CASE UNCHANGED Uci!vars
  <2>1. UNCHANGED <<x1, x2, x3, x6>> BY <1>2 DEF Uci!vars
  <2>2. Uci!Shapes' BY <2>1 DEF Uci!UciInv, Uci!Shapes, Uci!Working
  <2>3. Uci!Owed' BY <2>1 DEF Uci!UciInv, Uci!Owed, Uci!Owes, Uci!Nothing
  <2>4. ASSUME NEW c \in Callers, Uci!Tracks(c) PROVE Uci!Tracks(c)'
      BY <2>1, <2>4 DEF Uci!Tracks, Uci!Working, Uci!uci_read, Uci!Aim, Uci!Now, Uci!Last, Uci!Nothing
  <2>5. Uci!Alone' BY <2>1, <2>4 DEF Uci!UciInv, Uci!Alone, Uci!Working
  <2> QED BY <2>2, <2>3, <2>5 DEF Uci!UciInv
<1> QED BY <1>1, <1>2

LEMMA UciLeavesNothing == Uci!UciInv => Uci!NothingLeft
<1> SUFFICES ASSUME Uci!UciInv, \A c \in Callers : ~Uci!Working(c), ~x6 PROVE x2 = Uci!Nothing BY DEF Uci!NothingLeft
<1>1. \A c \in Callers : ~Uci!Owes(c) BY DEF Uci!Owes, Uci!Working
<1>2. x6 # TRUE BY Zenon
<1> QED BY <1>1, <1>2 DEF Uci!UciInv, Uci!Owed

LEMMA UciAtWork ==
    ASSUME live' = "uci", [AllNext]_all
    PROVE  live = "uci" /\ [Uci!Next]_(Uci!vars)
BY DEF AllNext, all, Uci!vars, WatchStep, UciStep, WifiStep, ProbeStep, CellsStep, ReaderStep,
       FanStep, ChargeStep, UpdateStep, ApnStep, IdStep, ExtraStep, Keep0, Keep5, Keep6, Keep7, Keep8, Keep10,
       Keep12, Keep13, Keep14

\* For any callers, options and values, however the controls overlap and
\* whichever of their uci and ubus calls fail: nothing staged waits for another
\* control's commit unless one was dropped or could not undo its writes, and a
\* control that ran alone did all or nothing (control.rs, set_wireless_config
\* and the other controls that stage, commit, apply and restore).
THEOREM UciWholeHolds == AllSpec => UciWhole
<1> DEFINE Inv == live = "uci" => Uci!UciInv
<1>1. AllInit => Inv
  BY UciInit DEF AllInit
<1>2. Inv /\ [AllNext]_all => Inv'
  BY UciAtWork, UciKept
<1>3. Inv => (live = "uci" => Uci!NothingLeft)
  BY UciLeavesNothing
<1>4. Inv /\ [AllNext]_all => [live = "uci" => Uci!DoneWhole]_all
  <2> SUFFICES ASSUME Inv, AllNext, live = "uci" PROVE Uci!DoneWhole \/ UNCHANGED all
    OBVIOUS
  <2>1. Uci!Next
    BY DEF AllNext, WatchStep, UciStep, WifiStep, ProbeStep, CellsStep, ReaderStep, FanStep, ChargeStep,
           UpdateStep, ApnStep, IdStep, ExtraStep
  <2> QED
    BY <2>1, UciNextWhole
<1> QED
  BY <1>1, <1>2, <1>3, <1>4, PTL DEF AllSpec, UciWhole

-----------------------------------------------------------------------------
(***************************************************************************)
(* WifiLayout: the checks of the controls are about the very set of APs    *)
(* that runs after their write (Runs), which differs from the one that     *)
(* runs now by the main SSID where a control moves names, and has one band *)
(* at most where a band goes off.                                          *)
(***************************************************************************)

\* WifiLayout counts with the library's Cardinality.
LEMMA WifiCard == ASSUME NEW S PROVE Wifi!Cardinality(S) = Cardinality(S)
BY Zenon DEF Wifi!Cardinality, Cardinality

\* A Boolean of the package as a condition.
LEMMA WifiTrue == ASSUME NEW p \in BOOLEAN PROVE p <=> (p = TRUE)
BY Zenon

\* The names of the layouts, and the one that is no interface.
LEMMA WifiNames == \A ap \in Wifi!Aps : Wifi!default_ifnames(ap) # Wifi!Parked /\ Wifi!Wlan0 # Wifi!Parked /\ Wifi!Wlan(1) # Wifi!Parked
BY DEF Wifi!default_ifnames, Wifi!Wlan, Wifi!Wlan0, Wifi!Parked

LEMMA WifiRuns ==
    ASSUME NEW r \in [Wifi!Bands -> BOOLEAN], NEW s \in [Wifi!Aps -> Wifi!Named], NEW ap \in Wifi!Aps
    PROVE  /\ ap[2] \in Wifi!Bands /\ ap[1] \in Wifi!Kinds /\ ap = <<ap[1], ap[2]>>
           /\ r[ap[2]] \in BOOLEAN /\ s[ap] \in Wifi!Named /\ s[ap].on \in BOOLEAN
           /\ ap \in Wifi!Runs(r, s) <=> (r[ap[2]] = TRUE /\ s[ap].on = TRUE /\ s[ap].if # Wifi!Parked)
<1>1. ap[2] \in Wifi!Bands /\ ap[1] \in Wifi!Kinds /\ ap = <<ap[1], ap[2]>> BY DEF Wifi!Aps
<1>2. r[ap[2]] \in BOOLEAN BY <1>1
<1>3. s[ap] \in Wifi!Named OBVIOUS
<1>4. s[ap].on \in BOOLEAN BY <1>3 DEF Wifi!Named
<1>5. r[ap[2]] <=> (r[ap[2]] = TRUE) BY <1>2, WifiTrue
<1>6. s[ap].on <=> (s[ap].on = TRUE) BY <1>4, WifiTrue
<1>7. ap \in Wifi!Runs(r, s) <=> (r[ap[2]] = TRUE /\ s[ap].on = TRUE /\ s[ap].if # Wifi!Parked) BY <1>5, <1>6, Zenon DEF Wifi!Runs
<1> QED BY <1>1, <1>2, <1>3, <1>4, <1>7

\* Sets of APs are finite, and those of one band at most two.
LEMMA WifiFinite ==
    /\ \A S \in SUBSET Wifi!Aps : IsFiniteSet(S) /\ Cardinality(S) \in Nat
    /\ \A S \in SUBSET Wifi!Aps, k \in Wifi!Bands : (\A ap \in S : ap[2] = k) => Cardinality(S) <= 2
<1>1. IsFiniteSet(Wifi!Kinds) /\ IsFiniteSet(Wifi!Bands)
  <2>1. IsFiniteSet({"main"}) BY FS_Singleton
  <2>2. IsFiniteSet({"main"} \cup {"guest"}) BY <2>1, FS_AddElement
  <2>3. {"main"} \cup {"guest"} = Wifi!Kinds BY DEF Wifi!Kinds
  <2> QED BY <2>2, <2>3, WifiAssumption
<1>2. IsFiniteSet(Wifi!Aps) BY <1>1, FS_Product DEF Wifi!Aps
<1>3. ASSUME NEW S \in SUBSET Wifi!Aps PROVE IsFiniteSet(S) /\ Cardinality(S) \in Nat
  BY <1>2, FS_Subset, FS_CardinalityType
<1>4. ASSUME NEW S \in SUBSET Wifi!Aps, NEW k \in Wifi!Bands, \A ap \in S : ap[2] = k PROVE Cardinality(S) <= 2
  <2> DEFINE a == <<"main", k>>
             g == <<"guest", k>>
             P == {a} \cup {g}
  <2>1. IsFiniteSet({a}) /\ Cardinality({a}) = 1 BY FS_Singleton
  <2>2. IsFiniteSet(P) /\ Cardinality(P) = IF g \in {a} THEN Cardinality({a}) ELSE Cardinality({a}) + 1
      BY <2>1, FS_AddElement
  <2>3. Cardinality(P) <= 2 BY <2>1, <2>2
  <2>4. S \in SUBSET P
    <3>1. ASSUME NEW ap \in S PROVE ap = a \/ ap = g
      <4>1. ap \in Wifi!Kinds \X Wifi!Bands /\ ap[2] = k BY <1>4 DEF Wifi!Aps
      <4> QED BY <4>1 DEF Wifi!Kinds
    <3> QED BY <3>1
  <2>5. Cardinality(S) <= Cardinality(P) BY <2>2, <2>4, FS_Subset
  <2>6. Cardinality(S) \in Nat /\ Cardinality(P) \in Nat BY <1>3, <2>2, FS_CardinalityType
  <2> HIDE DEF P
  <2> QED BY <2>3, <2>5, <2>6
<1> QED BY <1>3, <1>4

\* What one write of a layout needs: that it does not make the bad count.
LEMMA WifiWrites ==
    ASSUME Wifi!WifiInv, NEW r \in [Wifi!Bands -> BOOLEAN], NEW s \in [Wifi!Aps -> Wifi!Named], Wifi!WriteLayout(r, s), x1' = x1,
           Wifi!Aligned /\ x1 = TRUE => Cardinality(Wifi!Runs(r, s)) # BadCount \/ Cardinality(Wifi!On) = BadCount
    PROVE  Wifi!WifiInv' /\ Wifi!CountStays
<1>1. (x2' = r /\ x3' = s) \/ (x2' = x2 /\ x3' = x3) BY DEF Wifi!WriteLayout
<1>2. Wifi!WifiInv' BY <1>1 DEF Wifi!WifiInv
<1>3. Wifi!On' = Wifi!Runs(r, s) \/ Wifi!On' = Wifi!On BY <1>1 DEF Wifi!On, Wifi!Runs
<1>4. x1 \in BOOLEAN BY DEF Wifi!WifiInv
<1>5. CASE x1 = TRUE
  <2>1. Wifi!unsupported_aps = BadCount BY <1>5 DEF Wifi!unsupported_aps
  <2>2. Wifi!CountStays BY <2>1, <1>3, <1>5, WifiCard DEF Wifi!CountStays
  <2> QED BY <2>2, <1>2
<1>6. CASE x1 = FALSE
  <2>1. Wifi!unsupported_aps = 0 BY <1>6 DEF Wifi!unsupported_aps
  <2> QED BY <2>1, <1>2 DEF Wifi!CountStays
<1> QED BY <1>2, <1>4, <1>5, <1>6

\* The same APs run.
LEMMA WifiStays == ASSUME Wifi!WifiInv, UNCHANGED <<x1, x2, x3>> PROVE Wifi!WifiInv' /\ Wifi!CountStays
<1>1. Wifi!WifiInv' BY DEF Wifi!WifiInv
<1>2. Wifi!On' = Wifi!On BY DEF Wifi!On
<1> QED BY <1>1, <1>2 DEF Wifi!CountStays

\* The facts about a layout in WifiInv that the controls' counts are made of.
LEMMA WifiNow ==
    ASSUME Wifi!WifiInv
    PROVE  /\ Wifi!On = Wifi!Runs(x2, x3) /\ Wifi!On \in SUBSET Wifi!Aps /\ x1 \in BOOLEAN
           /\ \A ap \in Wifi!Aps :
                   /\ ap[2] \in Wifi!Bands /\ ap[1] \in Wifi!Kinds /\ ap = <<ap[1], ap[2]>>
                   /\ x2[ap[2]] \in BOOLEAN /\ x3[ap] \in Wifi!Named /\ x3[ap].on \in BOOLEAN
                   /\ ap \in Wifi!On <=> (x2[ap[2]] = TRUE /\ x3[ap].on = TRUE /\ x3[ap].if # Wifi!Parked)
<1>1. x2 \in [Wifi!Bands -> BOOLEAN] /\ x3 \in [Wifi!Aps -> Wifi!Named] /\ x1 \in BOOLEAN BY DEF Wifi!WifiInv
<1>2. Wifi!On = Wifi!Runs(x2, x3) /\ Wifi!On \in SUBSET Wifi!Aps BY DEF Wifi!On, Wifi!Runs
<1> QED BY <1>1, <1>2, WifiRuns

\* running_aps with nothing switched counts the APs that run.
LEMMA WifiCountNow == ASSUME Wifi!WifiInv PROVE Wifi!running_aps(Wifi!NoOverride) = Cardinality(Wifi!On)
<1> DEFINE R == {ap \in Wifi!Aps :
                   /\ x2[ap[2]]
                   /\ IF ap \in DOMAIN Wifi!NoOverride THEN Wifi!NoOverride[ap] ELSE x3[ap].on
                   /\ x3[ap].if # Wifi!Parked}
<1>1. DOMAIN Wifi!NoOverride = {} BY DEF Wifi!NoOverride
<1>2. \A ap \in Wifi!Aps : (IF ap \in DOMAIN Wifi!NoOverride THEN Wifi!NoOverride[ap] ELSE x3[ap].on) = x3[ap].on BY <1>1
<1>3. R = Wifi!On BY <1>2, Zenon DEF Wifi!On
<1>4. Wifi!running_aps(Wifi!NoOverride) = Wifi!Cardinality(R) BY Zenon DEF Wifi!running_aps
<1> HIDE DEF R
<1> QED BY <1>3, <1>4, WifiCard

\* check_ap_count is about the layout that will be written.
LEMMA WifiChecked ==
    ASSUME Wifi!WifiInv, NEW as \in SUBSET Wifi!Aps, NEW on \in BOOLEAN, NEW s \in [Wifi!Aps -> Wifi!Named],
           \A ap \in Wifi!Aps : s[ap].if = x3[ap].if /\ s[ap].on = IF ap \in as THEN on ELSE x3[ap].on,
           NEW ov, ov = [ap \in as |-> on],
           Wifi!CheckApCount(ov), Wifi!WriteLayout(x2, s), x1' = x1
    PROVE  Wifi!WifiInv' /\ Wifi!CountStays
<1>1. Wifi!running_aps(ov) = Cardinality(Wifi!Runs(x2, s))
  <2> DEFINE R == {ap \in Wifi!Aps :
                     /\ x2[ap[2]]
                     /\ IF ap \in DOMAIN ov THEN ov[ap] ELSE x3[ap].on
                     /\ x3[ap].if # Wifi!Parked}
  <2>1. \A ap \in Wifi!Aps : (IF ap \in DOMAIN ov THEN ov[ap] ELSE x3[ap].on) = s[ap].on OBVIOUS
  <2>2. R = Wifi!Runs(x2, s) BY <2>1, Zenon DEF Wifi!Runs
  <2>3. Wifi!running_aps(ov) = Wifi!Cardinality(R) BY Zenon DEF Wifi!running_aps
  <2> HIDE DEF R
  <2> QED BY <2>2, <2>3, WifiCard
<1>2. Wifi!running_aps(Wifi!NoOverride) = Cardinality(Wifi!On) BY WifiCountNow
<1>3. x1 = TRUE => Wifi!unsupported_aps = BadCount BY DEF Wifi!unsupported_aps
<1>4. x1 = TRUE => Cardinality(Wifi!Runs(x2, s)) # BadCount \/ Cardinality(Wifi!On) = BadCount
  <2> SUFFICES ASSUME x1 = TRUE PROVE Cardinality(Wifi!Runs(x2, s)) # BadCount \/ Cardinality(Wifi!On) = BadCount OBVIOUS
  <2>1. Wifi!unsupported_aps = BadCount /\ BadCount # 0 BY <1>3, WifiAssumption
  <2> QED BY <2>1, <1>1, <1>2 DEF Wifi!CheckApCount
<1>5. x2 \in [Wifi!Bands -> BOOLEAN] BY DEF Wifi!WifiInv
<1> QED BY <1>4, <1>5, WifiWrites

LEMMA WifiPlainSwitch ==
    ASSUME Wifi!WifiInv, NEW ap \in Wifi!Aps, NEW on \in BOOLEAN, Wifi!PlainSwitch(ap, on) PROVE Wifi!WifiInv' /\ Wifi!CountStays
<1> DEFINE s == [x3 EXCEPT ![ap].on = on]
           as == {ap}
           ov == [x \in as |-> on]
<1>1. x3 \in [Wifi!Aps -> Wifi!Named] BY DEF Wifi!WifiInv
<1>2. [x3[ap] EXCEPT !.on = on] \in Wifi!Named BY <1>1 DEF Wifi!Named
<1>3. s \in [Wifi!Aps -> Wifi!Named] BY <1>1, <1>2
<1>4. ASSUME NEW x \in Wifi!Aps PROVE s[x].if = x3[x].if /\ s[x].on = IF x \in as THEN on ELSE x3[x].on
  <2>1. CASE x = ap
    <3>1. s[x] = [x3[ap] EXCEPT !.on = on] BY <2>1, <1>1
    <3>2. x3[ap] \in Wifi!Named BY <1>1
    <3> QED BY <2>1, <3>1, <3>2 DEF Wifi!Named
  <2>2. CASE x # ap BY <2>2, <1>1
  <2> QED BY <2>1, <2>2
<1>5. Wifi!CheckApCount(ov) /\ Wifi!WriteLayout(x2, s) /\ x1' = x1 BY DEF Wifi!PlainSwitch
<1>6. as \in SUBSET Wifi!Aps OBVIOUS
<1>7. ov = [x \in as |-> on] OBVIOUS
<1> HIDE DEF s, as, ov
<1> QED BY <1>7, <1>3, <1>4, <1>5, <1>6, WifiChecked

LEMMA WifiSetGuest ==
    ASSUME Wifi!WifiInv, NEW bs \in SUBSET Wifi!Bands, NEW on \in BOOLEAN, NEW isolate, Wifi!SetGuest(bs, on, isolate)
    PROVE  Wifi!WifiInv' /\ Wifi!CountStays
<1> DEFINE as == {"guest"} \X bs
           ov == [ap \in as |-> on]
           s == [ap \in Wifi!Aps |-> IF ap \in as THEN [x3[ap] EXCEPT !.on = on] ELSE x3[ap]]
<1>1. x3 \in [Wifi!Aps -> Wifi!Named] BY DEF Wifi!WifiInv
<1>2. as \in SUBSET Wifi!Aps BY DEF Wifi!Aps, Wifi!Kinds
<1>5. Wifi!CheckApCount(ov) /\ Wifi!WriteLayout(x2, s) /\ x1' = x1 BY DEF Wifi!SetGuest, Wifi!WlanSet
<1> HIDE DEF as
<1>3. ASSUME NEW x \in Wifi!Aps PROVE s[x] \in Wifi!Named /\ s[x].if = x3[x].if /\ s[x].on = IF x \in as THEN on ELSE x3[x].on
  <2>1. x3[x] \in Wifi!Named BY <1>1
  <2>2. CASE x \in as
    <3>1. s[x] = [x3[x] EXCEPT !.on = on] BY <2>2
    <3> QED BY <2>1, <2>2, <3>1 DEF Wifi!Named
  <2>3. CASE x \notin as BY <2>1, <2>3
  <2> QED BY <2>2, <2>3
<1>4. s \in [Wifi!Aps -> Wifi!Named] BY <1>3
<1>6. ov = [ap \in as |-> on] OBVIOUS
<1> HIDE DEF s, ov
<1> QED BY <1>2, <1>6, <1>3, <1>4, <1>5, WifiChecked

LEMMA WifiBandOn == ASSUME Wifi!WifiInv, NEW b \in Wifi!Bands, Wifi!BandOn(b) PROVE Wifi!WifiInv' /\ Wifi!CountStays
<1> DEFINE r == [x2 EXCEPT ![b] = TRUE]
           s == [ap \in Wifi!Aps |-> [on |-> x3[ap].on \/ ap = <<"main", b>>, if |-> Wifi!default_ifnames(ap)]]
           C == {ap \in Wifi!Aps :
                   /\ ap[2] = b \/ x2[ap[2]]
                   /\ ap = <<"main", b>> \/ x3[ap].on}
<1>1. x2 \in [Wifi!Bands -> BOOLEAN] /\ x3 \in [Wifi!Aps -> Wifi!Named] BY DEF Wifi!WifiInv
<1>2. r \in [Wifi!Bands -> BOOLEAN] BY <1>1
<1>3. ASSUME NEW ap \in Wifi!Aps
      PROVE  /\ s[ap] \in Wifi!Named /\ s[ap].if # Wifi!Parked
             /\ s[ap].on <=> (x3[ap].on \/ ap = <<"main", b>>)
             /\ r[ap[2]] <=> (ap[2] = b \/ x2[ap[2]])
  <2>1. (x3[ap].on \/ ap = <<"main", b>>) \in BOOLEAN BY Zenon
  <2>2. s[ap] \in Wifi!Named /\ s[ap].if = Wifi!default_ifnames(ap) BY <2>1 DEF Wifi!Named
  <2>3. s[ap].on <=> (x3[ap].on \/ ap = <<"main", b>>) BY Zenon
  <2>4. ap[2] \in Wifi!Bands BY <1>1, WifiRuns
  <2>5. r[ap[2]] <=> (ap[2] = b \/ x2[ap[2]]) BY <2>4, <1>1
  <2> QED BY <2>2, <2>3, <2>5, WifiNames
<1>4. s \in [Wifi!Aps -> Wifi!Named] BY <1>3
<1>5. C = Wifi!Runs(r, s) BY <1>3, Zenon DEF Wifi!Runs
<1>c. Wifi!CountWith(b) = Wifi!Cardinality(C) BY Zenon DEF Wifi!CountWith
<1> HIDE DEF C
<1>d. Wifi!CountWith(b) = Cardinality(C) BY <1>c, WifiCard
<1>6. (Wifi!unsupported_aps # 0 => Cardinality(C) # Wifi!unsupported_aps) /\ Wifi!WriteLayout(r, s) /\ x1' = x1
    BY <1>d DEF Wifi!BandOn
<1>7. x1 = TRUE => Cardinality(Wifi!Runs(r, s)) # BadCount
  <2> SUFFICES ASSUME x1 = TRUE PROVE Cardinality(C) # BadCount BY <1>5
  <2>1. Wifi!unsupported_aps = BadCount /\ BadCount # 0 BY WifiAssumption DEF Wifi!unsupported_aps
  <2> QED BY <2>1, <1>6
<1> HIDE DEF r, s
<1> QED BY <1>2, <1>4, <1>6, <1>7, WifiWrites

LEMMA WifiBandOff == ASSUME Wifi!WifiInv, NEW b \in Wifi!Bands, Wifi!BandOff(b) PROVE Wifi!WifiInv' /\ Wifi!CountStays
<1> DEFINE r == [x2 EXCEPT ![b] = FALSE]
           s(k) == [ap \in Wifi!Aps |-> [on |-> x3[ap].on,
                      if |-> IF ap[2] = b THEN Wifi!Parked
                             ELSE IF ap = <<"main", k>> THEN Wifi!Wlan0
                             ELSE IF ap = <<"guest", k>> THEN Wifi!Wlan(1) ELSE x3[ap].if]]
<1>1. x2 \in [Wifi!Bands -> BOOLEAN] /\ x3 \in [Wifi!Aps -> Wifi!Named] BY DEF Wifi!WifiInv
<1>2. r \in [Wifi!Bands -> BOOLEAN] BY <1>1
<1>3. PICK k \in Wifi!Bands : Wifi!Keeps(b, k) /\ Wifi!WriteLayout(r, s(k)) BY DEF Wifi!BandOff
<1>4. x1' = x1 BY DEF Wifi!BandOff
<1>5. k # b BY <1>3 DEF Wifi!Keeps
<1>6. ASSUME NEW ap \in Wifi!Aps PROVE s(k)[ap] \in Wifi!Named /\ (ap[2] = b => s(k)[ap].if = Wifi!Parked)
  <2>1. x3[ap] \in Wifi!Named BY <1>1
  <2> QED BY <2>1 DEF Wifi!Named
<1>7. s(k) \in [Wifi!Aps -> Wifi!Named] BY <1>6
<1>8. ASSUME NEW ap \in Wifi!Runs(r, s(k)) PROVE ap[2] = k
  <2>1. ap \in Wifi!Aps BY DEF Wifi!Runs
  <2>2. s(k)[ap].if # Wifi!Parked /\ ap[2] \in Wifi!Bands BY <2>1, <1>2, <1>7, WifiRuns
  <2>3. ap[2] # b BY <2>1, <2>2, <1>6
  <2> QED BY <2>2, <2>3, <1>5, WifiAssumption
<1>9. Wifi!Runs(r, s(k)) \in SUBSET Wifi!Aps BY DEF Wifi!Runs
<1> DEFINE N == Wifi!Runs(r, s(k))
<1> HIDE DEF r, s, N
<1>10. Cardinality(N) <= 2 /\ Cardinality(N) \in Nat BY <1>8, <1>9, WifiFinite DEF N
<1>11. Cardinality(N) # BadCount BY <1>10, WifiAssumption
<1> QED BY <1>2, <1>3, <1>4, <1>7, <1>11, WifiWrites DEF N

LEMMA WifiHandsOver == ASSUME Wifi!WifiInv, NEW b \in Wifi!Bands, Wifi!MainHandsOver(b) PROVE Wifi!WifiInv' /\ Wifi!CountStays
<1> DEFINE a == <<"main", b>>
           g == <<"guest", b>>
           s == [x3 EXCEPT ![a] = [on |-> FALSE, if |-> Wifi!Parked], ![g].if = Wifi!Wlan0]
<1>1. x2 \in [Wifi!Bands -> BOOLEAN] /\ x3 \in [Wifi!Aps -> Wifi!Named] BY DEF Wifi!WifiInv
<1>2. a \in Wifi!Aps /\ g \in Wifi!Aps /\ a # g BY DEF Wifi!Aps, Wifi!Kinds
<1>3. x3[a].if = Wifi!Wlan0 /\ (Wifi!unsupported_aps # 0 => Wifi!running_aps(Wifi!NoOverride) # Wifi!unsupported_aps + 1) /\ Wifi!WriteLayout(x2, s) /\ x1' = x1
    BY DEF Wifi!MainHandsOver
<1>4. [on |-> FALSE, if |-> Wifi!Parked] \in Wifi!Named /\ [x3[g] EXCEPT !.if = Wifi!Wlan0] \in Wifi!Named
  <2>1. x3[g] \in Wifi!Named BY <1>1, <1>2
  <2> QED BY <2>1 DEF Wifi!Named
<1>5. /\ s \in [Wifi!Aps -> Wifi!Named] /\ s[a] = [on |-> FALSE, if |-> Wifi!Parked] /\ s[g] = [x3[g] EXCEPT !.if = Wifi!Wlan0]
      /\ \A x \in Wifi!Aps : x # a /\ x # g => s[x] = x3[x]
    BY <1>1, <1>2, <1>4
<1> HIDE DEF s
<1>6. s[a].if = Wifi!Parked /\ s[g].on = x3[g].on /\ s[g].if = Wifi!Wlan0
  <2>1. x3[g] \in Wifi!Named BY <1>1, <1>2
  <2>2. [x3[g] EXCEPT !.if = Wifi!Wlan0].on = x3[g].on /\ [x3[g] EXCEPT !.if = Wifi!Wlan0].if = Wifi!Wlan0 BY <2>1 DEF Wifi!Named
  <2> QED BY <2>2, <1>5
<1>7. ASSUME Wifi!Aligned, x1 = TRUE PROVE Cardinality(Wifi!Runs(x2, s)) # BadCount \/ Cardinality(Wifi!On) = BadCount
  <2>1. Wifi!On = Wifi!Runs(x2, x3) /\ Wifi!On \in SUBSET Wifi!Aps BY WifiNow
  <2>2. ASSUME NEW x \in Wifi!Aps PROVE x \in Wifi!Runs(x2, s) <=> x \in Wifi!On \ {a}
    <3>1. x \in Wifi!Runs(x2, s) <=> (x2[x[2]] = TRUE /\ s[x].on = TRUE /\ s[x].if # Wifi!Parked) BY <1>1, <1>5, WifiRuns
    <3>2. x \in Wifi!On <=> (x2[x[2]] = TRUE /\ x3[x].on = TRUE /\ x3[x].if # Wifi!Parked) BY WifiNow
    <3>3. CASE x = a BY <3>1, <3>3, <1>6
    <3>4. CASE x = g
      <4>1. x2[b] \in BOOLEAN /\ x[2] = b BY <3>4, <1>1
      <4>2. x2[b] = TRUE => x3[g].if # Wifi!Parked BY <1>7, Zenon DEF Wifi!Aligned
      <4>3. Wifi!Wlan0 # Wifi!Parked BY WifiNames
      <4> QED BY <3>1, <3>2, <3>4, <4>1, <4>2, <4>3, <1>2, <1>6
    <3>5. CASE x # a /\ x # g BY <3>1, <3>2, <3>5, <1>5
    <3> QED BY <3>3, <3>4, <3>5
  <2>3. Wifi!Runs(x2, s) = Wifi!On \ {a}
    <3>1. Wifi!Runs(x2, s) \in SUBSET Wifi!Aps BY DEF Wifi!Runs
    <3> QED BY <2>1, <2>2, <3>1
  <2>4. IsFiniteSet(Wifi!On) /\ Cardinality(Wifi!On) \in Nat BY <2>1, WifiFinite
  <2>5. Cardinality(Wifi!On \ {a}) = IF a \in Wifi!On THEN Cardinality(Wifi!On) - 1 ELSE Cardinality(Wifi!On) BY <2>4, FS_RemoveElement
  <2>6. Wifi!unsupported_aps = BadCount BY <1>7 DEF Wifi!unsupported_aps
  <2>7. Cardinality(Wifi!On) # BadCount + 1 BY <1>3, <2>6, WifiCountNow, WifiAssumption
  <2> QED BY <2>3, <2>4, <2>5, <2>7, WifiAssumption
<1> QED BY <1>1, <1>3, <1>5, <1>7, WifiWrites

LEMMA WifiReturns == ASSUME Wifi!WifiInv, NEW b \in Wifi!Bands, Wifi!MainReturns(b) PROVE Wifi!WifiInv' /\ Wifi!CountStays
<1> DEFINE a == <<"main", b>>
           g == <<"guest", b>>
           s == [x3 EXCEPT ![a] = [on |-> TRUE, if |-> Wifi!default_ifnames(a)], ![g].if = Wifi!default_ifnames(g)]
<1>1. x2 \in [Wifi!Bands -> BOOLEAN] /\ x3 \in [Wifi!Aps -> Wifi!Named] BY DEF Wifi!WifiInv
<1>2. a \in Wifi!Aps /\ g \in Wifi!Aps /\ a # g BY DEF Wifi!Aps, Wifi!Kinds
<1>3. x3[a].if = Wifi!Parked /\ x2[b] /\ (Wifi!unsupported_aps # 0 => Wifi!running_aps(Wifi!NoOverride) + 1 # Wifi!unsupported_aps) /\ Wifi!WriteLayout(x2, s) /\ x1' = x1
    BY DEF Wifi!MainReturns
<1>4. [on |-> TRUE, if |-> Wifi!default_ifnames(a)] \in Wifi!Named /\ [x3[g] EXCEPT !.if = Wifi!default_ifnames(g)] \in Wifi!Named
  <2>1. x3[g] \in Wifi!Named BY <1>1, <1>2
  <2> QED BY <2>1, <1>2 DEF Wifi!Named
<1>5. /\ s \in [Wifi!Aps -> Wifi!Named] /\ s[a] = [on |-> TRUE, if |-> Wifi!default_ifnames(a)] /\ s[g] = [x3[g] EXCEPT !.if = Wifi!default_ifnames(g)]
      /\ \A x \in Wifi!Aps : x # a /\ x # g => s[x] = x3[x]
    BY <1>1, <1>2, <1>4
<1> HIDE DEF s
<1>6. s[a].if # Wifi!Parked /\ s[a].on = TRUE /\ s[g].on = x3[g].on /\ s[g].if # Wifi!Parked
  <2>1. x3[g] \in Wifi!Named BY <1>1, <1>2
  <2>2. Wifi!default_ifnames(a) # Wifi!Parked /\ Wifi!default_ifnames(g) # Wifi!Parked BY <1>2, WifiNames
  <2>3. /\ [x3[g] EXCEPT !.if = Wifi!default_ifnames(g)].on = x3[g].on
        /\ [x3[g] EXCEPT !.if = Wifi!default_ifnames(g)].if = Wifi!default_ifnames(g)
      BY <2>1 DEF Wifi!Named
  <2> QED BY <2>2, <2>3, <1>5
<1>7. ASSUME Wifi!Aligned, x1 = TRUE PROVE Cardinality(Wifi!Runs(x2, s)) # BadCount \/ Cardinality(Wifi!On) = BadCount
  <2>1. Wifi!On = Wifi!Runs(x2, x3) /\ Wifi!On \in SUBSET Wifi!Aps BY WifiNow
  <2>a. x2[b] = TRUE /\ a[2] = b /\ g[2] = b BY <1>1, <1>3
  <2>b. x3[g].if # Wifi!Parked BY <1>3, <1>7, Zenon DEF Wifi!Aligned
  <2>2. ASSUME NEW x \in Wifi!Aps PROVE x \in Wifi!Runs(x2, s) <=> x \in Wifi!On \cup {a}
    <3>1. x \in Wifi!Runs(x2, s) <=> (x2[x[2]] = TRUE /\ s[x].on = TRUE /\ s[x].if # Wifi!Parked) BY <1>1, <1>5, WifiRuns
    <3>2. x \in Wifi!On <=> (x2[x[2]] = TRUE /\ x3[x].on = TRUE /\ x3[x].if # Wifi!Parked) BY WifiNow
    <3>3. CASE x = a BY <3>1, <3>3, <1>6, <2>a
    <3>4. CASE x = g BY <3>1, <3>2, <3>4, <2>b, <1>2, <1>6
    <3>5. CASE x # a /\ x # g BY <3>1, <3>2, <3>5, <1>5
    <3> QED BY <3>3, <3>4, <3>5
  <2>3. Wifi!Runs(x2, s) = Wifi!On \cup {a}
    <3>1. Wifi!Runs(x2, s) \in SUBSET Wifi!Aps BY DEF Wifi!Runs
    <3> QED BY <2>1, <2>2, <3>1, <1>2
  <2>4. IsFiniteSet(Wifi!On) /\ Cardinality(Wifi!On) \in Nat BY <2>1, WifiFinite
  <2>5. Cardinality(Wifi!On \cup {a}) = IF a \in Wifi!On THEN Cardinality(Wifi!On) ELSE Cardinality(Wifi!On) + 1 BY <2>4, FS_AddElement
  <2>6. Wifi!unsupported_aps = BadCount BY <1>7 DEF Wifi!unsupported_aps
  <2>7. Cardinality(Wifi!On) + 1 # BadCount BY <1>3, <2>6, WifiCountNow, WifiAssumption
  <2> QED BY <2>3, <2>4, <2>5, <2>7, WifiAssumption
<1> QED BY <1>1, <1>3, <1>5, <1>7, WifiWrites

LEMMA WifiSetRadio ==
    ASSUME Wifi!WifiInv, NEW b \in Wifi!Bands, NEW on \in BOOLEAN, Wifi!SetRadio(b, on) PROVE Wifi!WifiInv' /\ Wifi!CountStays
<1> DEFINE a == <<"main", b>>
           g == <<"guest", b>>
<1>1. x2 \in [Wifi!Bands -> BOOLEAN] /\ x3 \in [Wifi!Aps -> Wifi!Named] /\ x1 \in BOOLEAN BY DEF Wifi!WifiInv
<1>2. a \in Wifi!Aps /\ g \in Wifi!Aps /\ a # g BY DEF Wifi!Aps, Wifi!Kinds
<1>3. ~x1 /\ x1' = x1 BY DEF Wifi!SetRadio
<1>4. x1 # TRUE BY <1>3, Zenon
<1>5. x3[a] \in Wifi!Named /\ x3[g] \in Wifi!Named BY <1>1, <1>2
<1>6. [x3[a] EXCEPT !.on = TRUE] \in Wifi!Named /\ [x3[a] EXCEPT !.on = FALSE] \in Wifi!Named /\ [x3[g] EXCEPT !.on = FALSE] \in Wifi!Named
    BY <1>5 DEF Wifi!Named
<1>7. CASE on
  <2> DEFINE r == [x2 EXCEPT ![b] = TRUE]
             s == [x3 EXCEPT ![a].on = TRUE]
  <2>1. Wifi!WriteLayout(r, s) BY <1>7 DEF Wifi!SetRadio, Wifi!WlanSet
  <2>2. r \in [Wifi!Bands -> BOOLEAN] /\ s \in [Wifi!Aps -> Wifi!Named] BY <1>1, <1>2, <1>6
  <2> HIDE DEF r, s
  <2> QED BY <2>1, <2>2, <1>3, <1>4, WifiWrites
<1>8. CASE ~on
  <2> DEFINE s == [x3 EXCEPT ![a].on = FALSE, ![g].on = FALSE]
  <2>1. Wifi!WriteLayout(x2, s) BY <1>8 DEF Wifi!SetRadio, Wifi!WlanSet
  <2>2. s \in [Wifi!Aps -> Wifi!Named] BY <1>1, <1>2, <1>6
  <2> HIDE DEF s
  <2> QED BY <2>1, <2>2, <1>1, <1>3, <1>4, WifiWrites
<1> QED BY <1>7, <1>8

LEMMA WifiSetModule == ASSUME Wifi!WifiInv, NEW on \in BOOLEAN, Wifi!SetModule(on) PROVE Wifi!WifiInv' /\ Wifi!CountStays
<1>1. x4' = on /\ x2' = (IF x4 = on THEN x2 ELSE [b \in Wifi!Bands |-> on]) /\ UNCHANGED <<x1, x3>> BY DEF Wifi!SetModule
<1>2. CASE x4 = on BY <1>1, <1>2, WifiStays
<1>3. CASE x4 # on
  <2>1. x2' \in [Wifi!Bands -> BOOLEAN] BY <1>1, <1>3
  <2>2. Wifi!WifiInv' BY <1>1, <2>1 DEF Wifi!WifiInv
  <2>3. x4' # x4 BY <1>1, <1>3
  <2> QED BY <2>2, <2>3 DEF Wifi!CountStays
<1> QED BY <1>2, <1>3

LEMMA WifiInit == Wifi!Init => Wifi!WifiInv
<1> SUFFICES ASSUME Wifi!Init PROVE Wifi!WifiInv OBVIOUS
<1>1. x1 \in BOOLEAN BY DEF Wifi!Init
<1>2. x2 \in [Wifi!Bands -> BOOLEAN] BY DEF Wifi!Init
<1>3. ASSUME NEW ap \in Wifi!Aps PROVE [on |-> ap[1] = "main", if |-> Wifi!default_ifnames(ap)] \in Wifi!Named
  <2>1. (ap[1] = "main") \in BOOLEAN OBVIOUS
  <2> QED BY <2>1 DEF Wifi!Named
<1>4. x3 = [ap \in Wifi!Aps |-> [on |-> ap[1] = "main", if |-> Wifi!default_ifnames(ap)]] BY DEF Wifi!Init
<1>5. x3 \in [Wifi!Aps -> Wifi!Named] BY <1>3, <1>4
<1> QED BY <1>1, <1>2, <1>5 DEF Wifi!WifiInv

LEMMA WifiNextCounts == ASSUME Wifi!WifiInv, Wifi!Next PROVE Wifi!WifiInv' /\ Wifi!CountStays
<1>1. ASSUME NEW b \in Wifi!Bands, NEW w, Wifi!SetBandwidth(b, w) PROVE Wifi!WifiInv' /\ Wifi!CountStays BY <1>1, WifiStays DEF Wifi!SetBandwidth
<1>2. CASE Wifi!SwitchMesh BY <1>2, WifiStays DEF Wifi!SwitchMesh
<1> QED BY <1>1, <1>2, WifiSetRadio, WifiBandOn, WifiBandOff, WifiHandsOver, WifiReturns, WifiPlainSwitch, WifiSetGuest,
       WifiSetModule DEF Wifi!Next

LEMMA WifiKept == ASSUME Wifi!WifiInv, [Wifi!Next]_(Wifi!vars) PROVE Wifi!WifiInv'
<1>1. CASE Wifi!Next BY <1>1, WifiNextCounts
<1>2. CASE UNCHANGED Wifi!vars BY <1>2 DEF Wifi!vars, Wifi!WifiInv
<1> QED BY <1>1, <1>2

LEMMA WifiAtWork ==
    ASSUME live' = "wifi", [AllNext]_all
    PROVE  live = "wifi" /\ [Wifi!Next]_(Wifi!vars)
BY DEF AllNext, all, Wifi!vars, WatchStep, UciStep, WifiStep, ProbeStep, CellsStep, ReaderStep,
       FanStep, ChargeStep, UpdateStep, ApnStep, IdStep, ExtraStep, Keep0, Keep5, Keep6, Keep7, Keep8, Keep10,
       Keep12, Keep13, Keep14

\* On a model of at most two bands, whichever it has, whatever interface names
\* they get and whatever count it cannot start: no sequence of controls and
\* failed writes makes that count out of another (check_ap_count,
\* single_chip_ssid, set_single_chip_band).
THEOREM CountKeptHolds == AllSpec => CountKept
<1> DEFINE Inv == live = "wifi" => Wifi!WifiInv
<1>1. AllInit => Inv
  BY WifiInit DEF AllInit
<1>2. Inv /\ [AllNext]_all => Inv'
  BY WifiAtWork, WifiKept
<1>3. Inv /\ [AllNext]_all => [live = "wifi" => Wifi!CountStays]_all
  <2> SUFFICES ASSUME Inv, AllNext, live = "wifi" PROVE Wifi!CountStays \/ UNCHANGED all
    OBVIOUS
  <2>1. Wifi!Next
    BY DEF AllNext, WatchStep, UciStep, WifiStep, ProbeStep, CellsStep, ReaderStep, FanStep, ChargeStep,
           UpdateStep, ApnStep, IdStep, ExtraStep
  <2> QED
    BY <2>1, WifiNextCounts
<1> QED
  BY <1>1, <1>2, <1>3, PTL DEF AllSpec, CountKept

-----------------------------------------------------------------------------
(***************************************************************************)
(* Ota: what a restart finds in ota-state.json is what the manager knew of *)
(* an installation and of the failures (Mirrors, Owes); an installer runs, *)
(* or its result waits to be read, only while "installing" stands, and     *)
(* there is one (Awaited); and busy keeps a second one from being started  *)
(* by a task that has yet to take the mutex (Locks).                       *)
(***************************************************************************)

\* The cooldowns: none before the first failure and from the fourth on, and
\* they do not get shorter.
LEMMA OtaDelays ==
    ASSUME NEW f \in 0..4
    PROVE  /\ Update!Delay(f) \in Nat /\ (Update!Delay(f) = 0 <=> f \in {0, 4})
           /\ Update!OneMore(f) \in 1..4 /\ (Update!OneMore(f) \in 2..3 => Update!Delay(f) <= Update!Delay(Update!OneMore(f)))
<1>1. f \in {0, 1, 2, 3, 4} OBVIOUS
<1>2. CASE f = 0 BY <1>2, OtaAssumption DEF Update!Delay, Update!OneMore
<1>3. CASE f = 1 BY <1>3, OtaAssumption DEF Update!Delay, Update!OneMore
<1>4. CASE f = 2 BY <1>4, OtaAssumption DEF Update!Delay, Update!OneMore
<1>5. CASE f = 3 BY <1>5, OtaAssumption DEF Update!Delay, Update!OneMore
<1>6. CASE f = 4 BY <1>6, OtaAssumption DEF Update!Delay, Update!OneMore
<1> QED BY <1>1, <1>2, <1>3, <1>4, <1>5, <1>6

\* What is saved says the same.
LEMMA OtaStored ==
    ASSUME NEW o \in Update!Managers
    PROVE  /\ Update!Stored(o) \in Update!Files
           /\ Update!Stored(o).state = o.state /\ Update!Stored(o).latest = o.latest /\ Update!Stored(o).failures = o.failures
           /\ Update!Stored(o).retry = o.retry /\ Update!Stored(o).wait = o.wait
           /\ (o.state = "succeeded" => o.failures = 0) => Update!Mirrors(o, Update!Stored(o))
<1>1. /\ Update!Stored(o).state = o.state /\ Update!Stored(o).latest = o.latest /\ Update!Stored(o).failures = o.failures
      /\ Update!Stored(o).retry = o.retry /\ Update!Stored(o).wait = o.wait
    BY DEF Update!Stored
<1>2. o.verified \in BOOLEAN BY DEF Update!Managers
<1>3. Update!Stored(o) \in Update!Files BY <1>2 DEF Update!Stored, Update!Files, Update!Managers
<1> QED BY <1>1, <1>3 DEF Update!Mirrors

LEMMA OtaOwesStored ==
    ASSUME NEW o \in Update!Managers, NEW d, NEW c, Update!Owes(o, d, c), NEW x \in Update!Managers, x.failures = o.failures, x.retry = o.retry
    PROVE  Update!Owes(x, Update!Stored(x), c)
<1>1. Update!Stored(x).retry = x.retry BY OtaStored
<1>2. x.retry \in Update!Timers BY DEF Update!Managers
<1> QED BY <1>1, <1>2 DEF Update!Owes, Update!Timers, Update!NoTimer

LEMMA OtaFail ==
    ASSUME NEW o \in Update!Managers, NEW n \in Int
    PROVE  /\ Update!Fail(o, n) \in Update!Managers /\ Update!Fail(o, n).state \in {"error", "blocked"} /\ Update!Fail(o, n).busy = o.busy
           /\ Update!Owes(Update!Fail(o, n), Update!Stored(Update!Fail(o, n)), Update!Delay(Update!OneMore(o.failures)))
<1> DEFINE f == Update!OneMore(o.failures)
           st == IF Update!Delay(f) = 0 THEN "blocked" ELSE "error"
           rt == IF Update!Delay(f) = 0 THEN Update!NoTimer ELSE Update!Delay(f)
           r == [o EXCEPT !.state = st, !.failures = f, !.retry = rt, !.latest = n]
<1>1. o.failures \in 0..4 BY DEF Update!Managers
<1>2. f \in 1..4 /\ f \in 0..4 BY <1>1, OtaDelays
<1>3. Update!Delay(f) \in Nat /\ (Update!Delay(f) = 0 <=> f = 4) BY <1>2, OtaDelays
<1>4. st \in Update!States /\ st \in {"error", "blocked"} /\ rt \in Update!Timers BY <1>3 DEF Update!States, Update!Timers
<1>5. Update!Fail(o, n) = r BY DEF Update!Fail
<1>6. (f \in 1..3 => rt = Update!Delay(f)) /\ (f = 4 => Update!Delay(f) = 0) BY <1>2, <1>3
<1> HIDE DEF f, st, rt
<1>7. r \in Update!Managers BY <1>2, <1>4 DEF Update!Managers
<1>8. r.state = st /\ r.failures = f /\ r.retry = rt /\ r.busy = o.busy BY DEF Update!Managers
<1> HIDE DEF r
<1>9. Update!Stored(r).retry = rt BY <1>7, <1>8, OtaStored
<1>10. Update!Owes(r, Update!Stored(r), Update!Delay(f)) BY <1>2, <1>3, <1>6, <1>8, <1>9 DEF Update!Owes
<1> QED BY <1>4, <1>5, <1>7, <1>8, <1>10 DEF f

\* save_status, when no write fails.
LEMMA OtaSaves ==
    ASSUME Update!OtaInv, NEW x \in Update!Managers, Update!Save(x), x.state = "succeeded" => x.failures = 0
    PROVE  x3' = x /\ x4' = Update!Stored(x) /\ x12' = x12 /\ x4' \in Update!Files /\ Update!Mirrors(x, x4')
<1>1. x12 \in Nat BY DEF Update!OtaInv, Update!Shapes
<1>2. ~(x12 < 0) BY <1>1
<1>3. x3' = x /\ x4' = Update!Stored(x) /\ x12' = x12 BY <1>2 DEF Update!Save
<1> QED BY <1>3, OtaStored

\* finish_update changes busy only.
LEMMA OtaFinished ==
    ASSUME NEW o \in Update!Managers
    PROVE  /\ Update!Finished(o) \in Update!Managers /\ Update!Finished(o).busy = FALSE
           /\ Update!Finished(o).state = o.state /\ Update!Finished(o).latest = o.latest /\ Update!Finished(o).failures = o.failures
           /\ Update!Finished(o).retry = o.retry /\ Update!Finished(o).wait = o.wait /\ Update!Finished(o).cand = o.cand
BY DEF Update!Finished, Update!Managers

LEMMA OtaBegun ==
    ASSUME NEW o \in Update!Managers
    PROVE  /\ Update!Begun(o) \in Update!Managers /\ Update!Begun(o).busy = TRUE /\ Update!Begun(o).state = "checking"
           /\ Update!Begun(o).failures = o.failures /\ Update!Begun(o).retry = o.retry /\ Update!Begun(o).cand = o.cand
BY DEF Update!Begun, Update!Managers, Update!States

\* reconcile_install_result: what reading the result makes of the manager and
\* of the cooldown that is owed.
LEMMA OtaSettle ==
    ASSUME NEW o \in Update!Managers, NEW d, NEW c, Update!Owes(o, d, c), o.state = "succeeded" => o.failures = 0,
           NEW mark \in {"none", "success", "failed"}, NEW v \in Int, NEW e,
           e = IF Update!TimedOut(o, mark) THEN Update!Delay(Update!OneMore(o.failures))
               ELSE IF mark = "success" /\ o.latest = v THEN 0 ELSE c
    PROVE  /\ Update!Settle(o, mark, v) \in Update!Managers /\ Update!Settle(o, mark, v).busy = o.busy
           /\ Update!Owes(Update!Settle(o, mark, v), Update!Stored(Update!Settle(o, mark, v)), e)
           /\ Update!Settle(o, mark, v).state = "succeeded" => Update!Settle(o, mark, v).failures = 0
           /\ \/ Update!Settle(o, mark, v) = o /\ mark = "none" /\ ~Update!TimedOut(o, mark) /\ e = c
              \/ /\ mark # "none" \/ Update!TimedOut(o, mark)
                 /\ Update!Settle(o, mark, v).state \in {"error", "blocked"}
              \/ /\ mark = "success" /\ o.latest = v /\ Update!Settle(o, mark, v).latest = v
                 /\ Update!Settle(o, mark, v).state = "succeeded"
<1> DEFINE r == Update!Settle(o, mark, v)
<1>1. CASE Update!TimedOut(o, mark)
  <2>1. o.latest \in Int BY DEF Update!Managers
  <2>2. r = Update!Fail(o, o.latest) /\ e = Update!Delay(Update!OneMore(o.failures)) BY <1>1 DEF Update!Settle, Update!TimedOut
  <2>3. /\ r \in Update!Managers /\ r.state \in {"error", "blocked"} /\ r.busy = o.busy /\ Update!Owes(r, Update!Stored(r), e)
    BY <2>1, <2>2, OtaFail
  <2> QED BY <1>1, <2>3
<1>2. CASE ~Update!TimedOut(o, mark) /\ mark = "none"
  <2>1. r = o /\ e = c BY <1>2 DEF Update!Settle
  <2>2. Update!Owes(r, Update!Stored(r), e) BY <2>1, OtaOwesStored
  <2> QED BY <1>2, <2>1, <2>2
<1>3. CASE mark = "success" /\ o.latest = v
  <2> DEFINE q == [o EXCEPT !.state = "succeeded", !.wait = Update!NoTimer, !.failures = 0, !.retry = Update!NoTimer]
  <2>1. r = q /\ e = 0 BY <1>3 DEF Update!Settle, Update!TimedOut
  <2>2. Update!NoTimer \in Update!Timers /\ 0 \in 0..4 /\ "succeeded" \in Update!States BY DEF Update!Timers, Update!States
  <2>3. q \in Update!Managers BY <2>2 DEF Update!Managers
  <2>4. q.state = "succeeded" /\ q.failures = 0 /\ q.latest = v /\ q.busy = o.busy BY <1>3 DEF Update!Managers
  <2> HIDE DEF q
  <2>5. Update!Owes(q, Update!Stored(q), 0) BY <2>4 DEF Update!Owes
  <2> QED BY <1>3, <2>1, <2>3, <2>4, <2>5
<1>4. CASE mark # "none" /\ ~(mark = "success" /\ o.latest = v)
  <2> DEFINE f == Update!OneMore(o.failures)
             q == [o EXCEPT !.state = "error", !.failures = f]
  <2>1. r = q /\ e = c BY <1>4 DEF Update!Settle, Update!TimedOut
  <2>2. o.failures \in 0..4 /\ o.retry \in Update!Timers BY DEF Update!Managers
  <2>3. f \in 1..4 /\ f \in 0..4 /\ "error" \in Update!States BY <2>2, OtaDelays DEF Update!States
  <2>4. o.failures = 4 => f = 4 BY DEF Update!OneMore
  <2>5. o.failures \in 0..3 => f = o.failures + 1 BY DEF Update!OneMore
  <2>6. f \in 2..3 => Update!Delay(o.failures) <= Update!Delay(f) BY <2>2, OtaDelays
  <2>7. Update!Delay(f) \in Nat /\ Update!Delay(o.failures) \in Nat BY <2>2, <2>3, OtaDelays
  <2> HIDE DEF f
  <2>8. q \in Update!Managers BY <2>3 DEF Update!Managers
  <2>9. q.state = "error" /\ q.failures = f /\ q.retry = o.retry /\ q.busy = o.busy BY DEF Update!Managers
  <2> HIDE DEF q
  <2>10. Update!Stored(q).retry = o.retry BY <2>8, <2>9, OtaStored
  <2>11. c \in Nat BY DEF Update!Owes
  <2>12. CASE o.failures = 0
    <3>1. c = 0 BY <2>12 DEF Update!Owes
    <3> QED BY <2>1, <2>2, <2>3, <2>7, <2>8, <2>9, <2>10, <3>1, <1>4 DEF Update!Owes, Update!Timers, Update!NoTimer
  <2>13. CASE o.failures \in 1..2
    <3>1. f \in 2..3 /\ c <= Update!Delay(f) BY <2>5, <2>6, <2>7, <2>11, <2>13 DEF Update!Owes
    <3> QED BY <2>1, <2>2, <2>3, <2>8, <2>9, <2>10, <2>11, <2>13, <3>1, <1>4 DEF Update!Owes, Update!Timers, Update!NoTimer
  <2>14. CASE o.failures \in 3..4
    <3>1. f = 4 BY <2>4, <2>5, <2>14
    <3> QED BY <2>1, <2>8, <2>9, <2>10, <2>11, <3>1, <1>4 DEF Update!Owes
  <2> QED BY <2>2, <2>12, <2>13, <2>14
<1> QED BY <1>1, <1>2, <1>3, <1>4

\* A step that starts with the mutex free and leaves the installers alone.
LEMMA OtaGoesOn ==
    ASSUME Update!OtaInv, Update!Unlocked, NEW x \in Update!Managers, x3' = x, x4' \in Update!Files, Update!Mirrors(x, x4'), Update!Owes(x, x4', x14'),
           x5' = "none", UNCHANGED <<x1, x8, x9, x13, x12>>,
           x6' \in Update!Tasks, x7' \in Update!Tasks,
           x.state = "installing" => x.latest = x3.latest /\ x.wait = x3.wait /\ x7' = x7,
           x.state # "installing" => \A s \in Slots : x9[s].pc = "none",
           x6'.pc \in {"free", "ready", "install"}, x6'.kind \notin {"auto", "plain"},
           x6'.pc # "free" => x.busy = TRUE /\ x.state # "installing" /\ (x7'.pc = "free" \/ x7'.kind = "plain"),
           x7'.pc \in {"free", "ready", "install"}, x7'.kind = "plain" => x7'.pc = "ready",
           x7'.pc # "free" => x.state # "installing"
    PROVE  Update!OtaInv'
<1>1. Update!Shapes' BY DEF Update!OtaInv, Update!Shapes
<1>2. Update!Locks' BY DEF Update!Locks
<1>3. Update!Awaited' BY DEF Update!OtaInv, Update!Awaited, Update!Unlocked
<1>4. Update!Mirrors(x3, x4)' BY DEF Update!Mirrors
<1>5. Update!Owes(x3, x4, x14)' BY DEF Update!Owes, Update!Delay, Update!NoTimer
<1> QED BY <1>1, <1>2, <1>3, <1>4, <1>5 DEF Update!OtaInv

\* What a handler knows once it has read the result.
LEMMA OtaReads ==
    ASSUME Update!OtaInv, Update!Unlocked, NEW o, o = Update!Settle(x3, x5, x1), NEW e, e = Update!CoolAfter(x3, x5, x1)
    PROVE  /\ o \in Update!Managers /\ o.busy = x3.busy /\ Update!Owes(o, Update!Stored(o), e)
           /\ o.state = "succeeded" => o.failures = 0
           /\ o.state = "installing" => o = x3
           /\ o.state # "installing" => \A s \in Slots : x9[s].pc = "none"
           /\ o.state = "succeeded" /\ x3.state # "succeeded" => o.latest = x1 /\ x1 \in x13
           /\ \/ o = x3 /\ x5 = "none" /\ e = x14
              \/ x5 # "none"
              \/ x3.state = "installing" /\ o.state # "installing"
<1>1. x3 \in Update!Managers /\ x5 \in {"none", "success", "failed"} /\ x1 \in Int BY DEF Update!OtaInv, Update!Shapes
<1>2. Update!Owes(x3, x4, x14) /\ (x3.state = "succeeded" => x3.failures = 0) BY DEF Update!OtaInv, Update!Mirrors
<1>3. e = IF Update!TimedOut(x3, x5) THEN Update!Delay(Update!OneMore(x3.failures))
          ELSE IF x5 = "success" /\ x3.latest = x1 THEN 0 ELSE x14
    BY DEF Update!CoolAfter
<1>4. /\ o \in Update!Managers /\ o.busy = x3.busy /\ Update!Owes(o, Update!Stored(o), e)
      /\ o.state = "succeeded" => o.failures = 0
      /\ \/ o = x3 /\ x5 = "none" /\ ~Update!TimedOut(x3, x5) /\ e = x14
         \/ /\ x5 # "none" \/ Update!TimedOut(x3, x5)
            /\ o.state \in {"error", "blocked"}
         \/ /\ x5 = "success" /\ x3.latest = x1 /\ o.latest = x1
            /\ o.state = "succeeded"
  BY <1>1, <1>2, <1>3, OtaSettle
<1>5. x5 # "none" => x3.state = "installing" /\ \A s \in Slots : x9[s].pc = "none" BY DEF Update!OtaInv, Update!Awaited
<1>6. Update!TimedOut(x3, x5) => x3.state = "installing" /\ \A s \in Slots : x9[s].pc = "none"
  BY DEF Update!TimedOut, Update!OtaInv, Update!Awaited
<1>7. x3.state # "installing" => \A s \in Slots : x9[s].pc = "none" BY DEF Update!OtaInv, Update!Awaited
<1>8. x5 = "success" => x3.latest \in x13 BY DEF Update!OtaInv, Update!Awaited
<1>9. CASE o = x3 /\ x5 = "none" /\ ~Update!TimedOut(x3, x5) /\ e = x14 BY <1>4, <1>7, <1>9
<1>10. CASE (x5 # "none" \/ Update!TimedOut(x3, x5)) /\ o.state \in {"error", "blocked"} BY <1>4, <1>5, <1>6, <1>10
<1>11. CASE x5 = "success" /\ x3.latest = x1 /\ o.latest = x1 /\ o.state = "succeeded" BY <1>4, <1>5, <1>8, <1>11
<1> QED BY <1>4, <1>9, <1>10, <1>11

\* What it then saves, having begun or not.
LEMMA OtaReconciles ==
    ASSUME Update!OtaInv, Update!Unlocked, NEW o, o = Update!Settle(x3, x5, x1), x14' = Update!CoolAfter(x3, x5, x1),
           NEW x \in Update!Managers, Update!Reconcile(x), x.failures = o.failures, x.retry = o.retry,
           x = o \/ (x.state = "checking" /\ o.state # "installing")
    PROVE  /\ x3' = x /\ x4' \in Update!Files /\ Update!Mirrors(x, x4') /\ Update!Owes(x, x4', x14')
           /\ x5' = "none" /\ x12' = x12
<1>1. /\ o \in Update!Managers /\ Update!Owes(o, Update!Stored(o), x14') /\ (o.state = "succeeded" => o.failures = 0)
      /\ \/ o = x3 /\ x5 = "none" /\ x14' = x14
         \/ x5 # "none"
         \/ x3.state = "installing" /\ o.state # "installing"
  BY OtaReads
<1>2. Update!Owes(x, Update!Stored(x), x14') BY <1>1, OtaOwesStored
<1>3. CASE x = x3 /\ x5 = "none"
  <2>1. x14' = x14 BY <1>1, <1>3
  <2>2. UNCHANGED <<x3, x4, x12, x5>> BY <1>3 DEF Update!Reconcile
  <2> QED BY <1>3, <2>1, <2>2 DEF Update!OtaInv, Update!Shapes
<1>4. CASE ~(x = x3 /\ x5 = "none")
  <2>1. Update!Save(x) /\ x5' = "none" BY <1>4 DEF Update!Reconcile
  <2>2. x.state = "succeeded" => x.failures = 0 BY <1>1
  <2>3. x3' = x /\ x4' = Update!Stored(x) /\ x12' = x12 /\ x4' \in Update!Files /\ Update!Mirrors(x, x4')
    BY <2>1, <2>2, OtaSaves
  <2> QED BY <1>2, <2>1, <2>3
<1> QED BY <1>3, <1>4

\* Nobody waits for the mutex when an update may begin.
LEMMA OtaNobodyWaits ==
    ASSUME Update!OtaInv, NEW o, Update!MayBegin(o), o.busy = x3.busy PROVE x6.pc = "free" /\ o.state # "installing"
<1>1. ~o.busy /\ o.state # "installing" BY DEF Update!MayBegin
<1>2. o.busy # TRUE BY <1>1, Zenon
<1> QED BY <1>1, <1>2 DEF Update!OtaInv, Update!Locks

LEMMA OtaNoJob == Update!NoJob \in Update!Tasks /\ Update!NoJob.pc = "free" /\ Update!NoJob.kind = "none"
BY DEF Update!NoJob, Update!Tasks, Update!NoVersion

LEMMA OtaJobs ==
    ASSUME NEW k \in {"auto", "plain", "update", "app_check", "app_install", "nms_check", "nms_install"},
           NEW pc \in {"ready", "install"}, NEW v \in Int
    PROVE  /\ Update!Job(k, pc, v) \in Update!Tasks /\ Update!Job(k, pc, v).kind = k /\ Update!Job(k, pc, v).pc = pc /\ Update!Job(k, pc, v).cand = v
           /\ Update!NoJob \in Update!Tasks /\ Update!NoJob.pc = "free" /\ Update!NoJob.kind = "none"
BY DEF Update!Job, Update!NoJob, Update!Tasks, Update!NoVersion

\* tick, and each of the App's and the NMS's requests that read the result
\* first, with what it begins.
LEMMA OtaBeginsOrNot ==
    ASSUME Update!OtaInv, Update!Unlocked, NEW o, o = Update!Settle(x3, x5, x1), x14' = Update!CoolAfter(x3, x5, x1),
           UNCHANGED <<x1, x8, x9, x13>>,
           \/ Update!Reconcile(o) /\ UNCHANGED <<x6, x7>>
           \/ /\ Update!MayBegin(o)
              /\ \E x \in Update!Managers : /\ Update!Reconcile(x) /\ x.state = "checking" /\ x.busy = TRUE
                                     /\ x.failures = o.failures /\ x.retry = o.retry
              /\ \/ UNCHANGED x7 /\ x6' \in Update!Tasks /\ x6'.pc = "ready" /\ x6'.kind = "app_check"
                 \/ /\ UNCHANGED x6 /\ x7' \in Update!Tasks /\ x7'.pc \in {"ready", "install"}
                    /\ x7'.kind # "plain" /\ (x7'.kind = "auto" => Update!RetryReady(o))
    PROVE  Update!OtaInv' /\ Update!Confirmed /\ Update!Cooled
<1>1. /\ o \in Update!Managers /\ o.busy = x3.busy
      /\ o.state = "installing" => o = x3
      /\ o.state # "installing" => \A s \in Slots : x9[s].pc = "none"
      /\ o.state = "succeeded" /\ x3.state # "succeeded" => o.latest = x1 /\ x1 \in x13
    BY OtaReads
<1>2. x6 \in Update!Tasks /\ x7 \in Update!Tasks /\ x7.pc = "free" BY DEF Update!OtaInv, Update!Shapes, Update!Unlocked
<1>3. CASE Update!Reconcile(o) /\ UNCHANGED <<x6, x7>>
  <2>1. /\ x3' = o /\ x4' \in Update!Files /\ Update!Mirrors(o, x4') /\ Update!Owes(o, x4', x14')
        /\ x5' = "none" /\ x12' = x12
    BY <1>1, <1>3, OtaReconciles
  <2>2. /\ x6.pc \in {"free", "ready", "install"} /\ x6.kind \notin {"auto", "plain"}
        /\ x6.pc # "free" => x3.busy = TRUE /\ x3.state # "installing"
        /\ x7.kind # "plain"
    BY <1>2 DEF Update!OtaInv, Update!Locks
  <2>3. x6.pc # "free" => o.busy = TRUE /\ o.state # "installing" BY <2>2, <1>1
  <2>4. Update!OtaInv' BY <1>1, <1>2, <1>3, <2>1, <2>2, <2>3, OtaGoesOn
  <2>5. Update!Confirmed BY <1>1, <2>1 DEF Update!Confirmed
  <2>6. Update!Cooled BY <1>3 DEF Update!Cooled
  <2> QED BY <2>4, <2>5, <2>6
<1>4. ASSUME Update!MayBegin(o), NEW x \in Update!Managers, Update!Reconcile(x), x.state = "checking", x.busy = TRUE, x.failures = o.failures,
             x.retry = o.retry,
             \/ UNCHANGED x7 /\ x6' \in Update!Tasks /\ x6'.pc = "ready" /\ x6'.kind = "app_check"
             \/ /\ UNCHANGED x6 /\ x7' \in Update!Tasks /\ x7'.pc \in {"ready", "install"}
                /\ x7'.kind # "plain" /\ (x7'.kind = "auto" => Update!RetryReady(o))
      PROVE  Update!OtaInv' /\ Update!Confirmed /\ Update!Cooled
  <2>1. x6.pc = "free" /\ o.state # "installing" BY <1>1, <1>4, OtaNobodyWaits
  <2>2. /\ x3' = x /\ x4' \in Update!Files /\ Update!Mirrors(x, x4') /\ Update!Owes(x, x4', x14')
        /\ x5' = "none" /\ x12' = x12
    BY <1>4, <2>1, OtaReconciles
  <2>3. x6.kind \notin {"auto", "plain"} /\ x7.kind # "plain" BY <1>2 DEF Update!OtaInv, Update!Locks
  <2>4. Update!OtaInv'
    <3>1. CASE UNCHANGED x7 /\ x6' \in Update!Tasks /\ x6'.pc = "ready" /\ x6'.kind = "app_check"
      BY <1>1, <1>2, <1>4, <2>1, <2>2, <2>3, <3>1, OtaGoesOn
    <3>2. CASE UNCHANGED x6 /\ x7' \in Update!Tasks /\ x7'.pc \in {"ready", "install"} /\ x7'.kind # "plain"
      BY <1>1, <1>2, <1>4, <2>1, <2>2, <2>3, <3>2, OtaGoesOn
    <3> QED BY <1>4, <3>1, <3>2
  <2>5. Update!Confirmed BY <1>4, <2>2 DEF Update!Confirmed
  <2>6. Update!Cooled
    <3> SUFFICES ASSUME x7.kind # "auto", x7'.kind = "auto" PROVE x14' = 0 \/ x3'.failures = 4 BY DEF Update!Cooled
    <3>1. Update!RetryReady(o) BY <1>4
    <3>2. x.retry \in {Update!NoTimer, 0} BY <3>1, <1>4 DEF Update!RetryReady
    <3>3. x.failures \in 0..4 /\ x14' \in Nat BY <2>2 DEF Update!Managers, Update!Owes
    <3> QED BY <2>2, <3>2, <3>3 DEF Update!Owes, Update!NoTimer
  <2> QED BY <2>4, <2>5, <2>6
<1> QED BY <1>3, <1>4

LEMMA OtaRound == ASSUME Update!OtaInv, Update!Round PROVE Update!OtaInv' /\ Update!Confirmed /\ Update!Cooled
<1> DEFINE o == Update!Settle(x3, x5, x1)
<1>1. Update!Unlocked /\ x14' = Update!CoolAfter(x3, x5, x1) /\ UNCHANGED <<x1, x8, x9, x13>> BY DEF Update!Round
<1>2. UNCHANGED x6 BY DEF Update!Round
<1>3. o \in Update!Managers BY <1>1, OtaReads
<1>4. Update!Begun(o) \in Update!Managers /\ Update!Begun(o).state = "checking" /\ Update!Begun(o).busy = TRUE /\ Update!Begun(o).failures = o.failures /\ Update!Begun(o).retry = o.retry
    BY <1>3, OtaBegun
<1>5. CASE Update!Reconcile(o) /\ UNCHANGED x7 BY <1>1, <1>2, <1>5, OtaBeginsOrNot
<1>6. CASE Update!ShouldAutoCheck(o) /\ Update!Reconcile([Update!Begun(o) EXCEPT !.next = AutoEvery]) /\ x7' = Update!Job("auto", "ready", Update!NoVersion)
  <2> DEFINE x == [Update!Begun(o) EXCEPT !.next = AutoEvery]
  <2>1. AutoEvery \in Update!Timers BY OtaAssumption DEF Update!Timers
  <2>2. x \in Update!Managers BY <1>4, <2>1 DEF Update!Managers
  <2>3. x.state = "checking" /\ x.busy = TRUE /\ x.failures = o.failures /\ x.retry = o.retry BY <1>4 DEF Update!Managers
  <2>4. Update!MayBegin(o) /\ Update!RetryReady(o) BY <1>6 DEF Update!ShouldAutoCheck
  <2>5. x7' \in Update!Tasks /\ x7'.pc = "ready" /\ x7'.kind = "auto" BY <1>6, OtaJobs DEF Update!NoVersion
  <2> HIDE DEF x, o
  <2> QED BY <1>1, <1>2, <1>6, <2>2, <2>3, <2>4, <2>5, OtaBeginsOrNot DEF o, x
<1>7. CASE Update!AutoCandidate(o) /\ Update!Reconcile(Update!Begun(o)) /\ x7' = Update!Job("auto", "install", o.cand)
  <2>1. Update!MayBegin(o) /\ Update!RetryReady(o) BY <1>7 DEF Update!AutoCandidate
  <2>2. o.cand \in Int BY <1>3 DEF Update!Managers
  <2>3. x7' \in Update!Tasks /\ x7'.pc = "install" /\ x7'.kind = "auto" BY <1>7, <2>2, OtaJobs
  <2> HIDE DEF o
  <2> QED BY <1>1, <1>2, <1>4, <1>7, <2>1, <2>3, OtaBeginsOrNot DEF o
<1> QED BY <1>5, <1>6, <1>7 DEF Update!Round

LEMMA OtaAppStatus == ASSUME Update!OtaInv, Update!AppStatus PROVE Update!OtaInv' /\ Update!Confirmed /\ Update!Cooled
BY OtaBeginsOrNot DEF Update!AppStatus

LEMMA OtaRequestCheck ==
    ASSUME Update!OtaInv, NEW k \in {"app_check", "nms_check", "nms_install"}, NEW v \in Int, Update!RequestCheck(k, v)
    PROVE  Update!OtaInv' /\ Update!Confirmed /\ Update!Cooled
<1> DEFINE o == Update!Settle(x3, x5, x1)
<1>1. Update!Unlocked /\ x14' = Update!CoolAfter(x3, x5, x1) /\ UNCHANGED <<x1, x8, x9, x13>> BY DEF Update!RequestCheck
<1>2. o \in Update!Managers BY <1>1, OtaReads
<1>3. Update!Begun(o) \in Update!Managers /\ Update!Begun(o).state = "checking" /\ Update!Begun(o).busy = TRUE /\ Update!Begun(o).failures = o.failures /\ Update!Begun(o).retry = o.retry
    BY <1>2, OtaBegun
<1>4. CASE ~Update!MayBegin(o)
  <2>1. Update!Reconcile(o) /\ UNCHANGED <<x6, x7>> BY <1>4 DEF Update!RequestCheck
  <2> QED BY <1>1, <2>1, OtaBeginsOrNot
<1>5. CASE Update!MayBegin(o)
  <2>1. Update!Reconcile(Update!Begun(o)) BY <1>5 DEF Update!RequestCheck
  <2>2. \/ UNCHANGED x7 /\ x6' = Update!Job("app_check", "ready", Update!NoVersion)
        \/ k # "app_check" /\ UNCHANGED x6 /\ x7' = Update!Job(k, "ready", v)
    BY <1>5 DEF Update!RequestCheck
  <2>3. \/ UNCHANGED x7 /\ x6' \in Update!Tasks /\ x6'.pc = "ready" /\ x6'.kind = "app_check"
        \/ UNCHANGED x6 /\ x7' \in Update!Tasks /\ x7'.pc = "ready" /\ x7'.kind \notin {"plain", "auto"}
    BY <2>2, OtaJobs DEF Update!NoVersion
  <2> HIDE DEF o
  <2> QED BY <1>1, <1>3, <1>5, <2>1, <2>3, OtaBeginsOrNot DEF o
<1> QED BY <1>4, <1>5

\* When nothing is installing there is no installer and no result.
LEMMA OtaQuiet ==
    ASSUME Update!OtaInv, x3.state # "installing" PROVE x5 = "none" /\ \A s \in Slots : x9[s].pc = "none"
BY DEF Update!OtaInv, Update!Awaited

\* ota_app_install and ota_update.
LEMMA OtaBegins ==
    ASSUME Update!OtaInv, Update!Unlocked, Update!MayBegin(x3), Update!Save(Update!Begun(x3)), x14' = x14,
           UNCHANGED <<x1, x5, x8, x9, x13, x7>>,
           x6' \in Update!Tasks, x6'.pc \in {"ready", "install"}, x6'.kind \in {"update", "app_install"}
    PROVE  Update!OtaInv' /\ Update!Confirmed /\ Update!Cooled
<1> DEFINE x == Update!Begun(x3)
<1>1. x3 \in Update!Managers /\ x7 \in Update!Tasks /\ x7.pc = "free" BY DEF Update!OtaInv, Update!Shapes, Update!Unlocked
<1>2. x \in Update!Managers /\ x.state = "checking" /\ x.busy = TRUE /\ x.failures = x3.failures /\ x.retry = x3.retry BY <1>1, OtaBegun
<1>3. x6.pc = "free" /\ x3.state # "installing" BY OtaNobodyWaits
<1>4. x5 = "none" /\ \A s \in Slots : x9[s].pc = "none" BY <1>3, OtaQuiet
<1> HIDE DEF x
<1>5. x3' = x /\ x4' = Update!Stored(x) /\ x12' = x12 /\ x4' \in Update!Files /\ Update!Mirrors(x, x4') BY <1>2, OtaSaves DEF x
<1>6. Update!Owes(x, x4', x14') BY <1>1, <1>2, <1>5, OtaOwesStored DEF Update!OtaInv
<1>7. x7.kind # "plain" BY <1>1 DEF Update!OtaInv, Update!Locks
<1>8. Update!OtaInv' BY <1>1, <1>2, <1>4, <1>5, <1>6, <1>7, OtaGoesOn
<1> QED BY <1>2, <1>5, <1>8 DEF Update!Confirmed, Update!Cooled

LEMMA OtaAppInstall == ASSUME Update!OtaInv, Update!AppInstall PROVE Update!OtaInv' /\ Update!Confirmed /\ Update!Cooled
<1>1. x3.cand \in Int BY DEF Update!OtaInv, Update!Shapes, Update!Managers
<1>2. x6' \in Update!Tasks /\ x6'.pc = "install" /\ x6'.kind = "app_install" BY <1>1, OtaJobs DEF Update!AppInstall
<1> QED BY <1>2, OtaBegins DEF Update!AppInstall, Update!history

LEMMA OtaUpdate == ASSUME Update!OtaInv, Update!Update PROVE Update!OtaInv' /\ Update!Confirmed /\ Update!Cooled
<1>1. x6' \in Update!Tasks /\ x6'.pc = "ready" /\ x6'.kind = "update" BY OtaJobs DEF Update!Update, Update!NoVersion
<1> QED BY <1>1, OtaBegins DEF Update!Update, Update!history

\* The manager stays as it is; the mutex and who waits for it change.
LEMMA OtaTurns ==
    ASSUME Update!OtaInv, Update!Unlocked, x3.state # "installing",
           UNCHANGED <<x1, x3, x4, x5, x8, x9, x12, x13, x14>>,
           x6' \in Update!Tasks, x7' \in Update!Tasks,
           x6'.pc \in {"free", "ready", "install"}, x6'.kind \notin {"auto", "plain"},
           x6'.pc # "free" => x3.busy = TRUE /\ (x7'.pc = "free" \/ x7'.kind = "plain"),
           x7'.pc \in {"free", "ready", "install"}, x7'.kind = "plain" => x7'.pc = "ready", x7'.kind # "auto"
    PROVE  Update!OtaInv' /\ Update!Confirmed /\ Update!Cooled
<1>1. x5 = "none" /\ \A s \in Slots : x9[s].pc = "none" BY OtaQuiet
<1>2. x3 \in Update!Managers /\ x4 \in Update!Files /\ Update!Mirrors(x3, x4) /\ Update!Owes(x3, x4, x14) BY DEF Update!OtaInv, Update!Shapes
<1> DEFINE x == x3
           d == x4
           c == x14
<1>3. x \in Update!Managers /\ x3' = x /\ x4' = d /\ x14' = c /\ Update!Mirrors(x, d) /\ Update!Owes(x, d, c) /\ x4' \in Update!Files BY <1>2
<1>4. Update!Mirrors(x, x4') /\ Update!Owes(x, x4', x14') BY <1>3
<1>5. Update!OtaInv' BY <1>1, <1>3, <1>4, OtaGoesOn
<1> QED BY <1>3, <1>5 DEF Update!Confirmed, Update!Cooled

LEMMA OtaPlainCheck == ASSUME Update!OtaInv, Update!PlainCheck PROVE Update!OtaInv' /\ Update!Confirmed /\ Update!Cooled
<1>1. x7' \in Update!Tasks /\ x7'.pc = "ready" /\ x7'.kind = "plain" BY OtaJobs DEF Update!PlainCheck, Update!NoVersion
<1>2. x6 \in Update!Tasks BY DEF Update!OtaInv, Update!Shapes
<1>3. /\ x6.pc \in {"free", "ready", "install"} /\ x6.kind \notin {"auto", "plain"}
      /\ x6.pc # "free" => x3.busy = TRUE
    BY DEF Update!OtaInv, Update!Locks
<1> QED BY <1>1, <1>2, <1>3, OtaTurns DEF Update!PlainCheck, Update!history

LEMMA OtaTakeLock == ASSUME Update!OtaInv, Update!TakeLock PROVE Update!OtaInv' /\ Update!Confirmed /\ Update!Cooled
<1>1. x7' = x6 /\ x6' = Update!NoJob /\ x6.pc # "free" BY DEF Update!TakeLock
<1>2. x6 \in Update!Tasks BY DEF Update!OtaInv, Update!Shapes
<1>4. Update!NoJob \in Update!Tasks /\ Update!NoJob.pc = "free" /\ Update!NoJob.kind = "none" BY OtaNoJob
<1>3. x6.pc \in {"free", "ready", "install"} /\ x6.kind \notin {"auto", "plain"} /\ x3.state # "installing"
    BY <1>1 DEF Update!OtaInv, Update!Locks
<1> QED BY <1>1, <1>2, <1>3, <1>4, OtaTurns DEF Update!TakeLock, Update!history

LEMMA OtaUpdateConfig == ASSUME Update!OtaInv, NEW on, Update!UpdateConfig(on) PROVE Update!OtaInv' /\ Update!Confirmed /\ Update!Cooled
<1> DEFINE x == [x3 EXCEPT !.cand = Update!NoVersion, !.verified = FALSE, !.latest = Update!NoVersion, !.state = "idle"]
<1>a. Update!Unlocked /\ Update!MayBegin(x3) /\ Update!Save(x) /\ UNCHANGED <<x1, x5, x7, x8, x9, x13, x14>>
    BY DEF Update!UpdateConfig, Update!history
<1>b. x6' = [x6 EXCEPT !.stale = (x6.pc # "free")] BY DEF Update!UpdateConfig
<1>1. x3 \in Update!Managers /\ x7 \in Update!Tasks /\ x7.pc = "free" /\ x6 \in Update!Tasks BY <1>a DEF Update!OtaInv, Update!Shapes, Update!Unlocked
<1>c. Update!NoVersion \in Int /\ "idle" \in Update!States /\ FALSE \in BOOLEAN BY DEF Update!NoVersion, Update!States
<1>2. x \in Update!Managers BY <1>1, <1>c DEF Update!Managers
<1>3. x.state = "idle" /\ x.failures = x3.failures /\ x.retry = x3.retry BY <1>1 DEF Update!Managers
<1> HIDE DEF x
<1>4. x6.pc = "free" /\ x3.state # "installing" BY <1>a, OtaNobodyWaits
<1>5. x5 = "none" /\ \A s \in Slots : x9[s].pc = "none" BY <1>4, OtaQuiet
<1>6. x3' = x /\ x4' = Update!Stored(x) /\ x12' = x12 /\ x4' \in Update!Files /\ Update!Mirrors(x, x4') BY <1>a, <1>2, <1>3, OtaSaves
<1>7. Update!Owes(x, x4', x14') BY <1>a, <1>1, <1>2, <1>3, <1>6, OtaOwesStored DEF Update!OtaInv
<1>8. x6' = [x6 EXCEPT !.stale = FALSE] BY <1>b, <1>4
<1>9. x6' \in Update!Tasks /\ x6'.pc = "free" /\ x6'.kind = x6.kind BY <1>1, <1>4, <1>8 DEF Update!Tasks
<1>10. x6.kind \notin {"auto", "plain"} /\ x7.kind # "plain" BY <1>1 DEF Update!OtaInv, Update!Locks
<1>11. Update!OtaInv' BY <1>a, <1>1, <1>2, <1>3, <1>5, <1>6, <1>7, <1>9, <1>10, OtaGoesOn
<1> QED BY <1>a, <1>3, <1>6, <1>11 DEF Update!Confirmed, Update!Cooled

\* A step of the operation that has the mutex.
LEMMA OtaWorks ==
    ASSUME Update!OtaInv, x7.pc # "free", NEW x \in Update!Managers, x3' = x, x4' \in Update!Files, Update!Mirrors(x, x4'), Update!Owes(x, x4', x14'),
           UNCHANGED <<x1, x6, x9, x13, x12>>, x5' \in {x5, "none"},
           x8' \in Update!NmsRecords, x7' \in Update!Tasks,
           x7'.kind = "plain" => x7.kind = "plain" /\ x7'.pc = "check",
           x7.kind = "plain" => x.busy = x3.busy /\ x.state # "installing" /\ (x7'.pc = "free" \/ x7'.kind = "plain"),
           x7'.pc \in {"free", "check", "install", "download", "spawn"},
           x7'.pc = "spawn" <=> x.state = "installing",
           x7'.pc = "spawn" => x.latest = x7'.cand /\ x.wait > 0
    PROVE  Update!OtaInv' /\ x5' = "none"
<1>0. x5 = "none" /\ x5' = "none" /\ \A s \in Slots : x9[s].pc = "none" BY DEF Update!OtaInv, Update!Awaited
<1>1. Update!Shapes' BY <1>0 DEF Update!OtaInv, Update!Shapes
<1>2. Update!Locks' BY DEF Update!OtaInv, Update!Locks
<1>3. Update!Awaited' BY <1>0 DEF Update!OtaInv, Update!Awaited
<1>4. Update!Mirrors(x3, x4)' BY DEF Update!Mirrors
<1>5. Update!Owes(x3, x4, x14)' BY DEF Update!Owes, Update!Delay, Update!NoTimer
<1> QED BY <1>0, <1>1, <1>2, <1>3, <1>4, <1>5 DEF Update!OtaInv

\* The record of an NMS command.
LEMMA OtaNmsEnds ==
    ASSUME Update!OtaInv, NEW st \in {"none", "installing", "succeeded", "failed", "checked"}, Update!NmsEnds(st)
    PROVE  x8' \in Update!NmsRecords
<1>1. x8 \in Update!NmsRecords BY DEF Update!OtaInv, Update!Shapes
<1>2. [x8 EXCEPT !.status = st] \in Update!NmsRecords BY <1>1 DEF Update!NmsRecords
<1> QED BY <1>1, <1>2 DEF Update!NmsEnds

\* An operation that ends, with and without a failure.
LEMMA OtaEndOk ==
    ASSUME Update!OtaInv, x7.pc # "free", NEW o \in Update!Managers, Update!EndOk(o), o.failures = x3.failures, o.retry = x3.retry,
           o.state # "installing", o.state = "succeeded" => x3.state = "succeeded",
           x7.kind # "plain", UNCHANGED <<x1, x6, x9, x13>>, x5' \in {x5, "none"}, x8' \in Update!NmsRecords
    PROVE  Update!OtaInv' /\ Update!Confirmed /\ Update!Cooled
<1> DEFINE x == Update!Finished(o)
<1>1. /\ x \in Update!Managers /\ x.busy = FALSE /\ x.state = o.state /\ x.latest = o.latest /\ x.failures = o.failures
      /\ x.retry = o.retry /\ x.wait = o.wait
    BY OtaFinished
<1>2. x3 \in Update!Managers /\ x4 \in Update!Files /\ Update!Mirrors(x3, x4) /\ Update!Owes(x3, x4, x14) BY DEF Update!OtaInv, Update!Shapes
<1>3. Update!NoJob \in Update!Tasks /\ Update!NoJob.pc = "free" /\ Update!NoJob.kind = "none" BY OtaNoJob
<1>4. x7' = Update!NoJob /\ x14' = x14 BY DEF Update!EndOk
<1>5. o.state = "succeeded" => o.failures = 0 BY <1>2 DEF Update!Mirrors
<1> HIDE DEF x
<1>6. x3' = x /\ x4' \in Update!Files /\ Update!Mirrors(x, x4') /\ Update!Owes(x, x4', x14') /\ x12' = x12
  <2>1. CASE o = x3
    <3>1. x3' = x /\ x4' = x4 /\ x12' = x12 BY <2>1 DEF Update!EndOk, Update!Keep, x
    <3>2. Update!Mirrors(x, x4) /\ Update!Owes(x, x4, x14) BY <1>1, <1>2, <2>1 DEF Update!Mirrors, Update!Owes
    <3> QED BY <1>2, <1>4, <3>1, <3>2
  <2>2. CASE o # x3
    <3>1. Update!Save(x) BY <2>2 DEF Update!EndOk, x
    <3>2. x3' = x /\ x4' = Update!Stored(x) /\ x12' = x12 /\ x4' \in Update!Files /\ Update!Mirrors(x, x4')
      BY <1>1, <1>5, <3>1, OtaSaves
    <3>3. Update!Owes(x, Update!Stored(x), x14) BY <1>1, <1>2, OtaOwesStored
    <3> QED BY <1>4, <3>2, <3>3
  <2> QED BY <2>1, <2>2
<1>7. Update!OtaInv' BY <1>1, <1>3, <1>4, <1>6, OtaWorks
<1>8. Update!Confirmed BY <1>1, <1>6 DEF Update!Confirmed
<1>9. Update!Cooled BY <1>3, <1>4 DEF Update!Cooled
<1> QED BY <1>7, <1>8, <1>9

LEMMA OtaEndFailed ==
    ASSUME Update!OtaInv, x7.pc # "free", NEW o \in Update!Managers, NEW n \in Int, Update!EndFailed(o, n),
           x7.kind # "plain", UNCHANGED <<x1, x6, x9, x13>>, x5' \in {x5, "none"}, x8' \in Update!NmsRecords
    PROVE  Update!OtaInv' /\ Update!Confirmed /\ Update!Cooled
<1> DEFINE y == Update!Fail(o, n)
           x == Update!Finished(y)
<1>1. y \in Update!Managers /\ y.state \in {"error", "blocked"} /\ Update!Owes(y, Update!Stored(y), Update!Delay(Update!OneMore(o.failures))) BY OtaFail
<1>2. x \in Update!Managers /\ x.state = y.state /\ x.failures = y.failures /\ x.retry = y.retry BY <1>1, OtaFinished
<1>3. Update!NoJob \in Update!Tasks /\ Update!NoJob.pc = "free" /\ Update!NoJob.kind = "none" BY OtaNoJob
<1>4. x7' = Update!NoJob /\ x14' = Update!Delay(Update!OneMore(o.failures)) /\ Update!Save(x) BY DEF Update!EndFailed
<1> HIDE DEF x, y
<1>5. x.state # "succeeded" /\ x.state # "installing" BY <1>1, <1>2
<1>6. x3' = x /\ x4' = Update!Stored(x) /\ x12' = x12 /\ x4' \in Update!Files /\ Update!Mirrors(x, x4')
  BY <1>2, <1>4, <1>5, OtaSaves
<1>7. Update!Owes(x, Update!Stored(x), x14') BY <1>1, <1>2, <1>4, OtaOwesStored
<1>8. Update!OtaInv' BY <1>2, <1>3, <1>4, <1>5, <1>6, <1>7, OtaWorks
<1>9. Update!Confirmed BY <1>5, <1>6 DEF Update!Confirmed
<1>10. Update!Cooled BY <1>3, <1>4 DEF Update!Cooled
<1> QED BY <1>8, <1>9, <1>10

\* An operation that goes on, with something saved.
LEMMA OtaGoesThrough ==
    ASSUME Update!OtaInv, x7.pc # "free", NEW x \in Update!Managers, Update!Save(x), x.failures = x3.failures, x.retry = x3.retry,
           x.state = "succeeded" => x3.state = "succeeded", x14' = x14,
           UNCHANGED <<x1, x6, x9, x13>>, x5' \in {x5, "none"}, x8' \in Update!NmsRecords,
           NEW pc \in {"check", "install", "download", "spawn"}, NEW c,
           x7' \in Update!Tasks, x7'.pc = pc, x7'.cand = c, x7'.kind = x7.kind,
           x7.kind = "plain" => x.busy = x3.busy /\ pc = "check",
           pc = "spawn" <=> x.state = "installing", pc = "spawn" => x.latest = c /\ x.wait > 0
    PROVE  Update!OtaInv' /\ Update!Confirmed /\ Update!Cooled
<1>1. x3 \in Update!Managers /\ x7 \in Update!Tasks /\ Update!Mirrors(x3, x4) /\ Update!Owes(x3, x4, x14) BY DEF Update!OtaInv, Update!Shapes
<1>4. x.state = "succeeded" => x.failures = 0 BY <1>1 DEF Update!Mirrors
<1>5. x3' = x /\ x4' = Update!Stored(x) /\ x12' = x12 /\ x4' \in Update!Files /\ Update!Mirrors(x, x4') BY <1>4, OtaSaves
<1>6. Update!Owes(x, Update!Stored(x), x14) BY <1>1, OtaOwesStored
<1>7. Update!Owes(x, x4', x14') BY <1>5, <1>6
<1>8. Update!OtaInv' BY <1>5, <1>7, OtaWorks
<1>9. Update!Confirmed BY <1>5 DEF Update!Confirmed
<1>10. Update!Cooled BY DEF Update!Cooled
<1> QED BY <1>8, <1>9, <1>10

LEMMA OtaToInstall ==
    ASSUME Update!OtaInv, x7.pc # "free", x7.kind # "plain", NEW x \in Update!Managers, NEW c \in Int, Update!ToInstall(x, c),
           x.failures = x3.failures, x.retry = x3.retry, x.state = "succeeded" => x3.state = "succeeded",
           x.state # "installing", UNCHANGED <<x1, x6, x9, x13>>, x5' \in {x5, "none"}, x8' \in Update!NmsRecords
    PROVE  Update!OtaInv' /\ Update!Confirmed /\ Update!Cooled
<1>1. Update!Save(x) /\ x7' = [x7 EXCEPT !.pc = "install", !.cand = c] /\ x14' = x14 BY DEF Update!ToInstall
<1>2. x7 \in Update!Tasks BY DEF Update!OtaInv, Update!Shapes
<1>3. [x7 EXCEPT !.pc = "install", !.cand = c] \in Update!Tasks BY <1>2 DEF Update!Tasks
<1>4. x7' \in Update!Tasks /\ x7'.pc = "install" /\ x7'.cand = c /\ x7'.kind = x7.kind BY <1>1, <1>2, <1>3 DEF Update!Tasks
<1> QED BY <1>1, <1>4, OtaGoesThrough

LEMMA OtaAfterCheck ==
    ASSUME Update!OtaInv, x7.pc \in {"ready", "check"}, NEW o \in Update!Managers, NEW found \in Int, Update!AfterCheck(o, found),
           o.failures = x3.failures, o.retry = x3.retry, o.busy = x3.busy, o.state # "installing",
           o.state = "succeeded" => x3.state = "succeeded", UNCHANGED <<x1, x6, x9, x13>>
    PROVE  Update!OtaInv' /\ Update!Confirmed /\ Update!Cooled
<1>1. x8 \in Update!NmsRecords /\ x7 \in Update!Tasks /\ x1 \in Int BY DEF Update!OtaInv, Update!Shapes
<1>2. o.latest \in Int /\ o.cand \in Int BY DEF Update!Managers
<1>3. CASE x7.kind = "plain"
  <2>1. /\ IF o = x3 THEN Update!Keep(o) ELSE Update!Save(o)
        /\ x7' = Update!NoJob /\ UNCHANGED <<x14, x8, x5>>
    BY <1>3 DEF Update!AfterCheck
  <2>2. Update!NoJob \in Update!Tasks /\ Update!NoJob.pc = "free" /\ Update!NoJob.kind = "none" BY OtaNoJob
  <2>3. x3 \in Update!Managers /\ x4 \in Update!Files /\ Update!Mirrors(x3, x4) /\ Update!Owes(x3, x4, x14) BY DEF Update!OtaInv, Update!Shapes
  <2>4. x3' = o /\ x4' \in Update!Files /\ Update!Mirrors(o, x4') /\ Update!Owes(o, x4', x14') /\ x12' = x12
    <3>1. CASE o = x3 BY <2>1, <2>3, <3>1 DEF Update!Keep
    <3>2. CASE o # x3
      <4>1. Update!Save(o) BY <2>1, <3>2
      <4>2. o.state = "succeeded" => o.failures = 0 BY <2>3 DEF Update!Mirrors
      <4>3. x3' = o /\ x4' = Update!Stored(o) /\ x12' = x12 /\ x4' \in Update!Files /\ Update!Mirrors(o, x4')
        BY <4>1, <4>2, OtaSaves
      <4>4. Update!Owes(o, Update!Stored(o), x14) BY <2>3, OtaOwesStored
      <4> QED BY <2>1, <4>3, <4>4
    <3> QED BY <3>1, <3>2
  <2>5. Update!OtaInv' BY <1>1, <2>1, <2>2, <2>4, OtaWorks
  <2> QED BY <2>1, <2>2, <2>4, <2>5 DEF Update!Confirmed, Update!Cooled
<1>4. CASE x7.kind = "app_check"
  <2>1. Update!EndOk(o) /\ UNCHANGED <<x8, x5>> BY <1>4 DEF Update!AfterCheck
  <2> QED BY <1>1, <1>4, <2>1, OtaEndOk
<1>5. CASE x7.kind = "auto"
  <2> DEFINE f == Update!Finished(o)
             x == Update!Begun(f)
  <2>1. (Update!ToInstall(x, f.cand) \/ Update!EndOk(o)) /\ UNCHANGED <<x8, x5>> BY <1>5 DEF Update!AfterCheck
  <2>2. f \in Update!Managers /\ f.failures = o.failures /\ f.retry = o.retry /\ f.cand = o.cand BY OtaFinished
  <2>3. x \in Update!Managers /\ x.state = "checking" /\ x.failures = f.failures /\ x.retry = f.retry BY <2>2, OtaBegun
  <2> HIDE DEF x, f
  <2>4. CASE Update!ToInstall(x, f.cand) BY <1>1, <1>2, <1>5, <2>1, <2>2, <2>3, <2>4, OtaToInstall
  <2>5. CASE Update!EndOk(o) BY <1>1, <1>5, <2>1, <2>5, OtaEndOk
  <2> QED BY <2>1, <2>4, <2>5
<1>6. CASE x7.kind = "update"
  <2>1. (Update!EndFailed(o, o.latest) \/ Update!EndFailed(o, found) \/ Update!ToInstall(o, found)) /\ UNCHANGED <<x8, x5>> BY <1>6 DEF Update!AfterCheck
  <2>2. CASE Update!EndFailed(o, o.latest) BY <1>1, <1>2, <1>6, <2>1, <2>2, OtaEndFailed
  <2>3. CASE Update!EndFailed(o, found) BY <1>1, <1>2, <1>6, <2>1, <2>3, OtaEndFailed
  <2>4. CASE Update!ToInstall(o, found) BY <1>1, <1>2, <1>6, <2>1, <2>4, OtaToInstall
  <2> QED BY <2>1, <2>2, <2>3, <2>4
<1>7. CASE x7.kind = "nms_check"
  <2>1. ((Update!EndFailed(o, o.latest) /\ Update!NmsEnds("failed")) \/ (Update!EndOk(o) /\ Update!NmsEnds("checked"))) /\ UNCHANGED x5 BY <1>7 DEF Update!AfterCheck
  <2>2. x8' \in Update!NmsRecords BY <2>1, OtaNmsEnds
  <2>3. CASE Update!EndFailed(o, o.latest) BY <1>2, <1>7, <2>1, <2>2, <2>3, OtaEndFailed
  <2>4. CASE Update!EndOk(o) BY <1>7, <2>1, <2>2, <2>4, OtaEndOk
  <2> QED BY <2>1, <2>3, <2>4
<1>8. CASE x7.kind = "nms_install"
  <2>1. \/ Update!ToInstall(o, found) /\ x8' = [status |-> "installing", target |-> found] /\ x5' = "none"
        \/ Update!EndFailed(o, o.latest) /\ Update!NmsEnds("failed") /\ UNCHANGED x5
    BY <1>8 DEF Update!AfterCheck
  <2>2. CASE Update!ToInstall(o, found) /\ x8' = [status |-> "installing", target |-> found] /\ x5' = "none"
    <3>1. x8' \in Update!NmsRecords BY <2>2 DEF Update!NmsRecords
    <3> QED BY <1>8, <2>2, <3>1, OtaToInstall
  <2>3. CASE Update!EndFailed(o, o.latest) /\ Update!NmsEnds("failed") /\ UNCHANGED x5
    <3>1. x8' \in Update!NmsRecords BY <2>3, OtaNmsEnds
    <3> QED BY <1>2, <1>8, <2>3, <3>1, OtaEndFailed
  <2> QED BY <2>1, <2>2, <2>3
<1> QED BY <1>3, <1>4, <1>5, <1>6, <1>7, <1>8 DEF Update!AfterCheck

LEMMA OtaCheckStarts == ASSUME Update!OtaInv, Update!CheckStarts PROVE Update!OtaInv' /\ Update!Confirmed /\ Update!Cooled
<1>1. x3 \in Update!Managers /\ x7 \in Update!Tasks /\ x8 \in Update!NmsRecords /\ Update!NoVersion \in Int BY DEF Update!OtaInv, Update!Shapes, Update!NoVersion
<1>2. x7.pc = "ready" /\ UNCHANGED <<x1, x6, x9, x13>> BY DEF Update!CheckStarts
<1>3. x3.state # "installing" BY <1>2 DEF Update!OtaInv, Update!Locks
<1>4. CASE Update!AfterCheck(x3, Update!NoVersion) BY <1>1, <1>2, <1>3, <1>4, OtaAfterCheck
<1>5. CASE /\ Update!Save([x3 EXCEPT !.state = "checking", !.cand = Update!NoVersion, !.verified = FALSE, !.latest = Update!NoVersion])
           /\ x7' = [x7 EXCEPT !.pc = "check"]
           /\ UNCHANGED <<x14, x8, x5>>
  <2> DEFINE x == [x3 EXCEPT !.state = "checking", !.cand = Update!NoVersion, !.verified = FALSE, !.latest = Update!NoVersion]
  <2>1. "checking" \in Update!States /\ FALSE \in BOOLEAN BY DEF Update!States
  <2>2. x \in Update!Managers BY <1>1, <2>1 DEF Update!Managers
  <2>3. x.state = "checking" /\ x.failures = x3.failures /\ x.retry = x3.retry /\ x.busy = x3.busy BY <1>1 DEF Update!Managers
  <2>4. [x7 EXCEPT !.pc = "check"] \in Update!Tasks BY <1>1 DEF Update!Tasks
  <2>5. x7' \in Update!Tasks /\ x7'.pc = "check" /\ x7'.kind = x7.kind BY <1>1, <1>5, <2>4 DEF Update!Tasks
  <2>6. Update!Save(x) BY <1>5
  <2> HIDE DEF x
  <2> QED BY <1>1, <1>2, <1>5, <2>2, <2>3, <2>5, <2>6, OtaGoesThrough
<1> QED BY <1>4, <1>5 DEF Update!CheckStarts

LEMMA OtaCheckEnds == ASSUME Update!OtaInv, NEW found \in Int, Update!CheckEnds(found) PROVE Update!OtaInv' /\ Update!Confirmed /\ Update!Cooled
<1>1. x3 \in Update!Managers /\ x1 \in Int /\ TRUE \in BOOLEAN BY DEF Update!OtaInv, Update!Shapes
<1>2. x7.pc = "check" /\ UNCHANGED <<x1, x6, x9, x13>> BY DEF Update!CheckEnds
<1>3. "error" \in Update!States /\ "available" \in Update!States /\ "idle" \in Update!States BY DEF Update!States
<1>4. ASSUME Update!AfterCheck([x3 EXCEPT !.state = "error"], found) PROVE Update!OtaInv' /\ Update!Confirmed /\ Update!Cooled
  <2> DEFINE x == [x3 EXCEPT !.state = "error"]
  <2>1. x \in Update!Managers BY <1>1, <1>3 DEF Update!Managers
  <2>2. x.state = "error" /\ x.failures = x3.failures /\ x.retry = x3.retry /\ x.busy = x3.busy BY <1>1 DEF Update!Managers
  <2>3. Update!AfterCheck(x, found) BY <1>4
  <2> HIDE DEF x
  <2> QED BY <1>2, <2>1, <2>2, <2>3, OtaAfterCheck
<1>5. ASSUME NEW st \in {"available", "idle"}, NEW n \in Int,
             Update!AfterCheck([x3 EXCEPT !.cand = found, !.verified = TRUE, !.state = st, !.latest = n], found)
      PROVE  Update!OtaInv' /\ Update!Confirmed /\ Update!Cooled
  <2> DEFINE x == [x3 EXCEPT !.cand = found, !.verified = TRUE, !.state = st, !.latest = n]
  <2>0. st \in Update!States BY <1>3
  <2>1. x \in Update!Managers BY <1>1, <2>0 DEF Update!Managers
  <2>2. x.state = st /\ x.failures = x3.failures /\ x.retry = x3.retry /\ x.busy = x3.busy BY <1>1 DEF Update!Managers
  <2>3. Update!AfterCheck(x, found) BY <1>5
  <2> HIDE DEF x
  <2> QED BY <1>2, <2>1, <2>2, <2>3, OtaAfterCheck
<1> QED BY <1>1, <1>4, <1>5 DEF Update!CheckEnds

LEMMA OtaSafetyWaits == ASSUME Update!OtaInv, Update!SafetyWaits PROVE Update!OtaInv' /\ Update!Confirmed /\ Update!Cooled
<1> DEFINE x == [x3 EXCEPT !.state = "waiting_idle"]
<1>1. x3 \in Update!Managers /\ x7 \in Update!Tasks /\ "waiting_idle" \in Update!States BY DEF Update!OtaInv, Update!Shapes, Update!States
<1>2. x \in Update!Managers BY <1>1 DEF Update!Managers
<1>3. x.state = "waiting_idle" /\ x.failures = x3.failures /\ x.retry = x3.retry /\ x.latest \in Int BY <1>1 DEF Update!Managers
<1>4. Update!EndOk(x) \/ Update!EndFailed(x, x.latest) \/ Update!EndFailed(x, x7.cand) BY DEF Update!SafetyWaits
<1>5. x7.pc = "install" /\ Update!NmsEnds("failed") /\ UNCHANGED <<x1, x6, x9, x13, x5>> BY DEF Update!SafetyWaits
<1>6. x8' \in Update!NmsRecords BY <1>5, OtaNmsEnds
<1>7. x7.kind # "plain" /\ x7.cand \in Int BY <1>1, <1>5 DEF Update!OtaInv, Update!Locks, Update!Tasks
<1> HIDE DEF x
<1>8. CASE Update!EndOk(x) BY <1>2, <1>3, <1>5, <1>6, <1>7, <1>8, OtaEndOk
<1>9. CASE Update!EndFailed(x, x.latest) BY <1>2, <1>3, <1>5, <1>6, <1>7, <1>9, OtaEndFailed
<1>10. CASE Update!EndFailed(x, x7.cand) BY <1>2, <1>3, <1>5, <1>6, <1>7, <1>10, OtaEndFailed
<1> QED BY <1>4, <1>8, <1>9, <1>10

LEMMA OtaDownloads == ASSUME Update!OtaInv, Update!Downloads PROVE Update!OtaInv' /\ Update!Confirmed /\ Update!Cooled
<1> DEFINE x == [x3 EXCEPT !.state = "downloading"]
<1>1. x3 \in Update!Managers /\ x7 \in Update!Tasks /\ x8 \in Update!NmsRecords /\ "downloading" \in Update!States BY DEF Update!OtaInv, Update!Shapes, Update!States
<1>2. x \in Update!Managers BY <1>1 DEF Update!Managers
<1>3. x.state = "downloading" /\ x.failures = x3.failures /\ x.retry = x3.retry BY <1>1 DEF Update!Managers
<1>4. Update!Save(x) /\ x7.pc = "install" /\ UNCHANGED <<x1, x6, x9, x13, x5, x8, x14>> BY DEF Update!Downloads, Update!history
<1>5. [x7 EXCEPT !.pc = "download"] \in Update!Tasks BY <1>1 DEF Update!Tasks
<1>6. x7' \in Update!Tasks /\ x7'.pc = "download" /\ x7'.kind = x7.kind BY <1>1, <1>5 DEF Update!Tasks, Update!Downloads
<1>7. x7.kind # "plain" BY <1>4 DEF Update!OtaInv, Update!Locks
<1> HIDE DEF x
<1> QED BY <1>1, <1>2, <1>3, <1>4, <1>6, <1>7, OtaGoesThrough

LEMMA OtaInstallFails == ASSUME Update!OtaInv, Update!InstallFails PROVE Update!OtaInv' /\ Update!Confirmed /\ Update!Cooled
<1>1. x3 \in Update!Managers /\ x7 \in Update!Tasks BY DEF Update!OtaInv, Update!Shapes
<1>2. x3.latest \in Int /\ x7.cand \in Int BY <1>1 DEF Update!Managers, Update!Tasks
<1>3. /\ Update!EndFailed(x3, x3.latest) \/ Update!EndFailed(x3, x7.cand)
      /\ x7.pc \in {"install", "download", "spawn"} /\ Update!NmsEnds("failed")
      /\ UNCHANGED <<x1, x6, x9, x13, x5>>
    BY DEF Update!InstallFails
<1>4. x8' \in Update!NmsRecords BY <1>3, OtaNmsEnds
<1>5. x7.kind # "plain" BY <1>3 DEF Update!OtaInv, Update!Locks
<1>6. CASE Update!EndFailed(x3, x3.latest) BY <1>1, <1>2, <1>3, <1>4, <1>5, <1>6, OtaEndFailed
<1>7. CASE Update!EndFailed(x3, x7.cand) BY <1>1, <1>2, <1>3, <1>4, <1>5, <1>7, OtaEndFailed
<1> QED BY <1>3, <1>6, <1>7

LEMMA OtaInstalling == ASSUME Update!OtaInv, Update!Installing PROVE Update!OtaInv' /\ Update!Confirmed /\ Update!Cooled
<1> DEFINE x == [x3 EXCEPT !.latest = x7.cand, !.state = "installing", !.wait = InstallWait]
<1>1. x3 \in Update!Managers /\ x7 \in Update!Tasks /\ x8 \in Update!NmsRecords /\ "installing" \in Update!States BY DEF Update!OtaInv, Update!Shapes, Update!States
<1>2. x7.cand \in Int /\ InstallWait \in Update!Timers /\ InstallWait > 0 BY <1>1, OtaAssumption DEF Update!Tasks, Update!Timers
<1>3. x \in Update!Managers BY <1>1, <1>2 DEF Update!Managers
<1>4. x.state = "installing" /\ x.failures = x3.failures /\ x.retry = x3.retry /\ x.latest = x7.cand /\ x.wait = InstallWait
    BY <1>1 DEF Update!Managers
<1>5. /\ Update!Save(x) /\ x7.pc = "download" /\ UNCHANGED <<x1, x6, x9, x13, x8, x14>>
      /\ x5' = "none"
    BY DEF Update!Installing, Update!history
<1>6. [x7 EXCEPT !.pc = "spawn"] \in Update!Tasks BY <1>1 DEF Update!Tasks
<1>7. x7' \in Update!Tasks /\ x7'.pc = "spawn" /\ x7'.kind = x7.kind /\ x7'.cand = x7.cand
    BY <1>1, <1>6 DEF Update!Tasks, Update!Installing
<1>8. x7.kind # "plain" BY <1>5 DEF Update!OtaInv, Update!Locks
<1> HIDE DEF x
<1> QED BY <1>1, <1>2, <1>3, <1>4, <1>5, <1>7, <1>8, OtaGoesThrough

LEMMA OtaPlainDropped == ASSUME Update!OtaInv, Update!PlainDropped PROVE Update!OtaInv' /\ Update!Confirmed /\ Update!Cooled
<1>1. Update!NoJob \in Update!Tasks /\ Update!NoJob.pc = "free" /\ Update!NoJob.kind = "none" BY OtaNoJob
<1>2. x3 \in Update!Managers /\ x4 \in Update!Files /\ Update!Mirrors(x3, x4) /\ Update!Owes(x3, x4, x14) /\ x8 \in Update!NmsRecords BY DEF Update!OtaInv, Update!Shapes
<1>3. x7.kind = "plain" /\ x7' = Update!NoJob /\ UNCHANGED <<x1, x3, x4, x5, x6, x8, x9, x12, x13, x14>>
    BY DEF Update!PlainDropped, Update!history
<1>4. x7.pc \in {"ready", "check"} BY <1>3 DEF Update!OtaInv, Update!Locks
<1>5. x3.state # "installing" BY <1>4 DEF Update!OtaInv, Update!Locks
<1> DEFINE x == x3
           d == x4
           c == x14
<1>6. x \in Update!Managers /\ x3' = x /\ x4' = d /\ x14' = c /\ Update!Mirrors(x, d) /\ Update!Owes(x, d, c) /\ x4' \in Update!Files BY <1>2, <1>3
<1>7. Update!Mirrors(x, x4') /\ Update!Owes(x, x4', x14') BY <1>6
<1>8. Update!OtaInv' BY <1>1, <1>2, <1>3, <1>4, <1>5, <1>6, <1>7, OtaWorks
<1> QED BY <1>1, <1>3, <1>8 DEF Update!Confirmed, Update!Cooled

\* From "installing" with nothing yet at work to one installer at work.
LEMMA OtaSpawn == ASSUME Update!OtaInv, NEW s \in Slots, Update!Spawn(s) PROVE Update!OtaInv' /\ Update!Confirmed /\ Update!Cooled
<1> DEFINE x == Update!Finished(x3)
           n == [pc |-> "sleep", target |-> x7.cand, old |-> x1, nms |-> x7.kind = "nms_install"]
<1>1. x3 \in Update!Managers /\ x4 \in Update!Files /\ x7 \in Update!Tasks /\ x1 \in Int /\ x6 \in Update!Tasks /\ x8 \in Update!NmsRecords
    BY DEF Update!OtaInv, Update!Shapes
<1>2. /\ x \in Update!Managers /\ x.busy = FALSE /\ x.state = x3.state /\ x.latest = x3.latest /\ x.failures = x3.failures
      /\ x.retry = x3.retry /\ x.wait = x3.wait
    BY <1>1, OtaFinished
<1>3. x7.pc = "spawn" /\ x9' = [x9 EXCEPT ![s] = n] BY DEF Update!Spawn
<1>4. x3.state = "installing" /\ x3.latest = x7.cand /\ x3.wait > 0 /\ x6.pc = "free"
    BY <1>3 DEF Update!OtaInv, Update!Locks
<1>5. x5 = "none" /\ \A t \in Slots : x9[t].pc = "none" BY <1>3 DEF Update!OtaInv, Update!Awaited
<1>6. Update!NmsEnds("installing") /\ Update!EndOk(x3) /\ UNCHANGED <<x1, x5, x6, x13>> BY DEF Update!Spawn
<1>7. x3' = x /\ x4' = x4 /\ x12' = x12 /\ x14' = x14 /\ x7' = Update!NoJob BY <1>6 DEF Update!EndOk, Update!Keep
<1>8. x8' \in Update!NmsRecords BY <1>6, OtaNmsEnds
<1>9. x7.cand \in Int /\ (x7.kind = "nms_install") \in BOOLEAN BY <1>1 DEF Update!Tasks
<1>10. n \in Update!Scripts BY <1>1, <1>9 DEF Update!Scripts
<1>11. n.pc = "sleep" /\ n.target = x7.cand OBVIOUS
<1>12. x8'.status = "failed" => n.nms = FALSE
  <2> SUFFICES ASSUME n.nms # FALSE PROVE x8'.status = "installing" OBVIOUS
  <2>1. x7.kind = "nms_install" OBVIOUS
  <2> QED BY <1>1, <1>6, <2>1 DEF Update!NmsEnds, Update!NmsRecords
<1>13. Update!NoJob \in Update!Tasks /\ Update!NoJob.pc = "free" /\ Update!NoJob.kind = "none" BY OtaNoJob
<1> HIDE DEF x, n
<1>14. x9 \in [Slots -> Update!Scripts] BY DEF Update!OtaInv, Update!Shapes
<1>15. x9' \in [Slots -> Update!Scripts] /\ x9'[s] = n /\ \A t \in Slots : t # s => x9'[t].pc = "none"
    BY <1>3, <1>5, <1>10, <1>14
<1>16. Update!Shapes' BY <1>1, <1>2, <1>5, <1>6, <1>7, <1>8, <1>13, <1>15 DEF Update!OtaInv, Update!Shapes
<1>17. Update!Locks' BY <1>2, <1>4, <1>6, <1>7, <1>13 DEF Update!OtaInv, Update!Locks
<1>18. Update!Awaited' BY <1>2, <1>4, <1>5, <1>6, <1>7, <1>11, <1>12, <1>13, <1>15 DEF Update!Awaited
<1>19. Update!Mirrors(x3, x4)' BY <1>2, <1>7 DEF Update!OtaInv, Update!Mirrors
<1>20. Update!Owes(x3, x4, x14)' BY <1>2, <1>7 DEF Update!OtaInv, Update!Owes, Update!Delay, Update!NoTimer
<1>21. Update!OtaInv' BY <1>16, <1>17, <1>18, <1>19, <1>20 DEF Update!OtaInv
<1> QED BY <1>2, <1>7, <1>13, <1>21 DEF Update!Confirmed, Update!Cooled

LEMMA OtaCloudResult == ASSUME Update!OtaInv, Update!CloudResult PROVE Update!OtaInv' /\ Update!Confirmed /\ Update!Cooled
<1>1. UNCHANGED <<x1, x3, x4, x5, x6, x7, x9, x12, x13, x14>> BY DEF Update!CloudResult, Update!history
<1>2. x8 \in Update!NmsRecords BY DEF Update!OtaInv, Update!Shapes
<1>3. [x8 EXCEPT !.status = "succeeded"] \in Update!NmsRecords /\ [x8 EXCEPT !.status = "failed"] \in Update!NmsRecords BY <1>2 DEF Update!NmsRecords
<1>4. \/ x8' = [x8 EXCEPT !.status = "succeeded"]
      \/ x8' = [x8 EXCEPT !.status = "failed"] /\ (x5 # "none" \/ x3.state # "installing")
    BY DEF Update!CloudResult
<1>5. x8' \in Update!NmsRecords BY <1>3, <1>4
<1>6. x8'.status = "failed" => \A s \in Slots : x9[s].pc = "none"
    BY <1>2, <1>4 DEF Update!NmsRecords, Update!OtaInv, Update!Awaited
<1>7. Update!Shapes' BY <1>1, <1>5 DEF Update!OtaInv, Update!Shapes
<1>8. Update!Awaited' BY <1>1, <1>6 DEF Update!OtaInv, Update!Awaited
<1>9. Update!Locks' /\ Update!Mirrors(x3, x4)' /\ Update!Owes(x3, x4, x14)' BY <1>1 DEF Update!OtaInv, Update!Locks, Update!Mirrors, Update!Owes, Update!Delay, Update!NoTimer
<1> QED BY <1>1, <1>7, <1>8, <1>9 DEF Update!OtaInv, Update!Confirmed, Update!Cooled

LEMMA OtaLess ==
    ASSUME NEW t \in Update!Timers
    PROVE  /\ Update!Less(t) \in Update!Timers /\ (Update!Less(t) = Update!NoTimer <=> t = Update!NoTimer)
           /\ t > 0 /\ t # 1 => Update!Less(t) > 0
           /\ \A c \in Nat : (t >= c => Update!Less(t) >= Update!Less(c)) /\ Update!Less(c) \in Nat /\ Update!Less(c) <= c
BY DEF Update!Less, Update!Timers, Update!NoTimer

LEMMA OtaTick == ASSUME Update!OtaInv, Update!Tick PROVE Update!OtaInv' /\ Update!Confirmed /\ Update!Cooled
<1> DEFINE rt == Update!Less(x3.retry)
           wt == Update!Less(x3.wait)
           nx == Update!Less(x3.next)
           x == [x3 EXCEPT !.retry = rt, !.wait = wt, !.next = nx]
           dr == Update!Less(x4.retry)
           dw == Update!Less(x4.wait)
           d == [x4 EXCEPT !.retry = dr, !.wait = dw]
<1>1. x3 \in Update!Managers /\ x4 \in Update!Files BY DEF Update!OtaInv, Update!Shapes
<1>2. /\ x3.retry \in Update!Timers /\ x3.wait \in Update!Timers /\ x3.next \in Update!Timers
      /\ x4.retry \in Update!Timers /\ x4.wait \in Update!Timers
    BY <1>1 DEF Update!Managers, Update!Files
<1>3. x3' = x /\ x4' = d /\ x14' = Update!Less(x14) BY DEF Update!Tick
<1>4. UNCHANGED <<x1, x5, x6, x7, x8, x9, x12, x13>> BY DEF Update!Tick
<1>5. rt \in Update!Timers /\ wt \in Update!Timers /\ nx \in Update!Timers /\ dr \in Update!Timers /\ dw \in Update!Timers BY <1>2, OtaLess
<1>6. x14 \in Nat BY DEF Update!OtaInv, Update!Owes
<1>7. Update!Less(x14) \in Nat /\ Update!Less(x14) <= x14 /\ (x14 = 0 => Update!Less(x14) = 0) BY <1>6 DEF Update!Less
<1>8. (x3.retry >= x14 => rt >= Update!Less(x14)) /\ (x4.retry >= x14 => dr >= Update!Less(x14))
    BY <1>2, <1>6, OtaLess
<1>9. x4.retry = Update!NoTimer => dr = Update!NoTimer BY <1>2, OtaLess
<1>10. (x7.pc = "spawn" \/ \E s \in Slots : x9[s].pc # "none") => x3.wait # 1
    BY DEF Update!Tick, Update!Running
<1>11. x3.wait > 0 /\ x3.wait # 1 => wt > 0 BY <1>2, OtaLess
<1>12. x4.wait = x3.wait => dw = wt OBVIOUS
<1> HIDE DEF rt, wt, nx, dr, dw
<1>13. x \in Update!Managers BY <1>1, <1>5 DEF Update!Managers
<1>14. /\ x.state = x3.state /\ x.latest = x3.latest /\ x.failures = x3.failures /\ x.busy = x3.busy
       /\ x.retry = rt /\ x.wait = wt
    BY <1>1 DEF Update!Managers
<1>15. d \in Update!Files BY <1>1, <1>5 DEF Update!Files
<1>16. d.state = x4.state /\ d.latest = x4.latest /\ d.failures = x4.failures /\ d.retry = dr /\ d.wait = dw
    BY <1>1 DEF Update!Files
<1> HIDE DEF x, d
<1>17. Update!Shapes' BY <1>3, <1>4, <1>13, <1>15 DEF Update!OtaInv, Update!Shapes
<1>18. Update!Mirrors(x, d) BY <1>12, <1>14, <1>16 DEF Update!OtaInv, Update!Mirrors
<1>19. Update!Owes(x, d, Update!Less(x14))
  <2>1. x.failures = 0 => Update!Less(x14) = 0 BY <1>7, <1>14 DEF Update!OtaInv, Update!Owes
  <2>2. ASSUME x.failures \in 1..3
        PROVE  /\ Update!Less(x14) <= Update!Delay(x.failures) /\ (Update!Less(x14) = 0 \/ x.retry >= Update!Less(x14))
               /\ (d.retry = Update!NoTimer \/ d.retry >= Update!Less(x14))
    <3>1. x14 <= Update!Delay(x3.failures) /\ (x14 = 0 \/ x3.retry >= x14) /\ (x4.retry = Update!NoTimer \/ x4.retry >= x14)
      BY <1>14, <2>2 DEF Update!OtaInv, Update!Owes
    <3>2. Update!Delay(x3.failures) \in Nat BY <1>1, OtaDelays DEF Update!Managers
    <3> QED BY <1>6, <1>7, <1>8, <1>9, <1>14, <1>16, <3>1, <3>2
  <2> QED BY <1>7, <2>1, <2>2 DEF Update!Owes
<1>20. Update!Locks' BY <1>3, <1>4, <1>10, <1>11, <1>14 DEF Update!OtaInv, Update!Locks
<1>21. Update!Awaited' BY <1>3, <1>4, <1>10, <1>11, <1>14 DEF Update!OtaInv, Update!Awaited
<1>22. Update!Mirrors(x3, x4)' BY <1>3, <1>18 DEF Update!Mirrors
<1> DEFINE c == Update!Less(x14)
<1>23. x14' = c /\ Update!Owes(x, d, c) BY <1>3, <1>19
<1> HIDE DEF c
<1>24. Update!Owes(x3, x4, x14)' BY <1>3, <1>23 DEF Update!Owes, Update!Delay, Update!NoTimer
<1>25. Update!OtaInv' BY <1>17, <1>20, <1>21, <1>22, <1>24 DEF Update!OtaInv
<1> QED BY <1>3, <1>4, <1>14, <1>25 DEF Update!Confirmed, Update!Cooled

\* Ota::load: what a start makes of the file.
LEMMA OtaLoad ==
    ASSUME Update!OtaInv, NEW v \in Int, NEW sb \in BOOLEAN, NEW o, o = Update!Load(v, sb)
    PROVE  /\ o \in Update!Managers /\ o.failures = x4.failures /\ o.busy = FALSE
           /\ o.state = "succeeded" <=> x4.state = "succeeded"
           /\ o.state = "installing" <=> x4.state = "installing"
           /\ o.state = "installing" => o.latest = x4.latest /\ (o.wait = x4.wait \/ o.wait = InstallWait)
           /\ o.state = "installing" => o.wait # Update!NoTimer
           /\ o.wait # Update!NoTimer => o.state = "installing"
           /\ Update!Owes(o, x4, x14)
<1> DEFINE cut == x4.state \in {"checking", "downloading"}
           sup == x4.state \in {"available", "waiting_idle"} /\ x4.latest \in 1..v
           st == IF cut THEN "error" ELSE IF sup THEN "idle" ELSE x4.state
           la == IF cut THEN Update!NoVersion ELSE IF sup THEN v ELSE x4.latest
           ve == x4.verified /\ ~cut /\ ~sup
           rt == IF Update!Delay(x4.failures) = 0 \/ x4.state = "succeeded" THEN Update!NoTimer
                 ELSE IF sb /\ x4.retry # Update!NoTimer THEN x4.retry ELSE Update!Delay(x4.failures)
           wt == IF x4.state # "installing" THEN Update!NoTimer
                 ELSE IF sb /\ x4.wait # Update!NoTimer THEN x4.wait ELSE InstallWait
           fl == x4.failures
<1>1. x4 \in Update!Files /\ x3 \in Update!Managers BY DEF Update!OtaInv, Update!Shapes
<1>2. x4.state \in Update!States /\ x4.latest \in Int /\ fl \in 0..4 /\ x4.retry \in Update!Timers /\ x4.wait \in Update!Timers
    BY <1>1 DEF Update!Files
<1>3. Update!Fresh \in Update!Managers /\ Update!Fresh.busy = FALSE BY DEF Update!Fresh, Update!Managers, Update!States, Update!Timers, Update!NoVersion, Update!NoTimer
<1>4. Update!Delay(x4.failures) \in Nat /\ (Update!Delay(x4.failures) = 0 <=> x4.failures \in {0, 4}) BY <1>2, OtaDelays
<1>5. /\ st \in Update!States /\ (st = "succeeded" <=> x4.state = "succeeded") /\ (st = "installing" <=> x4.state = "installing")
      /\ la \in Int /\ (st = "installing" => la = x4.latest)
    BY <1>2 DEF Update!States, Update!NoVersion
<1>6. ve \in BOOLEAN OBVIOUS
<1>7. rt \in Update!Timers BY <1>2, <1>4 DEF Update!Timers, Update!NoTimer
<1>8. /\ wt \in Update!Timers /\ (x4.state = "installing" <=> wt # Update!NoTimer)
      /\ x4.state = "installing" => wt = x4.wait \/ wt = InstallWait
    BY <1>2, OtaAssumption DEF Update!Timers, Update!NoTimer
<1>9. x4.state = "succeeded" => fl = 0 BY DEF Update!OtaInv, Update!Mirrors
<1>10. /\ fl = x3.failures /\ x14 \in Nat /\ (fl = 0 => x14 = 0)
       /\ fl \in 1..3 => x14 <= Update!Delay(fl) /\ (x4.retry = Update!NoTimer \/ x4.retry >= x14)
    BY DEF Update!OtaInv, Update!Mirrors, Update!Owes
<1>11. fl \in 1..3 => rt >= x14 BY <1>4, <1>9, <1>10
<1>12. o = [Update!Fresh EXCEPT !.state = st, !.latest = la, !.verified = ve, !.failures = fl, !.retry = rt, !.wait = wt]
    BY DEF Update!Load
<1> HIDE DEF st, la, ve, rt, wt, fl
<1>13. o \in Update!Managers BY <1>2, <1>3, <1>5, <1>6, <1>7, <1>8, <1>12 DEF Update!Managers
<1>14. o.state = st /\ o.latest = la /\ o.failures = fl /\ o.retry = rt /\ o.wait = wt /\ o.busy = FALSE
    BY <1>3, <1>12 DEF Update!Managers
<1>15. Update!Owes(o, x4, x14) BY <1>10, <1>11, <1>14 DEF Update!Owes
<1> QED BY <1>5, <1>8, <1>13, <1>14, <1>15 DEF fl

\* A start settles what was being installed, or goes on waiting for it.
LEMMA OtaStart ==
    ASSUME Update!OtaInv, NEW v \in Int, NEW sb \in BOOLEAN, Update!Start(v, sb)
    PROVE  /\ x1' = v /\ x6' = Update!NoJob /\ x7' = Update!NoJob /\ x5' = "none" /\ x12' = x12
           /\ x3' \in Update!Managers /\ x4' \in Update!Files /\ Update!Mirrors(x3, x4)' /\ Update!Owes(x3, x4, x14)'
           /\ (\E s \in Slots : x9[s].pc # "none") =>
                  x3'.state = "installing" /\ x3'.wait > 0 /\ x3'.latest = x3.latest
           /\ x3'.state = "succeeded" /\ x3.state # "succeeded" => x3'.latest = v /\ v \in x13
<1> DEFINE o == Update!Load(v, sb)
           x == Update!Settle(o, x5, v)
           e == Update!CoolAfter(o, x5, v)
<1>1. /\ o \in Update!Managers /\ o.failures = x4.failures
      /\ o.state = "succeeded" <=> x4.state = "succeeded"
      /\ o.state = "installing" <=> x4.state = "installing"
      /\ o.state = "installing" => o.latest = x4.latest /\ (o.wait = x4.wait \/ o.wait = InstallWait)
      /\ o.state = "installing" => o.wait # Update!NoTimer
      /\ o.wait # Update!NoTimer => o.state = "installing"
      /\ Update!Owes(o, x4, x14)
    BY OtaLoad
<1>2. x1' = v /\ x6' = Update!NoJob /\ x7' = Update!NoJob /\ x5' = "none" /\ x3' = x /\ x14' = e BY DEF Update!Start
<1>3. x12 \in Nat /\ x5 \in {"none", "success", "failed"} /\ x4 \in Update!Files BY DEF Update!OtaInv, Update!Shapes
<1>4. x12' = x12 /\ (x4' = IF o.retry = Update!NoTimer /\ o.wait = Update!NoTimer /\ x = o THEN x4 ELSE Update!Stored(x))
    BY <1>2, <1>3 DEF Update!Start
<1>5. e = IF Update!TimedOut(o, x5) THEN Update!Delay(Update!OneMore(o.failures))
          ELSE IF x5 = "success" /\ o.latest = v THEN 0 ELSE x14
    BY DEF Update!CoolAfter
<1>6. /\ x4.state = "succeeded" <=> x3.state = "succeeded"
      /\ x3.state = "succeeded" => x3.failures = 0
      /\ x4.failures = x3.failures /\ (x4.state = "installing" <=> x3.state = "installing")
      /\ x3.state = "installing" => x4.latest = x3.latest /\ x4.wait = x3.wait
    BY DEF Update!OtaInv, Update!Mirrors
<1>7. o.state = "succeeded" => o.failures = 0 BY <1>1, <1>6
<1> HIDE DEF o, e
<1>8. /\ x \in Update!Managers /\ Update!Owes(x, Update!Stored(x), e) /\ (x.state = "succeeded" => x.failures = 0)
      /\ \/ x = o /\ x5 = "none" /\ ~Update!TimedOut(o, x5) /\ e = x14
         \/ /\ x5 # "none" \/ Update!TimedOut(o, x5)
            /\ x.state \in {"error", "blocked"}
         \/ /\ x5 = "success" /\ o.latest = v /\ x.latest = v
            /\ x.state = "succeeded"
    BY <1>1, <1>3, <1>5, <1>7, OtaSettle
<1>9. x5 # "none" => x3.state = "installing" /\ \A s \in Slots : x9[s].pc = "none" BY DEF Update!OtaInv, Update!Awaited
<1>10. x5 = "success" => x3.latest \in x13 BY DEF Update!OtaInv, Update!Awaited
<1> HIDE DEF x
<1>11. x4' \in Update!Files /\ Update!Mirrors(x, x4') /\ Update!Owes(x, x4', e)
  <2>1. CASE o.retry = Update!NoTimer /\ o.wait = Update!NoTimer /\ x = o
    <3>1. x4' = x4 BY <1>4, <2>1
    <3>2. o.state # "installing" BY <1>1, <2>1
    <3>3. x5 = "none" /\ ~Update!TimedOut(o, x5) BY <1>1, <1>6, <1>9, <3>2 DEF Update!TimedOut
    <3>4. e = x14 BY <1>5, <3>3
    <3>5. Update!Mirrors(x, x4) BY <1>1, <1>7, <2>1, <3>2 DEF Update!Mirrors
    <3>6. Update!Owes(x, x4, e) BY <1>1, <2>1, <3>4
    <3> QED BY <1>3, <3>1, <3>5, <3>6
  <2>2. CASE ~(o.retry = Update!NoTimer /\ o.wait = Update!NoTimer /\ x = o)
    <3>1. x4' = Update!Stored(x) BY <1>4, <2>2
    <3>2. Update!Stored(x) \in Update!Files /\ Update!Mirrors(x, Update!Stored(x)) BY <1>8, OtaStored
    <3> QED BY <1>8, <3>1, <3>2
  <2> QED BY <2>1, <2>2
<1>12. ASSUME NEW s \in Slots, x9[s].pc # "none"
       PROVE  x.state = "installing" /\ x.wait > 0 /\ x.latest = x3.latest
  <2>1. x3.state = "installing" /\ x3.wait > 0 /\ x5 = "none" BY <1>12 DEF Update!OtaInv, Update!Awaited
  <2>2. o.state = "installing" /\ o.wait > 0 /\ o.latest = x3.latest BY <1>1, <1>6, <2>1, OtaAssumption
  <2>3. ~Update!TimedOut(o, x5) BY <2>2 DEF Update!TimedOut
  <2>4. x = o BY <1>8, <2>1, <2>3
  <2> QED BY <2>2, <2>4
<1>13. x.state = "succeeded" /\ x3.state # "succeeded" => x.latest = v /\ v \in x13
  <2> SUFFICES ASSUME x.state = "succeeded", x3.state # "succeeded" PROVE x.latest = v /\ v \in x13 OBVIOUS
  <2>1. x # o BY <1>1, <1>6
  <2>2. x5 = "success" /\ o.latest = v /\ x.latest = v BY <1>8, <2>1
  <2>3. o.latest = x3.latest BY <1>1, <1>6, <1>9, <2>2
  <2> QED BY <1>10, <2>2, <2>3
<1>14. Update!Mirrors(x3, x4)' BY <1>2, <1>11 DEF Update!Mirrors
<1>15. Update!Owes(x3, x4, x14)' BY <1>2, <1>11 DEF Update!Owes, Update!Delay, Update!NoTimer
<1> QED BY <1>2, <1>4, <1>8, <1>11, <1>12, <1>13, <1>14, <1>15

\* A start beside the installers, some of which it may leave behind.
LEMMA OtaStarts ==
    ASSUME Update!OtaInv, NEW v \in Int, NEW sb \in BOOLEAN, Update!Start(v, sb), UNCHANGED <<x8, x13>>,
           x9' \in [Slots -> Update!Scripts],
           \A s \in Slots : x9'[s].pc # "none" =>
               /\ x9[s].pc # "none" /\ (x9'[s].pc = "ok" => x9[s].pc = "ok")
               /\ x9'[s].target = x9[s].target /\ x9'[s].nms = x9[s].nms
    PROVE  Update!OtaInv' /\ Update!Confirmed /\ Update!Cooled
<1>1. /\ x1' = v /\ x6' = Update!NoJob /\ x7' = Update!NoJob /\ x5' = "none" /\ x12' = x12
      /\ x3' \in Update!Managers /\ x4' \in Update!Files /\ Update!Mirrors(x3, x4)' /\ Update!Owes(x3, x4, x14)'
      /\ (\E s \in Slots : x9[s].pc # "none") =>
             x3'.state = "installing" /\ x3'.wait > 0 /\ x3'.latest = x3.latest
      /\ x3'.state = "succeeded" /\ x3.state # "succeeded" => x3'.latest = v /\ v \in x13
    BY OtaStart
<1>2. Update!NoJob \in Update!Tasks /\ Update!NoJob.pc = "free" /\ Update!NoJob.kind = "none" BY OtaNoJob
<1>3. Update!Shapes' BY <1>1, <1>2 DEF Update!OtaInv, Update!Shapes
<1>4. Update!Locks' BY <1>1, <1>2 DEF Update!Locks
<1>5. Update!Awaited' BY <1>1, <1>2 DEF Update!OtaInv, Update!Awaited
<1>6. Update!OtaInv' BY <1>1, <1>3, <1>4, <1>5 DEF Update!OtaInv
<1> QED BY <1>1, <1>2, <1>6 DEF Update!Confirmed, Update!Cooled

LEMMA OtaRestart == ASSUME Update!OtaInv, NEW v \in Int, Update!Restart(v) PROVE Update!OtaInv' /\ Update!Confirmed /\ Update!Cooled
<1>1. Update!Start(v, TRUE) /\ UNCHANGED <<x8, x9, x13>> BY DEF Update!Restart
<1>2. x9 \in [Slots -> Update!Scripts] /\ TRUE \in BOOLEAN BY DEF Update!OtaInv, Update!Shapes
<1> QED BY <1>1, <1>2, OtaStarts

LEMMA OtaNoInstaller == Update!NoInstaller \in Update!Scripts /\ Update!NoInstaller.pc = "none"
<1>1. FALSE \in BOOLEAN OBVIOUS
<1> QED BY <1>1 DEF Update!NoInstaller, Update!Scripts, Update!NoVersion

LEMMA OtaReboot == ASSUME Update!OtaInv, Update!Reboot PROVE Update!OtaInv' /\ Update!Confirmed /\ Update!Cooled
<1>1. Update!Start(x1, FALSE) /\ x9' = [s \in Slots |-> Update!NoInstaller] /\ UNCHANGED <<x8, x13>> BY DEF Update!Reboot
<1>2. x9' \in [Slots -> Update!Scripts] /\ \A s \in Slots : x9'[s].pc = "none" BY <1>1, OtaNoInstaller
<1>3. x1 \in Int /\ FALSE \in BOOLEAN BY DEF Update!OtaInv, Update!Shapes
<1> QED BY <1>1, <1>2, <1>3, OtaStarts

\* One installer goes on.
LEMMA OtaInstallerAt ==
    ASSUME Update!OtaInv, NEW s \in Slots, NEW pc \in {"run", "verify", "ok", "failed"}, Update!InstallerAt(s, pc)
    PROVE  /\ x9' \in [Slots -> Update!Scripts] /\ x9'[s].pc = pc
           /\ x9'[s].target = x9[s].target /\ x9'[s].nms = x9[s].nms
           /\ \A t \in Slots : t # s => x9'[t] = x9[t]
<1>1. x9 \in [Slots -> Update!Scripts] /\ x9[s] \in Update!Scripts BY DEF Update!OtaInv, Update!Shapes
<1>2. x9' = [x9 EXCEPT ![s] = [x9[s] EXCEPT !.pc = pc]] BY DEF Update!InstallerAt
<1> DEFINE n == [x9[s] EXCEPT !.pc = pc]
<1>3. n \in Update!Scripts BY <1>1 DEF Update!Scripts
<1>4. n.pc = pc /\ n.target = x9[s].target /\ n.nms = x9[s].nms BY <1>1 DEF Update!Scripts
<1>5. x9' = [x9 EXCEPT ![s] = n] BY <1>2
<1> HIDE DEF n
<1> QED BY <1>1, <1>3, <1>4, <1>5

LEMMA OtaInstallerGoesOn ==
    ASSUME Update!OtaInv, NEW s \in Slots, x9[s].pc # "none", NEW pc \in {"run", "verify", "ok", "failed"}, Update!InstallerAt(s, pc),
           UNCHANGED <<x1, x3, x4, x6, x7, x8, x12, x14>>, x5' = "none",
           x13 \subseteq x13', pc = "ok" => x9[s].target \in x13'
    PROVE  Update!OtaInv' /\ Update!Confirmed /\ Update!Cooled
<1>1. /\ x9' \in [Slots -> Update!Scripts] /\ x9'[s].pc = pc
      /\ x9'[s].target = x9[s].target /\ x9'[s].nms = x9[s].nms
      /\ \A t \in Slots : t # s => x9'[t] = x9[t]
    BY OtaInstallerAt
<1>2. Update!Shapes' BY <1>1 DEF Update!OtaInv, Update!Shapes
<1>3. Update!Awaited'
  <2>1. \A t \in Slots : /\ x9'[t].pc # "none" <=> x9[t].pc # "none"
                         /\ x9'[t].target = x9[t].target /\ x9'[t].nms = x9[t].nms
                         /\ x9'[t].pc = "ok" => x9'[t].target \in x13'
    BY <1>1 DEF Update!OtaInv, Update!Awaited
  <2>2. x5 = "none" BY DEF Update!OtaInv, Update!Awaited
  <2> QED BY <2>1, <2>2 DEF Update!OtaInv, Update!Awaited
<1>4. Update!Locks' /\ Update!Mirrors(x3, x4)' /\ Update!Owes(x3, x4, x14)' BY DEF Update!OtaInv, Update!Locks, Update!Mirrors, Update!Owes, Update!Delay, Update!NoTimer
<1> QED BY <1>2, <1>3, <1>4 DEF Update!OtaInv, Update!Confirmed, Update!Cooled

\* The new datad, the old one again, or the old one after the trial.
LEMMA OtaInstallerRestarts ==
    ASSUME Update!OtaInv, NEW s \in Slots, x9[s].pc # "none", NEW pc \in {"verify", "failed"}, Update!InstallerAt(s, pc),
           NEW v \in Int, Update!Start(v, TRUE), UNCHANGED <<x8, x13>>
    PROVE  Update!OtaInv' /\ Update!Confirmed /\ Update!Cooled
<1>1. /\ x9' \in [Slots -> Update!Scripts] /\ x9'[s].pc = pc
      /\ x9'[s].target = x9[s].target /\ x9'[s].nms = x9[s].nms
      /\ \A t \in Slots : t # s => x9'[t] = x9[t]
    BY OtaInstallerAt
<1>2. \A t \in Slots : x9'[t].pc # "none" =>
               /\ x9[t].pc # "none" /\ (x9'[t].pc = "ok" => x9[t].pc = "ok")
               /\ x9'[t].target = x9[t].target /\ x9'[t].nms = x9[t].nms
    BY <1>1
<1>3. TRUE \in BOOLEAN OBVIOUS
<1> QED BY <1>1, <1>2, <1>3, OtaStarts

LEMMA OtaInstallerMarks == ASSUME Update!OtaInv, NEW s \in Slots, Update!InstallerMarks(s) PROVE Update!OtaInv' /\ Update!Confirmed /\ Update!Cooled
<1>1. /\ x9[s].pc \in {"ok", "failed"} /\ x9' = [x9 EXCEPT ![s] = Update!NoInstaller]
      /\ x5' = IF x9[s].pc = "ok" THEN "success" ELSE "failed"
      /\ UNCHANGED <<x1, x3, x4, x6, x7, x8, x12, x13, x14>>
    BY DEF Update!InstallerMarks, Update!history
<1>2. x9 \in [Slots -> Update!Scripts] BY DEF Update!OtaInv, Update!Shapes
<1>3. \A t \in Slots : t # s => x9[t].pc = "none" BY <1>1 DEF Update!OtaInv, Update!Awaited
<1>4. x9' \in [Slots -> Update!Scripts] /\ \A t \in Slots : x9'[t].pc = "none" BY <1>1, <1>2, <1>3, OtaNoInstaller
<1>5. Update!Shapes' BY <1>1, <1>4 DEF Update!OtaInv, Update!Shapes
<1>6. x3.state = "installing" /\ x7.pc = "free" /\ x9[s].target = x3.latest BY <1>1 DEF Update!OtaInv, Update!Awaited
<1>7. x9[s].pc = "ok" => x3.latest \in x13 BY <1>6 DEF Update!OtaInv, Update!Awaited
<1>8. Update!Awaited' BY <1>1, <1>4, <1>6, <1>7 DEF Update!Awaited
<1>9. Update!Locks' /\ Update!Mirrors(x3, x4)' /\ Update!Owes(x3, x4, x14)' BY <1>1 DEF Update!OtaInv, Update!Locks, Update!Mirrors, Update!Owes, Update!Delay, Update!NoTimer
<1> QED BY <1>1, <1>5, <1>8, <1>9 DEF Update!OtaInv, Update!Confirmed, Update!Cooled

LEMMA OtaInstaller == ASSUME Update!OtaInv, NEW s \in Slots, Update!Installer(s) PROVE Update!OtaInv' /\ Update!Confirmed /\ Update!Cooled
<1>1. x9 \in [Slots -> Update!Scripts] /\ x1 \in Int BY DEF Update!OtaInv, Update!Shapes
<1>2. x9[s].target \in Int /\ x9[s].old \in Int BY <1>1 DEF Update!Scripts
<1>3. x9[s].pc # "none" => x5 = "none" BY DEF Update!OtaInv, Update!Awaited
<1>4. CASE Update!InstallerStarts(s)
  <2>1. Update!InstallerAt(s, "run") \/ Update!InstallerAt(s, "failed") BY <1>4 DEF Update!InstallerStarts
  <2>2. /\ x9[s].pc = "sleep" /\ x5' = "none"
        /\ UNCHANGED <<x1, x3, x4, x6, x7, x8, x12, x13, x14>>
    BY <1>4 DEF Update!InstallerStarts, Update!history
  <2> QED BY <2>1, <2>2, OtaInstallerGoesOn
<1>5. CASE Update!InstallerFails(s)
  <2>1. x9[s].pc = "run" /\ Update!InstallerAt(s, "failed") /\ UNCHANGED <<x8, x13>> BY <1>5 DEF Update!InstallerFails
  <2>2. CASE UNCHANGED <<x1, x3, x4, x5, x6, x7, x12, x14>>
    BY <1>3, <2>1, <2>2, OtaInstallerGoesOn
  <2>3. CASE Update!Start(x1, TRUE) BY <1>1, <2>1, <2>3, OtaInstallerRestarts
  <2> QED BY <1>5, <2>2, <2>3 DEF Update!InstallerFails
<1>6. CASE Update!InstallerSwaps(s) BY <1>2, <1>6, OtaInstallerRestarts DEF Update!InstallerSwaps
<1>7. CASE Update!InstallerRollsBack(s) BY <1>2, <1>7, OtaInstallerRestarts DEF Update!InstallerRollsBack
<1>8. CASE Update!InstallerSucceeds(s)
  <2>1. /\ x9[s].pc = "verify" /\ Update!InstallerAt(s, "ok") /\ x1 = x9[s].target
        /\ x13' = x13 \cup {x1}
        /\ UNCHANGED <<x1, x3, x4, x6, x7, x8, x12, x14, x5>>
    BY <1>8 DEF Update!InstallerSucceeds, Update!manager
  <2>2. x13 \subseteq x13' /\ x9[s].target \in x13' BY <2>1
  <2> QED BY <1>3, <2>1, <2>2, OtaInstallerGoesOn
<1>9. CASE Update!InstallerMarks(s) BY <1>9, OtaInstallerMarks
<1> QED BY <1>4, <1>5, <1>6, <1>7, <1>8, <1>9 DEF Update!Installer

LEMMA OtaInit == ASSUME Update!Init PROVE Update!OtaInv
<1>1. Update!Fresh \in Update!Managers BY DEF Update!Fresh, Update!Managers, Update!States, Update!Timers, Update!NoVersion, Update!NoTimer
<1>2. Update!Fresh.state = "idle" /\ Update!Fresh.failures = 0 /\ Update!Fresh.retry = Update!NoTimer /\ Update!Fresh.busy = FALSE BY DEF Update!Fresh
<1>3. Update!Stored(Update!Fresh) \in Update!Files /\ Update!Mirrors(Update!Fresh, Update!Stored(Update!Fresh)) BY <1>1, <1>2, OtaStored
<1>4. Update!Owes(Update!Fresh, Update!Stored(Update!Fresh), 0) BY <1>2 DEF Update!Owes
<1>5. Update!NoJob \in Update!Tasks /\ Update!NoJob.pc = "free" /\ Update!NoJob.kind = "none" BY OtaNoJob
<1>6. [status |-> "none", target |-> Update!NoVersion] \in Update!NmsRecords BY DEF Update!NmsRecords, Update!NoVersion
<1>7. x9 \in [Slots -> Update!Scripts] /\ \A s \in Slots : x9[s].pc = "none" BY OtaNoInstaller DEF Update!Init
<1>8. Update!Shapes BY <1>1, <1>3, <1>5, <1>6, <1>7 DEF Update!Shapes, Update!Init
<1>9. Update!Locks BY <1>2, <1>5 DEF Update!Locks, Update!Init
<1>10. Update!Awaited BY <1>7 DEF Update!Awaited, Update!Init
<1> QED BY <1>3, <1>4, <1>8, <1>9, <1>10 DEF Update!OtaInv, Update!Init

LEMMA OtaNext == ASSUME Update!OtaInv, Update!Next PROVE Update!OtaInv' /\ Update!Confirmed /\ Update!Cooled
<1>1. CASE Update!Round BY <1>1, OtaRound
<1>2. CASE Update!Requests
  <2>0. Update!NoVersion \in Int /\ Update!Versions \subseteq Int BY OtaAssumption DEF Update!NoVersion, Update!Versions
  <2>1. CASE Update!AppStatus BY <2>1, OtaAppStatus
  <2>2. CASE Update!AppInstall BY <2>2, OtaAppInstall
  <2>3. CASE Update!Update BY <2>3, OtaUpdate
  <2>4. CASE Update!PlainCheck BY <2>4, OtaPlainCheck
  <2>5. CASE Update!PlainDropped BY <2>5, OtaPlainDropped
  <2>6. CASE Update!RequestCheck("app_check", Update!NoVersion) BY <2>0, <2>6, OtaRequestCheck
  <2>7. CASE Update!RequestCheck("nms_check", Update!NoVersion) BY <2>0, <2>7, OtaRequestCheck
  <2>8. CASE \E v \in Update!Versions : Update!RequestCheck("nms_install", v) BY <2>0, <2>8, OtaRequestCheck
  <2>9. CASE \E on \in BOOLEAN : Update!UpdateConfig(on) BY <2>9, OtaUpdateConfig
  <2> QED BY <1>2, <2>1, <2>2, <2>3, <2>4, <2>5, <2>6, <2>7, <2>8, <2>9 DEF Update!Requests
<1>3. CASE Update!TakeLock BY <1>3, OtaTakeLock
<1>4. CASE Update!Work
  <2>0. Update!Versions \cup {Update!NoVersion} \subseteq Int BY OtaAssumption DEF Update!NoVersion, Update!Versions
  <2>1. CASE Update!CheckStarts BY <2>1, OtaCheckStarts
  <2>2. CASE \E found \in Update!Versions \cup {Update!NoVersion} : Update!CheckEnds(found) BY <2>0, <2>2, OtaCheckEnds
  <2>3. CASE Update!SafetyWaits BY <2>3, OtaSafetyWaits
  <2>4. CASE Update!Downloads BY <2>4, OtaDownloads
  <2>5. CASE Update!InstallFails BY <2>5, OtaInstallFails
  <2>6. CASE Update!Installing BY <2>6, OtaInstalling
  <2>7. CASE \E s \in Slots : Update!Spawn(s) BY <2>7, OtaSpawn
  <2> QED BY <1>4, <2>1, <2>2, <2>3, <2>4, <2>5, <2>6, <2>7 DEF Update!Work
<1>5. CASE Update!CloudResult BY <1>5, OtaCloudResult
<1>6. CASE Update!Tick BY <1>6, OtaTick
<1>7. CASE \E s \in Slots : Update!Installer(s) BY <1>7, OtaInstaller
<1>8. CASE \E v \in ByHand \cup {x1} : Update!Restart(v)
  <2>1. ByHand \cup {x1} \subseteq Int BY OtaAssumption DEF Update!OtaInv, Update!Shapes
  <2> QED BY <1>8, <2>1, OtaRestart
<1>9. CASE Update!Reboot BY <1>9, OtaReboot
<1> QED BY <1>1, <1>2, <1>3, <1>4, <1>5, <1>6, <1>7, <1>8, <1>9 DEF Update!Next

LEMMA OtaKept == ASSUME Update!OtaInv, [Update!Next]_(Update!vars) PROVE Update!OtaInv'
<1>1. CASE Update!Next BY <1>1, OtaNext
<1>2. CASE UNCHANGED Update!vars
  <2>1. UNCHANGED <<x1, x3, x4, x5, x6, x7, x8, x9, x12, x13, x14>>
    BY <1>2 DEF Update!vars, Update!manager, Update!history
  <2> QED BY <2>1 DEF Update!OtaInv, Update!Shapes, Update!Mirrors, Update!Owes, Update!Delay, Update!NoTimer, Update!Locks, Update!Awaited
<1> QED BY <1>1, <1>2

\* Ota counts with the library's Cardinality.
LEMMA OtaCard == ASSUME NEW S PROVE Update!Cardinality(S) = Cardinality(S)
BY Zenon DEF Update!Cardinality, Cardinality

\* What the invariant is for.
LEMMA OtaSafe == ASSUME Update!OtaInv PROVE Update!InstallSafe
<1>1. Update!OneInstaller
  <2>1. CASE Update!Running = {}
    <3>1. Cardinality(Update!Running) = 0 BY <2>1, FS_EmptySet
    <3> QED BY <3>1, OtaCard DEF Update!OneInstaller
  <2>2. CASE Update!Running # {}
    <3>1. PICK s : s \in Update!Running BY <2>2
    <3>2. \A t \in Update!Running : t = s BY <3>1 DEF Update!Running, Update!OtaInv, Update!Awaited
    <3>3. Update!Running = {s} BY <3>1, <3>2
    <3>4. Cardinality(Update!Running) = 1 BY <3>3, FS_Singleton
    <3> QED BY <3>4, OtaCard DEF Update!OneInstaller
  <2> QED BY <2>1, <2>2
<1>2. Update!NothingStale
  <2>1. x7.stale = FALSE BY DEF Update!OtaInv, Update!Shapes, Update!Tasks
  <2> QED BY <2>1 DEF Update!NothingStale
<1>3. Update!FailedIsOver
  <2>1. x8.status = "failed" => \A s \in Update!Running : x9[s].nms = FALSE BY DEF Update!OtaInv, Update!Awaited, Update!Running
  <2> QED BY <2>1 DEF Update!FailedIsOver
<1> QED BY <1>1, <1>2, <1>3 DEF Update!InstallSafe

LEMMA UpdateAtWork ==
    ASSUME live' = "ota", [AllNext]_all
    PROVE  live = "ota" /\ [Update!Next]_(Update!vars)
BY DEF AllNext, all, Update!vars, Update!manager, Update!history, WatchStep, UciStep, WifiStep, ProbeStep, CellsStep,
       ReaderStep, FanStep, ChargeStep, UpdateStep, ApnStep, IdStep, ExtraStep, Keep0, Keep5, Keep6, Keep7, Keep8,
       Keep10, Keep12, Keep13, Keep14

\* For any versions, cooldowns that do not get shorter, number of requests and
\* reboots and places for installers, as long as the writes of ota-state.json
\* succeed and an installer ends before datad stops waiting for it: two
\* installers never run at once, nothing is installed from a stale candidate,
\* none is at work for an installation reported as failed, "succeeded" means
\* that an installer reported the version that now runs, and tick never starts
\* by itself within the cooldown of a failure (Ota::load, tick,
\* reconcile_install_result, fail and the handlers).
THEOREM UpdatesTrueHolds == AllSpec => UpdatesTrue
<1> DEFINE Inv == live = "ota" => Update!OtaInv
<1>1. AllInit => Inv
  BY OtaInit DEF AllInit
<1>2. Inv /\ [AllNext]_all => Inv'
  BY UpdateAtWork, OtaKept
<1>3. Inv => (live = "ota" => Update!InstallSafe)
  BY OtaSafe
<1>4. Inv /\ [AllNext]_all => [live = "ota" => Update!Confirmed /\ Update!Cooled]_all
  <2> SUFFICES ASSUME Inv, AllNext, live = "ota" PROVE (Update!Confirmed /\ Update!Cooled) \/ UNCHANGED all
    OBVIOUS
  <2>1. Update!Next
    BY DEF AllNext, WatchStep, UciStep, WifiStep, ProbeStep, CellsStep, ReaderStep, FanStep, ChargeStep,
           UpdateStep, ApnStep, IdStep, ExtraStep
  <2> QED
    BY <2>1, OtaNext
<1> QED
  BY <1>1, <1>2, <1>3, <1>4, PTL DEF AllSpec, UpdatesTrue
=============================================================================
