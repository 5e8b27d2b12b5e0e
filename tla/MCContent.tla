----------------------------- MODULE MCContent -----------------------------
(***************************************************************************)
(* What the device keeps and shows: files, /etc/hosts, traffic, history,   *)
(* state, and the sessions that carry them.  As in MCDevice, `live` says   *)
(* which part a behaviour is about, and the parts share the variables x1,  *)
(* x2, ...  The calls of the bus (UbusClient) have their own variables,    *)
(* which rest while another part is at work.  The proofs about the parts   *)
(* follow the properties; the invariants stand in their modules.           *)
(***************************************************************************)
EXTENDS UbusClient, Sequences, FiniteSets, FiniteSetTheorems, NaturalsInduction, TLC, TLAPS

CONSTANTS None,
          Workers,  \* file sessions
          Names, Chunks, MaxStamp,  \* of FileStore
          Clients, Outside, Original, MaxInode, HostFaults,  \* of Hosts
          PanelIds, MaxControls, MaxTick,  \* of PanelSession
          Threads, Runs, MaxGeneration,  \* of SpeedTest
          Rounds, Sampler, Streams, MaxStreams, Values, MaxWrites, MaxFails,  \* of StateStream
          MaxEntries, RepeatWindow, MaxId, MaxNow, HistoryFaults,  \* of Activity
          MeshIds, MaxInFlight, MeshWindow, MaxBuffered, OutCap, MaxBody, MaxJobs, MaxFrames,  \* of MeshService
          TrafficDay, TrafficNow, TrafficBytes, TrafficDays, TrafficEvents  \* of TrafficHistory

\* Limits::threads and Limits::runs are at least one.
ASSUME SpeedAssumption == Threads \in Nat /\ Runs \in Nat \ {0} /\ MaxGeneration \in Nat

ASSUME MeshAssumption == MaxJobs \in Nat /\ MaxBuffered \in Nat /\ MeshWindow \in Nat

\* A day takes time, and the history keeps one (MAX_DAYS).
ASSUME TrafficAssumption ==
    /\ TrafficDay \in Nat /\ TrafficDay > 0 /\ TrafficNow \in Nat /\ TrafficNow > 0 /\ TrafficDays \in Nat /\ TrafficDays > 0
    /\ None \notin Nat

ASSUME HistoryAssumption == MaxEntries \in Nat

\* None is no stamp and no file, and a package says something.
ASSUME StateAssumption ==
    None \notin Nat /\ None \notin [at : Nat, val : Values \cup {None}] /\ Values # {}

VARIABLES live,
    x1, x2, x3, x4, x5, x6, x7, x8, x9, x10, x11, x12, x13

all == <<live, vars, x1, x2, x3, x4, x5, x6, x7, x8, x9, x10, x11, x12, x13>>

Sessions == Permutations(Workers)

Files == INSTANCE FileStore WITH
    dir <- x1, temp <- x2, kept <- x3, work <- x4, stamp <- x5, owed <- x6

Dns == INSTANCE Hosts WITH
    MaxFaults <- HostFaults,
    hosts <- x1, backup <- x2, lock <- x3, call <- x4, loaded <- x5,
    faults <- x6

Service == INSTANCE MeshService WITH
    Ids <- MeshIds, Window <- MeshWindow,
    flight <- x1, job <- x2, buffered <- x3, out <- x4, frames <- x5

Panel == INSTANCE PanelSession WITH
    Ids <- PanelIds,
    world <- x1, tick <- x2, big <- x3, phase <- x4, mode <- x5, have <- x6,
    next <- x7, pend <- x8, shown <- x9, mark <- x10, dropped <- x11,
    used <- x12, about <- x13

Speed == INSTANCE SpeedTest WITH
    status <- x1, generation <- x2, task <- x3, available <- x4, aborted <- x5

Traffic == INSTANCE TrafficHistory WITH
    Day <- TrafficDay, MaxNow <- TrafficNow, MaxBytes <- TrafficBytes, MaxDays <- TrafficDays, MaxEvents <- TrafficEvents,
    now <- x1, counter <- x2, real <- x3, gen <- x4, stored <- x5, disk <- x6,
    seen <- x7, relabel <- x8, due <- x9, unseen <- x10, events <- x11

History == INSTANCE Activity WITH
    Window <- RepeatWindow, MaxFaults <- HistoryFaults,
    stored <- x1, dirty <- x2, storage_ok <- x3, disk <- x4, now <- x5,
    reboot <- x6, asked <- x7, failed <- x8

State == INSTANCE StateStream WITH
    conf <- x1, pend <- x2, writes <- x3, fails <- x4, cache <- x5,
    round <- x6, snapshot <- x7, tx <- x8, stream <- x9

\* None is no file.
ASSUME FilesAssumption == Chunks \in Nat /\ None \notin [ino : Nat, ver : Nat, left : Nat]

\* A client's content carries its name; None is no text and no backup.
ASSUME HostsAssumption ==
    /\ Clients \cap Outside = {} /\ Original \in Outside
    /\ None \notin Clients /\ None \notin Outside /\ None \notin Dns!Backup

\* What a component has no use for.
Idle0 ==
    x1 = None /\ x2 = None /\ x3 = None /\ x4 = None /\ x5 = None /\ x6 = None
    /\ x7 = None /\ x8 = None /\ x9 = None /\ x10 = None /\ x11 = None /\
    x12 = None /\ x13 = None
Idle5 ==
    x6 = None /\ x7 = None /\ x8 = None /\ x9 = None /\ x10 = None /\
    x11 = None /\ x12 = None /\ x13 = None
Idle6 ==
    x7 = None /\ x8 = None /\ x9 = None /\ x10 = None /\ x11 = None /\
    x12 = None /\ x13 = None
Idle8 == x9 = None /\ x10 = None /\ x11 = None /\ x12 = None /\ x13 = None
Idle9 == x10 = None /\ x11 = None /\ x12 = None /\ x13 = None
Idle11 == x12 = None /\ x13 = None
Keep0 == UNCHANGED <<live, x1, x2, x3, x4, x5, x6, x7, x8, x9, x10, x11, x12, x13>>
Keep5 == UNCHANGED <<live, vars, x6, x7, x8, x9, x10, x11, x12, x13>>
Keep6 == UNCHANGED <<live, vars, x7, x8, x9, x10, x11, x12, x13>>
Keep8 == UNCHANGED <<live, vars, x9, x10, x11, x12, x13>>
Keep9 == UNCHANGED <<live, vars, x10, x11, x12, x13>>
Keep11 == UNCHANGED <<live, vars, x12, x13>>
Keep13 == UNCHANGED <<live, vars>>

AllInit ==
    /\ Init
    /\ \/ live = "ubus" /\ Idle0
       \/ live = "files" /\ Files!Init /\ Idle6
       \/ live = "hosts" /\ Dns!Init /\ Idle6
       \/ live = "mesh" /\ Service!Init /\ Idle5
       \/ live = "panel" /\ Panel!Init
       \/ live = "speed" /\ Speed!Init /\ Idle5
       \/ live = "traffic" /\ Traffic!Init /\ Idle11
       \/ live = "activity" /\ History!Init /\ Idle8
       \/ live = "state" /\ State!Init /\ Idle9

FilesStep == live = "files" /\ Files!Next /\ Keep6
DnsStep == live = "hosts" /\ Dns!Next /\ Keep6
ServiceStep == live = "mesh" /\ Service!Next /\ Keep5
PanelStep == live = "panel" /\ Panel!Next /\ Keep13
SpeedStep == live = "speed" /\ Speed!Next /\ Keep5
TrafficStep == live = "traffic" /\ Traffic!Next /\ Keep11
HistoryStep == live = "activity" /\ History!Next /\ Keep8
StateStep == live = "state" /\ State!Next /\ Keep9

BusStep == live = "ubus" /\ Next /\ Keep0

AllNext ==
    BusStep \/ FilesStep \/ DnsStep \/ ServiceStep \/ PanelStep \/ SpeedStep
    \/ TrafficStep \/ HistoryStep \/ StateStep

AllSpec == AllInit /\ [][AllNext]_all

-----------------------------------------------------------------------------
\* FileStore.NothingLost, WholeFiles and OneVersion: what others wrote is not
\* lost in a swap, no name holds part of a file, and a download is of one
\* version.
FilesSafe == live = "files" => Files!NothingLost /\ Files!WholeFiles /\ Files!OneVersion

\* Hosts.NoLostSave and Restorable: no save replaces what another client
\* saved since, and the original can be restored.
HostsKept == [](live = "hosts" => Dns!Restorable) /\ [][live = "hosts" => Dns!SaveKeeps]_all

\* MeshService.Bounded: the budget covers what is in memory.
Bounded == live = "mesh" => Service!Bounded

\* PanelSession.PanelCurrent: the browser's blocks are as new as the last
\* sample.
PanelCurrent == live = "panel" => Panel!PanelCurrent

\* SpeedTest.StatusIsTheTask: the status is that of the newest test.
StatusIsTheTask == live = "speed" => Speed!StatusIsTheTask

\* TrafficHistory.CountedOnce: no byte is counted twice.
CountedOnce == live = "traffic" => Traffic!CountedOnce

\* Activity.RebootExplained: the entry of a reboot is on flash.
RebootExplained == live = "activity" => History!RebootExplained

\* StateStream.CacheCurrent: the cache never answers for changed files.
CacheCurrent == live = "state" => State!CacheCurrent

-----------------------------------------------------------------------------
(***************************************************************************)
(* SpeedTest: StatusIsTheTask from SpeedInv.  x1 is status, x2 generation, *)
(* x3 task, x4 available, x5 aborted.                                      *)
(***************************************************************************)

LEMMA SpeedInit == Speed!Init => Speed!SpeedInv
<1> SUFFICES ASSUME Speed!Init PROVE Speed!SpeedInv
  OBVIOUS
<1> USE DEF Speed!Init, Speed!IdleStatus, Speed!NoTask, Speed!Generations, Speed!Live
<1>1. \A g \in Speed!Generations : Speed!Progress(x3[g])
  BY DEF Speed!Progress
<1>2. Speed!StatusIsTheTask
  BY DEF Speed!StatusIsTheTask
<1> QED
  BY <1>1, <1>2, SpeedAssumption DEF Speed!SpeedInv, Speed!Task, Speed!Status

LEMMA Distributes == \A a, b \in Nat : (a + 1) * b = a * b + b
  OBVIOUS

\* The steps of a task keep its account.
LEMMA FetchProgress ==
    ASSUME NEW r \in Speed!Task, Speed!Progress(r), r.step = "fetch", r.left > 0,
           NEW bytes \in {0, 1}, NEW f \in {0, 1}, f = 0 => bytes = 1,
           NEW t, t = [r EXCEPT !.left = @ - 1, !.received = @ + bytes, !.failed = @ + f]
    PROVE  /\ t \in Speed!Task /\ Speed!Progress(t) /\ t.step = "fetch"
           /\ t.run = r.run /\ t.received >= r.received
<1>1. t = [step |-> "fetch", run |-> r.run, left |-> r.left - 1,
           received |-> r.received + bytes, failed |-> r.failed + f]
  BY DEF Speed!Task
<1>2. /\ r.run \in Nat /\ r.left \in Nat /\ r.received \in Nat /\ r.failed \in Nat
      /\ r.run < Runs
      /\ r.failed = 0 => r.received + r.left = (r.run + 1) * Threads
  BY DEF Speed!Task, Speed!Progress
<1>3. t.failed = 0 => t.received + t.left = (t.run + 1) * Threads
  BY <1>1, <1>2
<1> QED
  BY <1>1, <1>2, <1>3 DEF Speed!Task, Speed!Progress

LEMMA RunEndsProgress ==
    ASSUME NEW r \in Speed!Task, Speed!Progress(r), r.step = "fetch",
           NEW t, t = [r EXCEPT !.step = "publish", !.failed = @ + r.left, !.left = 0]
    PROVE  /\ t \in Speed!Task /\ Speed!Progress(t) /\ t.step = "publish"
           /\ t.run = r.run /\ t.received = r.received
<1>1. t = [step |-> "publish", run |-> r.run, left |-> 0, received |-> r.received,
           failed |-> r.failed + r.left]
  BY DEF Speed!Task
<1>2. /\ r.run \in Nat /\ r.left \in Nat /\ r.received \in Nat /\ r.failed \in Nat
      /\ r.run < Runs
      /\ r.failed = 0 => r.received + r.left = (r.run + 1) * Threads
  BY DEF Speed!Task, Speed!Progress
<1>3. t.failed = 0 => t.received = (t.run + 1) * Threads
  BY <1>1, <1>2
<1> QED
  BY <1>1, <1>2, <1>3 DEF Speed!Task, Speed!Progress

LEMMA PublishProgress ==
    ASSUME NEW r \in Speed!Task, Speed!Progress(r), r.step = "publish",
           NEW t, t = [r EXCEPT !.run = @ + 1, !.left = Threads,
                          !.step = IF r.run + 1 < Runs THEN "fetch" ELSE "finish"]
    PROVE  /\ t \in Speed!Task /\ Speed!Progress(t) /\ t.step \in {"fetch", "finish"}
           /\ t.run = r.run + 1 /\ t.received = r.received
<1>1. t = [step |-> IF r.run + 1 < Runs THEN "fetch" ELSE "finish", run |-> r.run + 1,
           left |-> Threads, received |-> r.received, failed |-> r.failed]
  BY DEF Speed!Task
<1>2. /\ r.run \in Nat /\ r.left \in Nat /\ r.received \in Nat /\ r.failed \in Nat
      /\ r.run < Runs
      /\ r.failed = 0 => r.received = (r.run + 1) * Threads
  BY DEF Speed!Task, Speed!Progress
<1>3. r.failed = 0 => r.received + Threads = ((r.run + 1) + 1) * Threads
  BY <1>2, Distributes, SpeedAssumption
<1>4. /\ t.step = "fetch" /\ t.failed = 0 => t.received + t.left = (t.run + 1) * Threads
      /\ t.step = "finish" => t.run = Runs /\ (t.failed = 0 => t.received = t.run * Threads)
      /\ t.step = "fetch" => t.run < Runs
  BY <1>1, <1>2, <1>3, SpeedAssumption
<1>5. t \in Speed!Task /\ t.step \in {"fetch", "finish"}
  <2>1. CASE r.run + 1 < Runs
    BY <1>1, <1>2, <2>1, SpeedAssumption DEF Speed!Task
  <2>2. CASE ~(r.run + 1 < Runs)
    BY <1>1, <1>2, <2>2, SpeedAssumption DEF Speed!Task
  <2> QED
    BY <2>1, <2>2
<1> QED
  BY <1>1, <1>4, <1>5 DEF Speed!Progress

\* A step of the task of generation g: the status changes only if g is the
\* present generation, and then with the task.
LEMMA SpeedTaskStep ==
    ASSUME Speed!SpeedInv, NEW g \in Speed!Generations, x3[g].step # "none",
           x2' = x2, x4' = x4, x5' = x5,
           x1' \in Speed!Status,
           x3' \in [Speed!Generations -> Speed!Task],
           \A h \in Speed!Generations \ {g} : x3'[h] = x3[h],
           Speed!Progress(x3'[g]),
           g # x2 => x1' = x1,
           g = x2 /\ x3'[g].step = "none" => x1'.state # "running",
           g = x2 /\ x3'[g].step # "none" => /\ x1'.state = "running"
                                             /\ x1'.completed = x3'[g].run
                                             /\ x1'.received <= x3'[g].received,
           g = x2 /\ x3'[g].step = "finish" => x1'.received = x3'[g].received,
           x1'.state = "completed" => x1'.completed = Runs /\ x1'.received = Runs * Threads
    PROVE  Speed!SpeedInv'
<1> USE DEF Speed!Generations
<1>1. /\ x2 \in 0..MaxGeneration /\ x3 \in [Speed!Generations -> Speed!Task]
      /\ \A h \in Speed!Generations : h > x2 => x3[h] = Speed!NoTask
      /\ \A h \in Speed!Generations : Speed!Progress(x3[h])
  BY DEF Speed!SpeedInv
<1>2. g <= x2
  BY <1>1, SpeedAssumption DEF Speed!NoTask
<1>3. \A h \in Speed!Generations : h > x2 => x3'[h] = Speed!NoTask
  BY <1>1, <1>2, SpeedAssumption
<1>4. \A h \in Speed!Generations : Speed!Progress(x3'[h])
  BY <1>1
<1>5. CASE g = x2
  <2>1. Speed!Live(x2)' <=> x3'[x2].step # "none"
    BY <1>5 DEF Speed!Live
  <2>2. Speed!StatusIsTheTask'
    BY <1>5, <2>1 DEF Speed!StatusIsTheTask
  <2>3. x3'[x2].step = "finish" => x1'.received = x3'[x2].received
    BY <1>5
  <2> QED
    BY <1>1, <1>3, <1>4, <1>5, <2>2, <2>3 DEF Speed!SpeedInv, Speed!NoTask, Speed!Progress
<1>6. CASE g # x2
  <2>1. x2 \in Speed!Generations => x3'[x2] = x3[x2]
    BY <1>6
  <2>2. Speed!Live(x2)' <=> Speed!Live(x2)
    BY <2>1 DEF Speed!Live
  <2>3. Speed!StatusIsTheTask'
    BY <1>6, <2>1, <2>2 DEF Speed!StatusIsTheTask, Speed!SpeedInv, Speed!Live
  <2>4. Speed!Live(x2)' /\ x3'[x2].step = "finish" => x1'.received = x3'[x2].received
    BY <1>6, <2>1, <2>2 DEF Speed!SpeedInv, Speed!Live
  <2> QED
    BY <1>1, <1>3, <1>4, <2>3, <2>4 DEF Speed!SpeedInv, Speed!NoTask, Speed!Progress
<1> QED
  BY <1>5, <1>6

LEMMA SpeedStepKept ==
    ASSUME Speed!SpeedInv, Speed!Next
    PROVE  Speed!SpeedInv'
<1> USE SpeedAssumption DEF Speed!Generations
<1>0. /\ x2 \in 0..MaxGeneration /\ x3 \in [Speed!Generations -> Speed!Task]
      /\ \A h \in Speed!Generations : Speed!Progress(x3[h])
      /\ x1 \in Speed!Status
  BY DEF Speed!SpeedInv
<1>a. /\ x2 \in Speed!Generations /\ x3[x2].step # "none"
            => /\ x1.state = "running" /\ x1.completed = x3[x2].run
               /\ x1.received <= x3[x2].received
               /\ x3[x2].step = "finish" => x1.received = x3[x2].received
      /\ x1.state = "completed" => x1.completed = Runs /\ x1.received = Runs * Threads
      /\ x1.state = "running" => x2 \in Speed!Generations /\ x3[x2].step # "none"
  BY DEF Speed!SpeedInv, Speed!StatusIsTheTask, Speed!Live
<1>1. CASE Speed!RefreshAvailability
  <2>1. /\ x1.state \in {"idle", "unavailable"} /\ UNCHANGED <<x2, x3, x4, x5>>
        /\ x1' = [x1 EXCEPT !.state = IF x4 THEN "idle" ELSE "unavailable"]
    BY <1>1 DEF Speed!RefreshAvailability
  <2>2. ~Speed!Live(x2)
    BY <1>a, <2>1 DEF Speed!Live
  <2> QED
    BY <1>0, <2>1, <2>2 DEF Speed!SpeedInv, Speed!StatusIsTheTask, Speed!Live, Speed!NoTask, Speed!Progress,
                            Speed!Status
<1>2. CASE Speed!Start
  <2> DEFINE t == Speed!NewTask
  <2>1. /\ x2 < MaxGeneration /\ x2' = x2 + 1 /\ x4' = x4 /\ x5' = x5
        /\ x1' = [state |-> "running", received |-> 0, failed |-> 0, completed |-> 0]
        /\ x3' = [x3 EXCEPT ![x2 + 1] = t]
    BY <1>2 DEF Speed!Start
  <2>2. /\ t \in Speed!Task /\ Speed!Progress(t) /\ t.step = "fetch"
        /\ t.run = 0 /\ t.received = 0
    BY DEF Speed!Task, Speed!Progress, Speed!NewTask
  <2> HIDE DEF t
  <2>3. x3' \in [Speed!Generations -> Speed!Task] /\ x3'[x2 + 1] = t
    BY <1>0, <2>1, <2>2
  <2>4. \A h \in Speed!Generations : Speed!Progress(x3'[h])
    BY <1>0, <2>1, <2>2
  <2>5. \A h \in Speed!Generations : h > x2' => x3'[h] = Speed!NoTask
    BY <1>0, <2>1 DEF Speed!SpeedInv
  <2>6. Speed!StatusIsTheTask'
    BY <1>0, <2>1, <2>2, <2>3 DEF Speed!StatusIsTheTask, Speed!Live
  <2> QED
    BY <1>0, <2>1, <2>2, <2>3, <2>4, <2>5, <2>6 DEF Speed!SpeedInv, Speed!NoTask, Speed!Progress, Speed!Status
<1>3. CASE Speed!Stop
  <2>1. /\ x2 < MaxGeneration /\ x2' = x2 + 1 /\ x4' = x4 /\ x3' = x3
        /\ x1' = [x1 EXCEPT !.state = "cancelled"] /\ x5' = x5 \cup {x2}
        /\ x2 \in Speed!Generations
    BY <1>3, <1>a DEF Speed!Stop
  <2>2. x3[x2 + 1] = Speed!NoTask
    BY <1>0, <2>1 DEF Speed!SpeedInv
  <2>3. ~Speed!Live(x2)'
    BY <2>1, <2>2 DEF Speed!Live, Speed!NoTask
  <2>4. Speed!StatusIsTheTask'
    BY <1>0, <2>1, <2>3 DEF Speed!StatusIsTheTask
  <2>5. x1' \in Speed!Status
    BY <1>0, <2>1 DEF Speed!Status
  <2>6. x5' \subseteq 1..(x2' - 1) /\ x2' \in 0..MaxGeneration
    BY <1>0, <2>1 DEF Speed!SpeedInv
  <2>7. \A h \in Speed!Generations : h > x2' => x3'[h] = Speed!NoTask
    BY <1>0, <2>1 DEF Speed!SpeedInv
  <2> QED
    BY <1>0, <2>1, <2>3, <2>4, <2>5, <2>6, <2>7 DEF Speed!SpeedInv, Speed!Progress, Speed!NoTask
<1>4. CASE Speed!Route
  <2>1. UNCHANGED <<x1, x2, x3, x5>> /\ x4' \in BOOLEAN
    BY <1>4, Zenon DEF Speed!Route
  <2> QED
    BY <2>1 DEF Speed!SpeedInv, Speed!StatusIsTheTask, Speed!Live, Speed!Progress, Speed!NoTask
<1>5. ASSUME NEW g \in Speed!Generations, NEW bytes \in {0, 1}, NEW whole \in BOOLEAN,
             Speed!Fetch(g, bytes, whole)
      PROVE  Speed!SpeedInv'
  <2>1. /\ x3[g].step = "fetch" /\ x3[g].left > 0 /\ (whole => bytes = 1)
        /\ UNCHANGED <<x1, x2, x4, x5>>
    BY <1>5 DEF Speed!Fetch
  <2>3. x3[g] \in Speed!Task
    BY <1>0
  <2> DEFINE f == IF whole THEN 0 ELSE 1
             t == [x3[g] EXCEPT !.left = @ - 1, !.received = @ + bytes, !.failed = @ + f]
  <2>a. f \in {0, 1} /\ (f = 0 => bytes = 1)
    BY <2>1
  <2>2. x3' = [x3 EXCEPT ![g] = t]
    BY <1>5 DEF Speed!Fetch
  <2> HIDE DEF f
  <2>4. /\ t \in Speed!Task /\ Speed!Progress(t) /\ t.step = "fetch"
        /\ t.run = x3[g].run /\ t.received >= x3[g].received
    BY <1>0, <2>1, <2>3, <2>a, FetchProgress
  <2> HIDE DEF t
  <2>6. x3' \in [Speed!Generations -> Speed!Task] /\ x3'[g] = t
        /\ \A h \in Speed!Generations \ {g} : x3'[h] = x3[h]
    BY <1>0, <2>2, <2>4
  <2>7. g = x2 => x1.received <= t.received
    <3>1. x1.received \in Nat /\ x3[g].received \in Nat /\ t.received \in Nat
      BY <1>0, <2>3, <2>4 DEF Speed!Task, Speed!Status
    <3> QED
      BY <1>a, <2>1, <2>4, <3>1
  <2> QED
    BY <1>0, <1>a, <2>1, <2>4, <2>6, <2>7, SpeedTaskStep
<1>6. ASSUME NEW g \in Speed!Generations, Speed!RunEnds(g)
      PROVE  Speed!SpeedInv'
  <2>1. x3[g].step = "fetch" /\ UNCHANGED <<x1, x2, x4, x5>>
    BY <1>6 DEF Speed!RunEnds
  <2>3. x3[g] \in Speed!Task
    BY <1>0
  <2> DEFINE t == [x3[g] EXCEPT !.step = "publish", !.failed = @ + x3[g].left, !.left = 0]
  <2>2. x3' = [x3 EXCEPT ![g] = t]
    BY <1>6 DEF Speed!RunEnds
  <2>4. /\ t \in Speed!Task /\ Speed!Progress(t) /\ t.step = "publish"
        /\ t.run = x3[g].run /\ t.received = x3[g].received
    BY <1>0, <2>1, <2>3, RunEndsProgress
  <2> HIDE DEF t
  <2>6. x3' \in [Speed!Generations -> Speed!Task] /\ x3'[g] = t
        /\ \A h \in Speed!Generations \ {g} : x3'[h] = x3[h]
    BY <1>0, <2>2, <2>4
  <2> QED
    BY <1>0, <1>a, <2>1, <2>4, <2>6, SpeedTaskStep
<1>7. ASSUME NEW g \in Speed!Generations, Speed!Publish(g)
      PROVE  Speed!SpeedInv'
  <2>0. x3[g].step = "publish" /\ UNCHANGED <<x2, x4, x5>> /\ x3[g] \in Speed!Task
    BY <1>0, <1>7 DEF Speed!Publish
  <2>1. CASE x2 # g /\ x3' = [x3 EXCEPT ![g] = Speed!NoTask] /\ x1' = x1
    <3>1. Speed!NoTask \in Speed!Task /\ Speed!Progress(Speed!NoTask)
      BY DEF Speed!NoTask, Speed!Task, Speed!Progress
    <3>2. x3' \in [Speed!Generations -> Speed!Task] /\ x3'[g] = Speed!NoTask
          /\ \A h \in Speed!Generations \ {g} : x3'[h] = x3[h]
      BY <1>0, <2>1, <3>1
    <3> QED
      BY <1>0, <1>a, <2>0, <2>1, <3>1, <3>2, SpeedTaskStep
  <2> DEFINE t == [x3[g] EXCEPT !.run = @ + 1, !.left = Threads,
                       !.step = IF x3[g].run + 1 < Runs THEN "fetch" ELSE "finish"]
             s == [state |-> x1.state, received |-> x3[g].received, failed |-> x3[g].failed,
                   completed |-> x3[g].run + 1]
  <2>2. CASE x2 = g /\ x1' = s /\ x3' = [x3 EXCEPT ![g] = t]
    <3>1. /\ t \in Speed!Task /\ Speed!Progress(t) /\ t.step \in {"fetch", "finish"}
          /\ t.run = x3[g].run + 1 /\ t.received = x3[g].received
      <4> DEFINE r == x3[g]
                 u == [r EXCEPT !.run = @ + 1, !.left = Threads,
                           !.step = IF r.run + 1 < Runs THEN "fetch" ELSE "finish"]
      <4>1. r \in Speed!Task /\ Speed!Progress(r) /\ r.step = "publish"
        BY <1>0, <2>0
      <4>2. t = u
        OBVIOUS
      <4> HIDE DEF r
      <4>3. /\ u \in Speed!Task /\ Speed!Progress(u) /\ u.step \in {"fetch", "finish"}
            /\ u.run = r.run + 1 /\ u.received = r.received
        BY <4>1, PublishProgress
      <4> QED
        BY <4>2, <4>3 DEF r
    <3>3. /\ s \in Speed!Status
          /\ s.state = "running" /\ s.completed = x3[g].run + 1 /\ s.received = x3[g].received
      BY <1>0, <1>a, <2>0, <2>2 DEF Speed!Task, Speed!Status
    <3> HIDE DEF t, s
    <3>4. x3' \in [Speed!Generations -> Speed!Task] /\ x3'[g] = t
          /\ \A h \in Speed!Generations \ {g} : x3'[h] = x3[h]
      BY <1>0, <2>2, <3>1
    <3>5. s.received <= t.received
      BY <2>0, <3>1, <3>3 DEF Speed!Task
    <3> QED
      BY <2>0, <2>2, <3>1, <3>3, <3>4, <3>5, SpeedTaskStep
  <2>3. ASSUME ~Speed!Stale(g),
               x1' = [x1 EXCEPT !.received = x3[g].received, !.failed = x3[g].failed,
                                !.completed = x3[g].run + 1],
               x3' = [x3 EXCEPT ![g].run = @ + 1, ![g].left = Threads,
                          ![g].step = IF x3[g].run + 1 < Runs THEN "fetch" ELSE "finish"]
        PROVE  x2 = g /\ x1' = s /\ x3' = [x3 EXCEPT ![g] = t]
    BY <1>0, <2>0, <2>3 DEF Speed!Stale, Speed!Task, Speed!Status
  <2> QED
    BY <1>7, <2>1, <2>2, <2>3 DEF Speed!Publish, Speed!Stale
<1>8. ASSUME NEW g \in Speed!Generations, Speed!Finish(g)
      PROVE  Speed!SpeedInv'
  <2>0. /\ x3[g].step = "finish" /\ UNCHANGED <<x2, x4, x5>> /\ x3[g] \in Speed!Task
        /\ x3' = [x3 EXCEPT ![g] = Speed!NoTask] /\ Speed!Progress(x3[g])
    BY <1>0, <1>8 DEF Speed!Finish
  <2>1. Speed!NoTask \in Speed!Task /\ Speed!Progress(Speed!NoTask) /\ Speed!NoTask.step = "none"
    BY DEF Speed!NoTask, Speed!Task, Speed!Progress
  <2>2. x3' \in [Speed!Generations -> Speed!Task] /\ x3'[g] = Speed!NoTask
        /\ \A h \in Speed!Generations \ {g} : x3'[h] = x3[h]
    BY <1>0, <2>0, <2>1
  <2>3. CASE x2 # g /\ x1' = x1
    BY <1>0, <1>a, <2>0, <2>1, <2>2, <2>3, SpeedTaskStep
  <2> DEFINE r == IF x3[g].received = 0 THEN "error"
                  ELSE IF x3[g].failed > 0 THEN "partial" ELSE "completed"
             s == [x1 EXCEPT !.state = r]
  <2>a. r \in {"error", "partial", "completed"} /\ (r = "completed" => x3[g].failed = 0)
    BY <2>0 DEF Speed!Task
  <2> HIDE DEF r
  <2>4. CASE x2 = g /\ x1' = s
    <3>1. /\ s \in Speed!Status
          /\ s.state # "running"
          /\ s.completed = x1.completed /\ s.received = x1.received
          /\ s.state = "completed" => x3[g].failed = 0
      BY <1>0, <2>a DEF Speed!Status
    <3> HIDE DEF s
    <3>2. x3[g].run = Runs /\ (x3[g].failed = 0 => x3[g].received = Runs * Threads)
      BY <2>0 DEF Speed!Progress
    <3>3. s.state = "completed" => s.completed = Runs /\ s.received = Runs * Threads
      BY <1>a, <2>0, <2>4, <3>1, <3>2
    <3> QED
      BY <2>0, <2>1, <2>2, <2>4, <3>1, <3>3, SpeedTaskStep
  <2> QED
    BY <1>8, <2>3, <2>4 DEF Speed!Finish, Speed!Stale, r
<1>9. ASSUME NEW g \in Speed!Generations, Speed!Abort(g)
      PROVE  Speed!SpeedInv'
  <2>0. /\ x3[g].step # "none" /\ UNCHANGED <<x1, x2, x4, x5>>
        /\ x3' = [x3 EXCEPT ![g] = Speed!NoTask] /\ g \in x5
    BY <1>9 DEF Speed!Abort, Speed!Live
  <2>1. Speed!NoTask \in Speed!Task /\ Speed!Progress(Speed!NoTask) /\ Speed!NoTask.step = "none"
    BY DEF Speed!NoTask, Speed!Task, Speed!Progress
  <2>2. x3' \in [Speed!Generations -> Speed!Task] /\ x3'[g] = Speed!NoTask
        /\ \A h \in Speed!Generations \ {g} : x3'[h] = x3[h]
    BY <1>0, <2>0, <2>1
  <2>3. g # x2
    BY <1>0, <2>0 DEF Speed!SpeedInv
  <2> QED
    BY <1>0, <1>a, <2>0, <2>1, <2>2, <2>3, SpeedTaskStep
<1> QED
  BY <1>1, <1>2, <1>3, <1>4, <1>5, <1>6, <1>7, <1>8, <1>9 DEF Speed!Next

\* For any number of threads and runs, any starts, stops and late aborts: the
\* status says "running" exactly while the newest test's task lives, shows that
\* task's figures, and says "completed" only when every thread of every run
\* brought its share (speedtest.rs, start_on_interface, stop and run).
THEOREM StatusIsTheTaskHolds == AllSpec => []StatusIsTheTask
<1> DEFINE Inv == live = "speed" => Speed!SpeedInv
<1>1. AllInit => Inv
  BY SpeedInit DEF AllInit
<1>2. Inv /\ [AllNext]_all => Inv'
  <2> SUFFICES ASSUME Inv, [AllNext]_all, live' = "speed" PROVE Speed!SpeedInv'
    OBVIOUS
  <2>1. live = "speed" /\ (Speed!Next \/ UNCHANGED <<x1, x2, x3, x4, x5>>)
    BY DEF AllNext, all, BusStep, FilesStep, DnsStep, ServiceStep, PanelStep, SpeedStep, TrafficStep,
           HistoryStep, StateStep, Keep0, Keep5, Keep6, Keep8, Keep9, Keep11, Keep13
  <2>2. CASE UNCHANGED <<x1, x2, x3, x4, x5>>
    BY <2>1, <2>2 DEF Speed!SpeedInv, Speed!StatusIsTheTask, Speed!Live, Speed!Progress, Speed!NoTask
  <2> QED
    BY <2>1, <2>2, SpeedStepKept
<1>3. Inv => StatusIsTheTask
  BY DEF StatusIsTheTask, Speed!SpeedInv
<1> QED
  BY <1>1, <1>2, <1>3, PTL DEF AllSpec
(***************************************************************************)
(* StateStream: CacheCurrent from CacheInv.  x1 is conf, x2 pend, x3       *)
(* writes, x5 cache, x6 round.                                             *)
(***************************************************************************)

LEMMA CacheInit == State!Init => State!CacheInv
<1> SUFFICES ASSUME State!Init PROVE State!CacheInv
  OBVIOUS
<1>1. (CHOOSE v \in Values : TRUE) \in Values
  BY StateAssumption
<1>2. State!Idle \in State!Progress /\ State!Idle.stamp[2] = None /\ State!Idle.at = "idle"
  BY DEF State!Idle, State!Progress
<1> QED
  BY <1>1, <1>2 DEF State!Init, State!CacheInv, State!CacheCurrent, State!Old

\* A write makes every pair of stamps that was read before an old one.
LEMMA CacheWrite ==
    ASSUME State!CacheInv, NEW c, NEW p, State!Write(c, p),
           c \in [at : Nat, val : Values],
           p \in [at : {x3 + 1}, val : Values \cup {None}]
    PROVE  State!CacheInv'
<1>1. /\ x3 \in Nat /\ x3' = x3 + 1 /\ x1' = c /\ x2' = p /\ x5' = x5 /\ x6' = x6
      /\ x6 \in [Rounds -> State!Progress]
  BY DEF State!Write, State!CacheInv
<1>2. p \in [at : 0..(x3 + 1), val : Values \cup {None}] /\ p.at = x3 + 1
  BY <1>1
<1>3. p # None
  BY <1>1, <1>2, StateAssumption
<1>4. State!Present' = <<State!Stamp(c), x3 + 1>>
  BY <1>1, <1>2, <1>3 DEF State!Present, State!Stamp
<1>5. \A s : State!Old(s) => State!Old(s)' /\ s # State!Present'
  BY <1>1, <1>4, StateAssumption DEF State!Old
<1>6. /\ \A r \in Rounds : State!Old(x6[r].stamp)
      /\ x5 # None => x5 \in [stamp : (Nat \cup {None}) \X (Nat \cup {None}), val : Values \cup {None}]
                      /\ State!Old(x5.stamp)
  BY DEF State!CacheInv
<1>7. \A r \in Rounds : State!Old(x6[r].stamp)' /\ x6[r].stamp # State!Present'
  BY <1>1, <1>5, <1>6 DEF State!Old
<1>8. x5 # None => State!Old(x5.stamp)' /\ x5.stamp # State!Present'
  BY <1>1, <1>5, <1>6 DEF State!Old
<1> QED
  BY <1>1, <1>2, <1>6, <1>7, <1>8 DEF State!CacheInv, State!CacheCurrent

\* A step of round r that leaves the files alone.
LEMMA CacheRound ==
    ASSUME State!CacheInv, NEW r \in Rounds, NEW st \in State!Progress,
           x6' = [x6 EXCEPT ![r] = st], UNCHANGED <<x1, x2, x3>>,
           State!Old(st.stamp),
           st.at = "store" /\ st.stamp = State!Present => st.val = State!Shown,
           \/ x5' = x5
           \/ /\ x5' = [stamp |-> x6[r].stamp, val |-> x6[r].val] /\ x6[r].at = "store"
    PROVE  State!CacheInv'
<1>1. /\ x6 \in [Rounds -> State!Progress] /\ x6[r] \in State!Progress
      /\ \A q \in Rounds : State!Old(x6[q].stamp)
      /\ \A q \in Rounds : x6[q].at = "store" /\ x6[q].stamp = State!Present => x6[q].val = State!Shown
  BY DEF State!CacheInv
<1>2. State!Present' = State!Present /\ State!Shown' = State!Shown /\ \A s : State!Old(s)' <=> State!Old(s)
  BY DEF State!Present, State!Stamp, State!Shown, State!Old
<1>3. /\ x6' \in [Rounds -> State!Progress]
      /\ \A q \in Rounds : x6'[q] = IF q = r THEN st ELSE x6[q]
  BY <1>1
<1>4. /\ \A q \in Rounds : State!Old(x6'[q].stamp)
      /\ \A q \in Rounds : x6'[q].at = "store" /\ x6'[q].stamp = State!Present => x6'[q].val = State!Shown
  BY <1>1, <1>3
<1>5. x5' # None => /\ x5' \in [stamp : (Nat \cup {None}) \X (Nat \cup {None}), val : Values \cup {None}]
                    /\ State!Old(x5'.stamp)
                    /\ x5'.stamp = State!Present => x5'.val = State!Shown
  <2>1. CASE x5' = x5
    BY <2>1 DEF State!CacheInv, State!CacheCurrent
  <2>2. CASE x5' = [stamp |-> x6[r].stamp, val |-> x6[r].val] /\ x6[r].at = "store"
    BY <1>1, <2>2 DEF State!Progress
  <2> QED
    BY <2>1, <2>2
<1> QED
  BY <1>2, <1>3, <1>4, <1>5 DEF State!CacheInv, State!CacheCurrent, State!Old

LEMMA CacheStepKept ==
    ASSUME State!CacheInv, State!Next
    PROVE  State!CacheInv'
<1>0. /\ x3 \in Nat /\ x1 \in [at : Nat, val : Values]
      /\ x2 # None => x2 \in [at : 0..x3, val : Values \cup {None}]
      /\ x6 \in [Rounds -> State!Progress]
      /\ \A r \in Rounds : State!Old(x6[r].stamp)
  BY DEF State!CacheInv
<1>1. ASSUME NEW v \in Values, State!Stage(v) PROVE State!CacheInv'
  <2>1. [at |-> x3 + 1, val |-> v] \in [at : {x3 + 1}, val : Values \cup {None}]
    OBVIOUS
  <2> QED
    BY <1>0, <1>1, <2>1, CacheWrite DEF State!Stage
<1>2. CASE State!Commit
  <2>1. x2.val \in Values
    BY <1>0, <1>2 DEF State!Commit
  <2>2. /\ [at |-> x3 + 1, val |-> None] \in [at : {x3 + 1}, val : Values \cup {None}]
        /\ [at |-> x3 + 1, val |-> x2.val] \in [at : Nat, val : Values]
    BY <1>0, <2>1
  <2> QED
    BY <1>0, <1>2, <2>2, CacheWrite DEF State!Commit
<1>3. CASE State!Revert
  <2>1. [at |-> x3 + 1, val |-> None] \in [at : {x3 + 1}, val : Values \cup {None}]
    OBVIOUS
  <2> QED
    BY <1>0, <1>3, <2>1, CacheWrite DEF State!Revert
<1>4. ASSUME NEW r \in Rounds, State!Step(r) PROVE State!CacheInv'
  <2>0. /\ x6[r] \in State!Progress /\ State!Old(x6[r].stamp)
        /\ x6[r].stamp \in (Nat \cup {None}) \X (Nat \cup {None})
    BY <1>0 DEF State!Progress
  <2>a. State!Stamp(x1) \in Nat \cup {None}
        /\ State!Stamp(x2) \in 0..x3 \cup {None}
    BY <1>0 DEF State!Stamp
  <2>1. CASE State!Begin(r)
    <3> DEFINE st == [State!Idle EXCEPT !.at = "stamp", !.stamp = <<State!Stamp(x1), None>>]
    <3>1. x6' = [x6 EXCEPT ![r] = st] /\ UNCHANGED <<x1, x2, x3, x5>>
      BY <2>1 DEF State!Begin, State!Set, State!files
    <3>0. State!Idle \in State!Progress
      BY DEF State!Idle, State!Progress
    <3>2. st \in State!Progress /\ State!Old(st.stamp) /\ st.at # "store"
      BY <2>a, <3>0 DEF State!Progress, State!Old
    <3> HIDE DEF st
    <3> QED
      BY <3>1, <3>2, CacheRound
  <2>2. CASE State!StampChanges(r)
    <3> DEFINE st == [x6[r] EXCEPT !.at = "look", !.stamp = <<x6[r].stamp[1], State!Stamp(x2)>>]
    <3>1. x6' = [x6 EXCEPT ![r] = st] /\ UNCHANGED <<x1, x2, x3, x5>>
      BY <2>2 DEF State!StampChanges, State!Set, State!files
    <3>2. <<x6[r].stamp[1], State!Stamp(x2)>> \in (Nat \cup {None}) \X (Nat \cup {None})
      BY <1>0, <2>0, <2>a
    <3>3. st \in State!Progress /\ st.stamp[2] = State!Stamp(x2) /\ st.at # "store"
      BY <2>0, <3>2 DEF State!Progress
    <3>4. State!Old(st.stamp)
      BY <2>a, <3>3 DEF State!Old
    <3> HIDE DEF st
    <3> QED
      BY <3>1, <3>3, <3>4, CacheRound
  <2>3. CASE State!Look(r)
    <3> DEFINE st == IF State!Hit(r) THEN [x6[r] EXCEPT !.at = "publish", !.val = x5.val]
                     ELSE [x6[r] EXCEPT !.at = "show"]
    <3>1. x6' = [x6 EXCEPT ![r] = st] /\ UNCHANGED <<x1, x2, x3, x5>>
      BY <2>3 DEF State!Look, State!Set, State!files
    <3>2. st \in State!Progress /\ st.stamp = x6[r].stamp /\ st.at # "store"
      <4>1. CASE State!Hit(r)
        <5>1. x5.val \in Values \cup {None}
          BY <4>1 DEF State!Hit, State!CacheInv
        <5> QED
          BY <2>0, <4>1, <5>1 DEF State!Progress
      <4>2. CASE ~State!Hit(r)
        BY <2>0, <4>2 DEF State!Progress
      <4> QED
        BY <4>1, <4>2
    <3> HIDE DEF st
    <3> QED
      BY <2>0, <3>1, <3>2, CacheRound
  <2>4. CASE State!Show(r)
    <3>0. State!Shown \in Values \cup {None}
      BY <1>0 DEF State!Shown
    <3>1. UNCHANGED <<x1, x2, x3, x5>>
      BY <2>4 DEF State!Show, State!files
    <3>2. PICK st \in {[x6[r] EXCEPT !.at = "store", !.val = State!Shown],
                       [x6[r] EXCEPT !.at = "publish", !.val = None]} : x6' = [x6 EXCEPT ![r] = st]
      BY <2>4 DEF State!Show, State!Set
    <3>3. /\ st \in State!Progress /\ st.stamp = x6[r].stamp
          /\ st.at = "store" => st.val = State!Shown
      BY <2>0, <3>0, <3>2 DEF State!Progress
    <3> QED
      BY <2>0, <3>1, <3>2, <3>3, CacheRound
  <2>5. CASE State!Store(r)
    <3> DEFINE st == [x6[r] EXCEPT !.at = "publish"]
    <3>1. /\ x6' = [x6 EXCEPT ![r] = st] /\ UNCHANGED <<x1, x2, x3>>
          /\ x5' = [stamp |-> x6[r].stamp, val |-> x6[r].val] /\ x6[r].at = "store"
      BY <2>5 DEF State!Store, State!Set, State!files, State!Key
    <3>2. st \in State!Progress /\ st.stamp = x6[r].stamp /\ st.at # "store"
      BY <2>0 DEF State!Progress
    <3> HIDE DEF st
    <3> QED
      BY <2>0, <3>1, <3>2, CacheRound
  <2>6. CASE State!Publish(r)
    <3>1. x6' = [x6 EXCEPT ![r] = State!Idle] /\ UNCHANGED <<x1, x2, x3, x5>>
      BY <2>6 DEF State!Publish, State!Set, State!files
    <3>2. State!Idle \in State!Progress /\ State!Old(State!Idle.stamp) /\ State!Idle.at # "store"
      BY DEF State!Idle, State!Progress, State!Old
    <3> QED
      BY <3>1, <3>2, CacheRound
  <2> QED
    BY <1>4, <2>1, <2>2, <2>3, <2>4, <2>5, <2>6 DEF State!Step
<1>5. ASSUME NEW x \in Streams, State!Open(x) \/ State!Send(x) \/ State!Close(x)
      PROVE  State!CacheInv'
  <2>1. UNCHANGED <<x1, x2, x3, x5, x6>>
    BY <1>5 DEF State!Open, State!Send, State!Close, State!files
  <2> QED
    BY <2>1 DEF State!CacheInv, State!CacheCurrent, State!Old, State!Present, State!Shown, State!Stamp
<1> QED
  BY <1>1, <1>2, <1>3, <1>4, <1>5 DEF State!Next

\* For any rounds, any packages and any number of staged, committed and
\* reverted changes: the cache of uci_show_raw never answers for files that
\* have changed since their stamps were read (state.rs, uci_stamp).
THEOREM CacheCurrentHolds == AllSpec => []CacheCurrent
<1> DEFINE Inv == live = "state" => State!CacheInv
<1>1. AllInit => Inv
  BY CacheInit DEF AllInit
<1>2. Inv /\ [AllNext]_all => Inv'
  <2> SUFFICES ASSUME Inv, [AllNext]_all, live' = "state" PROVE State!CacheInv'
    OBVIOUS
  <2>1. live = "state" /\ (State!Next \/ UNCHANGED <<x1, x2, x3, x4, x5, x6>>)
    BY DEF AllNext, all, BusStep, FilesStep, DnsStep, ServiceStep, PanelStep, SpeedStep, TrafficStep,
           HistoryStep, StateStep, Keep0, Keep5, Keep6, Keep8, Keep9, Keep11, Keep13
  <2>2. CASE UNCHANGED <<x1, x2, x3, x4, x5, x6>>
    BY <2>1, <2>2 DEF State!CacheInv, State!CacheCurrent, State!Old, State!Present, State!Shown,
                      State!Stamp
  <2> QED
    BY <2>1, <2>2, CacheStepKept
<1>3. Inv => CacheCurrent
  BY DEF CacheCurrent, State!CacheInv
<1> QED
  BY <1>1, <1>2, <1>3, PTL DEF AllSpec
(***************************************************************************)
(* Activity: RebootExplained from HistoryInv.  x1 is stored, x2 dirty, x3  *)
(* storage_ok, x4 disk, x5 now, x6 reboot, x7 asked, x8 failed.            *)
(***************************************************************************)

LEMMA HistoryInit == History!Init => History!HistoryInv
<1> SUFFICES ASSUME History!Init PROVE History!HistoryInv
  OBVIOUS
<1>1. /\ x1 = [next_id |-> 0, entries |-> <<>>, level |-> 2] /\ x4 = x1
      /\ x2 = FALSE /\ x3 = TRUE /\ x5 = 0 /\ x6 = "none" /\ x7 = 0
  BY DEF History!Init, History!Default
<1>2. History!Valid(x1)
  BY <1>1, HistoryAssumption DEF History!Valid, History!Entry, History!Ids, History!Levels
<1> QED
  BY <1>1, <1>2 DEF History!HistoryInv, History!RebootExplained, History!Valid

\* A flush of unsaved entries puts them on flash, or marks the storage as bad.
LEMMA HistoryFlushed ==
    ASSUME NEW st, History!Flushed(st, TRUE)
    PROVE  \/ x4' = st /\ x3' = TRUE /\ x2' = FALSE
           \/ x4' = x4 /\ x3' = FALSE /\ x2' = TRUE
<1>1. PICK ok \in BOOLEAN : History!Saves(st, ok) /\ x3' = ok /\ x2' = ~ok
  BY DEF History!Flushed
<1>2. CASE ok = TRUE
  BY <1>1, <1>2 DEF History!Saves
<1>3. CASE ok = FALSE
  BY <1>1, <1>3 DEF History!Saves
<1> QED
  BY <1>2, <1>3

LEMMA HistoryPush ==
    ASSUME History!HistoryInv, NEW kind \in History!Kinds, History!Push(kind)
    PROVE  /\ History!Valid(x1') /\ History!Valid(x4') /\ x2' \in BOOLEAN /\ x3' \in BOOLEAN
           /\ ~x2' => x4' = x1'
           /\ x1'.next_id >= x1.next_id
           /\ History!Recorded(kind) => History!NextId \in Nat /\ x1'.next_id = History!NextId + 1
           /\ (x3 /\ x7 \in History!Ids(x1) => x7 \in History!Ids(x4))
                => (x3' /\ x7 \in History!Ids(x1') => x7 \in History!Ids(x4'))
<1>0. /\ History!Valid(x1) /\ History!Valid(x4) /\ x2 \in BOOLEAN /\ x3 \in BOOLEAN /\ x5 \in Nat
      /\ x7 \in Nat /\ (x7 # 0 => x7 < x1.next_id) /\ (~x2 => x4 = x1)
      /\ x1.next_id \in Nat
  BY DEF History!HistoryInv, History!RebootExplained, History!Valid
<1>1. CASE ~History!Recorded(kind)
  <2>1. x1' = x1 /\ x2' = x2 /\ x3' = x3 /\ x4' = x4
    BY <1>1, Zenon DEF History!Push
  <2>2. x1.next_id >= x1.next_id
    BY <1>0
  <2> QED
    BY <1>0, <1>1, <2>1, <2>2, Zenon
<1>2. CASE History!Recorded(kind)
  <2> DEFINE longer == Append(x1.entries, [id |-> History!NextId, kind |-> kind, at |-> x5])
             st == [x1 EXCEPT !.next_id = History!NextId + 1,
                        !.entries = IF Len(longer) > MaxEntries THEN Tail(longer) ELSE longer]
  <2>1. History!NextId \in Nat \ {0} /\ x1.next_id <= History!NextId
    BY <1>0 DEF History!NextId
  <2>2. /\ History!Valid(st) /\ st.next_id = History!NextId + 1
        /\ History!Ids(st) \subseteq History!Ids(x1) \cup {History!NextId}
    <3> DEFINE n == History!NextId
               s == x1
               e == [id |-> History!NextId, kind |-> kind, at |-> x5]
               kept == IF Len(longer) > MaxEntries THEN Tail(longer) ELSE longer
    <3>1. n \in Nat \ {0} /\ s.next_id <= n /\ History!Valid(s)
      BY <1>0, <2>1
    <3>2. e \in History!Entry /\ e.id = n
      BY <1>0, <2>1 DEF History!Entry
    <3>3. /\ longer = Append(s.entries, e)
          /\ kept = IF Len(longer) > MaxEntries THEN Tail(longer) ELSE longer
      OBVIOUS
    <3> HIDE DEF n, e, longer
    <3>4. st = [x1 EXCEPT !.next_id = n + 1, !.entries = kept]
      BY DEF n
    <3> HIDE DEF kept
    <3>5. /\ st.next_id = n + 1 /\ st.entries = kept /\ st.level = s.level
          /\ kept \in Seq(History!Entry)
               => st \in [next_id : Nat, entries : Seq(History!Entry), level : History!Levels]
      <4>1. n + 1 \in Nat /\ x1 \in [next_id : Nat, entries : Seq(History!Entry), level : History!Levels]
        BY <1>0, <3>1 DEF History!Valid
      <4> HIDE DEF st
      <4>2. st = [x1 EXCEPT !.next_id = n + 1, !.entries = kept]
        BY <3>4
      <4> QED
        BY <4>1, <4>2
    <3>6. s = x1 /\ n = History!NextId
      BY DEF n
    <3> HIDE DEF s, st
    <3>7. s \in [next_id : Nat, entries : Seq(History!Entry), level : History!Levels]
          /\ Len(s.entries) <= MaxEntries /\ s.entries \in Seq(History!Entry)
      BY <3>1 DEF History!Valid
    <3>8. longer \in Seq(History!Entry) /\ Len(longer) = Len(s.entries) + 1
          /\ \A i \in 1..Len(longer) : longer[i] = IF i = Len(longer) THEN e ELSE s.entries[i]
      BY <3>2, <3>3, <3>7
    <3>9. kept \in Seq(History!Entry) /\ Len(kept) <= MaxEntries
          /\ \A i \in 1..Len(kept) : \E j \in 1..Len(longer) : kept[i] = longer[j]
      BY <3>3, <3>7, <3>8, HistoryAssumption
    <3>10. \A i \in 1..Len(kept) : kept[i] = e \/ \E j \in 1..Len(s.entries) : kept[i] = s.entries[j]
      <4> SUFFICES ASSUME NEW i \in 1..Len(kept)
                   PROVE  kept[i] = e \/ \E j \in 1..Len(s.entries) : kept[i] = s.entries[j]
        OBVIOUS
      <4>1. PICK j \in 1..Len(longer) : kept[i] = longer[j]
        BY <3>9
      <4>2. longer[j] = IF j = Len(longer) THEN e ELSE s.entries[j]
        BY <3>8
      <4>3. j # Len(longer) => j \in 1..Len(s.entries)
        <5>1. PICK k : k = Len(s.entries)
          OBVIOUS
        <5>2. k \in Nat /\ j \in 1..(k + 1) /\ Len(longer) = k + 1
          BY <3>7, <3>8, <5>1
        <5> QED
          BY <5>1, <5>2
      <4> QED
        BY <4>1, <4>2, <4>3
    <3>11. /\ st \in [next_id : Nat, entries : Seq(History!Entry), level : History!Levels]
          /\ st.entries = kept /\ st.next_id = n + 1 /\ st.level = s.level
      BY <3>5, <3>9
    <3>12. DOMAIN kept = 1..Len(kept) /\ DOMAIN s.entries = 1..Len(s.entries)
      BY <3>7, <3>9
    <3>13. History!Ids(st) \subseteq History!Ids(s) \cup {n}
      <4>0. History!Ids(st) = {kept[i].id : i \in 1..Len(kept)}
        <5>1. History!Ids(st) = {st.entries[i].id : i \in DOMAIN st.entries}
          BY DEF History!Ids
        <5> QED
          BY <3>11, <3>12, <5>1
      <4> SUFFICES ASSUME NEW i \in 1..Len(kept) PROVE kept[i].id \in History!Ids(s) \cup {n}
        BY <4>0
      <4>1. CASE kept[i] = e
        BY <3>2, <4>1
      <4>2. CASE \E j \in 1..Len(s.entries) : kept[i] = s.entries[j]
        BY <3>12, <4>2 DEF History!Ids
      <4> QED
        BY <3>10, <4>1, <4>2
    <3>14. \A i \in History!Ids(s) : i < s.next_id /\ i \in Nat
      <4> SUFFICES ASSUME NEW j \in 1..Len(s.entries)
                   PROVE  s.entries[j].id < s.next_id /\ s.entries[j].id \in Nat
        BY <3>12 DEF History!Ids
      <4>1. s.entries[j] \in History!Entry
        BY <3>7
      <4>2. s.entries[j].id \in History!Ids(s)
        BY <3>12 DEF History!Ids
      <4> QED
        BY <3>1, <4>1, <4>2 DEF History!Valid, History!Entry
    <3>15. \A i \in History!Ids(st) : i < n + 1
      <4>1. s.next_id \in Nat
        BY <3>7
      <4> QED
        BY <3>1, <3>13, <3>14, <4>1
    <3>16. History!Valid(st)
      BY <3>9, <3>11, <3>15 DEF History!Valid
    <3> QED
      BY <3>6, <3>16, <3>5, <3>13
  <2>3. /\ x1' = st
        /\ \/ History!Flushed(st, TRUE)
           \/ x2' = TRUE /\ x3' = x3 /\ x4' = x4
    BY <1>2, Zenon DEF History!Push
  <2> HIDE DEF st
  <2>4. \/ x4' = st /\ x3' = TRUE /\ x2' = FALSE
        \/ x4' = x4 /\ x3' = FALSE /\ x2' = TRUE
        \/ x2' = TRUE /\ x3' = x3 /\ x4' = x4
    BY <2>3, HistoryFlushed
  <2>5. x7 \in History!Ids(st) => x7 \in History!Ids(x1)
    <3>1. \A i \in History!Ids(st) : i # 0
      <4>1. st.entries \in Seq(History!Entry)
        BY <2>2 DEF History!Valid
      <4>2. \A i \in DOMAIN st.entries : st.entries[i] \in History!Entry
        BY <4>1
      <4>3. \A i \in DOMAIN st.entries : st.entries[i].id # 0
        BY <4>2 DEF History!Entry
      <4> QED
        BY <4>3 DEF History!Ids
    <3> QED
      BY <1>0, <2>1, <2>2, <3>1
  <2>6. x1'.next_id >= x1.next_id
    BY <1>0, <2>1, <2>2, <2>3
  <2>7. /\ History!Valid(x1') /\ x1'.next_id = History!NextId + 1 /\ History!NextId \in Nat
        /\ x7 \in History!Ids(x1') => x7 \in History!Ids(x1)
    BY <2>1, <2>2, <2>3, <2>5
  <2>8. CASE x4' = st /\ x3' = TRUE /\ x2' = FALSE
    BY <2>3, <2>6, <2>7, <2>8
  <2>9. CASE x4' = x4 /\ x3' = FALSE /\ x2' = TRUE
    BY <1>0, <2>6, <2>7, <2>9
  <2>10. CASE x2' = TRUE /\ x3' = x3 /\ x4' = x4
    BY <1>0, <2>6, <2>7, <2>10, Zenon
  <2> QED
    BY <2>4, <2>8, <2>9, <2>10
<1> QED
  BY <1>1, <1>2

\* The file is loaded as it was written.
LEMMA HistoryStart ==
    ASSUME History!StartAgain, History!Valid(x4'), x5 \in Nat
    PROVE  History!HistoryInv'
<1>1. x1' = x4'
  BY DEF History!StartAgain, History!Load, History!Valid
<1>2. x2' = FALSE /\ x3' = TRUE /\ x6' = "none" /\ x7' = 0 /\ x5' = x5
  BY DEF History!StartAgain
<1> QED
  BY <1>1, <1>2 DEF History!HistoryInv, History!RebootExplained, History!Valid, History!Ids

LEMMA HistoryStepKept ==
    ASSUME History!HistoryInv, History!Next
    PROVE  History!HistoryInv'
<1>0. /\ History!Valid(x1) /\ History!Valid(x4) /\ x2 \in BOOLEAN /\ x3 \in BOOLEAN /\ x5 \in Nat
      /\ x7 \in Nat /\ (x7 # 0 => x7 < x1.next_id) /\ (~x2 => x4 = x1)
      /\ x1.next_id \in Nat
      /\ x6 = "called" /\ x3 /\ x7 \in History!Ids(x1) => x7 \in History!Ids(x4)
  BY DEF History!HistoryInv, History!RebootExplained, History!Valid
<1>a. ASSUME History!Valid(x1'), History!Valid(x4'), x2' \in BOOLEAN, x3' \in BOOLEAN, x5' \in Nat,
             x7' \in Nat, x7' # 0 => x7' < x1'.next_id, ~x2' => x4' = x1',
             x6' = "called" /\ x3' /\ x7' \in History!Ids(x1') => x7' \in History!Ids(x4')
      PROVE  History!HistoryInv'
  BY <1>a DEF History!HistoryInv, History!RebootExplained, History!Valid, History!Ids
<1>1. ASSUME NEW kind \in History!Kinds, History!Record(kind) PROVE History!HistoryInv'
  <2>1. History!Push(kind) /\ x5' = x5 /\ x6' = x6 /\ x7' = x7
    BY <1>1 DEF History!Record
  <2>2. x7' # 0 => x7' < x1'.next_id
    <3>1. x1'.next_id \in Nat /\ x1'.next_id >= x1.next_id
      BY <2>1, HistoryPush DEF History!Valid
    <3> QED
      BY <1>0, <2>1, <3>1
  <2> QED
    BY <1>0, <1>a, <2>1, <2>2, HistoryPush
<1>2. ASSUME NEW kind \in History!Kinds, History!AskReboot(kind) PROVE History!HistoryInv'
  <2>1. /\ History!Push(kind) /\ x5' = x5 /\ x6' = "asked"
        /\ x7' = IF History!Recorded(kind) THEN History!NextId ELSE 0
    BY <1>2 DEF History!AskReboot
  <2>2. x7' \in Nat /\ (x7' # 0 => x7' < x1'.next_id)
    BY <2>1, HistoryPush
  <2> QED
    BY <1>0, <1>a, <2>1, <2>2, HistoryPush
<1>3. CASE History!RebootFails
  <2>1. History!Push("failed") /\ x5' = x5 /\ x6' = "none" /\ x7' = 0 /\ "failed" \in History!Kinds
    BY <1>3 DEF History!RebootFails, History!Kinds
  <2> QED
    BY <1>0, <1>a, <2>1, HistoryPush
<1>4. ASSUME NEW st, History!Valid(st), st.next_id = x1.next_id, History!SavedFirst(st)
      PROVE  History!HistoryInv'
  <2>1. \/ x1' = st /\ x4' = st /\ x2' = FALSE /\ x3' = TRUE
        \/ x1' = x1 /\ x4' = x4 /\ x2' = x2 /\ x3' = x3
    <3>1. PICK ok \in BOOLEAN :
             /\ History!Saves(st, ok)
             /\ IF ok THEN x1' = st /\ x2' = FALSE /\ x3' = TRUE ELSE UNCHANGED <<x1, x2, x3>>
      BY <1>4 DEF History!SavedFirst
    <3>2. CASE ok = TRUE
      BY <3>1, <3>2 DEF History!Saves
    <3>3. CASE ok = FALSE
      BY <3>1, <3>3, Zenon DEF History!Saves
    <3> QED
      BY <3>2, <3>3
  <2>2. x5' = x5 /\ x6' = x6 /\ x7' = x7
    BY <1>4 DEF History!SavedFirst
  <2> QED
    BY <1>0, <1>4, <1>a, <2>1, <2>2
<1>5. ASSUME NEW l \in History!Levels, History!SetLevel(l) PROVE History!HistoryInv'
  <2> DEFINE st == [x1 EXCEPT !.level = l]
  <2>1. st.entries = x1.entries /\ st.next_id = x1.next_id
        /\ st \in [next_id : Nat, entries : Seq(History!Entry), level : History!Levels]
    BY <1>0 DEF History!Valid
  <2>2. History!Valid(st)
    BY <1>0, <2>1 DEF History!Valid, History!Ids
  <2> QED
    BY <1>4, <1>5, <2>1, <2>2 DEF History!SetLevel
<1>6. CASE History!Clear
  <2> DEFINE st == [x1 EXCEPT !.entries = <<>>]
  <2>0. <<>> \in Seq(History!Entry) /\ Len(<<>>) = 0
    OBVIOUS
  <2>1. st.entries = <<>> /\ st.next_id = x1.next_id
        /\ st \in [next_id : Nat, entries : Seq(History!Entry), level : History!Levels]
    BY <1>0, <2>0 DEF History!Valid
  <2>2. History!Valid(st)
    BY <1>0, <2>0, <2>1, HistoryAssumption DEF History!Valid, History!Ids
  <2> QED
    BY <1>4, <1>6, <2>1, <2>2 DEF History!Clear
<1>7. CASE History!Flush
  <2>1. History!Flushed(x1, TRUE) /\ x1' = x1 /\ x5' = x5 /\ x6' = x6 /\ x7' = x7
    <3>1. x2 /\ History!Flushed(x1, x2)
      BY <1>7 DEF History!Flush
    <3>2. x2 = TRUE
      BY <1>0, <3>1
    <3> QED
      BY <1>7, <3>1, <3>2 DEF History!Flush
  <2> QED
    BY <1>0, <1>a, <2>1, HistoryFlushed
<1>8. CASE History!CallReboot
  <2>1. History!Flushed(x1, x2) /\ x1' = x1 /\ x5' = x5 /\ x7' = x7
    BY <1>8 DEF History!CallReboot
  <2>2. CASE x2 = TRUE
    BY <1>0, <1>a, <2>1, <2>2, HistoryFlushed
  <2>3. CASE x2 = FALSE
    <3>1. x3' = x3 /\ x4' = x4 /\ x2' = FALSE
      BY <2>1, <2>3, Zenon DEF History!Flushed
    <3> QED
      BY <1>0, <1>a, <2>1, <2>3, <3>1
  <2> QED
    BY <1>0, <2>2, <2>3
<1>9. CASE History!Reboots \/ History!Crash
  <2>1. x4' = x4 /\ History!StartAgain
    BY <1>9 DEF History!Reboots, History!Crash
  <2> QED
    BY <1>0, <2>1, HistoryStart
<1>10. CASE History!Stop
  <2>1. x4' \in {x1, x4} /\ History!StartAgain
    <3>1. CASE x2 = TRUE
      <4>1. PICK ok \in BOOLEAN : History!Saves(x1, ok)
        BY <1>10, <3>1 DEF History!Stop
      <4> QED
        BY <1>10, <4>1 DEF History!Stop, History!Saves
    <3>2. CASE x2 = FALSE
      BY <1>10, <3>2 DEF History!Stop
    <3> QED
      BY <1>0, <3>1, <3>2
  <2> QED
    BY <1>0, <2>1, HistoryStart
<1>11. CASE History!Tick
  <2>1. x5' = x5 + 1 /\ x1' = x1 /\ x2' = x2 /\ x3' = x3 /\ x4' = x4 /\ x6' = x6 /\ x7' = x7
    BY <1>11 DEF History!Tick
  <2> QED
    BY <1>0, <1>a, <2>1
<1> QED
  BY <1>1, <1>2, <1>3, <1>5, <1>6, <1>7, <1>8, <1>9, <1>10, <1>11 DEF History!Next

\* For any limits of the history, any failed writes, losses of power and stops:
\* when a reboot is on its way and no write has failed, the entry that announced
\* it is on flash, and what is not marked as unsaved is on flash as it is in
\* memory (activity.rs, push, flush_active, set_level and clear).
THEOREM RebootExplainedHolds == AllSpec => []RebootExplained
<1> DEFINE Inv == live = "activity" => History!HistoryInv
<1>1. AllInit => Inv
  BY HistoryInit DEF AllInit
<1>2. Inv /\ [AllNext]_all => Inv'
  <2> SUFFICES ASSUME Inv, [AllNext]_all, live' = "activity" PROVE History!HistoryInv'
    OBVIOUS
  <2>1. live = "activity" /\ (History!Next \/ UNCHANGED <<x1, x2, x3, x4, x5, x6, x7, x8>>)
    BY DEF AllNext, all, BusStep, FilesStep, DnsStep, ServiceStep, PanelStep, SpeedStep, TrafficStep,
           HistoryStep, StateStep, Keep0, Keep5, Keep6, Keep8, Keep9, Keep11, Keep13
  <2>2. CASE UNCHANGED <<x1, x2, x3, x4, x5, x6, x7, x8>>
    <3>1. x1' = x1 /\ x2' = x2 /\ x3' = x3 /\ x4' = x4 /\ x5' = x5 /\ x6' = x6 /\ x7' = x7
      BY <2>2
    <3> QED
      BY <2>1, <3>1, Zenon DEF History!HistoryInv, History!RebootExplained, History!Valid, History!Ids
  <2> QED
    BY <2>1, <2>2, HistoryStepKept
<1>3. Inv => RebootExplained
  BY DEF RebootExplained, History!HistoryInv
<1> QED
  BY <1>1, <1>2, <1>3, PTL DEF AllSpec
(***************************************************************************)
(* Hosts: HostsKept from HostsInv.  x1 is hosts, x2 backup, x3 lock, x4    *)
(* call.                                                                   *)
(***************************************************************************)

\* A step of one client.  While another one holds the lock the file and the
\* backup are its own.
LEMMA HostsOne ==
    ASSUME Dns!HostsInv, NEW c \in Clients, NEW r \in Dns!CallShapes,
           x4' = [x4 EXCEPT ![c] = r],
           x3' = x3 \/ x3 \in {None, c},
           x3 \notin {None, c} => x1' = x1 /\ x2' = x2,
           Dns!Secure => Dns!Secure', Dns!Whole', Dns!Safe(c, r)',
           x2' # None /\ x2'.synced = FALSE => x3' # None /\ (IF x3' = c THEN r.step = "sync" ELSE x2' = x2 /\ x3' = x3)
    PROVE  Dns!HostsInv'
<1>1. /\ x4' \in [Clients -> Dns!CallShapes] /\ x4'[c] = r
      /\ \A d \in Clients \ {c} : x4'[d] = x4[d]
      /\ x3 \in Clients \cup {None} /\ x3' \in Clients \cup {None}
  BY DEF Dns!HostsInv, Dns!Whole
<1>2. x2' # None /\ x2'.synced = FALSE => x3' # None /\ x4'[x3'].step = "sync"
  BY <1>1 DEF Dns!HostsInv
<1>3. ASSUME NEW d \in Clients PROVE Dns!Safe(d, x4[d])'
  <2>1. CASE d = c
    BY <1>1, <2>1 DEF Dns!Safe
  <2>2. CASE d # c
    <3>1. Dns!Safe(d, x4[d]) /\ x4'[d] = x4[d] /\ x4[d] \in Dns!CallShapes
      BY <1>1, <2>2 DEF Dns!HostsInv
    <3>2. x4[d].step \notin {"idle", "lock"} => x3 = d /\ x3' = d /\ x1' = x1 /\ x2' = x2
      BY <2>2, <3>1, HostsAssumption DEF Dns!Safe
    <3>3. /\ x4[d].step # "idle" => /\ x4[d].current \in Dns!Image
                                    /\ (x4[d].current.text \in Clients => Dns!Secure')
          /\ x4[d].step \in {"backup", "sync", "replace", "rename"} => x4[d].desired # None
      BY <3>1 DEF Dns!Safe
    <3>4. /\ x4[d].step = "sync" => x2' # None /\ x2'.synced = FALSE
          /\ x4[d].step \in {"replace", "rename"} => x2' # None
          /\ x4[d].step = "rename" => x1'.text \in {x4[d].current.text} \cup Outside
      BY <3>1, <3>2 DEF Dns!Safe
    <3> QED
      BY <3>1, <3>2, <3>3, <3>4 DEF Dns!Safe
  <2> QED
    BY <2>1, <2>2
<1> QED
  BY <1>1, <1>2, <1>3 DEF Dns!HostsInv

\* Steps that leave the file and the backup alone.
LEMMA HostsQuiet ==
    ASSUME Dns!HostsInv, x1' = x1, x2' = x2, x3' \in Clients \cup {None}
    PROVE  (Dns!Secure => Dns!Secure') /\ Dns!Whole'
BY DEF Dns!HostsInv, Dns!Secure, Dns!Whole

\* A call that ends, anywhere but between the backup's link and its sync.
LEMMA HostsReturn ==
    ASSUME Dns!HostsInv, NEW c \in Clients, x4[c].step # "sync",
           NEW answer \in {"busy", "unavailable", "failed", "conflict", "readback", "ok", None},
           Dns!Return(c, answer), x2' = x2, x3 \notin {None, c} => x1' = x1, Dns!Whole'
    PROVE  Dns!HostsInv'
<1>1. PICK r : r = [Dns!Idle EXCEPT !.answer = answer]
  OBVIOUS
<1>2. r \in Dns!CallShapes /\ r.step = "idle"
  BY <1>1 DEF Dns!Idle, Dns!CallShapes, Dns!Steps
<1>3. x4' = [x4 EXCEPT ![c] = r] /\ x3' = IF x3 = c THEN None ELSE x3
  BY <1>1 DEF Dns!Return
<1>4. Dns!Safe(c, r)'
  BY <1>2 DEF Dns!Safe
<1>5. x2' # None /\ x2'.synced = FALSE => x3' # None /\ x3' # c /\ x3' = x3
  BY <1>3 DEF Dns!HostsInv
<1>6. Dns!Secure => Dns!Secure'
  BY DEF Dns!Secure
<1> QED
  BY <1>2, <1>3, <1>4, <1>5, <1>6, HostsOne

\* The client that holds the lock goes on to another step of its call.
LEMMA HostsGoes ==
    ASSUME Dns!HostsInv, NEW c \in Clients, x4[c].step \notin {"idle", "lock", "sync"},
           NEW s \in Dns!Steps \ {"idle", "lock", "sync"}, Dns!Step(c, s),
           s \in {"replace", "rename"} => x2 # None /\ x4[c].desired # None,
           s = "backup" => x4[c].desired # None,
           s = "rename" => x1.text \in {x4[c].current.text} \cup Outside,
           x2' = x2, x3' = x3, s = "rename" => x1' = x1, Dns!Whole'
    PROVE  Dns!HostsInv'
<1>1. x4[c] \in Dns!CallShapes /\ Dns!Safe(c, x4[c]) /\ x3 = c
  BY DEF Dns!HostsInv, Dns!Safe
<1>2. PICK r : r = [x4[c] EXCEPT !.step = s]
  OBVIOUS
<1>3. r \in Dns!CallShapes /\ r.step = s /\ r.current = x4[c].current /\ r.desired = x4[c].desired
  BY <1>1, <1>2 DEF Dns!CallShapes
<1>4. x4' = [x4 EXCEPT ![c] = r]
  BY <1>2 DEF Dns!Step, Dns!HostsInv
<1>5. Dns!Secure => Dns!Secure'
  BY DEF Dns!Secure
<1>6. Dns!Safe(c, r)'
  BY <1>1, <1>3, <1>5 DEF Dns!Safe
<1>7. ~(x2' # None /\ x2'.synced = FALSE)
  BY <1>1 DEF Dns!HostsInv
<1> QED
  BY <1>1, <1>3, <1>4, <1>5, <1>6, <1>7, HostsOne
LEMMA HostsLockKept ==
    ASSUME Dns!HostsInv, NEW c \in Clients,
           \/ \E desired \in {c, None}, expected \in Dns!Texts : Dns!Begin(c, desired, expected)
           \/ Dns!Lock(c) \/ Dns!Restore(c)
    PROVE  Dns!HostsInv'
<1>a. /\ x4[c] \in Dns!CallShapes /\ Dns!Safe(c, x4[c]) /\ x1 \in Dns!Image /\ x3 \in Clients \cup {None}
      /\ x1' = x1 /\ x2' = x2 /\ x2 \in Dns!Backup \cup {None}
  BY DEF Dns!HostsInv, Dns!Whole, Dns!Begin, Dns!Lock, Dns!Restore
<1>1. CASE \E desired \in {c, None}, expected \in Dns!Texts : Dns!Begin(c, desired, expected)
  <2>1. PICK e \in {c, None} : /\ x4[c].step = "idle" /\ x3' = x3
                               /\ x4' = [x4 EXCEPT ![c] = [step |-> "lock", current |-> x1, desired |-> e, answer |-> None]]
    BY <1>1 DEF Dns!Begin, Dns!current
  <2>2. PICK r : r = [step |-> "lock", current |-> x1, desired |-> e, answer |-> None]
    OBVIOUS
  <2>3. r \in Dns!CallShapes /\ r.step = "lock" /\ r.current = x1
    BY <1>a, <2>1, <2>2 DEF Dns!CallShapes, Dns!Texts, Dns!Steps
  <2>4. (Dns!Secure => Dns!Secure') /\ Dns!Whole'
    BY <1>a, <2>1, HostsQuiet
  <2>5. x1.text \in Clients => Dns!Secure'
    BY <2>4 DEF Dns!HostsInv, Dns!Whole
  <2>6. Dns!Safe(c, r)'
    BY <1>a, <2>3, <2>5 DEF Dns!Safe
  <2>7. x2' # None /\ x2'.synced = FALSE => x3' # None /\ x3' # c
    BY <1>a, <2>1 DEF Dns!HostsInv
  <2> QED
    BY <1>a, <2>1, <2>2, <2>3, <2>4, <2>6, <2>7, HostsOne
<1>2. CASE Dns!Lock(c)
  <2>1. x4[c].step = "lock"
    BY <1>2 DEF Dns!Lock
  <2>2. CASE Dns!Return(c, "busy")
    <3>1. x3' \in Clients \cup {None}
      BY <1>a, <2>2 DEF Dns!Return
    <3> QED
      BY <1>a, <2>1, <2>2, <3>1, HostsQuiet, HostsReturn
  <2>3. CASE ~Dns!Return(c, "busy")
    <3>1. /\ x3 = None /\ x3' = c
          /\ x4' = [x4 EXCEPT ![c].step = IF x4[c].desired = None THEN "original" ELSE "backup"]
      BY <1>2, <2>3 DEF Dns!Lock, Dns!Step
    <3>2. PICK s : s = IF x4[c].desired = None THEN "original" ELSE "backup"
      OBVIOUS
    <3>3. PICK r : r = [x4[c] EXCEPT !.step = s]
      OBVIOUS
    <3>4. r \in Dns!CallShapes /\ r.step = s /\ r.current = x4[c].current /\ r.desired = x4[c].desired
      BY <1>a, <3>2, <3>3 DEF Dns!CallShapes, Dns!Steps
    <3>5. x4' = [x4 EXCEPT ![c] = r]
      BY <3>1, <3>2, <3>3 DEF Dns!HostsInv
    <3>6. (Dns!Secure => Dns!Secure') /\ Dns!Whole'
      BY <1>a, <3>1, HostsQuiet
    <3>7. Dns!Safe(c, r)'
      BY <1>a, <2>1, <3>1, <3>2, <3>4, <3>6 DEF Dns!Safe
    <3>8. ~(x2' # None /\ x2'.synced = FALSE)
      BY <1>a, <3>1 DEF Dns!HostsInv
    <3> QED
      BY <3>1, <3>4, <3>5, <3>6, <3>7, <3>8, HostsOne
  <2> QED
    BY <2>2, <2>3
<1>3. CASE Dns!Restore(c)
  <2>1. x4[c].step = "original" /\ x3 = c
    BY <1>3, <1>a DEF Dns!Restore, Dns!Safe
  <2>2. CASE Dns!Return(c, "unavailable")
    <3>1. x3' \in Clients \cup {None}
      BY <1>a, <2>2 DEF Dns!Return
    <3> QED
      BY <1>a, <2>1, <2>2, <3>1, HostsQuiet, HostsReturn
  <2>3. CASE ~Dns!Return(c, "unavailable")
    <3>1. /\ x2 # None /\ x3' = x3
          /\ x4' = [x4 EXCEPT ![c].step = "replace", ![c].desired = x2.text]
      BY <1>3, <2>3 DEF Dns!Restore
    <3>2. x2.text \in Outside
      BY <1>a, <3>1 DEF Dns!Backup
    <3>3. PICK r : r = [x4[c] EXCEPT !.step = "replace", !.desired = x2.text]
      OBVIOUS
    <3>4. r \in Dns!CallShapes /\ r.step = "replace" /\ r.current = x4[c].current /\ r.desired = x2.text
      BY <1>a, <3>2, <3>3 DEF Dns!CallShapes, Dns!Steps, Dns!Texts
    <3>5. x4' = [x4 EXCEPT ![c] = r]
      BY <3>1, <3>3 DEF Dns!HostsInv
    <3>6. (Dns!Secure => Dns!Secure') /\ Dns!Whole'
      BY <1>a, <3>1, HostsQuiet
    <3>7. Dns!Safe(c, r)'
      BY <1>a, <2>1, <3>1, <3>2, <3>4, <3>6, HostsAssumption DEF Dns!Safe
    <3>8. ~(x2' # None /\ x2'.synced = FALSE)
      BY <1>a, <2>1 DEF Dns!HostsInv
    <3> QED
      BY <1>a, <3>1, <3>4, <3>5, <3>6, <3>7, <3>8, HostsOne
  <2> QED
    BY <2>2, <2>3
<1> QED
  BY <1>1, <1>2, <1>3

LEMMA HostsBackupKept ==
    ASSUME Dns!HostsInv, NEW c \in Clients, Dns!EnsureBackup(c) \/ Dns!SyncBackup(c)
    PROVE  Dns!HostsInv'
<1>a. /\ x4[c] \in Dns!CallShapes /\ Dns!Safe(c, x4[c]) /\ x1 \in Dns!Image /\ x3 = c
      /\ x1' = x1 /\ x2 \in Dns!Backup \cup {None}
      /\ x4[c].step \in {"backup", "sync"} /\ x4[c].desired # None
      /\ x4[c].current \in Dns!Image /\ (x4[c].current.text \in Clients => Dns!Secure)
  BY DEF Dns!HostsInv, Dns!Whole, Dns!EnsureBackup, Dns!SyncBackup, Dns!Safe
<1>b. {"replace", "sync"} \subseteq Dns!Steps
  BY DEF Dns!Steps
<1>1. CASE Dns!EnsureBackup(c)
  <2>1. x4[c].step = "backup"
    BY <1>1 DEF Dns!EnsureBackup
  <2>2. CASE x2 # None
    <3>1. Dns!Step(c, "replace") /\ x2' = x2 /\ x3' = x3
      BY <1>1, <2>2 DEF Dns!EnsureBackup
    <3>2. Dns!Whole'
      BY <1>a, <3>1, HostsQuiet
    <3> QED
      BY <1>a, <1>b, <2>1, <2>2, <3>1, <3>2, HostsGoes
  <2>3. CASE x2 = None /\ Dns!Return(c, "failed") /\ x2' = x2
    <3>1. x3' \in Clients \cup {None}
      BY <1>a, <2>3 DEF Dns!Return
    <3> QED
      BY <1>a, <2>1, <2>3, <3>1, HostsQuiet, HostsReturn
  <2>4. CASE x2 = None /\ Dns!Step(c, "sync") /\ x3' = x3
             /\ x2' = [text |-> x4[c].current.text, synced |-> FALSE]
    <3>1. ~Dns!Secure /\ x4[c].current.text \in Outside /\ x1.text \notin Clients
      BY <1>a, <2>4 DEF Dns!Secure, Dns!Image, Dns!Texts, Dns!HostsInv, Dns!Whole
    <3>b. x2' \in Dns!Backup /\ x2'.synced = FALSE
      BY <2>4, <3>1 DEF Dns!Backup
    <3>2. x2' \in Dns!Backup /\ x2' # None /\ x2'.synced = FALSE
      BY <3>b, HostsAssumption
    <3>3. PICK r : r = [x4[c] EXCEPT !.step = "sync"]
      OBVIOUS
    <3>4. r \in Dns!CallShapes /\ r.step = "sync" /\ r.current = x4[c].current /\ r.desired = x4[c].desired
      BY <1>a, <1>b, <3>3 DEF Dns!CallShapes
    <3>5. x4' = [x4 EXCEPT ![c] = r]
      BY <2>4, <3>3 DEF Dns!HostsInv, Dns!Step
    <3>6. Dns!Whole'
      BY <1>a, <2>4, <3>1, <3>2 DEF Dns!Whole
    <3>7. Dns!Safe(c, r)'
      BY <1>a, <2>4, <3>1, <3>2, <3>4, HostsAssumption DEF Dns!Safe
    <3> QED
      BY <1>a, <2>4, <3>1, <3>2, <3>4, <3>5, <3>6, <3>7, HostsOne, HostsAssumption
  <2> QED
    BY <1>1, <2>2, <2>3, <2>4 DEF Dns!EnsureBackup
<1>2. CASE Dns!SyncBackup(c)
  <2>1. x4[c].step = "sync" /\ x2 # None /\ x2.synced = FALSE /\ x2 \in Dns!Backup
    BY <1>2, <1>a DEF Dns!SyncBackup, Dns!Safe
  <2>2. ~Dns!Secure
    BY <2>1 DEF Dns!Secure
  <2>3. CASE x2' = [x2 EXCEPT !.synced = TRUE] /\ Dns!Step(c, "replace") /\ x3' = x3
    <3>1. x2' \in Dns!Backup /\ x2'.synced = TRUE /\ x2' # None
      BY <2>1, <2>3, HostsAssumption DEF Dns!Backup
    <3>2. PICK r : r = [x4[c] EXCEPT !.step = "replace"]
      OBVIOUS
    <3>3. r \in Dns!CallShapes /\ r.step = "replace" /\ r.current = x4[c].current /\ r.desired = x4[c].desired
      BY <1>a, <1>b, <3>2 DEF Dns!CallShapes
    <3>4. x4' = [x4 EXCEPT ![c] = r]
      BY <2>3, <3>2 DEF Dns!HostsInv, Dns!Step
    <3>5. Dns!Secure' /\ ~(x2' # None /\ x2'.synced = FALSE)
      BY <3>1 DEF Dns!Secure
    <3>6. Dns!Whole'
      BY <1>a, <2>3, <3>1, <3>5 DEF Dns!Whole
    <3>7. Dns!Safe(c, r)'
      BY <1>a, <2>3, <3>1, <3>3, <3>5 DEF Dns!Safe
    <3> QED
      BY <1>a, <2>3, <3>3, <3>4, <3>5, <3>6, <3>7, HostsOne
  <2>4. CASE x2' = None /\ Dns!Return(c, "failed")
    <3>1. PICK r : r = [Dns!Idle EXCEPT !.answer = "failed"]
      OBVIOUS
    <3>2. r \in Dns!CallShapes /\ r.step = "idle"
      BY <3>1 DEF Dns!Idle, Dns!CallShapes, Dns!Steps
    <3>3. x4' = [x4 EXCEPT ![c] = r] /\ x3' = None
      BY <1>a, <2>4, <3>1 DEF Dns!Return
    <3>4. x1.text \notin Clients
      BY <2>2 DEF Dns!HostsInv, Dns!Whole
    <3>5. Dns!Whole'
      BY <1>a, <2>4, <3>3, <3>4 DEF Dns!Whole
    <3>6. Dns!Safe(c, r)'
      BY <3>2 DEF Dns!Safe
    <3> QED
      BY <1>a, <2>2, <2>4, <3>2, <3>3, <3>5, <3>6, HostsOne
  <2> QED
    BY <1>2, <2>3, <2>4 DEF Dns!SyncBackup
<1> QED
  BY <1>1, <1>2

LEMMA HostsFileKept ==
    ASSUME Dns!HostsInv, NEW c \in Clients,
           Dns!Compare(c) \/ Dns!Rename(c) \/ Dns!ReadBack(c) \/ Dns!Reload(c) \/ Dns!Answer(c)
    PROVE  Dns!HostsInv'
<1>a. /\ x4[c] \in Dns!CallShapes /\ Dns!Safe(c, x4[c]) /\ x1 \in Dns!Image /\ x3 = c /\ x2' = x2
      /\ x4[c].step \in {"replace", "rename", "read", "reload", "after"}
  BY DEF Dns!HostsInv, Dns!Whole, Dns!Compare, Dns!Rename, Dns!ReadBack, Dns!Reload, Dns!Answer, Dns!Safe
<1>b. {"rename", "read", "reload", "after"} \subseteq Dns!Steps
  BY DEF Dns!Steps
<1>c. (\E answer : Dns!Return(c, answer)) => x3' \in Clients \cup {None}
  BY <1>a DEF Dns!Return
<1>1. CASE Dns!Compare(c)
  <2>1. x4[c].step = "replace" /\ x1' = x1
    BY <1>1 DEF Dns!Compare
  <2>2. CASE \E answer \in {"conflict", "failed"} : Dns!Return(c, answer)
    BY <1>a, <1>c, <2>1, <2>2, HostsQuiet, HostsReturn
  <2>3. CASE Dns!Unchanged(c) /\ Dns!Step(c, "rename") /\ x3' = x3
    <3>1. Dns!Whole' /\ x1.text = x4[c].current.text /\ x2 # None /\ x4[c].desired # None
      BY <1>a, <2>1, <2>3, HostsQuiet DEF Dns!Unchanged, Dns!current, Dns!Safe
    <3> QED
      BY <1>a, <1>b, <2>1, <2>3, <3>1, HostsGoes
  <2> QED
    BY <1>1, <2>2, <2>3 DEF Dns!Compare
<1>2. CASE Dns!Rename(c)
  <2>1. x4[c].step = "rename" /\ x1' = [text |-> x4[c].desired, inode |-> x1.inode + 1]
    BY <1>2 DEF Dns!Rename
  <2>2. x4[c].desired \in Dns!Texts /\ x2 # None
    BY <1>a, <2>1 DEF Dns!Safe, Dns!CallShapes
  <2>3. Dns!Secure /\ x2 \in Dns!Backup
    BY <1>a, <2>1, <2>2 DEF Dns!Secure, Dns!HostsInv, Dns!Whole, Dns!Backup
  <2>4. x1' \in Dns!Image /\ Dns!Secure'
    BY <1>a, <2>1, <2>2, <2>3 DEF Dns!Image, Dns!Secure
  <2>5. CASE Dns!Return(c, "failed")
    <3>1. Dns!Whole'
      BY <1>a, <1>c, <2>3, <2>4, <2>5 DEF Dns!Whole
    <3> QED
      BY <1>a, <2>1, <2>5, <3>1, HostsReturn
  <2>6. CASE Dns!Step(c, "read") /\ x3' = x3
    <3>1. Dns!Whole'
      BY <1>a, <2>3, <2>4, <2>6 DEF Dns!Whole
    <3> QED
      BY <1>a, <1>b, <2>1, <2>6, <3>1, HostsGoes
  <2> QED
    BY <1>2, <2>5, <2>6 DEF Dns!Rename
<1>3. CASE Dns!ReadBack(c) \/ Dns!Reload(c) \/ Dns!Answer(c)
  <2>1. x4[c].step \in {"read", "reload", "after"} /\ x1' = x1
    BY <1>3 DEF Dns!ReadBack, Dns!Reload, Dns!Answer
  <2>2. CASE \E answer \in {"readback", "failed", "ok", None} : Dns!Return(c, answer)
    BY <1>a, <1>c, <2>1, <2>2, HostsQuiet, HostsReturn
  <2>3. CASE \E s \in {"reload", "after"} : Dns!Step(c, s) /\ x3' = x3
    <3>1. PICK s \in {"reload", "after"} : Dns!Step(c, s) /\ x3' = x3
      BY <2>3
    <3>2. Dns!Whole'
      BY <1>a, <2>1, <3>1, HostsQuiet
    <3>3. s \in Dns!Steps \ {"idle", "lock", "sync"}
      BY <1>b
    <3> QED
      BY <1>a, <2>1, <3>1, <3>2, <3>3, HostsGoes
  <2> QED
    BY <1>3, <2>2, <2>3 DEF Dns!ReadBack, Dns!Reload, Dns!Answer
<1> QED
  BY <1>1, <1>2, <1>3
LEMMA HostsStepKept == Dns!HostsInv /\ Dns!Next => Dns!HostsInv'
<1> SUFFICES ASSUME Dns!HostsInv, Dns!Next PROVE Dns!HostsInv'
  OBVIOUS
<1>1. ASSUME NEW text \in Outside, NEW in_place \in BOOLEAN, Dns!Edit(text, in_place)
      PROVE  Dns!HostsInv'
  <2>1. PICK i : /\ x1' = [text |-> text, inode |-> i] /\ i \in {x1.inode, x1.inode + 1}
                 /\ x2' = x2 /\ x3' = x3 /\ x4' = x4
    BY <1>1 DEF Dns!Edit
  <2>2. i \in Nat
    BY <2>1 DEF Dns!HostsInv, Dns!Whole, Dns!Image
  <2>3. x1' \in Dns!Image /\ x1'.text \in Outside /\ x1'.text \notin Clients
    BY <2>1, <2>2, HostsAssumption DEF Dns!Image, Dns!Texts
  <2>4. Dns!Whole' /\ (Dns!Secure => Dns!Secure')
    BY <2>1, <2>3 DEF Dns!HostsInv, Dns!Whole, Dns!Secure
  <2>5. ASSUME NEW c \in Clients PROVE Dns!Safe(c, x4[c])'
    <3>1. Dns!Safe(c, x4[c])
      BY DEF Dns!HostsInv
    <3> QED
      BY <2>1, <2>3, <2>4, <3>1 DEF Dns!Safe
  <2> QED
    BY <2>1, <2>4, <2>5 DEF Dns!HostsInv
<1>2. CASE Dns!PowerCut
  <2>1. /\ x1' = x1 /\ x3' = None /\ x4' = [c \in Clients |-> Dns!Idle]
    BY <1>2 DEF Dns!PowerCut
  <2>2. x1 \in Dns!Image /\ x2 \in Dns!Backup \cup {None} /\ (x1.text \in Clients => Dns!Secure)
    BY DEF Dns!HostsInv, Dns!Whole
  <2>3. /\ x2' \in Dns!Backup \cup {None} /\ (Dns!Secure => Dns!Secure')
        /\ ~(x2' # None /\ x2'.synced = FALSE)
    <3>1. CASE x2 # None /\ x2' = [x2 EXCEPT !.synced = TRUE]
      <4>1. x2' \in Dns!Backup /\ x2'.synced = TRUE
        BY <2>2, <3>1 DEF Dns!Backup
      <4> QED
        BY <4>1, HostsAssumption DEF Dns!Secure
    <3>2. CASE x2 # None /\ ~x2.synced /\ x2' = None
      <4>1. ~Dns!Secure
        BY <3>2, Zenon DEF Dns!Secure
      <4> QED
        BY <3>2, <4>1
    <3>3. CASE x2 = None /\ x2' = x2
      BY <3>3 DEF Dns!Secure
    <3> QED
      BY <1>2, <3>1, <3>2, <3>3 DEF Dns!PowerCut
  <2>4. Dns!Whole'
    BY <2>1, <2>2, <2>3 DEF Dns!Whole
  <2>5. Dns!Idle \in Dns!CallShapes /\ Dns!Idle.step = "idle"
    BY DEF Dns!Idle, Dns!CallShapes, Dns!Steps
  <2>6. ASSUME NEW c \in Clients PROVE Dns!Safe(c, x4[c])'
    <3>1. x4'[c] \in Dns!CallShapes /\ x4'[c].step = "idle"
      BY <2>1, <2>5
    <3> QED
      BY <3>1 DEF Dns!Safe
  <2> QED
    BY <2>1, <2>3, <2>4, <2>5, <2>6 DEF Dns!HostsInv
<1> QED
  BY <1>1, <1>2, HostsLockKept, HostsBackupKept, HostsFileKept DEF Dns!Next

LEMMA HostsAtWork ==
    ASSUME live' = "hosts", [AllNext]_all
    PROVE  live = "hosts" /\ [Dns!Next]_(Dns!vars)
BY DEF AllNext, all, Dns!vars, BusStep, FilesStep, DnsStep, ServiceStep, PanelStep, SpeedStep, TrafficStep,
       HistoryStep, StateStep, Keep0, Keep5, Keep6, Keep8, Keep9, Keep11, Keep13

\* For any clients, any editors outside datad, any failed system calls and power
\* cuts: no save or restore replaces what another client saved since the caller
\* read the file (hosts.rs, action and replace), and while /etc/hosts holds what
\* a client saved the backup is there with a text no client wrote
\* (ensure_backup).
THEOREM HostsKeptHolds == AllSpec => HostsKept
<1> DEFINE Inv == live = "hosts" => Dns!HostsInv
<1>1. AllInit => Inv
  <2> SUFFICES ASSUME Dns!Init PROVE Dns!HostsInv
    BY DEF AllInit
  <2>1. /\ x1 = [text |-> Original, inode |-> 1] /\ x2 = None /\ x3 = None
        /\ x4 = [c \in Clients |-> Dns!Idle]
    BY DEF Dns!Init
  <2>2. Dns!Whole
    BY <2>1, HostsAssumption DEF Dns!Whole, Dns!Image, Dns!Texts
  <2>3. Dns!Idle \in Dns!CallShapes /\ Dns!Idle.step = "idle"
    BY DEF Dns!Idle, Dns!CallShapes, Dns!Steps
  <2>4. ASSUME NEW c \in Clients PROVE Dns!Safe(c, x4[c])
    <3>1. x4[c] \in Dns!CallShapes /\ x4[c].step = "idle"
      BY <2>1, <2>3
    <3> QED
      BY <3>1 DEF Dns!Safe
  <2> QED
    BY <2>1, <2>2, <2>3, <2>4 DEF Dns!HostsInv
<1>2. Inv /\ [AllNext]_all => Inv'
  <2> SUFFICES ASSUME Inv, [AllNext]_all, live' = "hosts" PROVE Dns!HostsInv'
    OBVIOUS
  <2>1. live = "hosts" /\ (Dns!Next \/ UNCHANGED Dns!vars)
    BY HostsAtWork
  <2>2. CASE UNCHANGED Dns!vars
    <3>1. x1' = x1 /\ x2' = x2 /\ x3' = x3 /\ x4' = x4
      BY <2>2 DEF Dns!vars
    <3> QED
      BY <2>1, <3>1 DEF Dns!HostsInv, Dns!Whole, Dns!Secure, Dns!Safe
  <2> QED
    BY <2>1, <2>2, HostsStepKept
<1>3. Inv => (live = "hosts" => Dns!Restorable)
  <2> SUFFICES ASSUME Dns!HostsInv, x1.text \in Clients PROVE x2 # None /\ x2.text \in Outside
    BY DEF Dns!Restorable
  <2> QED
    BY DEF Dns!HostsInv, Dns!Whole, Dns!Secure, Dns!Backup
<1>4. Inv => (live = "hosts" => Dns!SaveKeeps)
  BY DEF Dns!SaveKeeps, Dns!HostsInv, Dns!Safe
<1> QED
  BY <1>1, <1>2, <1>3, <1>4, PTL DEF AllSpec, HostsKept
(***************************************************************************)
(* PanelSession: PanelCurrent from PanelInv.  x1 is world, x2 tick, x4     *)
(* phase, x6 have, x7 next, x8 pend, x9 shown, x10 mark, x11 dropped, x13  *)
(* about.                                                                  *)
(***************************************************************************)

\* The device moves on and the session rests.
LEMMA PanelDevice ==
    ASSUME Panel!PanelInv, Panel!Bump(x13) \/ (\E b \in Panel!Blocks : Panel!Bump(b)) \/ (x1' = x1 /\ x2' = x2),
           x6' = x6, x7' = x7, x8' = x8, x9' = x9, x10' = x10, x11' = x11, x13' \in Panel!Blocks,
           x4' = x4 \/ (x4 \in Panel!Steady /\ x4' \in Panel!Steady)
    PROVE  Panel!PanelInv'
<1>1. /\ x1 \in Panel!Versions /\ x2 \in Nat /\ x13 \in Panel!Blocks /\ x10 \in Panel!Versions
      /\ \A b \in Panel!Blocks : x10[b] <= x1[b] /\ x1[b] <= x2
  BY DEF Panel!PanelInv, Panel!Typed, Panel!Begun
<1>2. x1' \in Panel!Versions /\ x2' \in Nat /\ \A b \in Panel!Blocks : x1[b] <= x1'[b] /\ x1'[b] <= x2'
  BY <1>1 DEF Panel!Bump, Panel!Versions
<1>3. Panel!Begun'
  BY <1>1, <1>2 DEF Panel!Begun, Panel!Versions
<1>4. Panel!Typed'
  BY <1>2 DEF Panel!PanelInv, Panel!Typed
<1>5. x4' \in Panel!Steady => Panel!InLoop'
  BY DEF Panel!PanelInv, Panel!InLoop
<1>6. Panel!InSample'
  BY DEF Panel!PanelInv, Panel!InSample, Panel!Steady
<1> QED
  BY <1>3, <1>4, <1>5, <1>6 DEF Panel!PanelInv

LEMMA PanelOver ==
    ASSUME Panel!PanelInv, Panel!Over, x1' = x1, x2' = x2
    PROVE  Panel!PanelInv'
<1>1. /\ x4' = "off" /\ x6' = Panel!Blank /\ x7' = Panel!Blank /\ x8' = FALSE /\ x9' = Panel!Blank
      /\ x10' = Panel!Blank /\ x11' = FALSE /\ x13' = "state"
  BY DEF Panel!Over
<1>2. Panel!Blank \in Panel!Versions /\ \A b \in Panel!Blocks : Panel!Blank[b] = 0
  BY DEF Panel!Blank, Panel!Versions, Panel!Absent
<1>3. Panel!Typed'
  <2>1. "state" \in Panel!Blocks /\ x1 \in Panel!Versions /\ x2 \in Nat
    BY DEF Panel!Blocks, Panel!PanelInv, Panel!Typed
  <2> QED
    BY <1>1, <1>2, <2>1 DEF Panel!Typed
<1>4. Panel!Begun'
  <2>1. x1 \in Panel!Versions /\ \A b \in Panel!Blocks : x1[b] <= x2
    BY DEF Panel!PanelInv, Panel!Typed, Panel!Begun
  <2> QED
    BY <1>1, <1>2, <2>1 DEF Panel!Begun, Panel!Versions
<1> QED
  BY <1>1, <1>3, <1>4 DEF Panel!PanelInv, Panel!InSample, Panel!Steady

\* A message with all the session's copies.
LEMMA PanelShows ==
    ASSUME Panel!PanelInv, x1' = x1, x2' = x2, x10' = x10, x13' \in Panel!Blocks, x8' \in BOOLEAN,
           x6' \in Panel!Versions, x7' \in Panel!Versions, Panel!Send(x6'), x4' \in Panel!Steady,
           \A b \in Panel!Live : x6'[b] >= x10[b]
    PROVE  Panel!PanelInv'
<1>1. x9' = x6' /\ x11' = FALSE
  BY DEF Panel!Send
<1>2. Panel!Typed' /\ Panel!Begun'
  BY <1>1 DEF Panel!PanelInv, Panel!Typed, Panel!Begun
<1>3. Panel!InLoop' /\ Panel!InSample'
  BY <1>1 DEF Panel!InLoop, Panel!InSample, Panel!Steady
<1> QED
  BY <1>2, <1>3 DEF Panel!PanelInv

LEMMA PanelStepKept == Panel!PanelInv /\ Panel!Next => Panel!PanelInv'
<1> SUFFICES ASSUME Panel!PanelInv, Panel!Next PROVE Panel!PanelInv'
  OBVIOUS
<1>a. /\ x1 \in Panel!Versions /\ x6 \in Panel!Versions /\ x7 \in Panel!Versions
      /\ x9 \in Panel!Versions /\ x10 \in Panel!Versions /\ x2 \in Nat /\ x13 \in Panel!Blocks
      /\ x8 \in BOOLEAN /\ x11 \in BOOLEAN
      /\ \A b \in Panel!Blocks : x10[b] <= x1[b] /\ x1[b] <= x2
  BY DEF Panel!PanelInv, Panel!Typed, Panel!Begun
<1>b. /\ Panel!Blank \in Panel!Versions /\ Panel!Live \subseteq Panel!Blocks
      /\ "config" \notin Panel!Live /\ "hosts" \notin Panel!Live /\ {"config", "hosts", "state", "tasks", "update"} \subseteq Panel!Blocks
  BY DEF Panel!Blank, Panel!Versions, Panel!Absent, Panel!Live, Panel!Blocks
<1>1. CASE Panel!Change \/ Panel!Resize \/ Panel!Control
  <2>1. /\ x6' = x6 /\ x7' = x7 /\ x8' = x8 /\ x9' = x9 /\ x10' = x10 /\ x11' = x11 /\ x13' = x13
        /\ x4' = x4 \/ (x4 = "control" /\ x4' \in {"loop", "refresh"})
    BY <1>1 DEF Panel!Change, Panel!Resize, Panel!Control, Panel!history
  <2>2. Panel!Bump(x13) \/ (\E b \in Panel!Blocks : Panel!Bump(b)) \/ (x1' = x1 /\ x2' = x2)
    BY <1>1 DEF Panel!Change, Panel!Resize, Panel!Control, Panel!Executed
  <2> QED
    BY <1>a, <2>1, <2>2, PanelDevice DEF Panel!Steady
<1>2. CASE Panel!Open
  <2>1. /\ x4' = "first" /\ x7' = [Panel!Blank EXCEPT !["state"] = x1["state"]] /\ x10' = x1
        /\ x1' = x1 /\ x2' = x2 /\ x6' = x6 /\ x8' = x8 /\ x9' = x9 /\ x11' = x11 /\ x13' = x13
    BY <1>2 DEF Panel!Open, Panel!device
  <2>2. x7' \in Panel!Versions /\ x7'["state"] = x1["state"]
    BY <1>a, <1>b, <2>1 DEF Panel!Versions
  <2>3. Panel!Typed' /\ Panel!Begun'
    BY <1>a, <2>1, <2>2 DEF Panel!Typed, Panel!Begun, Panel!Versions
  <2> QED
    BY <2>1, <2>2, <2>3 DEF Panel!PanelInv, Panel!InSample, Panel!Steady
<1>3. CASE Panel!First
  <2>1. x1' = x1 /\ x2' = x2 /\ x4 = "first"
    BY <1>3 DEF Panel!First, Panel!device
  <2>2. CASE Panel!Over
    BY <2>1, <2>2, PanelOver
  <2>3. CASE ~Panel!Over
    <3>1. /\ x6' = [x1 EXCEPT !["state"] = x7["state"], !["config"] = Panel!Absent]
          /\ Panel!Send(x6') /\ x7' = Panel!Blank /\ x4' = "config" /\ x8' = x8 /\ x10' = x10 /\ x13' = x13
      BY <1>3, <2>3 DEF Panel!First, Panel!history
    <3>2. x7["state"] = x10["state"] /\ x7["state"] \in Nat
      BY <1>a, <1>b, <2>1 DEF Panel!PanelInv, Panel!InSample, Panel!Versions
    <3>3. x6' \in Panel!Versions /\ \A b \in Panel!Live : x6'[b] >= x10[b]
      BY <1>a, <1>b, <3>1, <3>2 DEF Panel!Versions, Panel!Absent
    <3> QED
      BY <1>a, <1>b, <2>1, <3>1, <3>3, PanelShows DEF Panel!Steady
  <2> QED
    BY <2>2, <2>3
<1>4. CASE Panel!ReadConfig
  <2>1. PICK v \in {x1["config"], Panel!Absent} :
          /\ x6' = [x6 EXCEPT !["config"] = v] /\ x8' = (v # Panel!Absent)
          /\ x4 = "config" /\ x4' = "loop" /\ x1' = x1 /\ x2' = x2 /\ x7' = x7 /\ x9' = x9
          /\ x10' = x10 /\ x11' = x11 /\ x13' = x13
    BY <1>4 DEF Panel!ReadConfig, Panel!panel_config, Panel!device, Panel!history
  <2>2. x6' \in Panel!Versions /\ \A b \in Panel!Live : x6'[b] = x6[b]
    BY <1>a, <1>b, <2>1 DEF Panel!Versions, Panel!Absent
  <2>3. x8' \in BOOLEAN
    BY <2>1
  <2>4. Panel!Typed' /\ Panel!Begun'
    BY <1>a, <2>1, <2>2, <2>3 DEF Panel!Typed, Panel!Begun, Panel!Steady
  <2>5. Panel!InLoop' /\ Panel!InSample'
    BY <1>b, <2>1, <2>2 DEF Panel!PanelInv, Panel!InLoop, Panel!InSample, Panel!Steady
  <2> QED
    BY <2>4, <2>5 DEF Panel!PanelInv
<1>5. CASE Panel!SampleBegin
  <2>1. /\ x4 = "loop" /\ x4' = "sample" /\ x10' = x1 /\ x7' = [x6 EXCEPT !["state"] = x1["state"]]
        /\ x1' = x1 /\ x2' = x2 /\ x6' = x6 /\ x8' = x8 /\ x9' = x9 /\ x11' = x11 /\ x13' = x13
    BY <1>5 DEF Panel!SampleBegin, Panel!device
  <2>2. x7' \in Panel!Versions /\ x7'["state"] = x1["state"]
    BY <1>a, <1>b, <2>1 DEF Panel!Versions
  <2>3. Panel!Typed' /\ Panel!Begun'
    BY <1>a, <2>1, <2>2 DEF Panel!Typed, Panel!Begun, Panel!Versions
  <2>4. Panel!InSample'
    BY <2>1, <2>2 DEF Panel!PanelInv, Panel!InLoop, Panel!InSample, Panel!Steady
  <2> QED
    BY <2>1, <2>3, <2>4 DEF Panel!PanelInv, Panel!Steady
<1>6. CASE Panel!SampleTasks
  <2>1. /\ x4 = "sample" /\ x4' = "compare" /\ x7' = [x7 EXCEPT !["tasks"] = x1["tasks"]]
        /\ x6' = [x6 EXCEPT !["update"] = x1["update"]]
        /\ x1' = x1 /\ x2' = x2 /\ x9' = x9 /\ x10' = x10 /\ x11' = x11 /\ x13' = x13
    BY <1>6 DEF Panel!SampleTasks, Panel!device, Panel!history
  <2>2. x8' \in BOOLEAN /\ (x8' = FALSE => x1["update"] = x6["update"])
    <3>1. x8' = (x8 \/ x1["update"] # x6["update"])
      BY <1>6 DEF Panel!SampleTasks
    <3> QED
      BY <1>a, <3>1, Zenon
  <2>3. /\ x7' \in Panel!Versions /\ x7'["state"] = x7["state"] /\ x7'["tasks"] = x1["tasks"]
        /\ x6' \in Panel!Versions /\ x6'["state"] = x6["state"] /\ x6'["tasks"] = x6["tasks"]
        /\ x6'["update"] = x1["update"]
    BY <1>a, <1>b, <2>1 DEF Panel!Versions
  <2>4. Panel!Typed' /\ Panel!Begun'
    BY <1>a, <2>1, <2>2, <2>3 DEF Panel!Typed, Panel!Begun
  <2>5. Panel!InSample'
    BY <1>a, <1>b, <2>1, <2>2, <2>3 DEF Panel!PanelInv, Panel!InSample, Panel!Live, Panel!Versions
  <2> QED
    BY <2>1, <2>4, <2>5 DEF Panel!PanelInv, Panel!Steady
<1>7. CASE Panel!SampleSend
  <2> DEFINE new == [x6 EXCEPT !["state"] = x7["state"], !["tasks"] = x7["tasks"]]
  <2>1. x1' = x1 /\ x2' = x2 /\ x4 = "compare"
    BY <1>7 DEF Panel!SampleSend, Panel!device
  <2>2. CASE Panel!Over
    BY <2>1, <2>2, PanelOver
  <2>3. /\ new \in Panel!Versions /\ new["state"] = x7["state"] /\ new["tasks"] = x7["tasks"]
        /\ new["update"] = x6["update"]
    BY <1>a, <1>b DEF Panel!Versions
  <2>4. \A b \in Panel!Live : new[b] >= x10[b]
    BY <1>a, <1>b, <2>1, <2>3 DEF Panel!PanelInv, Panel!InSample, Panel!Live, Panel!Versions
  <2>5. CASE Panel!Send(new) /\ x6' = new /\ x8' = FALSE /\ x4' = "loop" /\ x7' = Panel!Blank
             /\ UNCHANGED Panel!history
    <3>1. x10' = x10 /\ x13' = x13
      BY <2>5 DEF Panel!history
    <3> HIDE DEF new
    <3> QED
      BY <1>a, <1>b, <2>1, <2>3, <2>4, <2>5, <3>1, PanelShows DEF Panel!Steady
  <2>6. CASE ~x8 /\ new = x6 /\ x4' = "loop" /\ x7' = Panel!Blank
             /\ UNCHANGED <<x5, x6, x8, x9, x11, Panel!history>>
    <3>1. x10' = x10 /\ x13' = x13 /\ x6' = x6 /\ x8' = x8 /\ x9' = x9 /\ x11' = x11
      BY <2>6 DEF Panel!history
    <3>2. x8 = FALSE
      BY <1>a, <2>6, Zenon
    <3>3. Panel!Typed' /\ Panel!Begun'
      BY <1>a, <1>b, <2>1, <2>6, <3>1 DEF Panel!Typed, Panel!Begun, Panel!Steady
    <3>4. Panel!InLoop'
      BY <1>b, <2>1, <2>4, <2>6, <3>1, <3>2 DEF Panel!PanelInv, Panel!InLoop, Panel!InSample, Panel!Live
    <3>5. Panel!InSample'
      BY <2>6 DEF Panel!InSample
    <3> QED
      BY <3>3, <3>4, <3>5 DEF Panel!PanelInv
  <2> QED
    BY <1>7, <2>2, <2>5, <2>6 DEF Panel!SampleSend
<1>8. CASE Panel!HostsRefresh
  <2>1. x1' = x1 /\ x2' = x2 /\ x4 = "loop"
    BY <1>8 DEF Panel!HostsRefresh, Panel!device
  <2>2. CASE Panel!Over
    BY <2>1, <2>2, PanelOver
  <2>3. CASE ~Panel!Over
    <3>1. /\ x6' = [x6 EXCEPT !["hosts"] = x1["hosts"], !["update"] = x1["update"]]
          /\ Panel!Send(x6') /\ x7' = x7 /\ x4' = x4 /\ x8' = x8 /\ x10' = x10 /\ x13' = x13
      BY <1>8, <2>3 DEF Panel!HostsRefresh, Panel!history
    <3>2. x6' \in Panel!Versions /\ \A b \in Panel!Live : x6'[b] >= x10[b]
      BY <1>a, <1>b, <2>1, <3>1 DEF Panel!Versions, Panel!PanelInv, Panel!InLoop, Panel!Steady
    <3> QED
      BY <1>a, <2>1, <3>1, <3>2, PanelShows DEF Panel!Steady
  <2> QED
    BY <2>2, <2>3
<1>9. CASE Panel!Receive
  <2>1. x1' = x1 /\ x2' = x2 /\ x4 = "loop"
    BY <1>9 DEF Panel!Receive, Panel!device
  <2>2. CASE Panel!Over
    BY <2>1, <2>2, PanelOver
  <2>3. CASE ~Panel!Over
    <3>1. /\ x4' = "control" /\ x13' \in Panel!Blocks /\ x6' = x6 /\ x7' = x7 /\ x8' = x8 /\ x9' = x9
          /\ x11' = x11 /\ x10' = x10
      BY <1>9, <2>3 DEF Panel!Receive
    <3> QED
      BY <2>1, <3>1, PanelDevice DEF Panel!Steady
  <2> QED
    BY <2>2, <2>3
<1>10. CASE Panel!Refresh
  <2>1. PICK v \in {x1[x13], Panel!Absent} : /\ x6' = [x6 EXCEPT ![x13] = v]
                                             /\ x13 # "config" => v = x1[x13]
    BY <1>10 DEF Panel!Refresh, Panel!panel_config
  <2>2. /\ x4 = "refresh" /\ x4' = "loop" /\ x1' = x1 /\ x2' = x2 /\ x7' = x7 /\ x8' = x8 /\ x10' = x10
        /\ x13' = "state"
    BY <1>10 DEF Panel!Refresh, Panel!device
  <2>3. x6' \in Panel!Versions /\ \A b \in Panel!Live : x6'[b] >= x10[b]
    BY <1>a, <1>b, <2>1, <2>2 DEF Panel!Versions, Panel!PanelInv, Panel!InLoop, Panel!Steady, Panel!Absent
  <2>4. CASE Panel!Send(x6')
    BY <1>a, <1>b, <2>2, <2>3, <2>4, PanelShows DEF Panel!Steady
  <2>5. CASE x11' = (x11 \/ x6' # x6) /\ x9' = x9
    <3>1. x11' \in BOOLEAN /\ (x11' = FALSE => x11 = FALSE /\ x6' = x6)
      BY <1>a, <2>5, Zenon
    <3>2. Panel!Typed' /\ Panel!Begun'
      BY <1>a, <1>b, <2>2, <2>3, <2>5, <3>1 DEF Panel!Typed, Panel!Begun, Panel!Steady
    <3>3. Panel!InLoop' /\ Panel!InSample'
      BY <2>2, <2>3, <2>5, <3>1 DEF Panel!PanelInv, Panel!InLoop, Panel!InSample, Panel!Steady
    <3> QED
      BY <3>2, <3>3 DEF Panel!PanelInv
  <2> QED
    BY <1>10, <2>4, <2>5 DEF Panel!Refresh
<1>11. CASE Panel!Close
  BY <1>11, PanelOver DEF Panel!Close, Panel!device
<1> QED
  BY <1>1, <1>2, <1>3, <1>4, <1>5, <1>6, <1>7, <1>8, <1>9, <1>10, <1>11 DEF Panel!Next

LEMMA PanelAtWork ==
    ASSUME live' = "panel", [AllNext]_all
    PROVE  live = "panel" /\ [Panel!Next]_(Panel!vars)
BY DEF AllNext, all, Panel!vars, BusStep, FilesStep, DnsStep, ServiceStep, PanelStep, SpeedStep, TrafficStep,
       HistoryStep, StateStep, Keep0, Keep5, Keep6, Keep8, Keep9, Keep11, Keep13

\* For any ids and any changes of the device during the reads: between its arms
\* a panel session has shown the browser live blocks at least as new as when
\* the last sample began, unless a control's message was too large
\* (cloud_panel.rs, run).
THEOREM PanelCurrentHolds == AllSpec => []PanelCurrent
<1> DEFINE Inv == live = "panel" => Panel!PanelInv
<1>1. AllInit => Inv
  <2> SUFFICES ASSUME Panel!Init PROVE Panel!PanelInv
    BY DEF AllInit
  <2>1. /\ x1 = [b \in Panel!Blocks |-> 1] /\ x2 = 1 /\ x4 = "off" /\ x6 = Panel!Blank /\ x7 = Panel!Blank
        /\ x8 = FALSE /\ x9 = Panel!Blank /\ x10 = Panel!Blank /\ x11 = FALSE /\ x13 = "state"
    BY DEF Panel!Init
  <2>2. Panel!Blank \in Panel!Versions /\ \A b \in Panel!Blocks : Panel!Blank[b] = 0
    BY DEF Panel!Blank, Panel!Versions, Panel!Absent
  <2>3. Panel!Typed
    <3>1. "state" \in Panel!Blocks /\ x1 \in Panel!Versions
      BY <2>1 DEF Panel!Blocks, Panel!Versions
    <3> QED
      BY <2>1, <2>2, <3>1 DEF Panel!Typed
  <2>4. Panel!Begun
    BY <2>1, <2>2 DEF Panel!Begun
  <2> QED
    BY <2>1, <2>3, <2>4 DEF Panel!PanelInv, Panel!InSample, Panel!Steady
<1>2. Inv /\ [AllNext]_all => Inv'
  <2> SUFFICES ASSUME Inv, [AllNext]_all, live' = "panel" PROVE Panel!PanelInv'
    OBVIOUS
  <2>1. live = "panel" /\ (Panel!Next \/ UNCHANGED Panel!vars)
    BY PanelAtWork
  <2>2. CASE UNCHANGED Panel!vars
    <3>1. /\ x1' = x1 /\ x2' = x2 /\ x4' = x4 /\ x6' = x6 /\ x7' = x7 /\ x8' = x8 /\ x9' = x9 /\ x10' = x10
          /\ x11' = x11 /\ x13' = x13 /\ x13 \in Panel!Blocks
      BY <2>1, <2>2 DEF Panel!vars, Panel!PanelInv, Panel!Typed
    <3> QED
      BY <2>1, <3>1, PanelDevice
  <2> QED
    BY <2>1, <2>2, PanelStepKept
<1>3. Inv => PanelCurrent
  <2> SUFFICES ASSUME Panel!PanelInv, x4 = "loop", ~x11 PROVE \A b \in Panel!Live : x9[b] >= x10[b]
    BY DEF PanelCurrent, Panel!PanelCurrent
  <2>0. x11 \in BOOLEAN
    BY DEF Panel!PanelInv, Panel!Typed
  <2>1. x11 = FALSE
    BY <2>0, Zenon
  <2> QED
    BY <2>1 DEF Panel!PanelInv, Panel!InLoop, Panel!Steady
<1> QED
  BY <1>1, <1>2, <1>3, PTL DEF AllSpec
(***************************************************************************)
(* FileStore: FilesSafe from FilesInv.  x1 is dir, x2 temp, x3 kept, x4    *)
(* work, x5 stamp, x6 owed.                                                *)
(***************************************************************************)

LEMMA FirstIsOne ==
    ASSUME NEW todo, NEW links, todo # {}
    PROVE  Files!First(todo, links) \in todo
<1>1. \E n \in todo : n \notin links \/ todo \subseteq links
  OBVIOUS
<1> QED
  BY <1>1, Zenon DEF Files!First

\* A session that does not act still fits.
LEMMA FilesOther ==
    ASSUME NEW d \in Workers, NEW r, Files!Fits(d, r), x2'[d] = x2[d], x5 \in Nat, x5' \in Nat, x5 <= x5',
           \A o \in x6' : o \in x6 \/ (r.phase \in Files!Flying => o.ino # r.own.ino),
           r.phase = "check" /\ Files!Old(r.seen) /\ Files!Gone(r.seen) => Files!Gone(r.seen)'
    PROVE  Files!Fits(d, r)'
<1>1. /\ r.phase \in Files!Flying => /\ r.own \in Files!Objects /\ Files!Old(r.own)' /\ x2'[d] \in Files!Objects
                                     /\ \A o \in x6' : o.ino # r.own.ino
      /\ r \in Files!Downloads => r.seen \in Files!Objects
  BY DEF Files!Fits, Files!Old, Files!Objects, Files!Downloads
<1>2. r.phase \in {"down", "read", "check"} => r \in Files!Downloads
  BY DEF Files!Fits, Files!Idle, Files!Entries, Files!Jobs, Files!Flying
<1>3. r.phase \in {"down", "read", "check"} => Files!Old(r.seen)' /\ r.got \subseteq {r.seen.ver}
  BY <1>1, <1>2 DEF Files!Fits, Files!Old, Files!Objects
<1>4. r.phase = "check" /\ r.data # r.seen.ver => Files!Gone(r.seen)'
  BY DEF Files!Fits
<1> QED
  BY <1>1, <1>3, <1>4 DEF Files!Fits

\* A step of one session.
LEMMA FilesOne ==
    ASSUME Files!FilesInv, NEW w \in Workers, NEW r, x4' = [x4 EXCEPT ![w] = r], x5 <= x5',
           \A d \in Workers \ {w} : x2'[d] = x2[d],
           Files!Stored', Files!Debts', Files!Fits(w, r)',
           \A o \in x6' \ x6 : \A d \in Workers : x4[d].phase \in Files!Flying => o.ino # x4[d].own.ino,
           \A q \in Files!Objects : Files!Old(q) /\ Files!Gone(q) => Files!Gone(q)'
    PROVE  Files!FilesInv'
<1>1. /\ DOMAIN x4' = Workers /\ x4'[w] = r /\ \A d \in Workers \ {w} : x4'[d] = x4[d]
  BY DEF Files!FilesInv
<1>2. x5 \in Nat /\ x5' \in Nat
  BY DEF Files!FilesInv, Files!Stored
<1>3. ASSUME NEW d \in Workers \ {w} PROVE Files!Fits(d, x4[d])'
  <2>1. PICK k : k = x4[d]
    OBVIOUS
  <2>2. Files!Fits(d, k)
    BY <2>1 DEF Files!FilesInv
  <2>3. k.phase = "check" /\ Files!Old(k.seen) /\ Files!Gone(k.seen) => Files!Gone(k.seen)'
    <3>1. k.phase = "check" => k.seen \in Files!Objects
      BY <2>2 DEF Files!Fits, Files!Idle, Files!Entries, Files!Jobs, Files!Flying, Files!Downloads
    <3> QED
      BY <3>1
  <2>4. Files!Fits(d, k)'
    BY <1>2, <2>1, <2>2, <2>3, FilesOther
  <2>5. x4'[d] = k
    BY <1>1, <2>1
  <2> QED
    BY <2>4, <2>5
<1>4. Files!Fits(w, x4[w])'
  BY <1>1
<1> QED
  BY <1>1, <1>3, <1>4 DEF Files!FilesInv
\* Nothing acts in the sessions: another program, or a write outside them.
LEMMA FilesNobody ==
    ASSUME Files!FilesInv, x4' = x4, x2' = x2, x5 <= x5', Files!Stored', Files!Debts',
           \A o \in x6' \ x6 : \A d \in Workers : x4[d].phase \in Files!Flying => o.ino # x4[d].own.ino,
           \A q \in Files!Objects : Files!Old(q) /\ Files!Gone(q) => Files!Gone(q)'
    PROVE  Files!FilesInv'
<1>1. x5 \in Nat /\ x5' \in Nat /\ DOMAIN x4 = Workers
  BY DEF Files!FilesInv, Files!Stored
<1>2. ASSUME NEW d \in Workers PROVE Files!Fits(d, x4[d])'
  <2>1. PICK k : k = x4[d]
    OBVIOUS
  <2>2. Files!Fits(d, k)
    BY <2>1 DEF Files!FilesInv
  <2>3. k.phase = "check" => k.seen \in Files!Objects
    BY <2>2 DEF Files!Fits, Files!Idle, Files!Entries, Files!Jobs, Files!Flying, Files!Downloads
  <2>4. k.phase = "check" /\ Files!Old(k.seen) /\ Files!Gone(k.seen) => Files!Gone(k.seen)'
    BY <2>3
  <2>5. Files!Fits(d, k)'
    BY <1>1, <2>1, <2>2, <2>4, FilesOther
  <2> QED
    BY <2>1, <2>5
<1> QED
  BY <1>1, <1>2 DEF Files!FilesInv

\* A session goes on and nothing but its own account changes.
LEMMA FilesQuiet ==
    ASSUME Files!FilesInv, NEW w \in Workers, NEW r, x4' = [x4 EXCEPT ![w] = r],
           x1' = x1, x2' = x2, x3' = x3, x5' = x5, x6' = x6, Files!Fits(w, r)
    PROVE  Files!FilesInv'
<1>1. Files!Stored' /\ x5 \in Nat
  BY DEF Files!FilesInv, Files!Stored, Files!Apart, Files!WholeFiles, Files!Old
<1>2. Files!Debts'
  BY DEF Files!FilesInv, Files!Debts, Files!NothingLost, Files!Old
<1>3. \A q \in Files!Objects : Files!Old(q) /\ Files!Gone(q) => Files!Gone(q)'
  BY DEF Files!Gone
<1>4. Files!Fits(w, r)'
  BY DEF Files!Fits, Files!Old, Files!Gone
<1>5. x5 <= x5' /\ (\A d \in Workers \ {w} : x2'[d] = x2[d]) /\ x6' \ x6 = {}
  BY <1>1
<1> QED
  BY <1>1, <1>2, <1>3, <1>4, <1>5, FilesOne

\* What a session may be at without anything staged.
LEMMA FilesResting ==
    ASSUME NEW w \in Workers, NEW r, x2[w] = None,
           \/ r = Files!Idle
           \/ r \in Files!Entries /\ (r.phase = "remove" => r.todo # {})
           \/ r \in Files!Jobs /\ r.phase \in {"stage", "link"} /\ r.todo # {}
    PROVE  Files!Fits(w, r)
<1>1. r.phase \in {"idle", "tar", "zip", "remove", "stage", "link"} /\ r.phase \notin Files!Flying
  BY DEF Files!Idle, Files!Entries, Files!Flying
<1>2. r.phase \in {"stage", "link", "remove"} => r.todo # {}
  BY DEF Files!Idle, Files!Entries
<1> QED
  BY <1>1, <1>2 DEF Files!Fits, Files!Flying

LEMMA FilesJob ==
    ASSUME Files!FilesInv, NEW todo \in SUBSET Names, NEW left \in Nat, NEW src \in Files!Sources
    PROVE  /\ Files!Job(todo, left, src) \in Files!Jobs /\ Files!Job(todo, left, src).todo = todo
           /\ Files!Job(todo, left, src).phase = "stage"
<1>1. x1 \in [Names -> Files!Objects \cup {None}]
  BY DEF Files!FilesInv, Files!Stored
<1>2. [n \in todo |-> x1[n]] \in [todo -> Files!Objects \cup {None}]
  BY <1>1
<1>3. [n \in todo |-> x1[n]] \in Files!Expects
  <2> DEFINE f == [n \in todo |-> x1[n]]
  <2>1. f \in [todo -> Files!Objects \cup {None}]
    BY <1>2
  <2> HIDE DEF f
  <2> SUFFICES f \in Files!Expects
    BY DEF f
  <2> QED
    BY <2>1, Zenon DEF Files!Expects
<1> QED
  BY <1>3 DEF Files!Job, Files!Jobs
LEMMA FilesRested ==
    ASSUME NEW w \in Workers, NEW r, x2'[w] = None,
           \/ r = Files!Idle
           \/ r \in Files!Jobs /\ r.phase \in {"stage", "link"} /\ r.todo # {}
    PROVE  Files!Fits(w, r)'
<1>1. r.phase \in {"idle", "stage", "link"} /\ r.phase \notin Files!Flying
  BY DEF Files!Idle, Files!Flying
<1>2. r.phase \in {"stage", "link", "remove"} => r.todo # {}
  BY DEF Files!Idle
<1> QED
  BY <1>1, <1>2 DEF Files!Fits, Files!Flying

\* What the phase says of a session's account.
LEMMA FilesPhase ==
    ASSUME Files!FilesInv, NEW w \in Workers
    PROVE  /\ Files!Fits(w, x4[w])
           /\ x4[w].phase \in {"idle", "tar", "zip", "remove", "stage", "link", "down", "read", "check"}
                => x2[w] = None
           /\ x4[w].phase \in {"tar", "zip", "remove"} => x4[w] \in Files!Entries
           /\ x4[w].phase \in Files!Flying \cup {"stage", "link"} => x4[w] \in Files!Jobs
           /\ x4[w].phase \in {"down", "read", "check"} => x4[w] \in Files!Downloads
           /\ x4[w].phase \in Files!Flying \cup {"stage", "link", "remove"}
                => Files!Entry(w) \in Names
<1>1. Files!Fits(w, x4[w])
  BY DEF Files!FilesInv
<1>2. /\ x4[w].phase \in {"idle", "tar", "zip", "remove", "stage", "link", "down", "read", "check"} => x2[w] = None
      /\ x4[w].phase \in {"tar", "zip", "remove"} => x4[w] \in Files!Entries
      /\ x4[w].phase \in Files!Flying \cup {"stage", "link"} => x4[w] \in Files!Jobs
      /\ x4[w].phase \in {"down", "read", "check"} => x4[w] \in Files!Downloads
  BY <1>1 DEF Files!Fits, Files!Idle, Files!Entries, Files!Jobs, Files!Downloads, Files!Flying
<1>3. x4[w].phase \in Files!Flying \cup {"stage", "link", "remove"} => x4[w].todo # {} /\ x4[w].todo \subseteq Names
  BY <1>1, <1>2 DEF Files!Fits, Files!Entries, Files!Jobs
<1>4. x4[w].phase \in Files!Flying \cup {"stage", "link", "remove"} => Files!Entry(w) \in Names
  BY <1>3, FirstIsOne DEF Files!Entry
<1> QED
  BY <1>1, <1>2, <1>4

LEMMA FilesBeginKept ==
    ASSUME Files!FilesInv, NEW w \in Workers,
           \/ Files!UploadBegin(w) \/ Files!CompressBegin(w) \/ Files!ExtractBegin(w) \/ Files!TarDecode(w)
           \/ Files!ZipDecode(w) \/ Files!Preflight(w) \/ Files!LinkCheck(w) \/ Files!RemoveCheck(w)
    PROVE  Files!FilesInv'
<1>a. x1' = x1 /\ x2' = x2 /\ x3' = x3 /\ x5' = x5 /\ x6' = x6
  BY DEF Files!UploadBegin, Files!CompressBegin, Files!ExtractBegin, Files!TarDecode, Files!ZipDecode,
         Files!Preflight, Files!LinkCheck, Files!RemoveCheck
<1>b. /\ x1 \in [Names -> Files!Objects \cup {None}] /\ DOMAIN x4 = Workers
      /\ x4[w].phase \in {"idle", "tar", "zip", "stage"}
  BY DEF Files!FilesInv, Files!Stored, Files!UploadBegin, Files!CompressBegin, Files!ExtractBegin, Files!TarDecode, Files!ZipDecode,
         Files!Preflight, Files!LinkCheck, Files!RemoveCheck
<1>c. x2[w] = None
  BY <1>b, FilesPhase
<1>d. \A r : /\ x4' = [x4 EXCEPT ![w] = r]
             /\ \/ r = Files!Idle
                \/ r \in Files!Entries /\ (r.phase = "remove" => r.todo # {})
                \/ r \in Files!Jobs /\ r.phase \in {"stage", "link"} /\ r.todo # {}
             => Files!FilesInv'
  BY <1>a, <1>c, FilesResting, FilesQuiet
<1>1. CASE Files!UploadBegin(w)
  <2>1. PICK n \in Names : x4' = [x4 EXCEPT ![w] = Files!Job({n}, Chunks, None)]
    BY <1>1 DEF Files!UploadBegin
  <2>2. PICK r : r = Files!Job({n}, Chunks, None)
    OBVIOUS
  <2>3. None \in Files!Sources /\ Chunks \in Nat /\ {n} \in SUBSET Names
    BY FilesAssumption DEF Files!Sources
  <2>4. r \in Files!Jobs /\ r.phase = "stage" /\ r.todo = {n}
    BY <2>2, <2>3, FilesJob
  <2> QED
    BY <1>d, <2>1, <2>2, <2>4
<1>2. CASE Files!CompressBegin(w)
  <2>1. PICK n \in Names, m \in Names : /\ x1[n] # None
          /\ x4' = [x4 EXCEPT ![w] = Files!Job({m}, 1, [name |-> n, seen |-> x1[n]])]
    BY <1>2 DEF Files!CompressBegin
  <2>2. PICK s : s = [name |-> n, seen |-> x1[n]]
    OBVIOUS
  <2>3. s \in Files!Sources
    BY <1>b, <2>1, <2>2 DEF Files!Sources
  <2>4. PICK r : r = Files!Job({m}, 1, s)
    OBVIOUS
  <2>5. r \in Files!Jobs /\ r.phase = "stage" /\ r.todo = {m}
    BY <2>3, <2>4, FilesJob
  <2> QED
    BY <1>d, <2>1, <2>2, <2>4, <2>5
<1>3. CASE Files!ExtractBegin(w)
  <2>1. PICK f \in {"tar", "zip"} : x4' = [x4 EXCEPT ![w] = [phase |-> f, todo |-> {}, links |-> {}]]
    BY <1>3 DEF Files!ExtractBegin
  <2>2. PICK r : r = [phase |-> f, todo |-> {}, links |-> {}]
    OBVIOUS
  <2>3. r \in Files!Entries /\ r.phase = f
    BY <2>2 DEF Files!Entries
  <2> QED
    BY <1>d, <2>1, <2>2, <2>3
<1>4. CASE Files!TarDecode(w) \/ Files!ZipDecode(w)
  <2>1. PICK n \in Names, link \in BOOLEAN : Files!Add(w, n, link)
    BY <1>4 DEF Files!TarDecode, Files!ZipDecode, Files!ZipLzma
  <2>2. x4[w] \in Files!Entries /\ x4[w].phase \in {"tar", "zip"}
    BY <1>4, FilesPhase DEF Files!TarDecode, Files!ZipDecode
  <2>3. PICK t \in SUBSET Names, l \in SUBSET Names : x4' = [x4 EXCEPT ![w].todo = t, ![w].links = l]
    <3>1. PICK l : /\ l = (IF link THEN x4[w].links \cup {n} ELSE x4[w].links)
                   /\ x4' = [x4 EXCEPT ![w].todo = x4[w].todo \cup {n}, ![w].links = l]
      BY <2>1 DEF Files!Add
    <3>2. l \in SUBSET Names /\ x4[w].todo \cup {n} \in SUBSET Names
      BY <2>2, <3>1 DEF Files!Entries
    <3> QED
      BY <3>1, <3>2
  <2>4. PICK r : r = [x4[w] EXCEPT !.todo = t, !.links = l]
    OBVIOUS
  <2>5. r \in Files!Entries /\ r.phase = x4[w].phase
    BY <2>2, <2>3, <2>4 DEF Files!Entries
  <2>6. x4' = [x4 EXCEPT ![w] = r]
    BY <1>b, <2>3, <2>4
  <2> QED
    BY <1>d, <2>2, <2>5, <2>6
<1>5. CASE Files!Preflight(w)
  <2>1. x4[w] \in Files!Entries /\ x4[w].todo # {}
    BY <1>5, FilesPhase DEF Files!Preflight
  <2>2. PICK j : j = Files!Job(x4[w].todo, 1, None)
    OBVIOUS
  <2>3. PICK r : r = [j EXCEPT !.links = x4[w].links]
    OBVIOUS
  <2>4. x4' = [x4 EXCEPT ![w] = r]
    BY <1>5, <2>2, <2>3 DEF Files!Preflight
  <2>5. None \in Files!Sources /\ x4[w].todo \in SUBSET Names /\ x4[w].links \in SUBSET Names
    BY <2>1 DEF Files!Sources, Files!Entries
  <2>6. j \in Files!Jobs /\ j.phase = "stage" /\ j.todo = x4[w].todo
    BY <2>2, <2>5, FilesJob
  <2>7. r \in Files!Jobs /\ r.phase = "stage" /\ r.todo = x4[w].todo
    BY <2>3, <2>5, <2>6 DEF Files!Jobs
  <2> QED
    BY <1>d, <2>1, <2>4, <2>7
<1>6. CASE Files!LinkCheck(w)
  <2>1. x4[w].phase = "stage" /\ x4[w] \in Files!Jobs /\ Files!Fits(w, x4[w])
    BY <1>6, FilesPhase DEF Files!LinkCheck
  <2>2. x4[w].todo # {}
    BY <2>1 DEF Files!Fits
  <2>3. PICK r : r = [x4[w] EXCEPT !.phase = "link"]
    OBVIOUS
  <2>4. r \in Files!Jobs /\ r.phase = "link" /\ r.todo = x4[w].todo
    BY <2>1, <2>3 DEF Files!Jobs, Files!Flying
  <2>5. x4' = [x4 EXCEPT ![w] = r] \/ x4' = [x4 EXCEPT ![w] = Files!Idle]
    BY <1>6, <1>b, <2>3 DEF Files!LinkCheck, Files!Finish
  <2> QED
    BY <1>d, <2>2, <2>4, <2>5
<1>7. CASE Files!RemoveCheck(w)
  <2>1. PICK n \in Names : x4' = [x4 EXCEPT ![w] = [phase |-> "remove", todo |-> {n}, links |-> {}]]
    BY <1>7 DEF Files!RemoveCheck
  <2>2. PICK r : r = [phase |-> "remove", todo |-> {n}, links |-> {}]
    OBVIOUS
  <2>3. r \in Files!Entries /\ r.todo = {n}
    BY <2>2 DEF Files!Entries
  <2> QED
    BY <1>d, <2>1, <2>2, <2>3
<1> QED
  BY <1>1, <1>2, <1>3, <1>4, <1>5, <1>6, <1>7
LEMMA FilesDownloadKept ==
    ASSUME Files!FilesInv, NEW w \in Workers,
           \/ Files!DownloadBegin(w) \/ Files!ChunkCheck(w) \/ Files!ChunkRead(w) \/ Files!ChunkAccept(w)
           \/ Files!DownloadEnd(w)
    PROVE  Files!FilesInv'
<1>a. x1' = x1 /\ x2' = x2 /\ x3' = x3 /\ x5' = x5 /\ x6' = x6
  BY DEF Files!DownloadBegin, Files!ChunkCheck, Files!ChunkRead, Files!ChunkAccept, Files!DownloadEnd
<1>b. /\ x1 \in [Names -> Files!Objects \cup {None}] /\ DOMAIN x4 = Workers
      /\ x4[w].phase \in {"idle", "down", "read", "check"}
      /\ \A n \in Names : x1[n] # None => Files!Old(x1[n])
  BY DEF Files!FilesInv, Files!Stored, Files!DownloadBegin, Files!ChunkCheck, Files!ChunkRead,
         Files!ChunkAccept, Files!DownloadEnd
<1>c. x2[w] = None /\ Files!Fits(w, x4[w])
  BY <1>b, FilesPhase
<1>d. \A r \in Files!Downloads :
        /\ x4' = [x4 EXCEPT ![w] = r] /\ Files!Old(r.seen) /\ r.got \subseteq {r.seen.ver}
        /\ r.phase \in {"read", "check"} => r.left > 0
        /\ r.phase = "check" /\ r.data # r.seen.ver => Files!Gone(r.seen)
        => Files!FilesInv'
  <2> SUFFICES ASSUME NEW r \in Files!Downloads,
                 x4' = [x4 EXCEPT ![w] = r], Files!Old(r.seen), r.got \subseteq {r.seen.ver},
                 r.phase \in {"read", "check"} => r.left > 0,
                 r.phase = "check" /\ r.data # r.seen.ver => Files!Gone(r.seen)
               PROVE  Files!FilesInv'
    OBVIOUS
  <2>1. Files!Fits(w, r)
    <3>1. r.phase \in {"down", "read", "check"} /\ r.phase \notin Files!Flying
      BY DEF Files!Downloads, Files!Flying
    <3> QED
      BY <1>c, <3>1 DEF Files!Fits
  <2> QED
    BY <1>a, <2>1, FilesQuiet
<1>1. CASE Files!DownloadBegin(w)
  <2>1. PICK n \in Names : /\ x1[n] # None
          /\ x4' = [x4 EXCEPT ![w] = [phase |-> "down", name |-> n, seen |-> x1[n], got |-> {}, data |-> 0,
                                      left |-> Chunks]]
    BY <1>1 DEF Files!DownloadBegin
  <2>2. PICK r : r = [phase |-> "down", name |-> n, seen |-> x1[n], got |-> {}, data |-> 0, left |-> Chunks]
    OBVIOUS
  <2>3. r \in Files!Downloads /\ r.phase = "down" /\ r.seen = x1[n] /\ r.got = {}
    BY <1>b, <2>1, <2>2, FilesAssumption DEF Files!Downloads
  <2> QED
    BY <1>b, <1>d, <2>1, <2>2, <2>3
<1>2. CASE Files!ChunkCheck(w)
  <2>1. x4[w].phase = "down" /\ x4[w].left > 0 /\ x4[w] \in Files!Downloads
    BY <1>2, FilesPhase DEF Files!ChunkCheck
  <2>2. PICK r : r = [x4[w] EXCEPT !.phase = "read"]
    OBVIOUS
  <2>3. x4' = [x4 EXCEPT ![w] = r]
    BY <1>2, <1>b, <2>2 DEF Files!ChunkCheck
  <2>4. /\ r \in Files!Downloads /\ r.phase = "read" /\ r.seen = x4[w].seen /\ r.got = x4[w].got
        /\ r.left = x4[w].left
    BY <2>1, <2>2 DEF Files!Downloads
  <2>5. Files!Old(x4[w].seen) /\ x4[w].got \subseteq {x4[w].seen.ver}
    BY <1>c, <2>1 DEF Files!Fits
  <2> QED
    BY <1>d, <2>1, <2>3, <2>4, <2>5
<1>3. CASE Files!ChunkRead(w)
  <2> DEFINE now == x1[x4[w].name]
  <2>1. x4[w].phase = "read" /\ x4[w].left > 0 /\ x4[w] \in Files!Downloads
        /\ Files!Old(x4[w].seen) /\ x4[w].got \subseteq {x4[w].seen.ver}
    BY <1>3, <1>c, FilesPhase DEF Files!ChunkRead, Files!Fits
  <2>2. now \in Files!Objects \cup {None} /\ x4[w].seen \in Files!Objects /\ x4[w].name \in Names
    BY <1>b, <2>1 DEF Files!Downloads
  <2>3. PICK v : /\ v = IF now # None /\ now.ino = x4[w].seen.ino THEN now.ver ELSE x4[w].seen.ver
                 /\ x4' = [x4 EXCEPT ![w].phase = "check", ![w].data = v]
    BY <1>3 DEF Files!ChunkRead
  <2>4. v \in Nat
    BY <2>2, <2>3 DEF Files!Objects
  <2>5. PICK r : r = [x4[w] EXCEPT !.phase = "check", !.data = v]
    OBVIOUS
  <2>6. x4' = [x4 EXCEPT ![w] = r]
    BY <1>b, <2>3, <2>5
  <2>7. /\ r \in Files!Downloads /\ r.phase = "check" /\ r.seen = x4[w].seen /\ r.got = x4[w].got
        /\ r.left = x4[w].left /\ r.data = v
    BY <2>1, <2>4, <2>5 DEF Files!Downloads
  <2>8. v # x4[w].seen.ver => Files!Gone(x4[w].seen)
    <3> SUFFICES ASSUME v # x4[w].seen.ver PROVE Files!Gone(x4[w].seen)
      OBVIOUS
    <3>1. now # None /\ now.ino = x4[w].seen.ino /\ now.ver # x4[w].seen.ver
      BY <2>3
    <3>2. Files!Apart
      BY DEF Files!FilesInv, Files!Stored
    <3> QED
      BY <2>2, <3>1, <3>2 DEF Files!Gone, Files!Apart
  <2> QED
    BY <1>d, <2>1, <2>6, <2>7, <2>8
<1>4. CASE Files!ChunkAccept(w)
  <2>1. x4[w].phase = "check" /\ x4[w].left > 0 /\ x4[w] \in Files!Downloads
        /\ Files!Old(x4[w].seen) /\ x4[w].got \subseteq {x4[w].seen.ver}
        /\ (x4[w].data # x4[w].seen.ver => Files!Gone(x4[w].seen))
    BY <1>4, <1>c, FilesPhase DEF Files!ChunkAccept, Files!Fits
  <2>2. x4[w].name \in Names /\ x4[w].seen \in Files!Objects /\ x4[w].data \in Nat /\ x4[w].left \in Nat
        /\ x4[w].got \in SUBSET Nat
    BY <2>1 DEF Files!Downloads
  <2>3. CASE x1[x4[w].name] = x4[w].seen
    <3>1. x4[w].data = x4[w].seen.ver
      BY <2>1, <2>2, <2>3, FilesAssumption DEF Files!Gone, Files!Objects
    <3>2. PICK r : r = [x4[w] EXCEPT !.phase = "down", !.got = x4[w].got \cup {x4[w].data}, !.left = x4[w].left - 1]
      OBVIOUS
    <3>3. x4' = [x4 EXCEPT ![w] = r]
      BY <1>4, <1>b, <2>3, <3>2 DEF Files!ChunkAccept
    <3>4. x4[w].got \cup {x4[w].data} \in SUBSET Nat /\ x4[w].left - 1 \in Nat
      BY <2>1, <2>2
    <3>5. /\ r \in Files!Downloads /\ r.phase = "down" /\ r.seen = x4[w].seen
          /\ r.got = x4[w].got \cup {x4[w].data}
      BY <2>1, <3>2, <3>4 DEF Files!Downloads
    <3> QED
      BY <1>d, <2>1, <3>1, <3>3, <3>5
  <2>4. CASE x1[x4[w].name] # x4[w].seen
    <3>1. PICK r : r = [x4[w] EXCEPT !.phase = "down"]
      OBVIOUS
    <3>2. x4' = [x4 EXCEPT ![w] = r]
      BY <1>4, <1>b, <2>4, <3>1 DEF Files!ChunkAccept
    <3>3. r \in Files!Downloads /\ r.phase = "down" /\ r.seen = x4[w].seen /\ r.got = x4[w].got
      BY <2>1, <3>1 DEF Files!Downloads
    <3> QED
      BY <1>d, <2>1, <3>2, <3>3
  <2> QED
    BY <2>3, <2>4
<1>5. CASE Files!DownloadEnd(w)
  <2>1. x4' = [x4 EXCEPT ![w] = Files!Idle]
    BY <1>5 DEF Files!DownloadEnd, Files!Finish
  <2> QED
    BY <1>a, <1>c, <2>1, FilesResting, FilesQuiet
<1> QED
  BY <1>1, <1>2, <1>3, <1>4, <1>5
\* One name gets a new file, a new version of the same file, or none.
LEMMA FilesDir ==
    ASSUME Files!FilesInv, NEW n \in Names, NEW v \in Files!Objects \cup {None},
           x1' = [x1 EXCEPT ![n] = v], x2' = x2, x3' = x3, x5' \in Nat, x5 <= x5',
           v # None => /\ v.left = 0 /\ x5 < v.ver /\ v.ver <= x5'
                       /\ \/ x5 < v.ino /\ v.ino <= x5'
                          \/ x1[n] # None /\ v.ino = x1[n].ino,
           x6' \subseteq (x6 \ {x1[n]}) \cup {v}, None \notin x6'
    PROVE  /\ Files!Stored' /\ Files!Debts'
           /\ \A q \in Files!Objects : Files!Old(q) /\ Files!Gone(q) => Files!Gone(q)'
<1>1. /\ x1 \in [Names -> Files!Objects \cup {None}] /\ x2 \in [Workers -> Files!Objects \cup {None}] /\ x5 \in Nat
      /\ \A m \in Names : x1[m] # None => Files!Old(x1[m])
      /\ \A w \in Workers : x2[w] # None => Files!Old(x2[w])
      /\ Files!Apart /\ Files!WholeFiles
  BY DEF Files!FilesInv, Files!Stored
<1>2. /\ x1' \in [Names -> Files!Objects \cup {None}] /\ x1'[n] = v
      /\ \A m \in Names \ {n} : x1'[m] = x1[m]
  BY <1>1
<1>3. v # None => Files!Old(v)'
  BY <1>1 DEF Files!Old, Files!Objects
<1>4. \A o \in Files!Objects : Files!Old(o) => Files!Old(o)'
  BY <1>1 DEF Files!Old, Files!Objects
<1>5. \A m \in Names : x1'[m] # None => Files!Old(x1[m])'
  <2> SUFFICES ASSUME NEW m \in Names, x1'[m] # None PROVE Files!Old(x1[m])'
    OBVIOUS
  <2>1. x1'[m] = v \/ (x1'[m] = x1[m] /\ x1[m] \in Files!Objects /\ Files!Old(x1[m]))
    BY <1>1, <1>2
  <2> QED
    BY <1>3, <1>4, <2>1 DEF Files!Old
<1>6. \A w \in Workers : x2'[w] # None => Files!Old(x2[w])'
  BY <1>1, <1>4 DEF Files!Old
<1>7. Files!WholeFiles'
  BY <1>1, <1>2 DEF Files!WholeFiles
<1>8. Files!Apart'
  <2>1. \A m \in Names \ {n} : v # None /\ x1[m] # None => v.ino # x1[m].ino
    BY <1>1 DEF Files!Apart, Files!Old, Files!Objects
  <2>2. \A w \in Workers : v # None /\ x2[w] # None => v.ino # x2[w].ino
    BY <1>1 DEF Files!Apart, Files!Old, Files!Objects
  <2> QED
    BY <1>1, <1>2, <2>1, <2>2 DEF Files!Apart
<1>9. Files!Stored'
  BY <1>1, <1>2, <1>5, <1>6, <1>7, <1>8 DEF Files!Stored
<1>10. Files!Debts'
  <2>1. \A o \in x6 : o \in Files!Objects /\ Files!Old(o)
    BY DEF Files!FilesInv, Files!Debts
  <2>2. \A o \in x6' : o \in Files!Objects /\ Files!Old(o)'
    BY <1>3, <1>4, <2>1
  <2>3. ASSUME NEW o \in x6'
        PROVE  o \in {x1'[m] : m \in Names} \cup {x2'[w] : w \in Workers} \cup x3'
    <3>1. CASE o = v
      BY <1>2, <3>1
    <3>2. CASE o \in x6 /\ o # x1[n]
      <4>1. o \in {x1[m] : m \in Names} \cup {x2[w] : w \in Workers} \cup x3
        BY <3>2 DEF Files!FilesInv, Files!Debts, Files!NothingLost
      <4> QED
        BY <1>2, <3>2, <4>1
    <3> QED
      BY <3>1, <3>2
  <2> QED
    BY <2>2, <2>3 DEF Files!Debts, Files!NothingLost
<1>11. ASSUME NEW q \in Files!Objects, Files!Old(q), Files!Gone(q) PROVE Files!Gone(q)'
  <2>1. v # None => v.ver # q.ver
    BY <1>1, <1>11 DEF Files!Old, Files!Objects
  <2> QED
    BY <1>1, <1>2, <1>11, <2>1 DEF Files!Gone
<1> QED
  BY <1>9, <1>10, <1>11

\* Writes outside the sessions' own accounts.
LEMMA FilesAroundKept ==
    ASSUME Files!FilesInv,
           \/ \E w \in Workers : Files!Rename(w) \/ Files!Create(w) \/ Files!Retouch(w)
           \/ \E n \in Names : Files!Replace(n) \/ Files!Edit(n) \/ Files!Delete(n)
    PROVE  Files!FilesInv'
<1>a. /\ x1 \in [Names -> Files!Objects \cup {None}] /\ x2 \in [Workers -> Files!Objects \cup {None}] /\ x5 \in Nat
      /\ \A m \in Names : x1[m] # None => Files!Old(x1[m]) /\ x1[m].left = 0
      /\ \A o \in x6 : o \in Files!Objects /\ Files!Old(o)
      /\ None \notin x6 /\ x4' = x4 /\ x2' = x2 /\ x3' = x3
  BY FilesAssumption DEF Files!FilesInv, Files!Stored, Files!Debts, Files!WholeFiles, Files!Rename, Files!Create, Files!Retouch,
     Files!Replace, Files!Edit, Files!Delete, Files!Objects
<1>b. \A d \in Workers : x4[d].phase \in Files!Flying =>
        /\ x4[d].own \in Files!Objects /\ x4[d].own.ino <= x5
        /\ \A o \in x6 : o.ino # x4[d].own.ino
  BY FilesPhase DEF Files!Fits, Files!Old
<1>1. CASE \E w \in Workers : Files!Rename(w)
  <2>1. PICK n \in Names, m \in Names : /\ x1[n] # None /\ x1[m] = None
                                        /\ x1' = [x1 EXCEPT ![m] = x1[n], ![n] = None]
    BY <1>1 DEF Files!Rename
  <2>2. x5' = x5 /\ x6' = x6
    BY <1>1 DEF Files!Rename
  <2>3. /\ x1' \in [Names -> Files!Objects \cup {None}] /\ n # m /\ x1'[n] = None /\ x1'[m] = x1[n]
        /\ \A k \in Names \ {n, m} : x1'[k] = x1[k]
    BY <1>a, <2>1
  <2>4. Files!Stored'
    <3>1. Files!Apart /\ Files!Stored
      BY DEF Files!FilesInv, Files!Stored
    <3>2. Files!Apart'
      BY <1>a, <2>1, <2>3, <3>1 DEF Files!Apart
    <3>3. \A k \in Names : x1'[k] # None => Files!Old(x1[k])' /\ x1'[k].left = 0
      BY <1>a, <2>1, <2>2, <2>3 DEF Files!Old
    <3>4. \A w \in Workers : x2'[w] # None => Files!Old(x2[w])'
      BY <1>a, <2>2, <3>1 DEF Files!Old, Files!Stored
    <3> QED
      BY <1>a, <2>2, <2>3, <3>2, <3>3, <3>4 DEF Files!Stored, Files!WholeFiles
  <2>5. Files!Debts'
    <3>1. {x1[k] : k \in Names} \ {None} \subseteq {x1'[k] : k \in Names}
      BY <1>a, <2>1, <2>3
    <3>2. x6 \subseteq {x1[k] : k \in Names} \cup {x2[w] : w \in Workers} \cup x3
      BY DEF Files!FilesInv, Files!Debts, Files!NothingLost
    <3>3. x6' \subseteq {x1'[k] : k \in Names} \cup {x2'[w] : w \in Workers} \cup x3'
      BY <1>a, <2>2, <3>1, <3>2
    <3> QED
      BY <1>a, <2>2, <3>3 DEF Files!Debts, Files!NothingLost, Files!Old
  <2>6. \A q \in Files!Objects : Files!Old(q) /\ Files!Gone(q) => Files!Gone(q)'
    BY <1>a, <2>1, <2>3 DEF Files!Gone
  <2>7. x6' \ x6 = {} /\ x5 <= x5'
    BY <1>a, <2>2
  <2> QED
    BY <1>a, <2>4, <2>5, <2>6, <2>7, FilesNobody
<1>2. CASE \/ \E w \in Workers : Files!Create(w)
           \/ \E n \in Names : Files!Replace(n)
  <2>1. PICK n \in Names : /\ x1' = [x1 EXCEPT ![n] = Files!New(x5 + 1, 0)] /\ x5' = x5 + 1
                           /\ x6' \subseteq (x6 \ {x1[n]}) \cup {Files!New(x5 + 1, 0)}
    <3>1. CASE \E w \in Workers : Files!Create(w)
      <4>1. PICK n \in Names : /\ x1[n] = None /\ x1' = [x1 EXCEPT ![n] = Files!New(x5 + 1, 0)]
                               /\ x5' = x5 + 1 /\ x6' = x6
        BY <3>1 DEF Files!Create, Files!Fresh
      <4>2. x6' \subseteq (x6 \ {x1[n]}) \cup {Files!New(x5 + 1, 0)}
        BY <1>a, <4>1
      <4> QED
        BY <4>1, <4>2
    <3>2. CASE \E n \in Names : Files!Replace(n)
      BY <1>a, <3>2 DEF Files!Replace, Files!Fresh
    <3> QED
      BY <1>2, <3>1, <3>2
  <2>2. PICK v : v = Files!New(x5 + 1, 0)
    OBVIOUS
  <2>3. v \in Files!Objects /\ v.ino = x5 + 1 /\ v.ver = x5 + 1 /\ v.left = 0
    BY <1>a, <2>2 DEF Files!New, Files!Objects
  <2>4. None \notin x6' /\ x5' \in Nat /\ x5 <= x5'
    BY <1>a, <2>1, <2>2, <2>3, FilesAssumption DEF Files!Objects
  <2>5. /\ Files!Stored' /\ Files!Debts'
        /\ \A q \in Files!Objects : Files!Old(q) /\ Files!Gone(q) => Files!Gone(q)'
    <3>1. /\ x5 < v.ver /\ v.ver <= x5' /\ x5 < v.ino /\ v.ino <= x5'
          /\ x1' = [x1 EXCEPT ![n] = v] /\ x6' \subseteq (x6 \ {x1[n]}) \cup {v}
      BY <1>a, <2>1, <2>2, <2>3
    <3> QED
      BY <1>a, <2>3, <2>4, <3>1, FilesDir
  <2>6. \A o \in x6' \ x6 : \A d \in Workers : x4[d].phase \in Files!Flying => o.ino # x4[d].own.ino
    BY <1>a, <1>b, <2>1, <2>2, <2>3 DEF Files!Objects
  <2> QED
    BY <1>a, <2>4, <2>5, <2>6, FilesNobody
<1>3. CASE \/ \E w \in Workers : Files!Retouch(w)
           \/ \E n \in Names : Files!Edit(n)
  <2>1. PICK n \in Names : /\ x1[n] # None /\ x1' = [x1 EXCEPT ![n].ver = x5 + 1] /\ x5' = x5 + 1
                           /\ \/ x6' = IF x1[n] \in x6 THEN (x6 \ {x1[n]}) \cup {x1'[n]} ELSE x6
                              \/ x6' = IF Files!InFlight(x1[n]) THEN x6 ELSE (x6 \ {x1[n]}) \cup {x1'[n]}
    BY <1>3 DEF Files!Retouch, Files!Edit, Files!Fresh
  <2>2. PICK v : v = [x1[n] EXCEPT !.ver = x5 + 1]
    OBVIOUS
  <2>3. x1[n] \in Files!Objects
    BY <1>a, <2>1
  <2>4. /\ v \in Files!Objects /\ v.ino = x1[n].ino /\ v.ver = x5 + 1 /\ v.left = 0
        /\ x1' = [x1 EXCEPT ![n] = v] /\ x1'[n] = v
    BY <1>a, <2>1, <2>2, <2>3 DEF Files!Objects
  <2>5. Files!InFlight(x1[n]) => x1[n] \notin x6
    BY <1>b DEF Files!InFlight, Files!Flying
  <2>6. x6' \subseteq (x6 \ {x1[n]}) \cup {v}
    BY <2>1, <2>4, <2>5
  <2>7. None \notin x6' /\ x5' \in Nat /\ x5 <= x5'
    BY <1>a, <2>1, <2>4, <2>6, FilesAssumption DEF Files!Objects
  <2>8. /\ Files!Stored' /\ Files!Debts'
        /\ \A q \in Files!Objects : Files!Old(q) /\ Files!Gone(q) => Files!Gone(q)'
    <3>1. x5 < v.ver /\ v.ver <= x5'
      BY <1>a, <2>1, <2>4
    <3> QED
      BY <1>a, <2>1, <2>4, <2>6, <2>7, <3>1, FilesDir
  <2>9. ASSUME NEW o \in x6' \ x6, NEW d \in Workers, x4[d].phase \in Files!Flying
        PROVE  o.ino # x4[d].own.ino
    <3>1. o = v /\ (x1[n] \in x6 \/ ~Files!InFlight(x1[n]))
      BY <2>1, <2>4, <2>9
    <3>2. CASE x1[n] \in x6
      BY <1>b, <2>4, <2>9, <3>1, <3>2
    <3>3. CASE ~Files!InFlight(x1[n])
      <4>1. x4[d].own # None
        BY <1>b, <2>9, FilesAssumption DEF Files!Objects
      <4> QED
        BY <2>4, <2>9, <3>1, <3>3, <4>1 DEF Files!InFlight, Files!Flying
    <3> QED
      BY <3>1, <3>2, <3>3
  <2> QED
    BY <1>a, <2>7, <2>8, <2>9, FilesNobody
<1>4. CASE \E n \in Names : Files!Delete(n)
  <2>1. PICK n \in Names : /\ x1' = [x1 EXCEPT ![n] = None] /\ x5' = x5 /\ x6' = x6 \ {x1[n]}
    BY <1>4 DEF Files!Delete
  <2>2. None \notin x6' /\ x5' \in Nat /\ x5 <= x5' /\ x6' \ x6 = {}
    BY <1>a, <2>1
  <2>3. /\ Files!Stored' /\ Files!Debts'
        /\ \A q \in Files!Objects : Files!Old(q) /\ Files!Gone(q) => Files!Gone(q)'
    <3>1. None \in Files!Objects \cup {None} /\ x6' \subseteq (x6 \ {x1[n]}) \cup {None}
      BY <2>1
    <3> QED
      BY <1>a, <2>1, <2>2, <3>1, FilesDir
  <2> QED
    BY <1>a, <2>2, <2>3, FilesNobody
<1> QED
  BY <1>1, <1>2, <1>3, <1>4
\* The hidden name of a session changes: a new file, one chunk more, or none.
LEMMA FilesTemp ==
    ASSUME Files!FilesInv, NEW w \in Workers, NEW v \in Files!Objects \cup {None},
           x1' = x1, x2' = [x2 EXCEPT ![w] = v], x3 \subseteq x3', x5' \in Nat, x5 <= x5', x6' \subseteq x6,
           x2[w] \notin x6' \/ x2[w] \in x3',
           v # None => /\ v.ino <= x5' /\ v.ver <= x5'
                       /\ \/ x5 < v.ino /\ x5 < v.ver
                          \/ x2[w] # None /\ v.ino = x2[w].ino /\ v.ver = x2[w].ver
    PROVE  /\ Files!Stored' /\ Files!Debts' /\ (\A d \in Workers \ {w} : x2'[d] = x2[d]) /\ x2'[w] = v
           /\ \A q \in Files!Objects : Files!Old(q) /\ Files!Gone(q) => Files!Gone(q)'
<1>1. /\ x1 \in [Names -> Files!Objects \cup {None}] /\ x2 \in [Workers -> Files!Objects \cup {None}] /\ x5 \in Nat
      /\ \A m \in Names : x1[m] # None => Files!Old(x1[m])
      /\ \A d \in Workers : x2[d] # None => Files!Old(x2[d])
      /\ Files!Apart /\ Files!WholeFiles
  BY DEF Files!FilesInv, Files!Stored
<1>2. /\ x2' \in [Workers -> Files!Objects \cup {None}] /\ x2'[w] = v
      /\ \A d \in Workers \ {w} : x2'[d] = x2[d]
  BY <1>1
<1>3. v # None => Files!Old(v)'
  BY DEF Files!Old
<1>4. \A o \in Files!Objects : Files!Old(o) => Files!Old(o)'
  BY <1>1 DEF Files!Old, Files!Objects
<1>5. \A d \in Workers : x2'[d] # None => Files!Old(x2[d])'
  <2> SUFFICES ASSUME NEW d \in Workers, x2'[d] # None PROVE Files!Old(x2[d])'
    OBVIOUS
  <2>1. x2'[d] = v \/ (x2'[d] = x2[d] /\ x2[d] \in Files!Objects /\ Files!Old(x2[d]))
    BY <1>1, <1>2
  <2> QED
    BY <1>3, <1>4, <2>1 DEF Files!Old
<1>6. \A m \in Names : x1'[m] # None => Files!Old(x1[m])'
  BY <1>1, <1>4 DEF Files!Old
<1>7. Files!Apart'
  <2>1. \A d \in Workers \ {w} : v # None /\ x2[d] # None => v.ino # x2[d].ino
    BY <1>1 DEF Files!Apart, Files!Old, Files!Objects
  <2>2. \A m \in Names : v # None /\ x1[m] # None => v.ino # x1[m].ino
    BY <1>1 DEF Files!Apart, Files!Old, Files!Objects
  <2> QED
    BY <1>1, <1>2, <2>1, <2>2 DEF Files!Apart
<1>8. Files!Stored'
  BY <1>1, <1>2, <1>5, <1>6, <1>7 DEF Files!Stored, Files!WholeFiles
<1>9. Files!Debts'
  <2>1. \A o \in x6' : o \in Files!Objects /\ Files!Old(o)'
    BY <1>4 DEF Files!FilesInv, Files!Debts
  <2>2. ASSUME NEW o \in x6'
        PROVE  o \in {x1'[m] : m \in Names} \cup {x2'[d] : d \in Workers} \cup x3'
    <3>1. o \in {x1[m] : m \in Names} \cup {x2[d] : d \in Workers} \cup x3
      BY DEF Files!FilesInv, Files!Debts, Files!NothingLost
    <3> QED
      BY <1>2, <3>1
  <2> QED
    BY <2>1, <2>2 DEF Files!Debts, Files!NothingLost
<1>10. ASSUME NEW q \in Files!Objects, Files!Old(q), Files!Gone(q) PROVE Files!Gone(q)'
  <2>1. v # None => v.ver # q.ver \/ v.ino # q.ino
    BY <1>1, <1>10 DEF Files!Old, Files!Objects, Files!Gone
  <2> QED
    BY <1>1, <1>2, <1>10, <2>1 DEF Files!Gone
<1> QED
  BY <1>2, <1>8, <1>9, <1>10

\* A session ends or turns to its next entry and lets go of what it holds.
LEMMA FilesDrops ==
    ASSUME Files!FilesInv, NEW w \in Workers, NEW r, x4' = [x4 EXCEPT ![w] = r],
           r = Files!Idle \/ (r \in Files!Jobs /\ r.phase = "stage" /\ r.todo # {}),
           x1' = x1, x2' = [x2 EXCEPT ![w] = None], x3 \subseteq x3', x5' = x5, x6' \subseteq x6,
           x2[w] \notin x6' \/ x2[w] \in x3'
    PROVE  Files!FilesInv'
<1>1. x5 \in Nat /\ x5 <= x5' /\ x5' \in Nat
  BY DEF Files!FilesInv, Files!Stored
<1>2. /\ Files!Stored' /\ Files!Debts' /\ (\A d \in Workers \ {w} : x2'[d] = x2[d]) /\ x2'[w] = None
      /\ \A q \in Files!Objects : Files!Old(q) /\ Files!Gone(q) => Files!Gone(q)'
  <2>1. None \in Files!Objects \cup {None}
    OBVIOUS
  <2> QED
    BY <1>1, <2>1, FilesTemp
<1>3. Files!Fits(w, r)'
  BY <1>2, FilesRested
<1>4. x6' \ x6 = {}
  OBVIOUS
<1> QED
  BY <1>1, <1>2, <1>3, <1>4, FilesOne

LEMMA FilesNext ==
    ASSUME Files!FilesInv, NEW w \in Workers, x4[w].phase \in Files!Flying \cup {"link"}, Files!NextEntry(w)
    PROVE  \E r : /\ x4' = [x4 EXCEPT ![w] = r]
                  /\ r = Files!Idle \/ (r \in Files!Jobs /\ r.phase = "stage" /\ r.todo # {})
<1>1. x4[w] \in Files!Jobs /\ Files!Fits(w, x4[w]) /\ DOMAIN x4 = Workers
  BY FilesPhase DEF Files!FilesInv
<1>2. x4[w].todo # {} /\ x4[w].todo \in SUBSET Names
  BY <1>1 DEF Files!Fits, Files!Jobs
<1>3. CASE x4[w].todo = {Files!Entry(w)}
  BY <1>3 DEF Files!NextEntry, Files!Finish
<1>4. CASE x4[w].todo # {Files!Entry(w)}
  <2>1. PICK t : t = x4[w].todo \ {Files!Entry(w)}
    OBVIOUS
  <2>2. t \in SUBSET Names /\ t # {}
    BY <1>2, <1>4, <2>1
  <2>3. PICK r : r = [x4[w] EXCEPT !.todo = t, !.phase = "stage", !.own = None]
    OBVIOUS
  <2>4. r \in Files!Jobs /\ r.phase = "stage" /\ r.todo = t
    BY <1>1, <2>2, <2>3 DEF Files!Jobs
  <2>5. x4' = [x4 EXCEPT ![w] = r]
    BY <1>1, <1>4, <2>1, <2>3 DEF Files!NextEntry
  <2> QED
    BY <2>2, <2>4, <2>5
<1> QED
  BY <1>3, <1>4

\* What was staged comes under its name, and what was there goes under the
\* hidden one, is kept, or is owed to nobody.
LEMMA FilesMove ==
    ASSUME Files!FilesInv, NEW w \in Workers, NEW n \in Names, x2[w] \in Files!Objects, x2[w].left = 0,
           NEW v \in {x1[n], None}, x1' = [x1 EXCEPT ![n] = x2[w]], x2' = [x2 EXCEPT ![w] = v],
           x3 \subseteq x3', x5' = x5, x6' = x6,
           v = x1[n] \/ x1[n] \in x3' \/ x1[n] \notin x6
    PROVE  /\ Files!Stored' /\ Files!Debts' /\ (\A d \in Workers \ {w} : x2'[d] = x2[d]) /\ x2'[w] = v
           /\ \A q \in Files!Objects : Files!Old(q) /\ Files!Gone(q) => Files!Gone(q)'
<1>1. /\ x1 \in [Names -> Files!Objects \cup {None}] /\ x2 \in [Workers -> Files!Objects \cup {None}] /\ x5 \in Nat
      /\ \A m \in Names : x1[m] # None => Files!Old(x1[m])
      /\ \A d \in Workers : x2[d] # None => Files!Old(x2[d])
      /\ Files!Apart /\ Files!WholeFiles
  BY DEF Files!FilesInv, Files!Stored
<1>2. /\ x2' \in [Workers -> Files!Objects \cup {None}] /\ x2'[w] = v
      /\ \A d \in Workers \ {w} : x2'[d] = x2[d]
      /\ x1' \in [Names -> Files!Objects \cup {None}] /\ x1'[n] = x2[w]
      /\ \A m \in Names \ {n} : x1'[m] = x1[m]
  BY <1>1
<1>3. x2[w] # None
  BY FilesAssumption DEF Files!Objects
<1>4. \A m \in Names : x1'[m] # None => Files!Old(x1[m])'
  BY <1>1, <1>2, <1>3 DEF Files!Old
<1>5. \A d \in Workers : x2'[d] # None => Files!Old(x2[d])'
  BY <1>1, <1>2 DEF Files!Old
<1>6. Files!WholeFiles'
  BY <1>1, <1>2 DEF Files!WholeFiles
<1>7. Files!Apart'
  BY <1>1, <1>2, <1>3 DEF Files!Apart
<1>8. Files!Stored'
  BY <1>1, <1>2, <1>4, <1>5, <1>6, <1>7 DEF Files!Stored
<1>9. Files!Debts'
  <2>1. \A o \in x6' : o \in Files!Objects /\ Files!Old(o)'
    BY DEF Files!FilesInv, Files!Debts, Files!Old
  <2>2. ASSUME NEW o \in x6'
        PROVE  o \in {x1'[m] : m \in Names} \cup {x2'[d] : d \in Workers} \cup x3'
    <3>1. o \in {x1[m] : m \in Names} \cup {x2[d] : d \in Workers} \cup x3
      BY DEF Files!FilesInv, Files!Debts, Files!NothingLost
    <3> QED
      BY <1>2, <3>1
  <2> QED
    BY <2>1, <2>2 DEF Files!Debts, Files!NothingLost
<1>10. ASSUME NEW q \in Files!Objects, Files!Gone(q) PROVE Files!Gone(q)'
  BY <1>1, <1>2, <1>3, <1>10 DEF Files!Gone
<1> QED
  BY <1>2, <1>8, <1>9, <1>10
\* A session in flight: what it holds of its own is owed to nobody.
LEMMA FilesFlies ==
    ASSUME Files!FilesInv, NEW w \in Workers, x4[w].phase \in Files!Flying
    PROVE  /\ x4[w] \in Files!Jobs /\ x4[w].own \in Files!Objects /\ x4[w].own # None /\ x2[w] \in Files!Objects
           /\ x2[w] # None /\ x4[w].todo # {} /\ Files!Entry(w) \in Names /\ DOMAIN x4 = Workers
           /\ \A o \in x6 : o.ino # x4[w].own.ino
           /\ x4[w].phase \in {"write", "swap"} => x2[w] = x4[w].own /\ x2[w] \notin x6
           /\ x4[w].phase \in {"swap", "look", "unlink", "back"} => x2[w].left = 0
           /\ x4[w].phase = "unlink" => x2[w] = x4[w].expect[Files!Entry(w)]
           /\ Files!Old(x4[w].own)
<1>1. Files!Fits(w, x4[w]) /\ x4[w] \in Files!Jobs /\ Files!Entry(w) \in Names /\ DOMAIN x4 = Workers
  BY FilesPhase DEF Files!FilesInv
<1>2. None \notin Files!Objects
  BY FilesAssumption DEF Files!Objects
<1> QED
  BY <1>1, <1>2 DEF Files!Fits, Files!Entry

\* It goes on to another phase of the same entry.
LEMMA FilesFliesOn ==
    ASSUME Files!FilesInv, NEW w \in Workers, x4[w].phase \in Files!Flying,
           NEW p \in Files!Flying \ {"write"}, x4' = [x4 EXCEPT ![w].phase = p],
           p = "swap" => x4[w].phase = "write" /\ x4[w].own.left = 0,
           p # "swap" => x4[w].phase \in {"swap", "look", "unlink", "back"},
           p = "unlink" => x2[w] = x4[w].expect[Files!Entry(w)],
           x1' = x1, x2' = x2, x3' = x3, x5' = x5, x6' = x6
    PROVE  Files!FilesInv'
<1>1. PICK r : r = [x4[w] EXCEPT !.phase = p]
  OBVIOUS
<1>2. /\ r \in Files!Jobs /\ r.phase = p /\ r.own = x4[w].own /\ r.expect = x4[w].expect
      /\ r.todo = x4[w].todo /\ r.links = x4[w].links
  BY <1>1, FilesFlies DEF Files!Jobs
<1>3. x4' = [x4 EXCEPT ![w] = r]
  BY <1>1, FilesFlies
<1>4. Files!Fits(w, r)
  BY <1>2, FilesFlies DEF Files!Fits, Files!Flying, Files!Entry
<1> QED
  BY <1>3, <1>4, FilesQuiet

LEMMA FilesStageKept ==
    ASSUME Files!FilesInv, NEW w \in Workers,
           Files!Stage(w) \/ Files!Write(w) \/ Files!Commit(w) \/ Files!Abort(w)
    PROVE  Files!FilesInv'
<1>a. x5 \in Nat /\ DOMAIN x4 = Workers /\ x2 \in [Workers -> Files!Objects \cup {None}] /\ None \notin x6
  BY FilesAssumption DEF Files!FilesInv, Files!Stored, Files!Debts, Files!Objects
<1>1. CASE Files!Stage(w)
  <2>1. /\ x4[w].phase = "stage" /\ x2[w] = None /\ x4[w] \in Files!Jobs /\ Files!Fits(w, x4[w])
        /\ x1' = x1 /\ x3' = x3 /\ x6' = x6
    BY <1>1, FilesPhase DEF Files!Stage
  <2>2. CASE Files!Finish(w) /\ x2' = x2 /\ x5' = x5
    <3>1. x4' = [x4 EXCEPT ![w] = Files!Idle]
      BY <2>2 DEF Files!Finish
    <3> QED
      BY <2>1, <2>2, <3>1, FilesResting, FilesQuiet
  <2>3. CASE ~(Files!Finish(w) /\ x2' = x2 /\ x5' = x5)
    <3>1. PICK v : v = Files!New(x5 + 1, x4[w].left)
      OBVIOUS
    <3>2. /\ x5' = x5 + 1 /\ x2' = [x2 EXCEPT ![w] = v]
          /\ x4' = [x4 EXCEPT ![w].phase = "write", ![w].own = x2'[w]]
      BY <1>1, <2>3, <3>1 DEF Files!Stage, Files!Fresh
    <3>3. v \in Files!Objects /\ v.ino = x5 + 1 /\ v.ver = x5 + 1
      BY <1>a, <2>1, <3>1 DEF Files!New, Files!Objects, Files!Jobs
    <3>4. /\ Files!Stored' /\ Files!Debts' /\ (\A d \in Workers \ {w} : x2'[d] = x2[d]) /\ x2'[w] = v
          /\ \A q \in Files!Objects : Files!Old(q) /\ Files!Gone(q) => Files!Gone(q)'
      <4>1. /\ v.ino <= x5' /\ v.ver <= x5' /\ x5 < v.ino /\ x5 < v.ver /\ x5' \in Nat /\ x5 <= x5'
            /\ x2[w] \notin x6' /\ x6' \subseteq x6 /\ x3 \subseteq x3'
        BY <1>a, <2>1, <3>2, <3>3
      <4> QED
        BY <2>1, <3>2, <3>3, <4>1, FilesTemp
    <3>5. PICK r : r = [x4[w] EXCEPT !.phase = "write", !.own = v]
      OBVIOUS
    <3>6. r \in Files!Jobs /\ r.phase = "write" /\ r.own = v /\ r.todo = x4[w].todo
      BY <2>1, <3>3, <3>5 DEF Files!Jobs, Files!Flying
    <3>7. x4' = [x4 EXCEPT ![w] = r]
      BY <1>a, <3>2, <3>4, <3>5
    <3>8. \A o \in x6' : o.ino # v.ino
      BY <1>a, <2>1, <3>3 DEF Files!FilesInv, Files!Debts, Files!Old, Files!Objects
    <3>9. Files!Fits(w, r)'
      <4>1. r.phase \in Files!Flying /\ r.todo # {} /\ Files!Old(v)'
        BY <1>a, <2>1, <3>2, <3>3, <3>6 DEF Files!Fits, Files!Flying, Files!Old
      <4> QED
        BY <3>3, <3>4, <3>6, <3>8, <4>1 DEF Files!Fits, Files!Old
    <3>10. x5 <= x5' /\ x6' \ x6 = {}
      BY <1>a, <2>1, <3>2
    <3> QED
      BY <3>4, <3>7, <3>9, <3>10, FilesOne
  <2> QED
    BY <2>2, <2>3
<1>2. CASE Files!Write(w)
  <2>1. /\ x4[w].phase = "write" /\ x4[w].phase \in Files!Flying /\ x4[w].own.left > 0
        /\ x1' = x1 /\ x3' = x3 /\ x6' = x6 /\ x5' = x5
    BY <1>2 DEF Files!Write, Files!Flying
  <2>2. /\ x2[w] = x4[w].own /\ x2[w] \in Files!Objects /\ x4[w] \in Files!Jobs /\ x2[w] \notin x6
        /\ x2[w] # None /\ Files!Old(x2[w]) /\ x4[w].todo # {} /\ \A o \in x6 : o.ino # x4[w].own.ino
    BY <2>1, FilesFlies
  <2>3. PICK v : v = [x2[w] EXCEPT !.left = x2[w].left - 1]
    OBVIOUS
  <2>4. v \in Files!Objects /\ v.ino = x2[w].ino /\ v.ver = x2[w].ver
    BY <2>1, <2>2, <2>3 DEF Files!Objects
  <2>5. x2' = [x2 EXCEPT ![w] = v]
    BY <1>2, <1>a, <2>3 DEF Files!Write
  <2>6. PICK r : r = [x4[w] EXCEPT !.own = v]
    OBVIOUS
  <2>7. x4' = [x4 EXCEPT ![w] = r]
    <3>1. x4' = [x4 EXCEPT ![w].own.left = x4[w].own.left - 1]
      BY <1>2 DEF Files!Write
    <3>2. [x4[w] EXCEPT !.own.left = x4[w].own.left - 1] = r
      BY <2>2, <2>3, <2>6 DEF Files!Jobs
    <3> QED
      BY <1>a, <3>1, <3>2
  <2>8. r \in Files!Jobs /\ r.phase = "write" /\ r.own = v /\ r.todo = x4[w].todo
    BY <2>1, <2>2, <2>4, <2>6 DEF Files!Jobs
  <2>9. /\ Files!Stored' /\ Files!Debts' /\ (\A d \in Workers \ {w} : x2'[d] = x2[d]) /\ x2'[w] = v
        /\ \A q \in Files!Objects : Files!Old(q) /\ Files!Gone(q) => Files!Gone(q)'
    <3>1. v.ino <= x5' /\ v.ver <= x5' /\ x5' \in Nat /\ x5 <= x5' /\ x6' \subseteq x6 /\ x3 \subseteq x3'
      BY <1>a, <2>1, <2>2, <2>4 DEF Files!Old
    <3> QED
      BY <2>1, <2>2, <2>4, <2>5, <3>1, FilesTemp
  <2>10. Files!Fits(w, r)'
    <3>1. r.phase \in Files!Flying /\ Files!Old(v)' /\ \A o \in x6' : o.ino # v.ino
      BY <2>1, <2>2, <2>4, <2>8 DEF Files!Flying, Files!Old
    <3> QED
      BY <2>2, <2>4, <2>8, <2>9, <3>1 DEF Files!Fits, Files!Old
  <2>11. x5 <= x5' /\ x6' \ x6 = {}
    BY <1>a, <2>1
  <2> QED
    BY <2>7, <2>9, <2>10, <2>11, FilesOne
<1>3. CASE Files!Commit(w)
  <2>1. /\ x4[w].phase = "write" /\ x4[w].phase \in Files!Flying /\ x4[w].own.left = 0
        /\ x1' = x1 /\ x3' = x3 /\ x6' = x6 /\ x5' = x5
    BY <1>3 DEF Files!Commit, Files!Complete, Files!Flying
  <2>2. CASE Files!StillExpected(w)
    <3>1. x4' = [x4 EXCEPT ![w].phase = "swap"] /\ x2' = x2
      BY <1>3, <2>2 DEF Files!Commit
    <3>2. "swap" \in Files!Flying \ {"write"}
      BY DEF Files!Flying
    <3> QED
      BY <2>1, <3>1, <3>2, FilesFliesOn
  <2>3. CASE ~Files!StillExpected(w)
    <3>1. x4' = [x4 EXCEPT ![w] = Files!Idle] /\ x2' = [x2 EXCEPT ![w] = None]
      BY <1>3, <2>3 DEF Files!Commit, Files!Finish
    <3>2. x2[w] \notin x6' /\ x3 \subseteq x3' /\ x6' \subseteq x6
      BY <2>1, FilesFlies
    <3> QED
      BY <2>1, <3>1, <3>2, FilesDrops
  <2> QED
    BY <2>2, <2>3
<1>4. CASE Files!Abort(w)
  <2>1. /\ x1' = x1 /\ x5' = x5 /\ x6' = x6 /\ x2' = [x2 EXCEPT ![w] = None]
        /\ x4' = [x4 EXCEPT ![w] = Files!Idle] /\ x3 \subseteq x3'
        /\ x4[w].phase \in {"tar", "zip", "stage", "link", "write", "swap"}
    BY <1>4 DEF Files!Abort, Files!Finish
  <2>2. x2[w] \notin x6
    <3>1. CASE x4[w].phase \in {"tar", "zip", "stage", "link"}
      BY <1>a, <3>1, FilesPhase
    <3>2. CASE x4[w].phase \in {"write", "swap"}
      BY <3>2, FilesFlies DEF Files!Flying
    <3> QED
      BY <2>1, <3>1, <3>2
  <2> QED
    BY <2>1, <2>2, FilesDrops
<1> QED
  BY <1>1, <1>2, <1>3, <1>4
LEMMA FilesSwapKept ==
    ASSUME Files!FilesInv, NEW w \in Workers,
           Files!Swap(w) \/ Files!Look(w) \/ Files!Unlink(w) \/ Files!Back(w)
    PROVE  Files!FilesInv'
<1> DEFINE n == Files!Entry(w)
<1>a. /\ x5 \in Nat /\ None \notin x6 /\ x5' = x5 /\ x4[w].phase \in Files!Flying /\ x5 <= x5'
      /\ x1 \in [Names -> Files!Objects \cup {None}] /\ Files!WholeFiles
  BY FilesAssumption DEF Files!FilesInv, Files!Stored, Files!Debts, Files!Objects, Files!Swap, Files!Look,
     Files!Unlink, Files!Back, Files!Flying
<1>b. /\ x4[w] \in Files!Jobs /\ x2[w] \in Files!Objects /\ n \in Names /\ DOMAIN x4 = Workers
      /\ x4[w].own \in Files!Objects /\ x4[w].todo # {} /\ Files!Old(x4[w].own) /\ x2[w] # None
      /\ \A o \in x6 : o.ino # x4[w].own.ino
  BY <1>a, FilesFlies
<1>1. CASE Files!Swap(w)
  <2>1. x4[w].phase = "swap" /\ x3' = x3 /\ x6' = x6 /\ x2[w].left = 0 /\ x2[w] \notin x6 /\ x6' \ x6 = {}
        /\ x3 \subseteq x3' /\ x6' \subseteq x6
    BY <1>1, <1>a, FilesFlies DEF Files!Swap
  <2>2. CASE /\ x1[n] = None /\ x1' = [x1 EXCEPT ![n] = x2[w]] /\ x2' = [x2 EXCEPT ![w] = None]
             /\ Files!NextEntry(w)
    <3>1. PICK r : /\ x4' = [x4 EXCEPT ![w] = r]
                   /\ r = Files!Idle \/ (r \in Files!Jobs /\ r.phase = "stage" /\ r.todo # {})
      BY <1>a, <2>2, FilesNext
    <3>2. /\ Files!Stored' /\ Files!Debts' /\ (\A d \in Workers \ {w} : x2'[d] = x2[d]) /\ x2'[w] = None
          /\ \A q \in Files!Objects : Files!Old(q) /\ Files!Gone(q) => Files!Gone(q)'
      <4> HIDE DEF n
      <4> QED
        BY <1>a, <1>b, <2>1, <2>2, FilesMove
    <3>3. Files!Fits(w, r)'
      BY <3>1, <3>2, FilesRested
    <3> QED
      BY <1>a, <2>1, <3>1, <3>2, <3>3, FilesOne
  <2>3. CASE /\ x1[n] # None /\ x1' = [x1 EXCEPT ![n] = x2[w]] /\ x2' = [x2 EXCEPT ![w] = x1[n]]
             /\ x4' = [x4 EXCEPT ![w].phase = "look"]
    <3>1. PICK r : r = [x4[w] EXCEPT !.phase = "look"]
      OBVIOUS
    <3>2. r \in Files!Jobs /\ r.phase = "look" /\ r.own = x4[w].own /\ r.todo = x4[w].todo
      BY <1>b, <3>1 DEF Files!Jobs, Files!Flying
    <3>3. x4' = [x4 EXCEPT ![w] = r]
      BY <1>b, <2>3, <3>1
    <3>4. /\ Files!Stored' /\ Files!Debts' /\ (\A d \in Workers \ {w} : x2'[d] = x2[d]) /\ x2'[w] = x1[n]
          /\ \A q \in Files!Objects : Files!Old(q) /\ Files!Gone(q) => Files!Gone(q)'
      <4> HIDE DEF n
      <4> QED
        BY <1>a, <1>b, <2>1, <2>3, FilesMove
    <3>5. x2'[w] \in Files!Objects /\ x2'[w].left = 0
      <4> HIDE DEF n
      <4> QED
        BY <1>a, <1>b, <2>3, <3>4 DEF Files!WholeFiles
    <3>6. Files!Fits(w, r)'
      <4>1. r.phase \in Files!Flying /\ r.own \in Files!Objects /\ Files!Old(r.own)' /\ \A o \in x6' : o.ino # r.own.ino
        BY <1>a, <1>b, <2>1, <3>2 DEF Files!Flying, Files!Old
      <4> QED
        BY <1>b, <3>2, <3>5, <4>1 DEF Files!Fits, Files!Old
    <3> QED
      BY <1>a, <2>1, <3>3, <3>4, <3>6, FilesOne
  <2>4. CASE x2' = [x2 EXCEPT ![w] = None] /\ Files!Finish(w) /\ x1' = x1
    <3>1. x4' = [x4 EXCEPT ![w] = Files!Idle]
      BY <2>4 DEF Files!Finish
    <3> QED
      BY <1>a, <2>1, <2>4, <3>1, FilesDrops
  <2> QED
    BY <1>1, <2>2, <2>3, <2>4 DEF Files!Swap
<1>2. CASE Files!Look(w)
  <2>1. x4[w].phase = "look" /\ x1' = x1 /\ x6' = x6
    BY <1>2 DEF Files!Look
  <2>2. {"unlink", "back"} \subseteq Files!Flying \ {"write"}
    BY DEF Files!Flying
  <2>3. CASE x2[w] = x4[w].expect[n] /\ x4' = [x4 EXCEPT ![w].phase = "unlink"] /\ x2' = x2 /\ x3' = x3
    BY <1>a, <2>1, <2>2, <2>3, FilesFliesOn
  <2>4. CASE x4' = [x4 EXCEPT ![w].phase = "back"] /\ x2' = x2 /\ x3' = x3
    BY <1>a, <2>1, <2>2, <2>4, FilesFliesOn
  <2>5. CASE x3' = x3 \cup {x2[w]} /\ x2' = [x2 EXCEPT ![w] = None] /\ Files!Finish(w)
    <3>1. x4' = [x4 EXCEPT ![w] = Files!Idle] /\ x2[w] \in x3' /\ x3 \subseteq x3' /\ x6' \subseteq x6
      BY <2>1, <2>5 DEF Files!Finish
    <3> QED
      BY <1>a, <2>1, <2>5, <3>1, FilesDrops
  <2> QED
    BY <1>2, <2>3, <2>4, <2>5 DEF Files!Look
<1>3. CASE Files!Unlink(w)
  <2>1. /\ x4[w].phase = "unlink" /\ x1' = x1 /\ x3' = x3 /\ x6' = x6 \ {x4[w].expect[n]}
        /\ x2' = [x2 EXCEPT ![w] = None] /\ Files!NextEntry(w)
    BY <1>3 DEF Files!Unlink
  <2>2. PICK r : /\ x4' = [x4 EXCEPT ![w] = r]
                 /\ r = Files!Idle \/ (r \in Files!Jobs /\ r.phase = "stage" /\ r.todo # {})
    BY <1>a, <2>1, FilesNext
  <2>3. x2[w] = x4[w].expect[n]
    BY <1>a, <2>1, FilesFlies
  <2>4. x2[w] \notin x6' /\ x6' \subseteq x6 /\ x3 \subseteq x3'
    BY <2>1, <2>3
  <2> QED
    BY <1>a, <2>1, <2>2, <2>4, FilesDrops
<1>4. CASE Files!Back(w)
  <2>1. /\ x4[w].phase = "back" /\ x6' = x6 /\ x2' = [x2 EXCEPT ![w] = None] /\ x2[w].left = 0
        /\ x4' = [x4 EXCEPT ![w] = Files!Idle] /\ x6' \ x6 = {} /\ x6' \subseteq x6
    BY <1>4, <1>a, FilesFlies DEF Files!Back, Files!Finish
  <2>2. CASE x1[n] = None
    <3>1. x1' = x1 /\ x2[w] \in x3' /\ x3 \subseteq x3'
      BY <1>4, <2>2 DEF Files!Back
    <3> QED
      BY <1>a, <2>1, <3>1, FilesDrops
  <2>3. CASE x1[n] # None
    <3>1. x1' = [x1 EXCEPT ![n] = x2[w]] /\ x3' = x3 \cup Files!Discard(w, x1[n])
      BY <1>4, <2>3 DEF Files!Back
    <3>2. x1[n] \in x3' \/ x1[n] \notin x6
      <4>1. CASE x1[n].ino = x4[w].own.ino
        BY <1>b, <4>1
      <4>2. CASE x1[n].ino # x4[w].own.ino
        BY <2>3, <3>1, <4>2 DEF Files!Discard
      <4> QED
        BY <4>1, <4>2
    <3>3. /\ Files!Stored' /\ Files!Debts' /\ (\A d \in Workers \ {w} : x2'[d] = x2[d]) /\ x2'[w] = None
          /\ \A q \in Files!Objects : Files!Old(q) /\ Files!Gone(q) => Files!Gone(q)'
      <4> HIDE DEF n
      <4>1. x3 \subseteq x3'
        BY <3>1
      <4> QED
        BY <1>a, <1>b, <2>1, <3>1, <3>2, <4>1, FilesMove
    <3>4. Files!Fits(w, Files!Idle)'
      BY <3>3, FilesRested
    <3> QED
      BY <1>a, <2>1, <3>3, <3>4, FilesOne
  <2> QED
    BY <2>2, <2>3
<1> QED
  BY <1>1, <1>2, <1>3, <1>4

LEMMA FilesLinkKept ==
    ASSUME Files!FilesInv, NEW w \in Workers, Files!LinkRename(w) \/ Files!Remove(w)
    PROVE  Files!FilesInv'
<1> DEFINE n == Files!Entry(w)
<1>a. /\ x5 \in Nat /\ None \notin x6 /\ x4[w].phase \in {"link", "remove"} /\ x2' = x2 /\ x3' = x3
      /\ \A d \in Workers \ {w} : x2'[d] = x2[d]
  BY FilesAssumption DEF Files!FilesInv, Files!Stored, Files!Debts, Files!Objects, Files!LinkRename, Files!Remove
<1>b. x2[w] = None /\ n \in Names /\ x2'[w] = None
  BY <1>a, FilesPhase
<1>c. ASSUME NEW r, x4' = [x4 EXCEPT ![w] = r],
             r = Files!Idle \/ (r \in Files!Jobs /\ r.phase = "stage" /\ r.todo # {}),
             NEW v \in Files!Objects \cup {None}, x1' = [x1 EXCEPT ![n] = v], x5' \in Nat, x5 <= x5',
             v # None => v.left = 0 /\ x5 < v.ver /\ v.ver <= x5' /\ x5 < v.ino /\ v.ino <= x5',
             x6' = x6 \ {x1[n]}
      PROVE  Files!FilesInv'
  <2>1. x6' \subseteq (x6 \ {x1[n]}) \cup {v} /\ None \notin x6' /\ x6' \ x6 = {}
    BY <1>a, <1>c
  <2>2. /\ Files!Stored' /\ Files!Debts'
        /\ \A q \in Files!Objects : Files!Old(q) /\ Files!Gone(q) => Files!Gone(q)'
    <3> HIDE DEF n
    <3> QED
      BY <1>a, <1>b, <1>c, <2>1, FilesDir
  <2>3. Files!Fits(w, r)'
    BY <1>b, <1>c, FilesRested
  <2> QED
    BY <1>a, <1>c, <2>1, <2>2, <2>3, FilesOne
<1>1. CASE Files!LinkRename(w)
  <2>1. CASE Files!Finish(w) /\ x1' = x1 /\ x6' = x6 /\ x5' = x5
    <3>1. x4' = [x4 EXCEPT ![w] = Files!Idle]
      BY <2>1 DEF Files!Finish
    <3> QED
      BY <1>a, <1>b, <2>1, <3>1, FilesResting, FilesQuiet
  <2>2. CASE ~(Files!Finish(w) /\ x1' = x1 /\ x6' = x6 /\ x5' = x5)
    <3>1. PICK v : v = Files!New(x5 + 1, 0)
      OBVIOUS
    <3>2. x5' = x5 + 1 /\ x1' = [x1 EXCEPT ![n] = v] /\ x6' = x6 \ {x1[n]} /\ Files!NextEntry(w)
      BY <1>1, <2>2, <3>1 DEF Files!LinkRename, Files!Fresh
    <3>3. v \in Files!Objects /\ v.ino = x5 + 1 /\ v.ver = x5 + 1 /\ v.left = 0
      BY <1>a, <3>1 DEF Files!New, Files!Objects
    <3>4. x4[w].phase = "link"
      BY <1>1 DEF Files!LinkRename
    <3>5. PICK r : /\ x4' = [x4 EXCEPT ![w] = r]
                   /\ r = Files!Idle \/ (r \in Files!Jobs /\ r.phase = "stage" /\ r.todo # {})
      BY <3>2, <3>4, FilesNext
    <3>6. x5' \in Nat /\ x5 <= x5' /\ x5 < v.ver /\ v.ver <= x5' /\ x5 < v.ino /\ v.ino <= x5'
      BY <1>a, <3>2, <3>3
    <3> HIDE DEF n
    <3> QED
      BY <1>c, <3>2, <3>3, <3>5, <3>6
  <2> QED
    BY <2>1, <2>2
<1>2. CASE Files!Remove(w)
  <2>1. /\ x1' = [x1 EXCEPT ![n] = None] /\ x6' = x6 \ {x1[n]} /\ x4' = [x4 EXCEPT ![w] = Files!Idle]
        /\ x5' \in Nat /\ x5 <= x5'
    BY <1>2, <1>a DEF Files!Remove, Files!Finish
  <2> HIDE DEF n
  <2>2. None \in Files!Objects \cup {None}
    OBVIOUS
  <2> QED
    BY <1>c, <2>1, <2>2
<1> QED
  BY <1>1, <1>2

LEMMA FilesStepKept == Files!FilesInv /\ Files!Next => Files!FilesInv'
<1> SUFFICES ASSUME Files!FilesInv, Files!Next PROVE Files!FilesInv'
  OBVIOUS
<1>1. CASE Files!Crash
  <2>1. /\ x3' = x3 \cup ({x2[w] : w \in Workers} \ {None}) /\ x2' = [w \in Workers |-> None]
        /\ x4' = [w \in Workers |-> Files!Idle] /\ x1' = x1 /\ x5' = x5 /\ x6' = x6
    BY <1>1 DEF Files!Crash
  <2>2. Files!Stored'
    BY <2>1 DEF Files!FilesInv, Files!Stored, Files!WholeFiles, Files!Apart, Files!Old
  <2>3. Files!Debts'
    <3>1. x6 \subseteq {x1[m] : m \in Names} \cup {x2[w] : w \in Workers} \cup x3 /\ None \notin x6
      BY FilesAssumption DEF Files!FilesInv, Files!Debts, Files!NothingLost, Files!Objects
    <3>2. x6' \subseteq {x1'[m] : m \in Names} \cup {x2'[w] : w \in Workers} \cup x3'
      BY <2>1, <3>1
    <3> QED
      BY <2>1, <3>2 DEF Files!FilesInv, Files!Debts, Files!NothingLost, Files!Old
  <2>4. ASSUME NEW w \in Workers PROVE Files!Fits(w, x4[w])'
    <3>1. x2'[w] = None /\ x4'[w] = Files!Idle
      BY <2>1
    <3>2. Files!Fits(w, Files!Idle)'
      BY <3>1, FilesRested
    <3> QED
      BY <3>1, <3>2
  <2> QED
    BY <2>1, <2>2, <2>3, <2>4 DEF Files!FilesInv
<1> QED
  BY <1>1, FilesBeginKept, FilesDownloadKept, FilesAroundKept, FilesStageKept, FilesSwapKept, FilesLinkKept
     DEF Files!Next, Files!Session

LEMMA FilesAtWork ==
    ASSUME live' = "files", [AllNext]_all
    PROVE  live = "files" /\ [Files!Next]_(Files!vars)
BY DEF AllNext, all, Files!vars, BusStep, FilesStep, DnsStep, ServiceStep, PanelStep, SpeedStep, TrafficStep,
       HistoryStep, StateStep, Keep0, Keep5, Keep6, Keep8, Keep9, Keep11, Keep13

\* For any names, any sessions and any programs that write beside them, edits
\* at any moment and crashes: no upload and no file of an archive destroys what
\* another program wrote (transfer.rs, Staged::publish), no name holds part of
\* a file, and a download is of one version (Session::download_chunk).
THEOREM FilesSafeHolds == AllSpec => []FilesSafe
<1> DEFINE Inv == live = "files" => Files!FilesInv
<1>1. AllInit => Inv
  <2> SUFFICES ASSUME Files!Init PROVE Files!FilesInv
    BY DEF AllInit
  <2>1. /\ x1 = [n \in Names |-> None] /\ x2 = [w \in Workers |-> None]
        /\ x4 = [w \in Workers |-> Files!Idle] /\ x5 = 0 /\ x6 = {}
    BY DEF Files!Init
  <2>2. Files!Stored /\ Files!Debts
    BY <2>1 DEF Files!Stored, Files!WholeFiles, Files!Apart, Files!Debts, Files!NothingLost
  <2>3. ASSUME NEW w \in Workers PROVE Files!Fits(w, x4[w])
    BY <2>1, FilesResting
  <2> QED
    BY <2>1, <2>2, <2>3 DEF Files!FilesInv
<1>2. Inv /\ [AllNext]_all => Inv'
  <2> SUFFICES ASSUME Inv, [AllNext]_all, live' = "files" PROVE Files!FilesInv'
    OBVIOUS
  <2>1. live = "files" /\ (Files!Next \/ UNCHANGED Files!vars)
    BY FilesAtWork
  <2>2. CASE UNCHANGED Files!vars
    <3>1. x1' = x1 /\ x2' = x2 /\ x3' = x3 /\ x4' = x4 /\ x5' = x5 /\ x6' = x6
      BY <2>2 DEF Files!vars
    <3> QED
      BY <2>1, <3>1 DEF Files!FilesInv, Files!Stored, Files!WholeFiles, Files!Apart, Files!Debts,
         Files!NothingLost, Files!Fits, Files!Old, Files!Gone
  <2> QED
    BY <2>1, <2>2, FilesStepKept
<1>3. Inv => FilesSafe
  <2> SUFFICES ASSUME Files!FilesInv PROVE Files!NothingLost /\ Files!WholeFiles /\ Files!OneVersion
    BY DEF FilesSafe
  <2>1. Files!NothingLost /\ Files!WholeFiles
    BY DEF Files!FilesInv, Files!Debts, Files!Stored
  <2>2. Files!OneVersion
    BY DEF Files!FilesInv, Files!Fits, Files!OneVersion, Files!Reading
  <2> QED
    BY <2>1, <2>2
<1> QED
  BY <1>1, <1>2, <1>3, PTL DEF AllSpec

-----------------------------------------------------------------------------
(***************************************************************************)
(* Sums that are written with a function: what they do when one number     *)
(* changes, or all get less, follows from their partial sums.              *)
(***************************************************************************)

LEMMA LeastNatural ==
    ASSUME NEW T, T \subseteq Nat, T # {}
    PROVE  \E x \in T : \A y \in T : x <= y
<1> DEFINE R == OpToRel(<, Nat)
<1>1. IsWellFoundedOn(R, Nat)
  BY NatLessThanWellFounded, Zenon
<1>2. \A a, b \in Nat : a < b => <<a, b>> \in R
  BY DEF OpToRel
<1> HIDE DEF R
<1>3. PICK x \in T : \A y \in T : ~(<<y, x>> \in R)
  BY WFMin, <1>1, Zenon
<1>4. \A y \in T : ~(y < x)
  BY <1>2, <1>3
<1> QED
  BY <1>4

\* A sum exists: the partial sums can be written down.
LEMMA PartialSums ==
    ASSUME NEW N \in Nat, NEW f \in [1..N -> Nat]
    PROVE  \E g \in [0..N -> Nat] : g[0] = 0 /\ \A n \in 1..N : g[n] = g[n - 1] + f[n]
<1> DEFINE T == {m \in 0..N : ~\E g \in [0..m -> Nat] : g[0] = 0 /\ \A n \in 1..m : g[n] = g[n - 1] + f[n]}
<1>1. CASE T = {}
  <2>1. N \in 0..N OBVIOUS
  <2> QED BY <1>1, <2>1
<1>2. CASE T # {}
  <2>1. PICK m \in T : \A k \in T : m <= k
    <3>1. T \subseteq Nat OBVIOUS
    <3> HIDE DEF T
    <3> QED BY <1>2, <3>1, LeastNatural
  <2>2. m \in 0..N /\ ~\E g \in [0..m -> Nat] : g[0] = 0 /\ \A n \in 1..m : g[n] = g[n - 1] + f[n] OBVIOUS
  <2>3. m # 0
    <3> SUFFICES ASSUME m = 0 PROVE FALSE OBVIOUS
    <3> DEFINE g == [n \in 0..0 |-> 0]
    <3>1. g \in [0..m -> Nat] /\ g[0] = 0 /\ \A n \in 1..m : g[n] = g[n - 1] + f[n] OBVIOUS
    <3> QED BY <2>2, <3>1
  <2>4. m - 1 \in 0..N /\ m - 1 \notin T
    <3>1. m - 1 \in 0..N /\ ~(m <= m - 1) BY <2>2, <2>3
    <3> HIDE DEF T
    <3> QED BY <2>1, <3>1
  <2>5. PICK g \in [0..m - 1 -> Nat] : g[0] = 0 /\ \A n \in 1..m - 1 : g[n] = g[n - 1] + f[n] BY <2>4
  <2> DEFINE h == [n \in 0..m |-> IF n = m THEN g[m - 1] + f[m] ELSE g[n]]
  <2>6. h \in [0..m -> Nat] BY <2>2, <2>3, <2>5
  <2>7. h[0] = 0 BY <2>2, <2>3, <2>5
  <2>8. ASSUME NEW n \in 1..m PROVE h[n] = h[n - 1] + f[n]
    <3>1. n - 1 \in 0..m /\ n \in 0..m /\ n - 1 # m BY <2>2
    <3>2. h[n - 1] = g[n - 1] BY <3>1
    <3>3. CASE n = m BY <3>1, <3>2, <3>3
    <3>4. CASE n # m
      <4>1. n \in 1..m - 1 BY <2>2, <3>4
      <4> QED BY <2>5, <3>1, <3>2, <3>4, <4>1
    <3> QED BY <3>3, <3>4
  <2> HIDE DEF h
  <2> QED BY <2>2, <2>6, <2>7, <2>8
<1> QED BY <1>1, <1>2

LEMMA OneLess == ASSUME NEW j \in Nat, NEW m \in Nat, m # j PROVE j \in 1..(m - 1) <=> j \in 1..m
OBVIOUS

\* Two sequences of partial sums.
LEMMA SumsAgree ==
    ASSUME NEW N \in Nat, NEW d \in Int, NEW j \in 1..N,
           NEW f \in [1..N -> Nat], NEW f2 \in [1..N -> Nat], f2[j] = f[j] + d, \A n \in 1..N : n # j => f2[n] = f[n],
           NEW g \in [0..N -> Nat], g[0] = 0, \A n \in 1..N : g[n] = g[n - 1] + f[n],
           NEW g2 \in [0..N -> Nat], g2[0] = 0, \A n \in 1..N : g2[n] = g2[n - 1] + f2[n]
    PROVE  g2[N] = g[N] + d
<1>0. SUFFICES \A n \in 0..N : g2[n] = IF j \in 1..n THEN g[n] + d ELSE g[n]
  <2>1. N \in 0..N /\ j \in 1..N OBVIOUS
  <2> QED BY <1>0, <2>1
<1> DEFINE T == {m \in 0..N : g2[m] # IF j \in 1..m THEN g[m] + d ELSE g[m]}
<1>1. SUFFICES ASSUME T # {} PROVE FALSE OBVIOUS
<1>2. PICK m \in T : \A k \in T : m <= k
  <2>1. T \subseteq Nat OBVIOUS
  <2> HIDE DEF T
  <2> QED BY <1>1, <2>1, LeastNatural
<1>3. m \in 0..N /\ g2[m] # IF j \in 1..m THEN g[m] + d ELSE g[m] OBVIOUS
<1>4. m # 0 BY <1>3
<1>5. m - 1 \in 0..N /\ m - 1 \notin T
  <2>1. m - 1 \in 0..N /\ ~(m <= m - 1) BY <1>3, <1>4
  <2> HIDE DEF T
  <2> QED BY <1>2, <2>1
<1>6. g2[m - 1] = IF j \in 1..(m - 1) THEN g[m - 1] + d ELSE g[m - 1]
  <2>1. \A k \in 0..N : k \notin T => g2[k] = IF j \in 1..k THEN g[k] + d ELSE g[k] OBVIOUS
  <2> HIDE DEF T
  <2> QED BY <1>5, <2>1
<1>12. m \in 1..N BY <1>3, <1>4
<1>7. m \in 1..N /\ g2[m] = g2[m - 1] + f2[m] /\ g[m] = g[m - 1] + f[m] BY <1>12
<1>8. f2[m] = IF m = j THEN f[m] + d ELSE f[m] BY <1>7
<1>9. g[m - 1] \in Nat /\ g2[m - 1] \in Nat /\ f[m] \in Nat /\ g[m] \in Nat /\ g2[m] \in Nat BY <1>3, <1>5, <1>7
<1> HIDE DEF T
<1>13. j \in Nat /\ m \in Nat BY <1>3
<1>10. CASE m = j
  <2>1. ~(j \in 1..(m - 1)) /\ j \in 1..m BY <1>7, <1>10, <1>13
  <2>2. g2[m - 1] = g[m - 1] BY <1>6, <2>1
  <2>3. g2[m] # g[m] + d BY <1>3, <2>1
  <2> QED BY <1>7, <1>8, <1>9, <1>10, <2>2, <2>3
<1>11. CASE m # j
  <2>1. j \in 1..(m - 1) <=> j \in 1..m BY <1>11, <1>13, OneLess
  <2>2. f2[m] = f[m] BY <1>8, <1>11
  <2>3. CASE j \in 1..m
    <3>1. g2[m - 1] = g[m - 1] + d /\ g2[m] # g[m] + d BY <1>3, <1>6, <2>1, <2>3
    <3> QED BY <1>7, <1>9, <2>2, <3>1
  <2>4. CASE ~(j \in 1..m)
    <3>1. g2[m - 1] = g[m - 1] /\ g2[m] # g[m] BY <1>3, <1>6, <2>1, <2>4
    <3> QED BY <1>7, <1>9, <2>2, <3>1
  <2> QED BY <2>3, <2>4
<1> QED BY <1>10, <1>11

LEMMA SumsOrder ==
    ASSUME NEW N \in Nat, NEW f \in [1..N -> Nat], NEW f2 \in [1..N -> Nat], \A n \in 1..N : f2[n] <= f[n],
           NEW g \in [0..N -> Nat], g[0] = 0, \A n \in 1..N : g[n] = g[n - 1] + f[n],
           NEW g2 \in [0..N -> Nat], g2[0] = 0, \A n \in 1..N : g2[n] = g2[n - 1] + f2[n]
    PROVE  \A n \in 0..N : g2[n] <= g[n]
<1> DEFINE T == {m \in 0..N : ~(g2[m] <= g[m])}
<1>1. SUFFICES ASSUME T # {} PROVE FALSE OBVIOUS
<1>2. PICK m \in T : \A k \in T : m <= k
  <2>1. T \subseteq Nat OBVIOUS
  <2> HIDE DEF T
  <2> QED BY <1>1, <2>1, LeastNatural
<1>3. m \in 0..N /\ ~(g2[m] <= g[m]) OBVIOUS
<1>4. m # 0 BY <1>3
<1>5. m - 1 \in 0..N /\ m - 1 \notin T
  <2>1. m - 1 \in 0..N /\ ~(m <= m - 1) BY <1>3, <1>4
  <2> HIDE DEF T
  <2> QED BY <1>2, <2>1
<1>6. g2[m - 1] <= g[m - 1] BY <1>5
<1>9. m \in 1..N BY <1>3, <1>4
<1>7. m \in 1..N /\ g2[m] = g2[m - 1] + f2[m] /\ g[m] = g[m - 1] + f[m] /\ f2[m] <= f[m] BY <1>9
<1>8. g[m - 1] \in Nat /\ g2[m - 1] \in Nat /\ f[m] \in Nat /\ f2[m] \in Nat BY <1>5, <1>7
<1> QED BY <1>3, <1>6, <1>7, <1>8

\* A sum that is written with a function is the last of the partial sums.
LEMMA LastPartialSum ==
    ASSUME NEW N \in Nat, NEW f \in [1..N -> Nat], NEW u, u[0] = 0, \A n \in 1..N : u[n] = u[n - 1] + f[n]
    PROVE  \A n \in 0..N : u[n] \in Nat
<1> DEFINE T == {m \in 0..N : u[m] \notin Nat}
<1>1. SUFFICES ASSUME T # {} PROVE FALSE OBVIOUS
<1>2. PICK m \in T : \A k \in T : m <= k
  <2>1. T \subseteq Nat OBVIOUS
  <2> HIDE DEF T
  <2> QED BY <1>1, <2>1, LeastNatural
<1>3. m \in 0..N /\ u[m] \notin Nat OBVIOUS
<1>4. m # 0 BY <1>3
<1>5. m - 1 \in 0..N /\ m \in 1..N /\ m - 1 \notin T
  <2>1. m - 1 \in 0..N /\ m \in 1..N /\ ~(m <= m - 1) BY <1>3, <1>4
  <2> HIDE DEF T
  <2> QED BY <1>2, <2>1
<1>6. u[m - 1] \in Nat /\ f[m] \in Nat BY <1>5
<1> QED BY <1>3, <1>5, <1>6

-----------------------------------------------------------------------------
(***************************************************************************)
(* MeshService: the budget of a session is what its requests hold together.*)
(***************************************************************************)

\* The sum is the last partial sum.
LEMMA MeshSum ==
    ASSUME NEW f \in [Service!Jobs -> Nat]
    PROVE  \E g \in [0..MaxJobs -> Nat] : g[0] = 0 /\ (\A n \in 1..MaxJobs : g[n] = g[n - 1] + f[n]) /\ Service!Sum(f) = g[MaxJobs]
<1> DEFINE Is(g) == g = [n \in 0..MaxJobs |-> IF n = 0 THEN 0 ELSE g[n - 1] + f[n]]
           u == CHOOSE g : Is(g)
<1>1. Service!Sum(f) = u[MaxJobs] BY Zenon DEF Service!Sum
<1>2. PICK g \in [0..MaxJobs -> Nat] : g[0] = 0 /\ \A n \in 1..MaxJobs : g[n] = g[n - 1] + f[n]
  BY PartialSums, MeshAssumption DEF Service!Jobs
<1>3. g = [n \in 0..MaxJobs |-> IF n = 0 THEN 0 ELSE g[n - 1] + f[n]]
  <2>1. \A n \in 0..MaxJobs : n # 0 => n \in 1..MaxJobs BY MeshAssumption
  <2>2. \A n \in 0..MaxJobs : g[n] = IF n = 0 THEN 0 ELSE g[n - 1] + f[n] BY <1>2, <2>1
  <2> QED BY <1>2, <2>2
<1>4. Is(u) BY <1>3, Zenon
<1>5. u = [n \in 0..MaxJobs |-> IF n = 0 THEN 0 ELSE u[n - 1] + f[n]] BY <1>4
<1> HIDE DEF u, Is
<1>6. u[0] = 0 /\ \A n \in 1..MaxJobs : u[n] = u[n - 1] + f[n]
  <2>1. 0 \in 0..MaxJobs /\ \A n \in 1..MaxJobs : n \in 0..MaxJobs /\ n # 0 BY MeshAssumption
  <2> QED BY <1>5, <2>1
<1>7. \A n \in 0..MaxJobs : u[n] \in Nat
  <2>1. PICK w : w = u OBVIOUS
  <2>2. w[0] = 0 /\ (\A n \in 1..MaxJobs : w[n] = w[n - 1] + f[n]) /\ f \in [1..MaxJobs -> Nat] BY <1>6, <2>1 DEF Service!Jobs
  <2> QED BY <2>1, <2>2, MeshAssumption, LastPartialSum
<1>8. u \in [0..MaxJobs -> Nat] BY <1>5, <1>7
<1> QED BY <1>1, <1>6, <1>8

\* One number changes, and the sum by as much.
LEMMA MeshSumChanges ==
    ASSUME NEW f \in [Service!Jobs -> Nat], NEW f2 \in [Service!Jobs -> Nat], NEW j \in Service!Jobs, \A n \in Service!Jobs : n # j => f2[n] = f[n]
    PROVE  Service!Sum(f) \in Nat /\ Service!Sum(f2) \in Nat /\ Service!Sum(f2) = Service!Sum(f) + (f2[j] - f[j])
<1>1. PICK g \in [0..MaxJobs -> Nat] : g[0] = 0 /\ (\A n \in 1..MaxJobs : g[n] = g[n - 1] + f[n]) /\ Service!Sum(f) = g[MaxJobs] BY MeshSum
<1>2. PICK g2 \in [0..MaxJobs -> Nat] : g2[0] = 0 /\ (\A n \in 1..MaxJobs : g2[n] = g2[n - 1] + f2[n]) /\ Service!Sum(f2) = g2[MaxJobs] BY MeshSum
<1>3. f[j] \in Nat /\ f2[j] \in Nat OBVIOUS
<1>4. PICK d \in Int : d = f2[j] - f[j] /\ f2[j] = f[j] + d BY <1>3
<1>5. MaxJobs \in Nat /\ Service!Jobs = 1..MaxJobs /\ MaxJobs \in 0..MaxJobs /\ j \in 1..MaxJobs BY MeshAssumption DEF Service!Jobs
<1>6. f \in [1..MaxJobs -> Nat] /\ f2 \in [1..MaxJobs -> Nat] /\ (\A n \in 1..MaxJobs : n # j => f2[n] = f[n]) BY <1>5
<1>7. g2[MaxJobs] = g[MaxJobs] + d BY <1>1, <1>2, <1>4, <1>5, <1>6, SumsAgree
<1> QED BY <1>1, <1>2, <1>4, <1>5, <1>7

LEMMA MeshSumOrder ==
    ASSUME NEW f \in [Service!Jobs -> Nat], NEW f2 \in [Service!Jobs -> Nat], \A n \in Service!Jobs : f2[n] <= f[n]
    PROVE  Service!Sum(f2) <= Service!Sum(f)
<1>1. PICK g \in [0..MaxJobs -> Nat] : g[0] = 0 /\ (\A n \in 1..MaxJobs : g[n] = g[n - 1] + f[n]) /\ Service!Sum(f) = g[MaxJobs] BY MeshSum
<1>2. PICK g2 \in [0..MaxJobs -> Nat] : g2[0] = 0 /\ (\A n \in 1..MaxJobs : g2[n] = g2[n - 1] + f2[n]) /\ Service!Sum(f2) = g2[MaxJobs] BY MeshSum
<1>3. MaxJobs \in Nat /\ Service!Jobs = 1..MaxJobs /\ MaxJobs \in 0..MaxJobs BY MeshAssumption DEF Service!Jobs
<1>4. \A n \in 0..MaxJobs : g2[n] <= g[n] BY <1>1, <1>2, <1>3, SumsOrder
<1> QED BY <1>1, <1>2, <1>3, <1>4

LEMMA MeshNothing == Service!Sum([j \in Service!Jobs |-> 0]) = 0
<1> DEFINE f == [j \in Service!Jobs |-> 0]
<1>1. f \in [Service!Jobs -> Nat] OBVIOUS
<1>2. PICK g \in [0..MaxJobs -> Nat] : g[0] = 0 /\ (\A n \in 1..MaxJobs : g[n] = g[n - 1] + f[n]) /\ Service!Sum(f) = g[MaxJobs]
  <2> HIDE DEF f
  <2> QED BY <1>1, MeshSum
<1> DEFINE z == [n \in 0..MaxJobs |-> 0]
<1>3. z \in [0..MaxJobs -> Nat] /\ z[0] = 0 /\ (\A n \in 1..MaxJobs : z[n] = z[n - 1] + f[n]) BY MeshAssumption DEF Service!Jobs
<1>4. MaxJobs \in Nat /\ Service!Jobs = 1..MaxJobs /\ MaxJobs \in 0..MaxJobs /\ z[MaxJobs] = 0 BY MeshAssumption DEF Service!Jobs
<1> HIDE DEF z, f
<1>5. \A n \in Service!Jobs : f[n] <= f[n]  BY <1>1
<1>6. \A n \in 0..MaxJobs : g[n] <= z[n] BY <1>1, <1>2, <1>3, <1>4, <1>5, SumsOrder
<1>7. g[MaxJobs] <= 0 /\ g[MaxJobs] \in Nat BY <1>2, <1>4, <1>6
<1> QED BY <1>2, <1>7 DEF f

\* One request changes.
LEMMA MeshJob ==
    ASSUME Service!MeshInv, NEW j \in Service!Jobs, x2' \in [Service!Jobs -> Service!JobShapes], \A k \in Service!Jobs : k # j => x2'[k] = x2[k],
           x2'[j].step # "none", x2'[j].queue <= x2'[j].held, x2'[j].acked <= x2'[j].sent, x2'[j].sent <= x2'[j].acked + MeshWindow + 1,
           NEW d \in Int, x2'[j].held = x2[j].held + d, x3' = x3 + d, x3' <= MaxBuffered,
           x2[j].step # "none" \/ (\A k \in Service!Jobs : k < j <=> x2[k].step # "none"),
           x1' \in [MeshIds -> [job: 0..MaxJobs, received: Nat, expected: Nat]], x4' \in Nat, x5' \in Nat,
           \A i \in MeshIds : x1'[i].job \in {0, x1[i].job, j}
    PROVE  Service!MeshInv'
<1>1. x2 \in [Service!Jobs -> Service!JobShapes] /\ x3 \in Nat /\ x3 = Service!Held BY DEF Service!MeshInv, Service!Shapes
<1> DEFINE f == [k \in Service!Jobs |-> x2[k].held]
           f2 == [k \in Service!Jobs |-> x2'[k].held]
<1>2. f \in [Service!Jobs -> Nat] /\ f2 \in [Service!Jobs -> Nat] BY <1>1 DEF Service!JobShapes
<1>3. (\A k \in Service!Jobs : k # j => f2[k] = f[k]) /\ f2[j] = x2'[j].held /\ f[j] = x2[j].held OBVIOUS
<1>4. Service!Held = Service!Sum(f) /\ Service!Held' = Service!Sum(f2) BY DEF Service!Held
<1> HIDE DEF f, f2
<1>5. Service!Sum(f) \in Nat /\ Service!Sum(f2) \in Nat /\ Service!Sum(f2) = Service!Sum(f) + (f2[j] - f[j]) BY <1>2, <1>3, MeshSumChanges
<1>6. x3' \in Nat /\ x3' = Service!Held'
  <2>1. f2[j] - f[j] = d
    <3>1. f[j] \in Nat /\ f2[j] \in Nat BY <1>2
    <3> QED BY <1>3, <3>1
  <2> QED BY <1>1, <1>4, <1>5, <2>1
<1>7. Service!Shapes' BY <1>6 DEF Service!Shapes
<1>8. Service!Shares' BY DEF Service!MeshInv, Service!Shares
<1>9. Service!Order'
  <2>1. PICK n \in 0..MaxJobs : \A k \in Service!Jobs : IF k <= n THEN x2[k].step # "none" ELSE x2[k] = Service!NoJob BY DEF Service!MeshInv, Service!Order
  <2>4. \A i \in MeshIds : x1'[i].job # 0 => x2'[x1'[i].job].step # "none"
    <3>1. \A i \in MeshIds : x1[i].job # 0 => x1[i].job \in Service!Jobs BY MeshAssumption DEF Service!MeshInv, Service!Shapes, Service!Jobs
    <3>2. \A i \in MeshIds : x1[i].job # 0 => x2[x1[i].job].step # "none" BY DEF Service!MeshInv, Service!Order
    <3> QED BY <3>1, <3>2
  <2>2. CASE x2[j].step # "none"
    <3>1. j <= n BY <2>1, <2>2 DEF Service!NoJob
    <3>2. \A k \in Service!Jobs : IF k <= n THEN x2'[k].step # "none" ELSE x2'[k] = Service!NoJob BY <2>1, <3>1
    <3> QED BY <2>4, <3>2 DEF Service!Order
  <2>3. CASE \A k \in Service!Jobs : k < j <=> x2[k].step # "none"
    <3>1. j \in 0..MaxJobs /\ j \in Nat BY MeshAssumption DEF Service!Jobs
    <3>2. \A k \in Service!Jobs : k \in Nat BY DEF Service!Jobs
    <3>3. \A k \in Service!Jobs : k > j => x2[k] = Service!NoJob
      <4>1. SUFFICES ASSUME NEW k \in Service!Jobs, k > j PROVE x2[k] = Service!NoJob OBVIOUS
      <4>2. x2[k].step = "none" BY <2>3, <3>1, <3>2, <4>1
      <4> QED BY <2>1, <4>2
    <3>4. \A k \in Service!Jobs : k <= j => x2'[k].step # "none" BY <2>3, <3>1, <3>2
    <3>5. \A k \in Service!Jobs : IF k <= j THEN x2'[k].step # "none" ELSE x2'[k] = Service!NoJob BY <3>1, <3>2, <3>3, <3>4
    <3> QED BY <2>4, <3>1, <3>5 DEF Service!Order
  <2> QED BY <2>2, <2>3
<1> QED BY <1>6, <1>7, <1>8, <1>9 DEF Service!MeshInv

\* No request changes.
LEMMA MeshStill ==
    ASSUME Service!MeshInv, UNCHANGED <<x2, x3>>, x4' \in Nat, x5' \in Nat,
           x1' \in [MeshIds -> [job: 0..MaxJobs, received: Nat, expected: Nat]],
           \A i \in MeshIds : x1'[i].job \in {0, x1[i].job}
    PROVE  Service!MeshInv'
<1>1. Service!Shapes' BY DEF Service!MeshInv, Service!Shapes
<1>2. Service!Order' BY DEF Service!MeshInv, Service!Order
<1>3. Service!Shares' BY DEF Service!MeshInv, Service!Shares
<1>4. Service!Held' = Service!Held BY DEF Service!Held
<1> QED BY <1>1, <1>2, <1>3, <1>4 DEF Service!MeshInv

LEMMA MeshKept ==
    ASSUME Service!MeshInv
    PROVE  /\ Service!Kept \in [MeshIds -> [job: 0..MaxJobs, received: Nat, expected: Nat]]
           /\ Service!NoFlight \in [job: 0..MaxJobs, received: Nat, expected: Nat] /\ Service!NoFlight.job = 0
           /\ \A i \in MeshIds : Service!Kept[i].job \in {0, x1[i].job}
           /\ \A i \in Service!InFlight : i \in MeshIds /\ Service!Kept[i].job \in Service!Jobs /\ x2[Service!Kept[i].job].step # "none"
<1>1. Service!NoFlight \in [job: 0..MaxJobs, received: Nat, expected: Nat] /\ Service!NoFlight.job = 0 BY MeshAssumption DEF Service!NoFlight
<1>2. x1 \in [MeshIds -> [job: 0..MaxJobs, received: Nat, expected: Nat]] BY DEF Service!MeshInv, Service!Shapes
<1>3. Service!Kept \in [MeshIds -> [job: 0..MaxJobs, received: Nat, expected: Nat]] BY <1>1, <1>2 DEF Service!Kept
<1>4. \A i \in MeshIds : Service!Kept[i] \in {Service!NoFlight, x1[i]} BY DEF Service!Kept
<1>5. \A i \in MeshIds : Service!Kept[i].job \in {0, x1[i].job} BY <1>1, <1>4
<1>6. ASSUME NEW i \in Service!InFlight PROVE i \in MeshIds /\ Service!Kept[i].job \in Service!Jobs /\ x2[Service!Kept[i].job].step # "none"
  <2>1. i \in MeshIds /\ Service!Kept[i].job # 0 BY DEF Service!InFlight
  <2>2. Service!Kept[i].job = x1[i].job /\ x1[i].job # 0 BY <1>5, <2>1
  <2>3. x1[i].job \in Service!Jobs BY <1>2, <2>1, <2>2, MeshAssumption DEF Service!Jobs
  <2> QED BY <2>1, <2>2, <2>3 DEF Service!MeshInv, Service!Order
<1> QED BY <1>1, <1>3, <1>5, <1>6

\* A request that is at work: what its task may do with it.
LEMMA MeshTask ==
    ASSUME Service!MeshInv, NEW j \in Service!Jobs, NEW v \in Service!JobShapes, x2' = [x2 EXCEPT ![j] = v], x2[j].step # "none", v.step # "none",
           v.queue <= v.held, v.acked <= v.sent, v.sent <= v.acked + MeshWindow + 1,
           NEW d \in Int, v.held = x2[j].held + d, x3' = x3 + d, x3' <= MaxBuffered,
           x1' \in [MeshIds -> [job: 0..MaxJobs, received: Nat, expected: Nat]], x4' \in Nat, x5' \in Nat,
           \A i \in MeshIds : x1'[i].job \in {0, x1[i].job}
    PROVE  Service!MeshInv'
<1>1. x2 \in [Service!Jobs -> Service!JobShapes] BY DEF Service!MeshInv, Service!Shapes
<1>2. x2' \in [Service!Jobs -> Service!JobShapes] /\ x2'[j] = v /\ (\A k \in Service!Jobs : k # j => x2'[k] = x2[k]) BY <1>1
<1> QED BY <1>2, MeshJob

\* The numbers of a request.
LEMMA MeshNumbers ==
    ASSUME Service!MeshInv, NEW j \in Service!Jobs
    PROVE  /\ x2 \in [Service!Jobs -> Service!JobShapes] /\ x2[j] \in Service!JobShapes /\ x2[j].held \in Nat /\ x2[j].queue \in Nat /\ x2[j].sent \in Nat /\ x2[j].acked \in Nat
           /\ x2[j].queue <= x2[j].held /\ x2[j].acked <= x2[j].sent /\ x2[j].sent <= x2[j].acked + MeshWindow + 1
           /\ x3 \in Nat /\ x3 <= MaxBuffered /\ MaxBuffered \in Nat /\ x4 \in Nat /\ x5 \in Nat /\ MeshWindow \in Nat
           /\ x1 \in [MeshIds -> [job: 0..MaxJobs, received: Nat, expected: Nat]]
BY MeshAssumption DEF Service!MeshInv, Service!Shapes, Service!Shares, Service!JobShapes

LEMMA MeshRefuse == ASSUME Service!MeshInv, Service!Refuse PROVE Service!MeshInv'
<1>1. x1' = Service!Kept /\ x4' \in {x4, x4 + 1} /\ x5' = x5 + 1 /\ UNCHANGED <<x2, x3>> BY DEF Service!Refuse, Service!Sends, Service!Reply
<1>2. x4 \in Nat /\ x5 \in Nat BY DEF Service!MeshInv, Service!Shapes
<1> QED BY <1>1, <1>2, MeshKept, MeshStill

LEMMA MeshDrain == ASSUME Service!MeshInv, Service!Drain PROVE Service!MeshInv'
<1>1. x1' = x1 /\ x4' = x4 - 1 /\ x4 > 0 /\ x5' = x5 /\ UNCHANGED <<x2, x3>> BY DEF Service!Drain
<1>2. x4 \in Nat /\ x5 \in Nat /\ x1 \in [MeshIds -> [job: 0..MaxJobs, received: Nat, expected: Nat]] BY DEF Service!MeshInv, Service!Shapes
<1>3. x4' \in Nat BY <1>1, <1>2
<1> QED BY <1>1, <1>2, <1>3, MeshStill

LEMMA MeshSame == ASSUME Service!MeshInv, UNCHANGED Service!vars PROVE Service!MeshInv'
<1>1. x4 \in Nat /\ x5 \in Nat /\ x1 \in [MeshIds -> [job: 0..MaxJobs, received: Nat, expected: Nat]] BY DEF Service!MeshInv, Service!Shapes
<1> QED BY <1>1, MeshStill DEF Service!vars

LEMMA MeshOpen ==
    ASSUME Service!MeshInv, NEW i \in MeshIds, NEW body \in Nat, NEW first \in Nat, Service!Open(i, body, first)
    PROVE  Service!MeshInv'
<1> DEFINE n == Service!Opened + 1
           o == first < body
           v == [Service!NoJob EXCEPT !.step = "connect", !.held = first, !.queue = first, !.open = o]
           f == [job |-> n, received |-> first, expected |-> body]
<1>1. /\ x5' = x5 + 1 /\ x4' = x4 /\ x3 + first <= MaxBuffered /\ Service!Opened < MaxJobs /\ x3' = x3 + first
      /\ x1' = [Service!Kept EXCEPT ![i] = f] /\ x2' = [x2 EXCEPT ![n] = v]
    BY DEF Service!Open, Service!Sends
<1>2. PICK m \in 0..MaxJobs : \A j \in Service!Jobs : IF j <= m THEN x2[j].step # "none" ELSE x2[j] = Service!NoJob BY DEF Service!MeshInv, Service!Order
<1>3. Service!Opened = m
  <2>1. {j \in Service!Jobs : x2[j].step # "none"} = 1..m BY <1>2, MeshAssumption DEF Service!Jobs, Service!NoJob
  <2>2. m \in Nat /\ 0 \in Int /\ m \in Int /\ 1 \in Int BY <1>2, MeshAssumption
  <2>3. Cardinality(1..m) = m BY <2>2, FS_Interval
  <2>4. Service!Cardinality(1..m) = Cardinality(1..m) BY Zenon DEF Service!Cardinality, Cardinality
  <2> QED BY <2>1, <2>3, <2>4 DEF Service!Opened
<1>4. n \in Service!Jobs /\ n = m + 1 /\ n \in 0..MaxJobs BY <1>1, <1>2, <1>3, MeshAssumption DEF Service!Jobs
<1>5. x2[n] = Service!NoJob /\ (\A k \in Service!Jobs : k < n <=> x2[k].step # "none") BY <1>2, <1>4 DEF Service!Jobs, Service!NoJob
<1>8. o \in BOOLEAN OBVIOUS
<1> HIDE DEF o
<1>7. Service!NoJob \in Service!JobShapes
  <2>1. FALSE \in BOOLEAN /\ 0 \in Nat OBVIOUS
  <2> QED BY <2>1 DEF Service!JobShapes, Service!NoJob
<1>9. v \in Service!JobShapes BY <1>7, <1>8 DEF Service!JobShapes
<1>19. Service!NoJob.sent = 0 /\ Service!NoJob.acked = 0 BY DEF Service!NoJob
<1>10. v.step = "connect" /\ v.held = first /\ v.queue = first /\ v.sent = 0 /\ v.acked = 0 BY <1>7, <1>19 DEF Service!JobShapes
<1>11. f \in [job: 0..MaxJobs, received: Nat, expected: Nat] /\ f.job = n BY <1>4
<1> HIDE DEF v, f, n
<1>12. x2 \in [Service!Jobs -> Service!JobShapes] /\ x4 \in Nat /\ x5 \in Nat /\ x3 \in Nat BY DEF Service!MeshInv, Service!Shapes
<1>13. x2' \in [Service!Jobs -> Service!JobShapes] /\ x2'[n] = v /\ (\A k \in Service!Jobs : k # n => x2'[k] = x2[k]) BY <1>1, <1>4, <1>9, <1>12
<1>14. x1' \in [MeshIds -> [job: 0..MaxJobs, received: Nat, expected: Nat]] /\ (\A k \in MeshIds : x1'[k].job \in {0, x1[k].job, n})
  <2>1. Service!Kept \in [MeshIds -> [job: 0..MaxJobs, received: Nat, expected: Nat]] /\ (\A k \in MeshIds : Service!Kept[k].job \in {0, x1[k].job}) BY MeshKept
  <2>2. x1' \in [MeshIds -> [job: 0..MaxJobs, received: Nat, expected: Nat]] BY <1>1, <1>11, <2>1
  <2>3. \A k \in MeshIds : x1'[k] = IF k = i THEN f ELSE Service!Kept[k] BY <1>1, <2>1
  <2> QED BY <1>11, <2>1, <2>2, <2>3
<1>15. x2[n].held = 0 BY <1>5 DEF Service!NoJob
<1>16. first \in Int /\ x2'[n].held = x2[n].held + first BY <1>10, <1>13, <1>15
<1>17. /\ x2'[n].step # "none" /\ x2'[n].queue <= x2'[n].held /\ x2'[n].acked <= x2'[n].sent
       /\ x2'[n].sent <= x2'[n].acked + MeshWindow + 1
    BY <1>10, <1>13, MeshAssumption
<1>18. x3' <= MaxBuffered /\ x4' \in Nat /\ x5' \in Nat BY <1>1, <1>12
<1> QED BY <1>1, <1>4, <1>5, <1>13, <1>14, <1>16, <1>17, <1>18, MeshJob

\* A frame that ends the request of an id.
LEMMA MeshMarked ==
    ASSUME Service!MeshInv, NEW j \in Service!Jobs, x2' = [x2 EXCEPT ![j].cancelled = TRUE, ![j].open = FALSE]
    PROVE  \E v \in Service!JobShapes : /\ x2' = [x2 EXCEPT ![j] = v] /\ v.step = x2[j].step /\ v.held = x2[j].held
                                 /\ v.queue = x2[j].queue /\ v.sent = x2[j].sent /\ v.acked = x2[j].acked
<1>2. x2 \in [Service!Jobs -> Service!JobShapes] /\ x2[j] \in Service!JobShapes BY MeshNumbers
<1> DEFINE v == [x2[j] EXCEPT !.cancelled = TRUE, !.open = FALSE]
<1>3. TRUE \in BOOLEAN /\ FALSE \in BOOLEAN OBVIOUS
<1>4. v \in Service!JobShapes BY <1>2, <1>3 DEF Service!JobShapes
<1>5. v.step = x2[j].step /\ v.held = x2[j].held /\ v.queue = x2[j].queue /\ v.sent = x2[j].sent /\ v.acked = x2[j].acked
    BY <1>2 DEF Service!JobShapes
<1>6. x2' = [x2 EXCEPT ![j] = v] BY <1>2 DEF Service!JobShapes
<1> HIDE DEF v
<1> QED BY <1>4, <1>5, <1>6, Zenon

LEMMA MeshEnds ==
    ASSUME Service!MeshInv, NEW i \in Service!InFlight, x1' = [Service!Kept EXCEPT ![i] = Service!NoFlight],
           NEW j \in Service!Jobs, j = Service!Kept[i].job, NEW v \in Service!JobShapes, x2' = [x2 EXCEPT ![j] = v], v.step = x2[j].step,
           v.held = x2[j].held, v.queue = x2[j].queue, v.sent = x2[j].sent, v.acked = x2[j].acked,
           UNCHANGED x3, x4' \in {x4, x4 + 1}, x5' = x5 + 1
    PROVE  Service!MeshInv'
<1>1. x2[j].step # "none" /\ i \in MeshIds BY MeshKept
<1>7. /\ x2[j].held \in Nat /\ x2[j].queue <= x2[j].held /\ x2[j].acked <= x2[j].sent /\ x2[j].sent <= x2[j].acked + MeshWindow + 1
      /\ x3 \in Nat /\ x3 <= MaxBuffered /\ x4 \in Nat /\ x5 \in Nat
    BY MeshNumbers
<1>8. /\ x1' \in [MeshIds -> [job: 0..MaxJobs, received: Nat, expected: Nat]] /\ (\A k \in MeshIds : x1'[k].job \in {0, x1[k].job})
  <2>1. /\ Service!Kept \in [MeshIds -> [job: 0..MaxJobs, received: Nat, expected: Nat]] /\ (\A k \in MeshIds : Service!Kept[k].job \in {0, x1[k].job})
        /\ Service!NoFlight \in [job: 0..MaxJobs, received: Nat, expected: Nat] /\ Service!NoFlight.job = 0
    BY MeshKept
  <2>2. x1' \in [MeshIds -> [job: 0..MaxJobs, received: Nat, expected: Nat]] BY <2>1
  <2>3. \A k \in MeshIds : x1'[k] = IF k = i THEN Service!NoFlight ELSE Service!Kept[k] BY <2>1
  <2> QED BY <2>1, <2>2, <2>3
<1>9. PICK d \in Int : d = 0 OBVIOUS
<1>10. v.held = x2[j].held + d /\ x3' = x3 + d /\ x3' <= MaxBuffered /\ x4' \in Nat /\ x5' \in Nat BY <1>7, <1>9
<1>11. v.step # "none" /\ v.queue <= v.held /\ v.acked <= v.sent /\ v.sent <= v.acked + MeshWindow + 1 BY <1>1, <1>7
<1> QED BY <1>1, <1>8, <1>10, <1>11, MeshTask

LEMMA MeshCancel == ASSUME Service!MeshInv, NEW i \in MeshIds, Service!Cancel(i) PROVE Service!MeshInv'
<1>1. /\ i \in Service!InFlight /\ x1' = [Service!Kept EXCEPT ![i] = Service!NoFlight] /\ x4' = x4 /\ x5' = x5 + 1 /\ UNCHANGED x3
      /\ x2' = [x2 EXCEPT ![Service!Kept[i].job].cancelled = TRUE, ![Service!Kept[i].job].open = FALSE]
    BY DEF Service!Cancel, Service!Sends
<1>2. PICK j \in Service!Jobs : j = Service!Kept[i].job BY <1>1, MeshKept
<1>3. x2' = [x2 EXCEPT ![j].cancelled = TRUE, ![j].open = FALSE] BY <1>1, <1>2
<1>4. PICK v \in Service!JobShapes : /\ x2' = [x2 EXCEPT ![j] = v] /\ v.step = x2[j].step /\ v.held = x2[j].held
                                     /\ v.queue = x2[j].queue /\ v.sent = x2[j].sent /\ v.acked = x2[j].acked
    BY <1>3, MeshMarked
<1>5. x4' \in {x4, x4 + 1} BY <1>1
<1> QED BY <1>1, <1>2, <1>4, <1>5, MeshEnds, Zenon

LEMMA MeshAck == ASSUME Service!MeshInv, NEW i \in MeshIds, Service!Ack(i) PROVE Service!MeshInv'
<1>1. /\ i \in Service!InFlight /\ x1' = Service!Kept /\ x4' = x4 /\ x5' = x5 + 1 /\ UNCHANGED x3
      /\ x2[Service!Kept[i].job].acked < x2[Service!Kept[i].job].sent
      /\ x2' = [x2 EXCEPT ![Service!Kept[i].job].acked = @ + 1]
    BY DEF Service!Ack, Service!Sends
<1>2. PICK j \in Service!Jobs : j = Service!Kept[i].job /\ x2[j].step # "none" BY <1>1, MeshKept
<1>3. /\ x2 \in [Service!Jobs -> Service!JobShapes] /\ x2[j] \in Service!JobShapes /\ x2[j].held \in Nat /\ x2[j].sent \in Nat /\ x2[j].acked \in Nat
      /\ x2[j].queue <= x2[j].held /\ x2[j].sent <= x2[j].acked + MeshWindow + 1 /\ MeshWindow \in Nat
      /\ x3 \in Nat /\ x3 <= MaxBuffered /\ x4 \in Nat /\ x5 \in Nat
    BY MeshNumbers
<1> DEFINE a == x2[j].acked + 1
           v == [x2[j] EXCEPT !.acked = a]
<1>4. a \in Nat /\ a <= x2[j].sent /\ x2[j].sent <= a + MeshWindow + 1 BY <1>1, <1>2, <1>3
<1>5. x2' = [x2 EXCEPT ![j] = v] BY <1>1, <1>2, <1>3 DEF Service!JobShapes
<1> HIDE DEF a
<1>6. v \in Service!JobShapes BY <1>3, <1>4 DEF Service!JobShapes
<1>7. v.step = x2[j].step /\ v.held = x2[j].held /\ v.queue = x2[j].queue /\ v.sent = x2[j].sent /\ v.acked = a BY <1>3 DEF Service!JobShapes
<1> HIDE DEF v
<1>8. PICK d \in Int : d = 0 OBVIOUS
<1>9. v.held = x2[j].held + d /\ x3' = x3 + d /\ x3' <= MaxBuffered /\ x4' \in Nat /\ x5' \in Nat
    BY <1>1, <1>3, <1>7, <1>8
<1>10. v.step # "none" /\ v.queue <= v.held /\ v.acked <= v.sent /\ v.sent <= v.acked + MeshWindow + 1 BY <1>2, <1>3, <1>4, <1>7
<1>11. /\ x1' \in [MeshIds -> [job: 0..MaxJobs, received: Nat, expected: Nat]] /\ (\A k \in MeshIds : x1'[k].job \in {0, x1[k].job})
    BY <1>1, MeshKept
<1> QED BY <1>2, <1>5, <1>6, <1>9, <1>10, <1>11, MeshTask

LEMMA MeshMoreBody == ASSUME Service!MeshInv, NEW i \in MeshIds, NEW n \in Nat, Service!MoreBody(i, n) PROVE Service!MeshInv'
<1>1. CASE /\ i \in Service!InFlight /\ x1' = [Service!Kept EXCEPT ![i] = Service!NoFlight] /\ Service!Reply /\ Service!Sends /\ UNCHANGED x3
           /\ x2' = [x2 EXCEPT ![Service!Kept[i].job].cancelled = TRUE, ![Service!Kept[i].job].open = FALSE]
  <2>1. x4' \in {x4, x4 + 1} /\ x5' = x5 + 1 BY <1>1 DEF Service!Reply, Service!Sends
  <2>2. PICK j \in Service!Jobs : j = Service!Kept[i].job BY <1>1, MeshKept
  <2>3. x2' = [x2 EXCEPT ![j].cancelled = TRUE, ![j].open = FALSE] BY <1>1, <2>2
  <2>4. PICK v \in Service!JobShapes : /\ x2' = [x2 EXCEPT ![j] = v] /\ v.step = x2[j].step /\ v.held = x2[j].held
                                       /\ v.queue = x2[j].queue /\ v.sent = x2[j].sent /\ v.acked = x2[j].acked
      BY <2>3, MeshMarked
  <2> QED BY <1>1, <2>1, <2>2, <2>4, MeshEnds, Zenon
<1>2. CASE /\ i \in Service!InFlight /\ ~Service!Over(n) /\ x1' = [Service!Kept EXCEPT ![i].received = @ + n] /\ x3' = x3 + n /\ x4' = x4 /\ Service!Sends
           /\ x2' = [x2 EXCEPT ![Service!Kept[i].job].held = @ + n,
                                 ![Service!Kept[i].job].queue = IF x2[Service!Kept[i].job].step \in {"connect", "body"} THEN @ + n ELSE @,
                                 ![Service!Kept[i].job].open = Service!Kept[i].received + n < Service!Kept[i].expected]
  <2>1. PICK j \in Service!Jobs : j = Service!Kept[i].job /\ x2[j].step # "none" BY <1>2, MeshKept
  <2>2. /\ x2 \in [Service!Jobs -> Service!JobShapes] /\ x2[j] \in Service!JobShapes /\ x2[j].held \in Nat /\ x2[j].queue \in Nat /\ x2[j].queue <= x2[j].held
        /\ x2[j].acked <= x2[j].sent /\ x2[j].sent <= x2[j].acked + MeshWindow + 1
        /\ x3 \in Nat /\ MaxBuffered \in Nat /\ x4 \in Nat /\ x5 \in Nat
    BY MeshNumbers
  <2> DEFINE h == x2[j].held + n
             q == IF x2[j].step \in {"connect", "body"} THEN x2[j].queue + n ELSE x2[j].queue
             o == Service!Kept[i].received + n < Service!Kept[i].expected
             v == [x2[j] EXCEPT !.held = h, !.queue = q, !.open = o]
  <2>3. h \in Nat /\ q \in Nat /\ q <= h BY <2>2
  <2>4. o \in BOOLEAN OBVIOUS
  <2>5. x2' = [x2 EXCEPT ![j] = v] BY <1>2, <2>1, <2>2 DEF Service!JobShapes
  <2> HIDE DEF h, q, o
  <2>6. v \in Service!JobShapes BY <2>2, <2>3, <2>4 DEF Service!JobShapes
  <2>7. v.step = x2[j].step /\ v.held = h /\ v.queue = q /\ v.sent = x2[j].sent /\ v.acked = x2[j].acked BY <2>2 DEF Service!JobShapes
  <2> HIDE DEF v
  <2>8. n \in Int /\ v.held = x2[j].held + n /\ x3' = x3 + n /\ x3' <= MaxBuffered /\ x4' \in Nat /\ x5' \in Nat
      BY <1>2, <2>2, <2>7 DEF h, Service!Over, Service!Sends
  <2>9. /\ x1' \in [MeshIds -> [job: 0..MaxJobs, received: Nat, expected: Nat]] /\ (\A k \in MeshIds : x1'[k].job \in {0, x1[k].job})
    <3>1. Service!Kept \in [MeshIds -> [job: 0..MaxJobs, received: Nat, expected: Nat]] /\ (\A k \in MeshIds : Service!Kept[k].job \in {0, x1[k].job}) BY MeshKept
    <3> DEFINE K == Service!Kept
               r == K[i].received + n
               w == [K[i] EXCEPT !.received = r]
    <3>2. K[i] \in [job: 0..MaxJobs, received: Nat, expected: Nat] /\ K[i].received \in Nat BY <3>1
    <3>3. r \in Nat BY <3>2
    <3>4. x1' = [K EXCEPT ![i] = w] BY <1>2, <3>1
    <3> HIDE DEF r, K
    <3>5. w \in [job: 0..MaxJobs, received: Nat, expected: Nat] /\ w.job = K[i].job BY <3>2, <3>3
    <3> HIDE DEF w
    <3>6. K \in [MeshIds -> [job: 0..MaxJobs, received: Nat, expected: Nat]] /\ (\A k \in MeshIds : K[k].job \in {0, x1[k].job}) BY <3>1 DEF K
    <3>7. x1' \in [MeshIds -> [job: 0..MaxJobs, received: Nat, expected: Nat]] BY <3>4, <3>5, <3>6
    <3>8. \A k \in MeshIds : x1'[k] = IF k = i THEN w ELSE K[k] BY <3>4, <3>6
    <3> QED BY <3>5, <3>6, <3>7, <3>8
  <2> QED BY <2>1, <2>2, <2>3, <2>5, <2>6, <2>7, <2>8, <2>9, MeshTask
<1> QED BY <1>1, <1>2 DEF Service!MoreBody

\* What a step of a task leaves of the rest.
LEMMA MeshWork ==
    ASSUME Service!MeshInv, NEW j \in Service!Jobs, NEW v \in Service!JobShapes, x2' = [x2 EXCEPT ![j] = v], x2[j].step # "none", v.step # "none",
           v.queue <= v.held, v.acked <= v.sent, v.sent <= v.acked + MeshWindow + 1, v.held <= x2[j].held,
           x3' = x3 - (x2[j].held - v.held), x4' \in {x4, x4 + 1}, UNCHANGED <<x1, x5>>
    PROVE  Service!MeshInv'
<1>1. /\ x2[j].held \in Nat /\ x3 \in Nat /\ x3 <= MaxBuffered /\ MaxBuffered \in Nat /\ x4 \in Nat /\ x5 \in Nat
      /\ x1 \in [MeshIds -> [job: 0..MaxJobs, received: Nat, expected: Nat]]
    BY MeshNumbers
<1>2. v.held \in Nat BY DEF Service!JobShapes
<1>3. PICK d \in Int : d = v.held - x2[j].held BY <1>1, <1>2
<1>4. v.held = x2[j].held + d /\ x3' = x3 + d /\ x3' <= MaxBuffered BY <1>1, <1>2, <1>3
<1>5. x4' \in Nat /\ x5' \in Nat BY <1>1
<1>6. /\ x1' \in [MeshIds -> [job: 0..MaxJobs, received: Nat, expected: Nat]] /\ (\A k \in MeshIds : x1'[k].job \in {0, x1[k].job}) BY <1>1
<1> QED BY <1>4, <1>5, <1>6, MeshTask

\* A task goes on, with what it holds.
LEMMA MeshOn ==
    ASSUME Service!MeshInv, NEW j \in Service!Jobs, x2[j].step # "none",
           NEW st \in {"connect", "body", "response", "release", "release_error", "error", "done", "ended"},
           x2' = [x2 EXCEPT ![j].step = st],
           x4' \in {x4, x4 + 1}, UNCHANGED <<x1, x3, x5>>
    PROVE  Service!MeshInv'
<1>1. /\ x2 \in [Service!Jobs -> Service!JobShapes] /\ x2[j] \in Service!JobShapes /\ x2[j].held \in Nat /\ x2[j].queue <= x2[j].held /\ x2[j].acked <= x2[j].sent
      /\ x2[j].sent <= x2[j].acked + MeshWindow + 1 /\ x3 \in Nat
    BY MeshNumbers
<1> DEFINE v == [x2[j] EXCEPT !.step = st]
<1>2. v \in Service!JobShapes /\ v.step = st /\ v.held = x2[j].held /\ v.queue = x2[j].queue /\ v.sent = x2[j].sent /\ v.acked = x2[j].acked
    BY <1>1 DEF Service!JobShapes
<1>3. x2' = [x2 EXCEPT ![j] = v] BY <1>1 DEF Service!JobShapes
<1> HIDE DEF v
<1>4. /\ v.step # "none" /\ v.queue <= v.held /\ v.acked <= v.sent /\ v.sent <= v.acked + MeshWindow + 1 /\ v.held <= x2[j].held
      /\ x3' = x3 - (x2[j].held - v.held)
    BY <1>1, <1>2
<1> QED BY <1>2, <1>3, <1>4, MeshWork

LEMMA MeshConnect == ASSUME Service!MeshInv, NEW j \in Service!Jobs, Service!Connect(j) PROVE Service!MeshInv'
<1>1. /\ x2[j].step # "none" /\ x2' = [x2 EXCEPT ![j].step = "body"] /\ x4' \in {x4, x4 + 1} /\ UNCHANGED <<x1, x3, x5>>
    BY DEF Service!Connect
<1> QED BY <1>1, MeshOn

LEMMA MeshHead == ASSUME Service!MeshInv, NEW j \in Service!Jobs, Service!Head(j) PROVE Service!MeshInv'
<1>1. /\ x2[j].step # "none" /\ x2' = [x2 EXCEPT ![j].step = "response"] /\ x4' \in {x4, x4 + 1} /\ UNCHANGED <<x1, x3, x5>>
    BY DEF Service!Head
<1> QED BY <1>1, MeshOn

LEMMA MeshFail == ASSUME Service!MeshInv, NEW j \in Service!Jobs, Service!Fail(j) PROVE Service!MeshInv'
<1> DEFINE st == IF x2[j].cancelled THEN "release" ELSE "release_error"
<1>1. st \in {"release", "release_error"} /\ x2' = [x2 EXCEPT ![j].step = st]
  <2>1. x2' = [x2 EXCEPT ![j].step = st] BY Zenon DEF Service!Fail
  <2>2. st \in {"release", "release_error"} OBVIOUS
  <2> QED BY <2>1, <2>2
<1> HIDE DEF st
<1>2. x2[j].step # "none" /\ x4' \in {x4, x4 + 1} /\ UNCHANGED <<x1, x3, x5>> BY DEF Service!Fail
<1> QED BY <1>1, <1>2, MeshOn

LEMMA MeshErrorFrame == ASSUME Service!MeshInv, NEW j \in Service!Jobs, Service!ErrorFrame(j) PROVE Service!MeshInv'
<1>1. /\ x2[j].step # "none" /\ x2' = [x2 EXCEPT ![j].step = "done"] /\ x4' \in {x4, x4 + 1} /\ UNCHANGED <<x1, x3, x5>>
    BY DEF Service!ErrorFrame
<1> QED BY <1>1, MeshOn

LEMMA MeshDone == ASSUME Service!MeshInv, NEW j \in Service!Jobs, Service!Done(j) PROVE Service!MeshInv'
<1>1. /\ x2[j].step # "none" /\ x2' = [x2 EXCEPT ![j].step = "ended"] /\ x4' \in {x4, x4 + 1} /\ UNCHANGED <<x1, x3, x5>>
    BY DEF Service!Done
<1> QED BY <1>1, MeshOn

LEMMA MeshWrite == ASSUME Service!MeshInv, NEW j \in Service!Jobs, Service!Write(j) PROVE Service!MeshInv'
<1>1. /\ x2 \in [Service!Jobs -> Service!JobShapes] /\ x2[j] \in Service!JobShapes /\ x2[j].held \in Nat /\ x2[j].queue \in Nat /\ x2[j].queue <= x2[j].held
      /\ x2[j].acked <= x2[j].sent /\ x2[j].sent <= x2[j].acked + MeshWindow + 1 /\ x3 \in Nat
    BY MeshNumbers
<1>2. /\ x2[j].step = "body" /\ x2[j].queue > 0 /\ x3' = x3 - Service!Released(j, 1) /\ UNCHANGED <<x1, x4, x5>>
      /\ x2' = [x2 EXCEPT ![j].queue = @ - 1, ![j].held = @ - Service!Released(j, 1)]
    BY DEF Service!Write
<1>3. Service!Released(j, 1) = 1 BY <1>1, <1>2 DEF Service!Released
<1> DEFINE h == x2[j].held - 1
           q == x2[j].queue - 1
           v == [x2[j] EXCEPT !.queue = q, !.held = h]
<1>4. h \in Nat /\ q \in Nat /\ q <= h /\ h <= x2[j].held /\ x2[j].held - h = 1 BY <1>1, <1>2
<1>5. x2' = [x2 EXCEPT ![j] = v] BY <1>1, <1>2, <1>3 DEF Service!JobShapes
<1> HIDE DEF h, q
<1>6. v \in Service!JobShapes BY <1>1, <1>4 DEF Service!JobShapes
<1>7. v.step = "body" /\ v.held = h /\ v.queue = q /\ v.sent = x2[j].sent /\ v.acked = x2[j].acked BY <1>1, <1>2 DEF Service!JobShapes
<1> HIDE DEF v
<1>8. /\ v.step # "none" /\ v.queue <= v.held /\ v.acked <= v.sent /\ v.sent <= v.acked + MeshWindow + 1 /\ v.held <= x2[j].held
      /\ x3' = x3 - (x2[j].held - v.held)
    BY <1>1, <1>2, <1>3, <1>4, <1>7
<1>9. x2[j].step # "none" /\ x4' \in {x4, x4 + 1} /\ UNCHANGED <<x1, x5>> BY <1>2
<1> QED BY <1>5, <1>6, <1>8, <1>9, MeshWork

LEMMA MeshPiece == ASSUME Service!MeshInv, NEW j \in Service!Jobs, NEW last \in BOOLEAN, Service!Piece(j, last) PROVE Service!MeshInv'
<1>1. /\ x2 \in [Service!Jobs -> Service!JobShapes] /\ x2[j] \in Service!JobShapes /\ x2[j].held \in Nat /\ x2[j].queue <= x2[j].held
      /\ x2[j].sent \in Nat /\ x2[j].acked \in Nat /\ x2[j].acked <= x2[j].sent /\ MeshWindow \in Nat /\ x3 \in Nat
    BY MeshNumbers
<1>2. /\ x2[j].step = "response" /\ x2[j].sent - x2[j].acked <= MeshWindow /\ x4' = x4 + 1 /\ UNCHANGED <<x1, x3, x5>>
      /\ x2' = [x2 EXCEPT ![j].sent = @ + 1, ![j].step = IF last THEN "release" ELSE @]
    BY DEF Service!Piece, Service!Room
<1> DEFINE n == x2[j].sent + 1
           st == IF last THEN "release" ELSE x2[j].step
           v == [x2[j] EXCEPT !.sent = n, !.step = st]
<1>3. n \in Nat /\ x2[j].acked <= n /\ n <= x2[j].acked + MeshWindow + 1 BY <1>1, <1>2
<1>4. st \in {"release", "response"} BY <1>2
<1>5. x2' = [x2 EXCEPT ![j] = v] BY <1>1, <1>2 DEF Service!JobShapes
<1> HIDE DEF n, st
<1>6. v \in Service!JobShapes BY <1>1, <1>3, <1>4 DEF Service!JobShapes
<1>7. v.step = st /\ v.held = x2[j].held /\ v.queue = x2[j].queue /\ v.sent = n /\ v.acked = x2[j].acked BY <1>1 DEF Service!JobShapes
<1> HIDE DEF v
<1>8. /\ v.step # "none" /\ v.queue <= v.held /\ v.acked <= v.sent /\ v.sent <= v.acked + MeshWindow + 1 /\ v.held <= x2[j].held
      /\ x3' = x3 - (x2[j].held - v.held)
    BY <1>1, <1>2, <1>3, <1>4, <1>7
<1>9. x2[j].step # "none" /\ x4' \in {x4, x4 + 1} /\ UNCHANGED <<x1, x5>> BY <1>2
<1> QED BY <1>5, <1>6, <1>8, <1>9, MeshWork

LEMMA MeshRelease == ASSUME Service!MeshInv, NEW j \in Service!Jobs, Service!Release(j) PROVE Service!MeshInv'
<1>1. /\ x2 \in [Service!Jobs -> Service!JobShapes] /\ x2[j] \in Service!JobShapes /\ x2[j].held \in Nat /\ x3 \in Nat
      /\ x2[j].acked <= x2[j].sent /\ x2[j].sent <= x2[j].acked + MeshWindow + 1
    BY MeshNumbers
<1>2. /\ x2[j].step \in {"release", "release_error"} /\ x3' = x3 - x2[j].held /\ UNCHANGED <<x1, x4, x5>>
      /\ x2' = [x2 EXCEPT ![j].held = 0, ![j].queue = 0, ![j].step = IF @ = "release" THEN "done" ELSE "error"]
    BY DEF Service!Release
<1> DEFINE st == IF x2[j].step = "release" THEN "done" ELSE "error"
           v == [x2[j] EXCEPT !.held = 0, !.queue = 0, !.step = st]
<1>3. st \in {"done", "error"} OBVIOUS
<1>4. x2' = [x2 EXCEPT ![j] = v] BY <1>1, <1>2 DEF Service!JobShapes
<1> HIDE DEF st
<1>5. v \in Service!JobShapes BY <1>1, <1>3 DEF Service!JobShapes
<1>6. v.step = st /\ v.held = 0 /\ v.queue = 0 /\ v.sent = x2[j].sent /\ v.acked = x2[j].acked BY <1>1 DEF Service!JobShapes
<1> HIDE DEF v
<1>7. /\ v.step # "none" /\ v.queue <= v.held /\ v.acked <= v.sent /\ v.sent <= v.acked + MeshWindow + 1 /\ v.held <= x2[j].held
      /\ x3' = x3 - (x2[j].held - v.held)
    BY <1>1, <1>2, <1>3, <1>6
<1>8. x2[j].step # "none" /\ x4' \in {x4, x4 + 1} /\ UNCHANGED <<x1, x5>> BY <1>2
<1> QED BY <1>4, <1>5, <1>7, <1>8, MeshWork

LEMMA MeshInit == ASSUME Service!Init PROVE Service!MeshInv
<1>1. 0 \in 0..MaxJobs /\ 0 <= MaxBuffered /\ MeshWindow \in Nat /\ (\A j \in Service!Jobs : j \in Nat /\ ~(j <= 0)) BY MeshAssumption DEF Service!Jobs
<1>2. FALSE \in BOOLEAN /\ 0 \in Nat OBVIOUS
<1>3. Service!NoJob \in Service!JobShapes BY <1>2 DEF Service!NoJob, Service!JobShapes
<1>4. Service!NoFlight \in [job: 0..MaxJobs, received: Nat, expected: Nat] /\ Service!NoFlight.job = 0 BY <1>1 DEF Service!NoFlight
<1>5. x2 = [j \in Service!Jobs |-> Service!NoJob] /\ x1 = [i \in MeshIds |-> Service!NoFlight] /\ x3 = 0 /\ x4 = 0 /\ x5 = 0 BY DEF Service!Init
<1>6. Service!Shapes BY <1>3, <1>4, <1>5 DEF Service!Shapes
<1>7. Service!Order
  <2>1. \A j \in Service!Jobs : IF j <= 0 THEN x2[j].step # "none" ELSE x2[j] = Service!NoJob BY <1>1, <1>5
  <2>2. \A i \in MeshIds : x1[i].job = 0 BY <1>4, <1>5
  <2> QED BY <1>1, <2>1, <2>2 DEF Service!Order
<1>8. Service!Shares BY <1>1, <1>5 DEF Service!Shares, Service!NoJob
<1>9. Service!Held = 0
  <2>1. [j \in Service!Jobs |-> x2[j].held] = [j \in Service!Jobs |-> 0] BY <1>5 DEF Service!NoJob
  <2> QED BY <2>1, MeshNothing DEF Service!Held
<1> QED BY <1>1, <1>5, <1>6, <1>7, <1>8, <1>9 DEF Service!MeshInv

LEMMA MeshStays == ASSUME Service!MeshInv, [Service!Next]_(Service!vars) PROVE Service!MeshInv'
<1>1. CASE Service!Refuse BY <1>1, MeshRefuse
<1>2. CASE Service!Drain BY <1>2, MeshDrain
<1>3. CASE \E i \in MeshIds : (\E body \in 0..MaxBody, first \in 0..MaxBody : Service!Open(i, body, first)) \/ (\E n \in 1..MaxBody : Service!MoreBody(i, n)) \/ Service!Ack(i) \/ Service!Cancel(i)
  <2>1. PICK i \in MeshIds : (\E body \in 0..MaxBody, first \in 0..MaxBody : Service!Open(i, body, first)) \/ (\E n \in 1..MaxBody : Service!MoreBody(i, n)) \/ Service!Ack(i) \/ Service!Cancel(i)
    BY <1>3
  <2>2. CASE \E body \in 0..MaxBody, first \in 0..MaxBody : Service!Open(i, body, first)
    <3>1. PICK body \in 0..MaxBody, first \in 0..MaxBody : Service!Open(i, body, first) BY <2>2
    <3>2. body \in Nat /\ first \in Nat OBVIOUS
    <3> QED BY <3>1, <3>2, MeshOpen
  <2>3. CASE \E n \in 1..MaxBody : Service!MoreBody(i, n)
    <3>1. PICK n \in 1..MaxBody : Service!MoreBody(i, n) BY <2>3
    <3>2. n \in Nat OBVIOUS
    <3> QED BY <3>1, <3>2, MeshMoreBody
  <2>4. CASE Service!Ack(i) BY <2>4, MeshAck
  <2>5. CASE Service!Cancel(i) BY <2>5, MeshCancel
  <2> QED BY <2>1, <2>2, <2>3, <2>4, <2>5
<1>4. CASE \E j \in Service!Jobs : (\E last \in BOOLEAN : Service!Piece(j, last)) \/ Service!Connect(j) \/ Service!Write(j) \/ Service!Head(j) \/ Service!Fail(j) \/ Service!Release(j) \/ Service!ErrorFrame(j) \/ Service!Done(j)
    BY <1>4, MeshPiece, MeshConnect, MeshWrite, MeshHead, MeshFail, MeshRelease, MeshErrorFrame, MeshDone, Zenon
<1>5. CASE UNCHANGED Service!vars BY <1>5, MeshSame
<1> QED BY <1>1, <1>2, <1>3, <1>4, <1>5 DEF Service!Next

LEMMA MeshBounded == ASSUME Service!MeshInv PROVE Service!Bounded
<1>1. /\ x2 \in [Service!Jobs -> Service!JobShapes] /\ x3 \in Nat /\ x3 = Service!Held /\ x3 <= MaxBuffered
    BY DEF Service!MeshInv, Service!Shapes
<1> DEFINE f == [j \in Service!Jobs |-> x2[j].held]
           f2 == [j \in Service!Jobs |-> x2[j].queue]
<1>2. f \in [Service!Jobs -> Nat] /\ f2 \in [Service!Jobs -> Nat] BY <1>1 DEF Service!JobShapes
<1>3. \A j \in Service!Jobs : f2[j] <= f[j] BY DEF Service!MeshInv, Service!Shares
<1>4. Service!Held = Service!Sum(f) /\ Service!Queued = Service!Sum(f2) BY DEF Service!Held, Service!Queued
<1> HIDE DEF f, f2
<1>5. Service!Sum(f2) <= Service!Sum(f) BY <1>2, <1>3, MeshSumOrder
<1>6. \A j \in Service!Jobs : x2[j].sent - x2[j].acked <= MeshWindow + 1
  <2> TAKE j \in Service!Jobs
  <2>1. x2[j].sent \in Nat /\ x2[j].acked \in Nat /\ MeshWindow \in Nat /\ x2[j].sent <= x2[j].acked + MeshWindow + 1 BY MeshNumbers
  <2> QED BY <2>1
<1> QED BY <1>1, <1>4, <1>5, <1>6 DEF Service!Bounded

LEMMA MeshAtWork ==
    ASSUME live' = "mesh", [AllNext]_all
    PROVE  live = "mesh" /\ [Service!Next]_(Service!vars)
BY DEF AllNext, all, Service!vars, BusStep, FilesStep, DnsStep, ServiceStep, PanelStep, SpeedStep, TrafficStep,
       HistoryStep, StateStep, Keep0, Keep5, Keep6, Keep8, Keep9, Keep11, Keep13

\* For any number of requests, any budget, any window and any order of the
\* browser's frames, the tasks' steps, failures and cancels: the request pieces
\* in memory never exceed what is booked, what is booked never exceeds
\* MAX_BUFFERED, and no response is more than a window and a piece ahead of
\* its acknowledgements (mesh/service.rs: open, more_body, release, room).
THEOREM BoundedHolds == AllSpec => []Bounded
<1> DEFINE Inv == live = "mesh" => Service!MeshInv
<1>1. AllInit => Inv
  BY MeshInit DEF AllInit
<1>2. Inv /\ [AllNext]_all => Inv'
  BY MeshAtWork, MeshStays
<1>3. Inv => Bounded
  BY MeshBounded DEF Bounded
<1> QED
  BY <1>1, <1>2, <1>3, PTL DEF AllSpec

-----------------------------------------------------------------------------
(***************************************************************************)
(* TrafficHistory: what the counter has shown since the last sample is not *)
(* in the days yet (Once); and, without a correction of the clock, on a day*)
(* that is not that of the last sample the whole counter is new (Fresh).   *)
(***************************************************************************)

LEMMA TrafficSum ==
    ASSUME NEW f \in [1..TrafficNow -> Nat]
    PROVE  \E g \in [0..TrafficNow -> Nat] : g[0] = 0 /\ (\A n \in 1..TrafficNow : g[n] = g[n - 1] + f[n]) /\ Traffic!Sum(f) = g[TrafficNow]
<1> DEFINE Is(g) == g = [n \in 0..TrafficNow |-> IF n = 0 THEN 0 ELSE g[n - 1] + f[n]]
           u == CHOOSE g : Is(g)
<1>1. Traffic!Sum(f) = u[TrafficNow] BY Zenon DEF Traffic!Sum
<1>2. PICK g \in [0..TrafficNow -> Nat] : g[0] = 0 /\ \A n \in 1..TrafficNow : g[n] = g[n - 1] + f[n]
  BY PartialSums, TrafficAssumption
<1>3. g = [n \in 0..TrafficNow |-> IF n = 0 THEN 0 ELSE g[n - 1] + f[n]]
  <2>1. \A n \in 0..TrafficNow : n # 0 => n \in 1..TrafficNow BY TrafficAssumption
  <2>2. \A n \in 0..TrafficNow : g[n] = IF n = 0 THEN 0 ELSE g[n - 1] + f[n] BY <1>2, <2>1
  <2> QED BY <1>2, <2>2
<1>4. Is(u) BY <1>3, Zenon
<1>5. PICK w : w = u /\ w = [n \in 0..TrafficNow |-> IF n = 0 THEN 0 ELSE w[n - 1] + f[n]] BY <1>4
<1> HIDE DEF u, Is
<1>6. w[0] = 0 /\ \A n \in 1..TrafficNow : w[n] = w[n - 1] + f[n]
  <2>1. 0 \in 0..TrafficNow /\ \A n \in 1..TrafficNow : n \in 0..TrafficNow /\ n # 0 BY TrafficAssumption
  <2> QED BY <1>5, <2>1
<1>7. \A n \in 0..TrafficNow : w[n] \in Nat BY <1>6, TrafficAssumption, LastPartialSum
<1>8. w \in [0..TrafficNow -> Nat] BY <1>5, <1>7
<1> QED BY <1>1, <1>5, <1>6, <1>8

LEMMA TrafficSumChanges ==
    ASSUME NEW f \in [1..TrafficNow -> Nat], NEW f2 \in [1..TrafficNow -> Nat], NEW j \in 1..TrafficNow, \A n \in 1..TrafficNow : n # j => f2[n] = f[n],
           NEW d \in Int, f2[j] = f[j] + d
    PROVE  Traffic!Sum(f) \in Nat /\ Traffic!Sum(f2) \in Nat /\ Traffic!Sum(f2) = Traffic!Sum(f) + d
<1>1. PICK g \in [0..TrafficNow -> Nat] : g[0] = 0 /\ (\A n \in 1..TrafficNow : g[n] = g[n - 1] + f[n]) /\ Traffic!Sum(f) = g[TrafficNow] BY TrafficSum
<1>2. PICK g2 \in [0..TrafficNow -> Nat] : g2[0] = 0 /\ (\A n \in 1..TrafficNow : g2[n] = g2[n - 1] + f2[n]) /\ Traffic!Sum(f2) = g2[TrafficNow] BY TrafficSum
<1>5. TrafficNow \in Nat /\ TrafficNow \in 0..TrafficNow BY TrafficAssumption
<1>7. g2[TrafficNow] = g[TrafficNow] + d BY <1>1, <1>2, <1>5, SumsAgree
<1> QED BY <1>1, <1>2, <1>5, <1>7

LEMMA TrafficSumOrder ==
    ASSUME NEW f \in [1..TrafficNow -> Nat], NEW f2 \in [1..TrafficNow -> Nat], \A n \in 1..TrafficNow : f2[n] <= f[n]
    PROVE  Traffic!Sum(f2) \in Nat /\ Traffic!Sum(f2) <= Traffic!Sum(f)
<1>1. PICK g \in [0..TrafficNow -> Nat] : g[0] = 0 /\ (\A n \in 1..TrafficNow : g[n] = g[n - 1] + f[n]) /\ Traffic!Sum(f) = g[TrafficNow] BY TrafficSum
<1>2. PICK g2 \in [0..TrafficNow -> Nat] : g2[0] = 0 /\ (\A n \in 1..TrafficNow : g2[n] = g2[n - 1] + f2[n]) /\ Traffic!Sum(f2) = g2[TrafficNow] BY TrafficSum
<1>3. TrafficNow \in Nat /\ TrafficNow \in 0..TrafficNow BY TrafficAssumption
<1>4. \A n \in 0..TrafficNow : g2[n] <= g[n] BY <1>1, <1>2, <1>3, SumsOrder
<1> QED BY <1>1, <1>2, <1>3, <1>4

LEMMA TrafficNothing ==
    ASSUME NEW s, DOMAIN s.days = {}
    PROVE  Traffic!Total(s) = 0
<1> DEFINE f == [d \in 1..TrafficNow |-> IF d \in DOMAIN s.days THEN s.days[d].bytes ELSE 0]
<1>1. f \in [1..TrafficNow -> Nat] /\ (\A n \in 1..TrafficNow : f[n] = 0) OBVIOUS
<1>2. Traffic!Total(s) = Traffic!Sum(f) BY DEF Traffic!Total
<1> HIDE DEF f
<1>3. PICK g \in [0..TrafficNow -> Nat] : g[0] = 0 /\ (\A n \in 1..TrafficNow : g[n] = g[n - 1] + f[n]) /\ Traffic!Sum(f) = g[TrafficNow] BY <1>1, TrafficSum
<1> DEFINE z == [n \in 0..TrafficNow |-> 0]
<1>4. TrafficNow \in Nat /\ TrafficNow \in 0..TrafficNow /\ z[TrafficNow] = 0 /\ 0 \in 0..TrafficNow /\ z[0] = 0 BY TrafficAssumption
<1>5. z \in [0..TrafficNow -> Nat] /\ (\A n \in 1..TrafficNow : z[n] = z[n - 1] + f[n]) BY <1>1, <1>4
<1> HIDE DEF z
<1>6. \A n \in 1..TrafficNow : f[n] <= f[n] BY <1>1
<1>7. \A n \in 0..TrafficNow : g[n] <= z[n] BY <1>1, <1>3, <1>4, <1>5, <1>6, SumsOrder
<1>8. g[TrafficNow] <= 0 /\ g[TrafficNow] \in Nat BY <1>3, <1>4, <1>7
<1> QED BY <1>2, <1>3, <1>8

LEMMA TrafficDate ==
    ASSUME NEW t \in 1..TrafficNow
    PROVE  Traffic!Date(t) \in 1..TrafficNow
<1>1. TrafficDay \in Nat /\ TrafficDay > 0 /\ t - 1 \in Nat /\ TrafficNow \in Nat BY TrafficAssumption
<1>2. (t - 1) \div TrafficDay \in Nat /\ (t - 1) \div TrafficDay <= t - 1 BY <1>1
<1> QED BY <1>1, <1>2 DEF Traffic!Date

\* One day less, and not the active one.
LEMMA TrafficEvict ==
    ASSUME NEW days, NEW d \in DOMAIN days, DOMAIN days \subseteq 1..TrafficNow
    PROVE  /\ d \in DOMAIN Traffic!Evict(days, d) /\ DOMAIN Traffic!Evict(days, d) \subseteq DOMAIN days
           /\ \A e \in DOMAIN Traffic!Evict(days, d) : Traffic!Evict(days, d)[e] = days[e]
<1>1. CASE Traffic!Cardinality(DOMAIN days) <= TrafficDays BY <1>1 DEF Traffic!Evict
<1>2. CASE ~(Traffic!Cardinality(DOMAIN days) <= TrafficDays)
  <2> DEFINE T == DOMAIN days \ {d}
             m == Traffic!Min(T)
  <2>1. T # {}
    <3>1. SUFFICES ASSUME T = {} PROVE FALSE OBVIOUS
    <3>2. DOMAIN days = {d} BY <3>1
    <3>3. Cardinality({d}) = 1 BY FS_Singleton
    <3>4. Traffic!Cardinality({d}) = Cardinality({d}) BY Zenon DEF Traffic!Cardinality, Cardinality
    <3> QED BY <1>2, <3>2, <3>3, <3>4, TrafficAssumption
  <2>2. T \subseteq Nat OBVIOUS
  <2>3. \E x \in T : \A y \in T : x <= y
    <3> HIDE DEF T
    <3> QED BY <2>1, <2>2, LeastNatural
  <2>4. m \in T
    <3> HIDE DEF T
    <3> QED BY <2>3, Zenon DEF Traffic!Min
  <2>5. Traffic!Evict(days, d) = [e \in DOMAIN days \ {m} |-> days[e]] BY <1>2 DEF Traffic!Evict, Traffic!Restrict
  <2>6. m # d BY <2>4
  <2> HIDE DEF m, T
  <2> QED BY <2>5, <2>6
<1> QED BY <1>1, <1>2

\* A day gets inc more: the total grows by as much.
LEMMA TrafficAdds ==
    ASSUME NEW s, NEW w, NEW d \in 1..TrafficNow, NEW inc \in Nat,
           DOMAIN s.days \subseteq 1..TrafficNow, \A e \in DOMAIN s.days : s.days[e].bytes \in Nat,
           DOMAIN w.days = DOMAIN s.days \cup {d}, \A e \in DOMAIN s.days : e # d => w.days[e] = s.days[e],
           d \in DOMAIN s.days => w.days[d].bytes = s.days[d].bytes + inc, d \notin DOMAIN s.days => w.days[d].bytes = inc
    PROVE  Traffic!Total(s) \in Nat /\ Traffic!Total(w) \in Nat /\ Traffic!Total(w) = Traffic!Total(s) + inc
<1> DEFINE f == [e \in 1..TrafficNow |-> IF e \in DOMAIN s.days THEN s.days[e].bytes ELSE 0]
           f2 == [e \in 1..TrafficNow |-> IF e \in DOMAIN w.days THEN w.days[e].bytes ELSE 0]
<1>1. f \in [1..TrafficNow -> Nat] OBVIOUS
<1>2. \A e \in DOMAIN w.days : w.days[e].bytes \in Nat
  <2>1. w.days[d].bytes \in Nat
    <3>1. CASE d \in DOMAIN s.days
      <4>1. s.days[d].bytes \in Nat BY <3>1
      <4> QED BY <3>1, <4>1
    <3>2. CASE d \notin DOMAIN s.days BY <3>2
    <3> QED BY <3>1, <3>2
  <2> QED BY <2>1
<1>3. f2 \in [1..TrafficNow -> Nat] BY <1>2
<1>4. f2[d] = f[d] + inc OBVIOUS
<1>5. \A n \in 1..TrafficNow : n # d => f2[n] = f[n] OBVIOUS
<1>6. Traffic!Total(s) = Traffic!Sum(f) /\ Traffic!Total(w) = Traffic!Sum(f2) BY DEF Traffic!Total
<1> HIDE DEF f, f2
<1>7. inc \in Int OBVIOUS
<1>8. Traffic!Sum(f) \in Nat /\ Traffic!Sum(f2) \in Nat /\ Traffic!Sum(f2) = Traffic!Sum(f) + inc BY <1>1, <1>3, <1>4, <1>5, <1>7, TrafficSumChanges
<1> QED BY <1>6, <1>8

\* Days go: the total does not grow.
LEMMA TrafficLess ==
    ASSUME NEW w, NEW t, DOMAIN w.days \subseteq 1..TrafficNow, \A e \in DOMAIN w.days : w.days[e].bytes \in Nat,
           DOMAIN t.days \subseteq DOMAIN w.days, \A e \in DOMAIN t.days : t.days[e] = w.days[e]
    PROVE  Traffic!Total(t) \in Nat /\ Traffic!Total(t) <= Traffic!Total(w)
<1> DEFINE f2 == [e \in 1..TrafficNow |-> IF e \in DOMAIN w.days THEN w.days[e].bytes ELSE 0]
           f3 == [e \in 1..TrafficNow |-> IF e \in DOMAIN t.days THEN t.days[e].bytes ELSE 0]
<1>1. f2 \in [1..TrafficNow -> Nat] /\ f3 \in [1..TrafficNow -> Nat] OBVIOUS
<1>2. \A n \in 1..TrafficNow : f3[n] <= f2[n]
  <2> TAKE n \in 1..TrafficNow
  <2>1. CASE n \in DOMAIN t.days
    <3>1. f3[n] = w.days[n].bytes /\ f2[n] = w.days[n].bytes /\ w.days[n].bytes \in Nat BY <2>1
    <3> QED BY <3>1
  <2>2. CASE n \notin DOMAIN t.days
    <3>1. f3[n] = 0 /\ f2[n] \in Nat BY <1>1, <2>2
    <3> QED BY <3>1
  <2> QED BY <2>1, <2>2
<1>3. Traffic!Total(w) = Traffic!Sum(f2) /\ Traffic!Total(t) = Traffic!Sum(f3) BY DEF Traffic!Total
<1> HIDE DEF f2, f3
<1> QED BY <1>1, <1>2, <1>3, TrafficSumOrder

LEMMA TrafficTotal == ASSUME Traffic!Whole PROVE Traffic!Total(x5) \in Nat
<1> DEFINE f == [e \in 1..TrafficNow |-> IF e \in DOMAIN x5.days THEN x5.days[e].bytes ELSE 0]
<1>1. f \in [1..TrafficNow -> Nat] BY DEF Traffic!Whole
<1>2. Traffic!Total(x5) = Traffic!Sum(f) BY DEF Traffic!Total
<1> HIDE DEF f
<1>3. \A n \in 1..TrafficNow : f[n] <= f[n] BY <1>1
<1> QED BY <1>1, <1>2, <1>3, TrafficSumOrder

\* The counter as it moves.
LEMMA TrafficMoves ==
    ASSUME NEW T \in Nat, NEW r \in Nat, NEW c \in Nat, NEW l \in Nat, NEW c2, NEW r2,
           T + (IF c < l THEN c ELSE c - l) <= r, (c2 = c /\ r2 = r) \/ (c2 = 0 /\ r2 = r) \/ (c2 = c + 1 /\ r2 = r + 1)
    PROVE  T + (IF c2 < l THEN c2 ELSE c2 - l) <= r2
OBVIOUS

LEMMA TrafficKeeps ==
    ASSUME Traffic!TrafficInv, Traffic!Shapes', ~x10' => ~x10 /\ x5' = x5 /\ x8' = x8,
           (x2' = x2 /\ x3' = x3) \/ (x2' = 0 /\ x3' = x3) \/ (x2' = x2 + 1 /\ x3' = x3 + 1),
           ~x10' /\ ~x8 /\ x5.active # None /\ x5.at > 0 /\ Traffic!Date(x5.at) = x5.active
               /\ x4' = x7' /\ x1' >= x5.at /\ Traffic!Date(x1') # x5.active
               => (x2' = 0 \/ (x4 = x7 /\ x1 >= x5.at /\ Traffic!Date(x1) # x5.active))
    PROVE  Traffic!TrafficInv'
<1>1. SUFFICES ASSUME ~x10' PROVE Traffic!Whole' /\ Traffic!Once' /\ Traffic!Fresh' BY DEF Traffic!TrafficInv
<1>2. Traffic!Whole /\ Traffic!Once /\ Traffic!Fresh /\ x5' = x5 /\ x8' = x8 BY <1>1 DEF Traffic!TrafficInv
<1>3. x2 \in Nat /\ x3 \in Nat BY DEF Traffic!TrafficInv, Traffic!Shapes
<1>4. Traffic!Whole' BY <1>2 DEF Traffic!Whole
<1>5. PICK T \in Nat : T = Traffic!Total(x5) /\ T = Traffic!Total(x5)' BY <1>2, TrafficTotal DEF Traffic!Total
<1>6. T + Traffic!Since' <= x3'
  <2>1. T + Traffic!Since <= x3 BY <1>2, <1>5 DEF Traffic!Once
  <2>2. CASE x5.active = None
    <3>1. Traffic!Since = x2 /\ Traffic!Since' = x2' BY <1>2, <2>2 DEF Traffic!Since
    <3> QED BY <1>3, <2>1, <3>1
  <2>3. CASE x5.active # None
    <3>1. PICK l \in Nat : l = x5.days[x5.active].last BY <1>2, <2>3 DEF Traffic!Whole
    <3>2. /\ Traffic!Since = (IF x2 < l THEN x2 ELSE x2 - l)
          /\ Traffic!Since' = (IF x2' < l THEN x2' ELSE x2' - l)
      BY <1>2, <2>3, <3>1 DEF Traffic!Since
    <3>3. PICK c2, r2 : c2 = x2' /\ r2 = x3' OBVIOUS
    <3>4. T + (IF c2 < l THEN c2 ELSE c2 - l) <= r2 BY <1>3, <2>1, <3>2, <3>3, TrafficMoves
    <3> QED BY <3>2, <3>3, <3>4
  <2> QED BY <2>2, <2>3
<1>7. Traffic!Once' BY <1>5, <1>6 DEF Traffic!Once
<1>8. ASSUME ~x8, x5.active # None, x4' = x7', x1' >= x5.at, Traffic!Date(x1') # x5.active
      PROVE  T + x2' <= x3'
  <2>1. x5.at > 0 /\ Traffic!Date(x5.at) = x5.active BY <1>2, <1>8 DEF Traffic!Fresh
  <2>2. CASE x2' = 0
    <3>1. Traffic!Since' = 0
      <4>1. CASE x5.days[x5.active].last = 0 BY <1>2, <1>8, <2>2, <4>1 DEF Traffic!Since
      <4>2. CASE x5.days[x5.active].last # 0
        <5>1. x5.days[x5.active].last \in Nat BY <1>2, <1>8 DEF Traffic!Whole
        <5> QED BY <1>2, <1>8, <2>2, <4>2, <5>1 DEF Traffic!Since
      <4> QED BY <4>1, <4>2
    <3> QED BY <1>6, <2>2, <3>1
  <2>3. CASE x4 = x7 /\ x1 >= x5.at /\ Traffic!Date(x1) # x5.active
    <3>1. T + x2 <= x3 BY <1>2, <1>5, <1>8, <2>3 DEF Traffic!Fresh
    <3> QED BY <1>3, <3>1
  <2> QED BY <1>1, <1>8, <2>1, <2>2, <2>3
<1>9. Traffic!Date(x1)' = Traffic!Date(x1') /\ Traffic!Date(x5.at)' = Traffic!Date(x5.at) BY <1>2 DEF Traffic!Date
<1>10. Traffic!Fresh' BY <1>2, <1>5, <1>8, <1>9 DEF Traffic!Fresh
<1> QED BY <1>4, <1>7, <1>10

LEMMA TrafficTick == ASSUME Traffic!TrafficInv, Traffic!Tick PROVE Traffic!TrafficInv'
<1>1. /\ x1 < TrafficNow /\ x1' = x1 + 1 /\ x2' = IF x1 > 0 /\ Traffic!Date(x1 + 1) # Traffic!Date(x1) THEN 0 ELSE x2
      /\ UNCHANGED <<x3, x4, x5, x7, x8, x10>>
    BY DEF Traffic!Tick
<1>2. x1 \in 0..TrafficNow /\ TrafficNow \in Nat BY TrafficAssumption DEF Traffic!TrafficInv, Traffic!Shapes
<1>3. Traffic!Shapes' BY <1>1, <1>2 DEF Traffic!TrafficInv, Traffic!Shapes
<1>4. ASSUME ~x10', x5.at > 0, Traffic!Date(x5.at) = x5.active, x4' = x7', x1' >= x5.at, Traffic!Date(x1') # x5.active
      PROVE  x2' = 0 \/ (x4 = x7 /\ x1 >= x5.at /\ Traffic!Date(x1) # x5.active)
  <2>1. x5.at \in Nat BY <1>1, <1>4 DEF Traffic!TrafficInv, Traffic!Whole
  <2>2. x1' # x5.at BY <1>4
  <2>3. x1 >= x5.at /\ x1 > 0 BY <1>1, <1>2, <1>4, <2>1, <2>2
  <2> QED BY <1>1, <1>4, <2>3
<1>5. (x2' = x2 /\ x3' = x3) \/ (x2' = 0 /\ x3' = x3) BY <1>1
<1> QED BY <1>1, <1>3, <1>4, <1>5, TrafficKeeps

LEMMA TrafficFlows == ASSUME Traffic!TrafficInv, Traffic!Traffic PROVE Traffic!TrafficInv'
<1>1. /\ x2' = x2 + 1 /\ x3' = x3 + 1 /\ UNCHANGED <<x1, x4, x5, x7, x8, x10>>
    BY DEF Traffic!Traffic
<1>2. Traffic!Shapes' BY <1>1 DEF Traffic!TrafficInv, Traffic!Shapes
<1> QED BY <1>1, <1>2, TrafficKeeps

LEMMA TrafficCorrect == ASSUME Traffic!TrafficInv, NEW t \in 0..TrafficNow, Traffic!Correct(t) PROVE Traffic!TrafficInv'
<1>1. x1' = t /\ x4' = x4 + 1 /\ x2' \in {0, x2} /\ UNCHANGED <<x3, x5, x7, x8, x10>>
    BY DEF Traffic!Correct
<1>2. Traffic!Shapes' BY <1>1 DEF Traffic!TrafficInv, Traffic!Shapes
<1>3. x4' # x7'
  <2>1. x4 \in Nat /\ x7 \in Nat /\ x7 <= x4 BY DEF Traffic!TrafficInv, Traffic!Shapes
  <2> QED BY <1>1, <2>1
<1> QED BY <1>1, <1>2, <1>3, TrafficKeeps

LEMMA TrafficSetBack == ASSUME Traffic!TrafficInv, NEW t \in 0..TrafficNow, Traffic!SetBack(t) PROVE Traffic!TrafficInv'
<1>1. t < x5.at /\ x1' = t /\ x2' \in {0, x2} /\ UNCHANGED <<x3, x4, x5, x7, x8, x10>>
    BY DEF Traffic!SetBack
<1>2. Traffic!Shapes' BY <1>1 DEF Traffic!TrafficInv, Traffic!Shapes
<1>3. ~x10' => ~(x1' >= x5.at)
  <2>1. SUFFICES ASSUME ~x10' PROVE ~(x1' >= x5.at) OBVIOUS
  <2>2. x5.at \in Nat BY <1>1, <2>1 DEF Traffic!TrafficInv, Traffic!Whole
  <2>3. t \in Nat OBVIOUS
  <2> QED BY <1>1, <2>2, <2>3
<1> QED BY <1>1, <1>2, <1>3, TrafficKeeps

LEMMA TrafficLoad == ASSUME Traffic!TrafficInv, Traffic!Load PROVE Traffic!TrafficInv'
<1>1. /\ x5' = x6 /\ x4' = 0 /\ x7' = 0 /\ x8' = FALSE
      /\ x10' = (x10 \/ x4 # x7 \/ x8 \/ x5 # x6) /\ UNCHANGED <<x1, x2, x3>>
    BY DEF Traffic!Load
<1>2. x10' \in BOOLEAN
  <2>1. (x10 \/ x4 # x7 \/ x8 \/ x5 # x6) \in BOOLEAN OBVIOUS
  <2> QED BY <1>1, <2>1, Zenon
<1>7. x8' \in BOOLEAN BY <1>1
<1>8. x4' \in Nat /\ x7' \in Nat /\ x7' <= x4' BY <1>1
<1>9. x1' = x1 /\ x2' = x2 /\ x3' = x3 BY <1>1
<1>3. Traffic!Shapes' BY <1>2, <1>7, <1>8, <1>9 DEF Traffic!TrafficInv, Traffic!Shapes
<1>4. ~x10' => ~x10 /\ x4 = x7 /\ ~x8 /\ x5 = x6 BY <1>1
<1>5. x8 \in BOOLEAN BY DEF Traffic!TrafficInv, Traffic!Shapes
<1>6. ~x10' => ~x10 /\ x4 = x7 /\ x5' = x5 /\ x8' = x8 BY <1>1, <1>4, <1>5
<1> QED BY <1>1, <1>3, <1>6, TrafficKeeps

LEMMA TrafficSame == ASSUME Traffic!TrafficInv, UNCHANGED Traffic!vars PROVE Traffic!TrafficInv'
<1>1. UNCHANGED <<x1, x2, x3, x4, x5, x7, x8, x10>> BY DEF Traffic!vars
<1>2. Traffic!Shapes' BY <1>1 DEF Traffic!TrafficInv, Traffic!Shapes
<1> QED BY <1>1, <1>2, TrafficKeeps

LEMMA TrafficInit == ASSUME Traffic!Init PROVE Traffic!TrafficInv
<1>1. /\ x1 = 1 /\ x2 = 0 /\ x3 = 0 /\ x4 = 0 /\ x7 = 0 /\ x5 = Traffic!Empty /\ x8 = FALSE /\ x10 = FALSE
    BY DEF Traffic!Init
<1>2. Traffic!Shapes
  <2>1. x1 \in 0..TrafficNow BY <1>1, TrafficAssumption
  <2>2. x8 \in BOOLEAN /\ x10 \in BOOLEAN BY <1>1
  <2> QED BY <1>1, <2>1, <2>2 DEF Traffic!Shapes
<1>3. DOMAIN x5.days = {} /\ x5.active = None /\ x5.at = 0 BY <1>1 DEF Traffic!Empty
<1>4. Traffic!Whole
  <2>1. x5 = [days |-> x5.days, at |-> x5.at, active |-> x5.active] BY <1>1 DEF Traffic!Empty
  <2> QED BY <1>3, <2>1 DEF Traffic!Whole
<1>5. Traffic!Total(x5) = 0 BY <1>3, TrafficNothing
<1>6. Traffic!Once BY <1>1, <1>3, <1>5 DEF Traffic!Once, Traffic!Since
<1>7. Traffic!Fresh BY <1>3 DEF Traffic!Fresh
<1> QED BY <1>2, <1>4, <1>6, <1>7 DEF Traffic!TrafficInv

\* What the history is before a sample is applied.
LEMMA TrafficBase ==
    ASSUME Traffic!Whole
    PROVE  \E b : /\ b = Traffic!Base /\ b = [days |-> b.days, at |-> b.at, active |-> b.active] /\ b.days = x5.days /\ b.active = x5.active
                  /\ b.at \in Nat /\ (~Traffic!Told => b = x5) /\ Traffic!Total(b) = Traffic!Total(x5)
<1> DEFINE b == [days |-> x5.days, at |-> IF Traffic!Told THEN 0 ELSE x5.at, active |-> x5.active]
<1>1. x5 = [days |-> x5.days, at |-> x5.at, active |-> x5.active] /\ x5.at \in Nat BY DEF Traffic!Whole
<1>2. b = Traffic!Base
  <2>1. CASE Traffic!Told
    <3>1. Traffic!Base = [x5 EXCEPT !.at = 0] BY <2>1 DEF Traffic!Base
    <3> QED BY <1>1, <2>1, <3>1
  <2>2. CASE ~Traffic!Told BY <1>1, <2>2 DEF Traffic!Base
  <2> QED BY <2>1, <2>2
<1>3. ~Traffic!Told => b = x5 BY <1>1
<1>4. b.at \in Nat BY <1>1
<1>5. b.days = x5.days /\ b.active = x5.active OBVIOUS
<1>6. b = [days |-> b.days, at |-> b.at, active |-> b.active] OBVIOUS
<1> HIDE DEF b
<1>7. Traffic!Total(b) = Traffic!Total(x5) BY <1>5 DEF Traffic!Total
<1> QED BY <1>2, <1>3, <1>4, <1>5, <1>6, <1>7

\* What a sample adds was not counted before.
LEMMA TrafficIncrement ==
    ASSUME Traffic!Shapes, Traffic!Whole, Traffic!Once, Traffic!Fresh, NEW b, b.days = x5.days, b.active = x5.active, NEW label, label = (x8 \/ Traffic!Told)
    PROVE  Traffic!Increment(b, Traffic!Date(x1), label) \in Nat /\ Traffic!Total(x5) + Traffic!Increment(b, Traffic!Date(x1), label) <= x3
<1>1. x2 \in Nat /\ x3 \in Nat BY DEF Traffic!Shapes
<1>2. PICK T \in Nat : T = Traffic!Total(x5) BY TrafficTotal
<1>3. T + Traffic!Since <= x3 BY <1>2 DEF Traffic!Once
<1>4. CASE x5.active = None
  <2>1. Traffic!Latest(b) = None BY <1>4 DEF Traffic!Latest, Traffic!Whole
  <2>2. Traffic!Increment(b, Traffic!Date(x1), label) = x2 BY <2>1 DEF Traffic!Increment
  <2>3. Traffic!Since = x2 BY <1>4 DEF Traffic!Since
  <2> QED BY <1>1, <1>2, <1>3, <2>2, <2>3
<1>5. CASE x5.active # None
  <2>1. Traffic!Latest(b) = x5.active BY <1>5 DEF Traffic!Latest
  <2>2. PICK l \in Nat : l = x5.days[x5.active].last BY <1>5 DEF Traffic!Whole
  <2>3. Traffic!Since = (IF x2 < l THEN x2 ELSE x2 - l) BY <1>5, <2>2 DEF Traffic!Since
  <2>4. b.days[Traffic!Latest(b)].last = l BY <2>1, <2>2
  <2>5. CASE x5.active # Traffic!Date(x1) /\ ~label
    <3>1. Traffic!Increment(b, Traffic!Date(x1), label) = x2 BY <2>1, <2>5 DEF Traffic!Increment
    <3>2. ~x8 /\ ~Traffic!Told BY <2>5
    <3>3. x5.at \in Nat /\ x1 \in Nat /\ x4 = x7 /\ x1 >= x5.at BY <3>2 DEF Traffic!Told, Traffic!Whole, Traffic!Shapes
    <3>4. T + x2 <= x3 BY <1>2, <1>5, <2>5, <3>2, <3>3 DEF Traffic!Fresh
    <3> QED BY <1>1, <1>2, <3>1, <3>4
  <2>6. CASE ~(x5.active # Traffic!Date(x1) /\ ~label)
    <3>1. Traffic!Increment(b, Traffic!Date(x1), label) = IF x2 < l THEN x2 ELSE x2 - l
      BY <1>5, <2>1, <2>4, <2>6 DEF Traffic!Increment
    <3> QED BY <1>1, <1>2, <1>3, <2>2, <2>3, <3>1
  <2> QED BY <2>5, <2>6
<1> QED BY <1>4, <1>5

LEMMA TrafficRecord == ASSUME Traffic!TrafficInv, Traffic!Record PROVE Traffic!TrafficInv'
<1>1. x7' = x4 /\ UNCHANGED <<x1, x2, x3, x4, x10>> BY DEF Traffic!Record
<1>2. x8' \in BOOLEAN
  <2>1. Traffic!Label \in BOOLEAN BY DEF Traffic!Label
  <2> QED BY <2>1 DEF Traffic!Record
<1>3. Traffic!Shapes' BY <1>1, <1>2 DEF Traffic!TrafficInv, Traffic!Shapes
<1>4. SUFFICES ASSUME ~x10 PROVE Traffic!Whole' /\ Traffic!Once' /\ Traffic!Fresh' BY <1>1, <1>3 DEF Traffic!TrafficInv
<1>5. Traffic!Shapes /\ Traffic!Whole /\ Traffic!Once /\ Traffic!Fresh BY <1>4 DEF Traffic!TrafficInv
<1>6. PICK b : /\ b = Traffic!Base /\ b = [days |-> b.days, at |-> b.at, active |-> b.active] /\ b.days = x5.days /\ b.active = x5.active
               /\ b.at \in Nat /\ (~Traffic!Told => b = x5) /\ Traffic!Total(b) = Traffic!Total(x5)
    BY <1>5, TrafficBase
<1>7. CASE Traffic!Refused(Traffic!Base, x1, Traffic!Label) /\ x5' = Traffic!Base /\ x8' = Traffic!Label
  <2>1. x5' = b BY <1>6, <1>7
  <2>2. Traffic!Whole'
    <3>1. \A d \in DOMAIN b.days : b.days[d].bytes \in Nat /\ b.days[d].last \in Nat BY <1>5, <1>6 DEF Traffic!Whole
    <3>2. DOMAIN b.days \subseteq 1..TrafficNow BY <1>5, <1>6 DEF Traffic!Whole
    <3>3. IF b.active = None THEN DOMAIN b.days = {} ELSE b.active \in DOMAIN b.days BY <1>5, <1>6 DEF Traffic!Whole
    <3> QED BY <1>6, <2>1, <3>1, <3>2, <3>3 DEF Traffic!Whole
  <2>3. Traffic!Total(x5)' = Traffic!Total(x5) BY <1>6, <2>1 DEF Traffic!Total
  <2>4. Traffic!Since' = Traffic!Since BY <1>1, <1>6, <2>1 DEF Traffic!Since
  <2>5. Traffic!Once' BY <1>1, <1>5, <2>3, <2>4 DEF Traffic!Once
  <2>6. Traffic!Fresh'
    <3>1. CASE Traffic!Told
      <4>1. x8' BY <1>7, <3>1 DEF Traffic!Label
      <4> QED BY <4>1 DEF Traffic!Fresh
    <3>2. CASE ~Traffic!Told
      <4>1. x5' = x5 /\ x4 = x7 BY <1>6, <2>1, <3>2 DEF Traffic!Told
      <4>2. x8' => x8 BY <1>7, <3>2 DEF Traffic!Label
      <4>3. x8 => x8' BY <1>7 DEF Traffic!Label
      <4>4. Traffic!Date(x1)' = Traffic!Date(x1) /\ Traffic!Date(x5.at)' = Traffic!Date(x5.at) BY <1>1, <4>1 DEF Traffic!Date
      <4> QED BY <1>1, <1>5, <2>3, <4>1, <4>2, <4>3, <4>4 DEF Traffic!Fresh
    <3> QED BY <3>1, <3>2
  <2> QED BY <2>2, <2>5, <2>6
<1>8. CASE ~Traffic!Refused(Traffic!Base, x1, Traffic!Label) /\ x5' = Traffic!Applied(Traffic!Base, x1, Traffic!Label) /\ x8' = FALSE
  <2>1. x1 # 0 BY <1>8 DEF Traffic!Refused
  <2>2. x1 \in 1..TrafficNow /\ x1 \in Nat BY <1>5, <2>1 DEF Traffic!Shapes
  <2>3. PICK d \in 1..TrafficNow : d = Traffic!Date(x1) BY <2>2, TrafficDate
  <2>4. PICK label : label = (x8 \/ Traffic!Told) /\ label = Traffic!Label BY DEF Traffic!Label
  <2>5. PICK inc \in Nat : inc = Traffic!Increment(b, d, label) /\ Traffic!Total(x5) + inc <= x3 BY <1>5, <1>6, <2>3, <2>4, TrafficIncrement
  <2>6. /\ DOMAIN b.days \subseteq 1..TrafficNow /\ (\A e \in DOMAIN b.days : b.days[e].bytes \in Nat /\ b.days[e].last \in Nat)
        /\ x2 \in Nat /\ x3 \in Nat
      BY <1>5, <1>6 DEF Traffic!Whole, Traffic!Shapes
  <2>7. PICK old \in Nat : old = IF d \in DOMAIN b.days THEN b.days[d].bytes ELSE 0 BY <2>6
  <2>8. PICK days : days = [e \in DOMAIN b.days \cup {d} |-> IF e = d THEN [bytes |-> old + inc, last |-> x2] ELSE b.days[e]] OBVIOUS
  <2>9. x5' = [days |-> Traffic!Evict(days, d), at |-> x1, active |-> d]
    <3> DEFINE old0 == IF Traffic!Date(x1) \in DOMAIN b.days THEN b.days[Traffic!Date(x1)].bytes ELSE 0
               days0 == [e \in DOMAIN b.days \cup {Traffic!Date(x1)} |->
                            IF e = Traffic!Date(x1) THEN [bytes |-> old0 + Traffic!Increment(b, Traffic!Date(x1), label), last |-> x2] ELSE b.days[e]]
    <3>1. Traffic!Applied(b, x1, label) = [days |-> Traffic!Evict(days0, Traffic!Date(x1)), at |-> x1, active |-> Traffic!Date(x1)] BY Zenon DEF Traffic!Applied
    <3>2. old0 = old BY <2>3, <2>7
    <3> HIDE DEF old0
    <3>3. days0 = days BY <2>3, <2>5, <2>8, <3>2
    <3> HIDE DEF days0
    <3>4. x5' = Traffic!Applied(b, x1, label) BY <1>6, <1>8, <2>4
    <3> QED BY <2>3, <3>1, <3>3, <3>4
  <2>10. PICK t : t = x5' /\ t.days = Traffic!Evict(days, d) /\ t.at = x1 /\ t.active = d /\ t = [days |-> t.days, at |-> t.at, active |-> t.active]
      BY <2>9
  <2>11. /\ Traffic!Total(b) \in Nat /\ Traffic!Total(t) \in Nat /\ Traffic!Total(t) <= Traffic!Total(b) + inc
         /\ DOMAIN t.days \subseteq 1..TrafficNow /\ d \in DOMAIN t.days /\ t.days[d].last = x2
         /\ \A e \in DOMAIN t.days : t.days[e].bytes \in Nat /\ t.days[e].last \in Nat
    <3>1. /\ DOMAIN days = DOMAIN b.days \cup {d} /\ days[d].bytes = old + inc /\ days[d].last = x2
          /\ \A e \in DOMAIN b.days : e # d => days[e] = b.days[e]
        BY <2>8
    <3>2. t.days = Traffic!Evict(days, d) BY <2>10
    <3>3. DOMAIN days \subseteq 1..TrafficNow /\ d \in DOMAIN days BY <2>6, <3>1
    <3>4. /\ d \in DOMAIN t.days /\ DOMAIN t.days \subseteq DOMAIN days /\ \A e \in DOMAIN t.days : t.days[e] = days[e]
      BY <3>2, <3>3, TrafficEvict
    <3>5. \A e \in DOMAIN days : days[e].bytes \in Nat /\ days[e].last \in Nat
      <4>1. days[d].bytes \in Nat /\ days[d].last \in Nat BY <2>6, <2>7, <3>1
      <4>2. \A e \in DOMAIN days : e # d => e \in DOMAIN b.days /\ days[e] = b.days[e] BY <3>1
      <4> QED BY <2>6, <4>1, <4>2
    <3>6. PICK w : w = [days |-> days] OBVIOUS
    <3>7. w.days = days BY <3>6
    <3>8. (d \in DOMAIN b.days => days[d].bytes = b.days[d].bytes + inc) /\ (d \notin DOMAIN b.days => days[d].bytes = inc)
      BY <2>7, <3>1
    <3>9. Traffic!Total(b) \in Nat /\ Traffic!Total(w) \in Nat /\ Traffic!Total(w) = Traffic!Total(b) + inc
      <4>1. DOMAIN w.days = DOMAIN b.days \cup {d} /\ \A e \in DOMAIN b.days : e # d => w.days[e] = b.days[e] BY <3>1, <3>7
      <4>2. (d \in DOMAIN b.days => w.days[d].bytes = b.days[d].bytes + inc) /\ (d \notin DOMAIN b.days => w.days[d].bytes = inc) BY <3>7, <3>8
      <4>3. DOMAIN b.days \subseteq 1..TrafficNow /\ \A e \in DOMAIN b.days : b.days[e].bytes \in Nat BY <2>6
      <4> QED BY <4>1, <4>2, <4>3, TrafficAdds
    <3>10. Traffic!Total(t) \in Nat /\ Traffic!Total(t) <= Traffic!Total(w)
      BY <3>3, <3>4, <3>5, <3>7, TrafficLess
    <3>11. t.days[d].last = x2 BY <3>1, <3>4
    <3>12. Traffic!Total(b) \in Nat /\ Traffic!Total(t) \in Nat /\ Traffic!Total(t) <= Traffic!Total(b) + inc BY <3>9, <3>10
    <3>13. \A e \in DOMAIN t.days : t.days[e].bytes \in Nat /\ t.days[e].last \in Nat BY <3>4, <3>5
    <3>14. DOMAIN t.days \subseteq 1..TrafficNow BY <3>3, <3>4
    <3> QED BY <3>4, <3>11, <3>12, <3>13, <3>14
  <2>12. d # None BY TrafficAssumption
  <2>13. Traffic!Whole' BY <2>2, <2>10, <2>11, <2>12 DEF Traffic!Whole
  <2>14. Traffic!Total(x5)' = Traffic!Total(t) BY <2>10 DEF Traffic!Total
  <2>15. Traffic!Since' = 0 BY <1>1, <2>6, <2>10, <2>11, <2>12 DEF Traffic!Since
  <2>16. Traffic!Once' BY <1>1, <1>6, <2>5, <2>6, <2>11, <2>14, <2>15 DEF Traffic!Once
  <2>17. Traffic!Date(x1)' = d /\ Traffic!Date(x5.at)' = d BY <1>1, <2>3, <2>10 DEF Traffic!Date
  <2>18. Traffic!Fresh' BY <1>1, <2>2, <2>10, <2>17 DEF Traffic!Fresh
  <2> QED BY <2>13, <2>16, <2>18
<1> QED BY <1>7, <1>8 DEF Traffic!Record

LEMMA TrafficStays == ASSUME Traffic!TrafficInv, [Traffic!Next]_(Traffic!vars) PROVE Traffic!TrafficInv'
<1>1. CASE \E t \in 0..TrafficNow : Traffic!Correct(t) \/ Traffic!SetBack(t)
    BY <1>1, TrafficCorrect, TrafficSetBack
<1> QED BY <1>1, TrafficRecord, TrafficLoad, TrafficTick, TrafficFlows, TrafficSame DEF Traffic!Next

LEMMA TrafficOnce == ASSUME Traffic!TrafficInv PROVE Traffic!CountedOnce
<1>1. SUFFICES ASSUME ~x10 PROVE Traffic!Total(x5) <= x3 BY DEF Traffic!CountedOnce
<1>2. Traffic!Whole /\ Traffic!Once /\ x2 \in Nat /\ x3 \in Nat BY <1>1 DEF Traffic!TrafficInv, Traffic!Shapes
<1>3. Traffic!Total(x5) \in Nat BY <1>2, TrafficTotal
<1>4. Traffic!Since \in Nat
  <2>1. CASE x5.active = None BY <1>2, <2>1 DEF Traffic!Since
  <2>2. CASE x5.active # None
    <3>1. x5.days[x5.active].last \in Nat BY <1>2, <2>2 DEF Traffic!Whole
    <3> QED BY <1>2, <2>2, <3>1 DEF Traffic!Since
  <2> QED BY <2>1, <2>2
<1> QED BY <1>2, <1>3, <1>4 DEF Traffic!Once

LEMMA TrafficAtWork ==
    ASSUME live' = "traffic", [AllNext]_all
    PROVE  live = "traffic" /\ [Traffic!Next]_(Traffic!vars)
BY DEF AllNext, all, Traffic!vars, BusStep, FilesStep, DnsStep, ServiceStep, PanelStep, SpeedStep, TrafficStep,
       HistoryStep, StateStep, Keep0, Keep5, Keep6, Keep8, Keep9, Keep11, Keep13

\* For a day of any length, any number of kept days, any traffic and any order
\* of samples, midnights, corrections of the clock, failed writes and restarts:
\* the days add up to no more than what went over the air, except where a
\* restart made datad forget a correction or a sample (traffic_history.rs,
\* record, apply_sample and load).
THEOREM CountedOnceHolds == AllSpec => []CountedOnce
<1> DEFINE Inv == live = "traffic" => Traffic!TrafficInv
<1>1. AllInit => Inv
  BY TrafficInit DEF AllInit
<1>2. Inv /\ [AllNext]_all => Inv'
  BY TrafficAtWork, TrafficStays
<1>3. Inv => CountedOnce
  BY TrafficOnce DEF CountedOnce
<1> QED
  BY <1>1, <1>2, <1>3, PTL DEF AllSpec
=============================================================================
