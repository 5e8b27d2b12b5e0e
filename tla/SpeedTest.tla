------------------------------ MODULE SpeedTest ------------------------------
(***************************************************************************)
(* The download test (speedtest.rs): one task per test downloads in        *)
(* several runs of several threads and publishes after each; stop aborts   *)
(* it, but an abort lands only at the task's next await, so the generation *)
(* tells a task whether the status is still its own.                       *)
(***************************************************************************)
EXTENDS Naturals

CONSTANTS
    Threads,        \* threads of a request
    Runs,           \* runs of a request
    MaxGeneration   \* bound: starts and stops

VARIABLES
    status,      \* state, received, failed, completed
    generation,
    task,        \* task[g]: the task that start spawned for generation g
    available,   \* curl is a file and a default route exists
    aborted      \* generations whose task was told to abort

vars == <<status, generation, task, available, aborted>>

Generations == 1..MaxGeneration

NoTask == [step |-> "none", run |-> 0, left |-> 0, received |-> 0, failed |-> 0]

NewTask == [step |-> "fetch", run |-> 0, left |-> Threads, received |-> 0, failed |-> 0]

Live(g) == g \in Generations /\ task[g].step # "none"

\* Status::idle.
IdleStatus == [state |-> IF available THEN "idle" ELSE "unavailable", received |-> 0, failed |-> 0, completed |-> 0]

\* refresh_availability: not during a test and not over its result.
RefreshAvailability ==
    /\ status.state \in {"idle", "unavailable"}
    /\ status' = [status EXCEPT !.state = IF available THEN "idle" ELSE "unavailable"]
    /\ UNCHANGED <<generation, task, available, aborted>>

\* start_on_interface, under the lock.
Start ==
    /\ available
    /\ status.state # "running"
    /\ generation < MaxGeneration
    /\ generation' = generation + 1
    /\ status' = [state |-> "running", received |-> 0, failed |-> 0, completed |-> 0]
    /\ task' = [task EXCEPT ![generation'] = NewTask]
    /\ UNCHANGED <<available, aborted>>

\* stop, under the lock; then it aborts the task and waits for at most 2 s.
Stop ==
    /\ status.state = "running"
    /\ generation < MaxGeneration
    /\ generation' = generation + 1
    /\ status' = [status EXCEPT !.state = "cancelled"]
    /\ aborted' = aborted \cup {generation}
    /\ UNCHANGED <<task, available>>

(***************************************************************************)
(* run, the task of generation g.                                          *)
(***************************************************************************)

\* fetch ends for one thread: whole, in part, or with nothing.
Fetch(g, bytes, whole) ==
    /\ Live(g) /\ task[g].step = "fetch" /\ task[g].left > 0
    /\ whole => bytes = 1
    /\ task' = [task EXCEPT ![g].left = @ - 1, ![g].received = @ + bytes, ![g].failed = @ + (IF whole THEN 0 ELSE 1)]
    /\ UNCHANGED <<status, generation, available, aborted>>

\* Every thread is joined, or RUN_TIMEOUT aborts those that are left.
RunEnds(g) ==
    /\ Live(g) /\ task[g].step = "fetch"
    /\ task' = [task EXCEPT ![g].step = "publish", ![g].failed = @ + task[g].left, ![g].left = 0]
    /\ UNCHANGED <<status, generation, available, aborted>>

MutStale(g) == FALSE

\* Under the lock: the status is not this task's any more.
Stale(g) == generation # g

\* The result of one run, and the next run.
Publish(g) ==
    /\ Live(g) /\ task[g].step = "publish"
    /\ \/ Stale(g) /\ task' = [task EXCEPT ![g] = NoTask] /\ UNCHANGED status
       \/ /\ ~Stale(g)
          /\ status' = [status EXCEPT !.received = task[g].received, !.failed = task[g].failed, !.completed = task[g].run + 1]
          /\ task' = [task EXCEPT ![g].run = @ + 1, ![g].left = Threads,
                                  ![g].step = IF task[g].run + 1 < Runs THEN "fetch" ELSE "finish"]
    /\ UNCHANGED <<generation, available, aborted>>

\* The result of the test.
Finish(g) ==
    /\ Live(g) /\ task[g].step = "finish"
    /\ task' = [task EXCEPT ![g] = NoTask]
    /\ \/ Stale(g) /\ UNCHANGED status
       \/ /\ ~Stale(g)
          /\ status' = [status EXCEPT !.state = IF task[g].received = 0 THEN "error"
                                                ELSE IF task[g].failed > 0 THEN "partial" ELSE "completed"]
    /\ UNCHANGED <<generation, available, aborted>>

\* The abort lands, at an await.
Abort(g) ==
    /\ Live(g) /\ g \in aborted
    /\ task' = [task EXCEPT ![g] = NoTask]
    /\ UNCHANGED <<status, generation, available, aborted>>

\* The route or curl comes or goes.
Route ==
    /\ available' = ~available
    /\ UNCHANGED <<status, generation, task, aborted>>

Init ==
    /\ available \in BOOLEAN
    /\ status = IdleStatus
    /\ generation = 0
    /\ task = [g \in Generations |-> NoTask]
    /\ aborted = {}

Next ==
    \/ RefreshAvailability \/ Start \/ Stop \/ Route
    \/ \E g \in Generations :
         \/ \E bytes \in {0, 1}, whole \in BOOLEAN : Fetch(g, bytes, whole)
         \/ RunEnds(g) \/ Publish(g) \/ Finish(g) \/ Abort(g)

Spec == Init /\ [][Next]_vars

(***************************************************************************)
(* Properties.                                                             *)
(***************************************************************************)

\* The status says "running" exactly while the task of the newest generation
\* lives, and its figures are that task's: a stopped test that still runs
\* neither ends nor colours the next one (start, stop, run), and no test is left
\* "running", which would refuse every later start.
StatusIsTheTask ==
    /\ status.state = "running" <=> Live(generation)
    /\ Live(generation) => status.completed = task[generation].run /\ status.received <= task[generation].received
    /\ status.state = "completed" => status.completed = Runs /\ status.received = Runs * Threads

Task == [step : {"none", "fetch", "publish", "finish"}, run : Nat, left : Nat,
         received : Nat, failed : Nat]

Status == [state : {"idle", "unavailable", "running", "cancelled", "error", "partial",
                    "completed"}, received : Nat, failed : Nat, completed : Nat]

\* How far a task is: a test without a failed thread has received everything
\* that the runs so far have asked for.
Progress(t) ==
    /\ t.step \in {"fetch", "publish"} => t.run < Runs
    /\ t.step = "fetch" /\ t.failed = 0 => t.received + t.left = (t.run + 1) * Threads
    /\ t.step = "publish" /\ t.failed = 0 => t.received = (t.run + 1) * Threads
    /\ t.step = "finish" => t.run = Runs /\ (t.failed = 0 => t.received = t.run * Threads)

\* The inductive invariant of StatusIsTheTask: there is no task of a later
\* generation, only earlier ones are aborted, and the status has followed the
\* present one.
SpeedInv ==
    /\ available \in BOOLEAN
    /\ generation \in 0..MaxGeneration
    /\ aborted \subseteq 1..(generation - 1)
    /\ status \in Status
    /\ task \in [Generations -> Task]
    /\ \A g \in Generations : g > generation => task[g] = NoTask
    /\ \A g \in Generations : Progress(task[g])
    /\ Live(generation) /\ task[generation].step = "finish"
         => status.received = task[generation].received
    /\ StatusIsTheTask
=============================================================================
