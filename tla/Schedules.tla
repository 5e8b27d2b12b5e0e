----------------------------- MODULE Schedules -----------------------------
(***************************************************************************)
(* The daily reboot plan (rust/src/reboot_schedule.rs), the task list       *)
(* (rust/src/task_schedule.rs), their two workers and the handlers that     *)
(* edit them (rust/src/server.rs).                                          *)
(*                                                                         *)
(* A date is a number, 0 the empty one; a time of day a member of 0..Day-1.*)
(* The wall clock runs and may be stepped by anyone at any moment; datad's *)
(* own changes, which wait for the leases that the workers hold (module    *)
(* ClockDomain) and pause them meanwhile, are among these steps. A mutex is*)
(* held only inside one call, so every call is one step, and what a handler*)
(* or worker read before an await it keeps. The OEM's plan (a UCI flag) and*)
(* the clock are read anew by every caller: any answer; a round in which   *)
(* date(1) fails does nothing. The order of the list, which picks the first*)
(* of several due tasks, is left open, as are the actions themselves: a    *)
(* reboot, another reviewed action, or one that action_valid refuses.      *)
(***************************************************************************)
EXTENDS Integers, Sequences, FiniteSets, FiniteSetTheorems, TLAPS

CONSTANTS
    Ids,         \* task ids
    MAX_TASKS,   \* the limit of the list, and of one drain (16)
    Day,         \* minutes of a day
    Days,        \* bound: dates are 1..Days
    Inputs,      \* bound: the task definitions requests bring
    MaxUpsets    \* bound: settings requests, changes of the clock, failed
                 \* writes, kills and unreadable files, counted together

VARIABLES
    now,        \* the local clock: [date, time]
    plan,       \* Schedule.stored, and its file
    planFile,
    planError,  \* Schedule.error
    tasks,      \* TaskSchedule.stored.tasks, and its file
    taskFile,
    taskError,  \* TaskSchedule.error
    bad,        \* the files that cannot be loaded
    up,         \* datad runs
    pw,         \* the plan's worker: its pc and the clock it read
    tw,         \* the task worker: its pc, clock, round and current job
    put,        \* a task edit that has passed the check of the plan
    upsets,     \* bound: upsets so far
    \* History.
    asked,      \* the last accepted edits: [plan, tasks]
    ran,        \* the dates each task, as now defined, was run on
    planRan,    \* the dates the plan rebooted the device on
    touched     \* the plan or the list was edited since the drain began

planVars == <<plan, planFile, planError>>
taskVars == <<tasks, taskFile, taskError>>
history == <<asked, ran, planRan, touched>>
vars == <<now, planVars, taskVars, bad, up, pw, tw, put, upsets, history>>

Dates == 1..Days
Times == 0..(Day - 1)
Clock == [date : Dates, time : Times]
Actions == {"device.reboot", "other", "unreviewed"}
TaskInput == [time : Times, daily : BOOLEAN, action : Actions]
Task == [input : TaskInput, last : {0} \cup Dates, triggered : BOOLEAN,
         result : {"", "requested", "ok", "failed"}]
PlanStored == [enabled : BOOLEAN, time : Times, last : {0} \cup Dates]

ASSUME SchedulesAssumption ==
    /\ IsFiniteSet(Ids)
    /\ {MAX_TASKS, Day, Days} \subseteq Nat \ {0}
    /\ Inputs \subseteq TaskInput
    /\ MaxUpsets \in Nat

DefaultPlan == [enabled |-> FALSE, time |-> 0, last |-> 0]
NoTasks == [id \in {} |-> 0]
NoClock == [date |-> 0, time |-> 0]
NoInput == [time |-> 0, daily |-> FALSE, action |-> "other"]
NoJob == [id |-> "", input |-> NoInput, ok |-> FALSE, current |-> FALSE]
NoPut == [pc |-> "idle", id |-> "", input |-> NoInput]
PlanIdle == [pc |-> "idle", clock |-> NoClock]
TaskIdle == [pc |-> "idle", clock |-> NoClock, n |-> 0, job |-> NoJob]

\* The partial function ts with id defined as t.
With(ts, id, t) == [i \in DOMAIN ts \cup {id} |-> IF i = id THEN t ELSE ts[i]]
Without(ts, id) == [i \in DOMAIN ts \ {id} |-> ts[i]]

\* action_valid: the reviewed actions with their exact parameters.
ActionValid(action) == action # "unreviewed"

\* input_valid.
InputValid(input) == ActionValid(input.action) /\ input.time \in Times

\* stored_valid: what load accepts of a readable file.
StoredValid(ts) ==
    /\ Cardinality(DOMAIN ts) <= MAX_TASKS
    /\ \A id \in DOMAIN ts : InputValid(ts[id].input)

\* A start with whatever an earlier process saved, nothing of it run yet.
Init ==
    /\ now = [date |-> 1, time |-> Day - 1]
    /\ plan \in {DefaultPlan} \cup {[enabled |-> TRUE, time |-> t, last |-> 0] : t \in Times}
    /\ \E saved \in SUBSET Ids :
          \E inputs \in [saved -> Inputs] :
             tasks = [id \in saved |-> [input |-> inputs[id], last |-> 0,
                                       triggered |-> FALSE, result |-> ""]]
    /\ StoredValid(tasks)
    /\ planFile = plan /\ planError = ""
    /\ taskFile = tasks /\ taskError = ""
    /\ bad = {}
    /\ up = TRUE
    /\ pw = PlanIdle /\ tw = TaskIdle /\ put = NoPut
    /\ upsets = 0
    /\ asked = [plan |-> [enabled |-> plan.enabled, time |-> plan.time],
                tasks |-> [id \in DOMAIN tasks |-> tasks[id].input]]
    /\ ran = [id \in Ids |-> << >>]
    /\ planRan = << >>
    /\ touched = FALSE

\* The bound: what happens to the system, and the writes that fail by
\* themselves.
Upset == upsets < MaxUpsets /\ upsets' = upsets + 1
Counted(ok) == IF ok THEN upsets' = upsets ELSE Upset

(* The environment.                                                        *)

\* A minute passes.
Minute ==
    /\ \/ now.time < Day - 1 /\ now' = [now EXCEPT !.time = @ + 1]
       \/ /\ now.time = Day - 1 /\ now.date < Days
          /\ now' = [date |-> now.date + 1, time |-> 0]
    /\ UNCHANGED <<planVars, taskVars, bad, up, pw, tw, put, upsets,
                   history>>

\* The clock is stepped: by the OEM's services or the operator, or by datad
\* between two rounds.
Step ==
    /\ Upset
    /\ \E c \in Clock \ {now} : now' = c
    /\ UNCHANGED <<planVars, taskVars, bad, up, pw, tw, put,
                   history>>

(* Saving: a temporary file renamed into place, all or nothing.            *)

SavePlan(next, ok) ==
    /\ planFile' = IF ok THEN next ELSE planFile
    /\ bad' = IF ok THEN bad \ {"plan"} ELSE bad

SaveTasks(next, ok) ==
    /\ taskFile' = IF ok THEN next ELSE taskFile
    /\ bad' = IF ok THEN bad \ {"tasks"} ELSE bad

(* The daily reboot plan.                                                  *)

\* Schedule::set.  A plan is not enabled when it is blocked: the OEM's plan is
\* on, or the last reading of the clock failed.
SetPlan(enabled, time, blocked, ok) ==
    LET next == [plan EXCEPT !.enabled = enabled, !.time = time]
        differs == plan # next \/ planError # ""
    IN  /\ up
        /\ Upset
        /\ ~(enabled /\ blocked) /\ differs
        /\ SavePlan(next, ok)
        /\ plan' = IF ok THEN next ELSE plan
        /\ planError' = IF ok THEN "" ELSE planError
        /\ asked' = IF ok THEN [asked EXCEPT !.plan = [enabled |-> enabled, time |-> time]]
                          ELSE asked
        /\ touched' = (touched \/ ok)
        /\ UNCHANGED <<now, taskVars, up, pw, tw, put,
                       ran, planRan>>

\* The plan's worker takes a lease and reads the clock.
PlanTick ==
    /\ up /\ pw.pc = "idle"
    /\ pw' = [pc |-> "observe", clock |-> now]
    /\ UNCHANGED <<now, planVars, taskVars, bad, up, tw, put, upsets,
                   history>>

\* The plan is due at clock c.
PlanDue(c, conflict) ==
    /\ plan.enabled /\ ~conflict /\ planError = ""
    /\ c.time = plan.time
    /\ plan.last = 0 \/ plan.last < c.date

\* Schedule::observe, after the OEM's flag was read: the date is saved
\* before the reboot is requested.
PlanObserve(conflict, ok) ==
    /\ pw.pc = "observe"
    /\ IF PlanDue(pw.clock, conflict)
       THEN LET next == [plan EXCEPT !.last = pw.clock.date] IN
            /\ SavePlan(next, ok) /\ Counted(ok)
            /\ plan' = IF ok THEN next ELSE plan
            /\ planError' = IF ok THEN "" ELSE "schedule_storage_failed"
            /\ pw' = IF ok THEN [pw EXCEPT !.pc = "reboot"] ELSE PlanIdle
       ELSE /\ ok /\ Counted(ok)
            /\ pw' = PlanIdle
            /\ UNCHANGED <<plan, planFile, planError, bad>>
    /\ UNCHANGED <<now, taskVars, up, tw, put, history>>

\* device.reboot and, when it fails, reboot_failed.
PlanReboot(ok) ==
    /\ pw.pc = "reboot"
    /\ planRan' = Append(planRan, pw.clock.date)
    /\ planError' = IF ok THEN planError ELSE "device_reboot_failed"
    /\ pw' = PlanIdle
    /\ UNCHANGED <<now, plan, planFile, taskVars, bad, up, tw,
                   put, upsets, asked, ran, touched>>

(* The task list.                                                          *)

\* The plan reboots the device at the same time of day.
PlanClash(input) == plan.enabled /\ plan.time = input.time

\* What follows an accepted edit of id: the job of its former definition, if
\* one is under way, is no longer of this task.
Edited(id) ==
    /\ ran' = [ran EXCEPT ![id] = << >>]
    /\ touched' = TRUE
    /\ tw' = IF tw.job.id = id THEN [tw EXCEPT !.job.current = FALSE] ELSE tw

\* The task list is full and id is not in it.
TaskLimit(id) == id \notin DOMAIN tasks /\ Cardinality(DOMAIN tasks) = MAX_TASKS

\* upsert changes nothing: an invalid task, a full list, or what is there.
UpsertIdle(id, input) ==
    \/ ~InputValid(input)
    \/ TaskLimit(id)
    \/ id \in DOMAIN tasks /\ tasks[id].input = input /\ taskError = ""

\* TaskSchedule::upsert.  An edit arms the task anew.
Upsert(id, input, ok) ==
    LET next == With(tasks, id, [input |-> input, last |-> 0, triggered |-> FALSE,
                                 result |-> ""])
    IN  IF ~UpsertIdle(id, input)
        THEN /\ SaveTasks(next, ok)
             /\ IF ok THEN /\ tasks' = next
                           /\ taskError' = ""
                           /\ asked' = [asked EXCEPT !.tasks = With(@, id, input)]
                           /\ Edited(id)
                      ELSE UNCHANGED <<tasks, taskError, asked, ran, touched, tw>>
        ELSE ok /\ UNCHANGED <<taskVars, bad, asked, ran, touched, tw>>

\* panel_task_upsert of any other action.
Put(id, input, ok) ==
    /\ up
    /\ Upset
    /\ input.action # "device.reboot"
    /\ Upsert(id, input, ok)
    /\ UNCHANGED <<now, planVars, up, pw, put, planRan>>

\* panel_task_upsert of a reboot: checked against the plan and the OEM's flag
\* before the list is locked.
PutBegin(id, input) ==
    /\ up /\ put = NoPut
    /\ Upset
    /\ input.action = "device.reboot" /\ ~PlanClash(input)
    /\ put' = [pc |-> "commit", id |-> id, input |-> input]
    /\ UNCHANGED <<now, planVars, taskVars, bad, up, pw, tw,
                   history>>

\* ... and the rest of it; without a readable clock upsert refuses.
PutCommit(readable, ok) ==
    /\ put.pc = "commit"
    /\ put' = NoPut
    /\ Counted(ok)
    /\ IF readable THEN Upsert(put.id, put.input, ok)
                   ELSE ok /\ UNCHANGED <<taskVars, bad, asked, ran, touched, tw>>
    /\ UNCHANGED <<now, planVars, up, pw, planRan>>

\* TaskSchedule::remove.
Remove(id, ok) ==
    LET next == Without(tasks, id)
    IN  /\ up /\ id \in DOMAIN tasks
        /\ Upset
        /\ SaveTasks(next, ok)
        /\ IF ok THEN /\ tasks' = next
                      /\ taskError' = ""
                      /\ asked' = [asked EXCEPT !.tasks = Without(@, id)]
                      /\ Edited(id)
                 ELSE UNCHANGED <<tasks, taskError, asked, ran, touched, tw>>
        /\ UNCHANGED <<now, planVars, up, pw, put, planRan>>

\* The task worker takes a lease, reads the clock and starts a drain.
TaskTick ==
    /\ up /\ tw.pc = "idle"
    /\ tw' = [TaskIdle EXCEPT !.pc = "drain", !.clock = now]
    /\ touched' = FALSE
    /\ UNCHANGED <<now, planVars, taskVars, bad, up, pw, put, upsets,
                   asked, ran, planRan>>

\* Mutant: any other date will do.
MutTaskDue(task, c) ==
    /\ task.input.time = c.time
    /\ task.last # c.date
    /\ task.input.daily \/ ~task.triggered

\* The task is due at clock c.
TaskDue(task, c) ==
    /\ task.input.time = c.time
    /\ task.last = 0 \/ task.last < c.date
    /\ task.input.daily \/ ~task.triggered

Due(c) == {id \in DOMAIN tasks : taskError = "" /\ TaskDue(tasks[id], c)}

\* The rounds of a drain are used up.
Exhausted == tw.n >= MAX_TASKS

\* The drain ends, and with it the lease.
DrainEnds ==
    /\ tw.pc = "drain"
    /\ Exhausted \/ Due(tw.clock) = {}
    /\ tw' = TaskIdle
    /\ UNCHANGED <<now, planVars, taskVars, bad, up, pw, put, upsets,
                   history>>

\* The task with the attempt of a date.
Attempted(task, date) ==
    [task EXCEPT !.last = date, !.result = "requested", !.triggered = @ \/ ~task.input.daily]

\* TaskSchedule::observe: the attempt is saved before the action.
TaskObserve(id, ok) ==
    LET next == [tasks EXCEPT ![id] = Attempted(tasks[id], tw.clock.date)]
        input == tasks[id].input
    IN  /\ tw.pc = "drain" /\ ~Exhausted
        /\ id \in Due(tw.clock)
        /\ SaveTasks(next, ok) /\ Counted(ok)
        /\ IF ok
           THEN /\ tasks' = next
                /\ taskError' = taskError
                /\ tw' = [tw EXCEPT !.n = @ + 1,
                             !.pc = IF input.action = "device.reboot" THEN "check"
                                                                      ELSE "exec",
                             !.job = [id |-> id, input |-> input, ok |-> FALSE,
                                      current |-> TRUE]]
           ELSE /\ tasks' = tasks
                /\ taskError' = "task_storage_failed"
                /\ tw' = TaskIdle
        /\ UNCHANGED <<now, planVars, up, pw, put, history>>

\* A reboot is checked again against the plan and the OEM's flag; a clash
\* ends it as failed.
TaskCheck(conflict) ==
    /\ tw.pc = "check"
    /\ tw' = [tw EXCEPT !.pc = IF conflict \/ PlanClash(tw.job.input) THEN "finish"
                                                                      ELSE "exec"]
    /\ UNCHANGED <<now, planVars, taskVars, bad, up, pw, put, upsets,
                   history>>

\* The device action, its timeouts included.
TaskExec(ok) ==
    /\ tw.pc = "exec"
    /\ tw' = [tw EXCEPT !.pc = "finish", !.job.ok = ok]
    /\ ran' = IF tw.job.current
              THEN [ran EXCEPT ![tw.job.id] = Append(@, tw.clock.date)] ELSE ran
    /\ UNCHANGED <<now, planVars, taskVars, bad, up, pw, put, upsets,
                   asked, planRan, touched>>

\* Mutant: finish looks for the id alone.
MutFinishes(id, date) == id \in DOMAIN tasks

\* finish looks for the task that was attempted on that date.
Finishes(id, date) == id \in DOMAIN tasks /\ tasks[id].last = date

\* TaskSchedule::finish.
TaskFinish(ok) ==
    LET job == tw.job
        next == [tasks EXCEPT ![job.id].result = IF job.ok THEN "ok" ELSE "failed"]
    IN  /\ tw.pc = "finish"
        /\ tw' = [tw EXCEPT !.pc = "drain", !.job = NoJob]
        /\ Counted(ok)
        /\ IF Finishes(job.id, tw.clock.date)
           THEN /\ SaveTasks(next, ok)
                /\ tasks' = IF ok THEN next ELSE tasks
                /\ taskError' = IF ok THEN taskError ELSE "task_storage_failed"
           ELSE ok /\ UNCHANGED <<taskVars, bad>>
        /\ UNCHANGED <<now, planVars, up, pw, put, history>>

(* Kill and restart.                                                       *)

\* datad is killed, or the device reboots.
Kill ==
    /\ up /\ Upset
    /\ up' = FALSE
    /\ pw' = PlanIdle /\ tw' = TaskIdle /\ put' = NoPut
    /\ UNCHANGED <<now, planVars, taskVars, bad, history>>

\* A file is found unreadable; what it held is lost.
Spoil(file) ==
    /\ ~up /\ file \notin bad
    /\ Upset
    /\ bad' = bad \cup {file}
    /\ asked' = IF file = "plan"
                THEN [asked EXCEPT !.plan = [enabled |-> FALSE, time |-> 0]]
                ELSE [asked EXCEPT !.tasks = NoTasks]
    /\ ran' = IF file = "plan" THEN ran ELSE [id \in Ids |-> << >>]
    /\ planRan' = IF file = "plan" THEN << >> ELSE planRan
    /\ UNCHANGED <<now, planVars, taskVars, up, pw, tw, put,
                   touched>>

\* Schedule::load: a file that cannot be read leaves the default and an error.
LoadPlan ==
    IF "plan" \notin bad
    THEN plan' = planFile /\ planError' = ""
    ELSE plan' = DefaultPlan /\ planError' = "invalid_config"

\* TaskSchedule::load.
LoadTasks ==
    IF "tasks" \notin bad /\ StoredValid(taskFile)
    THEN tasks' = taskFile /\ taskError' = ""
    ELSE tasks' = NoTasks /\ taskError' = "invalid_config"

\* datad starts again.
Restart ==
    /\ ~up /\ up' = TRUE
    /\ LoadPlan /\ LoadTasks
    /\ UNCHANGED <<now, planFile, taskFile, bad, pw, tw, put, upsets, history>>

Next ==
    \/ Minute \/ Step
    \/ \E enabled, blocked, ok \in BOOLEAN, time \in Times :
          SetPlan(enabled, time, blocked, ok)
    \/ PlanTick
    \/ \E conflict, ok \in BOOLEAN : PlanObserve(conflict, ok)
    \/ \E ok \in BOOLEAN : PlanReboot(ok)
    \/ \E id \in Ids, input \in Inputs : PutBegin(id, input)
    \/ \E id \in Ids, input \in Inputs, ok \in BOOLEAN : Put(id, input, ok)
    \/ \E readable, ok \in BOOLEAN : PutCommit(readable, ok)
    \/ \E id \in Ids, ok \in BOOLEAN : Remove(id, ok)
    \/ TaskTick \/ DrainEnds
    \/ \E id \in Ids, ok \in BOOLEAN : TaskObserve(id, ok)
    \/ \E conflict \in BOOLEAN : TaskCheck(conflict)
    \/ \E ok \in BOOLEAN : TaskExec(ok)
    \/ \E ok \in BOOLEAN : TaskFinish(ok)
    \/ Kill
    \/ \E file \in {"plan", "tasks"} : Spoil(file)
    \/ Restart

Spec == Init /\ [][Next]_vars

(* Properties.                                                             *)

\* Every variable keeps its type; a drain takes at most MAX_TASKS rounds.
TypeOK ==
    /\ now \in Clock
    /\ {plan, planFile} \subseteq PlanStored
    /\ planError \in {"", "invalid_config", "schedule_storage_failed",
                      "device_reboot_failed"}
    /\ \A ts \in {tasks, taskFile} :
          DOMAIN ts \subseteq Ids /\ \A id \in DOMAIN ts : ts[id] \in Task
    /\ taskError \in {"", "invalid_config", "task_storage_failed"}
    /\ bad \subseteq {"plan", "tasks"}
    /\ up \in BOOLEAN
    /\ pw.pc \in {"idle", "observe", "reboot"} /\ pw.clock \in Clock \cup {NoClock}
    /\ tw.pc \in {"idle", "drain", "check", "exec", "finish"}
    /\ tw.n \in 0..MAX_TASKS /\ tw.clock \in Clock \cup {NoClock}
    /\ put.pc \in {"idle", "commit"} /\ put.input \in TaskInput

\* What datad holds, and would hold after a restart, is what the accepted
\* requests asked for: Schedule::set, upsert and remove save before they
\* answer, a refused or failed request leaves no trace, a full list is never
\* written longer than load accepts, and no worker undoes an edit made while
\* it ran.
AcceptedEditsHold ==
    up => /\ [enabled |-> plan.enabled, time |-> plan.time] = asked.plan
          /\ [id \in DOMAIN tasks |-> tasks[id].input] = asked.tasks

Increasing(dates) == \A i, j \in DOMAIN dates : i < j => dates[i] < dates[j]

\* The plan reboots, and a task as it is now defined runs, at most once on a
\* date, a one-shot task once at all: through kills and restarts at any point
\* (observe saves the date before the action), failed writes, and a clock that
\* is set back to a date it has already shown.
RunsOncePerDate ==
    /\ Increasing(planRan)
    /\ \A id \in Ids :
          /\ Increasing(ran[id])
          /\ id \in DOMAIN asked.tasks /\ ~asked.tasks[id].daily
                => Len(ran[id]) <= 1

\* A result is written only to the task whose run produced it: finish must
\* not mark a task that was edited, or removed and added again, while the
\* action of its former definition was running.
ResultFiled ==
    \A id \in DOMAIN tasks \cap DOMAIN tasks' :
       /\ up /\ up'
       /\ tasks'[id].result \in {"ok", "failed"}
       /\ tasks'[id].result # tasks[id].result
       => tw.job.id = id /\ tw.job.current

ResultsMatchRuns == [][ResultFiled]_vars

\* A drain leaves no task of its minute behind, however many there are,
\* unless the list was edited meanwhile or a write failed: spawn_task_schedule
\* takes as many rounds as the list can have tasks.
MinuteDrained ==
    tw.pc = "drain" /\ tw'.pc = "idle" /\ up'
        => touched \/ taskError' # "" \/ Due(tw.clock) = {}

DrainComplete == [][MinuteDrained]_vars

\* A reboot task never reboots at the minute of the daily plan, whichever of
\* the two was saved last, unless the plan is edited while the drain runs.
RebootYields ==
    tw.pc = "exec" /\ tw.job.input.action = "device.reboot" /\ PlanClash(tw.job.input)
        => touched

\* What the user has accepted is kept, each run of it is made at most once, and
\* of two reboots in a minute one.
PlansKept == AcceptedEditsHold /\ RunsOncePerDate /\ RebootYields

\* A drain works through its minute and files each result where it belongs.
DrainsWhole == ResultsMatchRuns /\ DrainComplete

(***************************************************************************)
(* Proof of PlansKept and DrainsWhole.  What counts is what a restart      *)
(* would find: every run is dated in the file before it is made, so a file *)
(* bounds the runs so far, and the worker's own date those to come.        *)
(***************************************************************************)

\* What Schedule::load and TaskSchedule::load would find.
SavedPlan == IF "plan" \in bad THEN DefaultPlan ELSE planFile
SavedTasks == IF "tasks" \in bad THEN NoTasks ELSE taskFile

\* What the user asked for, of a list that was saved.
Wanted(ts) == [id \in DOMAIN ts |-> ts[id].input]

IsList(ts) == DOMAIN ts \subseteq Ids /\ \A id \in DOMAIN ts : ts[id] \in Task

Jobs == [id : Ids \cup {""}, input : TaskInput, ok : BOOLEAN, current : BOOLEAN]
PlanWorker == [pc : {"idle", "observe", "reboot"}, clock : Clock \cup {NoClock}]
TaskWorker == [pc : {"idle", "drain", "check", "exec", "finish"},
               clock : Clock \cup {NoClock}, n : 0..MAX_TASKS, job : Jobs]

\* TypeOK, with the workers' and the histories' types.
PlanTypes ==
    /\ plan \in PlanStored /\ planFile \in PlanStored
    /\ planError \in {"", "invalid_config", "schedule_storage_failed", "device_reboot_failed"}
    /\ pw \in PlanWorker /\ (pw.pc # "idle" => up /\ pw.clock \in Clock)
    /\ planRan \in Seq(Dates)

TaskTypes ==
    /\ IsList(tasks) /\ IsList(taskFile)
    /\ taskError \in {"", "invalid_config", "task_storage_failed"}
    /\ tw \in TaskWorker /\ (tw.pc # "idle" => up /\ tw.clock \in Clock)
    /\ put \in [pc : {"idle", "commit"}, id : Ids \cup {""}, input : TaskInput]
    /\ put.pc # "idle" => up /\ put.id \in Ids
    /\ ran \in [Ids -> Seq(Dates)]

OtherTypes ==
    now \in Clock /\ bad \subseteq {"plan", "tasks"} /\ up \in BOOLEAN /\ touched \in BOOLEAN

\* The memory of a process that runs is what was saved, and that is what was
\* asked for.
SavedIsAsked ==
    /\ up => plan = SavedPlan /\ tasks = SavedTasks
    /\ asked = [plan |-> [enabled |-> SavedPlan.enabled, time |-> SavedPlan.time],
                tasks |-> Wanted(SavedTasks)]
    /\ StoredValid(SavedTasks)

AllUpTo(dates, d) == \A i \in DOMAIN dates : dates[i] <= d
AllBefore(dates, d) == \A i \in DOMAIN dates : dates[i] < d

\* The saved date of the plan bounds its reboots.
PlanDated ==
    /\ Increasing(planRan) /\ AllUpTo(planRan, SavedPlan.last)
    /\ pw.pc = "reboot" => SavedPlan.last = pw.clock.date /\ AllBefore(planRan, pw.clock.date)

\* So does that of a task; a one-shot task that ran was triggered.
TasksDated ==
    /\ \A id \in Ids : id \notin DOMAIN SavedTasks => ran[id] = << >>
    /\ \A id \in DOMAIN SavedTasks :
          /\ Increasing(ran[id]) /\ AllUpTo(ran[id], SavedTasks[id].last)
          /\ SavedTasks[id].input.daily \/ ran[id] = << >>
                \/ (Len(ran[id]) = 1 /\ SavedTasks[id].triggered)

\* The job under way is dated, and is yet to run until it did; a task that was
\* edited meanwhile has no date.
JobDated ==
    tw.pc \in {"check", "exec", "finish"} =>
      /\ tw.job.current =>
           /\ tw.job.id \in DOMAIN SavedTasks
           /\ SavedTasks[tw.job.id].input = tw.job.input
           /\ SavedTasks[tw.job.id].last = tw.clock.date
           /\ tw.job.input.daily \/ SavedTasks[tw.job.id].triggered
           /\ tw.pc # "finish" => /\ AllBefore(ran[tw.job.id], tw.clock.date)
                                  /\ tw.job.input.daily \/ ran[tw.job.id] = << >>
      /\ ~tw.job.current /\ tw.job.id \in DOMAIN SavedTasks => SavedTasks[tw.job.id].last = 0

\* Each round of a drain dated another task.
Dated(d) == {id \in DOMAIN SavedTasks : SavedTasks[id].last = d}
RoundsDate ==
    tw.pc # "idle" => touched \/ tw.n <= Cardinality(Dated(tw.clock.date))

SchedulesInv ==
    /\ PlanTypes /\ TaskTypes /\ OtherTypes
    /\ SavedIsAsked /\ RebootYields
    /\ PlanDated /\ TasksDated /\ JobDated /\ RoundsDate

\* The constants, and the values that stand for nothing.
LEMMA Constants ==
    /\ MAX_TASKS \in Nat /\ MAX_TASKS > 0 /\ Day \in Nat /\ Day > 0 /\ Days \in Nat /\ Days > 0
    /\ 0 \in Times /\ NoInput \in TaskInput /\ DefaultPlan \in PlanStored
    /\ PlanIdle \in PlanWorker /\ TaskIdle \in TaskWorker
    /\ IsList(NoTasks) /\ StoredValid(NoTasks)
<1>1. MAX_TASKS \in Nat /\ MAX_TASKS > 0 /\ Day \in Nat /\ Day > 0 /\ Days \in Nat /\ Days > 0
  BY SchedulesAssumption
<1>2. 0 \in Times
  BY <1>1 DEF Times
<1>3. NoInput \in TaskInput
  BY <1>2 DEF NoInput, TaskInput, Actions
<1>4. DefaultPlan \in PlanStored
  BY <1>2 DEF DefaultPlan, PlanStored
<1>5. PlanIdle \in PlanWorker
  BY DEF PlanIdle, PlanWorker
<1>6. NoJob \in Jobs
  BY <1>3 DEF NoJob, Jobs
<1>7. TaskIdle \in TaskWorker
  BY <1>1, <1>6 DEF TaskIdle, TaskWorker
<1>8. DOMAIN NoTasks = {}
  BY DEF NoTasks
<1>9. IsList(NoTasks) /\ StoredValid(NoTasks)
  BY <1>1, <1>8, FS_EmptySet DEF IsList, StoredValid
<1> QED
  BY <1>1, <1>2, <1>3, <1>4, <1>5, <1>7, <1>9

\* The type invariant that TLC can evaluate follows.
LEMMA TypesImplied ==
    ASSUME PlanTypes, TaskTypes, OtherTypes
    PROVE  TypeOK
  BY DEF PlanTypes, TaskTypes, OtherTypes, TypeOK, PlanWorker, TaskWorker, IsList

\* A save: what a restart would find is the new value or the former one, and
\* the other file is not concerned.
LEMMA SavedByPlan ==
    ASSUME NEW next, NEW ok \in BOOLEAN, SavePlan(next, ok), taskFile' = taskFile
    PROVE  /\ SavedPlan' = IF ok THEN next ELSE SavedPlan
           /\ SavedTasks' = SavedTasks
  BY DEF SavePlan, SavedPlan, SavedTasks

LEMMA SavedByTasks ==
    ASSUME NEW next, NEW ok \in BOOLEAN, SaveTasks(next, ok), planFile' = planFile
    PROVE  /\ SavedTasks' = IF ok THEN next ELSE SavedTasks
           /\ SavedPlan' = SavedPlan
  BY DEF SaveTasks, SavedPlan, SavedTasks

\* What does not touch the tasks keeps what is known of them.
TasksRest ==
    /\ UNCHANGED <<taskVars, SavedTasks, up, tw, put, ran>>
    /\ touched => touched'

LEMMA TasksKept ==
    ASSUME SchedulesInv, TasksRest
    PROVE  TaskTypes' /\ TasksDated' /\ JobDated' /\ RoundsDate'
<1> USE DEF SchedulesInv, TasksRest, taskVars
<1>1. TaskTypes'
  BY DEF TaskTypes, IsList
<1>2. TasksDated'
  BY DEF TasksDated, Increasing, AllUpTo
<1>3. JobDated'
  BY DEF JobDated, AllBefore
<1>4. RoundsDate'
  BY DEF RoundsDate, Dated
<1> QED
  BY <1>1, <1>2, <1>3, <1>4

\* What does not touch the plan keeps what is known of it.
PlanRest == UNCHANGED <<planVars, SavedPlan, up, pw, planRan>>

LEMMA PlanKept ==
    ASSUME SchedulesInv, PlanRest
    PROVE  PlanTypes' /\ PlanDated'
  BY DEF SchedulesInv, PlanRest, planVars, PlanTypes, PlanDated, Increasing, AllUpTo, AllBefore

\* No dates yet.
LEMMA NoDates ==
    << >> \in Seq(Dates) /\ (DOMAIN << >>) = {} /\ Increasing(<< >>) /\ \A d : AllUpTo(<< >>, d)
<1>1. << >> \in Seq(Dates)
  OBVIOUS
<1>2. (DOMAIN << >>) = {}
  OBVIOUS
<1> QED
  BY <1>1, <1>2 DEF Increasing, AllUpTo

\* One more date, after all those there are.
LEMMA AppendDate ==
    ASSUME NEW s \in Seq(Dates), NEW d \in Dates, Increasing(s), AllBefore(s, d)
    PROVE  /\ Append(s, d) \in Seq(Dates) /\ Increasing(Append(s, d))
           /\ AllUpTo(Append(s, d), d) /\ Len(Append(s, d)) = Len(s) + 1
<1> DEFINE t == Append(s, d)
<1>1. Dates \subseteq Nat
  BY Constants DEF Dates
<1>2. t \in Seq(Dates) /\ Len(t) = Len(s) + 1 /\ Len(s) \in Nat
  OBVIOUS
<1>3. DOMAIN s = 1..Len(s) /\ DOMAIN t = 1..(Len(s) + 1)
  BY <1>2
<1>4. \A i \in 1..Len(s) : t[i] = s[i] /\ s[i] \in Nat
  <2>1. \A i \in 1..Len(s) : s[i] \in Dates
    OBVIOUS
  <2>2. \A i \in 1..Len(s) : t[i] = s[i]
    OBVIOUS
  <2> QED
    BY <1>1, <2>1, <2>2
<1>5. t[Len(s) + 1] = d /\ d \in Nat
  BY <1>1
<1> HIDE DEF t
<1>6. ASSUME NEW i \in DOMAIN t, NEW j \in DOMAIN t, i < j
      PROVE  t[i] < t[j]
  <2>1. i \in 1..Len(s) /\ j \in Nat
    BY <1>2, <1>3, <1>6
  <2>2. CASE j = Len(s) + 1
    BY <1>3, <1>4, <1>5, <2>1, <2>2 DEF AllBefore
  <2>3. CASE j # Len(s) + 1
    <3>1. j \in 1..Len(s)
      BY <1>2, <1>3, <2>3
    <3> QED
      BY <1>3, <1>4, <1>6, <2>1, <3>1 DEF Increasing
  <2> QED
    BY <2>2, <2>3
<1>7. AllUpTo(t, d)
  <2>1. ASSUME NEW i \in DOMAIN t
        PROVE  t[i] <= d
    <3>1. i = Len(s) + 1 \/ i \in 1..Len(s)
      BY <1>2, <1>3
    <3> QED
      BY <1>3, <1>4, <1>5, <3>1 DEF AllBefore
  <2> QED
    BY <2>1 DEF AllUpTo
<1> QED
  BY <1>2, <1>6, <1>7 DEF Increasing, t

\* The clock runs, or is set.
LEMMA ClockStep ==
    ASSUME SchedulesInv, Minute \/ Step
    PROVE  SchedulesInv'
<1>1. /\ UNCHANGED <<planVars, taskVars, bad, up, pw, tw, put, history>>
      /\ UNCHANGED <<plan, planFile, tasks, taskFile, asked, ran, planRan, touched>>
  BY DEF Minute, Step, planVars, taskVars, history
<1>2. now' \in Clock
  <2>1. now \in Clock /\ Day \in Nat /\ Days \in Nat
    BY Constants DEF SchedulesInv, OtherTypes
  <2>2. CASE now.time < Day - 1 /\ now' = [now EXCEPT !.time = now.time + 1]
    BY <2>1, <2>2 DEF Clock, Times, Dates
  <2>3. CASE now.date < Days /\ now' = [date |-> now.date + 1, time |-> 0]
    BY <2>1, <2>3, Constants DEF Clock, Times, Dates
  <2>4. CASE Step
    BY <2>4 DEF Step
  <2> QED
    BY <2>2, <2>3, <2>4 DEF Minute
<1>3. SavedPlan' = SavedPlan /\ SavedTasks' = SavedTasks
  BY <1>1 DEF SavedPlan, SavedTasks
<1>4. TaskTypes' /\ TasksDated' /\ JobDated' /\ RoundsDate'
  BY <1>1, <1>3, TasksKept DEF TasksRest
<1>5. PlanTypes' /\ PlanDated'
  BY <1>1, <1>3, PlanKept DEF PlanRest
<1>6. OtherTypes' /\ SavedIsAsked' /\ RebootYields'
  BY <1>1, <1>2, <1>3
     DEF SchedulesInv, OtherTypes, SavedIsAsked, Wanted, StoredValid, RebootYields, PlanClash
<1> QED
  BY <1>4, <1>5, <1>6 DEF SchedulesInv

\* Schedule::set: the date of the last reboot stays.
LEMMA SetPlanStep ==
    ASSUME SchedulesInv, NEW enabled \in BOOLEAN, NEW time \in Times, NEW blocked \in BOOLEAN,
           NEW ok \in BOOLEAN, SetPlan(enabled, time, blocked, ok)
    PROVE  SchedulesInv'
<1> DEFINE next == [plan EXCEPT !.enabled = enabled, !.time = time]
<1>1. /\ up /\ SavePlan(next, ok)
      /\ plan' = IF ok THEN next ELSE plan
      /\ planError' = IF ok THEN "" ELSE planError
      /\ asked' = IF ok THEN [asked EXCEPT !.plan = [enabled |-> enabled, time |-> time]]
                        ELSE asked
      /\ touched' = (touched \/ ok)
      /\ UNCHANGED <<now, taskVars, up, pw, tw, put, ran, planRan>>
      /\ UNCHANGED <<tasks, taskFile, taskError>>
  BY DEF SetPlan, taskVars
<1>2. plan = SavedPlan /\ tasks = SavedTasks /\ plan \in PlanStored
  BY <1>1 DEF SchedulesInv, SavedIsAsked, PlanTypes
<1>3. next.enabled = enabled /\ next.time = time /\ next.last = plan.last
  BY <1>2 DEF PlanStored
<1>4. next \in PlanStored
  BY <1>2 DEF PlanStored
<1> HIDE DEF next
<1>5. SavedPlan' = (IF ok THEN next ELSE SavedPlan) /\ SavedTasks' = SavedTasks
  BY <1>1, SavedByPlan
<1>6. TaskTypes' /\ TasksDated' /\ JobDated' /\ RoundsDate'
  BY <1>1, <1>5, TasksKept DEF TasksRest
<1>7. PlanTypes'
  BY <1>1, <1>4 DEF SchedulesInv, PlanTypes, SavePlan
<1>8. OtherTypes'
  BY <1>1 DEF SchedulesInv, OtherTypes, SavePlan
<1>9. SavedPlan'.last = SavedPlan.last
  BY <1>2, <1>3, <1>5
<1>10. PlanDated'
  BY <1>1, <1>9 DEF SchedulesInv, PlanDated, Increasing, AllUpTo, AllBefore
<1>11. SavedIsAsked'
  BY <1>1, <1>2, <1>3, <1>5 DEF SchedulesInv, SavedIsAsked, Wanted, StoredValid
<1>12. RebootYields'
  BY <1>1 DEF SchedulesInv, RebootYields, PlanClash
<1> QED
  BY <1>6, <1>7, <1>8, <1>10, <1>11, <1>12 DEF SchedulesInv

\* The plan's worker: what it reads of the clock, the save and the reboot.
LEMMA PlanTickStep ==
    ASSUME SchedulesInv, PlanTick
    PROVE  SchedulesInv'
<1>1. /\ up /\ pw' = [pc |-> "observe", clock |-> now]
      /\ UNCHANGED <<now, taskVars, bad, up, tw, put>>
      /\ UNCHANGED <<plan, planFile, planError, tasks, taskFile, taskError, asked, ran,
                     planRan, touched>>
  BY DEF PlanTick, planVars, taskVars, history
<1>2. SavedPlan' = SavedPlan /\ SavedTasks' = SavedTasks
  BY <1>1 DEF SavedPlan, SavedTasks
<1>3. TaskTypes' /\ TasksDated' /\ JobDated' /\ RoundsDate'
  BY <1>1, <1>2, TasksKept DEF TasksRest
<1>4. now \in Clock
  BY DEF SchedulesInv, OtherTypes
<1>5. PlanTypes'
  BY <1>1, <1>4 DEF SchedulesInv, PlanTypes, PlanWorker
<1>6. PlanDated'
  BY <1>1, <1>2 DEF SchedulesInv, PlanDated, Increasing, AllUpTo, AllBefore
<1>7. OtherTypes' /\ SavedIsAsked' /\ RebootYields'
  BY <1>1, <1>2
     DEF SchedulesInv, OtherTypes, SavedIsAsked, Wanted, StoredValid, RebootYields, PlanClash
<1> QED
  BY <1>3, <1>5, <1>6, <1>7 DEF SchedulesInv

LEMMA PlanRebootStep ==
    ASSUME SchedulesInv, NEW ok \in BOOLEAN, PlanReboot(ok)
    PROVE  SchedulesInv'
<1>1. /\ pw.pc = "reboot" /\ planRan' = Append(planRan, pw.clock.date) /\ pw' = PlanIdle
      /\ planError' = IF ok THEN planError ELSE "device_reboot_failed"
      /\ UNCHANGED <<now, taskVars, bad, up, tw, put>>
      /\ UNCHANGED <<plan, planFile, tasks, taskFile, taskError, asked, ran, touched>>
  BY DEF PlanReboot, taskVars
<1>2. SavedPlan' = SavedPlan /\ SavedTasks' = SavedTasks
  BY <1>1 DEF SavedPlan, SavedTasks
<1>3. TaskTypes' /\ TasksDated' /\ JobDated' /\ RoundsDate'
  BY <1>1, <1>2, TasksKept DEF TasksRest
<1>4. pw.clock.date \in Dates /\ planRan \in Seq(Dates) /\ Days \in Nat
  BY <1>1, Constants DEF SchedulesInv, PlanTypes, Clock
<1>5. PlanTypes'
  <2>1. planRan' \in Seq(Dates)
    BY <1>1, <1>4
  <2> QED
    BY <1>1, <2>1, Constants DEF SchedulesInv, PlanTypes, PlanIdle
<1>6. PlanDated'
  <2>1. /\ Increasing(planRan) /\ SavedPlan.last = pw.clock.date
        /\ AllUpTo(planRan, SavedPlan.last) /\ AllBefore(planRan, pw.clock.date)
    BY <1>1 DEF SchedulesInv, PlanDated
  <2>3. Increasing(planRan') /\ AllUpTo(planRan', pw.clock.date)
    BY <1>1, <1>4, <2>1, AppendDate
  <2>5. pw'.pc = "idle"
    BY <1>1 DEF PlanIdle
  <2> QED
    BY <1>2, <2>1, <2>3, <2>5 DEF PlanDated, Increasing, AllUpTo
<1>7. OtherTypes' /\ SavedIsAsked' /\ RebootYields'
  BY <1>1, <1>2
     DEF SchedulesInv, OtherTypes, SavedIsAsked, Wanted, StoredValid, RebootYields, PlanClash
<1> QED
  BY <1>3, <1>5, <1>6, <1>7 DEF SchedulesInv

LEMMA PlanObserveStep ==
    ASSUME SchedulesInv, NEW conflict \in BOOLEAN, NEW ok \in BOOLEAN, PlanObserve(conflict, ok)
    PROVE  SchedulesInv'
<1> DEFINE next == [plan EXCEPT !.last = pw.clock.date]
<1>1. /\ pw.pc = "observe" /\ up /\ UNCHANGED <<now, taskVars, up, tw, put>>
      /\ UNCHANGED <<tasks, taskFile, taskError, asked, ran, planRan, touched>>
  BY DEF PlanObserve, taskVars, history, SchedulesInv, PlanTypes
<1>2. /\ plan = SavedPlan /\ tasks = SavedTasks /\ plan \in PlanStored
      /\ pw \in PlanWorker /\ pw.clock \in Clock
  BY <1>1 DEF SchedulesInv, SavedIsAsked, PlanTypes
<1>3. /\ next.enabled = plan.enabled /\ next.time = plan.time /\ next.last = pw.clock.date
      /\ next \in PlanStored
  BY <1>2 DEF PlanStored, Clock
<1>4. CASE /\ PlanDue(pw.clock, conflict)
           /\ SavePlan(next, ok)
           /\ plan' = (IF ok THEN next ELSE plan)
           /\ planError' = (IF ok THEN "" ELSE "schedule_storage_failed")
           /\ pw' = (IF ok THEN [pw EXCEPT !.pc = "reboot"] ELSE PlanIdle)
  <2> HIDE DEF next
  <2>1. SavedPlan' = (IF ok THEN next ELSE SavedPlan) /\ SavedTasks' = SavedTasks
    BY <1>1, <1>4, SavedByPlan
  <2>2. TaskTypes' /\ TasksDated' /\ JobDated' /\ RoundsDate'
    BY <1>1, <2>1, TasksKept DEF TasksRest
  <2>3. /\ pw' \in PlanWorker /\ (ok => pw'.pc = "reboot" /\ pw'.clock = pw.clock)
        /\ (~ok => pw'.pc = "idle")
    BY <1>2, <1>4, Constants DEF PlanWorker, PlanIdle
  <2>4. PlanTypes'
    BY <1>1, <1>2, <1>3, <1>4, <2>3 DEF SchedulesInv, PlanTypes, SavePlan
  <2>5. AllBefore(planRan, pw.clock.date) /\ AllUpTo(planRan, pw.clock.date)
    <3>1. /\ planRan \in Seq(Dates) /\ AllUpTo(planRan, plan.last)
          /\ plan.last = 0 \/ plan.last < pw.clock.date
      BY <1>2, <1>4 DEF SchedulesInv, PlanTypes, PlanDated, PlanDue
    <3>2. \A i \in DOMAIN planRan : planRan[i] \in Dates
      BY <3>1
    <3>3. plan.last \in Nat /\ pw.clock.date \in Nat /\ Days \in Nat
      BY <1>2, Constants DEF PlanStored, Clock, Dates
    <3> QED
      BY <3>1, <3>2, <3>3 DEF AllBefore, AllUpTo, Dates
  <2>6. PlanDated'
    BY <1>1, <1>3, <2>1, <2>3, <2>5 DEF SchedulesInv, PlanDated, Increasing, AllUpTo, AllBefore
  <2>7. OtherTypes'
    BY <1>1, <1>4 DEF SchedulesInv, OtherTypes, SavePlan
  <2>8. SavedIsAsked'
    BY <1>1, <1>2, <1>3, <1>4, <2>1 DEF SchedulesInv, SavedIsAsked, Wanted, StoredValid
  <2>9. RebootYields'
    BY <1>1, <1>3, <1>4 DEF SchedulesInv, RebootYields, PlanClash
  <2> QED
    BY <2>2, <2>4, <2>6, <2>7, <2>8, <2>9 DEF SchedulesInv
<1>5. CASE pw' = PlanIdle /\ UNCHANGED <<plan, planFile, planError, bad>>
  <2>1. SavedPlan' = SavedPlan /\ SavedTasks' = SavedTasks
    BY <1>1, <1>5 DEF SavedPlan, SavedTasks
  <2>2. TaskTypes' /\ TasksDated' /\ JobDated' /\ RoundsDate'
    BY <1>1, <2>1, TasksKept DEF TasksRest
  <2>3. PlanTypes' /\ PlanDated'
    BY <1>1, <1>5, <2>1, Constants
       DEF SchedulesInv, PlanTypes, PlanDated, PlanIdle, Increasing, AllUpTo, AllBefore
  <2>4. OtherTypes' /\ SavedIsAsked' /\ RebootYields'
    BY <1>1, <1>5, <2>1
       DEF SchedulesInv, OtherTypes, SavedIsAsked, Wanted, StoredValid, RebootYields, PlanClash
  <2> QED
    BY <2>2, <2>3, <2>4 DEF SchedulesInv
<1> QED
  BY <1>4, <1>5 DEF PlanObserve

\* A list with one task more or defined anew is a list that load accepts.
LEMMA AddedTask ==
    ASSUME NEW ts, IsList(ts), StoredValid(ts), NEW id \in Ids, NEW t \in Task,
           InputValid(t.input), id \in DOMAIN ts \/ Cardinality(DOMAIN ts) # MAX_TASKS
    PROVE  /\ IsList(With(ts, id, t)) /\ StoredValid(With(ts, id, t))
           /\ Wanted(With(ts, id, t)) = With(Wanted(ts), id, t.input)
           /\ DOMAIN With(ts, id, t) = DOMAIN ts \cup {id} /\ With(ts, id, t)[id] = t
           /\ \A i \in DOMAIN ts \ {id} : With(ts, id, t)[i] = ts[i]
<1> DEFINE next == With(ts, id, t)
<1>1. /\ DOMAIN next = DOMAIN ts \cup {id} /\ next[id] = t
      /\ \A i \in DOMAIN ts \ {id} : next[i] = ts[i]
  BY DEF With
<1>2. Wanted(next) = With(Wanted(ts), id, t.input)
  BY DEF With, Wanted
<1> HIDE DEF next
<1>3. IsList(next)
  BY <1>1 DEF IsList
<1>4. IsFiniteSet(DOMAIN ts)
  BY SchedulesAssumption, FS_Subset DEF IsList
<1>5. Cardinality(DOMAIN next) <= MAX_TASKS
  <2>1. CASE id \in DOMAIN ts
    <3>1. DOMAIN next = DOMAIN ts
      BY <1>1, <2>1
    <3> QED
      BY <3>1 DEF StoredValid
  <2>2. CASE id \notin DOMAIN ts
    <3>1. Cardinality(DOMAIN next) = Cardinality(DOMAIN ts) + 1
      BY <1>1, <1>4, <2>2, FS_AddElement
    <3>2. Cardinality(DOMAIN ts) \in Nat
      BY <1>4, FS_CardinalityType
    <3> QED
      BY <2>2, <3>1, <3>2, Constants DEF StoredValid
  <2> QED
    BY <2>1, <2>2
<1>6. StoredValid(next)
  BY <1>1, <1>5 DEF StoredValid
<1> QED
  BY <1>1, <1>2, <1>3, <1>6 DEF next

\* So is one with a task less.
LEMMA RemovedTask ==
    ASSUME NEW ts, IsList(ts), StoredValid(ts), NEW id
    PROVE  /\ IsList(Without(ts, id)) /\ StoredValid(Without(ts, id))
           /\ Wanted(Without(ts, id)) = Without(Wanted(ts), id)
           /\ DOMAIN Without(ts, id) = DOMAIN ts \ {id}
           /\ \A i \in DOMAIN ts \ {id} : Without(ts, id)[i] = ts[i]
<1> DEFINE next == Without(ts, id)
<1>1. /\ DOMAIN next = DOMAIN ts \ {id}
      /\ \A i \in DOMAIN ts \ {id} : next[i] = ts[i]
  BY DEF Without
<1>2. Wanted(next) = Without(Wanted(ts), id)
  BY DEF Without, Wanted
<1> HIDE DEF next
<1>3. IsList(next)
  BY <1>1 DEF IsList
<1>4. /\ IsFiniteSet(DOMAIN ts) /\ Cardinality(DOMAIN next) <= Cardinality(DOMAIN ts)
      /\ IsFiniteSet(DOMAIN next)
  <2>1. IsFiniteSet(DOMAIN ts)
    BY SchedulesAssumption, FS_Subset DEF IsList
  <2>2. DOMAIN next \in SUBSET DOMAIN ts
    BY <1>1
  <2> QED
    BY <2>1, <2>2, FS_Subset
<1>5. Cardinality(DOMAIN ts) \in Nat /\ Cardinality(DOMAIN next) \in Nat
  BY <1>4, FS_CardinalityType
<1>6. StoredValid(next)
  BY <1>1, <1>4, <1>5, Constants DEF StoredValid
<1> QED
  BY <1>1, <1>2, <1>3, <1>6 DEF next

\* The worker after an edit of id.
LEMMA EditedWorker ==
    ASSUME tw \in TaskWorker, NEW id, Edited(id)
    PROVE  /\ tw' \in TaskWorker /\ tw'.pc = tw.pc /\ tw'.clock = tw.clock /\ tw'.n = tw.n
           /\ tw'.job.id = tw.job.id /\ tw'.job.input = tw.job.input
           /\ tw.job.id = id => ~tw'.job.current
           /\ tw.job.id # id => tw'.job = tw.job
<1>1. CASE tw.job.id # id
  BY <1>1 DEF Edited
<1>2. CASE tw.job.id = id
  <2>1. tw.job \in Jobs /\ tw' = [tw EXCEPT !.job = [tw.job EXCEPT !.current = FALSE]]
    BY <1>2 DEF Edited, TaskWorker
  <2> DEFINE j == [tw.job EXCEPT !.current = FALSE]
  <2>2. PICK i \in Jobs : i = tw.job
    BY <2>1
  <2>3. j \in Jobs
    BY <2>2 DEF Jobs
  <2>4. j.id = tw.job.id /\ j.input = tw.job.input /\ ~j.current
    BY <2>2 DEF Jobs
  <2>5. tw' = [tw EXCEPT !.job = j]
    BY <2>1
  <2> HIDE DEF j
  <2> QED
    BY <1>2, <2>3, <2>4, <2>5 DEF TaskWorker
<1> QED
  BY <1>1, <1>2

\* The request that is dropped from memory, or the one that stays.
LEMMA PutTyped ==
    ASSUME SchedulesInv, put' \in {put, NoPut}
    PROVE  /\ put' \in [pc : {"idle", "commit"}, id : Ids \cup {""}, input : TaskInput]
           /\ put'.pc # "idle" => up /\ put'.id \in Ids
<1>1. CASE put' = put
  BY <1>1 DEF SchedulesInv, TaskTypes
<1>2. CASE put' = NoPut
  BY <1>2, Constants DEF NoPut
<1> QED
  BY <1>1, <1>2

\* An accepted edit of id: the list is saved with the other tasks as they
\* were, and id, if it is still there, without a date.
LEMMA EditStep ==
    ASSUME SchedulesInv, up, NEW id \in Ids, NEW next, IsList(next), StoredValid(next),
           SaveTasks(next, TRUE), tasks' = next, taskError' = "", Edited(id),
           asked' = [asked EXCEPT !.tasks = Wanted(next)],
           DOMAIN next \ {id} = DOMAIN tasks \ {id},
           \A i \in DOMAIN tasks \ {id} : next[i] = tasks[i],
           id \in DOMAIN next => next[id].last = 0,
           put' \in {put, NoPut}, UNCHANGED <<now, planVars, up, pw, planRan>>
    PROVE  SchedulesInv'
<1>1. /\ UNCHANGED <<plan, planFile, planError>> /\ taskFile' = next /\ bad' \subseteq bad
      /\ ran' = [ran EXCEPT ![id] = << >>] /\ touched' = TRUE
  BY DEF planVars, SaveTasks, Edited
<1>2. SavedTasks' = next /\ SavedPlan' = SavedPlan
  BY <1>1, SavedByTasks
<1>3. tasks = SavedTasks /\ plan = SavedPlan
  BY DEF SchedulesInv, SavedIsAsked
<1>4. /\ tw' \in TaskWorker /\ tw'.pc = tw.pc /\ tw'.clock = tw.clock /\ tw'.n = tw.n
      /\ tw'.job.id = tw.job.id /\ tw'.job.input = tw.job.input
      /\ tw.job.id = id => ~tw'.job.current
      /\ tw.job.id # id => tw'.job = tw.job
  BY EditedWorker DEF SchedulesInv, TaskTypes
<1>5. PlanTypes' /\ PlanDated'
  BY <1>1, <1>2, PlanKept DEF PlanRest
<1>6. ran \in [Ids -> Seq(Dates)] /\ ran' \in [Ids -> Seq(Dates)]
  <2>1. ran \in [Ids -> Seq(Dates)] /\ << >> \in Seq(Dates)
    BY NoDates DEF SchedulesInv, TaskTypes
  <2> QED
    BY <1>1, <2>1
<1>7. TaskTypes'
  <2>1. /\ put' \in [pc : {"idle", "commit"}, id : Ids \cup {""}, input : TaskInput]
        /\ put'.pc # "idle" => up /\ put'.id \in Ids
    BY PutTyped
  <2>2. tw'.pc # "idle" => up /\ tw'.clock \in Clock
    BY <1>4 DEF SchedulesInv, TaskTypes
  <2> QED
    BY <1>1, <1>4, <1>6, <2>1, <2>2 DEF TaskTypes, IsList
<1>8. OtherTypes'
  BY <1>1 DEF SchedulesInv, OtherTypes
<1>9. SavedIsAsked'
  BY <1>1, <1>2, <1>3 DEF SchedulesInv, SavedIsAsked
<1>10. TasksDated'
  <2>1. ran'[id] = << >> /\ \A i \in Ids \ {id} : ran'[i] = ran[i]
    BY <1>1, <1>6
  <2>2. ASSUME NEW i \in Ids, i \notin DOMAIN next
        PROVE  ran'[i] = << >>
    BY <1>3, <2>1, <2>2 DEF SchedulesInv, TasksDated
  <2>3. ASSUME NEW i \in DOMAIN next
        PROVE  /\ Increasing(ran'[i]) /\ AllUpTo(ran'[i], next[i].last)
               /\ next[i].input.daily \/ ran'[i] = << >>
                     \/ (Len(ran'[i]) = 1 /\ next[i].triggered)
    <3>1. CASE i = id
      BY <2>1, <3>1, NoDates
    <3>2. CASE i # id
      <4>1. i \in DOMAIN SavedTasks /\ next[i] = SavedTasks[i] /\ ran'[i] = ran[i]
        BY <1>3, <2>1, <2>3, <3>2 DEF IsList
      <4> QED
        BY <4>1 DEF SchedulesInv, TasksDated
    <3> QED
      BY <3>1, <3>2
  <2> QED
    BY <1>2, <2>2, <2>3 DEF TasksDated, Increasing, AllUpTo
<1>11. JobDated'
  <2>1. CASE tw.job.id = id
    BY <1>2, <1>4, <2>1 DEF JobDated
  <2>2. CASE tw.job.id # id
    <3>1. tw.job.id \in DOMAIN next => tw.job.id \in Ids
      BY DEF IsList
    <3>2. tw.job.id \in DOMAIN next <=> tw.job.id \in DOMAIN SavedTasks
      BY <1>3, <2>2
    <3>3. tw.job.id \in DOMAIN next =>
            next[tw.job.id] = SavedTasks[tw.job.id] /\ ran'[tw.job.id] = ran[tw.job.id]
      BY <1>1, <1>3, <1>6, <2>2, <3>1, <3>2
    <3> QED
      BY <1>2, <1>4, <2>2, <3>2, <3>3 DEF SchedulesInv, JobDated, AllBefore
  <2> QED
    BY <2>1, <2>2
<1>12. RoundsDate' /\ RebootYields'
  BY <1>1 DEF RoundsDate, RebootYields
<1> QED
  BY <1>5, <1>7, <1>8, <1>9, <1>10, <1>11, <1>12 DEF SchedulesInv

\* A request that changes no list: refused, not written, or not yet committed.
LEMMA IdleStep ==
    ASSUME SchedulesInv, UNCHANGED <<now, planVars, taskVars, bad, up, pw, tw, history>>,
           put' \in [pc : {"idle", "commit"}, id : Ids \cup {""}, input : TaskInput],
           put'.pc # "idle" => up /\ put'.id \in Ids
    PROVE  SchedulesInv'
<1>1. UNCHANGED <<plan, planFile, planError, tasks, taskFile, taskError, asked, ran, planRan,
                  touched>>
  BY DEF planVars, taskVars, history
<1>2. SavedPlan' = SavedPlan /\ SavedTasks' = SavedTasks
  BY <1>1 DEF SavedPlan, SavedTasks
<1>3. PlanTypes' /\ PlanDated'
  BY <1>1, <1>2, PlanKept DEF PlanRest
<1>4. TaskTypes'
  BY <1>1 DEF SchedulesInv, TaskTypes, IsList
<1>5. TasksDated' /\ JobDated' /\ RoundsDate'
  BY <1>1, <1>2 DEF SchedulesInv, TasksDated, Increasing, AllUpTo, JobDated, AllBefore,
                    RoundsDate, Dated
<1>6. OtherTypes' /\ SavedIsAsked' /\ RebootYields'
  BY <1>1, <1>2
     DEF SchedulesInv, OtherTypes, SavedIsAsked, Wanted, StoredValid, RebootYields, PlanClash
<1> QED
  BY <1>3, <1>4, <1>5, <1>6 DEF SchedulesInv

\* TaskSchedule::upsert.
LEMMA UpsertStep ==
    ASSUME SchedulesInv, up, NEW id \in Ids, NEW input \in TaskInput, NEW ok \in BOOLEAN,
           Upsert(id, input, ok), put' \in {put, NoPut},
           UNCHANGED <<now, planVars, up, pw, planRan>>
    PROVE  SchedulesInv'
<1> DEFINE t == [input |-> input, last |-> 0, triggered |-> FALSE, result |-> ""]
           next == With(tasks, id, t)
<1>1. CASE UNCHANGED <<tasks, taskFile, taskError, bad, asked, ran, touched, tw>>
  BY <1>1, PutTyped, IdleStep DEF taskVars, history
<1>2. CASE /\ ~UpsertIdle(id, input) /\ SaveTasks(next, TRUE)
           /\ tasks' = next /\ taskError' = "" /\ Edited(id)
           /\ asked' = [asked EXCEPT !.tasks = With(asked.tasks, id, input)]
  <2>1. t \in Task /\ t.input = input /\ t.last = 0
    BY DEF Task
  <2> HIDE DEF t
  <2>2. /\ tasks = SavedTasks /\ IsList(tasks) /\ StoredValid(tasks)
        /\ asked.tasks = Wanted(tasks)
    BY DEF SchedulesInv, SavedIsAsked, TaskTypes
  <2>3. /\ InputValid(input)
        /\ id \in DOMAIN tasks \/ Cardinality(DOMAIN tasks) # MAX_TASKS
    BY <1>2 DEF UpsertIdle, TaskLimit
  <2>4. /\ IsList(next) /\ StoredValid(next)
        /\ Wanted(next) = With(Wanted(tasks), id, input)
        /\ DOMAIN next = DOMAIN tasks \cup {id} /\ next[id] = t
        /\ \A i \in DOMAIN tasks \ {id} : next[i] = tasks[i]
    <3>1. /\ IsList(tasks) /\ StoredValid(tasks) /\ t \in Task /\ InputValid(t.input)
          /\ id \in DOMAIN tasks \/ Cardinality(DOMAIN tasks) # MAX_TASKS
      BY <2>1, <2>2, <2>3
    <3>2. /\ IsList(With(tasks, id, t)) /\ StoredValid(With(tasks, id, t))
          /\ Wanted(With(tasks, id, t)) = With(Wanted(tasks), id, t.input)
          /\ DOMAIN With(tasks, id, t) = DOMAIN tasks \cup {id} /\ With(tasks, id, t)[id] = t
          /\ \A i \in DOMAIN tasks \ {id} : With(tasks, id, t)[i] = tasks[i]
      BY <3>1, AddedTask
    <3> QED
      BY <2>1, <3>2
  <2> HIDE DEF next
  <2>5. asked' = [asked EXCEPT !.tasks = Wanted(next)]
    BY <1>2, <2>2, <2>4
  <2>6. DOMAIN next \ {id} = DOMAIN tasks \ {id} /\ next[id].last = 0
    BY <2>1, <2>4
  <2> QED
    BY <1>2, <2>4, <2>5, <2>6, EditStep
<1>3. CASE UpsertIdle(id, input)
  BY <1>1, <1>3 DEF Upsert, taskVars
<1>4. CASE ~UpsertIdle(id, input) /\ ok
  BY <1>2, <1>4 DEF Upsert
<1>5. CASE ~UpsertIdle(id, input) /\ ~ok
  BY <1>1, <1>5 DEF Upsert, SaveTasks
<1> QED
  BY <1>3, <1>4, <1>5

\* TaskSchedule::remove.
LEMMA RemoveStep ==
    ASSUME SchedulesInv, NEW id \in Ids, NEW ok \in BOOLEAN, Remove(id, ok)
    PROVE  SchedulesInv'
<1> DEFINE next == Without(tasks, id)
<1>1. /\ up /\ id \in DOMAIN tasks /\ SaveTasks(next, ok)
      /\ put' \in {put, NoPut} /\ UNCHANGED <<now, planVars, up, pw, planRan>>
  BY DEF Remove
<1>2. CASE ~ok
  <2>1. UNCHANGED <<tasks, taskFile, taskError, bad, asked, ran, touched, tw>>
    BY <1>2 DEF Remove, SaveTasks
  <2> QED
    BY <1>1, <2>1, PutTyped, IdleStep DEF taskVars, history
<1>3. CASE ok
  <2>1. /\ tasks' = next /\ taskError' = "" /\ Edited(id) /\ SaveTasks(next, TRUE)
        /\ asked' = [asked EXCEPT !.tasks = Without(asked.tasks, id)]
    BY <1>3 DEF Remove, SaveTasks
  <2>2. /\ tasks = SavedTasks /\ IsList(tasks) /\ StoredValid(tasks)
        /\ asked.tasks = Wanted(tasks)
    BY <1>1 DEF SchedulesInv, SavedIsAsked, TaskTypes
  <2>3. /\ IsList(next) /\ StoredValid(next)
        /\ Wanted(next) = Without(Wanted(tasks), id)
        /\ DOMAIN next = DOMAIN tasks \ {id}
        /\ \A i \in DOMAIN tasks \ {id} : next[i] = tasks[i]
    BY <2>2, RemovedTask
  <2> HIDE DEF next
  <2>4. asked' = [asked EXCEPT !.tasks = Wanted(next)]
    BY <2>1, <2>2, <2>3
  <2>5. DOMAIN next \ {id} = DOMAIN tasks \ {id} /\ id \notin DOMAIN next
    BY <2>3
  <2> QED
    BY <1>1, <2>1, <2>3, <2>4, <2>5, EditStep
<1> QED
  BY <1>2, <1>3

\* The requests that bring a task.
LEMMA PutStep ==
    ASSUME SchedulesInv,
           \/ \E id \in Ids, input \in Inputs : PutBegin(id, input)
           \/ \E id \in Ids, input \in Inputs, ok \in BOOLEAN : Put(id, input, ok)
           \/ \E readable, ok \in BOOLEAN : PutCommit(readable, ok)
    PROVE  SchedulesInv'
<1>1. ASSUME NEW id \in Ids, NEW input \in Inputs, PutBegin(id, input)
      PROVE  SchedulesInv'
  <2>1. /\ UNCHANGED <<now, planVars, taskVars, bad, up, pw, tw, history>>
        /\ put' = [pc |-> "commit", id |-> id, input |-> input] /\ up
    BY <1>1 DEF PutBegin
  <2>2. input \in TaskInput
    BY SchedulesAssumption
  <2> QED
    BY <2>1, <2>2, IdleStep
<1>2. ASSUME NEW id \in Ids, NEW input \in Inputs, NEW ok \in BOOLEAN, Put(id, input, ok)
      PROVE  SchedulesInv'
  <2>1. input \in TaskInput
    BY SchedulesAssumption
  <2> QED
    BY <1>2, <2>1, UpsertStep DEF Put
<1>3. ASSUME NEW readable \in BOOLEAN, NEW ok \in BOOLEAN, PutCommit(readable, ok)
      PROVE  SchedulesInv'
  <2>1. /\ up /\ put.id \in Ids /\ put.input \in TaskInput /\ put' = NoPut
        /\ UNCHANGED <<now, planVars, up, pw, planRan>>
    BY <1>3 DEF PutCommit, SchedulesInv, TaskTypes
  <2>2. CASE Upsert(put.id, put.input, ok)
    BY <2>1, <2>2, UpsertStep
  <2>3. CASE UNCHANGED <<taskVars, bad, asked, ran, touched, tw>>
    BY <2>1, <2>3, PutTyped, IdleStep DEF history
  <2> QED
    BY <1>3, <2>2, <2>3 DEF PutCommit
<1> QED
  BY <1>1, <1>2, <1>3

\* A step of the task worker alone.
LEMMA WorkerStep ==
    ASSUME SchedulesInv, taskError' \in {taskError, "task_storage_failed"},
           UNCHANGED <<now, planVars, tasks, taskFile, bad, up, pw, put, asked, ran, planRan>>,
           tw' \in TaskWorker, tw'.pc # "idle" => up /\ tw'.clock \in Clock,
           touched' \in BOOLEAN, JobDated', RoundsDate', RebootYields'
    PROVE  SchedulesInv'
<1>1. UNCHANGED <<plan, planFile, planError, tasks, taskFile>>
  BY DEF planVars
<1>2. SavedPlan' = SavedPlan /\ SavedTasks' = SavedTasks
  BY <1>1 DEF SavedPlan, SavedTasks
<1>3. PlanTypes' /\ PlanDated'
  BY <1>1, <1>2, PlanKept DEF PlanRest
<1>4. TaskTypes'
  BY <1>1 DEF SchedulesInv, TaskTypes, IsList
<1>5. TasksDated'
  BY <1>1, <1>2 DEF SchedulesInv, TasksDated, Increasing, AllUpTo
<1>6. OtherTypes' /\ SavedIsAsked'
  BY <1>1, <1>2 DEF SchedulesInv, OtherTypes, SavedIsAsked, Wanted, StoredValid
<1> QED
  BY <1>3, <1>4, <1>5, <1>6 DEF SchedulesInv

\* The dated tasks are counted.
LEMMA DatedCounted ==
    ASSUME IsList(SavedTasks), NEW d
    PROVE  IsFiniteSet(Dated(d)) /\ Cardinality(Dated(d)) \in Nat
<1>1. Dated(d) \in SUBSET Ids
  BY DEF Dated, IsList
<1> QED
  BY <1>1, SchedulesAssumption, FS_Subset, FS_CardinalityType

\* What was saved is a list.
LEMMA SavedListed ==
    ASSUME TaskTypes
    PROVE  IsList(SavedTasks)
  BY Constants DEF TaskTypes, SavedTasks

LEMMA TaskTickStep ==
    ASSUME SchedulesInv, TaskTick
    PROVE  SchedulesInv'
<1>1. /\ up /\ tw' = [TaskIdle EXCEPT !.pc = "drain", !.clock = now] /\ touched' = FALSE
      /\ UNCHANGED <<now, planVars, taskVars, bad, up, pw, put, asked, ran, planRan>>
  BY DEF TaskTick
<1>2. now \in Clock
  BY DEF SchedulesInv, OtherTypes
<1>3. tw'.pc = "drain" /\ tw'.clock = now /\ tw'.n = 0 /\ tw'.job = NoJob
  BY <1>1 DEF TaskIdle
<1>4. tw' = [pc |-> "drain", clock |-> now, n |-> 0, job |-> NoJob]
  BY <1>1 DEF TaskIdle
<1>5. tw' \in TaskWorker
  <2>1. NoJob \in Jobs /\ 0 \in 0..MAX_TASKS
    BY Constants DEF TaskWorker, TaskIdle
  <2> QED
    BY <1>2, <1>4, <2>1 DEF TaskWorker
<1>6. JobDated' /\ RebootYields'
  BY <1>3 DEF JobDated, RebootYields
<1>7. RoundsDate'
  <2>1. SavedTasks' = SavedTasks /\ IsList(SavedTasks)
    BY <1>1, SavedListed DEF SavedTasks, taskVars, SchedulesInv
  <2>2. Dated(tw.clock.date)' = Dated(now.date)
    BY <1>3, <2>1 DEF Dated
  <2>3. Cardinality(Dated(now.date)) \in Nat
    BY <2>1, DatedCounted
  <2> QED
    BY <1>3, <2>2, <2>3 DEF RoundsDate
<1> QED
  BY <1>1, <1>2, <1>3, <1>5, <1>6, <1>7, WorkerStep DEF taskVars

LEMMA DrainEndsStep ==
    ASSUME SchedulesInv, DrainEnds
    PROVE  SchedulesInv'
<1>1. /\ tw' = TaskIdle
      /\ UNCHANGED <<now, planVars, taskVars, bad, up, pw, put, asked, ran, planRan, touched>>
  BY DEF DrainEnds, history
<1>2. tw'.pc = "idle" /\ tw' \in TaskWorker
  BY <1>1, Constants DEF TaskIdle
<1>3. JobDated' /\ RoundsDate' /\ RebootYields'
  BY <1>2 DEF JobDated, RoundsDate, RebootYields
<1>4. touched' \in BOOLEAN
  BY <1>1 DEF SchedulesInv, OtherTypes
<1> QED
  BY <1>1, <1>2, <1>3, <1>4, WorkerStep DEF taskVars

LEMMA TaskCheckStep ==
    ASSUME SchedulesInv, NEW conflict \in BOOLEAN, TaskCheck(conflict)
    PROVE  SchedulesInv'
<1>1. /\ tw.pc = "check"
      /\ UNCHANGED <<now, planVars, taskVars, bad, up, pw, put, asked, ran, planRan, touched>>
  BY DEF TaskCheck, history
<1>2. PICK at \in {"finish", "exec"} :
        tw' = [tw EXCEPT !.pc = at] /\ (at = "exec" => ~PlanClash(tw.job.input))
  BY DEF TaskCheck
<1>3. tw \in TaskWorker /\ up /\ tw.clock \in Clock /\ touched \in BOOLEAN
  BY <1>1 DEF SchedulesInv, TaskTypes, OtherTypes
<1>4. /\ tw' \in TaskWorker /\ tw'.pc = at /\ tw'.clock = tw.clock /\ tw'.n = tw.n
      /\ tw'.job = tw.job
  BY <1>2, <1>3 DEF TaskWorker
<1>5. SavedTasks' = SavedTasks
  BY <1>1 DEF SavedTasks, taskVars
<1>6. JobDated'
  BY <1>1, <1>2, <1>4, <1>5 DEF SchedulesInv, JobDated, AllBefore
<1>7. RoundsDate'
  BY <1>1, <1>2, <1>4, <1>5 DEF SchedulesInv, RoundsDate, Dated
<1>8. RebootYields'
  BY <1>1, <1>2, <1>4 DEF RebootYields, PlanClash, planVars
<1> QED
  BY <1>1, <1>3, <1>4, <1>6, <1>7, <1>8, WorkerStep DEF taskVars

\* The list ts with t for its task id: another date or result, and the same
\* definition.
Replaced(ts, id, t, next) ==
    /\ id \in DOMAIN ts /\ DOMAIN next = DOMAIN ts /\ next[id] = t
    /\ \A i \in DOMAIN ts \ {id} : next[i] = ts[i]
    /\ t \in Task /\ t.input = ts[id].input

LEMMA ReplacedTask ==
    ASSUME NEW ts, NEW id, NEW t, NEW next, IsList(ts), StoredValid(ts), Replaced(ts, id, t, next)
    PROVE  IsList(next) /\ StoredValid(next) /\ Wanted(next) = Wanted(ts)
<1> USE DEF Replaced
<1>1. \A i \in DOMAIN ts : next[i].input = ts[i].input
  OBVIOUS
<1>2. IsList(next)
  BY DEF IsList
<1>3. StoredValid(next)
  BY <1>1 DEF StoredValid
<1>4. Wanted(next) = Wanted(ts)
  BY <1>1 DEF Wanted
<1> QED
  BY <1>2, <1>3, <1>4

\* The worker saves a date or a result of task id.
LEMMA ListStep ==
    ASSUME SchedulesInv, up, NEW id, NEW t, NEW next, Replaced(tasks, id, t, next),
           SaveTasks(next, TRUE), tasks' = next, taskError' = taskError,
           UNCHANGED <<now, planVars, up, pw, put, history>>,
           tw' \in TaskWorker, tw'.pc # "idle" => tw'.clock \in Clock,
           AllUpTo(ran[id], t.last),
           t.input.daily \/ ran[id] = << >> \/ (Len(ran[id]) = 1 /\ t.triggered),
           JobDated', RoundsDate', RebootYields'
    PROVE  SchedulesInv'
<1>1. /\ UNCHANGED <<plan, planFile, planError, asked, ran, planRan, touched>>
      /\ taskFile' = next /\ bad' \subseteq bad
  BY DEF planVars, history, SaveTasks
<1>2. SavedTasks' = next /\ SavedPlan' = SavedPlan
  BY <1>1, SavedByTasks
<1>3. /\ tasks = SavedTasks /\ IsList(tasks) /\ StoredValid(tasks) /\ plan = SavedPlan
  BY DEF SchedulesInv, SavedIsAsked, TaskTypes
<1>4. /\ IsList(next) /\ StoredValid(next) /\ Wanted(next) = Wanted(tasks)
      /\ DOMAIN next = DOMAIN tasks /\ next[id] = t
      /\ \A i \in DOMAIN tasks \ {id} : next[i] = tasks[i]
  <2>1. IsList(tasks) /\ StoredValid(tasks)
    BY <1>3
  <2>2. IsList(next) /\ StoredValid(next) /\ Wanted(next) = Wanted(tasks)
    BY <2>1, ReplacedTask
  <2> QED
    BY <2>2 DEF Replaced
<1>5. PlanTypes' /\ PlanDated'
  BY <1>1, <1>2, PlanKept DEF PlanRest
<1>6. TaskTypes'
  BY <1>1, <1>4 DEF SchedulesInv, TaskTypes, IsList
<1>7. OtherTypes'
  BY <1>1 DEF SchedulesInv, OtherTypes
<1>8. SavedIsAsked'
  BY <1>1, <1>2, <1>3, <1>4 DEF SchedulesInv, SavedIsAsked
<1>9. TasksDated'
  <2>1. ASSUME NEW i \in DOMAIN next
        PROVE  /\ Increasing(ran[i]) /\ AllUpTo(ran[i], next[i].last)
               /\ next[i].input.daily \/ ran[i] = << >>
                     \/ (Len(ran[i]) = 1 /\ next[i].triggered)
    <3>1. CASE i = id
      BY <1>3, <1>4, <3>1 DEF SchedulesInv, TasksDated
    <3>2. CASE i # id
      BY <1>3, <1>4, <3>2 DEF SchedulesInv, TasksDated
    <3> QED
      BY <3>1, <3>2
  <2>2. \A i \in Ids : i \notin DOMAIN next => ran[i] = << >>
    BY <1>3, <1>4 DEF SchedulesInv, TasksDated
  <2> QED
    BY <1>1, <1>2, <2>1, <2>2 DEF TasksDated, Increasing, AllUpTo
<1> QED
  BY <1>5, <1>6, <1>7, <1>8, <1>9 DEF SchedulesInv

\* The task that observe saves before its action.
LEMMA AttemptedTask ==
    ASSUME NEW task \in Task, NEW d \in Dates, NEW t, t = Attempted(task, d)
    PROVE  t \in Task /\ t.input = task.input /\ t.last = d /\ (t.input.daily \/ t.triggered)
<1>1. PICK b \in BOOLEAN : b = (task.triggered \/ ~task.input.daily)
  OBVIOUS
<1> DEFINE a == [task EXCEPT !.last = d]
           e == [a EXCEPT !.result = "requested"]
<1>2. a \in Task /\ a.input = task.input /\ a.last = d
  BY DEF Task
<1>3. e \in Task /\ e.input = task.input /\ e.last = d
  <2> HIDE DEF a
  <2> QED
    BY <1>2 DEF Task
<1>4. t = [e EXCEPT !.triggered = b]
  BY <1>1 DEF Attempted
<1> HIDE DEF a, e
<1>5. t \in Task /\ t.input = e.input /\ t.last = e.last /\ t.triggered = b
  BY <1>3, <1>4 DEF Task
<1> QED
  BY <1>1, <1>3, <1>5

\* TaskSchedule::observe: the next due task is dated, and its job begins.
LEMMA TaskObserveStep ==
    ASSUME SchedulesInv, NEW id \in Ids, NEW ok \in BOOLEAN, TaskObserve(id, ok)
    PROVE  SchedulesInv'
<1> DEFINE d == tw.clock.date
           t == Attempted(tasks[id], d)
           next == [tasks EXCEPT ![id] = t]
           job == [id |-> id, input |-> tasks[id].input, ok |-> FALSE, current |-> TRUE]
           at == IF tasks[id].input.action = "device.reboot" THEN "check" ELSE "exec"
<1>1. /\ tw.pc = "drain" /\ ~Exhausted /\ id \in Due(tw.clock) /\ SaveTasks(next, ok)
      /\ UNCHANGED <<now, planVars, up, pw, put, history>>
  BY DEF TaskObserve
<1>2. up /\ tw \in TaskWorker /\ tw.clock \in Clock /\ touched \in BOOLEAN
  BY <1>1 DEF SchedulesInv, TaskTypes, OtherTypes
<1>3. tasks = SavedTasks /\ IsList(tasks) /\ StoredValid(tasks)
  BY <1>2 DEF SchedulesInv, SavedIsAsked, TaskTypes
<1>4. CASE ~ok
  <2>1. /\ tw' = TaskIdle /\ taskError' = "task_storage_failed"
        /\ UNCHANGED <<tasks, taskFile, bad, asked, ran, planRan, touched>>
    BY <1>4 DEF TaskObserve, SaveTasks, history
  <2>2. tw'.pc = "idle" /\ tw' \in TaskWorker
    BY <2>1, Constants DEF TaskIdle
  <2>3. JobDated' /\ RoundsDate' /\ RebootYields'
    BY <2>2 DEF JobDated, RoundsDate, RebootYields
  <2> QED
    BY <1>1, <1>2, <2>1, <2>2, <2>3, WorkerStep
<1>5. CASE ok
  <2>1. /\ tasks' = next /\ taskError' = taskError /\ SaveTasks(next, TRUE)
        /\ tw' = [tw EXCEPT !.n = tw.n + 1, !.pc = at, !.job = job]
    BY <1>1, <1>5 DEF TaskObserve
  <2>2. /\ id \in DOMAIN tasks /\ tasks[id] \in Task /\ TaskDue(tasks[id], tw.clock)
        /\ d \in Dates
    BY <1>1, <1>2, <1>3 DEF Due, IsList, Clock
  <2>16. tasks[id].last \in Nat /\ d \in Nat /\ d > 0 /\ Days \in Nat
    <3>1. tasks[id].last \in {0} \cup Dates
      BY <2>2 DEF Task
    <3> QED
      BY <2>2, <3>1, Constants DEF Dates
  <2>3. t \in Task /\ t.input = tasks[id].input /\ t.last = d /\ (t.input.daily \/ t.triggered)
    BY <2>2, AttemptedTask
  <2>4. job \in Jobs /\ job.id = id /\ job.input = tasks[id].input /\ job.current
    BY <2>2 DEF Jobs, Task
  <2>5. at \in {"check", "exec"} /\ (at = "exec" => tasks[id].input.action # "device.reboot")
    OBVIOUS
  <2> HIDE DEF t, job, at
  <2>6. Replaced(tasks, id, t, next)
    BY <2>2, <2>3 DEF Replaced
  <2>7. next[id] = t /\ id \in DOMAIN next /\ DOMAIN next = DOMAIN tasks
        /\ \A i \in DOMAIN tasks \ {id} : next[i] = tasks[i]
    BY <2>2
  <2> HIDE DEF next
  <2>8. SavedTasks' = next
    BY <1>1, <2>1, SavedByTasks DEF planVars
  <2>9. tw.n \in 0..MAX_TASKS /\ tw.n + 1 \in 0..MAX_TASKS
    BY <1>1, <1>2, Constants DEF TaskWorker, Exhausted
  <2>10. /\ tw' \in TaskWorker /\ tw'.pc = at /\ tw'.clock = tw.clock /\ tw'.n = tw.n + 1
         /\ tw'.job = job
    <3>1. tw' = [pc |-> at, clock |-> tw.clock, n |-> tw.n + 1, job |-> job]
      BY <1>2, <2>1 DEF TaskWorker
    <3> QED
      BY <1>2, <2>4, <2>5, <2>9, <3>1 DEF TaskWorker
  <2>11. /\ AllUpTo(ran[id], d) /\ AllBefore(ran[id], d)
         /\ tasks[id].input.daily \/ ran[id] = << >>
    <3>1. /\ AllUpTo(ran[id], tasks[id].last) /\ ran[id] \in Seq(Dates)
          /\ tasks[id].input.daily \/ ran[id] = << >> \/ tasks[id].triggered
      BY <1>3, <2>2 DEF SchedulesInv, TasksDated, TaskTypes
    <3>2. /\ tasks[id].last = 0 \/ tasks[id].last < d
          /\ tasks[id].input.daily \/ ~tasks[id].triggered
      BY <2>2 DEF TaskDue
    <3>3. \A i \in DOMAIN ran[id] : ran[id][i] \in Dates
      BY <3>1
    <3> QED
      BY <2>16, <3>1, <3>2, <3>3 DEF AllUpTo, AllBefore, Dates
  <2>12. JobDated'
    <3>1. UNCHANGED ran
      BY <1>1 DEF history
    <3> QED
      BY <2>2, <2>3, <2>4, <2>7, <2>8, <2>10, <2>11, <3>1 DEF JobDated, AllBefore
  <2>13. RebootYields'
    BY <2>4, <2>5, <2>10 DEF RebootYields
  <2>14. RoundsDate'
    <3>1. id \notin Dated(d)
      <4>1. tasks[id].last = 0 \/ tasks[id].last < d
        BY <2>2 DEF TaskDue
      <4> QED
        BY <1>3, <2>16, <4>1 DEF Dated
    <3>2. Dated(tw.clock.date)' = Dated(d) \cup {id}
      BY <1>3, <2>2, <2>3, <2>7, <2>8, <2>10 DEF Dated
    <3>3. IsFiniteSet(Dated(d)) /\ Cardinality(Dated(d)) \in Nat
      BY <1>3, DatedCounted
    <3>4. Cardinality(Dated(d) \cup {id}) = Cardinality(Dated(d)) + 1
      BY <3>1, <3>3, FS_AddElement
    <3>5. touched \/ tw.n <= Cardinality(Dated(d))
      BY <1>1 DEF SchedulesInv, RoundsDate
    <3>6. touched' = touched
      BY <1>1 DEF history
    <3> QED
      BY <2>9, <2>10, <3>2, <3>3, <3>4, <3>5, <3>6 DEF RoundsDate
  <2>15. AllUpTo(ran[id], t.last) /\ (t.input.daily \/ ran[id] = << >>)
    BY <2>3, <2>11
  <2> QED
    BY <1>1, <1>2, <2>1, <2>6, <2>10, <2>12, <2>13, <2>14, <2>15, ListStep
<1> QED
  BY <1>4, <1>5

\* The device action: a run of the task, if it is still the one that was dated.
LEMMA TaskExecStep ==
    ASSUME SchedulesInv, NEW ok \in BOOLEAN, TaskExec(ok)
    PROVE  SchedulesInv'
<1> DEFINE id == tw.job.id
           d == tw.clock.date
<1>1. /\ tw.pc = "exec" /\ tw' = [tw EXCEPT !.pc = "finish", !.job.ok = ok]
      /\ ran' = IF tw.job.current THEN [ran EXCEPT ![id] = Append(ran[id], d)] ELSE ran
      /\ UNCHANGED <<now, planVars, taskVars, bad, up, pw, put, asked, planRan, touched>>
      /\ UNCHANGED <<plan, planFile, planError, tasks, taskFile, taskError>>
  BY DEF TaskExec, planVars, taskVars
<1>2. /\ up /\ tw \in TaskWorker /\ tw.clock \in Clock /\ ran \in [Ids -> Seq(Dates)]
      /\ d \in Dates
  BY <1>1 DEF SchedulesInv, TaskTypes, Clock
<1>3. SavedPlan' = SavedPlan /\ SavedTasks' = SavedTasks
  BY <1>1 DEF SavedPlan, SavedTasks
<1>4. /\ tw' \in TaskWorker /\ tw'.pc = "finish" /\ tw'.clock = tw.clock /\ tw'.n = tw.n
      /\ tw'.job.id = id /\ tw'.job.input = tw.job.input
      /\ tw'.job.current = tw.job.current
  <2> DEFINE j == [tw.job EXCEPT !.ok = ok]
  <2>1. tw.job \in Jobs
    BY <1>2 DEF TaskWorker
  <2>2. j \in Jobs
    BY <2>1 DEF Jobs
  <2>3. j.id = tw.job.id /\ j.input = tw.job.input /\ j.current = tw.job.current
    BY <2>1 DEF Jobs
  <2>4. tw' = [tw EXCEPT !.pc = "finish", !.job = j]
    BY <1>1
  <2> HIDE DEF j
  <2>5. tw' = [pc |-> "finish", clock |-> tw.clock, n |-> tw.n, job |-> j]
    BY <1>2, <2>4 DEF TaskWorker
  <2> QED
    BY <1>2, <2>2, <2>3, <2>5 DEF TaskWorker
<1>5. PlanTypes' /\ PlanDated'
  BY <1>1, <1>3, PlanKept DEF PlanRest
<1>6. OtherTypes' /\ SavedIsAsked' /\ RebootYields'
  BY <1>1, <1>3, <1>4
     DEF SchedulesInv, OtherTypes, SavedIsAsked, Wanted, StoredValid, RebootYields
<1>7. RoundsDate'
  BY <1>1, <1>3, <1>4 DEF SchedulesInv, RoundsDate, Dated
<1>8. CASE ~tw.job.current
  <2>1. TaskTypes'
    BY <1>1, <1>2, <1>4, <1>8 DEF SchedulesInv, TaskTypes, IsList
  <2>2. TasksDated'
    BY <1>1, <1>3, <1>8 DEF SchedulesInv, TasksDated, Increasing, AllUpTo
  <2>3. JobDated'
    BY <1>1, <1>3, <1>4, <1>8 DEF SchedulesInv, JobDated
  <2> QED
    BY <1>5, <1>6, <1>7, <2>1, <2>2, <2>3 DEF SchedulesInv
<1>9. CASE tw.job.current
  <2>1. /\ id \in DOMAIN SavedTasks /\ SavedTasks[id].input = tw.job.input
        /\ SavedTasks[id].last = d /\ (tw.job.input.daily \/ SavedTasks[id].triggered)
        /\ AllBefore(ran[id], d) /\ (tw.job.input.daily \/ ran[id] = << >>)
    BY <1>1, <1>9 DEF SchedulesInv, JobDated
  <2>2. id \in Ids
    BY <2>1, SavedListed DEF SchedulesInv, IsList
  <2>3. /\ ran'[id] = Append(ran[id], d) /\ \A i \in Ids \ {id} : ran'[i] = ran[i]
    BY <1>1, <1>2, <1>9, <2>2
  <2>4. Increasing(ran[id]) /\ ran[id] \in Seq(Dates)
    BY <1>2, <2>1, <2>2 DEF SchedulesInv, TasksDated
  <2>5. /\ Append(ran[id], d) \in Seq(Dates) /\ Increasing(Append(ran[id], d))
        /\ AllUpTo(Append(ran[id], d), d) /\ Len(Append(ran[id], d)) = Len(ran[id]) + 1
    BY <1>2, <2>1, <2>4, AppendDate
  <2>6. TaskTypes'
    <3>1. ran' \in [Ids -> Seq(Dates)]
      BY <1>1, <1>2, <1>9, <2>5
    <3> QED
      BY <1>1, <1>2, <1>4, <3>1 DEF SchedulesInv, TaskTypes, IsList
  <2>7. TasksDated'
    <3>1. ASSUME NEW i \in Ids, i \notin DOMAIN SavedTasks
          PROVE  ran'[i] = << >>
      BY <2>1, <2>3, <3>1 DEF SchedulesInv, TasksDated
    <3>2. ASSUME NEW i \in DOMAIN SavedTasks
          PROVE  /\ Increasing(ran'[i]) /\ AllUpTo(ran'[i], SavedTasks[i].last)
                 /\ SavedTasks[i].input.daily \/ ran'[i] = << >>
                       \/ (Len(ran'[i]) = 1 /\ SavedTasks[i].triggered)
      <4>1. i \in Ids
        BY SavedListed DEF SchedulesInv, IsList
      <4>2. CASE i # id
        BY <2>3, <4>1, <4>2 DEF SchedulesInv, TasksDated
      <4>3. CASE i = id
        <5>1. ran[id] = << >> => Len(ran'[id]) = 1
          BY <2>3, <2>5
        <5> QED
          BY <2>1, <2>3, <2>5, <4>3, <5>1
      <4> QED
        BY <4>2, <4>3
    <3> QED
      BY <1>3, <3>1, <3>2 DEF TasksDated, Increasing, AllUpTo
  <2>8. JobDated'
    BY <1>3, <1>4, <1>9, <2>1 DEF JobDated
  <2> QED
    BY <1>5, <1>6, <1>7, <2>6, <2>7, <2>8 DEF SchedulesInv
<1> QED
  BY <1>8, <1>9

\* TaskSchedule::finish finds only a task that is still as it was dated.
LEMMA FinishesCurrent ==
    ASSUME SchedulesInv, tw.pc = "finish", Finishes(tw.job.id, tw.clock.date)
    PROVE  tw.job.current
<1>1. tasks = SavedTasks /\ tw.clock.date \in Dates
  BY DEF SchedulesInv, SavedIsAsked, TaskTypes, Clock
<1>2. tw.clock.date # 0
  BY <1>1, Constants DEF Dates
<1>3. tw.job.id \in DOMAIN SavedTasks /\ SavedTasks[tw.job.id].last # 0
  BY <1>1, <1>2 DEF Finishes
<1> QED
  BY <1>3 DEF SchedulesInv, JobDated

LEMMA TaskFinishStep ==
    ASSUME SchedulesInv, NEW ok \in BOOLEAN, TaskFinish(ok)
    PROVE  SchedulesInv'
<1> DEFINE id == tw.job.id
           r == IF tw.job.ok THEN "ok" ELSE "failed"
           t == [tasks[id] EXCEPT !.result = r]
           next == [tasks EXCEPT ![id].result = r]
<1>1. /\ tw.pc = "finish" /\ tw' = [tw EXCEPT !.pc = "drain", !.job = NoJob]
      /\ UNCHANGED <<now, planVars, up, pw, put, history>>
      /\ UNCHANGED <<asked, ran, planRan, touched>>
  BY DEF TaskFinish, history
<1>2. up /\ tw \in TaskWorker /\ tw.clock \in Clock /\ touched \in BOOLEAN
  BY <1>1 DEF SchedulesInv, TaskTypes, OtherTypes
<1>3. tasks = SavedTasks /\ IsList(tasks)
  BY <1>2 DEF SchedulesInv, SavedIsAsked, TaskTypes
<1>4. /\ tw' \in TaskWorker /\ tw'.pc = "drain" /\ tw'.clock = tw.clock /\ tw'.n = tw.n
  <2>1. NoJob \in Jobs
    BY Constants DEF TaskWorker, TaskIdle
  <2>2. tw' = [pc |-> "drain", clock |-> tw.clock, n |-> tw.n, job |-> NoJob]
    BY <1>1, <1>2 DEF TaskWorker
  <2> QED
    BY <1>2, <2>1, <2>2 DEF TaskWorker
<1>5. JobDated' /\ RebootYields'
  BY <1>4 DEF JobDated, RebootYields
<1>6. ASSUME SavedTasks' = SavedTasks
      PROVE  RoundsDate'
  BY <1>1, <1>4, <1>6 DEF SchedulesInv, RoundsDate, Dated
<1>7. CASE UNCHANGED <<tasks, taskFile, bad>> /\ taskError' \in {taskError, "task_storage_failed"}
  <2>1. RoundsDate'
    BY <1>6, <1>7 DEF SavedTasks
  <2> QED
    BY <1>1, <1>2, <1>4, <1>5, <1>7, <2>1, WorkerStep
<1>8. CASE /\ Finishes(id, tw.clock.date) /\ SaveTasks(next, TRUE) /\ tasks' = next
           /\ taskError' = taskError
  <2>1. id \in DOMAIN tasks /\ tasks[id] \in Task
    BY <1>3, <1>8 DEF Finishes, IsList
  <2>2. /\ t \in Task /\ t.input = tasks[id].input /\ t.last = tasks[id].last
        /\ t.triggered = tasks[id].triggered
    <3>1. PICK u \in Task : u = tasks[id]
      BY <2>1
    <3>2. r \in {"", "requested", "ok", "failed"}
      OBVIOUS
    <3> HIDE DEF r
    <3> QED
      BY <3>1, <3>2 DEF Task
  <2>3. /\ DOMAIN next = DOMAIN tasks /\ next[id] = t
        /\ \A i \in DOMAIN tasks \ {id} : next[i] = tasks[i]
    BY <2>1
  <2> HIDE DEF t, next
  <2>4. Replaced(tasks, id, t, next)
    BY <2>1, <2>2, <2>3 DEF Replaced
  <2>5. SavedTasks' = next
    BY <1>1, <1>8, SavedByTasks DEF planVars
  <2>6. RoundsDate'
    <3>1. \A i \in DOMAIN tasks : next[i].last = tasks[i].last
      BY <2>2, <2>3
    <3>2. Dated(tw.clock.date)' = Dated(tw.clock.date)
      BY <1>3, <1>4, <2>3, <2>5, <3>1 DEF Dated
    <3> QED
      BY <1>1, <1>4, <3>2 DEF SchedulesInv, RoundsDate
  <2>7. /\ AllUpTo(ran[id], t.last)
        /\ t.input.daily \/ ran[id] = << >> \/ (Len(ran[id]) = 1 /\ t.triggered)
    BY <1>3, <2>1, <2>2 DEF SchedulesInv, TasksDated
  <2> QED
    BY <1>1, <1>2, <1>4, <1>5, <1>8, <2>4, <2>6, <2>7, ListStep
<1>9. CASE Finishes(id, tw.clock.date) /\ ok
  BY <1>8, <1>9 DEF TaskFinish
<1>10. CASE Finishes(id, tw.clock.date) /\ ~ok
  BY <1>7, <1>10 DEF TaskFinish, SaveTasks
<1>11. CASE ~Finishes(id, tw.clock.date)
  BY <1>7, <1>11 DEF TaskFinish, taskVars
<1> QED
  BY <1>9, <1>10, <1>11

\* A kill: the workers and the request are gone, the files stay.
LEMMA KillStep ==
    ASSUME SchedulesInv, Kill
    PROVE  SchedulesInv'
<1>1. /\ up' = FALSE /\ pw' = PlanIdle /\ tw' = TaskIdle /\ put' = NoPut
      /\ UNCHANGED <<now, plan, planFile, planError, tasks, taskFile, taskError, bad, asked, ran,
                     planRan, touched>>
  BY DEF Kill, planVars, taskVars, history
<1>2. pw'.pc = "idle" /\ tw'.pc = "idle" /\ put'.pc = "idle"
  BY <1>1 DEF PlanIdle, TaskIdle, NoPut
<1>3. SavedPlan' = SavedPlan /\ SavedTasks' = SavedTasks
  BY <1>1 DEF SavedPlan, SavedTasks
<1>4. PlanTypes'
  BY <1>1, <1>2, Constants DEF SchedulesInv, PlanTypes
<1>5. TaskTypes'
  <2>1. put' \in [pc : {"idle", "commit"}, id : Ids \cup {""}, input : TaskInput]
    BY <1>1, PutTyped
  <2> QED
    BY <1>1, <1>2, <2>1, Constants DEF SchedulesInv, TaskTypes, IsList
<1>6. PlanDated' /\ TasksDated' /\ JobDated' /\ RoundsDate' /\ RebootYields'
  BY <1>1, <1>2, <1>3 DEF SchedulesInv, PlanDated, TasksDated, JobDated, RoundsDate,
                          RebootYields, Increasing, AllUpTo
<1>7. OtherTypes' /\ SavedIsAsked'
  BY <1>1, <1>3 DEF SchedulesInv, OtherTypes, SavedIsAsked, Wanted, StoredValid
<1> QED
  BY <1>4, <1>5, <1>6, <1>7 DEF SchedulesInv

\* A file is lost, and what was asked for and run with it.
LEMMA SpoilStep ==
    ASSUME SchedulesInv, NEW file \in {"plan", "tasks"}, Spoil(file)
    PROVE  SchedulesInv'
<1>1. /\ ~up /\ bad' = bad \cup {file}
      /\ UNCHANGED <<now, plan, planFile, planError, tasks, taskFile, taskError, up, pw, tw, put,
                     touched>>
  BY DEF Spoil, planVars, taskVars
<1>2. pw.pc = "idle" /\ tw.pc = "idle"
  BY <1>1 DEF SchedulesInv, PlanTypes, TaskTypes
<1>3. OtherTypes' /\ JobDated' /\ RoundsDate' /\ RebootYields'
  BY <1>1, <1>2 DEF SchedulesInv, OtherTypes, JobDated, RoundsDate, RebootYields
<1>4. asked = [plan |-> asked.plan, tasks |-> asked.tasks]
  BY DEF SchedulesInv, SavedIsAsked
<1>5. CASE file = "plan"
  <2>1. /\ asked' = [asked EXCEPT !.plan = [enabled |-> FALSE, time |-> 0]]
        /\ ran' = ran /\ planRan' = << >>
    BY <1>5 DEF Spoil
  <2>2. SavedPlan' = DefaultPlan /\ SavedTasks' = SavedTasks
    BY <1>1, <1>5 DEF SavedPlan, SavedTasks
  <2>3. PlanTypes'
    BY <1>1, <2>1, NoDates DEF SchedulesInv, PlanTypes
  <2>4. TaskTypes' /\ TasksDated'
    BY <1>1, <2>1, <2>2 DEF SchedulesInv, TaskTypes, IsList, TasksDated, Increasing, AllUpTo
  <2>5. PlanDated'
    BY <1>1, <1>2, <2>1, NoDates DEF PlanDated
  <2>6. SavedIsAsked'
    BY <1>1, <1>4, <2>1, <2>2
       DEF SchedulesInv, SavedIsAsked, Wanted, StoredValid, DefaultPlan
  <2> QED
    BY <1>3, <2>3, <2>4, <2>5, <2>6 DEF SchedulesInv
<1>6. CASE file = "tasks"
  <2>1. /\ asked' = [asked EXCEPT !.tasks = NoTasks]
        /\ ran' = [id \in Ids |-> << >>] /\ planRan' = planRan
    BY <1>6 DEF Spoil
  <2>2. SavedPlan' = SavedPlan /\ SavedTasks' = NoTasks
    BY <1>1, <1>6 DEF SavedPlan, SavedTasks
  <2>3. PlanTypes' /\ PlanDated'
    BY <1>1, <2>1, <2>2, PlanKept DEF PlanRest, planVars
  <2>4. DOMAIN NoTasks = {} /\ Wanted(NoTasks) = NoTasks
    BY DEF NoTasks, Wanted
  <2>5. TaskTypes'
    <3>1. ran' \in [Ids -> Seq(Dates)]
      BY <2>1, NoDates
    <3> QED
      BY <1>1, <3>1 DEF SchedulesInv, TaskTypes, IsList
  <2>6. TasksDated'
    BY <2>1, <2>2, <2>4 DEF TasksDated
  <2>7. SavedIsAsked'
    <3>1. StoredValid(NoTasks)
      BY Constants
    <3>2. asked' = [plan |-> asked.plan, tasks |-> NoTasks]
      BY <1>4, <2>1
    <3> QED
      BY <1>1, <2>2, <2>4, <3>1, <3>2 DEF SchedulesInv, SavedIsAsked
  <2> QED
    BY <1>3, <2>3, <2>5, <2>6, <2>7 DEF SchedulesInv
<1> QED
  BY <1>5, <1>6

\* load: the memory is again what was saved.
LEMMA RestartStep ==
    ASSUME SchedulesInv, Restart
    PROVE  SchedulesInv'
<1>1. /\ ~up /\ up' = TRUE /\ LoadPlan /\ LoadTasks
      /\ UNCHANGED <<now, planFile, taskFile, bad, pw, tw, put, asked, ran, planRan, touched>>
  BY DEF Restart, history
<1>2. pw.pc = "idle" /\ tw.pc = "idle" /\ put.pc = "idle"
  BY <1>1 DEF SchedulesInv, PlanTypes, TaskTypes
<1>3. SavedPlan' = SavedPlan /\ SavedTasks' = SavedTasks
  BY <1>1 DEF SavedPlan, SavedTasks
<1>4. StoredValid(SavedTasks)
  BY DEF SchedulesInv, SavedIsAsked
<1>5. plan' = SavedPlan /\ planError' \in {"", "invalid_config"}
  BY <1>1 DEF LoadPlan, SavedPlan
<1>6. tasks' = SavedTasks /\ taskError' \in {"", "invalid_config"}
  BY <1>1, <1>4 DEF LoadTasks, SavedTasks
<1>7. PlanTypes'
  <2>1. SavedPlan \in PlanStored
    BY Constants DEF SchedulesInv, PlanTypes, SavedPlan
  <2> QED
    BY <1>1, <1>2, <1>5, <2>1 DEF SchedulesInv, PlanTypes
<1>8. TaskTypes'
  <2>1. IsList(SavedTasks)
    BY SavedListed DEF SchedulesInv
  <2> QED
    BY <1>1, <1>2, <1>6, <2>1 DEF SchedulesInv, TaskTypes, IsList
<1>9. OtherTypes'
  BY <1>1 DEF SchedulesInv, OtherTypes
<1>10. SavedIsAsked'
  BY <1>1, <1>3, <1>5, <1>6 DEF SchedulesInv, SavedIsAsked, Wanted, StoredValid
<1>11. PlanDated' /\ TasksDated' /\ JobDated' /\ RoundsDate' /\ RebootYields'
  BY <1>1, <1>2, <1>3 DEF SchedulesInv, PlanDated, TasksDated, JobDated, RoundsDate,
                          RebootYields, Increasing, AllUpTo
<1> QED
  BY <1>7, <1>8, <1>9, <1>10, <1>11 DEF SchedulesInv

\* Init, and every step.
LEMMA InitSchedules == Init => SchedulesInv
<1> SUFFICES ASSUME Init PROVE SchedulesInv
  OBVIOUS
<1>1. /\ now = [date |-> 1, time |-> Day - 1] /\ planFile = plan /\ taskFile = tasks /\ bad = {}
      /\ planError = "" /\ taskError = "" /\ up = TRUE /\ pw = PlanIdle /\ tw = TaskIdle
      /\ put = NoPut /\ ran = [id \in Ids |-> << >>] /\ planRan = << >> /\ touched = FALSE
      /\ asked = [plan |-> [enabled |-> plan.enabled, time |-> plan.time],
                  tasks |-> [id \in DOMAIN tasks |-> tasks[id].input]]
      /\ StoredValid(tasks)
  BY DEF Init
<1>2. pw.pc = "idle" /\ tw.pc = "idle" /\ put.pc = "idle"
  BY <1>1 DEF PlanIdle, TaskIdle, NoPut
<1>3. SavedPlan = plan /\ SavedTasks = tasks
  BY <1>1 DEF SavedPlan, SavedTasks
<1>4. now \in Clock
  <2>1. 1 \in Dates /\ Day - 1 \in Times
    BY Constants DEF Dates, Times
  <2> QED
    BY <1>1, <2>1 DEF Clock
<1>5. plan \in PlanStored
  <2>1. CASE plan = DefaultPlan
    BY <2>1, Constants
  <2>2. CASE \E t \in Times : plan = [enabled |-> TRUE, time |-> t, last |-> 0]
    BY <2>2 DEF PlanStored
  <2> QED
    BY <2>1, <2>2 DEF Init
<1>6. IsList(tasks)
  <2>1. PICK saved \in SUBSET Ids : \E inputs \in [saved -> Inputs] :
           tasks = [id \in saved |-> [input |-> inputs[id], last |-> 0,
                                     triggered |-> FALSE, result |-> ""]]
    BY DEF Init
  <2>2. PICK inputs \in [saved -> Inputs] :
           tasks = [id \in saved |-> [input |-> inputs[id], last |-> 0,
                                     triggered |-> FALSE, result |-> ""]]
    BY <2>1
  <2>3. \A input \in Inputs :
           [input |-> input, last |-> 0, triggered |-> FALSE, result |-> ""] \in Task
    BY SchedulesAssumption DEF Task
  <2> QED
    BY <2>2, <2>3 DEF IsList
<1>7. PlanTypes
  BY <1>1, <1>2, <1>5, Constants, NoDates DEF PlanTypes
<1>8. TaskTypes
  <2>1. put \in [pc : {"idle", "commit"}, id : Ids \cup {""}, input : TaskInput]
    BY <1>1, Constants DEF NoPut
  <2>2. ran \in [Ids -> Seq(Dates)]
    BY <1>1, NoDates
  <2> QED
    BY <1>1, <1>2, <1>6, <2>1, <2>2, Constants DEF TaskTypes
<1>9. OtherTypes /\ SavedIsAsked
  BY <1>1, <1>3, <1>4 DEF OtherTypes, SavedIsAsked, Wanted
<1>10. PlanDated
  BY <1>1, <1>2, NoDates DEF PlanDated
<1>11. TasksDated
  BY <1>1, <1>3, <1>6, NoDates DEF TasksDated, IsList
<1>12. JobDated /\ RoundsDate /\ RebootYields
  BY <1>2 DEF JobDated, RoundsDate, RebootYields
<1> QED
  BY <1>7, <1>8, <1>9, <1>10, <1>11, <1>12 DEF SchedulesInv

LEMMA StepSchedules ==
    ASSUME SchedulesInv, [Next]_vars
    PROVE  SchedulesInv'
<1>1. CASE UNCHANGED vars
  <2>1. UNCHANGED <<now, planVars, taskVars, bad, up, pw, tw, history>> /\ put' = put
    BY <1>1 DEF vars
  <2> QED
    BY <2>1, PutTyped, IdleStep
<1>2. CASE Next
  BY <1>2, ClockStep, SetPlanStep, PlanTickStep, PlanObserveStep, PlanRebootStep, PutStep,
     RemoveStep, TaskTickStep, DrainEndsStep, TaskObserveStep, TaskCheckStep, TaskExecStep,
     TaskFinishStep, KillStep, SpoilStep, RestartStep DEF Next
<1> QED
  BY <1>1, <1>2

LEMMA SchedulesHold == Spec => []SchedulesInv
<1>1. SchedulesInv /\ [Next]_vars => SchedulesInv'
  BY StepSchedules
<1> QED
  BY <1>1, InitSchedules, PTL DEF Spec

\* Every variable keeps its type, and no drain takes more than MAX_TASKS rounds
\* (spawn_task_schedule), for any tasks, days and requests.
THEOREM TypesHold == Spec => []TypeOK
<1>1. SchedulesInv => TypeOK
  BY TypesImplied DEF SchedulesInv
<1> QED
  BY <1>1, SchedulesHold, PTL

\* What the user has accepted is kept through failed writes, kills and restarts,
\* the plan and every task run at most once on a date, a one-shot task once at
\* all, and a reboot task yields to the plan (reboot_schedule.rs and
\* task_schedule.rs), for any number of tasks, days and requests.
THEOREM PlansKeptHolds == Spec => []PlansKept
<1>1. ASSUME SchedulesInv PROVE AcceptedEditsHold
  BY <1>1 DEF SchedulesInv, SavedIsAsked, Wanted, AcceptedEditsHold
<1>2. ASSUME SchedulesInv PROVE RunsOncePerDate
  <2>1. Increasing(planRan)
    BY <1>2 DEF SchedulesInv, PlanDated
  <2>2. ASSUME NEW id \in Ids
        PROVE  /\ Increasing(ran[id])
               /\ id \in DOMAIN asked.tasks /\ ~asked.tasks[id].daily => Len(ran[id]) <= 1
    <3>1. asked.tasks = Wanted(SavedTasks)
      BY <1>2 DEF SchedulesInv, SavedIsAsked
    <3>2. CASE id \notin DOMAIN SavedTasks
      <4>1. ran[id] = << >> /\ id \notin DOMAIN asked.tasks
        BY <1>2, <3>1, <3>2 DEF SchedulesInv, TasksDated, Wanted
      <4> QED
        BY <4>1, NoDates
    <3>3. CASE id \in DOMAIN SavedTasks
      <4>1. /\ Increasing(ran[id])
            /\ SavedTasks[id].input.daily \/ ran[id] = << >> \/ Len(ran[id]) = 1
        BY <1>2, <3>3 DEF SchedulesInv, TasksDated
      <4>2. asked.tasks[id] = SavedTasks[id].input
        BY <3>1, <3>3 DEF Wanted
      <4>3. ran[id] = << >> => Len(ran[id]) <= 1
        OBVIOUS
      <4>4. Len(ran[id]) = 1 => Len(ran[id]) <= 1
        OBVIOUS
      <4>5. ~SavedTasks[id].input.daily => Len(ran[id]) <= 1
        BY <4>1, <4>3, <4>4
      <4> QED
        BY <4>1, <4>2, <4>5
    <3> QED
      BY <3>2, <3>3
  <2> QED
    BY <2>1, <2>2 DEF RunsOncePerDate
<1>3. SchedulesInv => PlansKept
  BY <1>1, <1>2 DEF PlansKept, SchedulesInv
<1> QED
  BY <1>3, SchedulesHold, PTL

\* An edit writes no result, and the drain goes on after it.
LEMMA UpsertFiles ==
    ASSUME tw \in TaskWorker, NEW id, NEW input, NEW ok \in BOOLEAN, Upsert(id, input, ok)
    PROVE  ResultFiled /\ MinuteDrained
<1>1. CASE UNCHANGED <<tasks, tw>>
  BY <1>1 DEF ResultFiled, MinuteDrained
<1>2. CASE /\ tasks' = With(tasks, id, [input |-> input, last |-> 0, triggered |-> FALSE,
                                        result |-> ""])
           /\ Edited(id)
  <2>1. tw'.pc = tw.pc
    BY <1>2, EditedWorker
  <2>2. \A i \in DOMAIN tasks' : tasks'[i].result = "" \/ tasks'[i] = tasks[i]
    BY <1>2 DEF With
  <2> QED
    BY <2>1, <2>2 DEF ResultFiled, MinuteDrained
<1> QED
  BY <1>1, <1>2 DEF Upsert, taskVars

LEMMA RemoveFiles ==
    ASSUME tw \in TaskWorker, NEW id, NEW ok \in BOOLEAN, Remove(id, ok)
    PROVE  ResultFiled /\ MinuteDrained
<1>1. CASE UNCHANGED <<tasks, tw>>
  BY <1>1 DEF ResultFiled, MinuteDrained
<1>2. CASE tasks' = Without(tasks, id) /\ Edited(id)
  <2>1. tw'.pc = tw.pc
    BY <1>2, EditedWorker
  <2>2. \A i \in DOMAIN tasks' : tasks'[i] = tasks[i]
    BY <1>2 DEF Without
  <2> QED
    BY <2>1, <2>2 DEF ResultFiled, MinuteDrained
<1> QED
  BY <1>1, <1>2 DEF Remove

\* observe files "requested"; after a failed save the error stands.
LEMMA ObserveFiles ==
    ASSUME SchedulesInv, NEW id \in Ids, NEW ok \in BOOLEAN, TaskObserve(id, ok)
    PROVE  ResultFiled /\ MinuteDrained
<1>1. CASE ~ok
  BY <1>1 DEF TaskObserve, ResultFiled, MinuteDrained
<1>2. CASE ok
  <2> DEFINE at == IF tasks[id].input.action = "device.reboot" THEN "check" ELSE "exec"
             job == [id |-> id, input |-> tasks[id].input, ok |-> FALSE, current |-> TRUE]
  <2>1. /\ tw.pc = "drain" /\ id \in DOMAIN tasks
        /\ tasks' = [tasks EXCEPT ![id] = Attempted(tasks[id], tw.clock.date)]
        /\ tw' = [tw EXCEPT !.n = tw.n + 1, !.pc = at, !.job = job]
    BY <1>2 DEF TaskObserve, Due
  <2> HIDE DEF job
  <2>2. tw \in TaskWorker /\ tasks[id] \in Task /\ tw.clock.date \in Dates
    BY <2>1 DEF SchedulesInv, TaskTypes, IsList, Clock
  <2>3. tw'.pc # "idle"
    BY <2>1, <2>2 DEF TaskWorker
  <2>4. tasks'[id].result = "requested"
    BY <2>1, <2>2 DEF Attempted, Task
  <2>5. \A i \in DOMAIN tasks \ {id} : tasks'[i] = tasks[i]
    BY <2>1
  <2> QED
    BY <2>3, <2>4, <2>5 DEF ResultFiled, MinuteDrained
<1> QED
  BY <1>1, <1>2

\* finish files the result of the job at its own task only.
LEMMA FinishFiles ==
    ASSUME SchedulesInv, NEW ok \in BOOLEAN, TaskFinish(ok)
    PROVE  ResultFiled /\ MinuteDrained
<1>1. tw.pc = "finish"
  BY DEF TaskFinish
<1>2. CASE tasks' = tasks
  BY <1>1, <1>2 DEF ResultFiled, MinuteDrained
<1>3. CASE tasks' # tasks
  <2>1. /\ Finishes(tw.job.id, tw.clock.date)
        /\ tasks' = [tasks EXCEPT ![tw.job.id].result = IF tw.job.ok THEN "ok" ELSE "failed"]
    BY <1>3 DEF TaskFinish, taskVars
  <2>2. tw.job.current
    BY <1>1, <2>1, FinishesCurrent
  <2>3. \A i \in DOMAIN tasks \ {tw.job.id} : tasks'[i] = tasks[i]
    BY <2>1
  <2> QED
    BY <1>1, <2>2, <2>3 DEF ResultFiled, MinuteDrained
<1> QED
  BY <1>2, <1>3

\* A drain whose rounds are used up, without an edit, has dated every task.
LEMMA EndFiles ==
    ASSUME SchedulesInv, DrainEnds
    PROVE  ResultFiled /\ MinuteDrained
<1>1. tw.pc = "drain" /\ UNCHANGED <<tasks, touched, taskError>> /\ (Exhausted \/ Due(tw.clock) = {})
  BY DEF DrainEnds, taskVars, history
<1>2. CASE Exhausted /\ ~touched
  <2> DEFINE d == tw.clock.date
  <2>1. /\ tasks = SavedTasks /\ IsList(tasks) /\ tw \in TaskWorker /\ d \in Dates
        /\ Cardinality(DOMAIN tasks) <= MAX_TASKS
    BY <1>1 DEF SchedulesInv, SavedIsAsked, TaskTypes, StoredValid, Clock
  <2>2. tw.n <= Cardinality(Dated(d)) /\ tw.n = MAX_TASKS
    BY <1>1, <1>2, <2>1, Constants DEF SchedulesInv, RoundsDate, TaskWorker, Exhausted
  <2>3. IsFiniteSet(DOMAIN tasks) /\ Dated(d) \in SUBSET DOMAIN tasks
    BY <2>1, SchedulesAssumption, FS_Subset DEF IsList, Dated
  <2>4. /\ Cardinality(Dated(d)) \in Nat /\ Cardinality(DOMAIN tasks) \in Nat
        /\ Cardinality(Dated(d)) <= Cardinality(DOMAIN tasks)
    BY <2>1, <2>3, DatedCounted, FS_Subset, FS_CardinalityType
  <2>5. Cardinality(DOMAIN tasks) = Cardinality(Dated(d))
    BY <2>1, <2>2, <2>4, Constants
  <2>6. Dated(d) = DOMAIN tasks
    BY <2>3, <2>5, FS_Subset
  <2>7. \A id \in DOMAIN tasks : tasks[id].last = d
    BY <2>1, <2>6 DEF Dated
  <2>8. d \in Nat /\ d > 0
    BY <2>1, Constants DEF Dates
  <2>9. ASSUME NEW id \in Due(tw.clock)
        PROVE  FALSE
    <3>1. id \in DOMAIN tasks /\ (tasks[id].last = 0 \/ tasks[id].last < d)
      BY <2>9 DEF Due, TaskDue
    <3> QED
      BY <2>7, <2>8, <3>1
  <2> QED
    BY <1>1, <2>9 DEF ResultFiled, MinuteDrained
<1>3. CASE ~(Exhausted /\ ~touched)
  BY <1>1, <1>3 DEF ResultFiled, MinuteDrained
<1> QED
  BY <1>2, <1>3

\* Every step.
LEMMA StepFiles ==
    ASSUME SchedulesInv, Next
    PROVE  ResultFiled /\ MinuteDrained
<1> USE DEF planVars, taskVars, history
<1>1. tw \in TaskWorker
  BY DEF SchedulesInv, TaskTypes
<1>2. CASE UNCHANGED <<tasks, tw>>
  BY <1>2 DEF ResultFiled, MinuteDrained
<1>3. CASE tasks' = tasks /\ tw.pc # "drain"
  BY <1>3 DEF ResultFiled, MinuteDrained
<1>4. CASE ~(up /\ up')
  BY <1>4 DEF ResultFiled, MinuteDrained, SchedulesInv, TaskTypes
<1>5. CASE Minute \/ Step
  BY <1>2, <1>5 DEF Minute, Step
<1>6. CASE \E enabled, blocked, ok \in BOOLEAN, time \in Times : SetPlan(enabled, time, blocked, ok)
  BY <1>2, <1>6 DEF SetPlan
<1>7. CASE PlanTick \/ (\E conflict, ok \in BOOLEAN : PlanObserve(conflict, ok))
           \/ (\E ok \in BOOLEAN : PlanReboot(ok))
  BY <1>2, <1>7 DEF PlanTick, PlanObserve, PlanReboot
<1>8. CASE \E id \in Ids, input \in Inputs : PutBegin(id, input)
  BY <1>2, <1>8 DEF PutBegin
<1>9. CASE \E id \in Ids, input \in Inputs, ok \in BOOLEAN : Put(id, input, ok)
  BY <1>1, <1>9, UpsertFiles DEF Put
<1>10. CASE \E readable, ok \in BOOLEAN : PutCommit(readable, ok)
  <2>1. PICK readable \in BOOLEAN, ok \in BOOLEAN : PutCommit(readable, ok)
    BY <1>10
  <2>2. CASE Upsert(put.id, put.input, ok)
    BY <1>1, <2>2, UpsertFiles
  <2>3. CASE UNCHANGED <<tasks, tw>>
    BY <1>2, <2>3
  <2> QED
    BY <2>1, <2>2, <2>3 DEF PutCommit
<1>11. CASE \E id \in Ids, ok \in BOOLEAN : Remove(id, ok)
  BY <1>1, <1>11, RemoveFiles
<1>12. CASE TaskTick \/ (\E conflict \in BOOLEAN : TaskCheck(conflict))
            \/ (\E ok \in BOOLEAN : TaskExec(ok))
  BY <1>3, <1>12 DEF TaskTick, TaskCheck, TaskExec
<1>13. CASE Kill \/ Restart
  BY <1>4, <1>13 DEF Kill, Restart
<1>14. CASE \E file \in {"plan", "tasks"} : Spoil(file)
  BY <1>2, <1>14 DEF Spoil
<1> QED
  BY <1>5, <1>6, <1>7, <1>8, <1>9, <1>10, <1>11, <1>12, <1>13, <1>14, EndFiles, ObserveFiles,
     FinishFiles DEF Next

\* A drain leaves no task of its minute behind unless the list was edited or a
\* write failed, and finish (TaskSchedule) files each result at the task whose
\* run produced it, for any number of tasks, days and requests.
THEOREM DrainsWholeHolds == Spec => DrainsWhole
<1>1. SchedulesInv /\ [Next]_vars => [ResultFiled]_vars /\ [MinuteDrained]_vars
  BY StepFiles
<1> QED
  BY <1>1, SchedulesHold, PTL DEF Spec, DrainsWhole, ResultsMatchRuns, DrainComplete
=============================================================================
