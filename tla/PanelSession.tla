---------------------------- MODULE PanelSession ----------------------------
(***************************************************************************)
(* The state stream of a remote panel (cloud_panel.rs).  One task samples  *)
(* the device, sends what changed and runs the controls the browser asks   *)
(* for; every read of the device is an await, and the device goes on       *)
(* changing meanwhile.                                                     *)
(***************************************************************************)
EXTENDS Naturals, FiniteSets

CONSTANTS
    Ids,           \* request ids of controls
    MaxControls,   \* MAX_CONTROLS_PER_SESSION
    MaxTick        \* bound: changes of the device

VARIABLES
    world,    \* version of each block of the device's state
    tick,     \* changes so far
    big,      \* the state is larger than MAX_STATE_BYTES
    phase,    \* what the session task is doing
    mode,     \* control_mode
    have,     \* the session's copies of the blocks
    next,     \* what the running sample has read
    pend,     \* config_pending
    shown,    \* history: the blocks of the last state message
    mark,     \* history: the device's state when the last sample began
    dropped,  \* history: copies were renewed by a message that was not sent
    used,     \* used_ids
    about     \* the block the running control is about

vars == <<world, tick, big, phase, mode, have, next, pend, shown, mark, dropped, used, about>>

\* snapshot and history; tasks and SMS forwarding; update status; hosts and
\* device session; Wi-Fi, APN and cooling settings.
Blocks == {"state", "tasks", "update", "hosts", "config"}

\* The blocks every sample looks at.
Live == {"state", "tasks", "update"}

Absent == 0
Blank == [b \in Blocks |-> Absent]
device == <<world, tick, big>>
history == <<mark, used, about>>

(***************************************************************************)
(* The device.                                                             *)
(***************************************************************************)
Bump(b) == tick < MaxTick /\ tick' = tick + 1 /\ world' = [world EXCEPT ![b] = tick + 1]

\* Any other actor changes a block.
Change ==
    /\ \E b \in Blocks : Bump(b)
    /\ UNCHANGED <<big, phase, mode, have, next, pend, shown, dropped, history>>

\* The snapshot grows past what a message may hold, or shrinks.
Resize ==
    /\ phase # "off"
    /\ big' = ~big
    /\ UNCHANGED <<world, tick, phase, mode, have, next, pend, shown, dropped, history>>

(***************************************************************************)
(* Messages and the end.                                                   *)
(***************************************************************************)
Over ==
    /\ phase' = "off" /\ mode' = FALSE /\ have' = Blank /\ next' = Blank /\ pend' = FALSE
    /\ shown' = Blank /\ mark' = Blank /\ dropped' = FALSE /\ used' = {} /\ about' = "state"

\* state_message_with_config, sent; a message over the limit is none.
Send(blocks) == ~big /\ shown' = blocks /\ dropped' = FALSE

(***************************************************************************)
(* run, up to the loop.                                                    *)
(***************************************************************************)
Open ==
    /\ phase = "off"
    /\ phase' = "first" /\ mode' \in BOOLEAN
    /\ next' = [Blank EXCEPT !["state"] = world["state"]]
    /\ mark' = world
    /\ UNCHANGED <<device, have, pend, shown, dropped, used, about>>

\* The other blocks are read and the first message leaves.
First ==
    /\ phase = "first"
    /\ \/ /\ big /\ Over
       \/ /\ have' = [world EXCEPT !["state"] = next["state"], !["config"] = Absent]
          /\ Send(have') /\ next' = Blank /\ phase' = "config"
          /\ UNCHANGED <<mode, pend, history>>
    /\ UNCHANGED device

\* wifi_panel_config and the like: the settings, within 6 or 12 seconds, or none.
panel_config == {world["config"], Absent}

ReadConfig ==
    /\ phase = "config"
    /\ \E c \in panel_config :
         have' = [have EXCEPT !["config"] = c] /\ pend' = (c # Absent)
    /\ phase' = "loop"
    /\ UNCHANGED <<device, mode, next, shown, dropped, history>>

(***************************************************************************)
(* The arms of the loop.                                                   *)
(***************************************************************************)

\* sample.tick: state and history are read first,
SampleBegin ==
    /\ phase = "loop"
    /\ phase' = "sample" /\ mark' = world
    /\ next' = [have EXCEPT !["state"] = world["state"]]
    /\ UNCHANGED <<device, mode, have, pend, shown, dropped, used, about>>

MutSampleTasks ==
    /\ phase = "sample"
    /\ phase' = "compare"
    /\ next' = [next EXCEPT !["tasks"] = world["tasks"]]
    /\ have' = [have EXCEPT !["update"] = world["update"]]
    /\ UNCHANGED <<device, mode, pend, shown, dropped, history>>

\* then tasks and SMS forwarding, then the update status, whose change is
\* remembered in config_pending,
SampleTasks ==
    /\ phase = "sample"
    /\ phase' = "compare"
    /\ next' = [next EXCEPT !["tasks"] = world["tasks"]]
    /\ have' = [have EXCEPT !["update"] = world["update"]]
    /\ pend' = (pend \/ world["update"] # have["update"])
    /\ UNCHANGED <<device, mode, shown, dropped, history>>

\* then everything is sent if anything differs.
SampleSend ==
    /\ phase = "compare"
    /\ LET new == [have EXCEPT !["state"] = next["state"], !["tasks"] = next["tasks"]] IN
       \/ /\ ~pend /\ new = have
          /\ phase' = "loop" /\ next' = Blank
          /\ UNCHANGED <<mode, have, pend, shown, dropped, history>>
       \/ /\ pend \/ new # have
          /\ Send(new) /\ have' = new /\ pend' = FALSE
          /\ phase' = "loop" /\ next' = Blank
          /\ UNCHANGED <<mode, history>>
       \/ /\ pend \/ new # have
          /\ big /\ Over
    /\ UNCHANGED device

\* hosts_refresh.tick: every 5 seconds, sent whether changed or not.
HostsRefresh ==
    /\ phase = "loop"
    /\ \/ /\ big /\ Over
       \/ /\ have' = [have EXCEPT !["hosts"] = world["hosts"], !["update"] = world["update"]]
          /\ Send(have')
          /\ UNCHANGED <<phase, mode, next, pend, history>>
    /\ UNCHANGED device

\* A control: an id once per session and at most MaxControls; otherwise the
\* session ends, and so does a read-only one.
Receive ==
    /\ phase = "loop"
    /\ \E i \in Ids, b \in Blocks :
         IF ~mode \/ Cardinality(used) >= MaxControls \/ i \in used THEN Over
         ELSE /\ used' = used \cup {i}
              /\ phase' = "control" /\ about' = b
              /\ UNCHANGED <<mode, have, next, pend, shown, dropped, mark>>
    /\ UNCHANGED device

\* Every action that changes something; reads are about the state.
needs_confirmation(b) == b # "state"

\* The device call: done, failed, or given up on time with or without effect.
Executed == Bump(about) \/ UNCHANGED <<world, tick>>

\* control_result.
Control ==
    /\ phase = "control"
    /\ \E confirmed \in BOOLEAN :
         IF needs_confirmation(about) /\ ~confirmed THEN UNCHANGED <<world, tick>> ELSE Executed
    /\ phase' = IF about = "state" THEN "loop" ELSE "refresh"  \* other actions refresh nothing
    /\ UNCHANGED <<big, mode, have, next, pend, shown, dropped, history>>

\* The block the action belongs to is read again and sent; a message over the
\* limit is left out, and the session goes on.
Refresh ==
    /\ phase = "refresh"
    /\ \E c \in (IF about = "config" THEN panel_config ELSE {world[about]}) :
         have' = [have EXCEPT ![about] = c]
    /\ \/ Send(have')
       \/ big /\ dropped' = (dropped \/ have' # have) /\ UNCHANGED shown
    /\ phase' = "loop" /\ about' = "state"
    /\ UNCHANGED <<device, mode, next, pend, mark, used>>

\* The deadline, a shutdown, a closed or broken socket: seen only between arms.
Close ==
    /\ phase \in {"loop", "first", "config"}
    /\ Over
    /\ UNCHANGED device

Init ==
    /\ world = [b \in Blocks |-> 1] /\ tick = 1 /\ big = FALSE
    /\ phase = "off" /\ mode = FALSE /\ have = Blank /\ next = Blank /\ pend = FALSE
    /\ shown = Blank /\ mark = Blank /\ dropped = FALSE /\ used = {} /\ about = "state"

Next ==
    \/ Change \/ Resize \/ Open \/ First \/ ReadConfig \/ SampleBegin \/ SampleTasks \/ SampleSend
    \/ HostsRefresh \/ Receive \/ Control \/ Refresh \/ Close

Spec == Init /\ [][Next]_vars

(***************************************************************************)
(* Properties.                                                             *)
(***************************************************************************)

\* Between its arms the session owes the browser nothing: every live block
\* the browser has is at least as new as when the last sample began, although
\* blocks are compared with copies that the other arms renew as well; only a
\* control whose state message was too large may leave it behind (run).
PanelCurrent ==
    phase = "loop" /\ ~dropped => \A b \in Live : shown[b] >= mark[b]
\* Its inductive invariant.  In the loop the session's copies are what the
\* browser was shown, and as new as the mark; while a sample runs they may be
\* older, but the sample holds the newer state and tasks, and a renewed update
\* status that was not shown yet is remembered in config_pending.
Versions == [Blocks -> Nat]
Steady == {"config", "loop", "control", "refresh"}
Typed ==
    /\ world \in Versions /\ have \in Versions /\ next \in Versions
    /\ shown \in Versions /\ mark \in Versions /\ tick \in Nat /\ about \in Blocks
    /\ phase \in Steady \cup {"off", "first", "sample", "compare"}
    /\ pend \in BOOLEAN /\ dropped \in BOOLEAN
Begun == \A b \in Blocks : mark[b] <= world[b] /\ world[b] <= tick
InLoop == \A b \in Live : have[b] >= mark[b] /\ (dropped = FALSE => shown[b] = have[b])
InSample ==
    /\ phase \in {"first", "sample", "compare"} => next["state"] = mark["state"]
    /\ phase = "sample" /\ dropped = FALSE => \A b \in Live : shown[b] = have[b]
    /\ phase = "compare" =>
         /\ next["tasks"] >= mark["tasks"] /\ have["update"] >= mark["update"]
         /\ dropped = FALSE => /\ shown["state"] = have["state"] /\ shown["tasks"] = have["tasks"]
                               /\ pend = FALSE => shown["update"] = have["update"]
PanelInv == Typed /\ Begun /\ (phase \in Steady => InLoop) /\ InSample
=============================================================================
