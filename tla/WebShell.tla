------------------------------ MODULE WebShell ------------------------------
(* The web shell: a WebSocket bridged to a login shell on a pseudo terminal *)
(* (webshell.rs), from the permit of the upgrade to its return. A session   *)
(* waits inside the branches of its select! too: while it writes to the     *)
(* terminal or to the channel of its writer it looks at nothing else, and   *)
(* only its timeouts bring it back. Bytes and window sizes are left out.    *)
EXTENDS Naturals

CONSTANTS Clients,          \* those who may ask for a shell
          MaxSessions       \* MAX_SESSIONS

VARIABLES slots,            \* free permits of the semaphore
          active,           \* the counter that status() shows
          s                 \* s[c]: the session of client c

vars == <<slots, active, s>>

Phases == {"none", "held", "greet", "loop", "write", "send", "term", "reap"}

(* No session: no request of c is being served. *)
NoSession == [phase |-> "none", shell |-> FALSE, job |-> FALSE, stuck |-> FALSE,
              chan |-> 0, writer |-> "none", peer |-> "up", stop |-> FALSE]

TypeOK ==
  /\ slots \in 0..MaxSessions /\ active \in 0..MaxSessions
  /\ s \in [Clients -> [phase: Phases, shell: BOOLEAN, job: BOOLEAN, stuck: BOOLEAN,
                        chan: 0..1, writer: {"none", "ready", "busy", "over"},
                        peer: {"up", "deaf", "gone"}, stop: BOOLEAN]]

Init == slots = MaxSessions /\ active = 0 /\ s = [c \in Clients |-> NoSession]

(* The session of c is r from now on; no permit moves. *)
To(c, r) == s' = [s EXCEPT ![c] = r] /\ UNCHANGED <<slots, active>>
Enter(c, p) == To(c, [s[c] EXCEPT !.phase = p])

(* SIGHUP and SIGKILL to the foreground group and to the shell's own. *)
KillGroups(r) == [r EXCEPT !.shell = FALSE, !.job = FALSE]

(* What PtyProcess leaves when it is dropped: terminate has run, or its *)
(* destructor kills the groups.                                         *)
Drop(r) == IF r.phase = "reap" THEN r ELSE KillGroups(r)

(* The locals of serve_with_cancel go: the process, the counter, the permit. *)
Leave(c, serving) ==
  /\ s' = [s EXCEPT ![c] = [NoSession EXCEPT !.shell = Drop(s[c]).shell, !.job = Drop(s[c]).job]]
  /\ slots' = slots + 1
  /\ active' = IF serving THEN active - 1 ELSE active

(* webshell_upgrade gets a permit; the protocol switch may still fail. *)
Upgrade(c) ==
  /\ s[c].phase = "none" /\ slots > 0
  /\ slots' = slots - 1
  /\ s' = [s EXCEPT ![c] = [NoSession EXCEPT !.phase = "held"]]
  /\ UNCHANGED active
UpgradeFails(c) == s[c].phase = "held" /\ Leave(c, FALSE)

(* serve: the counter goes up, and the shell is started on a new terminal. *)
Spawn(c) ==
  /\ s[c].phase = "held"
  /\ active' = active + 1
  /\ s' = [s EXCEPT ![c].phase = "greet", ![c].shell = TRUE]
  /\ UNCHANGED slots
SpawnFails(c) == s[c].phase = "held" /\ Leave(c, FALSE)

(* The ready message is sent within two seconds, or the session is over. *)
Greet(c) ==
  /\ s[c].phase = "greet"
  /\ IF s[c].peer = "up" THEN To(c, [s[c] EXCEPT !.phase = "loop", !.writer = "ready"])
     ELSE Enter(c, "term")

(* Input for the shell is written to the terminal, for two seconds at most. *)
Input(c) == s[c].phase = "loop" /\ s[c].peer = "up" /\ Enter(c, "write")
Wrote(c) == s[c].phase = "write" /\ ~s[c].stuck /\ s[c].shell /\ Enter(c, "loop")
MutWriteFails(c) == s[c].phase = "write" /\ ~s[c].shell /\ Enter(c, "term")
WriteFails(c) ==
  /\ s[c].phase = "write"
  /\ s[c].stuck \/ ~s[c].shell          \* the timeout, or an error of the terminal
  /\ Enter(c, "term")

(* A text message that is no resize ends the session. *)
BadText(c) == s[c].phase = "loop" /\ s[c].peer = "up" /\ Enter(c, "term")

(* Output goes to the writer's channel of one message, for 250 ms at most. *)
Output(c) == s[c].phase = "loop" /\ s[c].shell /\ Enter(c, "send")
Sent(c) ==
  /\ s[c].phase = "send"
  /\ IF s[c].chan = 0 /\ s[c].writer # "over" THEN To(c, [s[c] EXCEPT !.phase = "loop", !.chan = 1])
     ELSE Enter(c, "term")

(* The writer: a task of its own that ends when one send fails or takes *)
(* more than two seconds.                                               *)
Writer(c) ==
  \/ /\ s[c].writer = "ready" /\ s[c].chan = 1
     /\ To(c, [s[c] EXCEPT !.writer = "busy", !.chan = 0])
  \/ /\ s[c].writer = "busy"
     /\ To(c, [s[c] EXCEPT !.writer = IF s[c].peer = "up" THEN "ready" ELSE "over"])

(* The branches of the select! that end the loop. *)
Break(c) ==
  /\ s[c].phase = "loop"
  /\ s[c].stop \/ s[c].writer = "over" \/ ~s[c].shell \/ s[c].peer = "gone"
  /\ Enter(c, "term")

(* Fifteen minutes without input or output. *)
Idle(c) == s[c].phase = "loop" /\ Enter(c, "term")

(* The writer is aborted and the groups are killed; then the child is waited *)
(* for, killed again after a second, and the session's locals go.            *)
Terminate(c) ==
  /\ s[c].phase = "term"
  /\ To(c, [KillGroups(s[c]) EXCEPT !.phase = "reap", !.writer = "none", !.chan = 0])
Reaped(c) == s[c].phase = "reap" /\ Leave(c, TRUE)

(* The future is dropped at one of its awaits: datad stops, or the cloud *)
(* runtime aborts the task.                                              *)
Cancel(c) == s[c].phase \in Phases \ {"none", "held"} /\ Leave(c, TRUE)

(* The shell starts and ends foreground jobs, stops reading, and exits (the *)
(* kernel then hangs up its foreground group).                              *)
ShellSide(c) ==
  /\ s[c].shell /\ s[c].phase # "none"
  /\ \/ \E b \in BOOLEAN: To(c, [s[c] EXCEPT !.job = b])
     \/ \E b \in BOOLEAN: To(c, [s[c] EXCEPT !.stuck = b])
     \/ To(c, [s[c] EXCEPT !.shell = FALSE, !.job = FALSE])

(* The client stops reading or goes; the owner of the session asks it to stop. *)
Outside(c) ==
  /\ s[c].phase # "none"
  /\ \/ s[c].peer # "gone" /\ \E p \in {"deaf", "gone"}: To(c, [s[c] EXCEPT !.peer = p])
     \/ To(c, [s[c] EXCEPT !.stop = TRUE])

(* What the session's own code does once an await of its is ready or timed out. *)
Progress(c) ==
  \/ UpgradeFails(c) \/ Spawn(c) \/ SpawnFails(c) \/ Greet(c)
  \/ Wrote(c) \/ WriteFails(c) \/ Sent(c) \/ Terminate(c) \/ Reaped(c)

Next == \E c \in Clients:
  \/ Upgrade(c) \/ Progress(c) \/ Input(c) \/ BadText(c) \/ Output(c) \/ Writer(c)
  \/ Break(c) \/ Idle(c) \/ Cancel(c) \/ ShellSide(c) \/ Outside(c)

(* select! picks a ready branch at random: one that is ready in every round *)
(* is taken in the end, though others are ready too.                        *)
Fairness == \A c \in Clients:
  WF_vars(Progress(c)) /\ WF_vars(Writer(c)) /\ SF_vars(Break(c))

Spec == Init /\ [][Next]_vars /\ Fairness

-----------------------------------------------------------------------------
(* A permit that is free again has left no process behind: however the     *)
(* session ended, neither its shell nor the job in its foreground runs on, *)
(* and the permits account for every session (ActiveGuard, terminate and   *)
(* PtyProcess::drop).                                                      *)
NoLeftover ==
  /\ \A c \in Clients: s[c].phase = "none" => ~s[c].shell /\ ~s[c].job
  /\ active <= MaxSessions - slots

(* A session that is asked to stop, or whose client has gone, gives its     *)
(* permit back, though the shell no longer reads and the writer is blocked: *)
(* each await inside a branch of run_session has a timeout.                 *)
StopEnds == \A c \in Clients:
  (s[c].stop \/ s[c].peer = "gone") ~> (s[c].phase = "none")
=============================================================================
