----------------------------- MODULE ApnControl -----------------------------
(* The session with the vendor's web service (device_session.rs) and the APN *)
(* controls that need it (control.rs, apn_targets.rs). Each call to the       *)
(* vendor is a step of its own; the STATE mutex is held across the calls of   *)
(* login and of active, and NETWORK_GATE across those of a control. A request *)
(* may be dropped at any of them. The answers of the vendor are external.     *)
EXTENDS Naturals, FiniteSets, TLC

CONSTANTS Callers,
          None,
          External,         \* the slots with one fixed configuration: 101 and 201
          MaxAttempts,      \* MAX_ATTEMPTS
          MaxIds,           \* bound: vendor sessions
          Reads             \* reads that may confirm a change, 5 in the code

VARIABLES state,            \* STATE: session, expired, attempts
          lock, gate,       \* who holds STATE and NETWORK_GATE
          alive,            \* the vendor's sessions, one at most
          used,             \* session ids given out so far
          last,             \* the id of the last login that succeeded here
          multi,            \* MULTI_MODEM
          cfg,              \* the vendor's configuration of each slot
          pc, op            \* what each caller is at, and the request it works on

vars == <<state, lock, gate, alive, used, last, multi, cfg, pc, op>>

Main == "main"              \* slot 1, and what a call without a slot reaches
Modems == {Main} \cup External
Actions == {"set_mode", "add", "modify", "delete", "enable"}

(* A request: slot None is the legacy call; secret None is a request that *)
(* names no password. Mode, name and enabled profile are left out.        *)
Requests ==
  {r \in [action: Actions, slot: Modems \cup {None}, secret: {None, "new"}]:
     r.secret = "new" => r.action \in {"add", "modify"}}
NoRequest == [action |-> "none", slot |-> None, secret |-> None, reads |-> 0]

(* The password the profile of a slot has before anyone changes it. *)
Own(slot) == slot

TypeOK ==
  /\ lock \in Callers \cup {None} /\ gate \in Callers \cup {None}
  /\ state.attempts \in 0..MaxAttempts /\ state.expired \in BOOLEAN
  /\ alive \subseteq 1..MaxIds /\ Cardinality(alive) <= 1 /\ used \in 0..MaxIds

Init ==
  /\ state = [session |-> None, checkable |-> FALSE, expired |-> FALSE, attempts |-> 0]
  /\ lock = None /\ gate = None /\ alive = {} /\ used = 0 /\ last = 0
  /\ multi \in BOOLEAN
  /\ cfg = [slot \in Modems |-> [has |-> TRUE, secret |-> Own(slot)]]
  /\ pc = [c \in Callers |-> "idle"] /\ op = [c \in Callers |-> NoRequest]

Goto(c, l) == pc' = [pc EXCEPT ![c] = l]
(* The request is over; the guards it held are dropped. *)
Return(c) ==
  /\ Goto(c, "idle") /\ op' = [op EXCEPT ![c] = NoRequest]
  /\ lock' = IF lock = c THEN None ELSE lock
  /\ gate' = IF gate = c THEN None ELSE gate
Vendor == <<alive, used, cfg>>
Cancel(c) == pc[c] # "idle" /\ Return(c) /\ UNCHANGED <<state, Vendor, last, multi>>

-----------------------------------------------------------------------------
(* login: the attempt counts before anything is asked of the vendor. *)
Login(c) ==
  /\ pc[c] = "idle" /\ lock = None /\ state.attempts < MaxAttempts
  /\ lock' = c /\ state' = [state EXCEPT !.attempts = @ + 1]
  /\ Goto(c, "login_info") /\ UNCHANGED <<gate, op, Vendor, last, multi>>
(* The salt arrives, or the vendor has locked logins or does not answer. *)
LoginInfo(c) ==
  /\ pc[c] = "login_info"
  /\ \/ Goto(c, "login_call") /\ UNCHANGED <<lock, gate, op>>
     \/ Return(c)
  /\ UNCHANGED <<state, Vendor, last, multi>>
(* web_login: accepted with a session id, which replaces the one before; *)
(* accepted, but the answer is lost or has no usable id; or refused.     *)
LoginCall(c) ==
  /\ pc[c] = "login_call"
  /\ \/ /\ used < MaxIds /\ used' = used + 1 /\ alive' = {used + 1}
        /\ Goto(c, "login_check")
     \/ /\ used < MaxIds /\ used' = used + 1 /\ alive' = {used + 1}
        /\ Goto(c, "login_lockout")
     \/ UNCHANGED <<used, alive>> /\ Goto(c, "login_lockout")
  /\ op' = [op EXCEPT ![c].reads = used']           \* the id of the reply
  /\ UNCHANGED <<state, lock, gate, cfg, last, multi>>
(* session_exists: yes, positively no, or unknown. *)
Exists(id, answer) == answer \in {"unknown", IF id \in alive THEN "yes" ELSE "no"}
MutLoginCheck(c) ==
  /\ pc[c] = "login_check"
  /\ \E answer \in {"yes", "no", "unknown"}:
       /\ Exists(op[c].reads, answer)
       /\ state' = [state EXCEPT !.session = op[c].reads, !.checkable = (answer = "yes")]
  /\ last' = op[c].reads
  /\ Return(c) /\ UNCHANGED <<Vendor, multi>>
LoginCheck(c) ==
  /\ pc[c] = "login_check"
  /\ \E answer \in {"yes", "no", "unknown"}:
       /\ Exists(op[c].reads, answer)
       /\ state' = [state EXCEPT !.session = op[c].reads, !.checkable = (answer = "yes"),
                                 !.expired = FALSE]
  /\ last' = op[c].reads
  /\ Return(c) /\ UNCHANGED <<Vendor, multi>>
(* A login that failed asks once more whether logins are locked now. *)
LoginLockout(c) ==
  pc[c] = "login_lockout" /\ Return(c) /\ UNCHANGED <<state, Vendor, last, multi>>

(* active, up to its call: what is known without one. *)
Known == state.expired \/ state.session = None \/ ~state.checkable
(* active, after its call: only a positive no ends the session here. *)
Settle(answer) ==
  state' = IF answer = "no" THEN [state EXCEPT !.session = None, !.expired = TRUE] ELSE state

(* panel_status *)
Status(c) ==
  /\ pc[c] = "idle" /\ lock = None /\ ~Known
  /\ lock' = c /\ Goto(c, "status") /\ UNCHANGED <<state, gate, op, Vendor, last, multi>>
StatusAnswer(c) ==
  /\ pc[c] = "status"
  /\ \E answer \in {"yes", "no", "unknown"}: Exists(state.session, answer) /\ Settle(answer)
  /\ Return(c) /\ UNCHANGED <<Vendor, last, multi>>

-----------------------------------------------------------------------------
(* execute takes the gate for an APN control. *)
Apn(c, r) ==
  /\ pc[c] = "idle" /\ gate = None /\ gate' = c
  /\ op' = [op EXCEPT ![c] = [action |-> r.action, slot |-> r.slot, secret |-> r.secret, reads |-> 0]]
  /\ Goto(c, "apn_check") /\ UNCHANGED <<state, lock, Vendor, last, multi>>
(* expired(): a session known to be gone refuses the control. *)
ApnCheck(c) ==
  /\ pc[c] = "apn_check" /\ lock = None
  /\ IF state.expired THEN Return(c)
     ELSE /\ UNCHANGED <<gate, op>>
          /\ IF Known THEN Goto(c, "apn_slot") /\ UNCHANGED lock
                      ELSE Goto(c, "apn_probe") /\ lock' = c
  /\ UNCHANGED <<state, Vendor, last, multi>>
ApnProbe(c) ==
  /\ pc[c] = "apn_probe"
  /\ \E answer \in {"yes", "no", "unknown"}:
       /\ Exists(state.session, answer) /\ Settle(answer)
       /\ IF answer = "no" THEN Return(c)
          ELSE lock' = None /\ Goto(c, "apn_slot") /\ UNCHANGED <<gate, op>>
  /\ UNCHANGED <<Vendor, last, multi>>

(* slot_param: without other modems slot 1 is the legacy call, and the other *)
(* slots are refused.                                                        *)
Refused(slot) == slot \in External /\ ~multi
Target(slot) == IF multi THEN slot ELSE None
(* A slot must have a readable configuration, and an external one is fixed. *)
ApnSlot(c) ==
  /\ pc[c] = "apn_slot"
  /\ LET r == op[c] IN
     \/ /\ ~Refused(r.slot) /\ ~(r.slot \in External /\ r.action \in {"add", "delete"})
        /\ op' = [op EXCEPT ![c].slot = Target(r.slot)]
        /\ Goto(c, IF r.action = "modify" THEN "apn_list" ELSE "apn_call")
        /\ UNCHANGED <<lock, gate>>
     \/ /\ Refused(r.slot) \/ Target(r.slot) # None   \* or config cannot be read
        /\ Return(c)
  /\ UNCHANGED <<state, Vendor, last, multi>>

(* with_slot: the slot that a call reaches. *)
Reached(slot) == IF slot = None THEN Main ELSE slot
(* modify: the fields the request leaves out are taken from the profile's *)
(* present ones.                                                          *)
Existing(r) == cfg[Reached(r.slot)].secret
ApnList(c) ==
  /\ pc[c] = "apn_list"
  /\ \/ /\ cfg[Reached(op[c].slot)].has
        /\ op' = [op EXCEPT ![c].secret = IF @ = None THEN Existing(op[c]) ELSE @]
        /\ Goto(c, "apn_call") /\ UNCHANGED <<lock, gate>>
     \/ Return(c)                                    \* no such profile, or no answer
  /\ UNCHANGED <<state, Vendor, last, multi>>

(* What the vendor makes of a request. *)
Changed(r, k) ==
  IF r.action = "delete" THEN [k EXCEPT !.has = FALSE]
  ELSE IF r.action \in {"add", "modify"}
       THEN [has |-> TRUE, secret |-> IF r.secret = None THEN "empty" ELSE r.secret]
       ELSE k
(* The call: carried out or not, answered or not. With a slot the change is *)
(* read back before it counts.                                              *)
ApnCall(c) ==
  /\ pc[c] = "apn_call"
  /\ \/ cfg' = [cfg EXCEPT ![Reached(op[c].slot)] = Changed(op[c], @)]
     \/ UNCHANGED cfg
  /\ \/ /\ op[c].slot # None /\ Goto(c, "apn_confirm")
        /\ op' = [op EXCEPT ![c].reads = Reads] /\ UNCHANGED <<lock, gate>>
     \/ Return(c)
  /\ UNCHANGED <<state, alive, used, last, multi>>
(* apn_change_confirmed: a read shows the change, or the last one did not. *)
ApnConfirm(c) ==
  /\ pc[c] = "apn_confirm"
  /\ \/ Return(c)
     \/ op[c].reads > 1 /\ op' = [op EXCEPT ![c].reads = @ - 1] /\ UNCHANGED <<pc, lock, gate>>
  /\ UNCHANGED <<state, Vendor, last, multi>>

-----------------------------------------------------------------------------
(* The vendor's session times out; someone logs in at the vendor's own page; *)
(* the window of the attempts passes.                                        *)
SessionEnds == alive # {} /\ alive' = {} /\ UNCHANGED <<state, lock, gate, used, last, multi, cfg, pc, op>>
Elsewhere == used < MaxIds /\ used' = used + 1 /\ alive' = {used + 1}
             /\ UNCHANGED <<state, lock, gate, last, multi, cfg, pc, op>>
WindowPasses == lock = None /\ state.attempts > 0 /\ state' = [state EXCEPT !.attempts = 0]
                /\ UNCHANGED <<lock, gate, Vendor, last, multi, pc, op>>

Next ==
  \/ \E c \in Callers:
       \/ Login(c) \/ LoginInfo(c) \/ LoginCall(c) \/ LoginCheck(c) \/ LoginLockout(c)
       \/ Status(c) \/ StatusAnswer(c) \/ Cancel(c)
       \/ ApnCheck(c) \/ ApnProbe(c) \/ ApnSlot(c) \/ ApnList(c) \/ ApnCall(c) \/ ApnConfirm(c)
       \/ \E r \in Requests: Apn(c, r)
  \/ SessionEnds \/ Elsewhere \/ WindowPasses

Spec == Init /\ [][Next]_vars

-----------------------------------------------------------------------------
(* A session that is called expired is gone at the vendor: a late answer     *)
(* about an older session, an answer that never came, or a login in between   *)
(* does not log the user out (device_session::active and login).              *)
ExpiredIsGone == state.expired => last \notin alive

(* A password stays with its modem: the profile of a slot has the password it *)
(* began with, one that a request named, or none; completing a modify from    *)
(* the profile's present fields never takes another slot's (apn with_slot).   *)
SecretStaysHome == \A slot \in Modems: cfg[slot].secret \in {Own(slot), "new", "empty"}
(* The inductive invariant of both. The session that is kept is the last one  *)
(* that was obtained here; whoever asks the vendor about it holds STATE, so    *)
(* that the answer is about that session; and the password a request carries   *)
(* was named by it, or read from the slot that its call will reach.            *)
Session == [session: Nat \cup {None}, checkable: BOOLEAN, expired: BOOLEAN, attempts: Nat]
Profile == [has: BOOLEAN, secret: Modems \cup {"new", "empty"}]
Ops == [action: Actions \cup {"none"}, slot: Modems \cup {None},
        secret: Modems \cup {None, "new", "empty"}, reads: Nat]
UnderLock == {"login_info", "login_call", "login_check", "login_lockout", "status", "apn_probe"}
Places == UnderLock \cup {"idle", "apn_check", "apn_slot", "apn_list", "apn_call", "apn_confirm"}
Fits(c, l, o) ==
  /\ l \in Places /\ o \in Ops
  /\ l \in UnderLock => lock = c
  /\ l \in {"status", "apn_probe"} => state.session # None
  /\ l = "login_check" => o.reads <= used
  /\ l \in {"apn_check", "apn_probe", "apn_slot", "apn_list"} => o.secret \in {None, "new"}
  /\ l = "apn_call" => o.secret \in {None, "new", "empty", Own(Reached(o.slot))}
Global ==
  /\ state \in Session /\ (state.session # None => state.session = last)
  /\ used \in Nat /\ last \in Nat /\ last <= used
  /\ cfg \in [Modems -> Profile]
  /\ ExpiredIsGone /\ SecretStaysHome
ApnInv ==
  /\ pc \in [Callers -> Places] /\ op \in [Callers -> Ops]
  /\ Global /\ \A c \in Callers: Fits(c, pc[c], op[c])
=============================================================================
