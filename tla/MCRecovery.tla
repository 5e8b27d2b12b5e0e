----------------------------- MODULE MCRecovery -----------------------------
(***************************************************************************)
(* Network recovery and the ownership of the time services, the two parts  *)
(* that act on the device of their own accord and have to take it back.    *)
(* They do not meet: `live` says which one a behaviour is about, and the   *)
(* other keeps its initial state.  Recovery starts with reboots allowed;   *)
(* Update takes them back.                                                 *)
(***************************************************************************)
EXTENDS NetworkRecovery

CONSTANTS NFiles, TimeUpsets, MaxRequests   \* TimeOwnership

\* There is a time zone file.
ASSUME OwnershipAssumption == NFiles \in Nat /\ NFiles > 0

VARIABLES live,
    tFile, tUci, tPending, tSvc, tJournal, tCalibration, tOp, tOwn, tError,
    tAnchor, tQueued, tUpsets, tRequests, tBase, tForeign, tOutside, tReused

Time == INSTANCE TimeOwnership WITH
    MaxUpsets <- TimeUpsets,
    file <- tFile, uci <- tUci, pending <- tPending, svc <- tSvc,
    journal <- tJournal, calibration <- tCalibration, op <- tOp, own <- tOwn,
    error <- tError, anchor <- tAnchor, queued <- tQueued, upsets <- tUpsets,
    requests <- tRequests, base <- tBase, foreign <- tForeign,
    outside <- tOutside, reused <- tReused

timeVars == <<tFile, tUci, tPending, tSvc, tJournal, tCalibration, tOp, tOwn,
              tError, tAnchor, tQueued, tUpsets, tRequests, tBase, tForeign,
              tOutside, tReused>>
both == <<live, vars, timeVars>>

BothInit ==
    /\ live \in {"recovery", "time"} /\ Init /\ Time!Init
    /\ live = "recovery" => tSvc = Time!Off /\ disk.reboot_after
    /\ live = "time" => disk = DefaultStored

RecoveryStep == live = "recovery" /\ Next /\ UNCHANGED <<live, timeVars>>
TimeStep == live = "time" /\ Time!Next /\ UNCHANGED <<live, vars>>

BothSpec == BothInit /\ [][RecoveryStep \/ TimeStep]_both

-----------------------------------------------------------------------------
\* TimeOwnership.GivenBack: what datad changed is taken back, exactly.
GivenBack == Time!GivenBack
=============================================================================
