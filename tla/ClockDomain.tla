---------------------------- MODULE ClockDomain ----------------------------
(***************************************************************************)
(* The clock lease of rust/src/time_control.rs (struct ClockDomain): three *)
(* atomics shared by every date-sensitive worker (readers) and by the      *)
(* clock transitions (writers).                                            *)
(*                                                                         *)
(* Each atomic operation of the code is one step here, because the code    *)
(* holds no lock: ClockDomain::read loads `waiting`, then `leases`, then   *)
(* tries a compare-exchange; Transition::begin swaps `waiting`, then spins *)
(* on a compare-exchange of `leases` until its 45 s deadline; dropping a   *)
(* Transition bumps `generation`, frees `leases` and clears `waiting`, in  *)
(* that order.  All operations are SeqCst, so interleaving semantics is    *)
(* exact.                                                                  *)
(***************************************************************************)
EXTENDS Integers, FiniteSets

CONSTANTS
    Readers,        \* tasks that take a ClockSensitiveOperation
    Writers,        \* tasks that run a Transition
    MaxGeneration,  \* bound on the number of finished transitions
    MaxWrites       \* bound on the number of clock writes

ASSUME ClockDomainAssumption ==
    /\ IsFiniteSet(Readers)
    /\ MaxGeneration \in Nat
    /\ MaxWrites \in Nat

VARIABLES
    leases,      \* ClockDomain.leases: > 0 readers inside, -1 a transition
    waiting,     \* ClockDomain.waiting
    generation,  \* ClockDomain.generation
    rpc,         \* program counter of each reader
    loaded,      \* value of `leases` a reader loaded before its exchange
    wpc,         \* program counter of each writer
    writes,      \* history: how often the system clock has been set
    past         \* history: generation and writes at each reader's last lease

vars == <<leases, waiting, generation, rpc, loaded, wpc, writes, past>>

ReaderStates == {"idle", "checked", "loaded", "holding"}
WriterStates == {"idle", "spinning", "missed", "changing", "counted", "freed"}

Init ==
    /\ leases = 0
    /\ waiting = FALSE
    /\ generation = 0
    /\ rpc = [r \in Readers |-> "idle"]
    /\ loaded = [r \in Readers |-> 0]
    /\ wpc = [w \in Writers |-> "idle"]
    /\ writes = 0
    /\ past = [r \in Readers |-> [generation |-> 0, writes |-> 0]]

\* The readers that own a lease, and the writers that own the domain.
Holding == {r \in Readers : rpc[r] = "holding"}
Changing == {w \in Writers : wpc[w] \in {"changing", "counted"}}

(***************************************************************************)
(* ClockDomain::read, and the drop of the lease it returns.                *)
(***************************************************************************)

MutLoadWaiting(r) ==
    /\ rpc[r] = "idle"
    /\ rpc' = [rpc EXCEPT ![r] = "checked"]
    /\ UNCHANGED <<leases, waiting, generation, loaded, wpc, writes, past>>

\* waiting.load(): a waiting transition refuses the lease (None).
LoadWaiting(r) ==
    /\ rpc[r] = "idle"
    /\ ~waiting
    /\ rpc' = [rpc EXCEPT ![r] = "checked"]
    /\ UNCHANGED <<leases, waiting, generation, loaded, wpc, writes, past>>

\* leases.load(): a negative count refuses the lease (None).
LoadLeases(r) ==
    /\ rpc[r] = "checked"
    /\ IF leases < 0
       THEN /\ rpc' = [rpc EXCEPT ![r] = "idle"]
            /\ UNCHANGED loaded
       ELSE /\ rpc' = [rpc EXCEPT ![r] = "loaded"]
            /\ loaded' = [loaded EXCEPT ![r] = leases]
    /\ UNCHANGED <<leases, waiting, generation, wpc, writes, past>>

\* leases.compare_exchange(current, current + 1); a lost race starts over.
ExchangeLease(r) ==
    /\ rpc[r] = "loaded"
    /\ IF leases = loaded[r]
       THEN /\ leases' = loaded[r] + 1
            /\ rpc' = [rpc EXCEPT ![r] = "holding"]
       ELSE /\ rpc' = [rpc EXCEPT ![r] = "idle"]
            /\ UNCHANGED leases
    /\ UNCHANGED <<waiting, generation, loaded, wpc, writes, past>>

\* Drop for ClockSensitiveOperation: leases.fetch_sub(1).
DropLease(r) ==
    /\ rpc[r] = "holding"
    /\ leases' = leases - 1
    /\ rpc' = [rpc EXCEPT ![r] = "idle"]
    /\ past' = [past EXCEPT ![r] = [generation |-> generation, writes |-> writes]]
    /\ UNCHANGED <<waiting, generation, loaded, wpc, writes>>

(***************************************************************************)
(* Transition::begin, the clock writes made under it, and its drop.        *)
(***************************************************************************)

\* waiting.swap(true): a second transition is refused (clock_operation_busy).
Announce(w) ==
    /\ wpc[w] = "idle"
    /\ generation < MaxGeneration
    /\ ~waiting
    /\ waiting' = TRUE
    /\ wpc' = [wpc EXCEPT ![w] = "spinning"]
    /\ UNCHANGED <<leases, generation, rpc, loaded, writes, past>>

\* leases.compare_exchange(0, -1).
Acquire(w) ==
    /\ wpc[w] = "spinning"
    /\ IF leases = 0
       THEN /\ leases' = -1
            /\ wpc' = [wpc EXCEPT ![w] = "changing"]
       ELSE /\ wpc' = [wpc EXCEPT ![w] = "missed"]
            /\ UNCHANGED leases
    /\ UNCHANGED <<waiting, generation, rpc, loaded, writes, past>>

\* Before the deadline: sleep 10 ms and try again.
SpinAgain(w) ==
    /\ wpc[w] = "missed"
    /\ wpc' = [wpc EXCEPT ![w] = "spinning"]
    /\ UNCHANGED <<leases, waiting, generation, rpc, loaded, writes, past>>

\* After the deadline: begin fails and the Waiting guard is dropped.
GiveUp(w) ==
    /\ wpc[w] = "missed"
    /\ waiting' = FALSE
    /\ wpc' = [wpc EXCEPT ![w] = "idle"]
    /\ UNCHANGED <<leases, generation, rpc, loaded, writes, past>>

\* clock.set(..) under the transition: the forward change or its rollback.
SetClock(w) ==
    /\ wpc[w] = "changing"
    /\ writes < MaxWrites
    /\ writes' = writes + 1
    /\ UNCHANGED <<leases, waiting, generation, rpc, loaded, wpc, past>>

MutBumpGeneration(w) ==
    /\ wpc[w] = "changing"
    /\ leases' = 0
    /\ wpc' = [wpc EXCEPT ![w] = "counted"]
    /\ UNCHANGED <<waiting, generation, rpc, loaded, writes, past>>

\* Drop for Transition, in the order the code frees things.
BumpGeneration(w) ==
    /\ wpc[w] = "changing"
    /\ generation' = generation + 1
    /\ wpc' = [wpc EXCEPT ![w] = "counted"]
    /\ UNCHANGED <<leases, waiting, rpc, loaded, writes, past>>

FreeLeases(w) ==
    /\ wpc[w] = "counted"
    /\ leases' = 0
    /\ wpc' = [wpc EXCEPT ![w] = "freed"]
    /\ UNCHANGED <<waiting, generation, rpc, loaded, writes, past>>

\* The field _waiting is dropped after the Drop body.
ClearWaiting(w) ==
    /\ wpc[w] = "freed"
    /\ waiting' = FALSE
    /\ wpc' = [wpc EXCEPT ![w] = "idle"]
    /\ UNCHANGED <<leases, generation, rpc, loaded, writes, past>>

ReadStep(r) ==
    LoadWaiting(r) \/ LoadLeases(r) \/ ExchangeLease(r) \/ DropLease(r)

TransitionStep(w) ==
    \/ Announce(w) \/ Acquire(w) \/ SpinAgain(w) \/ GiveUp(w)
    \/ SetClock(w) \/ BumpGeneration(w) \/ FreeLeases(w) \/ ClearWaiting(w)

Next ==
    \/ \E r \in Readers : ReadStep(r)
    \/ \E w \in Writers : TransitionStep(w)

(***************************************************************************)
(* Fairness: a thread that is inside read(), begin() or a Drop keeps being *)
(* scheduled, and every lease is dropped in the end because the workers    *)
(* that hold one bound their work by timeouts.  No task is obliged to ask  *)
(* for a lease or to start a transition, and the deadline is not assumed   *)
(* to pass: a transition has to get the domain by itself.                  *)
(***************************************************************************)
Fairness ==
    /\ \A r \in Readers :
          /\ WF_vars(LoadLeases(r))
          /\ WF_vars(ExchangeLease(r))
          /\ WF_vars(DropLease(r))
    /\ \A w \in Writers :
          /\ WF_vars(Acquire(w))
          /\ WF_vars(SpinAgain(w) \/ GiveUp(w))
          /\ WF_vars(BumpGeneration(w))
          /\ WF_vars(FreeLeases(w))
          /\ WF_vars(ClearWaiting(w))

Spec == Init /\ [][Next]_vars

FairSpec == Spec /\ Fairness

-----------------------------------------------------------------------------
\* Every variable keeps its type; `leases` is never below -1 (the AtomicIsize
\* is only ever decremented by a lease that was counted).
TypeOK ==
    /\ leases \in Nat \cup {-1}
    /\ waiting \in BOOLEAN
    /\ generation \in Nat
    /\ rpc \in [Readers -> ReaderStates]
    /\ loaded \in [Readers -> Nat]
    /\ wpc \in [Writers -> WriterStates]
    /\ writes \in Nat
    /\ past \in [Readers -> [generation : Nat, writes : Nat]]

\* ClockDomain.leases always counts exactly the leases that are out, and is
\* -1 exactly while one transition owns the domain: no race of the exchanges
\* in read() and begin() lets a reader and a transition, or two transitions,
\* be inside together.
LeaseAccounting ==
    /\ leases # -1 => leases = Cardinality(Holding)
    /\ leases = -1 => Holding = {}
    /\ leases = -1 <=> Changing # {}
    /\ \A v, w \in Changing : v = w

\* The `waiting` flag is up exactly while some transition is between begin()
\* and the end of its drop: an abandoned begin() never leaves it stuck, which
\* would refuse every lease and every later clock operation for good.
WaitingOwned == waiting <=> \E w \in Writers : wpc[w] # "idle"

\* A worker that compares clock_generation() under its lease with the value
\* it saw under its previous lease notices every clock write in between.
NoHiddenChange ==
    \A r \in Holding :
        writes # past[r].writes => generation # past[r].generation

\* What the workers rely on: a lease excludes transitions, a transition that is
\* over leaves nothing behind, and every change of the clock is noticed.
LeaseSafe == LeaseAccounting /\ WaitingOwned /\ NoHiddenChange

\* Neither the clock nor its generation moves while a lease is out.
ClockFrozenUnderLease ==
    [][writes' # writes \/ generation' # generation => Holding = {}]_vars

\* New readers cannot starve a transition: once announced it gets the domain
\* (or gives up), even though leases keep being requested.
TransitionResolves ==
    \A w \in Writers : wpc[w] = "spinning" ~> wpc[w] \in {"changing", "idle"}
=============================================================================
