------------------------- MODULE ClockDomainProofs -------------------------
(***************************************************************************)
(* The clock lease is safe for every set of readers and writers.           *)
(*                                                                         *)
(* LeaseAccounting is not inductive by itself: that at most one writer is  *)
(* inside follows from the `waiting` flag admitting one writer at a time   *)
(* (OneTransition), and NoHiddenChange needs its meaning between leases    *)
(* (PastKnown) as well.                                                    *)
(***************************************************************************)
EXTENDS ClockDomain, FiniteSetTheorems, TLAPS

\* At most one writer is between the swap of `waiting` and its reset.
OneTransition ==
    \A v, w \in Writers : wpc[v] # "idle" /\ wpc[w] # "idle" => v = w

\* What a reader remembers is never ahead of the domain, and a clock write it
\* has not seen either raised the generation or belongs to a transition that
\* is still going to.
PastKnown ==
    \A r \in Readers :
        /\ past[r].generation <= generation
        /\ past[r].generation = generation /\ past[r].writes # writes
              => \E w \in Writers : wpc[w] = "changing"

\* The inductive invariant.
IndInv ==
    TypeOK /\ LeaseAccounting /\ WaitingOwned /\ OneTransition /\ PastKnown

\* The readers form a finite set, so the leases that are out can be counted.
LEMMA HoldingFinite == IsFiniteSet(Holding)
<1>1. Holding \subseteq Readers
  BY DEF Holding
<1>2. IsFiniteSet(Readers)
  BY ClockDomainAssumption
<1> QED
  BY <1>1, <1>2, FS_Subset

\* A lease that is taken or dropped changes the number of holders by one.
LEMMA HoldingCount ==
    ASSUME TypeOK, NEW r \in Readers
    PROVE  /\ r \notin Holding =>
                Cardinality(Holding \cup {r}) = Cardinality(Holding) + 1
           /\ r \in Holding =>
                Cardinality(Holding \ {r}) = Cardinality(Holding) - 1
           /\ Cardinality(Holding) \in Nat
           /\ r \in Holding => Cardinality(Holding) # 0
<1>1. IsFiniteSet(Holding)
  BY HoldingFinite
<1>2. Cardinality(Holding) \in Nat
  BY <1>1, FS_CardinalityType
<1>3. Cardinality(Holding) = 0 <=> Holding = {}
  BY <1>1, FS_EmptySet
<1> QED
  BY <1>1, <1>2, <1>3, FS_AddElement, FS_RemoveElement

\* The initial state satisfies the inductive invariant.
LEMMA InitIndInv == Init => IndInv
<1> SUFFICES ASSUME Init PROVE IndInv
  OBVIOUS
<1>1. TypeOK
  BY ClockDomainAssumption DEF Init, TypeOK, ReaderStates, WriterStates
<1>2. Holding = {}
  BY DEF Init, Holding
<1>3. Cardinality(Holding) = 0
  BY <1>2, FS_EmptySet
<1>4. LeaseAccounting
  BY <1>2, <1>3 DEF Init, LeaseAccounting, Changing
<1>5. WaitingOwned /\ OneTransition
  BY DEF Init, WaitingOwned, OneTransition
<1>6. PastKnown
  BY DEF Init, PastKnown
<1> QED
  BY <1>1, <1>4, <1>5, <1>6 DEF IndInv

\* A step of ClockDomain::read or the drop of a lease keeps the invariant.
LEMMA ReadStepIndInv ==
    ASSUME IndInv, NEW r \in Readers, ReadStep(r)
    PROVE  IndInv'
<1> USE DEF IndInv
<1>1. CASE LoadWaiting(r)
  <2>1. TypeOK'
    BY <1>1 DEF LoadWaiting, TypeOK, ReaderStates
  <2>2. Holding' = Holding /\ Changing' = Changing
    BY <1>1 DEF LoadWaiting, Holding, Changing, TypeOK
  <2>3. LeaseAccounting'
    BY <1>1, <2>2 DEF LoadWaiting, LeaseAccounting
  <2> QED
    BY <1>1, <2>1, <2>3
       DEF LoadWaiting, WaitingOwned, OneTransition, PastKnown
<1>2. CASE LoadLeases(r)
  <2>1. TypeOK'
    BY <1>2 DEF LoadLeases, TypeOK, ReaderStates
  <2>2. Holding' = Holding /\ Changing' = Changing
    BY <1>2 DEF LoadLeases, Holding, Changing, TypeOK
  <2>3. LeaseAccounting'
    BY <1>2, <2>2 DEF LoadLeases, LeaseAccounting
  <2> QED
    BY <1>2, <2>1, <2>3
       DEF LoadLeases, WaitingOwned, OneTransition, PastKnown
<1>3. CASE ExchangeLease(r)
  <2>1. TypeOK'
    BY <1>3 DEF ExchangeLease, TypeOK, ReaderStates
  <2>2. Changing' = Changing
    BY <1>3 DEF ExchangeLease, Changing
  <2>3. LeaseAccounting'
    <3>1. CASE leases = loaded[r]
      <4>1. Holding' = Holding \cup {r} /\ r \notin Holding
        BY <1>3, <3>1 DEF ExchangeLease, Holding, TypeOK
      <4>2. leases \in Nat /\ leases' = leases + 1
        BY <1>3, <3>1 DEF ExchangeLease, TypeOK
      <4>3. leases = Cardinality(Holding)
        BY <4>2 DEF LeaseAccounting
      <4>4. leases' = Cardinality(Holding')
        BY <4>1, <4>2, <4>3, HoldingCount
      <4> QED
        BY <2>2, <4>2, <4>4 DEF LeaseAccounting
    <3>2. CASE leases # loaded[r]
      <4>1. Holding' = Holding /\ leases' = leases
        BY <1>3, <3>2 DEF ExchangeLease, Holding, TypeOK
      <4> QED
        BY <2>2, <4>1 DEF LeaseAccounting
    <3> QED
      BY <3>1, <3>2
  <2> QED
    BY <1>3, <2>1, <2>3
       DEF ExchangeLease, WaitingOwned, OneTransition, PastKnown
<1>4. CASE DropLease(r)
  <2>1. r \in Holding /\ Holding' = Holding \ {r}
    BY <1>4 DEF DropLease, Holding, TypeOK
  <2>2. leases # -1 /\ leases = Cardinality(Holding)
    BY <2>1 DEF LeaseAccounting
  <2>3. leases \in Nat \ {0} /\ leases' = leases - 1
    BY <1>4, <2>1, <2>2, HoldingCount DEF DropLease
  <2>4. leases' = Cardinality(Holding')
    BY <2>1, <2>2, <2>3, HoldingCount
  <2>5. TypeOK'
    BY <1>4, <2>3 DEF DropLease, TypeOK, ReaderStates
  <2>6. Changing' = Changing
    BY <1>4 DEF DropLease, Changing
  <2>7. LeaseAccounting'
    BY <2>2, <2>3, <2>4, <2>6 DEF LeaseAccounting
  <2>8. PastKnown'
    BY <1>4 DEF DropLease, PastKnown, TypeOK
  <2> QED
    BY <1>4, <2>5, <2>7, <2>8 DEF DropLease, WaitingOwned, OneTransition
<1> QED
  BY <1>1, <1>2, <1>3, <1>4 DEF ReadStep

\* A step of Transition::begin, of a clock write or of its drop keeps the
\* invariant.
LEMMA TransitionStepIndInv ==
    ASSUME IndInv, NEW w \in Writers, TransitionStep(w)
    PROVE  IndInv'
<1> USE DEF IndInv
<1>0. /\ wpc[w] # "idle" => \A v \in Writers : wpc[v] # "idle" => v = w
      /\ Changing \subseteq Writers
  BY DEF OneTransition, Changing
<1>1. CASE Announce(w)
  <2>1. TypeOK'
    BY <1>1 DEF Announce, TypeOK, WriterStates
  <2>2. Holding' = Holding /\ Changing' = Changing
    BY <1>1 DEF Announce, Holding, Changing, TypeOK
  <2>3. LeaseAccounting'
    BY <1>1, <2>2 DEF Announce, LeaseAccounting
  <2>4. WaitingOwned' /\ OneTransition'
    BY <1>1 DEF Announce, WaitingOwned, OneTransition, TypeOK
  <2>5. PastKnown'
    BY <1>1 DEF Announce, PastKnown, TypeOK, WaitingOwned
  <2> QED
    BY <2>1, <2>3, <2>4, <2>5
<1>2. CASE Acquire(w)
  <2>1. TypeOK'
    BY <1>2 DEF Acquire, TypeOK, WriterStates
  <2>2. Holding' = Holding
    BY <1>2 DEF Acquire, Holding
  <2>3. LeaseAccounting'
    <3>1. CASE leases = 0
      <4>1. Changing = {} /\ Cardinality(Holding) = 0
        BY <3>1 DEF LeaseAccounting
      <4>2. Holding = {}
        BY <4>1, HoldingFinite, FS_EmptySet
      <4>3. Changing' = {w} /\ leases' = -1
        BY <1>2, <3>1, <4>1 DEF Acquire, Changing, TypeOK
      <4> QED
        BY <2>2, <4>2, <4>3 DEF LeaseAccounting
    <3>2. CASE leases # 0
      <4>1. Changing' = Changing /\ leases' = leases
        BY <1>2, <3>2 DEF Acquire, Changing, TypeOK
      <4> QED
        BY <2>2, <4>1 DEF LeaseAccounting
    <3> QED
      BY <3>1, <3>2
  <2>4. WaitingOwned' /\ OneTransition'
    BY <1>0, <1>2 DEF Acquire, WaitingOwned, OneTransition, TypeOK
  <2>5. PastKnown'
    BY <1>0, <1>2 DEF Acquire, PastKnown, TypeOK
  <2> QED
    BY <2>1, <2>3, <2>4, <2>5
<1>3. CASE SpinAgain(w)
  <2>1. TypeOK'
    BY <1>3 DEF SpinAgain, TypeOK, WriterStates
  <2>2. Holding' = Holding /\ Changing' = Changing
    BY <1>3 DEF SpinAgain, Holding, Changing, TypeOK
  <2>3. LeaseAccounting'
    BY <1>3, <2>2 DEF SpinAgain, LeaseAccounting
  <2>4. WaitingOwned' /\ OneTransition'
    BY <1>0, <1>3 DEF SpinAgain, WaitingOwned, OneTransition, TypeOK
  <2>5. PastKnown'
    BY <1>0, <1>3 DEF SpinAgain, PastKnown, TypeOK
  <2> QED
    BY <2>1, <2>3, <2>4, <2>5
<1>4. CASE GiveUp(w)
  <2>1. TypeOK'
    BY <1>4 DEF GiveUp, TypeOK, WriterStates
  <2>2. Holding' = Holding /\ Changing' = Changing
    BY <1>4 DEF GiveUp, Holding, Changing, TypeOK
  <2>3. LeaseAccounting'
    BY <1>4, <2>2 DEF GiveUp, LeaseAccounting
  <2>4. WaitingOwned' /\ OneTransition'
    BY <1>0, <1>4 DEF GiveUp, WaitingOwned, OneTransition, TypeOK
  <2>5. PastKnown'
    BY <1>0, <1>4 DEF GiveUp, PastKnown, TypeOK
  <2> QED
    BY <2>1, <2>3, <2>4, <2>5
<1>5. CASE SetClock(w)
  <2>1. TypeOK'
    BY <1>5 DEF SetClock, TypeOK
  <2>2. Holding' = Holding /\ Changing' = Changing
    BY <1>5 DEF SetClock, Holding, Changing
  <2>3. LeaseAccounting'
    BY <1>5, <2>2 DEF SetClock, LeaseAccounting
  <2>4. PastKnown'
    BY <1>5 DEF SetClock, PastKnown
  <2> QED
    BY <1>5, <2>1, <2>3, <2>4 DEF SetClock, WaitingOwned, OneTransition
<1>6. CASE BumpGeneration(w)
  <2>1. TypeOK'
    BY <1>6 DEF BumpGeneration, TypeOK, WriterStates
  <2>2. Holding' = Holding /\ Changing' = Changing
    BY <1>6 DEF BumpGeneration, Holding, Changing, TypeOK
  <2>3. LeaseAccounting'
    BY <1>6, <2>2 DEF BumpGeneration, LeaseAccounting
  <2>4. WaitingOwned' /\ OneTransition'
    BY <1>0, <1>6 DEF BumpGeneration, WaitingOwned, OneTransition, TypeOK
  <2>5. PastKnown'
    BY <1>6 DEF BumpGeneration, PastKnown, TypeOK
  <2> QED
    BY <2>1, <2>3, <2>4, <2>5
<1>7. CASE FreeLeases(w)
  <2>1. TypeOK'
    BY <1>7 DEF FreeLeases, TypeOK, WriterStates
  <2>2. w \in Changing
    BY <1>7 DEF FreeLeases, Changing
  <2>3. leases = -1 /\ Holding = {}
    BY <2>2 DEF LeaseAccounting
  <2>4. Holding' = {} /\ leases' = 0
    BY <1>7, <2>3 DEF FreeLeases, Holding
  <2>5. Cardinality(Holding') = 0
    BY <2>4, FS_EmptySet
  <2>6. Changing' = {}
    BY <1>7, <2>2 DEF FreeLeases, Changing, LeaseAccounting, TypeOK
  <2>7. LeaseAccounting'
    BY <2>4, <2>5, <2>6 DEF LeaseAccounting
  <2>8. WaitingOwned' /\ OneTransition'
    BY <1>0, <1>7 DEF FreeLeases, WaitingOwned, OneTransition, TypeOK
  <2>9. PastKnown'
    BY <1>0, <1>7 DEF FreeLeases, PastKnown, TypeOK
  <2> QED
    BY <2>1, <2>7, <2>8, <2>9
<1>8. CASE ClearWaiting(w)
  <2>1. TypeOK'
    BY <1>8 DEF ClearWaiting, TypeOK, WriterStates
  <2>2. Holding' = Holding /\ Changing' = Changing
    BY <1>8 DEF ClearWaiting, Holding, Changing, TypeOK
  <2>3. LeaseAccounting'
    BY <1>8, <2>2 DEF ClearWaiting, LeaseAccounting
  <2>4. WaitingOwned' /\ OneTransition'
    BY <1>0, <1>8 DEF ClearWaiting, WaitingOwned, OneTransition, TypeOK
  <2>5. PastKnown'
    BY <1>0, <1>8 DEF ClearWaiting, PastKnown, TypeOK
  <2> QED
    BY <2>1, <2>3, <2>4, <2>5
<1> QED
  BY <1>1, <1>2, <1>3, <1>4, <1>5, <1>6, <1>7, <1>8 DEF TransitionStep

\* IndInv holds in every reachable state.
THEOREM Inductive == Spec => []IndInv
<1>1. Init => IndInv
  BY InitIndInv
<1>2. IndInv /\ [Next]_vars => IndInv'
  <2> SUFFICES ASSUME IndInv, [Next]_vars PROVE IndInv'
    OBVIOUS
  <2>1. CASE UNCHANGED vars
    BY <2>1 DEF vars, IndInv, TypeOK, LeaseAccounting, WaitingOwned,
                OneTransition, PastKnown, Holding, Changing
  <2>2. CASE Next
    BY <2>2, ReadStepIndInv, TransitionStepIndInv DEF Next
  <2> QED
    BY <2>1, <2>2
<1> QED
  BY <1>1, <1>2, PTL DEF Spec

\* Every variable keeps its type; `leases` never falls below -1.
THEOREM TypeCorrect == Spec => []TypeOK
<1>1. IndInv => TypeOK
  BY DEF IndInv
<1> QED
  BY <1>1, Inductive, PTL

\* `leases` counts the leases that are out, and readers and transitions
\* exclude each other, for any number of readers and writers.
THEOREM LeaseSafety == Spec => []LeaseAccounting
<1>1. IndInv => LeaseAccounting
  BY DEF IndInv
<1> QED
  BY <1>1, Inductive, PTL

\* The `waiting` flag belongs to a running transition whenever it is up.
THEOREM WaitingSafety == Spec => []WaitingOwned
<1>1. IndInv => WaitingOwned
  BY DEF IndInv
<1> QED
  BY <1>1, Inductive, PTL

\* A worker never misses a clock write made between two of its leases.
THEOREM ChangesAreSeen == Spec => []NoHiddenChange
<1>1. IndInv => NoHiddenChange
  <2> SUFFICES ASSUME IndInv, NEW r \in Holding,
                      writes # past[r].writes,
                      generation = past[r].generation
               PROVE  FALSE
    BY DEF NoHiddenChange
  <2>1. r \in Readers
    BY DEF Holding
  <2>2. \E w \in Writers : wpc[w] = "changing"
    BY <2>1 DEF IndInv, PastKnown
  <2>3. Holding = {}
    BY <2>2 DEF IndInv, LeaseAccounting, Changing
  <2> QED
    BY <2>3
<1> QED
  BY <1>1, Inductive, PTL

\* What the workers rely on, together: leases exclude transitions, a finished
\* transition leaves no flag up, and every change of the clock is noticed, for
\* any number of readers and transitions (ClockDomain read, begin, drop).
THEOREM LeaseSafeHolds == Spec => []LeaseSafe
<1>1. LeaseAccounting /\ WaitingOwned /\ NoHiddenChange => LeaseSafe
  BY DEF LeaseSafe
<1> QED
  BY <1>1, LeaseSafety, WaitingSafety, ChangesAreSeen, PTL

\* The clock and its generation stand still while any lease is out.
THEOREM LeaseFreezesClock == Spec => ClockFrozenUnderLease
<1>1. IndInv /\ [Next]_vars =>
        [writes' # writes \/ generation' # generation => Holding = {}]_vars
  <2> SUFFICES ASSUME IndInv, Next,
                      writes' # writes \/ generation' # generation
               PROVE  Holding = {}
    OBVIOUS
  <2>1. \A r \in Readers : ~ReadStep(r)
    BY DEF ReadStep, LoadWaiting, LoadLeases, ExchangeLease, DropLease
  <2>2. PICK w \in Writers : TransitionStep(w)
    BY <2>1 DEF Next
  <2>3. wpc[w] = "changing"
    BY <2>2 DEF TransitionStep, Announce, Acquire, SpinAgain, GiveUp,
                SetClock, BumpGeneration, FreeLeases, ClearWaiting
  <2> QED
    BY <2>3 DEF IndInv, LeaseAccounting, Changing
<1> QED
  BY <1>1, Inductive, PTL DEF Spec, ClockFrozenUnderLease
=============================================================================
