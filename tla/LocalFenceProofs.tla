-------------------------- MODULE LocalFenceProofs --------------------------
(***************************************************************************)
(* Callback exclusion between generations, for any number of generations   *)
(* and tasks.  The invariants of LocalFence are not inductive: what makes  *)
(* them so is the ledger, i.e. that every task past its registration is    *)
(* listed by the lease as long as there is one, and that the marker        *)
(* outlives a lease which was lost with the fence process.                 *)
(***************************************************************************)
EXTENDS LocalFence, TLAPS

\* A task that passed registration and is not known to be dead.
Admitted(t) == stage[t] \in {"registered", "released", "running"}

\* The lease and the marker agree, and a lease lives in a fence that is up.
LeaseMarked ==
  IF lease.gen = None
  THEN lease.phase = "absent" /\ lease.tasks = {}
  ELSE /\ lease.phase \in {"active", "revoked"}
       /\ marker = lease.gen
       /\ fence = "up"

\* The ledger is complete and contains only tasks of the lease's generation.
LedgerComplete ==
  /\ \A t \in Task :
       Admitted(t) => /\ taskGen[t] \in Generation
                      /\ marker = taskGen[t]
                      /\ lease.gen # None => t \in lease.tasks
  /\ \A t \in Task : stage[t] = "waiting" => taskGen[t] \in Generation
  /\ \A t \in lease.tasks :
       taskGen[t] = lease.gen /\ stage[t] \notin {"unborn", "waiting"}

\* The inductive invariant.
IInv == TypeOK /\ LeaseMarked /\ LedgerComplete /\ OrderlyEndLeavesLedger

-----------------------------------------------------------------------------

\* The invariant holds before the first acquire.
LEMMA InitIInv == Init => IInv
BY NoneAssumption
   DEF Init, IInv, TypeOK, LeaseMarked, LedgerComplete, OrderlyEndLeavesLedger,
       Admitted, NoLease, GuardianState, Stage, RelayState

\* What maybe_retire leaves behind, for a lease that exists.
Retired == lease' = NoLease /\ marker' = None
Kept(phase, left) ==
  /\ lease' \in [gen : Generation, phase : {"active", "revoked"}, tasks : SUBSET Task]
  /\ lease'.gen = lease.gen /\ lease'.phase = phase /\ lease'.tasks = left
  /\ marker' = marker

\* What retiring a lease can change (maybe_retire in local_fence.ex).
LEMMA RetireEffect ==
  ASSUME TypeOK, LeaseMarked, lease.gen # None,
         NEW phase \in {"active", "revoked"}, NEW left \in SUBSET lease.tasks,
         MaybeRetire(phase, left)
  PROVE  IF phase = "revoked" /\ left = {} THEN Retired ELSE Kept(phase, left)
BY DEF TypeOK, LeaseMarked, MaybeRetire, Retired, Kept

\* What revoking a generation can change (revoke_store in local_fence.ex).
LEMMA RevokeEffect ==
  ASSUME TypeOK, LeaseMarked, NEW also \in SUBSET Task, RevokeStore(also)
  PROVE  /\ notices' \in SUBSET Generation
         /\ doomed' \in SUBSET Task
         /\ \/ lease' = lease /\ marker' = marker
            \/ /\ lease.gen # None
               /\ Retired \/ Kept("revoked", {t \in lease.tasks : stage[t] # "dead"})
               /\ Retired => \A t \in lease.tasks : stage[t] = "dead"
<1>1. CASE lease.phase = "active"
  <2> DEFINE left == {t \in lease.tasks : stage[t] # "dead"}
  <2>1. lease.gen # None /\ lease.gen \in Generation /\ lease.tasks \in SUBSET Task
    BY <1>1 DEF TypeOK, LeaseMarked
  <2>2. notices' \in SUBSET Generation /\ doomed' \in SUBSET Task
    BY <1>1, <2>1 DEF RevokeStore, TypeOK
  <2>3. MaybeRetire("revoked", left) /\ left \in SUBSET lease.tasks
    BY <1>1 DEF RevokeStore
  <2>4. IF left = {} THEN Retired ELSE Kept("revoked", left)
    BY <2>1, <2>3, RetireEffect
  <2>5. Retired => left = {}
    BY <2>1, <2>4, NoneAssumption DEF Retired, Kept, NoLease
  <2> QED BY <2>1, <2>2, <2>4, <2>5
<1>2. CASE lease.phase # "active"
  BY <1>2 DEF RevokeStore, TypeOK
<1> QED BY <1>1, <1>2

\* A lease that shrinks by dead tasks, or retires when all its tasks are dead,
\* keeps the invariant as long as no task moves on in the same step.
LEMMA ShrinkIInv ==
  ASSUME IInv, fence' = fence, lease.gen # None,
         NEW left \in SUBSET lease.tasks, \A t \in lease.tasks \ left : stage[t] = "dead",
         \/ Retired /\ left = {}
         \/ \E phase \in {"active", "revoked"} : Kept(phase, left),
         stage' = stage, taskGen' = taskGen,
         \A t \in left : relay'[t] # "ended",
         TypeOK'
  PROVE  IInv'
<1> USE NoneAssumption
    DEF IInv, LeaseMarked, LedgerComplete, OrderlyEndLeavesLedger, Admitted, NoLease
<1>1. CASE Retired /\ left = {}
  BY <1>1 DEF Retired
<1>2. ASSUME NEW phase \in {"active", "revoked"}, Kept(phase, left) PROVE IInv'
  BY <1>2 DEF Kept
<1> QED BY <1>1, <1>2

\* A revocation keeps the invariant: no task advances, no relay ends.
LEMMA RevokeIInv ==
  ASSUME IInv, NEW also \in SUBSET Task, RevokeStore(also),
         fence' = fence, stage' = stage, taskGen' = taskGen, engine' = engine,
         guardian' \in [Generation -> GuardianState],
         relay' \in [Task -> RelayState],
         \A t \in Task : relay[t] # "ended" => relay'[t] # "ended"
  PROVE  IInv'
<1> DEFINE left == {t \in lease.tasks : stage[t] # "dead"}
<1>0. TypeOK /\ LeaseMarked /\ lease.tasks \in SUBSET Task
  BY DEF IInv, TypeOK
<1>1. /\ notices' \in SUBSET Generation
      /\ doomed' \in SUBSET Task
      /\ \/ lease' = lease /\ marker' = marker
         \/ /\ lease.gen # None
            /\ Retired \/ Kept("revoked", left)
            /\ Retired => \A t \in lease.tasks : stage[t] = "dead"
  BY <1>0, RevokeEffect
<1>2. CASE lease' = lease /\ marker' = marker
  BY <1>0, <1>1, <1>2
     DEF IInv, TypeOK, LeaseMarked, LedgerComplete, OrderlyEndLeavesLedger, Admitted
<1>3. CASE lease.gen # None /\ Retired /\ \A t \in lease.tasks : stage[t] = "dead"
  <2>1. TypeOK'
    BY <1>0, <1>1, <1>3 DEF TypeOK, Retired, NoLease
  <2>2. /\ {} \in SUBSET lease.tasks
        /\ \A t \in lease.tasks \ {} : stage[t] = "dead"
        /\ \A t \in {} : relay'[t] # "ended"
    BY <1>3
  <2> QED BY <1>3, <2>1, <2>2, ShrinkIInv
<1>4. CASE lease.gen # None /\ Kept("revoked", left)
  <2>1. TypeOK'
    BY <1>0, <1>1, <1>4 DEF TypeOK, Kept
  <2>2. \A t \in left : relay'[t] # "ended"
    BY <1>0 DEF IInv, OrderlyEndLeavesLedger
  <2>3. left \in SUBSET lease.tasks /\ \A t \in lease.tasks \ left : stage[t] = "dead"
    OBVIOUS
  <2> HIDE DEF left
  <2> QED BY <1>4, <2>1, <2>2, <2>3, ShrinkIInv
<1> QED BY <1>1, <1>2, <1>3, <1>4

\* The steps of an engine generation keep the invariant.
LEMMA GenerationStepIInv ==
  ASSUME IInv, NEW g \in Generation, GenerationStep(g)
  PROVE  IInv'
<1> USE NoneAssumption
    DEF IInv, TypeOK, LeaseMarked, LedgerComplete, OrderlyEndLeavesLedger, Admitted,
        NoLease, GuardianState, Stage, RelayState, fenceVars, genVars, taskVars
<1>1. CASE Acquire(g)
  BY <1>1 DEF Acquire
<1>2. CASE Ready(g)
  BY <1>2 DEF Ready
<1>3. CASE GuardianRevoke(g)
  <2>1. CASE Holds(g)
    BY <1>3, <2>1, RevokeIInv DEF GuardianRevoke
  <2>2. CASE ~Holds(g)
    BY <1>3, <2>2 DEF GuardianRevoke
  <2> QED BY <2>1, <2>2
<1>4. CASE GuardianNotified(g)
  BY <1>4 DEF GuardianNotified
<1>5. CASE GuardianSeesFenceDown(g)
  BY <1>5 DEF GuardianSeesFenceDown
<1>6. CASE EngineDies(g)
  BY <1>6 DEF EngineDies
<1>7. CASE GuardianDies(g)
  BY <1>7 DEF GuardianDies
<1> QED BY <1>1, <1>2, <1>3, <1>4, <1>5, <1>6, <1>7 DEF GenerationStep

\* The steps of a fenced task keep the invariant.
LEMMA TaskStepIInv ==
  ASSUME IInv, NEW t \in Task, TaskStep(t)
  PROVE  IInv'
<1> USE NoneAssumption
    DEF IInv, TypeOK, LeaseMarked, LedgerComplete, OrderlyEndLeavesLedger, Admitted,
        NoLease, GuardianState, Stage, RelayState, fenceVars, genVars, taskVars
<1>1. CASE Register(t)
  <2>1. CASE guardian[taskGen[t]] = "ready" /\ Holds(taskGen[t]) /\ Active
    BY <1>1, <2>1 DEF Register, Holds, Active
  <2>2. CASE guardian[taskGen[t]] = "ready" /\ Holds(taskGen[t]) /\ ~Active
    <3>1. RevokeStore({t}) /\ relay' = [relay EXCEPT ![t] = "lost"]
      BY <1>1, <2>2 DEF Register
    <3> QED BY <1>1, <2>2, <3>1, RevokeIInv DEF Register
  <2>3. CASE ~(guardian[taskGen[t]] = "ready" /\ Holds(taskGen[t]))
    BY <1>1, <2>3 DEF Register
  <2> QED BY <2>1, <2>2, <2>3
<1>2. CASE Release(t)
  BY <1>2 DEF Release
<1>3. CASE Enter(t)
  BY <1>3 DEF Enter
<1>4. CASE TaskEnds(t)
  BY <1>4 DEF TaskEnds
<1>5. CASE WaitingTaskOrphaned(t)
  BY <1>5 DEF WaitingTaskOrphaned
<1>6. CASE RelayKills(t)
  BY <1>6 DEF RelayKills
<1>7. CASE ConfirmDeath(t)
  <2>1. CASE guardian[taskGen[t]] # "gone" /\ Holds(taskGen[t]) /\ t \in lease.tasks
    <3> DEFINE left == lease.tasks \ {t}
    <3>1. MaybeRetire(lease.phase, left) /\ lease.gen # None /\ lease.phase \in {"active", "revoked"}
      BY <1>7, <2>1 DEF ConfirmDeath
    <3>2. IF lease.phase = "revoked" /\ left = {} THEN Retired ELSE Kept(lease.phase, left)
      BY <3>1, RetireEffect
    <3>3. TypeOK'
      BY <1>7, <2>1, <3>2 DEF ConfirmDeath, Retired, Kept
    <3>4. \A u \in left : relay'[u] # "ended"
      BY <1>7, <2>1 DEF ConfirmDeath
    <3>5. \A u \in lease.tasks \ left : stage[u] = "dead"
      BY <1>7 DEF ConfirmDeath
    <3> HIDE DEF left
    <3>6. left \in SUBSET lease.tasks
      BY DEF left
    <3>7. \/ Retired /\ left = {}
          \/ \E phase \in {"active", "revoked"} : Kept(phase, left)
      BY <3>1, <3>2
    <3>8. fence' = fence /\ stage' = stage /\ taskGen' = taskGen
      BY <1>7 DEF ConfirmDeath
    <3>9. IInv
      OBVIOUS
    <3> HIDE DEF IInv, TypeOK
    <3> QED BY ONLY <3>1, <3>3, <3>4, <3>5, <3>6, <3>7, <3>8, <3>9, ShrinkIInv
  <2>2. CASE ~(guardian[taskGen[t]] # "gone" /\ Holds(taskGen[t]) /\ t \in lease.tasks)
    BY <1>7, <2>2 DEF ConfirmDeath
  <2> QED BY <2>1, <2>2
<1>8. CASE RelayCrashes(t)
  BY <1>8 DEF RelayCrashes
<1> QED BY <1>1, <1>2, <1>3, <1>4, <1>5, <1>6, <1>7, <1>8 DEF TaskStep

\* The handlers of the fence process keep the invariant.
LEMMA FenceStepIInv ==
  ASSUME IInv, FenceStep
  PROVE  IInv'
<1> USE NoneAssumption
    DEF IInv, TypeOK, LeaseMarked, LedgerComplete, OrderlyEndLeavesLedger, Admitted,
        NoLease, GuardianState, Stage, RelayState, fenceVars, genVars, taskVars
<1>1. CASE MonitoredDown
  BY <1>1, RevokeIInv DEF MonitoredDown
<1>2. CASE Poll
  <2> DEFINE left == {t \in lease.tasks : stage[t] # "dead"}
  <2>1. MaybeRetire("revoked", left) /\ lease.gen # None
    BY <1>2 DEF Poll
  <2>2. IF left = {} THEN Retired ELSE Kept("revoked", left)
    BY <2>1, RetireEffect
  <2>3. TypeOK'
    BY <1>2, <2>2 DEF Poll, Retired, Kept
  <2>4. \A t \in left : relay'[t] # "ended"
    BY <1>2 DEF Poll
  <2>5. left \in SUBSET lease.tasks /\ \A t \in lease.tasks \ left : stage[t] = "dead"
    OBVIOUS
  <2> HIDE DEF left
  <2> QED BY <1>2, <2>1, <2>2, <2>3, <2>4, <2>5, ShrinkIInv DEF Poll
<1>3. CASE FenceCrashes
  BY <1>3 DEF FenceCrashes
<1>4. CASE FenceTerminates
  BY <1>4 DEF FenceTerminates
<1>5. CASE FenceStarts
  BY <1>5 DEF FenceStarts
<1> QED BY <1>1, <1>2, <1>3, <1>4, <1>5 DEF FenceStep

\* Starting a task under a lease keeps the invariant.
LEMMA StartTaskIInv ==
  ASSUME IInv, NEW t \in Task, NEW g \in Generation, StartTask(t, g)
  PROVE  IInv'
<1> USE NoneAssumption DEF StartTask, IInv, TypeOK, fenceVars, genVars
<1>1. TypeOK'
  BY DEF GuardianState, Stage, RelayState
<1>2. LeaseMarked'
  BY DEF LeaseMarked
<1>3. t \notin lease.tasks
  BY DEF LedgerComplete
<1>4. LedgerComplete'
  BY <1>3 DEF LedgerComplete, Admitted, Stage
<1>5. OrderlyEndLeavesLedger'
  BY DEF OrderlyEndLeavesLedger, RelayState
<1> QED BY <1>1, <1>2, <1>4, <1>5

\* Every step of the fence and its users keeps the invariant.
LEMMA NextIInv == IInv /\ [Next]_vars => IInv'
<1> SUFFICES ASSUME IInv, [Next]_vars PROVE IInv'
  OBVIOUS
<1>1. CASE UNCHANGED vars
  BY <1>1 DEF vars, IInv, TypeOK, LeaseMarked, LedgerComplete, OrderlyEndLeavesLedger,
              Admitted
<1>2. CASE Next
  BY <1>2, GenerationStepIInv, TaskStepIInv, FenceStepIInv, StartTaskIInv DEF Next
<1> QED BY <1>1, <1>2

\* Every reachable state of the fence satisfies the inductive invariant.
THEOREM Inductive == Spec => []IInv
BY InitIInv, NextIInv, PTL DEF Spec

-----------------------------------------------------------------------------

\* The state of fence, guardians, relays and tasks stays well-typed.
THEOREM TypeCorrect == Spec => []TypeOK
<1>1. IInv => TypeOK
  BY DEF IInv
<1> QED BY <1>1, Inductive, PTL

\* The marker of its generation is in place as long as a callback released by
\* Relay.release may run, so acquire refuses every other generation.
THEOREM MarkerGuards == Spec => []MarkerGuardsCallbacks
<1>1. IInv => MarkerGuardsCallbacks
  BY DEF IInv, LedgerComplete, Admitted, MarkerGuardsCallbacks
<1> QED BY <1>1, Inductive, PTL

\* Callbacks of two generations of one store never run at the same time in a
\* VM, for any number of generations, tasks, crashes and fence restarts.
THEOREM Exclusion == Spec => []NoOverlap
<1>1. IInv => NoOverlap
  BY DEF IInv, LedgerComplete, Admitted, NoOverlap
<1> QED BY <1>1, Inductive, PTL

\* The evidence the operation driver waits for in wait_retired is sound.
THEOREM RetirementSound == Spec => []RetiredMeansDead
<1>1. IInv => RetiredMeansDead
  BY NoneAssumption DEF IInv, LedgerComplete, Admitted, RetiredMeansDead
<1> QED BY <1>1, Inductive, PTL

\* A relay that ends in order has left the ledger, so its DOWN revokes nothing.
THEOREM OrderlyEnd == Spec => []OrderlyEndLeavesLedger
<1>1. IInv => OrderlyEndLeavesLedger
  BY DEF IInv
<1> QED BY <1>1, Inductive, PTL

\* No step adds a task to a lease that is or becomes revoked.
THEOREM RegistrationStaysClosed == Spec => RegistrationCloses
<1> DEFINE Shrinks == lease'.gen = lease.gen /\ lease'.phase = "revoked"
                        => lease'.tasks \subseteq lease.tasks
<1>1. ASSUME IInv, RevokeStore({}) \/ \E t \in Task : RevokeStore({t}) PROVE Shrinks
  <2>1. TypeOK /\ LeaseMarked
    BY <1>1 DEF IInv
  <2>2. \/ lease' = lease
        \/ lease.gen # None /\ Retired
        \/ Kept("revoked", {t \in lease.tasks : stage[t] # "dead"})
    BY <1>1, <2>1, RevokeEffect
  <2> QED BY <2>2, NoneAssumption DEF Retired, Kept, NoLease
<1>2. ASSUME IInv, NEW phase \in {"active", "revoked"}, NEW left \in SUBSET lease.tasks,
             lease.gen # None, MaybeRetire(phase, left)
      PROVE  Shrinks
  <2>1. Retired \/ Kept(phase, left)
    BY <1>2, RetireEffect DEF IInv
  <2> QED BY <1>2, <2>1, NoneAssumption DEF Retired, Kept, NoLease
<1>3. ASSUME IInv, NEW g \in Generation, GenerationStep(g) PROVE Shrinks
  <2>1. CASE Acquire(g)
    BY <1>3, <2>1, NoneAssumption DEF Acquire
  <2>2. CASE GuardianRevoke(g)
    BY <1>1, <1>3, <2>2 DEF GuardianRevoke
  <2>3. CASE Ready(g) \/ GuardianNotified(g) \/ GuardianSeesFenceDown(g)
               \/ EngineDies(g) \/ GuardianDies(g)
    BY <2>3 DEF Ready, GuardianNotified, GuardianSeesFenceDown, EngineDies,
                GuardianDies, fenceVars
  <2> QED BY <1>3, <2>1, <2>2, <2>3 DEF GenerationStep
<1>4. ASSUME IInv, NEW t \in Task, TaskStep(t) PROVE Shrinks
  <2>1. CASE Register(t)
    <3>1. CASE guardian[taskGen[t]] = "ready" /\ Holds(taskGen[t]) /\ Active
      BY <1>4, <2>1, <3>1 DEF Register, Active, IInv, TypeOK
    <3>2. CASE ~(guardian[taskGen[t]] = "ready" /\ Holds(taskGen[t]) /\ Active)
      BY <1>1, <1>4, <2>1, <3>2 DEF Register
    <3> QED BY <3>1, <3>2
  <2>2. CASE ConfirmDeath(t)
    <3>1. CASE guardian[taskGen[t]] # "gone" /\ Holds(taskGen[t]) /\ t \in lease.tasks
      <4>1. lease.gen # None /\ lease.phase \in {"active", "revoked"}
        BY <1>4, <3>1 DEF IInv, LeaseMarked
      <4>2. MaybeRetire(lease.phase, lease.tasks \ {t})
        BY <2>2, <3>1 DEF ConfirmDeath
      <4> QED BY <1>2, <1>4, <4>1, <4>2
    <3>2. CASE ~(guardian[taskGen[t]] # "gone" /\ Holds(taskGen[t]) /\ t \in lease.tasks)
      BY <2>2, <3>2 DEF ConfirmDeath
    <3> QED BY <3>1, <3>2
  <2>3. CASE Release(t) \/ Enter(t) \/ TaskEnds(t) \/ WaitingTaskOrphaned(t)
               \/ RelayKills(t) \/ RelayCrashes(t)
    BY <2>3 DEF Release, Enter, TaskEnds, WaitingTaskOrphaned, RelayKills,
                RelayCrashes, fenceVars
  <2> QED BY <1>4, <2>1, <2>2, <2>3 DEF TaskStep
<1>5. ASSUME IInv, FenceStep PROVE Shrinks
  <2>1. CASE MonitoredDown
    BY <1>1, <1>5, <2>1 DEF MonitoredDown
  <2>2. CASE Poll
    <3>1. lease.gen # None
      BY <1>5, <2>2 DEF Poll, IInv, LeaseMarked
    <3> QED BY <1>2, <1>5, <2>2, <3>1 DEF Poll
  <2>3. CASE FenceCrashes \/ FenceTerminates \/ FenceStarts
    BY <2>3 DEF FenceCrashes, FenceTerminates, FenceStarts, NoLease
  <2> QED BY <1>5, <2>1, <2>2, <2>3 DEF FenceStep
<1>6. ASSUME NEW t \in Task, NEW g \in Generation, StartTask(t, g) PROVE Shrinks
  BY <1>6 DEF StartTask, fenceVars
<1>7. IInv /\ [Next]_vars => [Shrinks]_vars
  BY <1>3, <1>4, <1>5, <1>6 DEF Next
<1> QED BY <1>7, Inductive, PTL DEF Spec, RegistrationCloses

=============================================================================
