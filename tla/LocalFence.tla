----------------------------- MODULE LocalFence -----------------------------
(***************************************************************************)
(* The VM-local fence between execution generations of one STORE_ID        *)
(* (lib/tay/execution/local_fence.ex), together with the processes it      *)
(* guards: per generation the guardian (Lifecycle) and the Engine, per     *)
(* callback its relay (Relay) and its task (Executor).                     *)
(*                                                                         *)
(* Every call to the fence is one step of the fence.  Exit signals and     *)
(* DOWN messages are asynchronous: a killed task stays in "doomed" until   *)
(* it dies, and a monitor fires at any time after the death it reports.    *)
(* A check-then-act pair of a caller (live? and then the release or the    *)
(* callback) is one step: a revocation that falls between the two reaches  *)
(* the same state as one that falls right after.                           *)
(***************************************************************************)

CONSTANTS Generation,   \* generation references, one lease request each
          Task,         \* callback tasks; task and relay share an identity
          None          \* no generation

ASSUME NoneAssumption == None \notin Generation

VARIABLES
  fence,      \* "up" or "down": the fence process
  lease,      \* the fence's entry for the store (gen = None: no entry)
  marker,     \* the persistent_term marker: generation of its token, or None
  guardian,   \* guardian[g]: what the guardian publishes for generation g
  engine,     \* engine[g]: Engine and runtime of g are alive
  notices,    \* generations with a :revoked message in the guardian's mailbox
  taskGen,    \* taskGen[t]: the generation that started t
  stage,      \* stage[t]: how far the task has come
  doomed,     \* tasks with a kill signal on the way
  relay       \* relay[t]: the relay process of t

fenceVars == <<fence, lease, marker>>
genVars == <<guardian, engine, notices>>
taskVars == <<taskGen, stage, doomed, relay>>
vars == <<fence, lease, marker, guardian, engine, notices,
          taskGen, stage, doomed, relay>>

GuardianState == {"idle", "recovering", "ready", "failed", "gone"}
Stage == {"unborn", "waiting", "registered", "released", "running", "dead"}
RelayState == {"none", "up", "ended", "lost"}

NoLease == [gen |-> None, phase |-> "absent", tasks |-> {}]

TypeOK ==
  /\ fence \in {"up", "down"}
  /\ lease \in [gen : Generation \cup {None},
                phase : {"absent", "active", "revoked"}, tasks : SUBSET Task]
  /\ marker \in Generation \cup {None}
  /\ guardian \in [Generation -> GuardianState]
  /\ engine \in [Generation -> BOOLEAN]
  /\ notices \in SUBSET Generation
  /\ taskGen \in [Task -> Generation \cup {None}]
  /\ stage \in [Task -> Stage]
  /\ doomed \in SUBSET Task
  /\ relay \in [Task -> RelayState]

Init ==
  /\ fence = "down"
  /\ lease = NoLease
  /\ marker = None
  /\ guardian = [g \in Generation |-> "idle"]
  /\ engine = [g \in Generation |-> FALSE]
  /\ notices = {}
  /\ taskGen = [t \in Task |-> None]
  /\ stage = [t \in Task |-> "unborn"]
  /\ doomed = {}
  /\ relay = [t \in Task |-> "none"]

-----------------------------------------------------------------------------
(* The fence's private operations. *)

\* active?/1: the phase is active and every owner process is alive.
Active == /\ lease.phase = "active"
          /\ engine[lease.gen]
          /\ guardian[lease.gen] # "gone"

\* A lease call is answered only by the fence process that granted the lease.
Holds(g) == fence = "up" /\ lease.gen = g

RetireWithTasksAlive(phase, left) ==
  IF phase = "revoked"
  THEN /\ lease' = NoLease
       /\ marker' = IF marker = lease.gen THEN None ELSE marker
  ELSE /\ lease' = [lease EXCEPT !.phase = phase, !.tasks = left]
       /\ UNCHANGED marker

\* drop_task for the tasks that are gone, then maybe_retire: a revoked lease
\* without tasks is deleted and its own marker, and no other, erased.
MaybeRetire(phase, left) ==
  IF phase = "revoked" /\ left = {}
  THEN /\ lease' = NoLease
       /\ marker' = IF marker = lease.gen THEN None ELSE marker
  ELSE /\ lease' = [lease EXCEPT !.phase = phase, !.tasks = left]
       /\ UNCHANGED marker

RevokeStoreWithoutKill(also) ==
  IF lease.phase = "active"
  THEN /\ notices' = notices \cup {lease.gen}
       /\ doomed' = doomed \cup also
       /\ MaybeRetire("revoked", {t \in lease.tasks : stage[t] # "dead"})
  ELSE /\ doomed' = doomed \cup also
       /\ UNCHANGED <<notices, lease, marker>>

\* revoke_store/2: close registration, notify the guardian, kill every
\* registered task, drop those already dead.  A second revocation is a no-op.
\* The caller kills the tasks of "also" besides.
RevokeStore(also) ==
  IF lease.phase = "active"
  THEN /\ notices' = notices \cup {lease.gen}
       /\ doomed' = doomed \cup lease.tasks \cup also
       /\ MaybeRetire("revoked", {t \in lease.tasks : stage[t] # "dead"})
  ELSE /\ doomed' = doomed \cup also
       /\ UNCHANGED <<notices, lease, marker>>

-----------------------------------------------------------------------------
(* Generations. *)

AcquireIgnoringMarker(g) ==
  /\ fence = "up"
  /\ guardian[g] = "idle"
  /\ lease.gen = None
  /\ marker' = g
  /\ lease' = [gen |-> g, phase |-> "active", tasks |-> {}]
  /\ guardian' = [guardian EXCEPT ![g] = "recovering"]
  /\ engine' = [engine EXCEPT ![g] = TRUE]
  /\ UNCHANGED <<fence, notices>> /\ UNCHANGED taskVars

\* The Engine of a new generation is granted the lease: no entry for the
\* store and no marker.  A refusal changes nothing and ends that Engine.
Acquire(g) ==
  /\ fence = "up"
  /\ guardian[g] = "idle"
  /\ lease.gen = None
  /\ marker = None
  /\ marker' = g
  /\ lease' = [gen |-> g, phase |-> "active", tasks |-> {}]
  /\ guardian' = [guardian EXCEPT ![g] = "recovering"]
  /\ engine' = [engine EXCEPT ![g] = TRUE]
  /\ UNCHANGED <<fence, notices>> /\ UNCHANGED taskVars

\* The guardian publishes ready only while the fence confirms the lease.
Ready(g) ==
  /\ guardian[g] = "recovering"
  /\ engine[g]
  /\ Holds(g) /\ Active
  /\ guardian' = [guardian EXCEPT ![g] = "ready"]
  /\ UNCHANGED <<engine, notices>> /\ UNCHANGED fenceVars /\ UNCHANGED taskVars

\* Lifecycle.revoke/2, or the closing phase of an operation: the published
\* state closes first, then the fence is asked to revoke.  The Engine's kill
\* signal is EngineDies.
GuardianRevoke(g) ==
  /\ guardian[g] \in {"recovering", "ready"}
  /\ guardian' = [guardian EXCEPT ![g] = "failed"]
  /\ IF Holds(g) THEN RevokeStore({}) ELSE UNCHANGED <<notices, doomed, lease, marker>>
  /\ UNCHANGED <<fence, engine, taskGen, stage, relay>>

\* The guardian receives the fence's :revoked message.
GuardianNotified(g) ==
  /\ g \in notices
  /\ notices' = notices \ {g}
  /\ guardian' = [guardian EXCEPT ![g] = IF @ = "gone" THEN "gone" ELSE "failed"]
  /\ UNCHANGED engine /\ UNCHANGED fenceVars /\ UNCHANGED taskVars

EngineDies(g) ==
  /\ engine[g]
  /\ engine' = [engine EXCEPT ![g] = FALSE]
  /\ UNCHANGED <<guardian, notices>> /\ UNCHANGED fenceVars /\ UNCHANGED taskVars

GuardianDies(g) ==
  /\ guardian[g] \in {"recovering", "ready", "failed"}
  /\ guardian' = [guardian EXCEPT ![g] = "gone"]
  /\ UNCHANGED <<engine, notices>> /\ UNCHANGED fenceVars /\ UNCHANGED taskVars

-----------------------------------------------------------------------------
(* Relays and tasks. *)

\* Relay.init starts the task, which waits for its release.
StartTask(t, g) ==
  /\ stage[t] = "unborn"
  /\ guardian[g] = "ready" /\ engine[g]
  /\ taskGen' = [taskGen EXCEPT ![t] = g]
  /\ stage' = [stage EXCEPT ![t] = "waiting"]
  /\ relay' = [relay EXCEPT ![t] = "up"]
  /\ UNCHANGED doomed /\ UNCHANGED fenceVars /\ UNCHANGED genVars

\* Relay.register through the guardian: refused, the relay kills its task and
\* stops; a request that meets an inactive lease also revokes it.
Register(t) ==
  /\ stage[t] = "waiting" /\ relay[t] = "up"
  /\ IF guardian[taskGen[t]] = "ready" /\ Holds(taskGen[t])
     THEN IF Active
          THEN /\ stage' = [stage EXCEPT ![t] = "registered"]
               /\ lease' = [lease EXCEPT !.tasks = @ \cup {t}]
               /\ UNCHANGED <<notices, marker, doomed, relay>>
          ELSE /\ RevokeStore({t})
               /\ relay' = [relay EXCEPT ![t] = "lost"]
               /\ UNCHANGED stage
     ELSE /\ doomed' = doomed \cup {t}
          /\ relay' = [relay EXCEPT ![t] = "lost"]
          /\ UNCHANGED <<notices, lease, marker, stage>>
  /\ UNCHANGED <<fence, guardian, engine, taskGen>>

\* execution_live: the guardian's state, the Engine, and the fence's ledger.
Live(t) ==
  /\ guardian[taskGen[t]] = "ready" /\ engine[taskGen[t]]
  /\ Holds(taskGen[t]) /\ Active
  /\ t \in lease.tasks /\ relay[t] = "up"

\* Relay.release: the Engine authorises the callback of a live registration.
Release(t) ==
  /\ stage[t] = "registered" /\ relay[t] = "up"
  /\ Live(t)
  /\ stage' = [stage EXCEPT ![t] = "released"]
  /\ UNCHANGED <<taskGen, doomed, relay>> /\ UNCHANGED fenceVars /\ UNCHANGED genVars

\* Executor.enter: the task repeats the check and runs the callback, or tells
\* its relay that the execution is invalidated (the relay stops) and returns.
Enter(t) ==
  /\ stage[t] = "released"
  /\ IF Live(t)
     THEN /\ stage' = [stage EXCEPT ![t] = "running"]
          /\ UNCHANGED relay
     ELSE /\ stage' = [stage EXCEPT ![t] = "dead"]
          /\ relay' = [relay EXCEPT ![t] = IF @ = "up" THEN "lost" ELSE @]
  /\ UNCHANGED <<taskGen, doomed>> /\ UNCHANGED fenceVars /\ UNCHANGED genVars

\* The callback returns, raises or exits; the relay or an operation may also
\* have sent a kill, which any live stage obeys.
TaskEnds(t) ==
  /\ \/ stage[t] = "running"
     \/ t \in doomed /\ stage[t] \in {"waiting", "registered", "released"}
  /\ stage' = [stage EXCEPT ![t] = "dead"]
  /\ UNCHANGED <<taskGen, doomed, relay>> /\ UNCHANGED fenceVars /\ UNCHANGED genVars

\* A waiting task monitors relay, Engine and guardian and returns when one dies.
WaitingTaskOrphaned(t) ==
  /\ stage[t] \in {"waiting", "registered"}
  /\ relay[t] # "up" \/ ~engine[taskGen[t]] \/ guardian[taskGen[t]] = "gone"
  /\ stage' = [stage EXCEPT ![t] = "dead"]
  /\ UNCHANGED <<taskGen, doomed, relay>> /\ UNCHANGED fenceVars /\ UNCHANGED genVars

\* Relay.settled, terminate_task and revoke, and the relay's own DOWN of an
\* owner: the task is killed, the relay waits for its death.
RelayKills(t) ==
  /\ relay[t] = "up" /\ stage[t] \in {"registered", "released", "running"}
  /\ t \notin doomed
  /\ doomed' = doomed \cup {t}
  /\ UNCHANGED <<taskGen, stage, relay>> /\ UNCHANGED fenceVars /\ UNCHANGED genVars

ConfirmDeathLate(t) ==
  /\ stage[t] = "dead" /\ relay[t] = "up"
  /\ relay' = [relay EXCEPT ![t] = "ended"]
  /\ UNCHANGED <<taskGen, stage, doomed>> /\ UNCHANGED fenceVars /\ UNCHANGED genVars

\* The relay sees its task's DOWN and has the guardian drop the exact pair
\* from the ledger before it ends; if that is refused it stops abnormally.
ConfirmDeath(t) ==
  /\ stage[t] = "dead" /\ relay[t] = "up"
  /\ IF guardian[taskGen[t]] # "gone" /\ Holds(taskGen[t]) /\ t \in lease.tasks
     THEN /\ MaybeRetire(lease.phase, lease.tasks \ {t})
          /\ relay' = [relay EXCEPT ![t] = "ended"]
     ELSE /\ relay' = [relay EXCEPT ![t] = "lost"]
          /\ UNCHANGED <<lease, marker>>
  /\ UNCHANGED <<fence, taskGen, stage, doomed>> /\ UNCHANGED genVars

\* The relay process is lost while its task goes on.
RelayCrashes(t) ==
  /\ relay[t] = "up"
  /\ relay' = [relay EXCEPT ![t] = "lost"]
  /\ UNCHANGED <<taskGen, stage, doomed>> /\ UNCHANGED fenceVars /\ UNCHANGED genVars

-----------------------------------------------------------------------------
(* The fence process. *)

\* A DOWN of a monitored owner or relay revokes the store.
MonitoredDown ==
  /\ fence = "up" /\ lease.phase = "active"
  /\ \/ ~engine[lease.gen]
     \/ guardian[lease.gen] = "gone"
     \/ \E t \in lease.tasks : relay[t] \in {"ended", "lost"}
  /\ RevokeStore({})
  /\ UNCHANGED <<fence, guardian, engine, taskGen, stage, relay>>

\* The poll timer, armed while a lease is revoked.
Poll ==
  /\ fence = "up" /\ lease.phase = "revoked"
  /\ MaybeRetire("revoked", {t \in lease.tasks : stage[t] # "dead"})
  /\ UNCHANGED fence /\ UNCHANGED genVars /\ UNCHANGED taskVars

\* The fence is killed: its ledger is lost, the marker stays.
FenceCrashes ==
  /\ fence = "up"
  /\ fence' = "down"
  /\ lease' = NoLease
  /\ UNCHANGED marker /\ UNCHANGED genVars /\ UNCHANGED taskVars

\* Orderly shutdown: kill every task, erase the marker only if all are dead.
FenceTerminates ==
  /\ fence = "up"
  /\ fence' = "down"
  /\ lease' = NoLease
  /\ doomed' = doomed \cup lease.tasks
  /\ marker' = IF marker = lease.gen /\ \A t \in lease.tasks : stage[t] = "dead"
               THEN None ELSE marker
  /\ UNCHANGED <<taskGen, stage, relay>> /\ UNCHANGED genVars

\* ensure_started: a later generation starts the fence again.
FenceStarts ==
  /\ fence = "down"
  /\ fence' = "up"
  /\ UNCHANGED <<lease, marker>> /\ UNCHANGED genVars /\ UNCHANGED taskVars

\* The guardian monitors the exact fence process of its lease.  A lease that is
\* gone without a :revoked message went with its fence process.
GuardianSeesFenceDown(g) ==
  /\ guardian[g] \in {"recovering", "ready"}
  /\ ~Holds(g) /\ g \notin notices
  /\ guardian' = [guardian EXCEPT ![g] = "failed"]
  /\ UNCHANGED <<engine, notices>> /\ UNCHANGED fenceVars /\ UNCHANGED taskVars

-----------------------------------------------------------------------------

GenerationStep(g) ==
  \/ Acquire(g) \/ Ready(g)
  \/ GuardianRevoke(g) \/ GuardianNotified(g) \/ GuardianSeesFenceDown(g)
  \/ EngineDies(g) \/ GuardianDies(g)

TaskStep(t) ==
  \/ Register(t) \/ Release(t) \/ Enter(t) \/ TaskEnds(t)
  \/ WaitingTaskOrphaned(t) \/ RelayKills(t) \/ ConfirmDeath(t) \/ RelayCrashes(t)

FenceStep == \/ MonitoredDown \/ Poll \/ FenceCrashes \/ FenceTerminates \/ FenceStarts

Next ==
  \/ \E g \in Generation : GenerationStep(g)
  \/ \E t \in Task : TaskStep(t)
  \/ \E t \in Task, g \in Generation : StartTask(t, g)
  \/ FenceStep

Spec == Init /\ [][Next]_vars

\* Kill signals and DOWN messages are delivered, the poll timer fires, and the
\* guardian reads its mailbox.  Nothing else is forced to happen.
Fairness ==
  /\ \A t \in Task : WF_vars(TaskEnds(t) /\ t \in doomed)
  /\ \A g \in Generation : WF_vars(GuardianNotified(g))
  /\ \A g \in Generation : WF_vars(GuardianSeesFenceDown(g))
  /\ WF_vars(MonitoredDown)
  /\ WF_vars(Poll)

FairSpec == Spec /\ Fairness

-----------------------------------------------------------------------------
(* Properties. *)

\* Callback exclusion: two callbacks that run at the same time in one VM belong
\* to the same generation, whatever crashed in between (moduledoc: a new lease
\* is refused until every registered task is actually dead).
NoOverlap ==
  \A t, u \in Task :
    stage[t] = "running" /\ stage[u] = "running" => taskGen[t] = taskGen[u]

\* A callback that was released and has not died keeps the marker of its own
\* generation in place, so acquire refuses every other generation meanwhile.
MarkerGuardsCallbacks ==
  \A t \in Task : stage[t] \in {"released", "running"} => marker = taskGen[t]

\* retired?: when the fence that granted the lease reports it gone (no entry,
\* no marker), no callback of any generation can be running, so the operation
\* driver may start a replacement.
RetiredMeansDead ==
  fence = "up" /\ lease.gen = None /\ marker = None =>
    \A t \in Task : stage[t] \notin {"released", "running"}

\* revoke_store closes registration before it kills: no step adds a task to a
\* lease that is, or in the same step becomes, revoked.
RegistrationCloses ==
  [][lease'.gen = lease.gen /\ lease'.phase = "revoked"
       => lease'.tasks \subseteq lease.tasks]_vars

\* A relay that ends in order has left the ledger first: the DOWN of a relay
\* whose task finished normally never revokes a healthy generation.
OrderlyEndLeavesLedger ==
  \A t \in lease.tasks : relay[t] # "ended"

\* A revoked lease is retired: every task obeys its kill signal and the poll
\* notices, unless the fence itself is lost.
RevokedRetires == []<>(lease.phase # "revoked")

\* No guardian stays ready on a lease it lost: again and again every ready
\* guardian holds the active lease, because the :revoked message or the fence's
\* DOWN reaches it.
GuardianLearns ==
  []<>(\A g \in Generation :
         guardian[g] = "ready" => Holds(g) /\ lease.phase = "active")

=============================================================================
