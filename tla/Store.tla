------------------------------- MODULE Store --------------------------------
(***************************************************************************)
(* The journal on disk: the Writer and its native calls                     *)
(* (lib/tay/storage/writer.ex, writer/segment_ops.ex, group_commit.ex), the *)
(* online compaction that copies the journal to a new epoch while appends   *)
(* go on and then moves CURRENT to it (online_compaction.ex,                *)
(* online_compaction_lifecycle.ex, v2/publisher.ex), crashes, and the       *)
(* recovery that reads the store back (v2/reader.ex, recovery_lifecycle.ex).*)
(*                                                                          *)
(* A file has what was written to it and how much of that was synced; a     *)
(* rename has happened and has, or has not, been synced.  A process crash   *)
(* loses only what the processes knew; a power loss may also undo whatever  *)
(* was not synced.  Any native call that fails, and any short write, poisons *)
(* the Writer and ends the generation: that is the process crash too.       *)
(*                                                                          *)
(* A record is its number in the order of the appends.  The base of an      *)
(* epoch, which holds the state its source had reached, is written here as  *)
(* the records that led to that state.  An epoch that CURRENT names neither *)
(* on disk nor in the cache is never read again, and is gone.  A step of a  *)
(* Writer handler is one native call; the builder's calls run between       *)
(* handlers.  durability is :sync.                                          *)
(***************************************************************************)
EXTENDS Naturals, Sequences, FiniteSets

LOCAL INSTANCE SequencesExt

CONSTANTS Epoch, None,
          SegmentLimit,   \* rotation_target_bytes
          CatchUpTarget,  \* catch_up_target_events
          MaxDelta,       \* max_delta_events
          MaxRounds,      \* catch_up_max_rounds
          MaxRecords,     \* bound: appends
          MaxFaults       \* bound: crashes and lost answers

ASSUME StoreAssumption ==
  /\ IsFiniteSet(Epoch) /\ Cardinality(Epoch) >= 2 /\ None \notin Epoch
  /\ {SegmentLimit, MaxRounds} \subseteq Nat \ {0}
  /\ {CatchUpTarget, MaxDelta, MaxRecords, MaxFaults} \subseteq Nat

VARIABLES
  epochs,   \* the epoch directories
  current,  \* the epoch CURRENT names
  fixed,    \* the epoch CURRENT names for sure after a power loss
  phase,    \* of the generation: ready, down, ...
  step,     \* the next native call of the running Writer handler
  group,    \* group_commit: None, or the records written in it
  call,     \* the call to the Writer in which the Engine waits
  reader,   \* who has the helper's one read descriptor open
  pub,      \* the compaction in progress and the position of its builder
  issued,   \* history: records appended
  known,    \* history: records acknowledged, or replayed to the Engine
  faults    \* history: crashes and lost answers so far

disk == <<epochs, current, fixed>>
history == <<issued, known, faults>>
vars == <<disk, phase, step, group, call, reader, pub, history>>
----------------------------------------------------------------------------
(* Files. *)

Segment == [data : Seq(1..MaxRecords), sealed : BOOLEAN, torn : BOOLEAN,
            synced : Nat, linked : BOOLEAN]

\* A published successor: its header is synced, its name not yet.
Empty == [data |-> <<>>, sealed |-> FALSE, torn |-> FALSE, synced |-> 0,
          linked |-> FALSE]

\* A candidate is not yet renamed to the name of an epoch; named says that the
\* rename is synced.
Gone == [state |-> "gone", base |-> <<>>, segs |-> <<>>, named |-> FALSE]

Size(s) == Len(s.data) + (IF s.sealed THEN 1 ELSE 0)
Synced(s) == [s EXCEPT !.synced = Size(s)]
Full(s) == s.data # <<>> /\ Len(s.data) >= SegmentLimit

Records(segs) == FlattenSeq([i \in DOMAIN segs |-> segs[i].data])
Content(e) == epochs[e].base \o Records(epochs[e].segs)

tail == Last(epochs[current].segs)
WithTail(e, s) == [epochs EXCEPT ![e].segs = Append(Front(@), s)]

\* recover, validate_topology: every segment but the highest is sealed, and no
\* file ends in the middle of a record or footer.
Readable(e) ==
  LET segs == epochs[e].segs IN
  /\ epochs[e].state = "epoch" /\ segs # <<>>
  /\ \A i \in DOMAIN segs : ~segs[i].torn
  /\ \A i \in 1..Len(segs) - 1 : segs[i].sealed

Only(e, epoch) == [d \in Epoch |-> IF d = e THEN epoch ELSE Gone]
----------------------------------------------------------------------------
(* A compaction in progress: online_compaction and the context of its builder. *)

Positions ==
  {"load", "loading", "build", "verify", "verifying", "catch_up", "freeze",
   "freezing", "final", "epoch", "epoch_sync", "current", "staged", "begin",
   "publish", "current_sync", "published", "reconcile", "resume", "complete", "adopt"}
Preparing ==
  {"load", "loading", "build", "verify", "verifying", "catch_up", "freeze"}
Freezing == Preparing \cup {"freezing"}

frozen == pub # None /\ pub.at \notin Freezing
stopped == pub # None /\ pub.stop # "no"

\* Once CURRENT is in flight compact heeds only the deadline, and only until the
\* publication; the calls of the builder are refused as before.
refused == IF pub.offline THEN pub.at = "publish" /\ pub.stop = "deadline" ELSE stopped

\* cut is exclude_segment_id, the segment the rotation at the start left active.
NewPub(cut, offline) ==
  [at |-> "load", offline |-> offline, delta |-> <<>>, overloaded |-> FALSE,
   stop |-> "no", rounds |-> 0, cut |-> cut, target |-> None]

JournalOverflowing(record) ==
  IF pub = None \/ frozen \/ Len(pub.delta) >= MaxDelta THEN pub
  ELSE [pub EXCEPT !.delta = Append(@, record)]

\* journal: an appended record joins the delta; over the limit the delta is
\* dropped and the builder told to stop.
Journal(record) ==
  IF pub = None \/ frozen \/ pub.overloaded THEN pub
  ELSE IF Len(pub.delta) < MaxDelta
         THEN [pub EXCEPT !.delta = Append(@, record)]
         ELSE [pub EXCEPT !.delta = <<>>, !.overloaded = TRUE,
                 !.stop = IF @ = "no" THEN "flag" ELSE @]
----------------------------------------------------------------------------
Init ==
  \E e \in Epoch :
    /\ epochs = Only(e, [state |-> "epoch", base |-> <<>>, named |-> TRUE,
                         segs |-> <<[Empty EXCEPT !.linked = TRUE]>>])
    /\ current = e /\ fixed = e
    /\ phase = "ready" /\ step = "idle" /\ call = "none"
    /\ group = None /\ reader = None /\ pub = None
    /\ issued = 0 /\ known = {} /\ faults = 0

\* What every process forgets when the generation ends.
Forget ==
  /\ step' = "idle" /\ call' = "none"
  /\ group' = None /\ reader' = None /\ pub' = None

\* poison: the generation is over until the store is opened again.
Poison == phase' = "poisoned" /\ Forget /\ UNCHANGED <<disk, history>>
----------------------------------------------------------------------------
(* The Engine.  It waits in a call to the Writer, and flushes a group without *)
(* looking at its mailbox.                                                    *)

Idle == phase = "ready" /\ call = "none"

begin_group_commit ==
  /\ Idle /\ group = None /\ step = "idle" /\ issued < MaxRecords
  /\ group' = {}
  /\ UNCHANGED <<disk, phase, step, call, reader, pub, history>>

append ==
  /\ Idle /\ issued < MaxRecords
  /\ call' = "append"
  /\ UNCHANGED <<disk, phase, step, group, reader, pub, history>>

\* An empty group is answered without a sync; its records are acknowledged
\* after it.
finish_group_commit ==
  /\ Idle /\ step = "idle" /\ group # None
  /\ epochs' = IF group = {} THEN epochs ELSE WithTail(current, Synced(tail))
  /\ known' = known \cup group
  /\ group' = None
  /\ UNCHANGED <<current, fixed, phase, step, call, reader, pub, issued, faults>>

\* compact_online, and compact once the Engine is drained: a segment with
\* records is sealed first.  In compact the Engine waits for the whole of it.
Compact(kind) ==
  /\ Idle /\ step = "idle" /\ group = None /\ pub = None /\ reader = None
  /\ call' = kind
  /\ step' = IF tail.data = <<>> THEN "spawn" ELSE "footer"
  /\ UNCHANGED <<disk, phase, group, reader, pub, history>>

\* The Engine's answer to the switch request, outside any group: finish_freeze
\* syncs and closes the source.
finish_freeze ==
  /\ Idle /\ step = "idle" /\ group = None
  /\ pub # None /\ pub.at = "freezing"
  /\ epochs' = WithTail(current, Synced(tail))
  /\ pub' = [pub EXCEPT !.at = "final"]
  /\ UNCHANGED <<current, fixed, phase, step, group, call, reader, history>>
----------------------------------------------------------------------------
(* The Writer's handlers, one native call at a time. *)

\* append_with_capacity.  While the store is frozen the call waits in pending.
HandleAppend ==
  /\ phase = "ready" /\ call = "append" /\ step = "idle" /\ ~frozen
  /\ step' = IF Full(tail) THEN "footer" ELSE "write"
  /\ UNCHANGED <<disk, phase, group, call, reader, pub, history>>

WriteFooter ==
  /\ step = "footer"
  /\ epochs' = WithTail(current, [tail EXCEPT !.sealed = TRUE])
  /\ step' = "seal"
  /\ UNCHANGED <<current, fixed, phase, group, call, reader, pub, history>>

SyncFooter ==
  /\ step = "seal"
  /\ epochs' = WithTail(current, Synced(tail))
  /\ step' = "existing"
  /\ UNCHANGED <<current, fixed, phase, group, call, reader, pub, history>>

\* The Engine is told what the store holds once it is open.
Ready ==
  /\ phase' = "ready" /\ step' = "idle"
  /\ known' = known \cup Range(Content(current))
  /\ UNCHANGED <<group, call, reader, pub, issued, faults>>

\* sync_existing of the highest segment: by create_successor, and by open_ready
\* when it stays active.  The helper has one read descriptor; EBUSY poisons.
sync_existing ==
  /\ step = "existing"
  /\ \/ reader # None /\ Poison
     \/ /\ reader = None
        /\ epochs' = WithTail(current, Synced(tail))
        /\ UNCHANGED <<current, fixed>>
        /\ IF tail.sealed
             THEN step' = "publish"
                  /\ UNCHANGED <<phase, group, call, reader, pub, history>>
             ELSE Ready

\* The stage with the header is written, synced and renamed.
PublishSuccessor ==
  /\ step = "publish"
  /\ epochs' = [epochs EXCEPT ![current].segs = Append(@, Empty)]
  /\ step' = "link"
  /\ UNCHANGED <<current, fixed, phase, group, call, reader, pub, history>>

SyncSegments ==
  /\ step = "link"
  /\ epochs' = WithTail(current, [tail EXCEPT !.linked = TRUE])
  /\ UNCHANGED <<current, fixed>>
  /\ \/ /\ call = "append" /\ step' = "write"
        /\ UNCHANGED <<phase, group, call, reader, pub, history>>
     \/ /\ call \in {"compact_online", "compact"} /\ step' = "spawn"
        /\ UNCHANGED <<phase, group, call, reader, pub, history>>
     \/ call = "none" /\ Ready

\* do_start spawns the builder and answers; compact_source closes the source,
\* synced, and builds in the handler.
do_start ==
  /\ step = "spawn" /\ step' = "idle"
  /\ pub' = NewPub(Len(epochs[current].segs), call = "compact")
  /\ IF call = "compact" THEN epochs' = WithTail(current, Synced(tail)) /\ UNCHANGED call
                         ELSE call' = "none" /\ UNCHANGED epochs
  /\ UNCHANGED <<current, fixed, phase, group, reader, history>>

\* append_bytes: a record of a group is synced when the group finishes.
append_bytes ==
  /\ step = "write"
  /\ issued' = issued + 1
  /\ epochs' = WithTail(current, [tail EXCEPT !.data = Append(@, issued + 1)])
  /\ \/ /\ group = None /\ step' = "sync"
        /\ UNCHANGED <<group, call, pub>>
     \/ /\ group # None /\ step' = "idle" /\ call' = "none"
        /\ group' = group \cup {issued + 1}
        /\ pub' = Journal(issued + 1)
  /\ UNCHANGED <<current, fixed, phase, reader, known, faults>>

SyncRecord ==
  /\ step = "sync"
  /\ epochs' = WithTail(current, Synced(tail))
  /\ step' = "idle" /\ call' = "none"
  /\ known' = known \cup {issued}
  /\ pub' = Journal(issued)
  /\ UNCHANGED <<current, fixed, phase, group, reader, issued, faults>>

\* start_inspection reads a segment in a process of its own; it and a
\* compaction exclude each other.
start_inspection ==
  /\ phase = "ready" /\ step = "idle" /\ pub = None /\ reader = None
  /\ reader' = "inspection"
  /\ UNCHANGED <<disk, phase, step, group, call, pub, history>>

EndInspection ==
  /\ reader = "inspection" /\ step = "idle"
  /\ reader' = None
  /\ UNCHANGED <<disk, phase, step, group, call, pub, history>>
----------------------------------------------------------------------------
(* The builder (Publisher.publish).  native_request refuses its calls once   *)
(* the cancel flag is set or the deadline has passed.                        *)

AtStep(from, to) ==
  /\ step = "idle" /\ pub # None /\ pub.at = from
  /\ pub' = [pub EXCEPT !.at = to]

Builder == UNCHANGED <<phase, step, group, call, history>>

\* A source segment, or a file of the candidate, is read in several calls.
OpenRead ==
  /\ ~stopped /\ reader = None
  /\ AtStep("load", "loading") \/ AtStep("verify", "verifying")
  /\ reader' = "builder"
  /\ Builder /\ UNCHANGED disk

CloseRead ==
  /\ ~stopped
  /\ \/ AtStep("loading", "build")
     \/ AtStep("verifying", IF pub.offline THEN "final" ELSE "catch_up")
  /\ reader' = None
  /\ Builder /\ UNCHANGED disk

\* build_candidate: the base holds what the source held at the cut.  It, the
\* manifest and the header of the tail are synced, and so are their names.
build_candidate ==
  /\ step = "idle" /\ pub # None /\ pub.at = "build" /\ ~stopped
  /\ \E e \in Epoch :
       /\ epochs[e] = Gone
       /\ epochs' = [epochs EXCEPT ![e] =
            [state |-> "candidate", named |-> FALSE,
             base |-> epochs[current].base
                        \o Records(SubSeq(epochs[current].segs, 1, pub.cut - 1)),
             segs |-> <<[Empty EXCEPT !.linked = TRUE]>>]]
       /\ pub' = [pub EXCEPT !.at = "verify", !.target = e]
  /\ Builder /\ UNCHANGED <<current, fixed, reader>>

\* append_delta: the records drained from the delta go to the candidate's tail.
append_delta ==
  LET last == Last(epochs[pub.target].segs) IN
  WithTail(pub.target, [last EXCEPT !.data = @ \o pub.delta])

CanWrite == pub.delta = <<>> \/ ~stopped
Drained(to) == [pub EXCEPT !.at = to, !.delta = <<>>, !.rounds = @ + 1]

\* catch_up_round; a round that drained few records asks for the freeze.
catch_up_round ==
  /\ step = "idle" /\ pub # None /\ pub.at = "catch_up"
  /\ pub.rounds < MaxRounds /\ pub.stop # "deadline" /\ CanWrite
  /\ epochs' = append_delta
  /\ pub' = Drained(IF Len(pub.delta) <= CatchUpTarget THEN "freeze" ELSE "catch_up")
  /\ Builder /\ UNCHANGED <<current, fixed, reader>>

\* freeze: a delta that has grown again is another round.
freeze ==
  /\ step = "idle" /\ pub # None /\ pub.at = "freeze"
  /\ \/ /\ Len(pub.delta) <= CatchUpTarget
        /\ pub' = [pub EXCEPT !.at = "freezing"]
        /\ UNCHANGED epochs
     \/ /\ Len(pub.delta) > CatchUpTarget
        /\ pub.rounds < MaxRounds /\ ~stopped
        /\ epochs' = append_delta /\ pub' = Drained("catch_up")
  /\ Builder /\ UNCHANGED <<current, fixed, reader>>

\* The last delta is written, and the tail synced and closed.
SyncTail ==
  /\ AtStep("final", "epoch") /\ ~stopped
  /\ LET last == Last(epochs[pub.target].segs) IN
     epochs' = WithTail(pub.target, Synced([last EXCEPT !.data = @ \o pub.delta]))
  /\ Builder /\ UNCHANGED <<current, fixed, reader>>

\* v2_publish_epoch renames the candidate and syncs the directory of epochs.
RenameEpoch ==
  /\ AtStep("epoch", "epoch_sync") /\ ~stopped
  /\ epochs' = [epochs EXCEPT ![pub.target].state = "epoch"]
  /\ Builder /\ UNCHANGED <<current, fixed, reader>>

NameUnsynced ==
  /\ AtStep("epoch_sync", "current")
  /\ Builder /\ UNCHANGED <<disk, reader>>

SyncEpochs ==
  /\ AtStep("epoch_sync", "current")
  /\ epochs' = [epochs EXCEPT ![pub.target].named = TRUE]
  /\ Builder /\ UNCHANGED <<current, fixed, reader>>

\* stage_current opens the stage of CURRENT, writes, syncs and closes it;
\* begin_current is the last moment at which a stop is heeded.
stage_current ==
  /\ AtStep("current", "staged") \/ AtStep("staged", "begin") \/ AtStep("begin", "publish")
  /\ ~stopped
  /\ Builder /\ UNCHANGED <<disk, reader>>

\* v2_publish_current renames the stage and syncs the root.
RenameCurrent ==
  /\ AtStep("publish", "current_sync") /\ ~refused
  /\ current' = pub.target
  /\ Builder /\ UNCHANGED <<epochs, fixed, reader>>

SyncRoot ==
  /\ AtStep("current_sync", "published")
  /\ fixed' = current
  /\ Builder /\ UNCHANGED <<epochs, current, reader>>

verify_published ==
  /\ AtStep("published", "complete") /\ ~refused
  /\ Builder /\ UNCHANGED <<disk, reader>>

\* complete: the predecessor is removed, the tail of the new epoch opened, and
\* the calls in pending go on.
complete ==
  /\ step = "idle" /\ pub # None /\ pub.at = "complete" /\ ~pub.offline
  /\ epochs' = Only(current, epochs[current])
  /\ pub' = None
  /\ Builder /\ UNCHANGED <<current, fixed, reader>>

\* adopt_result: the predecessor is left in place if the stop is requested, or
\* if CURRENT was found in place and not synced.  The Writer then refuses every
\* call: compaction_restart_required.
adopt_result ==
  /\ step = "idle" /\ pub # None /\ pub.offline /\ pub.at \in {"complete", "adopt"}
  /\ epochs' = IF stopped \/ pub.at = "adopt" THEN epochs ELSE Only(current, epochs[current])
  /\ phase' = "compacted" /\ Forget
  /\ UNCHANGED <<current, fixed, history>>
----------------------------------------------------------------------------
(* Compactions that do not succeed. *)

\* The guardian sets the cancel flag, or the deadline passes.
Stop ==
  /\ phase = "ready" /\ pub # None
  /\ \E why \in {"flag", "deadline"} :
       /\ pub.stop = "no" \/ <<pub.stop, why>> = <<"flag", "deadline">>
       /\ pub' = [pub EXCEPT !.stop = why]
  /\ UNCHANGED <<disk, phase, step, group, call, reader, history>>

GivesUpIfStopped ==
  stopped /\ pub.at \in {"load", "loading", "build", "verify", "verifying",
                         "final", "epoch", "current", "staged", "begin"}

\* The builder gives up: a native call or a deadline check is refused, or it
\* ran out of rounds.
GivesUp ==
  \/ stopped /\ pub.at \in {"load", "loading", "build", "verify", "verifying",
                               "final", "epoch", "current", "staged", "begin"}
  \/ pub.at = "catch_up" /\ (\/ pub.rounds >= MaxRounds
                                \/ pub.stop = "deadline" \/ ~CanWrite)
  \/ pub.at = "freeze" /\ Len(pub.delta) > CatchUpTarget
       /\ (pub.rounds >= MaxRounds \/ stopped)

\* abort_preparation and resume_source: the candidate is abandoned, the source
\* goes on.  open_active refuses while the stage of CURRENT is open.  A compact
\* that fails poisons.
fail ==
  /\ step = "idle" /\ pub # None
  /\ GivesUp \/ pub.at = "resume"
  /\ \/ (pub.offline \/ pub.at = "staged") /\ Poison
     \/ /\ ~pub.offline /\ pub.at # "staged"
        /\ epochs' = Only(current, epochs[current])
        /\ pub' = None /\ reader' = None
        /\ Builder /\ UNCHANGED <<current, fixed>>

\* unknown_publication_outcome: the publication was refused, or its answer or
\* the verification failed.  The helper is closed and started again.
UnknownPublication ==
  /\ step = "idle" /\ pub # None
  /\ \/ /\ refused /\ pub.at \in {"publish", "published"}
        /\ UNCHANGED faults
     \/ /\ pub.at \in {"publish", "current_sync", "published"}
        /\ faults < MaxFaults /\ faults' = faults + 1
  /\ pub' = [pub EXCEPT !.at = "reconcile"]
  /\ UNCHANGED <<disk, phase, step, group, call, reader, issued, known>>

\* reconcile_unknown_publication: CURRENT as it is found, synced by
\* enable_mutations, decides.  reconcile_publication only reads it.
reconcile ==
  /\ \/ /\ AtStep("reconcile", IF current = pub.target THEN "complete" ELSE "resume")
        /\ ~pub.offline
        /\ fixed' = current
     \/ /\ AtStep("reconcile", IF current = pub.target THEN "adopt" ELSE "resume")
        /\ pub.offline
        /\ UNCHANGED fixed
  /\ Builder /\ UNCHANGED <<epochs, current, reader>>

\* builder_down: before the switch the candidate is abandoned.
builder_down ==
  /\ step = "idle" /\ pub # None /\ ~pub.offline /\ faults < MaxFaults
  /\ pub.at \in Positions \ {"reconcile", "resume", "complete"}
  /\ \/ /\ pub.at \in Preparing
        /\ epochs' = Only(current, epochs[current])
        /\ pub' = None /\ reader' = None
        /\ UNCHANGED <<phase, step, group, call, current, fixed>>
     \/ /\ pub.at \notin Preparing
        /\ phase' = "poisoned" /\ Forget /\ UNCHANGED disk
  /\ faults' = faults + 1
  /\ UNCHANGED <<issued, known>>
----------------------------------------------------------------------------
(* Crashes. *)

\* The processes end, in the middle of a write perhaps.
Crash ==
  /\ phase \notin {"down", "refused"} /\ faults < MaxFaults
  /\ phase' = "down" /\ Forget
  /\ \/ UNCHANGED epochs
     \/ /\ step \in {"write", "footer"}
        /\ epochs' = WithTail(current, [tail EXCEPT !.torn = TRUE])
  /\ faults' = faults + 1
  /\ UNCHANGED <<current, fixed, issued, known>>

\* What a segment file may be after a power loss: any length from what was
\* synced to what was written, and damaged behind that.
Kept(s, size, torn) ==
  [s EXCEPT !.data = SubSeq(@, 1, IF size < Len(@) THEN size ELSE Len(@)),
            !.sealed = @ /\ size = Size(s),
            !.torn = @ \/ torn,
            !.synced = size, !.linked = TRUE]

PowerLoss ==
  /\ phase # "refused" /\ faults < MaxFaults
  /\ phase' = "down" /\ Forget
  /\ \E e \in {current, fixed} :
     LET old == epochs[e]
         dirty == {i \in DOMAIN old.segs : old.segs[i].synced < Size(old.segs[i])}
         last == Len(old.segs)
     IN /\ current' = e /\ fixed' = e
        /\ \E size \in [dirty -> 0..SegmentLimit + 1], torn \in SUBSET dirty,
              n \in {last} \cup (IF old.segs[last].linked THEN {} ELSE {last - 1}),
              state \in {old.state} \cup (IF old.named THEN {} ELSE {"candidate"}) :
             /\ \A i \in dirty : /\ old.segs[i].synced <= size[i]
                                 /\ size[i] <= Size(old.segs[i])
                                 /\ i \in torn => size[i] < Size(old.segs[i])
             /\ epochs' = Only(e, [old EXCEPT
                  !.state = state, !.named = TRUE,
                  !.segs = [i \in 1..n |->
                    IF i \in dirty THEN Kept(@[i], size[i], i \in torn)
                                   ELSE [@[i] EXCEPT !.linked = TRUE]]])
  /\ faults' = faults + 1
  /\ UNCHANGED <<issued, known>>
----------------------------------------------------------------------------
(* Opening the store again. *)

\* The guardian replaces the generation of a poisoned or compacted Writer.
Restart ==
  /\ phase \in {"poisoned", "compacted"} /\ phase' = "down"
  /\ UNCHANGED <<disk, step, group, call, reader, pub, history>>

\* recover, and its repetition by revalidate: a damaged store is refused.
recover ==
  /\ phase = "down"
  /\ \/ Readable(current) /\ phase' = "activating" /\ step' = "enable"
     \/ ~Readable(current) /\ phase' = "refused" /\ UNCHANGED step
  /\ UNCHANGED <<disk, group, call, reader, pub, history>>

\* enable_mutations syncs the root and the segments directory.
enable_mutations ==
  /\ step = "enable" /\ step' = "reclaim"
  /\ fixed' = current
  /\ epochs' = WithTail(current, [tail EXCEPT !.linked = TRUE])
  /\ UNCHANGED <<current, phase, group, call, reader, pub, history>>

maybe_reclaim ==
  /\ step = "reclaim" /\ step' = "authority"
  /\ epochs' = Only(current, epochs[current])
  /\ UNCHANGED <<current, fixed, phase, group, call, reader, pub, history>>

\* open_ready: sync_v2_authority and the directories.
sync_v2_authority ==
  /\ step = "authority" /\ step' = "existing"
  /\ epochs' = [WithTail(current, [tail EXCEPT !.linked = TRUE])
                  EXCEPT ![current].named = TRUE]
  /\ fixed' = current
  /\ UNCHANGED <<current, phase, group, call, reader, pub, history>>
----------------------------------------------------------------------------
EngineStep ==
  \/ begin_group_commit \/ append \/ finish_group_commit \/ finish_freeze
  \/ Compact("compact_online") \/ Compact("compact")

WriterStep ==
  \/ HandleAppend \/ WriteFooter \/ SyncFooter \/ sync_existing \/ PublishSuccessor
  \/ SyncSegments \/ do_start \/ append_bytes \/ SyncRecord
  \/ enable_mutations \/ maybe_reclaim \/ sync_v2_authority

BuilderStep ==
  \/ OpenRead \/ CloseRead \/ build_candidate \/ catch_up_round \/ freeze \/ SyncTail
  \/ RenameEpoch \/ SyncEpochs \/ stage_current \/ RenameCurrent \/ SyncRoot
  \/ verify_published \/ complete \/ adopt_result \/ fail \/ UnknownPublication \/ reconcile

Next ==
  \/ EngineStep \/ WriterStep \/ BuilderStep
  \/ start_inspection \/ EndInspection
  \/ Stop \/ builder_down \/ Crash \/ PowerLoss \/ Restart \/ recover

Spec == Init /\ [][Next]_vars

\* The Writer and the builder go on with what they do; an Engine that has begun
\* a group finishes it, and takes the switch request out of its mailbox.
FairSpec ==
  /\ Spec
  /\ WF_vars(WriterStep) /\ WF_vars(BuilderStep)
  /\ WF_vars(finish_group_commit) /\ SF_vars(finish_freeze)
----------------------------------------------------------------------------
TypeOK ==
  /\ epochs \in [Epoch -> [state : {"gone", "candidate", "epoch"},
                           base : Seq(1..MaxRecords), segs : Seq(Segment),
                           named : BOOLEAN]]
  /\ {current, fixed} \subseteq Epoch
  /\ phase \in {"ready", "poisoned", "compacted", "down", "activating", "refused"}
  /\ group = None \/ group \subseteq 1..MaxRecords
  /\ issued \in 0..MaxRecords /\ known \subseteq 1..issued

\* The store keeps the promise of Journal: through every crash and power loss,
\* rotation, publication and reclamation, the epoch CURRENT names holds the
\* acknowledged records in their order and at their place, and a switch to a new
\* epoch changes nothing, whatever was appended while it was built.
Promise == INSTANCE Journal WITH log <- Content(current), committed <- Cardinality(known)
KeepsJournal == Promise!Spec

\* A store is refused only for a record or footer whose write was cut short: a
\* crash between any two steps of a rotation, a publication or a reclamation
\* leaves a store that opens.
RefusedOnlyTorn ==
  phase = "refused" =>
    LET segs == epochs[current].segs IN
    /\ epochs[current].state = "epoch" /\ segs # <<>>
    /\ Last(segs).torn
    /\ \A i \in 1..Len(segs) - 1 : segs[i].sealed /\ ~segs[i].torn

\* The switch does not hold the Engine up: every call to the Writer ends, also
\* one that waits for a frozen store, and every compaction ends.
SwitchEnds == []<>(call = "none") /\ []<>(pub = None)

\* What docs/operations.md says of the online construction, that only the switch
\* closes admission, and CHANGELOG.md of inspection, that it cannot delay job
\* processing: an append poisons the Writer only if something failed.
AppendsSpared ==
  [][call = "append" /\ phase' = "poisoned" => faults' # faults]_vars
=============================================================================
