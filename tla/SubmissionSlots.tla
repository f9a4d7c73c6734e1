-------------------------- MODULE SubmissionSlots --------------------------
\* From an uploaded archive to a bot in a team slot: submit_build_stream, the
\* submission worker and its remote build, the rows of db/repos/submission.rs,
\* the registry, the clean-up of replaced submissions and the slot stream
\* (services/submission.rs).
\*
\* Handlers run side by side; one worker takes the jobs in the order they were
\* sent.  Every database call may fail, a commit also after it took effect; a
\* handler is dropped with its caller at any await; the process may crash.  The
\* queue is a set in which the earliest ticket goes first.

EXTENDS Naturals, FiniteSets

CONSTANTS
    Subs,       \* submission ids (fresh UUIDs)
    Teams,
    SlotIds,    \* 1, 2, 3
    Codes,      \* what an archive builds to: equal builds have one digest
    Requests,   \* what may be submitted
    QueueCap,   \* SUBMISSION_QUEUE_CAPACITY
    EventCap,   \* BUILD_EVENT_CHANNEL_CAPACITY
    MaxCrashes, \* bound: process crashes
    Nil         \* absence (NULL, None)

ASSUME SlotsAssumption ==
    /\ QueueCap \in Nat \ {0} /\ EventCap \in Nat \ {0} /\ MaxCrashes \in Nat
    /\ Nil \notin Subs \cup Requests
    /\ Requests \subseteq [team: Teams, slot: SlotIds, code: Codes]

VARIABLES
    request,   \* what each submission asks for, or Nil
    handler,   \* where each submit_build_stream call stands
    status,    \* submissions.status; "none" before the row exists
    image,     \* submissions with an image_ref
    slots,     \* team_submission_slots
    archived,  \* archives on disk
    tags,      \* registry: submissions whose tag resolves
    queue,     \* jobs sent and not taken
    sent,      \* number of jobs ever sent
    ticket,    \* the number of each job; 0 before it is sent
    worker,    \* the job in work, or Nil
    events,    \* build events waiting in each call's channel
    stream,    \* each team's slot stream, or Nil
    lost,      \* history: jobs destroyed by a failure nothing retries
    crashes

database == <<status, image, slots>>
jobs == <<queue, sent, ticket>>
vars == <<request, handler, status, image, slots, archived, tags, queue, sent,
          ticket, worker, events, stream, lost, crashes>>

HandlerSteps == {"idle", "create", "send", "started", "streaming", "gone"}
Statuses == {"none", "queued", "building", "succeeded", "failed"}
WorkerSteps == {"mark", "context", "build", "assign", "notify", "list", "clean",
                "finish", "fail", "mark_failed"}
Works == [sub: Subs, at: WorkerSteps, todo: SUBSET Subs]
Streams == [pending: BOOLEAN, view: [SlotIds -> Subs \cup {Nil}]]

TypeOK ==
    /\ request \in [Subs -> Requests \cup {Nil}]
    /\ handler \in [Subs -> HandlerSteps]
    /\ status \in [Subs -> Statuses]
    /\ image \subseteq Subs /\ archived \subseteq Subs /\ tags \subseteq Subs
    /\ queue \subseteq Subs /\ lost \subseteq Subs
    /\ slots \in [Teams -> [SlotIds -> Subs \cup {Nil}]]
    /\ sent \in Nat /\ ticket \in [Subs -> Nat]
    /\ worker \in Works \cup {Nil}
    /\ events \in [Subs -> 0..EventCap]
    /\ stream \in [Teams -> Streams \cup {Nil}]
    /\ crashes \in 0..MaxCrashes

Empty == [k \in SlotIds |-> Nil]

Init ==
    /\ request = [s \in Subs |-> Nil]
    /\ handler = [s \in Subs |-> "idle"]
    /\ status = [s \in Subs |-> "none"]
    /\ image = {} /\ archived = {} /\ tags = {}
    /\ slots = [t \in Teams |-> Empty]
    /\ queue = {} /\ sent = 0 /\ ticket = [s \in Subs |-> 0]
    /\ worker = Nil
    /\ events = [s \in Subs |-> 0]
    /\ stream = [t \in Teams |-> Nil]
    /\ lost = {} /\ crashes = 0

-----------------------------------------------------------------------------
\* What the queries return.

Slotted(s) == \E t \in Teams, k \in SlotIds : slots[t][k] = s

\* list_filled_succeeded_slots.
Filled(t) == [k \in SlotIds |->
                IF slots[t][k] # Nil /\ status[slots[t][k]] = "succeeded"
                THEN slots[t][k] ELSE Nil]

\* Same repository and same digest: one manifest under two tags.
SameImage(s, o) == request[s].team = request[o].team /\ request[s].code = request[o].code

At(steps) == {s \in Subs : handler[s] \in steps}
Building == {s \in Subs : worker # Nil /\ worker.at = "build" /\ worker.sub = s}

\* Room in the event channel; a channel whose receiver is gone takes anything.
Room(s) == handler[s] = "gone" \/ events[s] < EventCap
Emit(s) == events' = IF handler[s] = "gone" THEN events
                     ELSE [events EXCEPT ![s] = @ + 1]

-----------------------------------------------------------------------------
\* submit_build_stream.  What a team has loaded or selected only decides whether
\* the request is refused at the start, and is left out.

Goto(s, step) == handler' = [handler EXCEPT ![s] = step]

\* The archive is written under the submission's own directory.  What a failed
\* write leaves there nobody reads.
Submit(s, r) ==
    /\ handler[s] = "idle"
    /\ request' = [request EXCEPT ![s] = r]
    /\ \/ Goto(s, "create") /\ archived' = archived \cup {s}
       \/ Goto(s, "gone") /\ UNCHANGED archived
    /\ UNCHANGED <<database, tags, jobs, worker, events, stream, lost, crashes>>

\* The row is inserted (an insertion reported as failed may have been made), then
\* ensure_team_slots makes the team's slot rows.  A failure refuses the request
\* and leaves the row as it is.
create_submission(s) ==
    /\ handler[s] = "create"
    /\ \/ /\ status' = [status EXCEPT ![s] = "queued"]
          /\ \/ Goto(s, "send") /\ UNCHANGED lost
             \/ Goto(s, "gone") /\ lost' = lost \cup {s}
       \/ Goto(s, "gone") /\ UNCHANGED <<status, lost>>
    /\ UNCHANGED <<request, image, slots, archived, tags, jobs, worker, events, stream,
                   crashes>>

\* The job is sent when the queue has room.
Send(s) ==
    /\ handler[s] = "send"
    /\ Cardinality(queue) < QueueCap
    /\ queue' = queue \cup {s}
    /\ sent' = sent + 1
    /\ ticket' = [ticket EXCEPT ![s] = sent + 1]
    /\ Goto(s, "started")
    /\ UNCHANGED <<request, database, archived, tags, worker, events, stream, lost,
                   crashes>>

\* emit_build_started, after the worker may already have sent events of its own;
\* only then is the receiving end handed to the client.
EmitStarted(s) ==
    /\ handler[s] = "started"
    /\ Room(s)
    /\ Emit(s)
    /\ Goto(s, "streaming")
    /\ UNCHANGED <<request, database, archived, tags, jobs, worker, stream, lost,
                   crashes>>

ClientReads(s) ==
    /\ handler[s] = "streaming" /\ events[s] > 0
    /\ events' = [events EXCEPT ![s] = @ - 1]
    /\ UNCHANGED <<request, handler, database, archived, tags, jobs, worker, stream,
                   lost, crashes>>

\* The caller goes away: its handler is dropped at the await it stands at, the
\* write on its way may still happen, and nobody sends the job.
ClientLeaves(s) ==
    /\ handler[s] \notin {"idle", "gone"}
    /\ Goto(s, "gone")
    /\ events' = [events EXCEPT ![s] = 0]
    /\ status' \in {status} \cup {[status EXCEPT ![x] = "queued"] :
                                    x \in {s} \cap At({"create"})}
    /\ lost' = lost \cup ({s} \cap At({"create", "send"}))
    /\ UNCHANGED <<request, image, slots, archived, tags, jobs, worker, stream, crashes>>

-----------------------------------------------------------------------------
\* The submission worker.

Working(step) == worker # Nil /\ worker.at = step
Sub == worker.sub
Step(step) == worker' = [worker EXCEPT !.at = step]

\* The earliest job sent.
Pick(s) ==
    /\ worker = Nil /\ s \in queue
    /\ \A o \in queue : ticket[s] <= ticket[o]
    /\ queue' = queue \ {s}
    /\ worker' = [sub |-> s, at |-> "mark", todo |-> {}]
    /\ UNCHANGED <<request, handler, database, archived, tags, sent, ticket, events,
                   stream, lost, crashes>>

mark_building ==
    /\ Working("mark")
    /\ \/ status' = [status EXCEPT ![Sub] = "building"] /\ Step("context")
       \/ status' \in {status, [status EXCEPT ![Sub] = "building"]} /\ Step("fail")
    /\ UNCHANGED <<request, handler, image, slots, archived, tags, jobs, events,
                   stream, lost, crashes>>

\* run_remote_build_pipeline reports its progress to the client, and waits for
\* room to do so.
BuildLog ==
    /\ Working("context")
    /\ Room(Sub) /\ Emit(Sub)
    /\ Step("build")
    /\ UNCHANGED <<request, handler, database, archived, tags, jobs, stream, lost,
                   crashes>>

\* Built, verified and pushed under the submission's own tag.
BuildDone ==
    /\ Working("build")
    /\ tags' = tags \cup {Sub}
    /\ Step("assign")
    /\ UNCHANGED <<request, handler, database, archived, jobs, events, stream,
                   lost, crashes>>

\* A step of the pipeline fails, or submission_build_timeout_sec is over.  The
\* push may have happened or may still: nothing reads a failed submission's tag.
BuildFails ==
    /\ Working("context") \/ Working("build")
    /\ Step("fail")
    /\ tags' \in {tags} \cup {tags \cup {x} : x \in Building}
    /\ UNCHANGED <<request, handler, database, archived, jobs, events, stream, lost,
                   crashes>>

\* One transaction; a failed commit may have taken effect.
mark_succeeded_and_assign_slot ==
    /\ Working("assign")
    /\ \/ /\ status' = [status EXCEPT ![Sub] = "succeeded"]
          /\ image' = image \cup {Sub}
          /\ slots' = [slots EXCEPT ![request[Sub].team][request[Sub].slot] = Sub]
          /\ Step("notify") \/ Step("fail")
       \/ Step("fail") /\ UNCHANGED database
    /\ UNCHANGED <<request, handler, archived, tags, jobs, events, stream, lost,
                   crashes>>

\* slot_updates_tx.send.
Notify ==
    /\ Working("notify")
    /\ stream' = [t \in Teams |->
                    IF t = request[Sub].team /\ stream[t] # Nil
                    THEN [stream[t] EXCEPT !.pending = TRUE] ELSE stream[t]]
    /\ Step("list")
    /\ UNCHANGED <<request, handler, database, archived, tags, jobs, events, lost,
                   crashes>>

\* Mutated form: every other succeeded submission of the team.
OrphansInSlots(keep) ==
    {o \in Subs : /\ status[o] = "succeeded" /\ o # keep
                  /\ request[o].team = request[keep].team}

\* list_orphaned_succeeded_submissions.
Orphans(keep) ==
    {o \in Subs : /\ status[o] = "succeeded" /\ o # keep
                  /\ request[o].team = request[keep].team /\ ~Slotted(o)}

ListOrphans ==
    /\ Working("list")
    /\ \/ worker' = [worker EXCEPT !.at = "clean", !.todo = Orphans(Sub)]
       \/ Step("finish")
    /\ UNCHANGED <<request, handler, database, archived, tags, jobs, events, stream,
                   lost, crashes>>

\* delete_registry_image_by_ref deletes the manifest by its digest, and with it
\* every tag of the repository that names it.
Without(o) == IF o \in tags THEN {x \in tags : ~SameImage(x, o)} ELSE tags

\* The image goes first; a candidate whose deletion failed is left for the next
\* clean-up, later failures are only logged.
CleanOrphan(o) ==
    /\ Working("clean") /\ o \in worker.todo
    /\ worker' = [worker EXCEPT !.todo = @ \ {o}]
    /\ \/ /\ o \in image
          /\ tags' \in {tags, Without(o)}
          /\ UNCHANGED <<image, archived>>
       \/ /\ tags' = IF o \in image THEN Without(o) ELSE tags
          /\ image' \in {image, image \ {o}}
          /\ archived' \in {archived, archived \ {o}}
    /\ UNCHANGED <<request, handler, status, slots, jobs, events, stream, lost,
                   crashes>>

CleanDone ==
    /\ Working("clean") /\ worker.todo = {}
    /\ Step("finish")
    /\ UNCHANGED <<request, handler, database, archived, tags, jobs, events, stream,
                   lost, crashes>>

\* Mutated form: reports the failure and leaves the row building.
FailLogOnly ==
    /\ Working("fail")
    /\ Room(Sub) /\ Emit(Sub)
    /\ Step("finish")
    /\ UNCHANGED <<request, handler, database, archived, tags, jobs, stream, lost,
                   crashes>>

\* The failure is reported, again waiting for room, before the row is marked.
FailLog ==
    /\ Working("fail")
    /\ Room(Sub) /\ Emit(Sub)
    /\ Step("mark_failed")
    /\ UNCHANGED <<request, handler, database, archived, tags, jobs, stream, lost,
                   crashes>>

\* mark_failed keeps image_ref.
mark_failed ==
    /\ Working("mark_failed")
    /\ Step("finish")
    /\ \/ status' = [status EXCEPT ![Sub] = "failed"] /\ UNCHANGED lost
       \/ /\ status' \in {status, [status EXCEPT ![Sub] = "failed"]}
          /\ lost' = lost \cup {Sub}
    /\ UNCHANGED <<request, handler, image, slots, archived, tags, jobs, events,
                   stream, crashes>>

EmitFinished ==
    /\ Working("finish")
    /\ Room(Sub) /\ Emit(Sub)
    /\ worker' = Nil
    /\ UNCHANGED <<request, handler, database, archived, tags, jobs, stream, lost,
                   crashes>>

-----------------------------------------------------------------------------
\* Mutated form: waits for the first notification.
SubscribeWithoutSnapshot(t) ==
    /\ stream[t] = Nil
    /\ stream' = [stream EXCEPT ![t] = [pending |-> FALSE, view |-> Empty]]
    /\ UNCHANGED <<request, handler, database, archived, tags, jobs, worker, events,
                   lost, crashes>>

\* stream_slots: subscribe, first snapshot, then one per notification (several
\* missed ones count as one).
Subscribe(t) ==
    /\ stream[t] = Nil
    /\ stream' = [stream EXCEPT ![t] = [pending |-> TRUE, view |-> Empty]]
    /\ UNCHANGED <<request, handler, database, archived, tags, jobs, worker, events,
                   lost, crashes>>

emit_slots_snapshot(t) ==
    /\ stream[t] # Nil /\ stream[t].pending
    /\ stream' = [stream EXCEPT ![t] = [pending |-> FALSE, view |-> Filled(t)]]
    /\ UNCHANGED <<request, handler, database, archived, tags, jobs, worker, events,
                   lost, crashes>>

\* The client hangs up or a query fails.
StreamEnds(t) ==
    /\ stream[t] # Nil
    /\ stream' = [stream EXCEPT ![t] = Nil]
    /\ UNCHANGED <<request, handler, database, archived, tags, jobs, worker, events,
                   lost, crashes>>

\* A crash, or a shutdown that aborts the worker: database, disk and registry
\* stay; nothing takes a queued or a building row up again.
Crash ==
    /\ crashes < MaxCrashes
    /\ crashes' = crashes + 1
    /\ handler' = [s \in Subs |-> IF handler[s] = "idle" THEN "idle" ELSE "gone"]
    /\ events' = [s \in Subs |-> 0]
    /\ queue' = {} /\ worker' = Nil
    /\ stream' = [t \in Teams |-> Nil]
    /\ lost' = lost \cup {s \in Subs : status[s] \in {"queued", "building"}}
    /\ UNCHANGED <<request, database, archived, tags, sent, ticket>>

-----------------------------------------------------------------------------
HandlerStep(s) == create_submission(s) \/ Send(s) \/ EmitStarted(s)

WorkerStep ==
    \/ \E s \in Subs : Pick(s) \/ CleanOrphan(s)
    \/ mark_building \/ BuildLog \/ BuildDone \/ BuildFails
    \/ mark_succeeded_and_assign_slot \/ Notify \/ ListOrphans \/ CleanDone
    \/ FailLog \/ mark_failed \/ EmitFinished

Next ==
    \/ \E s \in Subs, r \in Requests : Submit(s, r)
    \/ \E s \in Subs : HandlerStep(s) \/ ClientReads(s) \/ ClientLeaves(s)
    \/ WorkerStep
    \/ \E t \in Teams : Subscribe(t) \/ emit_slots_snapshot(t) \/ StreamEnds(t)
    \/ Crash

Spec == Init /\ [][Next]_vars

\* A client that gets no answer because the channel is full gives up.
GivesUp(s) == handler[s] = "started" /\ ~Room(s) /\ ClientLeaves(s)

\* Handlers, worker and streams are tasks of their own, the build is under a
\* timeout.  The worker waits for clients to take their events, without limit:
\* that they do, or give up, is an assumption on the clients.
Fairness ==
    /\ WF_vars(WorkerStep)
    /\ \A s \in Subs : /\ WF_vars(HandlerStep(s))
                       /\ WF_vars(ClientReads(s)) /\ WF_vars(GivesUp(s))
    /\ \A t \in Teams : WF_vars(emit_slots_snapshot(t))

FairSpec == Spec /\ Fairness

-----------------------------------------------------------------------------
\* A slot keeps what it shows: as long as a slot offers a submission, clean-ups,
\* failed commits, late pushes and crashes leave its image reference and its
\* archive alone, and only a submission of the same build can take its image.
VisibleSlotKept ==
    \A t \in Teams, k \in SlotIds :
        LET s == Filled(t)[k] IN
        s # Nil => /\ s \in image /\ s \in archived
                   /\ s \in tags \/ \E o \in Subs \ {s} : request[o] # Nil /\ SameImage(s, o)

\* Of the submissions sent to a slot, the one sent last among the succeeded is
\* in it: a build that took longer never replaces a newer one.
SlotHoldsLatest ==
    \A t \in Teams, k \in SlotIds, s \in Subs :
        /\ status[s] = "succeeded" /\ request[s].team = t /\ request[s].slot = k
        => slots[t][k] # Nil /\ ticket[s] <= ticket[slots[t][k]]

\* The slots of a team, at every moment: what they show is usable and the newest.
SlotsAreSound == TypeOK /\ VisibleSlotKept /\ SlotHoldsLatest

\* Every row ends as succeeded or failed, unless a failure nothing retries hit
\* it: a crash, a caller gone before the job was sent, a database error on the
\* slot rows or on the mark itself.
BuildSettles ==
    \A s \in Subs : status[s] \in {"queued", "building"}
        ~> (status[s] \in {"succeeded", "failed"} \/ s \in lost)

\* A connected client gets to see what the slots are given: it does not stay
\* behind, unless a database error hid how the assignment ended.
Behind(t) ==
    /\ stream[t] # Nil
    /\ \E k \in SlotIds : Filled(t)[k] \notin lost \cup {Nil, stream[t].view[k]}
SlotStreamCatchesUp == \A t \in Teams : Behind(t) ~> ~Behind(t)

\* "Returns succeeded submissions for team that are not used in any slot": what
\* the clean-up takes is no slot's image.
CleanupSparesSlots ==
    \A t \in Teams, k \in SlotIds : Filled(t)[k] # Nil => Filled(t)[k] \in tags

=============================================================================
