----------------------- MODULE SubmissionSlotsProofs -----------------------
(***************************************************************************)
(* Proofs about SubmissionSlots, for every set of submissions, teams,      *)
(* slots and requests and every capacity: what a slot shows stays usable   *)
(* and is the newest build, whatever fails, is dropped or crashes.         *)
(***************************************************************************)
EXTENDS SubmissionSlots, TLAPS

\* A submission has a request exactly when its call has begun, and a row only then.
Begun ==
    \A s \in Subs : /\ handler[s] = "idle" <=> request[s] = Nil
                    /\ handler[s] \in {"idle", "create"} => status[s] = "none"
                    /\ handler[s] = "send" => status[s] = "queued"

\* A job is sent once, by a call that is past that step, and is then in the
\* queue until the worker takes it; its row says queued until then.
JobsSentOnce ==
    \A s \in Subs :
        /\ handler[s] \in {"idle", "create", "send"} =>
               s \notin queue /\ (worker # Nil => worker.sub # s)
        /\ s \in queue => status[s] = "queued" /\ (worker # Nil => worker.sub # s)

\* The archive stays as long as a call or a job needs it.
ArchiveKept ==
    /\ \A s \in Subs : handler[s] \in {"create", "send"} => s \in archived
    /\ queue \subseteq archived
    /\ worker # Nil => worker.sub \in archived

\* Jobs are taken in the order they were sent: every job still waiting is newer
\* than the job in work and than every succeeded build, and the job in work is
\* newer than every build that succeeded before it.
TakenInOrder ==
    /\ \A s \in Subs : ticket[s] <= sent
    /\ \A s \in queue :
           /\ worker # Nil => ticket[worker.sub] <= ticket[s]
           /\ \A o \in Subs : status[o] = "succeeded" => ticket[o] <= ticket[s]
    /\ worker # Nil =>
           \A o \in Subs : status[o] = "succeeded" => ticket[o] <= ticket[worker.sub]

\* What the worker knows of its job: the image is pushed when the slot is
\* assigned, and the clean-up list names rows no slot refers to.
WorkerKnows ==
    worker # Nil =>
        /\ request[worker.sub] # Nil
        /\ worker.at = "assign" => worker.sub \in tags
        /\ worker.at = "clean" =>
               \A o \in worker.todo : /\ status[o] = "succeeded" /\ o # worker.sub
                                      /\ ~Slotted(o)

\* A slot refers to submissions that were made.
SlotsRefer ==
    \A t \in Teams, k \in SlotIds : slots[t][k] # Nil => request[slots[t][k]] # Nil

Inv == /\ TypeOK /\ Begun /\ JobsSentOnce /\ ArchiveKept /\ TakenInOrder
       /\ WorkerKnows /\ SlotsRefer /\ VisibleSlotKept /\ SlotHoldsLatest

\* What VisibleSlotKept asks of a submission a slot shows.
Usable(s) ==
    /\ s \in image /\ s \in archived
    /\ s \in tags \/ \E o \in Subs \ {s} : request[o] # Nil /\ SameImage(s, o)

-----------------------------------------------------------------------------
(* Types. *)

\* A step of the worker that only moves it on keeps the job it works on.
LEMMA StepType ==
    ASSUME worker \in Works, NEW x \in WorkerSteps, Step(x)
    PROVE  /\ worker' \in Works
           /\ worker'.sub = worker.sub /\ worker'.at = x /\ worker'.todo = worker.todo
BY DEF Works, Step

\* The clean-up list is a set of submissions.
LEMMA ListType ==
    ASSUME worker \in Works, worker' = [worker EXCEPT !.at = "clean", !.todo = Orphans(Sub)]
    PROVE  /\ worker' \in Works
           /\ worker'.sub = worker.sub /\ worker'.at = "clean"
           /\ worker'.todo = Orphans(Sub)
BY DEF Works, WorkerSteps, Orphans

\* Assigning one slot keeps the type of the table.
LEMMA AssignType ==
    ASSUME NEW T, NEW f \in [Teams -> [SlotIds -> T]], NEW t, NEW k, NEW x \in T
    PROVE  [f EXCEPT ![t][k] = x] \in [Teams -> [SlotIds -> T]]
OBVIOUS

\* Every step keeps the types.
LEMMA TypeStep ==
    ASSUME TypeOK, [Next]_vars
    PROVE  TypeOK'
<1> USE SlotsAssumption DEF TypeOK, HandlerSteps, Goto, database, jobs
<1>1. ASSUME NEW s \in Subs, NEW r \in Requests, Submit(s, r) PROVE TypeOK'
  BY <1>1 DEF Submit
<1>2. ASSUME NEW s \in Subs, HandlerStep(s) PROVE TypeOK'
  <2>1. CASE create_submission(s)
    BY <2>1 DEF create_submission, Statuses
  <2>2. CASE Send(s)
    BY <2>2 DEF Send
  <2>3. CASE EmitStarted(s)
    BY <2>3 DEF EmitStarted, Room, Emit
  <2> QED
    BY <1>2, <2>1, <2>2, <2>3 DEF HandlerStep
<1>3. ASSUME NEW s \in Subs, ClientReads(s) PROVE TypeOK'
  BY <1>3 DEF ClientReads
<1>4. ASSUME NEW s \in Subs, ClientLeaves(s) PROVE TypeOK'
  BY <1>4 DEF ClientLeaves, At, Statuses
<1>5. CASE WorkerStep
  <2> USE DEF Working, Sub, WorkerSteps
  <2>1. ASSUME NEW s \in Subs, Pick(s) PROVE TypeOK'
    BY <2>1 DEF Pick, Works
  <2>2. ASSUME NEW s \in Subs, CleanOrphan(s) PROVE TypeOK'
    BY <2>2 DEF CleanOrphan, Without, Works
  <2>3. CASE mark_building
    <3>1. worker' \in Works
      BY <2>3, StepType DEF mark_building
    <3>2. status' \in [Subs -> Statuses]
      BY <2>3 DEF mark_building, Works, Statuses
    <3> QED
      BY <2>3, <3>1, <3>2 DEF mark_building
  <2>4. CASE BuildLog
    BY <2>4, StepType DEF BuildLog, Room, Emit, Works
  <2>5. CASE BuildDone
    BY <2>5, StepType DEF BuildDone, Works
  <2>6. CASE BuildFails
    BY <2>6, StepType DEF BuildFails, Building, Works
  <2>7. CASE mark_succeeded_and_assign_slot
    <3>1. worker' \in Works /\ worker.sub \in Subs
      BY <2>7, StepType DEF mark_succeeded_and_assign_slot, Works
    <3>2. status' \in [Subs -> Statuses] /\ image' \subseteq Subs
      BY <2>7, <3>1 DEF mark_succeeded_and_assign_slot, Statuses
    <3>3. slots' \in [Teams -> [SlotIds -> Subs \cup {Nil}]]
      <4>1. CASE UNCHANGED slots
        BY <4>1
      <4>2. CASE slots' = [slots EXCEPT ![request[Sub].team][request[Sub].slot] = Sub]
        <5>1. Sub \in Subs \cup {Nil}
          BY <3>1
        <5> HIDE DEF Sub
        <5> QED
          BY <4>2, <5>1, AssignType
      <4> QED
        BY <2>7, <4>1, <4>2 DEF mark_succeeded_and_assign_slot
    <3> QED
      BY <2>7, <3>1, <3>2, <3>3 DEF mark_succeeded_and_assign_slot
  <2>8. CASE Notify
    BY <2>8, StepType DEF Notify, Streams
  <2>9. CASE ListOrphans
    <3>1. worker' \in Works
      BY <2>9, StepType, ListType DEF ListOrphans
    <3> QED
      BY <2>9, <3>1 DEF ListOrphans
  <2>10. CASE CleanDone
    BY <2>10, StepType DEF CleanDone
  <2>11. CASE FailLog
    BY <2>11, StepType DEF FailLog, Room, Emit, Works
  <2>12. CASE mark_failed
    <3>1. worker' \in Works /\ worker.sub \in Subs
      BY <2>12, StepType DEF mark_failed, Works
    <3> QED
      BY <2>12, <3>1 DEF mark_failed, Statuses
  <2>13. CASE EmitFinished
    BY <2>13 DEF EmitFinished, Room, Emit, Works
  <2> QED
    BY <1>5, <2>1, <2>2, <2>3, <2>4, <2>5, <2>6, <2>7, <2>8, <2>9, <2>10, <2>11,
       <2>12, <2>13 DEF WorkerStep
<1>6. ASSUME NEW t \in Teams, Subscribe(t) \/ emit_slots_snapshot(t) \/ StreamEnds(t)
      PROVE  TypeOK'
  <2>1. Empty \in [SlotIds -> Subs \cup {Nil}] /\ Filled(t) \in [SlotIds -> Subs \cup {Nil}]
    BY DEF Empty, Filled
  <2>2. ASSUME NEW v \in Streams \cup {Nil}, stream' = [stream EXCEPT ![t] = v]
        PROVE  stream' \in [Teams -> Streams \cup {Nil}]
    BY <2>2
  <2>3. /\ [pending |-> TRUE, view |-> Empty] \in Streams
        /\ [pending |-> FALSE, view |-> Filled(t)] \in Streams
    BY <2>1 DEF Streams
  <2>4. stream' \in [Teams -> Streams \cup {Nil}]
    BY <1>6, <2>2, <2>3 DEF Subscribe, emit_slots_snapshot, StreamEnds
  <2> QED
    BY <1>6, <2>4 DEF Subscribe, emit_slots_snapshot, StreamEnds
<1>7. CASE Crash
  BY <1>7 DEF Crash
<1>8. CASE UNCHANGED vars
  BY <1>8 DEF vars
<1> QED
  BY <1>1, <1>2, <1>3, <1>4, <1>5, <1>6, <1>7, <1>8 DEF Next

-----------------------------------------------------------------------------
(* The invariant. *)

\* VisibleSlotKept, before and after a step, by what it asks of each submission.
LEMMA VisibleUsable ==
    /\ VisibleSlotKept <=> \A t \in Teams, k \in SlotIds :
                              Filled(t)[k] # Nil => Usable(Filled(t)[k])
    /\ VisibleSlotKept' <=> \A t \in Teams, k \in SlotIds : \A x :
                              x = Filled(t)'[k] /\ x # Nil => Usable(x)'
BY DEF VisibleSlotKept, Usable, SameImage

\* A step that changes neither the rows, the files, the images nor the jobs keeps
\* the invariant: a worker may leave a step for one of which nothing is known.
LEMMA QuietStep ==
    ASSUME Inv, TypeOK',
           UNCHANGED <<request, status, image, slots, archived, tags, queue, sent, ticket>>,
           \A s \in Subs : \/ handler'[s] = handler[s]
                           \/ handler[s] # "idle" /\ handler'[s] \in {"streaming", "gone"},
           \/ worker' = worker
           \/ worker' = Nil
           \/ /\ worker # Nil /\ worker' # Nil /\ worker'.sub = worker.sub
              /\ worker'.at \notin {"assign", "clean"}
    PROVE  Inv'
<1> USE SlotsAssumption DEF Inv, TypeOK
<1>1. Begun'
  BY DEF Begun
<1>2. JobsSentOnce'
  BY DEF JobsSentOnce
<1>3. ArchiveKept'
  BY DEF ArchiveKept
<1>4. TakenInOrder'
  BY DEF TakenInOrder
<1>5. WorkerKnows'
  BY DEF WorkerKnows, Slotted
<1>6. SlotsRefer' /\ VisibleSlotKept' /\ SlotHoldsLatest'
  BY DEF SlotsRefer, VisibleSlotKept, SlotHoldsLatest, Filled, SameImage
<1> QED
  BY <1>1, <1>2, <1>3, <1>4, <1>5, <1>6

\* A new request takes nothing from what slots show.
LEMMA SubmitStep ==
    ASSUME Inv, TypeOK', NEW s \in Subs, NEW r \in Requests, Submit(s, r)
    PROVE  Inv'
<1> USE SlotsAssumption DEF Inv, TypeOK, Submit, Goto, database, jobs
<1>1. Begun'
  BY DEF Begun
<1>2. JobsSentOnce' /\ ArchiveKept' /\ TakenInOrder'
  BY DEF JobsSentOnce, ArchiveKept, TakenInOrder
<1>3. WorkerKnows' /\ SlotsRefer'
  BY DEF WorkerKnows, SlotsRefer, Slotted
<1>4. request[s] = Nil /\ status[s] = "none"
  BY DEF Begun
<1>5. \A o \in Subs : request[o] # Nil => request'[o] = request[o]
  BY <1>4
<1>6. VisibleSlotKept'
  <2>1. ASSUME NEW x \in Subs, request[x] # Nil, Usable(x) PROVE Usable(x)'
    <3>1. \A o \in Subs : request[o] # Nil /\ SameImage(x, o)
                           => request'[o] # Nil /\ SameImage(x, o)'
      BY <1>5, <2>1 DEF SameImage
    <3> QED
      BY <2>1, <3>1 DEF Usable
  <2>2. \A t \in Teams : Filled(t)' = Filled(t)
    BY DEF Filled
  <2>3. \A t \in Teams, k \in SlotIds :
            Filled(t)[k] # Nil => Filled(t)[k] \in Subs /\ request[Filled(t)[k]] # Nil
    BY DEF Filled, SlotsRefer
  <2> QED
    BY <2>1, <2>2, <2>3, VisibleUsable
<1>7. SlotHoldsLatest'
  BY <1>4 DEF SlotHoldsLatest
<1> QED
  BY <1>1, <1>2, <1>3, <1>6, <1>7

\* Only rows without a job are made, so no slot and no job is touched.
LEMMA CallStep ==
    ASSUME Inv, TypeOK', NEW s \in Subs, create_submission(s) \/ ClientLeaves(s)
    PROVE  Inv'
<1> USE SlotsAssumption DEF Inv, TypeOK, create_submission, ClientLeaves, Goto, At, jobs
<1>1. Begun'
  BY DEF Begun
<1>2. JobsSentOnce'
  BY DEF JobsSentOnce, Begun
<1>3. ArchiveKept'
  BY DEF ArchiveKept
<1>4. \A o \in Subs : (status'[o] = "succeeded") <=> (status[o] = "succeeded")
  BY DEF Begun
<1>5. TakenInOrder'
  BY <1>4 DEF TakenInOrder
<1>6. UNCHANGED <<request, image, slots, archived, tags, queue, sent, ticket, worker>>
  OBVIOUS
<1>7. WorkerKnows'
  <2>1. \A o \in Subs : Slotted(o)' <=> Slotted(o)
    BY <1>6 DEF Slotted
  <2> QED
    BY <1>4, <1>6, <2>1 DEF WorkerKnows, Works
<1>8. SlotsRefer' /\ SlotHoldsLatest'
  BY <1>4, <1>6 DEF SlotsRefer, SlotHoldsLatest
<1>9. VisibleSlotKept'
  <2>1. \A t \in Teams : Filled(t)' = Filled(t)
    BY <1>4, <1>6 DEF Filled
  <2> QED
    BY <1>6, <2>1 DEF VisibleSlotKept, SameImage
<1> QED
  BY <1>1, <1>2, <1>3, <1>5, <1>7, <1>8, <1>9

\* A job joins the queue behind all others.
LEMMA SendStep ==
    ASSUME Inv, TypeOK', NEW s \in Subs, Send(s)
    PROVE  Inv'
BY SlotsAssumption
   DEF Inv, TypeOK, Works, Send, Goto, database, Begun, JobsSentOnce, ArchiveKept,
       TakenInOrder, WorkerKnows, SlotsRefer, VisibleSlotKept, SlotHoldsLatest,
       Filled, SameImage, Slotted

\* The worker takes the earliest job.
LEMMA PickStep ==
    ASSUME Inv, TypeOK', NEW s \in Subs, Pick(s)
    PROVE  Inv'
BY SlotsAssumption
   DEF Inv, TypeOK, Works, Pick, database, Begun, JobsSentOnce, ArchiveKept,
       TakenInOrder, WorkerKnows, SlotsRefer, VisibleSlotKept, SlotHoldsLatest,
       Filled, SameImage, Slotted

\* Marking the job's own row, as building or as failed, takes nothing from what
\* a slot shows: a slot that stops showing the row needs nothing of it.
LEMMA MarkStep ==
    ASSUME Inv, TypeOK', mark_building \/ mark_failed
    PROVE  Inv'
<1> USE SlotsAssumption DEF Inv, TypeOK, Sub, jobs
<1>1. /\ worker \in Works /\ worker.sub \in Subs /\ worker # Nil
      /\ worker' \in Works /\ worker'.sub = worker.sub
      /\ worker'.at \in {"context", "fail", "finish"}
  BY StepType DEF mark_building, mark_failed, Working, Works, WorkerSteps
<1>2. /\ \A o \in Subs : status'[o] = "succeeded" => status[o] = "succeeded"
      /\ \A o \in Subs : status'[o] = status[o] \/ o = worker.sub
      /\ UNCHANGED <<request, handler, image, slots, archived, tags, queue, sent, ticket>>
  BY <1>1 DEF mark_building, mark_failed
<1>3. Begun' /\ JobsSentOnce'
  BY <1>1, <1>2 DEF Begun, JobsSentOnce
<1>4. ArchiveKept' /\ TakenInOrder'
  BY <1>1, <1>2 DEF ArchiveKept, TakenInOrder
<1>5. WorkerKnows' /\ SlotsRefer'
  BY <1>1, <1>2 DEF WorkerKnows, SlotsRefer
<1>6. \A t \in Teams, k \in SlotIds : Filled(t)'[k] # Nil => Filled(t)'[k] = Filled(t)[k]
  BY <1>2 DEF Filled
<1>7. VisibleSlotKept'
  <2>1. \A x \in Subs : Usable(x) => Usable(x)'
    BY <1>2 DEF Usable, SameImage
  <2>2. \A t \in Teams, k \in SlotIds : Filled(t)[k] \in Subs \cup {Nil}
    BY DEF Filled
  <2>3. ASSUME NEW t \in Teams, NEW k \in SlotIds, NEW x, x = Filled(t)'[k], x # Nil
        PROVE  Usable(x)'
    <3>1. x = Filled(t)[k] /\ x \in Subs
      BY <1>6, <2>2, <2>3
    <3>2. Usable(x)
      BY <2>3, <3>1, VisibleUsable
    <3> QED
      BY <2>1, <3>1, <3>2
  <2> QED
    BY <2>3, VisibleUsable
<1>8. SlotHoldsLatest'
  BY <1>2 DEF SlotHoldsLatest
<1> QED
  BY <1>3, <1>4, <1>5, <1>7, <1>8

\* A push, finished or not, only adds the job's own tag.
LEMMA PushStep ==
    ASSUME Inv, TypeOK', BuildDone \/ BuildFails
    PROVE  Inv'
<1> USE SlotsAssumption DEF Inv, TypeOK, Sub, database, jobs
<1>1. /\ worker \in Works /\ worker.sub \in Subs /\ worker # Nil
      /\ worker' \in Works /\ worker'.sub = worker.sub
      /\ worker'.at # "clean"
      /\ worker'.at = "assign" => worker.sub \in tags'
  BY StepType DEF BuildDone, BuildFails, Working, Works, WorkerSteps
<1>2. /\ tags \subseteq tags'
      /\ UNCHANGED <<request, handler, status, image, slots, archived, queue, sent, ticket>>
  BY DEF BuildDone, BuildFails
<1>3. Begun' /\ JobsSentOnce' /\ ArchiveKept' /\ TakenInOrder'
  BY <1>1, <1>2 DEF Begun, JobsSentOnce, ArchiveKept, TakenInOrder
<1>4. WorkerKnows' /\ SlotsRefer'
  BY <1>1, <1>2 DEF WorkerKnows, SlotsRefer
<1>5. VisibleSlotKept' /\ SlotHoldsLatest'
  BY <1>2 DEF VisibleSlotKept, SlotHoldsLatest, Filled, SameImage
<1> QED
  BY <1>3, <1>4, <1>5

\* The transaction puts the newest build, pushed and archived, into its slot.
LEMMA AssignStep ==
    ASSUME Inv, TypeOK', mark_succeeded_and_assign_slot
    PROVE  Inv'
<1> USE SlotsAssumption DEF Inv, TypeOK, Sub, jobs
<1> DEFINE s == worker.sub
           r == request[s]
<1>1. /\ worker \in Works /\ s \in Subs /\ worker # Nil
      /\ worker' \in Works /\ worker'.sub = s
      /\ worker'.at \in {"notify", "fail"}
      /\ worker.at = "assign"
  BY StepType DEF mark_succeeded_and_assign_slot, Working, Works, WorkerSteps
<1>2. r \in Requests /\ r.team \in Teams /\ r.slot \in SlotIds
  BY <1>1 DEF WorkerKnows
<1>3. UNCHANGED <<request, handler, archived, tags, queue, sent, ticket>>
  BY DEF mark_succeeded_and_assign_slot
<1>4. CASE UNCHANGED <<status, image, slots>>
  <2>1. Begun' /\ JobsSentOnce' /\ ArchiveKept' /\ TakenInOrder'
    BY <1>1, <1>3, <1>4 DEF Begun, JobsSentOnce, ArchiveKept, TakenInOrder
  <2>2. WorkerKnows' /\ SlotsRefer' /\ VisibleSlotKept' /\ SlotHoldsLatest'
    BY <1>1, <1>3, <1>4 DEF WorkerKnows, SlotsRefer, VisibleSlotKept, SlotHoldsLatest,
                            Filled, SameImage
  <2> QED
    BY <2>1, <2>2
<1>5. CASE /\ status' = [status EXCEPT ![s] = "succeeded"]
           /\ image' = image \cup {s}
           /\ slots' = [slots EXCEPT ![r.team][r.slot] = s]
  <2>1. \A t \in Teams, k \in SlotIds :
            slots'[t][k] = IF t = r.team /\ k = r.slot THEN s ELSE slots[t][k]
    BY <1>1, <1>2, <1>5
  <2>2. \A o \in Subs : status'[o] = IF o = s THEN "succeeded" ELSE status[o]
    BY <1>1, <1>5
  <2>3. Begun' /\ JobsSentOnce'
    BY <1>1, <1>3, <2>2 DEF Begun, JobsSentOnce
  <2>4. ArchiveKept'
    BY <1>1, <1>3 DEF ArchiveKept
  <2>5. TakenInOrder'
    <3>1. \A o \in Subs : status'[o] = "succeeded" => ticket[o] <= ticket[s]
      BY <1>1, <2>2 DEF TakenInOrder
    <3>2. \A q \in queue : ticket[s] <= ticket[q]
      BY <1>1 DEF TakenInOrder
    <3>3. \A q \in queue, o \in Subs : status'[o] = "succeeded" => ticket[o] <= ticket[q]
      BY <1>1, <2>2, <3>2 DEF TakenInOrder
    <3> QED
      BY <1>1, <1>3, <3>1, <3>2, <3>3 DEF TakenInOrder
  <2>6. WorkerKnows' /\ SlotsRefer'
    <3>1. request'[s] # Nil /\ request[s] # Nil
      BY <1>1, <1>3 DEF WorkerKnows
    <3>2. WorkerKnows'
      BY <1>1, <3>1 DEF WorkerKnows
    <3>3. ASSUME NEW t \in Teams, NEW k \in SlotIds, slots'[t][k] # Nil
          PROVE  request'[slots'[t][k]] # Nil
      <4>1. CASE slots'[t][k] = s
        BY <3>1, <4>1
      <4>2. CASE slots'[t][k] = slots[t][k]
        BY <1>3, <3>3, <4>2 DEF SlotsRefer
      <4> QED
        BY <2>1, <4>1, <4>2
    <3> QED
      BY <3>2, <3>3 DEF SlotsRefer
  <2>7. VisibleSlotKept'
    <3> SUFFICES ASSUME NEW t \in Teams, NEW k \in SlotIds, Filled(t)'[k] # Nil
                 PROVE  /\ Filled(t)'[k] \in image' /\ Filled(t)'[k] \in archived
                        /\ \/ Filled(t)'[k] \in tags
                           \/ \E o \in Subs \ {Filled(t)'[k]} :
                                  request[o] # Nil /\ SameImage(Filled(t)'[k], o)
      BY <1>3 DEF VisibleSlotKept, SameImage
    <3>1. CASE Filled(t)'[k] = s
      BY <1>1, <1>5, <3>1 DEF ArchiveKept, WorkerKnows
    <3>2. CASE Filled(t)'[k] # s
      <4>1. Filled(t)'[k] = Filled(t)[k]
        BY <2>1, <2>2, <3>2 DEF Filled
      <4> QED
        BY <1>5, <4>1 DEF VisibleSlotKept
    <3> QED
      BY <3>1, <3>2
  <2>8. SlotHoldsLatest'
    <3> SUFFICES ASSUME NEW t \in Teams, NEW k \in SlotIds, NEW o \in Subs,
                        status'[o] = "succeeded", request[o].team = t, request[o].slot = k
                 PROVE  slots'[t][k] # Nil /\ ticket[o] <= ticket[slots'[t][k]]
      BY <1>3 DEF SlotHoldsLatest
    <3>1. CASE t = r.team /\ k = r.slot
      BY <1>1, <2>1, <2>2, <3>1 DEF TakenInOrder
    <3>2. CASE ~(t = r.team /\ k = r.slot)
      BY <2>1, <2>2, <3>2 DEF SlotHoldsLatest
    <3> QED
      BY <3>1, <3>2
  <2> QED
    BY <2>3, <2>4, <2>5, <2>6, <2>7, <2>8
<1> QED
  BY <1>4, <1>5 DEF mark_succeeded_and_assign_slot, database

\* The list the clean-up works from names rows that no slot refers to.
LEMMA ListStep ==
    ASSUME Inv, TypeOK', ListOrphans
    PROVE  Inv'
<1> USE SlotsAssumption DEF Inv, TypeOK, Sub
<1>1. worker \in Works /\ worker.sub \in Subs /\ worker # Nil
  BY DEF ListOrphans, Working, Works
<1>2. UNCHANGED <<request, handler, status, image, slots, archived, tags, queue, sent,
                  ticket>>
  BY DEF ListOrphans, database, jobs
<1>3. CASE Step("finish")
  BY <1>1, <1>2, <1>3, StepType, QuietStep DEF WorkerSteps
<1>4. CASE worker' = [worker EXCEPT !.at = "clean", !.todo = Orphans(Sub)]
  <2>1. /\ worker' \in Works /\ worker'.sub = worker.sub /\ worker'.at = "clean"
        /\ worker'.todo = Orphans(worker.sub)
    BY <1>1, <1>4, ListType
  <2>2. WorkerKnows'
    BY <1>1, <1>2, <2>1 DEF WorkerKnows, Orphans, Slotted
  <2>3. Begun' /\ JobsSentOnce' /\ ArchiveKept' /\ TakenInOrder'
    BY <1>1, <1>2, <2>1 DEF Begun, JobsSentOnce, ArchiveKept, TakenInOrder
  <2>4. SlotsRefer' /\ VisibleSlotKept' /\ SlotHoldsLatest'
    BY <1>2 DEF SlotsRefer, VisibleSlotKept, SlotHoldsLatest, Filled, SameImage
  <2> QED
    BY <2>2, <2>3, <2>4
<1> QED
  BY <1>3, <1>4 DEF ListOrphans

\* Deleting an orphan takes an image only from submissions of the same build, and
\* an archive only from the orphan.
LEMMA CleanStep ==
    ASSUME Inv, TypeOK', NEW o \in Subs, CleanOrphan(o)
    PROVE  Inv'
<1> USE SlotsAssumption DEF Inv, TypeOK
<1>1. /\ worker \in Works /\ worker # Nil /\ worker.at = "clean" /\ o \in worker.todo
      /\ worker' \in Works /\ worker'.sub = worker.sub
      /\ worker'.at = "clean" /\ worker'.todo \subseteq worker.todo
  BY DEF CleanOrphan, Working, Works
<1>2. status[o] = "succeeded" /\ o # worker.sub /\ ~Slotted(o)
  BY <1>1 DEF WorkerKnows
<1>3. UNCHANGED <<request, handler, status, slots, queue, sent, ticket>>
  BY DEF CleanOrphan, jobs
<1>4. /\ image' \subseteq image /\ image \ {o} \subseteq image'
      /\ archived' \subseteq archived /\ archived \ {o} \subseteq archived'
      /\ tags' \subseteq tags
      /\ \A x \in tags : x \in tags' \/ SameImage(x, o)
  BY DEF CleanOrphan, Without
<1>5. Begun' /\ JobsSentOnce'
  BY <1>1, <1>3 DEF Begun, JobsSentOnce
<1>6. ArchiveKept'
  BY <1>1, <1>2, <1>3, <1>4 DEF ArchiveKept, Begun, JobsSentOnce
<1>7. TakenInOrder'
  BY <1>1, <1>3 DEF TakenInOrder
<1>8. WorkerKnows'
  BY <1>1, <1>3 DEF WorkerKnows, Slotted, Works
<1>9. SlotsRefer' /\ SlotHoldsLatest'
  BY <1>3 DEF SlotsRefer, SlotHoldsLatest
<1>10. VisibleSlotKept'
  <2> SUFFICES ASSUME NEW t \in Teams, NEW k \in SlotIds, Filled(t)[k] # Nil
               PROVE  /\ Filled(t)[k] \in image' /\ Filled(t)[k] \in archived'
                      /\ \/ Filled(t)[k] \in tags'
                         \/ \E x \in Subs \ {Filled(t)[k]} :
                                request[x] # Nil /\ SameImage(Filled(t)[k], x)
    BY <1>3 DEF VisibleSlotKept, Filled, SameImage
  <2>1. Filled(t)[k] # o
    BY <1>2 DEF Filled, Slotted
  <2>2. request[o] # Nil
    BY <1>2 DEF Begun
  <2> QED
    BY <1>4, <2>1, <2>2 DEF VisibleSlotKept
<1> QED
  BY <1>5, <1>6, <1>7, <1>8, <1>9, <1>10

\* A crash takes the calls, the queue and the worker; what a slot shows is on disk,
\* in the registry and in the database.
LEMMA CrashStep ==
    ASSUME Inv, TypeOK', Crash
    PROVE  Inv'
BY SlotsAssumption
   DEF Inv, TypeOK, Works, Crash, database, jobs, Begun, JobsSentOnce, ArchiveKept,
       TakenInOrder, WorkerKnows, SlotsRefer, VisibleSlotKept, SlotHoldsLatest,
       Filled, SameImage, Slotted

\* Nothing is submitted at the start.
LEMMA InitInv == Init => Inv
BY SlotsAssumption
   DEF Init, Empty, Inv, TypeOK, HandlerSteps, Statuses, Begun, JobsSentOnce, ArchiveKept,
       TakenInOrder, WorkerKnows, SlotsRefer, VisibleSlotKept, SlotHoldsLatest, Filled

\* Every step of calls, worker, streams and of a crash keeps the invariant.
LEMMA StepInv == Inv /\ [Next]_vars => Inv'
<1> SUFFICES ASSUME Inv, [Next]_vars PROVE Inv'
  OBVIOUS
<1> USE DEF database, jobs
<1>1. TypeOK /\ TypeOK'
  BY TypeStep DEF Inv
<1>2. ASSUME NEW s \in Subs, NEW r \in Requests, Submit(s, r) PROVE Inv'
  BY <1>1, <1>2, SubmitStep
<1>3. ASSUME NEW s \in Subs, create_submission(s) \/ ClientLeaves(s) PROVE Inv'
  BY <1>1, <1>3, CallStep
<1>4. ASSUME NEW s \in Subs, Send(s) PROVE Inv'
  BY <1>1, <1>4, SendStep
<1>5. ASSUME NEW s \in Subs, EmitStarted(s) \/ ClientReads(s) PROVE Inv'
  BY <1>1, <1>5, QuietStep DEF EmitStarted, ClientReads, Goto, TypeOK
<1>6. ASSUME NEW s \in Subs, Pick(s) PROVE Inv'
  BY <1>1, <1>6, PickStep
<1>7. ASSUME NEW s \in Subs, CleanOrphan(s) PROVE Inv'
  BY <1>1, <1>7, CleanStep
<1>8. CASE mark_building \/ mark_failed
  BY <1>1, <1>8, MarkStep
<1>9. CASE BuildDone \/ BuildFails
  BY <1>1, <1>9, PushStep
<1>10. CASE mark_succeeded_and_assign_slot
  BY <1>1, <1>10, AssignStep
<1>11. CASE ListOrphans
  BY <1>1, <1>11, ListStep
<1>12. CASE BuildLog \/ Notify \/ CleanDone \/ FailLog
  <2>1. /\ worker \in Works /\ worker # Nil
        /\ worker' \in Works /\ worker'.sub = worker.sub
        /\ worker'.at \notin {"assign", "clean"}
    BY <1>1, <1>12, StepType
       DEF BuildLog, Notify, CleanDone, FailLog, Working, TypeOK, WorkerSteps
  <2> QED
    BY <1>1, <1>12, <2>1, QuietStep DEF BuildLog, Notify, CleanDone, FailLog
<1>13. CASE EmitFinished
  BY <1>1, <1>13, QuietStep DEF EmitFinished
<1>14. ASSUME NEW t \in Teams, Subscribe(t) \/ emit_slots_snapshot(t) \/ StreamEnds(t)
       PROVE  Inv'
  BY <1>1, <1>14, QuietStep DEF Subscribe, emit_slots_snapshot, StreamEnds
<1>15. CASE Crash
  BY <1>1, <1>15, CrashStep
<1>16. CASE UNCHANGED vars
  BY <1>1, <1>16, QuietStep DEF vars
<1> QED
  BY <1>2, <1>3, <1>4, <1>5, <1>6, <1>7, <1>8, <1>9, <1>10, <1>11, <1>12, <1>13, <1>14,
     <1>15, <1>16 DEF Next, HandlerStep, WorkerStep

-----------------------------------------------------------------------------
(* The theorems. *)

\* The invariant holds at every moment.
THEOREM Invariance == Spec => []Inv
BY InitInv, StepInv, PTL DEF Spec

\* At every moment what a team's slots show is usable and the newest build: no
\* clean-up, failed commit, late push, dropped call or crash takes the image
\* reference or the archive of a visible submission, and no slower build replaces
\* a newer one (process_submission_job, cleanup_orphaned_team_submissions).
THEOREM SlotsSound == Spec => []SlotsAreSound
<1>1. Inv => SlotsAreSound
  BY DEF Inv, SlotsAreSound
<1> QED
  BY <1>1, Invariance, PTL

=============================================================================
