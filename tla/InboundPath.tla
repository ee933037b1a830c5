---------------------------- MODULE InboundPath ----------------------------
(***************************************************************************)
(* The State Path of a node, core/hyper/src/lifecycle/node.rs: the mailbox *)
(* loop takes batches from the durable mailbox, admits each record         *)
(* (ACL, dedup, scheduler), and a continuation per record sends the reply  *)
(* and acks the row; the stop coordinator quiesces batches, drains the     *)
(* scheduler, and runs on_stop; the process may crash and restart, keeping *)
(* only the two SQLite tables.                                             *)
(*                                                                         *)
(* Composition: the table is Mailbox, the scheduler is KeyedDispatch, the  *)
(* promise that DispatchScheduler is proved to keep.  The dedup entries    *)
(* follow Dedup with time abstracted: a completed entry may expire, and a  *)
(* waiting duplicate may give up, at any moment.                           *)
(***************************************************************************)
EXTENDS Mailbox

CONSTANTS
    Id,             \* request_ids
    Key,            \* conflict keys
    Serial,         \* ConflictKey::Serial
    Budget,         \* scheduler budget C
    QueueCap,       \* scheduler queue capacity M
    InflightCap,    \* MAILBOX_INFLIGHT_CAP
    Kinds,          \* which kinds of payload arrive
    SchedulerOn,    \* values of scheduler_on to explore
    AbortsOn,       \* whether shutdown may exceed its 5 s limit
    MaxRestarts     \* bound: process restarts

ASSUME InboundAssumption ==
    /\ {Budget, QueueCap, InflightCap} \subseteq Nat \ {0}
    /\ Kinds \subseteq {"request", "tell", "invalid", "poison"}
    /\ SchedulerOn \subseteq BOOLEAN
    /\ AbortsOn \in BOOLEAN
    /\ MaxRestarts \in Nat

VARIABLES
    kindOf, idOf, keyOf,    \* the envelope of each message
    scheduler_on,   \* dispatch_scheduler.is_some()
    dlq,            \* dead letter table
    lostPoison,     \* history: poison whose DLQ write failed
    loop,           \* where the mailbox loop is
    batch,          \* rest of the batch it is working on
    cont,           \* continuation of each message
    result,         \* what the continuation has resolved to
    entries,        \* dedup entry of each request_id
    job, before, closed, torn,  \* the scheduler (KeyedDispatch)
    ran,            \* history: handler run of each message
    replied,        \* history: messages answered
    token,          \* shutdown token cancelled
    gate,           \* MailboxBatchAdmission
    stop,           \* where the stop coordinator is
    runner,         \* the actor runner
    forced,         \* history: a task was aborted by the 5 s limit
    restarts        \* restarts so far

envelopeVars == <<kindOf, idOf, keyOf, scheduler_on>>
dlqVars == <<dlq, lostPoison>>
contVars == <<cont, result, entries, replied>>
jobVars == <<job, before, closed, torn>>
stopVars == <<token, gate, stop, runner, forced, restarts>>
vars == <<tableVars, envelopeVars, dlqVars, loop, batch, contVars, jobVars, ran, stopVars>>

\* What the loop leaves alone while it moves, and the coordinator while it does.
allButLoop == <<tableVars, envelopeVars, dlqVars, contVars, jobVars, ran, stopVars>>
allButStop == <<tableVars, envelopeVars, dlqVars, loop, batch, contVars, jobVars, ran, restarts>>

Dispatcher == INSTANCE KeyedDispatch WITH Job <- Message, stage <- job

Dispatchable(m) == kindOf[m] \in {"request", "tell"}

\* Retries carry the envelope of the original.
Envelopes ==
    /\ kindOf \in [Message -> Kinds]
    /\ idOf \in [Message -> Id]
    /\ keyOf \in [Message -> Key]
    /\ \A m, n \in Message : idOf[m] = idOf[n] => kindOf[m] = kindOf[n] /\ keyOf[m] = keyOf[n]

NoEntry == [state |-> "none", value |-> "none"]

Init ==
    /\ TableInit
    /\ Envelopes
    /\ scheduler_on \in SchedulerOn
    /\ dlq = {} /\ lostPoison = {}
    /\ loop = "select" /\ batch = <<>>
    /\ cont = [m \in Message |-> "none"] /\ entries = [i \in Id |-> NoEntry]
    /\ job = [m \in Message |-> "out"] /\ before = {} /\ closed = FALSE /\ torn = FALSE
    /\ token = FALSE /\ gate = "open" /\ stop = "idle" /\ runner = "up"
    /\ result = [m \in Message |-> "none"]
    /\ ran = [m \in Message |-> "no"]
    /\ replied = {}
    /\ forced = FALSE
    /\ restarts = 0

-----------------------------------------------------------------------------
(* Arrival: the receive tasks of the gates enqueue. *)

Enqueue(m) ==
    /\ Insert(m)
    /\ UNCHANGED <<envelopeVars, dlqVars, loop, batch, contVars, jobVars, ran, stopVars>>

-----------------------------------------------------------------------------
(* The mailbox loop *)

\* Continuations make progress only while the loop sits in its select or
\* drains after it: FuturesUnordered is polled nowhere else.
Polling == loop \in {"select", "enter", "drain"}

Unresolved == {m \in Message : cont[m] # "none"}

Holding == loop \notin {"select", "enter", "sleep", "drain", "done", "aborted"}

\* Mutant: while it waits for the gate the loop hears neither of the signals.
LoopBreak_Deaf ==
    /\ loop = "select"
    /\ token
    /\ loop' = "drain"
    /\ UNCHANGED <<allButLoop, batch>>

\* The select is biased: a cancelled token wins whenever it is polled.
LoopBreak ==
    /\ loop \in {"select", "enter"}
    /\ token \/ (loop = "enter" /\ gate = "closed")
    /\ loop' = "drain"
    /\ UNCHANGED <<allButLoop, batch>>

\* The token was not cancelled when polled; enter().await begins.
LoopPoll ==
    /\ loop = "select"
    /\ ~token
    /\ Cardinality(Unresolved) < InflightCap
    /\ loop' = "enter"
    /\ UNCHANGED <<allButLoop, batch>>

\* enter: the fair RwLock lets no reader overtake a waiting close.
GateOpen == gate = "open"

\* enter succeeded, and dequeue marked a batch Inflight.
LoopDequeue ==
    /\ loop = "enter"
    /\ GateOpen
    /\ \E s \in Batches :
          /\ s # <<>>
          /\ Take(s)
          /\ batch' = s
    /\ loop' = "batch"
    /\ UNCHANGED <<envelopeVars, dlqVars, contVars, jobVars, ran, stopVars>>

\* Nothing queued, or dequeue failed: the guard is dropped before the sleep.
LoopIdle ==
    /\ loop = "enter"
    /\ GateOpen
    /\ loop' = "sleep"
    /\ UNCHANGED <<allButLoop, batch>>

LoopWake ==
    /\ loop = "sleep"
    /\ loop' = "select"
    /\ UNCHANGED <<allButLoop, batch>>

\* The batch is through: drop the guard.
LoopBatchDone ==
    /\ loop = "batch"
    /\ batch = <<>>
    /\ loop' = "select"
    /\ UNCHANGED <<allButLoop, batch>>

\* Undecodable: to the dead letter queue, which may fail, ...
LoopPoison(stored) ==
    /\ loop = "batch"
    /\ batch # <<>>
    /\ kindOf[Head(batch)] = "poison"
    /\ IF stored
       THEN dlq' = dlq \cup {Head(batch)} /\ UNCHANGED lostPoison
       ELSE lostPoison' = lostPoison \cup {Head(batch)} /\ UNCHANGED dlq
    /\ loop' = "drop"
    /\ UNCHANGED <<tableVars, envelopeVars, batch, contVars, jobVars, ran, stopVars>>

\* Not dispatchable: nothing but the ack.
LoopInvalid ==
    /\ loop = "batch"
    /\ batch # <<>>
    /\ kindOf[Head(batch)] = "invalid"
    /\ loop' = "drop"
    /\ UNCHANGED <<allButLoop, batch>>

\* ... and ack, whose failure leaves the row Inflight.
LoopDrop(ok) ==
    /\ loop = "drop"
    /\ IF ok THEN Delete(Head(batch)) ELSE UNCHANGED tableVars
    /\ batch' = Tail(batch)
    /\ loop' = "batch"
    /\ UNCHANGED <<envelopeVars, dlqVars, contVars, jobVars, ran, stopVars>>

-----------------------------------------------------------------------------
(* admit_incoming, run by the loop for the head of the batch *)

\* The continuation exists: the scheduler path goes on with the batch, the
\* inline path awaits it first.
Admitted(m, c, r) ==
    /\ cont' = [cont EXCEPT ![m] = c]
    /\ result' = [result EXCEPT ![m] = r]
    /\ loop' = IF scheduler_on THEN "batch" ELSE "await"
    /\ batch' = Tail(batch)

Admitting(m) == loop = "batch" /\ batch # <<>> /\ m = Head(batch) /\ Dispatchable(m)

AdmitDenied(m) ==
    /\ Admitting(m)
    /\ Admitted(m, "resolved", "denied")
    /\ UNCHANGED <<tableVars, envelopeVars, dlqVars, entries, replied, jobVars, ran, stopVars>>

\* check_or_mark with the outcome InFlight or Duplicate.
AdmitDuplicate(m) ==
    LET e == entries[idOf[m]] IN
    /\ Admitting(m)
    /\ \/ e.state = "InFlight" /\ kindOf[m] = "tell" /\ Admitted(m, "resolved", "dropped")
       \/ e.state = "InFlight" /\ kindOf[m] = "request" /\ Admitted(m, "waiting", "none")
       \/ e.state = "Done" /\ Admitted(m, "resolved", e.value)
    /\ UNCHANGED <<tableVars, envelopeVars, dlqVars, entries, replied, jobVars, ran, stopVars>>

\* check_or_mark with the outcome Fresh; the scheduler may make it wait.
AdmitFresh(m) ==
    /\ Admitting(m)
    /\ entries[idOf[m]].state = "none"
    /\ entries' = [entries EXCEPT ![idOf[m]] = [state |-> "InFlight", value |-> "none"]]
    /\ loop' = "submit"
    /\ UNCHANGED <<tableVars, envelopeVars, dlqVars, batch, cont, result, replied,
                   jobVars, ran, stopVars>>

\* scheduler.submit: a slot of QueueCap, or an immediate refusal when closed.
Submit(m) ==
    /\ loop = "submit"
    /\ m = Head(batch)
    /\ scheduler_on
    /\ IF closed
       THEN /\ Admitted(m, "returned", "terminated")
            /\ UNCHANGED jobVars
       ELSE /\ Cardinality(Dispatcher!Unfinished) < QueueCap
            /\ Dispatcher!Admit(m)
            /\ Admitted(m, "submitted", "none")
    /\ UNCHANGED <<tableVars, envelopeVars, dlqVars, entries, replied, ran, stopVars>>

\* Without a scheduler the continuation calls the runner when it is awaited.
SubmitInline(m) ==
    /\ loop = "submit"
    /\ m = Head(batch)
    /\ ~scheduler_on
    /\ IF runner = "up"
       THEN /\ Admitted(m, "submitted", "none")
            /\ ran' = [ran EXCEPT ![m] = "running"]
       ELSE /\ Admitted(m, "returned", "terminated")
            /\ UNCHANGED ran
    /\ UNCHANGED <<tableVars, envelopeVars, dlqVars, entries, replied, jobVars, stopVars>>

-----------------------------------------------------------------------------
(* Handlers *)

Accept(m) ==
    /\ Dispatcher!Accept(m)
    /\ UNCHANGED <<tableVars, envelopeVars, dlqVars, loop, batch, contVars, ran, stopVars>>

\* The scheduler starts the job, which calls the runner.
Start(m) ==
    /\ Dispatcher!Start(m)
    /\ ran' = [ran EXCEPT ![m] = IF runner = "up" THEN "running" ELSE @]
    /\ UNCHANGED <<tableVars, envelopeVars, dlqVars, loop, batch, contVars, stopVars>>

\* The runner returned; a dropped continuation no longer listens.
Return(m) ==
    /\ IF scheduler_on THEN Dispatcher!Finish(m)
       ELSE cont[m] = "submitted" /\ UNCHANGED jobVars
    /\ IF ran[m] = "running" /\ runner # "aborted"
       THEN /\ ran' = [ran EXCEPT ![m] = "completed"]
            /\ result' = [result EXCEPT ![m] = IF cont[m] = "submitted" THEN "handled" ELSE @]
       ELSE /\ ran' = [ran EXCEPT ![m] = IF @ = "running" THEN "killed" ELSE @]
            /\ result' = [result EXCEPT ![m] = IF cont[m] = "submitted" THEN "terminated" ELSE @]
    /\ cont' = [cont EXCEPT ![m] = IF @ = "submitted" THEN "returned" ELSE @]
    /\ UNCHANGED <<tableVars, envelopeVars, dlqVars, loop, batch, entries, replied, stopVars>>

-----------------------------------------------------------------------------
(* Continuations: finish, reply, ack *)

Driven == Polling \/ loop = "await"

\* Mutant: the completion is cached, the waiting duplicates are not told.
Finish_Silent(m) ==
    /\ Driven
    /\ cont[m] = "returned"
    /\ entries' = [entries EXCEPT ![idOf[m]] = [state |-> "Done", value |-> result[m]]]
    /\ cont' = [cont EXCEPT ![m] = "resolved"]
    /\ UNCHANGED <<tableVars, envelopeVars, dlqVars, loop, batch, result, replied,
                   jobVars, ran, stopVars>>

\* finish: the dedup completion, which resolves the waiting duplicates too.
Finish(m) ==
    LET duplicates == {n \in Message : cont[n] = "waiting" /\ idOf[n] = idOf[m]} IN
    /\ Driven
    /\ cont[m] = "returned"
    /\ entries' = [entries EXCEPT ![idOf[m]] = [state |-> "Done", value |-> result[m]]]
    /\ cont' = [n \in Message |-> IF n = m \/ n \in duplicates THEN "resolved" ELSE cont[n]]
    /\ result' = [n \in Message |-> IF n \in duplicates THEN result[m] ELSE result[n]]
    /\ UNCHANGED <<tableVars, envelopeVars, dlqVars, loop, batch, replied, jobVars, ran, stopVars>>

\* wait_for_inflight_duplicate times out.
GiveUp(m) ==
    /\ Driven
    /\ cont[m] = "waiting"
    /\ cont' = [cont EXCEPT ![m] = "resolved"]
    /\ result' = [result EXCEPT ![m] = "timeout"]
    /\ UNCHANGED <<tableVars, envelopeVars, dlqVars, loop, batch, entries, replied,
                   jobVars, ran, stopVars>>

\* Mutant: entries in flight expire too.
Expire_InFlight(i) ==
    /\ entries[i].state # "none"
    /\ entries' = [entries EXCEPT ![i] = NoEntry]
    /\ UNCHANGED <<tableVars, envelopeVars, dlqVars, loop, batch, cont, result, replied,
                   jobVars, ran, stopVars>>

\* evict_expired, once the TTL is over.
Expire(i) ==
    /\ entries[i].state = "Done"
    /\ entries' = [entries EXCEPT ![i] = NoEntry]
    /\ UNCHANGED <<tableVars, envelopeVars, dlqVars, loop, batch, cont, result, replied,
                   jobVars, ran, stopVars>>

\* mailbox_reply_and_ack: only a request is answered ...
Reply(m) ==
    /\ Driven
    /\ cont[m] = "resolved"
    /\ cont' = [cont EXCEPT ![m] = "replied"]
    /\ replied' = IF kindOf[m] = "request" THEN replied \cup {m} ELSE replied
    /\ UNCHANGED <<tableVars, envelopeVars, dlqVars, loop, batch, result, entries,
                   jobVars, ran, stopVars>>

\* ... and every row is acked, on errors too; a failed ack is only logged.
Ack(m, ok) ==
    /\ Driven
    /\ cont[m] = "replied"
    /\ IF ok THEN Delete(m) ELSE UNCHANGED tableVars
    /\ cont' = [cont EXCEPT ![m] = "none"]
    /\ loop' = IF loop = "await" THEN "batch" ELSE loop
    /\ UNCHANGED <<envelopeVars, dlqVars, batch, result, entries, replied, jobVars, ran, stopVars>>

LoopDone ==
    /\ loop = "drain"
    /\ Unresolved = {}
    /\ loop' = "done"
    /\ UNCHANGED <<allButLoop, batch>>

-----------------------------------------------------------------------------
(* Shutdown: ActrRef::shutdown, spawn_workload_stop_task, wait_for_shutdown *)

Cancel ==
    /\ ~token
    /\ token' = TRUE
    /\ UNCHANGED <<allButStop, gate, stop, runner, forced>>

\* close().await: queue for the write side ...
StopBegin ==
    /\ token /\ stop = "idle"
    /\ gate' = "closing"
    /\ stop' = "quiesce"
    /\ UNCHANGED <<allButStop, token, runner, forced>>

\* Mutant: the flag is flipped without waiting for the batch.
StopQuiesced_NoWait ==
    /\ stop = "quiesce"
    /\ gate' = "closed"
    /\ stop' = "drain"
    /\ UNCHANGED <<allButStop, token, runner, forced>>

\* ... and get it when no batch is being admitted.
StopQuiesced ==
    /\ stop = "quiesce"
    /\ ~Holding
    /\ gate' = "closed"
    /\ stop' = "drain"
    /\ UNCHANGED <<allButStop, token, runner, forced>>

\* scheduler.shutdown closes the intake ...
StopClose ==
    /\ stop = "drain"
    /\ IF scheduler_on THEN Dispatcher!Close ELSE UNCHANGED jobVars
    /\ stop' = "join"
    /\ UNCHANGED <<tableVars, envelopeVars, dlqVars, loop, batch, contVars, ran,
                   token, gate, runner, forced, restarts>>

\* ... and joins its task; then the runner's intake closes and on_stop runs.
StopIntake ==
    /\ stop = "join"
    /\ Dispatcher!Unfinished = {}
    /\ runner' = "closed"
    /\ stop' = "on_stop"
    /\ UNCHANGED <<allButStop, token, gate, forced>>

StopDone ==
    /\ stop = "on_stop"
    /\ stop' = "stopped"
    /\ UNCHANGED <<allButStop, token, gate, runner, forced>>

\* A task that outlives 5 s is aborted.  The coordinator's abort guard takes
\* the runner with it, and a queued write request is withdrawn.
AbortStop ==
    /\ AbortsOn /\ token /\ stop \notin {"stopped", "aborted"}
    /\ stop' = "aborted"
    /\ runner' = IF stop = "idle" THEN runner ELSE "aborted"
    /\ gate' = IF gate = "closing" THEN "open" ELSE gate
    /\ forced' = TRUE
    /\ UNCHANGED <<allButStop, token>>

\* With the loop go its continuations and the batch guard.
AbortLoop ==
    /\ AbortsOn /\ token /\ loop \notin {"done", "aborted"}
    /\ loop' = "aborted"
    /\ batch' = <<>>
    /\ cont' = [m \in Message |-> "none"]
    /\ ran' = [m \in Message |-> IF ~scheduler_on /\ ran[m] = "running" THEN "killed" ELSE ran[m]]
    /\ forced' = TRUE
    /\ UNCHANGED <<tableVars, envelopeVars, dlqVars, result, entries, replied, jobVars,
                   token, gate, stop, runner, restarts>>

\* The process dies, anywhere, and a new one opens the same database.
Restart ==
    /\ restarts < MaxRestarts
    /\ restarts' = restarts + 1
    /\ loop' = "select" /\ batch' = <<>>
    /\ cont' = [m \in Message |-> "none"] /\ entries' = [i \in Id |-> NoEntry]
    /\ job' = [m \in Message |-> "out"] /\ before' = {} /\ closed' = FALSE /\ torn' = FALSE
    /\ token' = FALSE /\ gate' = "open" /\ stop' = "idle" /\ runner' = "up"
    /\ result' = [m \in Message |-> IF status[m] = "acked" THEN result[m] ELSE "none"]
    /\ ran' = [m \in Message |-> IF ran[m] = "running" THEN "killed" ELSE ran[m]]
    /\ UNCHANGED <<tableVars, envelopeVars, dlqVars, replied, forced>>

-----------------------------------------------------------------------------
AdmitStep ==
    \E m \in Message :
        AdmitDenied(m) \/ AdmitDuplicate(m) \/ AdmitFresh(m) \/ Submit(m) \/ SubmitInline(m)

RecordStep ==
    \/ LoopInvalid
    \/ \E ok \in BOOLEAN : LoopPoison(ok) \/ LoopDrop(ok)
    \/ AdmitStep

LoopStep == LoopBreak \/ LoopPoll \/ LoopWake \/ LoopBatchDone \/ RecordStep \/ LoopDone

JobStep(m) == Accept(m) \/ Start(m) \/ Return(m)

ContStep(m) == Finish(m) \/ Reply(m) \/ \E ok \in BOOLEAN : Ack(m, ok)

StopStep == StopBegin \/ StopQuiesced \/ StopClose \/ StopIntake \/ StopDone

Next ==
    \/ \E m \in Message : Enqueue(m) \/ JobStep(m) \/ ContStep(m) \/ GiveUp(m)
    \/ LoopStep \/ LoopDequeue \/ LoopIdle
    \/ \E i \in Id : Expire(i)
    \/ Cancel \/ StopStep \/ AbortStop \/ AbortLoop
    \/ Restart

Spec == Init /\ [][Next]_vars

\* The executor runs every task, handlers return, and dequeue does not fail
\* for ever.  Continuations are polled in every round of the select, which is
\* not where the loop always is: strong fairness.
FairSpec ==
    /\ Spec
    /\ WF_vars(LoopStep) /\ WF_vars(StopStep) /\ SF_vars(LoopDequeue)
    /\ \A m \in Message : WF_vars(JobStep(m)) /\ SF_vars(ContStep(m))

-----------------------------------------------------------------------------
(* Properties *)

Result == {"none", "handled", "denied", "dropped", "timeout", "terminated"}

EnvelopeTypeOK == Envelopes /\ scheduler_on \in BOOLEAN

LoopTypeOK ==
    /\ dlq \subseteq Message /\ lostPoison \subseteq Message
    /\ loop \in {"select", "enter", "batch", "drop", "submit", "await", "sleep", "drain",
                  "done", "aborted"}
    /\ batch \in Seq(Message)

ContTypeOK ==
    /\ cont \in [Message -> {"none", "submitted", "returned", "waiting", "resolved", "replied"}]
    /\ result \in [Message -> Result]
    /\ entries \in [Id -> [state : {"none", "InFlight", "Done"}, value : Result]]
    /\ replied \subseteq Message

JobTypeOK ==
    /\ job \in [Message -> {"out", "sent", "pending", "running"}]
    /\ before \in SUBSET (Message \X Message)
    /\ closed \in BOOLEAN /\ torn = FALSE
    /\ ran \in [Message -> {"no", "running", "completed", "killed"}]

StopTypeOK ==
    /\ gate \in {"open", "closing", "closed"}
    /\ stop \in {"idle", "quiesce", "drain", "join", "on_stop", "stopped", "aborted"}
    /\ runner \in {"up", "closed", "aborted"}
    /\ token \in BOOLEAN /\ forced \in BOOLEAN
    /\ restarts \in 0..MaxRestarts

TypeOK == TableTypeOK /\ EnvelopeTypeOK /\ LoopTypeOK /\ ContTypeOK /\ JobTypeOK /\ StopTypeOK

\* A row is deleted only for a reason: its handler ran to the end, for this
\* message or for the one it duplicates, it was refused, or it is in the dead
\* letter queue; and a request has been answered before.  In particular a
\* graceful shutdown acks nothing as "terminated" (spawn_workload_stop_task:
\* "the tail would resolve as terminated and be permanently ACKed unhandled").
AckJustified ==
    \A m \in Message : status[m] = "acked" =>
        /\ kindOf[m] = "poison" => m \in dlq \cup lostPoison
        /\ kindOf[m] = "request" => m \in replied
        /\ Dispatchable(m) /\ ~forced => result[m] \in {"handled", "denied", "dropped", "timeout"}
        /\ result[m] = "handled" =>
              \E n \in Message : idOf[n] = idOf[m] /\ ran[n] = "completed"

\* Handlers of one conflict key, or all of them without a scheduler, start in
\* the order in which their messages came in, at equal priority: mailbox,
\* batch, admission and scheduler together lose no order.
HandlersInArrivalOrder ==
    [][\A a, b \in Message :
          /\ ran[a] = "no" /\ ran'[a] = "running"
          /\ keyOf[a] = keyOf[b] \/ ~scheduler_on
          /\ priority[a] = priority[b] /\ created_at[a] < created_at[b]
          => ran[b] = "no"]_vars

\* Of the deliveries of one request, at most one is between its submission and
\* the recording of its result, whatever batch they came in: a retry is never
\* queued behind the original to run a second time (check_or_mark is called
\* before submit, and complete by the continuation).
OneRunPerRequest ==
    LET Open(m) == cont[m] \in {"submitted", "returned"} \/ ran[m] = "running" IN
    \A m, n \in Message : Open(m) /\ Open(n) /\ idOf[m] = idOf[n] => m = n

\* The inductive invariant, in six parts.  A record that was not admitted yet
\* has left no trace, in the table as well as in the rest of the batch.
Idle(m) == cont[m] = "none" /\ job[m] = "out" /\ ran[m] = "no"

BatchExact ==
    /\ \A i, j \in DOMAIN batch : batch[i] = batch[j] => i = j
    /\ \A i \in DOMAIN batch : status[batch[i]] = "Inflight" /\ Idle(batch[i])
    /\ \A m \in Message : status[m] \in {"new", "Queued"} => Idle(m)
    /\ loop \in {"drop", "submit"} => batch # <<>>
    /\ loop = "drop" => ~Dispatchable(Head(batch))
    /\ loop = "submit" => Dispatchable(Head(batch))

\* Continuation, job and handler of a record are where each other's place says.
InPlace(m) ==
    /\ cont[m] # "none" => status[m] = "Inflight" /\ Dispatchable(m)
    /\ cont[m] \notin {"none", "submitted"} => job[m] = "out" /\ ran[m] # "running"
    /\ job[m] # "out" => scheduler_on /\ (cont[m] = "submitted" \/ loop = "aborted")
    /\ job[m] \in {"sent", "pending"} => ran[m] = "no"
    /\ ran[m] = "running" => IF scheduler_on THEN job[m] = "running" ELSE cont[m] = "submitted"

Placed == \A m \in Message : InPlace(m)

\* An entry in flight belongs to one record, from check_or_mark to complete.
Holder(m) ==
    \/ cont[m] \in {"submitted", "returned"}
    \/ job[m] # "out"
    \/ loop = "submit" /\ m = Head(batch)

Marked ==
    /\ \A m \in Message : Holder(m) => entries[idOf[m]].state = "InFlight"
    /\ \A m, n \in Message : Holder(m) /\ Holder(n) /\ idOf[m] = idOf[n] => m = n

\* Results, those of continuations and the cached ones, are true.
Truthful(r, i) ==
    /\ r = "handled" => \E n \in Message : idOf[n] = i /\ ran[n] = "completed"
    /\ forced \/ r \in {"handled", "denied", "dropped", "timeout"}

Reasoned(m) ==
    /\ ~Dispatchable(m) => result[m] = "none"
    /\ status[m] = "acked" \/ (loop = "drop" /\ m = Head(batch)) =>
          (kindOf[m] = "poison" => m \in dlq \cup lostPoison)
    /\ status[m] = "acked" \/ cont[m] = "replied" =>
          (kindOf[m] = "request" => m \in replied)
    /\ (status[m] = "acked" /\ Dispatchable(m)) \/ cont[m] \in {"returned", "resolved", "replied"} =>
          Truthful(result[m], idOf[m])

Justified ==
    /\ \A m \in Message : Reasoned(m)
    /\ \A i \in Id : entries[i].state = "Done" => Truthful(entries[i].value, i)

\* A shutdown that nobody cuts short goes through its stages in order: no batch
\* is under admission once the scheduler is closed, no job is left when the
\* runner closes, and whatever was submitted runs.
Ordered ==
    ~forced =>
        /\ stop \in {"drain", "join", "on_stop", "stopped"} => gate = "closed" /\ ~Holding
        /\ closed => stop \in {"join", "on_stop", "stopped"}
        /\ stop = "aborted" => FALSE
        /\ IF stop \in {"on_stop", "stopped"} THEN runner = "closed" /\ Dispatcher!Unfinished = {}
           ELSE runner = "up"
        /\ \A m \in Message : cont[m] = "submitted" =>
              IF scheduler_on THEN job[m] # "out" /\ (job[m] = "running" => ran[m] = "running")
              ELSE ran[m] = "running"

\* What came in earlier is not behind: neither in the table, nor in the batch,
\* nor in the scheduler.
Earlier(a, b) ==
    /\ status[a] # "new" /\ status[b] # "new"
    /\ priority[a] = priority[b] /\ created_at[a] < created_at[b]

ArrivalOrder ==
    /\ \A m \in Message : created_at[m] <= clock
    /\ \A a, b \in Message : Earlier(a, b) =>
          /\ status[a] = "Queued" => status[b] = "Queued"
          /\ \A i \in DOMAIN batch : batch[i] = a =>
                Idle(b) /\ \A j \in DOMAIN batch : batch[j] = b => i < j
          /\ job[a] \in {"sent", "pending"} /\ keyOf[a] = keyOf[b] =>
                /\ ran[b] = "no"
                /\ job[b] # "out" => job[b] \in {"sent", "pending"} /\ <<a, b>> \in before

AdmissionInv == BatchExact /\ Placed /\ Marked

PathInv == AdmissionInv /\ Justified /\ Ordered /\ ArrivalOrder

Settled(m) ==
    \/ status[m] = "acked"
    \/ /\ status[m] = "Inflight" /\ cont[m] = "none" /\ m \notin Range(batch)
       /\ Dispatchable(m) => result[m] # "none"

\* A stored message is processed as long as the node is not told to stop: the
\* loop, the scheduler and the continuations never wait for each other in a
\* circle.  (A failed ack leaves the row behind, but processed.)
Served ==
    \A m \in Message : status[m] = "Queued" ~> (Settled(m) \/ token)

\* Shutdown ends, whatever was going on when it began.
ShutdownEnds ==
    token ~> (stop \in {"stopped", "aborted"} /\ loop \in {"done", "aborted"})

\* The mailbox is a "durable, at-least-once buffer" that "survives process
\* restarts" (dispatch/mod.rs): Served across a restart.
AtLeastOnce == Served
=============================================================================
