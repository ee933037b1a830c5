-------------------------- MODULE DispatchScheduler --------------------------
(***************************************************************************)
(* The per-key serial, budgeted-concurrent dispatch scheduler of           *)
(* core/hyper/src/dispatch/scheduler.rs: a handle whose `submit` admits    *)
(* jobs under a reader/writer lock and a semaphore of M slots, and one     *)
(* task that moves jobs from the intake channel to per-key queues and      *)
(* starts them under the budget C and the `Serial` barrier.                *)
(*                                                                         *)
(* Submitters, the caller of `shutdown` and the task run on different      *)
(* threads.  The task is sequential: `pc` is the place it has reached.     *)
(* "select" is its only await point, "drain" the try_recv loop of the      *)
(* cancellation branch and "pump" the loop of `pump`; in the last two the  *)
(* task does nothing but finish the loop.                                  *)
(*                                                                         *)
(* `select!` is `biased`, but the token, the channel and the futures may   *)
(* become ready between the polls of two branches, so that a lower branch  *)
(* may win although a higher one is ready by now: any ready branch may be  *)
(* the next one here.                                                      *)
(***************************************************************************)
EXTENDS Integers, Sequences, FiniteSets

CONSTANTS
    Job,        \* the dispatch jobs callers may submit
    Key,        \* conflict keys
    Serial,     \* ConflictKey::Serial, the global barrier key
    AskedBudget,    \* C as passed to spawn
    AskedQueueCap   \* M as passed to spawn

ASSUME SchedulerAssumption ==
    /\ IsFiniteSet(Job)
    /\ Serial \in Key
    /\ AskedBudget \in Nat
    /\ AskedQueueCap \in Nat

\* `spawn` normalises both: C is at least 1, and M at least C.
Budget == IF AskedBudget < 1 THEN 1 ELSE AskedBudget
QueueCap == IF AskedQueueCap < Budget THEN Budget ELSE AskedQueueCap

VARIABLES
    keyOf,      \* the conflict key of each job, fixed when the job is made
    phase,      \* how far each job has come
    before,     \* history: <<i, j>> when i was outstanding as j was sent
    slots,      \* free permits of the semaphore
    shut,       \* progress of `shutdown`
    handle,     \* "live", or "dropped" once SchedulerHandle was dropped
    cancelled,  \* the cancellation token (the semaphore is closed with it)
    intake,     \* the mpsc channel
    intakeOpen, \* the task's local `intake_open`
    queues,     \* pending jobs per key
    ready,      \* round-robin order of the startable scoped keys
    active,     \* keys with a job in flight
    inflight,   \* the jobs in flight
    pc

submitVars == <<keyOf, slots, shut, handle, cancelled>>
taskVars == <<intakeOpen, queues, ready, active, inflight, pc>>
vars == <<keyOf, phase, before, slots, shut, handle, cancelled, intake,
          intakeOpen, queues, ready, active, inflight, pc>>

Phase == {"idle", "waiting", "sending", "sent", "queued", "running",
          "done", "rejected", "dropped"}

\* Jobs between their channel send and their completion.
Outstanding == {j \in Job : phase[j] \in {"sent", "queued", "running"}}

\* Submitters inside `submit`: they hold the read side of `intake_open`.
Readers == {j \in Job : phase[j] \in {"waiting", "sending"}}

\* Jobs whose DispatchJob owns a semaphore permit.
Holders == {j \in Job : phase[j] \in {"sending", "sent", "queued", "running"}}

Init ==
    /\ keyOf \in [Job -> Key]
    /\ phase = [j \in Job |-> "idle"]
    /\ before = {}
    /\ slots = QueueCap
    /\ shut = "no"
    /\ handle = "live"
    /\ cancelled = FALSE
    /\ intake = <<>>
    /\ intakeOpen = TRUE
    /\ queues = [k \in Key |-> <<>>]
    /\ ready = <<>>
    /\ active = {}
    /\ inflight = {}
    /\ pc = "select"

-----------------------------------------------------------------------------
(* SchedulerHandle::submit *)

\* Take the read lock, which a queued writer blocks (tokio's RwLock is
\* write-preferring), check that the scheduler still runs, try for a slot.
SubmitEnter(j) ==
    /\ handle = "live"
    /\ shut # "waiting"
    /\ phase[j] = "idle"
    /\ \/ /\ cancelled
          /\ phase' = [phase EXCEPT ![j] = "rejected"]
          /\ slots' = slots
       \/ /\ ~cancelled
          /\ slots > 0
          /\ phase' = [phase EXCEPT ![j] = "sending"]
          /\ slots' = slots - 1
       \/ /\ ~cancelled
          /\ slots = 0
          /\ phase' = [phase EXCEPT ![j] = "waiting"]
          /\ slots' = slots
    /\ UNCHANGED <<keyOf, before, shut, handle, cancelled, intake, taskVars>>

\* Back-pressure ends: acquire_owned().await returns a permit.
SubmitAcquire(j) ==
    /\ phase[j] = "waiting"
    /\ slots > 0
    /\ phase' = [phase EXCEPT ![j] = "sending"]
    /\ slots' = slots - 1
    /\ UNCHANGED <<keyOf, before, shut, handle, cancelled, intake, taskVars>>

\* Send on the channel (capacity M), then release the read lock.
SubmitSend(j) ==
    /\ phase[j] = "sending"
    /\ Len(intake) < QueueCap
    /\ intake' = Append(intake, j)
    /\ phase' = [phase EXCEPT ![j] = "sent"]
    /\ before' = before \cup (Outstanding \X {j})
    /\ UNCHANGED <<submitVars, taskVars>>

\* The caller has its reply; the same job may be asked for again later.
NextRequest(j) ==
    /\ phase[j] = "done"
    /\ phase' = [phase EXCEPT ![j] = "idle"]
    /\ UNCHANGED <<before, intake, submitVars, taskVars>>

-----------------------------------------------------------------------------
(* SchedulerHandle::shutdown and Drop *)

\* The writer queues for `intake_open`.
ShutdownBegin ==
    /\ handle = "live"
    /\ shut = "no"
    /\ shut' = "waiting"
    /\ UNCHANGED <<keyOf, phase, before, slots, handle, cancelled, intake, taskVars>>

\* Under the write lock: intake_open := false, close the slots, cancel.
ShutdownClose ==
    /\ shut = "waiting"
    /\ Readers = {}
    /\ shut' = "closed"
    /\ cancelled' = TRUE
    /\ UNCHANGED <<keyOf, phase, before, slots, handle, intake, taskVars>>

\* The join returns once the task has exited.
ShutdownJoin ==
    /\ shut = "closed"
    /\ pc = "exited"
    /\ shut' = "joined"
    /\ UNCHANGED <<keyOf, phase, before, slots, handle, cancelled, intake, taskVars>>

\* The last Arc goes away: no `submit` borrows the handle any more, and a
\* `shutdown` that was waiting to join was itself abandoned.
DropHandle ==
    /\ handle = "live"
    /\ shut \in {"no", "closed"}
    /\ Readers = {}
    /\ handle' = "dropped"
    /\ cancelled' = TRUE
    /\ UNCHANGED <<keyOf, phase, before, slots, shut, intake, taskVars>>

-----------------------------------------------------------------------------
(* SchedulerTask *)

\* Mutant: the check for an active key is lost.
BecomesReady_Active(k) == queues[k] = <<>> /\ k # Serial

\* A scoped key that gains its first pending job while it is not active joins
\* the round robin.
BecomesReady(k) == queues[k] = <<>> /\ k # Serial /\ k \notin active

enqueue(j) ==
    LET k == keyOf[j] IN
    /\ queues' = [queues EXCEPT ![k] = Append(@, j)]
    /\ ready' = IF BecomesReady(k) THEN Append(ready, k) ELSE ready
    /\ phase' = [phase EXCEPT ![j] = "queued"]

\* start: pop the key's first job and put it in flight; a key without a
\* pending job starts nothing.
start(k) ==
    LET popped == IF queues[k] = <<>> THEN {} ELSE {Head(queues[k])} IN
    /\ queues' = [queues EXCEPT ![k] = IF @ = <<>> THEN @ ELSE Tail(@)]
    /\ active' = IF popped = {} THEN active ELSE active \cup {k}
    /\ inflight' = inflight \cup popped
    /\ phase' = [j \in Job |-> IF j \in popped THEN "running" ELSE phase[j]]

\* Mutant: the permits of dropped jobs leak.
DropJobs_LeakPermits(S) ==
    /\ phase' = [j \in Job |-> IF j \in S THEN "dropped" ELSE phase[j]]
    /\ before' = {p \in before : p[1] \notin S /\ p[2] \notin S}
    /\ slots' = slots

\* The jobs of S are dropped unrun: their callers see a closed reply channel,
\* their permits go back.
DropJobs(S) ==
    /\ phase' = [j \in Job |-> IF j \in S THEN "dropped" ELSE phase[j]]
    /\ before' = {p \in before : p[1] \notin S /\ p[2] \notin S}
    /\ slots' = slots + Cardinality(S)

\* Branch 2 of run: a job arrives.
Recv ==
    /\ pc = "select"
    /\ intakeOpen
    /\ intake # <<>>
    /\ enqueue(Head(intake))
    /\ intake' = Tail(intake)
    /\ pc' = "pump"
    /\ UNCHANGED <<before, submitVars, intakeOpen, active, inflight>>

\* Branch 2 of run: every sender is gone without ordered shutdown.
RecvNone ==
    /\ pc = "select"
    /\ intakeOpen
    /\ handle = "dropped"
    /\ intake = <<>>
    /\ intakeOpen' = FALSE
    /\ queues' = [k \in Key |-> <<>>]
    /\ ready' = <<>>
    /\ DropJobs({j \in Job : phase[j] = "queued"})
    /\ UNCHANGED <<keyOf, shut, handle, cancelled, intake, active, inflight, pc>>

\* Mutants: the buffered jobs are left behind, or the branch stays enabled.
Cancelled_NoDrain ==
    /\ pc = "select"
    /\ intakeOpen
    /\ cancelled
    /\ intakeOpen' = FALSE
    /\ UNCHANGED <<phase, before, intake, submitVars, queues, ready, active, inflight, pc>>

Cancelled_StaysOpen ==
    /\ pc = "select"
    /\ intakeOpen
    /\ cancelled
    /\ pc' = "drain"
    /\ UNCHANGED <<phase, before, intake, submitVars, intakeOpen, queues, ready,
                   active, inflight>>

\* Branch 1 of run: cancellation closes the channel ...
Cancelled ==
    /\ pc = "select"
    /\ intakeOpen
    /\ cancelled
    /\ intakeOpen' = FALSE
    /\ pc' = "drain"
    /\ UNCHANGED <<phase, before, intake, submitVars, queues, ready, active, inflight>>

\* ... and moves every buffered job to the queues.
Drain ==
    /\ pc = "drain"
    /\ intake # <<>>
    /\ enqueue(Head(intake))
    /\ intake' = Tail(intake)
    /\ UNCHANGED <<before, submitVars, intakeOpen, active, inflight, pc>>

DrainEnd ==
    /\ pc = "drain"
    /\ intake = <<>>
    /\ pc' = "pump"
    /\ UNCHANGED <<phase, before, intake, submitVars, intakeOpen, queues, ready,
                   active, inflight>>

\* Mutant: the barrier forgets the Serial job that is pending.
Barrier_ActiveOnly == Serial \in active

\* No scoped job starts while a Serial job is in flight or pending.
Barrier == Serial \in active \/ queues[Serial] # <<>>

HasBudget == Cardinality(inflight) < Budget

\* pump: a pending Serial job starts only when nothing is in flight ...
PumpSerial ==
    /\ pc = "pump"
    /\ Serial \notin active
    /\ queues[Serial] # <<>>
    /\ inflight = {}
    /\ start(Serial)
    /\ pc' = "select"
    /\ UNCHANGED <<before, intake, submitVars, intakeOpen, ready>>

\* ... and otherwise one turn of the round robin, budget permitting.
PumpScoped ==
    /\ pc = "pump"
    /\ ~Barrier
    /\ HasBudget
    /\ ready # <<>>
    /\ ready' = Tail(ready)
    /\ start(Head(ready))
    /\ UNCHANGED <<before, intake, submitVars, intakeOpen, pc>>

PumpEnd ==
    /\ pc = "pump"
    /\ \/ Barrier /\ (Serial \in active \/ inflight # {})
       \/ ~Barrier /\ ~(HasBudget /\ ready # <<>>)
    /\ pc' = "select"
    /\ UNCHANGED <<phase, before, intake, submitVars, intakeOpen, queues, ready,
                   active, inflight>>

\* Mutant: the key is not re-armed.
Rearmed_Never(k) == ready

\* on_complete re-arms a key with pending work behind the other ready keys.
Rearmed(k) == IF queues[k] # <<>> /\ k # Serial THEN Append(ready, k) ELSE ready

\* Mutant: on_complete does not pump.
Complete_NoPump(j) ==
    /\ pc = "select"
    /\ j \in inflight
    /\ inflight' = inflight \ {j}
    /\ active' = active \ {keyOf[j]}
    /\ ready' = Rearmed(keyOf[j])
    /\ phase' = [phase EXCEPT ![j] = "done"]
    /\ before' = {p \in before : p[1] # j /\ p[2] # j}
    /\ slots' = slots + 1
    /\ UNCHANGED <<keyOf, shut, handle, cancelled, intake, intakeOpen, queues, pc>>

\* Branch 3 of run: a dispatch future finished.  It sent the reply and gave
\* back its permit; on_complete releases the key and pumps.
Complete(j) ==
    /\ pc = "select"
    /\ j \in inflight
    /\ inflight' = inflight \ {j}
    /\ active' = active \ {keyOf[j]}
    /\ ready' = Rearmed(keyOf[j])
    /\ phase' = [phase EXCEPT ![j] = "done"]
    /\ before' = {p \in before : p[1] # j /\ p[2] # j}
    /\ slots' = slots + 1
    /\ pc' = "pump"
    /\ UNCHANGED <<keyOf, shut, handle, cancelled, intake, intakeOpen, queues>>

\* The task ends, and drops whatever it still owns.
TaskGone ==
    /\ DropJobs(Outstanding)
    /\ intake' = <<>>
    /\ queues' = [k \in Key |-> <<>>]
    /\ ready' = <<>>
    /\ active' = {}
    /\ inflight' = {}
    /\ intakeOpen' = FALSE
    /\ pc' = "exited"
    /\ UNCHANGED <<keyOf, shut, handle, cancelled>>

\* Every branch of run is disabled: break.
Exit ==
    /\ pc = "select"
    /\ ~intakeOpen
    /\ inflight = {}
    /\ TaskGone

\* The abort requested by Drop takes effect at the task's await point.
Abort ==
    /\ pc = "select"
    /\ handle = "dropped"
    /\ TaskGone

Submit(j) == SubmitEnter(j) \/ SubmitAcquire(j) \/ SubmitSend(j) \/ NextRequest(j)

Pump == PumpSerial \/ PumpScoped \/ PumpEnd

Task ==
    \/ Recv \/ RecvNone \/ Cancelled \/ Drain \/ DrainEnd
    \/ Pump \/ Exit \/ Abort
    \/ \E j \in Job : Complete(j)

Next ==
    \/ \E j \in Job : Submit(j)
    \/ ShutdownBegin \/ ShutdownClose \/ ShutdownJoin \/ DropHandle
    \/ Task

Spec == Init /\ [][Next]_vars

\* The runtime polls the task and the callers that can go on; a slot goes to
\* the waiter first in line, and futures are polled in the order they wake, so
\* a waiter or a finished dispatch that is passed over is not passed over for
\* ever.  Dispatches finish.
Fairness ==
    /\ WF_vars(Recv) /\ WF_vars(Cancelled) /\ WF_vars(Drain) /\ WF_vars(DrainEnd)
    /\ WF_vars(Pump) /\ WF_vars(Exit) /\ WF_vars(ShutdownClose) /\ WF_vars(ShutdownJoin)
    /\ \A j \in Job : /\ SF_vars(SubmitAcquire(j))
                      /\ WF_vars(SubmitSend(j))
                      /\ SF_vars(Complete(j))

FairSpec == Spec /\ Fairness

-----------------------------------------------------------------------------
(* Properties *)

TypeOK ==
    /\ keyOf \in [Job -> Key]
    /\ phase \in [Job -> Phase]
    /\ before \subseteq Job \X Job
    /\ slots \in Nat
    /\ shut \in {"no", "waiting", "closed", "joined"}
    /\ handle \in {"live", "dropped"}
    /\ cancelled \in BOOLEAN
    /\ intake \in Seq(Job)
    /\ intakeOpen \in BOOLEAN
    /\ queues \in [Key -> Seq(Job)]
    /\ ready \in Seq(Key)
    /\ active \subseteq Key
    /\ inflight \subseteq Job
    /\ pc \in {"select", "drain", "pump", "exited"}

\* Same-key FIFO, one in flight (scheduler.rs, module doc): while a job is in
\* flight, no job of the same key that was admitted before it is unfinished.
\* Of two jobs of one key one was admitted first, so two never run together.
FifoPerKey ==
    \A j \in inflight, i \in Job :
        <<i, j>> \in before => keyOf[i] # keyOf[j]

\* Serial is a global barrier: a Serial job in flight runs alone (pump).
SerialAlone ==
    \A i, j \in inflight : keyOf[i] = Serial => i = j

\* Never more than C jobs are in flight (pump).
WithinBudget == Cardinality(inflight) <= Budget

\* The round robin neither loses nor repeats a key (enqueue, start and
\* on_complete together): `ready` lists exactly the scoped keys that have
\* pending work and nothing in flight, each once.
ReadyExact ==
    /\ \A k \in Key :
          (\E n \in 1..Len(ready) : ready[n] = k)
             <=> (k # Serial /\ k \notin active /\ queues[k] # <<>>)
    /\ \A m, n \in 1..Len(ready) : ready[m] = ready[n] => m = n

\* No lost wake-up: when the task goes back to waiting, pending work implies
\* that a dispatch is in flight whose completion will pump again, and spare
\* budget implies that only the Serial barrier holds work back.
WorkConserving ==
    pc = "select" =>
        \A k \in Key : queues[k] # <<>> =>
            /\ inflight # {}
            /\ \/ k \in active
               \/ Cardinality(inflight) >= Budget
               \/ queues[Serial] # <<>> \/ Serial \in active

\* Every slot is either free or owned by a job between its acquisition and
\* its completion, so M bounds queued plus running jobs, whatever was dropped,
\* rejected or completed (submit, start, Drop).
SlotsConserved == slots + Cardinality(Holders) = QueueCap

\* The write lock of `shutdown` is a barrier: once the token is cancelled no
\* submitter is between its check and its send, so acquire_owned never meets
\* a closed semaphore and send never meets a closed channel.
AdmissionBarrier == cancelled => Readers = {}

\* Graceful shutdown is lossless: an admitted job is dropped unrun only when
\* the handle itself was dropped.
LosslessDrain ==
    handle = "live" => \A j \in Job : phase[j] # "dropped"

-----------------------------------------------------------------------------
(* The inductive invariant behind the safety properties *)

\* Where a job is stored agrees with its phase, and nothing is stored twice.
Placement ==
    /\ \A n \in 1..Len(intake) : phase[intake[n]] = "sent"
    /\ \A m, n \in 1..Len(intake) : intake[m] = intake[n] => m = n
    /\ \A j \in Job : phase[j] = "sent" => \E n \in 1..Len(intake) : intake[n] = j
    /\ \A k \in Key : \A n \in 1..Len(queues[k]) :
          phase[queues[k][n]] = "queued" /\ keyOf[queues[k][n]] = k
    /\ \A k \in Key : \A m, n \in 1..Len(queues[k]) :
          queues[k][m] = queues[k][n] => m = n
    /\ \A j \in Job : phase[j] = "queued" =>
          \E n \in 1..Len(queues[keyOf[j]]) : queues[keyOf[j]][n] = j
    /\ inflight = {j \in Job : phase[j] = "running"}
    /\ \A k \in Key : k \in active <=> \E j \in inflight : keyOf[j] = k
    /\ \A i, j \in inflight : keyOf[i] = keyOf[j] => i = j

\* The channel and the queues keep the order of admission.
AdmissionOrder ==
    /\ before \subseteq Outstanding \X Outstanding
    /\ \A i, j \in Job : <<i, j>> \in before => <<j, i>> \notin before
    /\ \A m, n \in 1..Len(intake) : m < n => <<intake[m], intake[n]>> \in before
    /\ \A k \in Key : \A m, n \in 1..Len(queues[k]) :
          m < n => <<queues[k][m], queues[k][n]>> \in before
    /\ \A i, j \in Job : phase[i] \in {"queued", "running"} /\ phase[j] = "sent"
          => <<i, j>> \in before

\* Who closed what: the token, the channel and the task's control agree.
Lifecycle ==
    /\ cancelled <=> (shut \in {"closed", "joined"} \/ handle = "dropped")
    /\ shut = "waiting" => handle = "live"
    /\ ~intakeOpen => cancelled
    /\ pc \in {"drain", "exited"} => ~intakeOpen
    /\ AdmissionBarrier

\* What `pump` leaves behind: it stopped for the barrier, the budget or lack
\* of ready keys.
PumpSettled ==
    pc = "select" => \/ Serial \in active
                     \/ queues[Serial] # <<>> /\ inflight # {}
                     \/ ~Barrier /\ ~(HasBudget /\ ready # <<>>)

DrainedIntake == ~intakeOpen /\ pc # "drain" => intake = <<>>

SchedulerInv ==
    /\ Placement /\ AdmissionOrder /\ FifoPerKey /\ ReadyExact /\ SerialAlone
    /\ Lifecycle /\ DrainedIntake /\ PumpSettled /\ WithinBudget /\ LosslessDrain

-----------------------------------------------------------------------------
(* Liveness *)

\* Everything a caller submitted is answered, a drop of the handle included,
\* provided that no stream of Serial jobs holds scoped ones back.
SubmitResolves ==
    Cardinality({i \in Job : keyOf[i] = Serial}) <= 1 =>
        \A j \in Job : phase[j] \in {"waiting", "sending", "sent", "queued", "running"}
                         ~> phase[j] \in {"done", "rejected", "dropped"}

\* Anti-starvation of the barrier: a pending Serial job starts, however many
\* scoped jobs keep coming.
SerialNotStarved ==
    \A j \in Job : phase[j] = "queued" /\ keyOf[j] = Serial
                      ~> phase[j] \in {"running", "dropped"}

\* An ordered shutdown ends, with every admitted job answered.
ShutdownCompletes ==
    shut = "waiting" ~> \/ shut = "joined" /\ Outstanding = {}
                        \/ handle = "dropped"

\* "round-robin fairness across ready keys so no key starves" (module doc).
NoKeyStarves ==
    \A j \in Job : phase[j] = "queued" ~> phase[j] \in {"running", "dropped"}

-----------------------------------------------------------------------------
(* The promise to the callers *)

Stage(p) ==
    CASE p = "sent" -> "sent"
      [] p = "queued" -> "pending"
      [] p = "running" -> "running"
      [] OTHER -> "out"

Promise == INSTANCE KeyedDispatch WITH
    stage <- [j \in Job |-> Stage(phase[j])],
    closed <- cancelled,
    torn <- handle = "dropped"

\* The scheduler implements keyed dispatch: every admission, start, completion
\* and drop of submit, SchedulerTask::run, shutdown and Drop is one the
\* callers were promised, in that order.
KeepsPromise == Promise!Spec
=============================================================================
