---------------------------- MODULE KeyedDispatch ----------------------------
(***************************************************************************)
(* What the dispatch scheduler promises its callers, without the channel,  *)
(* the semaphore, the per-key queues or the task loop that keep the        *)
(* promise (core/hyper/src/dispatch/scheduler.rs, module doc).  A job is   *)
(* admitted, accepted, started and finished; jobs of one key run one at a  *)
(* time in the order of admission, at most Budget run at once, a Serial    *)
(* job runs alone, and nothing scoped starts while one is pending.  Jobs   *)
(* are lost only when the scheduler itself is torn down.                   *)
(***************************************************************************)
EXTENDS Integers, FiniteSets

CONSTANTS Job, Key, Serial, Budget

VARIABLES
    keyOf,      \* the conflict key of each job
    stage,      \* "out", "sent" (admitted), "pending" (accepted) or "running"
    before,     \* <<i, j>>: i was unfinished when j was admitted
    closed,     \* no more admissions
    torn        \* the scheduler was dropped

vars == <<keyOf, stage, before, closed, torn>>

Unfinished == {j \in Job : stage[j] # "out"}
Running == {j \in Job : stage[j] = "running"}

Init ==
    /\ keyOf \in [Job -> Key]
    /\ stage = [j \in Job |-> "out"]
    /\ before = {}
    /\ closed = FALSE
    /\ torn = FALSE

Admit(j) ==
    /\ ~closed
    /\ stage[j] = "out"
    /\ stage' = [stage EXCEPT ![j] = "sent"]
    /\ before' = before \cup (Unfinished \X {j})
    /\ UNCHANGED <<keyOf, closed, torn>>

Accept(j) ==
    /\ stage[j] = "sent"
    /\ \A i \in Job : <<i, j>> \in before => stage[i] # "sent"
    /\ stage' = [stage EXCEPT ![j] = "pending"]
    /\ UNCHANGED <<keyOf, before, closed, torn>>

\* A job may start when every unfinished job of its key came later, and the
\* barrier lets it: Serial waits for silence, scoped jobs wait for Serial.
MayStart(j) ==
    /\ \A i \in Job : <<i, j>> \in before => keyOf[i] # keyOf[j]
    /\ IF keyOf[j] = Serial
       THEN Running = {}
       ELSE \A i \in Job : keyOf[i] = Serial => stage[i] \notin {"pending", "running"}

Start(j) ==
    /\ stage[j] = "pending"
    /\ MayStart(j)
    /\ Cardinality(Running) < Budget
    /\ stage' = [stage EXCEPT ![j] = "running"]
    /\ UNCHANGED <<keyOf, before, closed, torn>>

\* The jobs of S leave: finished, or thrown away by a torn-down scheduler.
Leave(S) ==
    /\ stage' = [j \in Job |-> IF j \in S THEN "out" ELSE stage[j]]
    /\ before' = {p \in before : p[1] \notin S /\ p[2] \notin S}
    /\ UNCHANGED <<keyOf, closed, torn>>

Finish(j) == stage[j] = "running" /\ Leave({j})

Discard(S) == torn /\ Leave(S)

Close ==
    /\ closed' = TRUE
    /\ UNCHANGED <<keyOf, stage, before, torn>>

TearDown ==
    /\ closed' = TRUE
    /\ torn' = TRUE
    /\ UNCHANGED <<keyOf, stage, before>>

Next ==
    \/ \E j \in Job : Admit(j) \/ Accept(j) \/ Start(j) \/ Finish(j)
    \/ \E S \in SUBSET Unfinished : Discard(S)
    \/ Close \/ TearDown

Spec == Init /\ [][Next]_vars
=============================================================================
