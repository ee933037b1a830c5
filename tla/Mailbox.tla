------------------------------ MODULE Mailbox ------------------------------
(***************************************************************************)
(* The durable mailbox, core/runtime-mailbox/src/sqlite.rs: one SQLite     *)
(* table of messages.  Every operation holds the connection mutex, so each *)
(* is one step here.  Backpressure and InboundPath are built on it.        *)
(*                                                                         *)
(* created_at is the wall clock at the INSERT; the model assumes that it   *)
(* does not step back, and lets two inserts read the same instant.  The    *)
(* RFC 3339 texts that SQLite compares sort like the instants they denote. *)
(***************************************************************************)
EXTENDS Integers, FiniteSets, Sequences, Functions

CONSTANTS
    Message,    \* rows that are ever inserted
    Priorities, \* MessagePriority values in use; 1: High, 0: Normal
    BatchSize   \* DEFAULT_BATCH_SIZE

ASSUME MailboxAssumption ==
    /\ IsFiniteSet(Message)
    /\ Priorities \subseteq {0, 1}
    /\ BatchSize \in Nat \ {0}

VARIABLES
    priority,   \* set by the gate from the payload type
    status,     \* "new" before the INSERT, "acked" after the DELETE
    created_at, \* instant of the INSERT
    clock       \* Utc::now()

tableVars == <<priority, status, created_at, clock>>

Queued == {m \in Message : status[m] = "Queued"}

TableInit ==
    /\ priority \in [Message -> Priorities]
    /\ status = [m \in Message |-> "new"]
    /\ created_at = [m \in Message |-> 0]
    /\ clock = 0

\* enqueue, the part under the mutex.
Insert(m) ==
    /\ status[m] = "new"
    /\ clock' \in {clock, clock + 1}
    /\ created_at' = [created_at EXCEPT ![m] = clock']
    /\ status' = [status EXCEPT ![m] = "Queued"]
    /\ UNCHANGED priority

\* Mutant: the newest first.
Before_Newest(a, b) ==
    \/ priority[a] > priority[b]
    \/ priority[a] = priority[b] /\ created_at[a] > created_at[b]

\* ORDER BY priority DESC, created_at ASC
Before(a, b) ==
    \/ priority[a] > priority[b]
    \/ priority[a] = priority[b] /\ created_at[a] < created_at[b]

\* What the subselect may choose: rows with equal keys come in any order.
Selections ==
    {S \in SUBSET Queued :
        /\ Cardinality(S) = BatchSize \/ (S = Queued /\ Cardinality(S) < BatchSize)
        /\ \A a \in S, b \in Queued \ S : ~Before(b, a)}

\* Mutant: the batch is returned as the RETURNING clause yields it.
Sorted_Not(s) == TRUE

\* sort_unstable_by: ties in any order.
Sorted(s) == \A i, j \in DOMAIN s : i < j => ~Before(s[j], s[i])

\* dequeue: the batches that may be handed out now, each a listing of a
\* selection, and the UPDATE.
Batches ==
    {s \in UNION {Bijection(1..n, S) : n \in 0..BatchSize, S \in Selections} : Sorted(s)}

Take(s) ==
    /\ status' = [m \in Message |-> IF m \in Range(s) THEN "Inflight" ELSE status[m]]
    /\ UNCHANGED <<priority, created_at, clock>>

\* ack: deletes the row, whatever its status.
Delete(m) ==
    /\ status' = [status EXCEPT ![m] = "acked"]
    /\ UNCHANGED <<priority, created_at, clock>>

TableTypeOK ==
    /\ priority \in [Message -> Priorities]
    /\ status \in [Message -> {"new", "Queued", "Inflight", "acked"}]
    /\ created_at \in [Message -> Nat]
    /\ clock \in Nat
=============================================================================
