---------------------------- MODULE Backpressure ----------------------------
(***************************************************************************)
(* The mailbox with its depth observer and the backpressure watchdog of    *)
(* core/hyper/src/lifecycle/node.rs.  Several receive tasks enqueue at     *)
(* once: each counts the queue under the connection mutex but reports the  *)
(* count after releasing it, so reports overtake each other; the consumer  *)
(* reports nothing.                                                        *)
(***************************************************************************)
EXTENDS Mailbox

CONSTANT Threshold  \* mailbox_backpressure_threshold

ASSUME BackpressureAssumption == Threshold \in Nat \ {0}

VARIABLES
    depth,      \* count that the enqueue of a message still has to report
    returned,   \* what enqueue told its caller
    handed,     \* history: messages in the order in which dequeue returned them
    triggered,  \* the watchdog's flag
    fired,      \* history: calls of on_mailbox_backpressure
    crossings   \* history: times the queue length rose to Threshold

watchVars == <<tableVars, depth, returned, handed, triggered, fired, crossings>>

NoDepth == -1

WatchInit ==
    /\ TableInit
    /\ depth = [m \in Message |-> NoDepth]
    /\ returned = [m \in Message |-> "pending"]
    /\ handed = <<>>
    /\ triggered = FALSE
    /\ fired = 0
    /\ crossings = 0

CountCrossing ==
    crossings' = IF Cardinality(Queued) < Threshold /\ Cardinality(Queued') >= Threshold
                 THEN crossings + 1 ELSE crossings

\* INSERT and COUNT under one lock.
EnqueueRow(m) ==
    /\ Insert(m)
    /\ depth' = [depth EXCEPT ![m] = Cardinality(Queued')]
    /\ CountCrossing
    /\ UNCHANGED <<returned, handed, triggered, fired>>

\* The INSERT succeeds and the COUNT fails: the caller is told that the
\* enqueue failed although the row is there, and nothing is reported.
EnqueueCountFails(m) ==
    /\ Insert(m)
    /\ CountCrossing
    /\ returned' = [returned EXCEPT ![m] = "Err"]
    /\ UNCHANGED <<depth, handed, triggered, fired>>

\* Mutant: the flag is set without a look at what it was, and never fires.
fire_if_rising_Lost(n) ==
    /\ triggered' = (n >= Threshold)
    /\ fired' = IF triggered /\ n >= Threshold THEN fired + 1 ELSE fired

\* fire_if_rising: swap the flag, fire when it was clear.
fire_if_rising(n) ==
    /\ triggered' = (n >= Threshold)
    /\ fired' = IF n >= Threshold /\ ~triggered THEN fired + 1 ELSE fired

\* observer.on_depth_change with a count that may be stale by now.
Report(m) ==
    /\ depth[m] # NoDepth
    /\ fire_if_rising(depth[m])
    /\ depth' = [depth EXCEPT ![m] = NoDepth]
    /\ returned' = [returned EXCEPT ![m] = "Ok"]
    /\ UNCHANGED <<tableVars, handed, crossings>>

Dequeue(s) ==
    /\ Take(s)
    /\ handed' = handed \o s
    /\ UNCHANGED <<depth, returned, triggered, fired, crossings>>

Ack(m) ==
    /\ status[m] = "Inflight"
    /\ Delete(m)
    /\ UNCHANGED <<depth, returned, handed, triggered, fired, crossings>>

WatchNext ==
    \/ \E m \in Message :
          EnqueueRow(m) \/ EnqueueCountFails(m) \/ Report(m) \/ Ack(m)
    \/ \E s \in Batches : Dequeue(s)

WatchSpec == WatchInit /\ [][WatchNext]_watchVars

-----------------------------------------------------------------------------
(* Properties *)

WatchTypeOK ==
    /\ TableTypeOK
    /\ depth \in [Message -> Nat \cup {NoDepth}]
    /\ returned \in [Message -> {"pending", "Ok", "Err"}]
    /\ handed \in Seq(Message)
    /\ triggered \in BOOLEAN
    /\ fired \in Nat
    /\ crossings \in Nat

\* Messages of one priority leave the mailbox in the order in which they came
\* in, across batches that split them and whatever is acked in between
\* (dequeue's ORDER BY and LIMIT, and the sort that follows).
FifoPerPriority ==
    \A i, j \in DOMAIN handed :
        i < j /\ priority[handed[i]] = priority[handed[j]] =>
            created_at[handed[i]] <= created_at[handed[j]]

\* The watchdog cannot sleep through the first overload: once every report is
\* in and some reported count was at the threshold, the hook has fired
\* (fire_if_rising, however the reports overtake each other).
FirstOverloadSignalled ==
    (\A m \in Message : status[m] # "new" => returned[m] = "Ok") /\ crossings > 0
        => fired > 0

\* The inductive invariant of the two.  What is still queued came in no earlier
\* than anything of its priority that was handed out ...
HandedFirst ==
    /\ \A m \in Message : created_at[m] <= clock
    /\ \A i \in DOMAIN handed :
          /\ status[handed[i]] \notin {"new", "Queued"}
          /\ \A m \in Queued :
                priority[handed[i]] = priority[m] => created_at[handed[i]] <= created_at[m]

\* ... and a crossing was signalled, or is about to be reported, unless the
\* enqueue that crossed the threshold failed to count.
CrossingKnown ==
    /\ triggered => fired > 0
    /\ \A m \in Message : depth[m] # NoDepth => status[m] # "new"
    /\ \A m \in Message : depth[m] # NoDepth \/ status[m] = "new" => returned[m] = "pending"
    /\ crossings > 0 => fired > 0 \/ \E m \in Message :
          depth[m] >= Threshold \/ (status[m] # "new" /\ returned[m] = "Err")

WatchInv == FifoPerPriority /\ HandedFirst /\ CrossingKnown

\* The hook fires once per rising-edge crossing of the threshold, once all
\* reports are in (the comment of the watchdog).
HookOncePerCrossing ==
    (\A m \in Message : status[m] # "new" => returned[m] = "Ok") => fired = crossings
=============================================================================
