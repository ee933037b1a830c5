---------------------------- MODULE HandlerProofs ----------------------------
(***************************************************************************)
(* Proofs about what decides that a handler runs.  ActorRunner, for any    *)
(* number of commands and any channel capacity, in both modes; and Dedup,  *)
(* for every set of deliveries, request_ids and timeouts and every TTL: a  *)
(* request is never re-entered while it is in flight, two runs of one      *)
(* request_id start at least Ttl apart, and every answer comes from the    *)
(* run the delivery belongs to.  The last section is the mailbox by        *)
(* itself: the order in which dequeue hands out rows, and the watchdog of  *)
(* its depth (Backpressure), for every batch size and threshold.           *)
(***************************************************************************)
EXTENDS ActorRunner, Dedup, Backpressure, TLAPS

\* The commands are pairwise different.
LEMMA CommandsDiffer ==
    /\ Capacity \in Nat \ {0}
    /\ OnStop \notin Cmd /\ Shutdown \notin Cmd /\ NoCmd \notin All
    /\ OnStop # Shutdown
    /\ OnStop \in All /\ Shutdown \in All
BY RunnerAssumption DEF All

\* What Next may do, as one disjunction.
LEMMA NextCases ==
    ASSUME Next
    PROVE  \/ \E c \in All : Call(c) \/ Send(c) \/ CallerLeaves(c) \/ CallerCanceled(c)
           \/ \E c \in All, out \in Outcomes : Complete(c, out)
           \/ Recv \/ RunBarrier \/ StopIntake \/ SendOnStop \/ SendShutdown \/ Join \/ Abort
BY Zenon DEF Next, Guest, Stop

\* Ending the task keeps the types.
LEMMA EndTaskTypes ==
    ASSUME TypeOK, NEW c \in All \cup {NoCmd}, NEW r \in {"none"} \cup Outcomes, EndTask(c, r)
    PROVE  /\ pc' \in [All -> {"idle", "sending", "queued", "barrier", "running", "over"}]
           /\ result' \in [All -> {"none", "refused", "terminated"} \cup Outcomes]
           /\ queue' \in Seq(All) /\ Len(queue') =< Capacity /\ barrier' \in All \cup {NoCmd} /\ gone' \in BOOLEAN
<1>1. pc' \in [All -> {"idle", "sending", "queued", "barrier", "running", "over"}]
    BY DEF EndTask, TypeOK
<1>2. result' \in [All -> {"none", "refused", "terminated"} \cup Outcomes]
    BY DEF EndTask, TypeOK, Outcomes
<1> QED
    BY <1>1, <1>2, CommandsDiffer DEF EndTask

\* A call that is admitted or refused.
LEMMA CallKeeps ==
    ASSUME TypeOK, RunnerInv, NEW c \in All, Call(c)
    PROVE  RunnerInv'
<1>1. ChannelExact'
    BY CommandsDiffer
       DEF TypeOK, RunnerInv, Call, Answer, All, StopOrder, EndExact, ChannelExact
<1>2. BarrierExact'
    BY CommandsDiffer
       DEF TypeOK, RunnerInv, Call, Answer, All, StopOrder, EndExact, BarrierExact,
           Running
<1>3. StopOrder'
    BY CommandsDiffer DEF TypeOK, RunnerInv, Call, Answer, All, StopOrder, EndExact
<1>4. EndExact'
    BY CommandsDiffer DEF TypeOK, RunnerInv, Call, Answer, All, StopOrder, EndExact
<1>5. OnStopLast'
    BY CommandsDiffer
       DEF TypeOK, RunnerInv, Call, Answer, All, StopOrder, EndExact, OnStopLast,
           Active
<1>6. LosslessStop'
    BY CommandsDiffer
       DEF TypeOK, RunnerInv, Call, Answer, All, StopOrder, EndExact, LosslessStop
<1>7. FailClosed'
    BY CommandsDiffer
       DEF TypeOK, RunnerInv, Call, Answer, All, StopOrder, EndExact, FailClosed,
           Running
<1> QED
    BY Zenon, <1>1, <1>2, <1>3, <1>4, <1>5, <1>6, <1>7 DEF RunnerInv

\* A command enters the channel, or finds the runner gone.
LEMMA SendKeeps ==
    ASSUME TypeOK, RunnerInv, NEW c \in All, Send(c)
    PROVE  RunnerInv'
<1>1. ChannelExact'
    <2>1. pc[c] = "sending"
        BY Zenon DEF Send
    <2>2. CASE gone
        <3>1. queue' = queue /\ pc' = [pc EXCEPT ![c] = "over"]
            BY <2>2 DEF Send, Answer
        <3> QED
            BY <2>1, <3>1 DEF TypeOK, RunnerInv, ChannelExact
    <2>3. CASE ~gone
        <3>1. queue' = Append(queue, c) /\ pc' = [pc EXCEPT ![c] = "queued"]
            BY <2>3 DEF Send
        <3>2. /\ Len(queue) \in Nat /\ Len(queue') = Len(queue) + 1
              /\ \A i \in 1..Len(queue) : queue'[i] = queue[i] /\ queue[i] \in All
              /\ queue'[Len(queue) + 1] = c
            BY <3>1 DEF TypeOK
        <3>3. \A i \in 1..Len(queue) : queue[i] # c
            BY Zenon, <2>1 DEF RunnerInv, ChannelExact
        <3>4. \A i \in 1..Len(queue') : pc'[queue'[i]] = "queued"
            BY <3>1, <3>2, <3>3 DEF RunnerInv, ChannelExact, TypeOK
        <3>5. \A i, j \in 1..Len(queue') : queue'[i] = queue'[j] => i = j
            BY <3>2, <3>3 DEF RunnerInv, ChannelExact
        <3>6. ASSUME NEW d \in All, pc'[d] = "queued"
              PROVE  \E i \in 1..Len(queue') : queue'[i] = d
            <4>1. CASE d = c
                <5>1. Len(queue) + 1 \in 1..Len(queue')
                    BY <3>2
                <5> QED
                    BY <4>1, <5>1, <3>2
            <4>2. CASE d # c
                <5>1. pc[d] = "queued"
                    BY <4>2, <3>1, <3>6 DEF TypeOK
                <5>2. PICK i \in 1..Len(queue) : queue[i] = d
                    BY Zenon, <5>1 DEF RunnerInv, ChannelExact
                <5> QED
                    BY <5>2, <3>2
            <4> QED
                BY <4>1, <4>2
        <3> QED
            BY <3>4, <3>5, <3>6 DEF ChannelExact
    <2> QED
        BY <2>2, <2>3
<1>2. BarrierExact'
    BY CommandsDiffer
       DEF TypeOK, RunnerInv, Send, Answer, All, StopOrder, EndExact, BarrierExact,
           Running
<1>3. StopOrder'
    <2>1. /\ pc[c] = "sending" /\ UNCHANGED <<stop, caller, kindOf>>
          /\ pc' = [pc EXCEPT ![c] = IF gone THEN "over" ELSE "queued"]
        BY Zenon DEF Send, Answer
    <2>2. \A i, j \in 1..Len(queue') : queue'[i] = OnStop /\ i < j => queue'[j] = Shutdown
        <3>1. CASE gone
            BY <3>1 DEF Send, RunnerInv, StopOrder
        <3>2. CASE ~gone
            <4>1. /\ Len(queue) \in Nat /\ Len(queue') = Len(queue) + 1
                  /\ \A i \in 1..Len(queue) : queue'[i] = queue[i]
                  /\ queue'[Len(queue) + 1] = c
                BY <3>2 DEF Send, TypeOK
            <4>2. ASSUME NEW i \in 1..Len(queue), queue[i] = OnStop PROVE c = Shutdown
                <5>1. pc[OnStop] = "queued"
                    BY Zenon, <4>2 DEF RunnerInv, ChannelExact
                <5> QED
                    BY Zenon, <5>1, <2>1 DEF RunnerInv, StopOrder, All
            <4> QED
                BY <4>1, <4>2 DEF RunnerInv, StopOrder
        <3> QED
            BY Zenon, <3>1, <3>2
    <2> QED
        BY <2>1, <2>2, CommandsDiffer DEF TypeOK, RunnerInv, StopOrder, EndExact, All
<1>4. EndExact'
    BY CommandsDiffer DEF TypeOK, RunnerInv, Send, Answer, All, StopOrder, EndExact
<1>5. OnStopLast'
    BY CommandsDiffer
       DEF TypeOK, RunnerInv, Send, Answer, All, StopOrder, EndExact, OnStopLast,
           Active
<1>6. LosslessStop'
    BY CommandsDiffer
       DEF TypeOK, RunnerInv, Send, Answer, All, StopOrder, EndExact, LosslessStop
<1>7. FailClosed'
    BY CommandsDiffer
       DEF TypeOK, RunnerInv, Send, Answer, All, StopOrder, EndExact, FailClosed,
           Running
<1> QED
    BY <1>1, <1>2, <1>3, <1>4, <1>5, <1>6, <1>7 DEF RunnerInv

\* A caller gives up.
LEMMA CallerLeavesKeeps ==
    ASSUME TypeOK, RunnerInv, NEW c \in All, CallerLeaves(c)
    PROVE  RunnerInv'
<1>1. ChannelExact'
    BY CommandsDiffer
       DEF TypeOK, RunnerInv, CallerLeaves, All, StopOrder, EndExact, ChannelExact
<1>2. BarrierExact'
    BY CommandsDiffer
       DEF TypeOK, RunnerInv, CallerLeaves, All, StopOrder, EndExact, BarrierExact,
           Running
<1>3. StopOrder'
    BY CommandsDiffer DEF TypeOK, RunnerInv, CallerLeaves, All, StopOrder, EndExact
<1>4. EndExact'
    BY CommandsDiffer DEF TypeOK, RunnerInv, CallerLeaves, All, StopOrder, EndExact
<1>5. OnStopLast'
    BY Zenon, CommandsDiffer
       DEF TypeOK, RunnerInv, CallerLeaves, All, StopOrder, EndExact, OnStopLast,
           Active
<1>6. LosslessStop'
    BY Zenon, CommandsDiffer
       DEF TypeOK, RunnerInv, CallerLeaves, All, StopOrder, EndExact, LosslessStop
<1>7. FailClosed'
    BY CommandsDiffer
       DEF TypeOK, RunnerInv, CallerLeaves, All, StopOrder, EndExact, FailClosed,
           Running
<1> QED
    BY Zenon, <1>1, <1>2, <1>3, <1>4, <1>5, <1>6, <1>7 DEF RunnerInv

\* The runner takes a command.
LEMMA RecvKeeps ==
    ASSUME TypeOK, RunnerInv, Recv
    PROVE  RunnerInv'
<1> DEFINE c == Head(queue)
<1>a. /\ Len(queue) \in Nat /\ Len(queue') = Len(queue) - 1 /\ 1 \in 1..Len(queue)
      /\ \A i \in 1..Len(queue') : i + 1 \in 1..Len(queue) /\ queue'[i] = queue[i + 1]
      /\ queue[1] = c /\ c \in All
    BY DEF Recv, TypeOK
<1>b. pc[c] = "queued"
    BY <1>a DEF RunnerInv, ChannelExact
<1>c. \E v \in {"over", "barrier", "running"} : pc' = [pc EXCEPT ![c] = v]
    BY DEF Recv
<1>1. ChannelExact'
    <2>1. \A i \in 1..Len(queue') : queue'[i] # c /\ queue'[i] \in All
        <3> TAKE i \in 1..Len(queue')
        <3>1. i \in Nat /\ i + 1 # 1 /\ i + 1 \in 1..Len(queue) /\ queue'[i] = queue[i + 1]
            BY <1>a
        <3>2. queue[i + 1] # queue[1]
            BY Zenon, <3>1, <1>a DEF RunnerInv, ChannelExact
        <3>3. queue[i + 1] \in All
            BY <3>1 DEF TypeOK
        <3> QED
            BY <1>a, <3>1, <3>2, <3>3
    <2>2. \A i \in 1..Len(queue') : pc'[queue'[i]] = "queued"
        <3> TAKE i \in 1..Len(queue')
        <3>1. pc[queue'[i]] = "queued"
            BY <1>a DEF RunnerInv, ChannelExact
        <3>2. \A d \in All : d # c => pc'[d] = pc[d]
            BY <1>c DEF TypeOK
        <3> QED
            BY <2>1, <3>1, <3>2
    <2>3. \A i, j \in 1..Len(queue') : queue'[i] = queue'[j] => i = j
        <3> TAKE i, j \in 1..Len(queue')
        <3> HAVE queue'[i] = queue'[j]
        <3>1. i + 1 = j + 1
            BY <1>a DEF RunnerInv, ChannelExact
        <3> QED
            BY <3>1
    <2>4. ASSUME NEW d \in All, pc'[d] = "queued"
          PROVE  \E i \in 1..Len(queue') : queue'[i] = d
        <3>1. pc[d] = "queued" /\ d # c
            BY <1>a, <1>c, <2>4 DEF TypeOK
        <3>2. PICK i \in 1..Len(queue) : queue[i] = d
            BY <3>1 DEF RunnerInv, ChannelExact
        <3>3. i # 1
            BY <3>1, <3>2, <1>a
        <3>4. i - 1 \in 1..Len(queue') /\ queue'[i - 1] = queue[i]
            BY <3>3, <1>a
        <3> QED
            BY <3>2, <3>4
    <2> QED
        BY <2>2, <2>3, <2>4 DEF ChannelExact
<1>2. BarrierExact'
    BY CommandsDiffer
       DEF TypeOK, RunnerInv, Recv, IsBarrier, All, StopOrder, EndExact,
           BarrierExact, Running
<1>3. StopOrder'
    <2>1. UNCHANGED <<stop, caller, kindOf>>
        BY Zenon DEF Recv
    <2>2. \A i, j \in 1..Len(queue') : queue'[i] = OnStop /\ i < j => queue'[j] = Shutdown
        BY <1>a DEF RunnerInv, StopOrder
    <2>3. c = OnStop => pc'[OnStop] = "barrier"
        BY Zenon, <1>a, CommandsDiffer DEF Recv, IsBarrier, RunnerInv, StopOrder, TypeOK
    <2>4. c = Shutdown => pc'[Shutdown] = "barrier"
        BY Zenon, <1>a, CommandsDiffer DEF Recv, IsBarrier, RunnerInv, StopOrder, TypeOK
    <2>5. ASSUME c = OnStop, NEW d \in Cmd PROVE pc[d] \notin {"queued", "barrier"}
        <3>1. pc[d] # "barrier"
            BY Zenon, CommandsDiffer DEF Recv, RunnerInv, BarrierExact, All
        <3>2. ASSUME pc[d] = "queued" PROVE FALSE
            <4>1. PICK i \in 1..Len(queue) : queue[i] = d
                BY <3>2 DEF RunnerInv, ChannelExact, All
            <4>2. i # 1 /\ d # Shutdown
                BY <2>5, <4>1, <1>a, CommandsDiffer
            <4>3. 1 < i
                BY <4>2, <1>a
            <4> QED
                BY Zenon, <2>5, <4>1, <4>2, <4>3, <1>a DEF RunnerInv, StopOrder
        <3> QED
            BY Zenon, <3>1, <3>2
    <2>6. c = Shutdown => pc[OnStop] = "over"
        BY <1>b DEF RunnerInv, StopOrder
    <2>7. pc'[OnStop] = "barrier" => \A d \in Cmd : pc'[d] \notin {"queued", "barrier"}
        <3>1. CASE c = OnStop
            BY <3>1, <1>a, <1>c, <2>5, CommandsDiffer DEF TypeOK, All
        <3>2. CASE c # OnStop
            <4>1. pc'[OnStop] = pc[OnStop]
                BY <3>2, <1>c, CommandsDiffer DEF TypeOK
            <4>2. pc[OnStop] # "barrier"
                BY Zenon, CommandsDiffer DEF Recv, RunnerInv, BarrierExact
            <4> QED
                BY <4>1, <4>2
        <3> QED
            BY Zenon, <3>1, <3>2
    <2> HIDE DEF c
    <2> QED
        BY <1>a, <1>b, <1>c, <2>1, <2>2, <2>3, <2>4, <2>6, <2>7, CommandsDiffer
           DEF TypeOK, RunnerInv, StopOrder, All
<1>4. EndExact'
    BY Zenon, CommandsDiffer DEF TypeOK, RunnerInv, Recv, IsBarrier, All, StopOrder, EndExact
<1>5. OnStopLast'
    <2>1. c = OnStop => pc'[OnStop] = "barrier"
        BY Zenon, <1>a, CommandsDiffer DEF Recv, IsBarrier, RunnerInv, StopOrder, TypeOK
    <2> HIDE DEF c
    <2> QED
        BY <1>a, <1>b, <1>c, <2>1, CommandsDiffer
           DEF TypeOK, RunnerInv, OnStopLast, Active, All
<1>6. LosslessStop'
    BY Zenon, CommandsDiffer
       DEF TypeOK, RunnerInv, Recv, IsBarrier, All, StopOrder, EndExact,
           LosslessStop
<1>7. FailClosed'
    BY CommandsDiffer
       DEF TypeOK, RunnerInv, Recv, IsBarrier, All, StopOrder, EndExact, FailClosed,
           Running
<1> QED
    BY Zenon, <1>1, <1>2, <1>3, <1>4, <1>5, <1>6, <1>7 DEF RunnerInv

\* The barrier is executed.
LEMMA RunBarrierKeeps ==
    ASSUME TypeOK, RunnerInv, RunBarrier
    PROVE  RunnerInv'
<1>1. ChannelExact'
    BY CommandsDiffer
       DEF TypeOK, RunnerInv, RunBarrier, EndTask, Answer, Drained, All, StopOrder,
           EndExact, ChannelExact
<1>2. BarrierExact'
    BY CommandsDiffer
       DEF TypeOK, RunnerInv, RunBarrier, EndTask, Answer, Drained, All, StopOrder,
           EndExact, BarrierExact, Running
<1>3. StopOrder'
    BY CommandsDiffer
       DEF TypeOK, RunnerInv, RunBarrier, EndTask, Answer, Drained, All, StopOrder,
           EndExact
<1>4. EndExact'
    BY CommandsDiffer
       DEF TypeOK, RunnerInv, RunBarrier, EndTask, Answer, Drained, All, StopOrder,
           EndExact
<1>5. OnStopLast'
    <2>1. barrier \in All /\ pc[barrier] = "barrier" /\ Running = {}
        BY Zenon DEF RunBarrier, TypeOK, Drained
    <2>2. \A d \in Cmd : pc'[d] \in {pc[d], "over", "running"} /\ (d # barrier => pc'[d] \in {pc[d], "over"})
        BY <2>1 DEF RunBarrier, EndTask, Answer, TypeOK, All
    <2>3. CASE barrier = OnStop
        BY Zenon, <2>1, <2>2, <2>3, CommandsDiffer
           DEF RunnerInv, StopOrder, OnStopLast, Active, Running, All, TypeOK
    <2>4. CASE barrier # OnStop
        <3>1. pc[OnStop] # "barrier" /\ pc[OnStop] # "running"
            BY Zenon, <2>1, <2>4, CommandsDiffer DEF RunnerInv, BarrierExact, Running
        <3>2. pc'[OnStop] \in {"running", "over"} => pc[OnStop] = "over" \/ barrier = Shutdown
            BY <2>1, <2>4, <3>1, CommandsDiffer DEF RunBarrier, EndTask, Answer, TypeOK
        <3>3. barrier = Shutdown => pc[OnStop] = "over"
            BY <2>1 DEF RunnerInv, StopOrder
        <3>4. pc[OnStop] = "over" => barrier \notin Cmd
            BY <2>1 DEF RunnerInv, OnStopLast, Active
        <3> QED
            BY Zenon, <2>1, <2>2, <3>2, <3>3, <3>4 DEF RunnerInv, OnStopLast, Active
    <2> QED
        BY Zenon, <2>3, <2>4
<1>6. LosslessStop'
    <2>1. barrier \in All /\ pc[barrier] = "barrier" /\ UNCHANGED <<poisoned, aborted>>
        BY Zenon DEF RunBarrier, TypeOK
    <2>2. CASE barrier = Shutdown
        <3>1. \A d \in Cmd : pc[d] \notin {"queued", "barrier", "running"}
            BY Zenon, <2>1, <2>2 DEF RunnerInv, StopOrder, OnStopLast, Active
        <3>2. \A d \in Cmd : result'[d] = result[d]
            BY Zenon, <2>2, <3>1, CommandsDiffer DEF RunBarrier, EndTask, All
        <3> QED
            BY Zenon, <2>1, <3>2 DEF RunnerInv, LosslessStop
    <2>3. CASE barrier # Shutdown
        <3>1. \A d \in All : result'[d] \in {result[d], "ok"}
            BY Zenon, <2>1, <2>3 DEF RunBarrier, Answer, TypeOK
        <3> QED
            BY <2>1, <3>1 DEF RunnerInv, LosslessStop, All
    <2> QED
        BY Zenon, <2>2, <2>3
<1>7. FailClosed'
    BY CommandsDiffer
       DEF TypeOK, RunnerInv, RunBarrier, EndTask, Answer, Drained, All, StopOrder,
           EndExact, FailClosed, Running
<1> QED
    BY Zenon, <1>1, <1>2, <1>3, <1>4, <1>5, <1>6, <1>7 DEF RunnerInv

\* Guest code ends.
LEMMA CompleteKeeps ==
    ASSUME TypeOK, RunnerInv, NEW c \in All, NEW out \in Outcomes, Complete(c, out)
    PROVE  RunnerInv'
<1>1. ChannelExact'
    BY CommandsDiffer
       DEF TypeOK, RunnerInv, Complete, Poisons, EndTask, Answer, Outcomes, All,
           StopOrder, EndExact, ChannelExact
<1>2. BarrierExact'
    BY CommandsDiffer
       DEF TypeOK, RunnerInv, Complete, Poisons, EndTask, Answer, Outcomes, All,
           StopOrder, EndExact, BarrierExact, Running
<1>3. StopOrder'
    BY CommandsDiffer
       DEF TypeOK, RunnerInv, Complete, Poisons, EndTask, Answer, Outcomes, All,
           StopOrder, EndExact
<1>4. EndExact'
    BY CommandsDiffer
       DEF TypeOK, RunnerInv, Complete, Poisons, EndTask, Answer, Outcomes, All,
           StopOrder, EndExact
<1>5. OnStopLast'
    BY CommandsDiffer
       DEF TypeOK, RunnerInv, Complete, Poisons, EndTask, Answer, Outcomes, All,
           StopOrder, EndExact, OnStopLast, Active
<1>6. LosslessStop'
    BY Zenon, CommandsDiffer
       DEF TypeOK, RunnerInv, Complete, Poisons, EndTask, Answer, Outcomes, All,
           StopOrder, EndExact, LosslessStop
<1>7. FailClosed'
    BY CommandsDiffer
       DEF TypeOK, RunnerInv, Complete, Poisons, EndTask, Answer, Outcomes, All,
           StopOrder, EndExact, FailClosed, Running
<1> QED
    BY Zenon, <1>1, <1>2, <1>3, <1>4, <1>5, <1>6, <1>7 DEF RunnerInv

\* The caller of running guest code is gone.
LEMMA CallerCanceledKeeps ==
    ASSUME TypeOK, RunnerInv, NEW c \in All, CallerCanceled(c)
    PROVE  RunnerInv'
<1>1. ChannelExact'
    BY CommandsDiffer
       DEF TypeOK, RunnerInv, CallerCanceled, EndTask, All, StopOrder, EndExact,
           ChannelExact
<1>2. BarrierExact'
    BY Zenon, CommandsDiffer
       DEF TypeOK, RunnerInv, CallerCanceled, EndTask, All, StopOrder, EndExact,
           BarrierExact, Running
<1>3. StopOrder'
    BY CommandsDiffer
       DEF TypeOK, RunnerInv, CallerCanceled, EndTask, All, StopOrder, EndExact
<1>4. EndExact'
    BY CommandsDiffer
       DEF TypeOK, RunnerInv, CallerCanceled, EndTask, All, StopOrder, EndExact
<1>5. OnStopLast'
    BY Zenon, CommandsDiffer
       DEF TypeOK, RunnerInv, CallerCanceled, EndTask, All, StopOrder, EndExact,
           OnStopLast, Active
<1>6. LosslessStop'
    BY Zenon, CommandsDiffer
       DEF TypeOK, RunnerInv, CallerCanceled, EndTask, All, StopOrder, EndExact,
           LosslessStop
<1>7. FailClosed'
    BY CommandsDiffer
       DEF TypeOK, RunnerInv, CallerCanceled, EndTask, All, StopOrder, EndExact,
           FailClosed, Running
<1> QED
    BY Zenon, <1>1, <1>2, <1>3, <1>4, <1>5, <1>6, <1>7 DEF RunnerInv

\* The runner task is aborted.
LEMMA AbortKeeps ==
    ASSUME TypeOK, RunnerInv, Abort
    PROVE  RunnerInv'
<1>1. ChannelExact'
    BY CommandsDiffer
       DEF TypeOK, RunnerInv, Abort, EndTask, All, StopOrder, EndExact, ChannelExact
<1>2. BarrierExact'
    BY Zenon, CommandsDiffer
       DEF TypeOK, RunnerInv, Abort, EndTask, All, StopOrder, EndExact,
           BarrierExact, Running
<1>3. StopOrder'
    BY CommandsDiffer DEF TypeOK, RunnerInv, Abort, EndTask, All, StopOrder, EndExact
<1>4. EndExact'
    BY Zenon, CommandsDiffer DEF TypeOK, RunnerInv, Abort, EndTask, All, StopOrder, EndExact
<1>5. OnStopLast'
    BY CommandsDiffer
       DEF TypeOK, RunnerInv, Abort, EndTask, All, StopOrder, EndExact, OnStopLast,
           Active
<1>6. LosslessStop'
    BY Zenon, CommandsDiffer
       DEF TypeOK, RunnerInv, Abort, EndTask, All, StopOrder, EndExact, LosslessStop
<1>7. FailClosed'
    BY CommandsDiffer
       DEF TypeOK, RunnerInv, Abort, EndTask, All, StopOrder, EndExact, FailClosed,
           Running
<1> QED
    BY Zenon, <1>1, <1>2, <1>3, <1>4, <1>5, <1>6, <1>7 DEF RunnerInv

\* The stop coordinator.
LEMMA StopKeeps ==
    ASSUME TypeOK, RunnerInv, Stop
    PROVE  RunnerInv'
<1>1. ChannelExact'
    BY CommandsDiffer
       DEF TypeOK, RunnerInv, Stop, StopIntake, SendOnStop, SendShutdown, Join,
           NoSender, All, StopOrder, EndExact, ChannelExact
<1>2. BarrierExact'
    BY CommandsDiffer
       DEF TypeOK, RunnerInv, Stop, StopIntake, SendOnStop, SendShutdown, Join,
           NoSender, All, StopOrder, EndExact, BarrierExact, Running
<1>3. StopOrder'
    BY CommandsDiffer
       DEF TypeOK, RunnerInv, Stop, StopIntake, SendOnStop, SendShutdown, Join,
           NoSender, All, StopOrder, EndExact
<1>4. EndExact'
    BY CommandsDiffer
       DEF TypeOK, RunnerInv, Stop, StopIntake, SendOnStop, SendShutdown, Join,
           NoSender, All, StopOrder, EndExact
<1>5. OnStopLast'
    BY Zenon, CommandsDiffer
       DEF TypeOK, RunnerInv, Stop, StopIntake, SendOnStop, SendShutdown, Join,
           NoSender, All, StopOrder, EndExact, OnStopLast, Active
<1>6. LosslessStop'
    BY Zenon, CommandsDiffer
       DEF TypeOK, RunnerInv, Stop, StopIntake, SendOnStop, SendShutdown, Join,
           NoSender, All, StopOrder, EndExact, LosslessStop
<1>7. FailClosed'
    BY Zenon, CommandsDiffer
       DEF TypeOK, RunnerInv, Stop, StopIntake, SendOnStop, SendShutdown, Join,
           NoSender, All, StopOrder, EndExact, FailClosed, Running
<1> QED
    BY Zenon, <1>1, <1>2, <1>3, <1>4, <1>5, <1>6, <1>7 DEF RunnerInv


\* The inductive invariant holds initially and is kept by every step.
LEMMA RunnerInvInit ==
    ASSUME Init PROVE RunnerInv
<1>1. /\ \A c \in All : pc[c] = "idle" /\ caller[c] = "waiting" /\ result[c] = "none"
      /\ queue = <<>> /\ Len(queue) = 0 /\ barrier = NoCmd /\ gone = FALSE /\ stop = "idle"
      /\ kindOf[OnStop] = "Lifecycle" /\ kindOf[Shutdown] = "Lifecycle"
    BY Zenon DEF Init
<1>2. ChannelExact /\ BarrierExact
    BY <1>1, CommandsDiffer DEF ChannelExact, BarrierExact, Running
<1>3. StopOrder
    BY <1>1, CommandsDiffer DEF StopOrder, All
<1>4. EndExact /\ OnStopLast /\ LosslessStop /\ FailClosed
    BY <1>1, CommandsDiffer DEF EndExact, OnStopLast, LosslessStop, FailClosed, All, Active
<1> QED
    BY <1>2, <1>3, <1>4 DEF RunnerInv

LEMMA RunnerInvStep ==
    ASSUME TypeOK, RunnerInv, [Next]_vars PROVE RunnerInv'
<1>1. CASE UNCHANGED vars
    BY <1>1 DEF vars, RunnerInv, ChannelExact, BarrierExact, StopOrder, EndExact,
        OnStopLast, LosslessStop, FailClosed, Running, Active
<1>2. CASE Next
    BY <1>2, CallKeeps, SendKeeps, CallerLeavesKeeps, RecvKeeps, RunBarrierKeeps, CompleteKeeps,
       CallerCanceledKeeps, AbortKeeps, StopKeeps DEF Next, Guest
<1> QED
    BY Zenon, <1>1, <1>2

\* TypeOK: every variable of the runner keeps its type.
THEOREM RunnerTypes == Spec => []TypeOK
<1>1. Init => TypeOK
    <2> SUFFICES ASSUME Init PROVE TypeOK
        OBVIOUS
    <2>1. kindOf \in [All -> {"Dispatch", "Hook", "Lifecycle"}]
        BY DEF Init
    <2>2. queue \in Seq(All) /\ Len(queue) =< Capacity /\ barrier \in All \cup {NoCmd}
        BY CommandsDiffer DEF Init
    <2>3. pc \in [All -> {"idle", "sending", "queued", "barrier", "running", "over"}]
        BY DEF Init
    <2>4. caller \in [All -> {"waiting", "gone"}]
        BY DEF Init
    <2>5. result \in [All -> {"none", "refused", "terminated"} \cup Outcomes]
        BY Zenon DEF Init
    <2> QED
        BY Zenon, <2>1, <2>2, <2>3, <2>4, <2>5 DEF Init, TypeOK
<1>2. TypeOK /\ [Next]_vars => TypeOK'
    <2> SUFFICES ASSUME TypeOK, [Next]_vars PROVE TypeOK'
        OBVIOUS
    <2>1. CASE UNCHANGED vars
        BY Zenon, <2>1 DEF TypeOK, vars
    <2>2. ASSUME NEW c \in All, Call(c) PROVE TypeOK'
        BY <2>2 DEF TypeOK, Call, Answer
    <2>3. ASSUME NEW c \in All, Send(c) PROVE TypeOK'
        <3>1. queue' \in Seq(All) /\ Len(queue') =< Capacity
            <4>1. /\ queue \in Seq(All) /\ Len(queue) =< Capacity
                  /\ queue' = queue \/ (Len(queue) < Capacity /\ queue' = Append(queue, c))
                BY Zenon, <2>3 DEF TypeOK, Send
            <4> QED
                BY <4>1, CommandsDiffer
        <3>2. pc' \in [All -> {"idle", "sending", "queued", "barrier", "running", "over"}]
            BY Zenon, <2>3 DEF TypeOK, Send, Answer
        <3>3. result' \in [All -> {"none", "refused", "terminated"} \cup Outcomes]
            BY Zenon, <2>3 DEF TypeOK, Send, Answer
        <3> QED
            BY Zenon, <2>3, <3>1, <3>2, <3>3 DEF TypeOK, Send
    <2>4. ASSUME NEW c \in All, CallerLeaves(c) PROVE TypeOK'
        BY <2>4 DEF TypeOK, CallerLeaves
    <2>5. CASE Recv
        <3>1. Head(queue) \in All /\ queue' \in Seq(All) /\ Len(queue') =< Capacity
            BY <2>5, CommandsDiffer DEF Recv, TypeOK
        <3> QED
            BY Zenon, <2>5, <3>1 DEF TypeOK, Recv
    <2>6. CASE RunBarrier
        <3>1. CASE EndTask(barrier, "ok") /\ UNCHANGED <<mode, kindOf, caller, stop, poisoned, aborted>>
            <4>1. barrier \in All \cup {NoCmd} /\ "ok" \in {"none"} \cup Outcomes
                BY Zenon DEF TypeOK, Outcomes
            <4> QED
                BY Zenon, <3>1, <4>1, EndTaskTypes DEF TypeOK
        <3>2. CASE ~EndTask(barrier, "ok")
            BY <2>6, <3>2 DEF TypeOK, RunBarrier, Answer, Outcomes
        <3> QED
            BY Zenon, <2>6, <3>1, <3>2 DEF RunBarrier
    <2>7. ASSUME NEW c \in All, NEW out \in Outcomes, Complete(c, out) PROVE TypeOK'
        <3>1. CASE Poisons(out)
            <4>1. EndTask(c, out) /\ poisoned' = TRUE /\ UNCHANGED <<mode, kindOf, caller, stop, aborted>>
                BY Zenon, <2>7, <3>1 DEF Complete
            <4> QED
                BY Zenon, <4>1, EndTaskTypes DEF TypeOK
        <3>2. CASE ~Poisons(out)
            BY Zenon, <2>7, <3>2 DEF TypeOK, Complete, Answer
        <3> QED
            BY <3>1, <3>2
    <2>8. ASSUME NEW c \in All, CallerCanceled(c) PROVE TypeOK'
        BY Zenon, <2>8, EndTaskTypes DEF TypeOK, CallerCanceled
    <2>9. CASE StopIntake \/ SendOnStop \/ SendShutdown \/ Join
        BY <2>9, CommandsDiffer DEF TypeOK, StopIntake, SendOnStop, SendShutdown, Join
    <2>10. CASE Abort
        BY Zenon, <2>10, EndTaskTypes DEF TypeOK, Abort
    <2> QED
        BY <2>1, <2>2, <2>3, <2>4, <2>5, <2>6, <2>7, <2>8, <2>9, <2>10, NextCases
<1> QED
    BY <1>1, <1>2, PTL DEF Spec
\* The inductive invariant of the runner, RunnerInv, holds in every state.
THEOREM RunnerInvariant == Spec => []RunnerInv
BY RunnerTypes, RunnerInvInit, RunnerInvStep, PTL DEF Spec

\* RunsAlone: a lifecycle hook never overlaps a dispatch, and the serial loop
\* runs one command at a time (run_loop, run_loop_interleaved).
THEOREM BarriersRunAlone == Spec => []RunsAlone
<1>1. RunnerInv => RunsAlone
    BY DEF RunnerInv, BarrierExact, RunsAlone
<1> QED
    BY <1>1, RunnerInvariant, PTL

\* OnStopLast: on_stop comes behind all admitted work (stop_intake, on_stop).
THEOREM OnStopComesLast == Spec => []OnStopLast
<1>1. RunnerInv => OnStopLast
    BY DEF RunnerInv
<1> QED
    BY <1>1, RunnerInvariant, PTL

\* LosslessStop: an ordered shutdown answers everything it admitted.
THEOREM StopIsLossless == Spec => []LosslessStop
<1>1. RunnerInv => LosslessStop
    BY DEF RunnerInv
<1> QED
    BY <1>1, RunnerInvariant, PTL

\* FailClosed: no sibling runs after a panic or a deadline (poisons_runner).
THEOREM PoisonIsFinal == Spec => []FailClosed
<1>1. RunnerInv => FailClosed
    BY DEF RunnerInv
<1> QED
    BY <1>1, RunnerInvariant, PTL

-----------------------------------------------------------------------------
(* Deduplication: whether a delivery runs the handler at all *)

\* DEDUP_TTL is positive.
LEMMA DedupTtl == Ttl \in Nat /\ 0 \in 0..Ttl /\ Ttl \in 0..Ttl
  BY DedupAssumption

\* The type invariant is inductive.
LEMMA DedupTypes == DedupSpec => []DedupTypeOK
  <1> USE DedupTtl
  <1>1. DedupInit => DedupTypeOK
    BY DEF DedupInit, DedupTypeOK, NoEntry, Entry, NoAnswer
  <1>2. DedupTypeOK /\ [DedupNext]_dedupVars => DedupTypeOK'
    <2> SUFFICES ASSUME DedupTypeOK, [DedupNext]_dedupVars PROVE DedupTypeOK'
      OBVIOUS
    <2>1. evict_expired \in [Id -> Entry]
      BY DEF DedupTypeOK, evict_expired, NoEntry, Entry, NoAnswer
    <2>2. ASSUME NEW d \in Delivery, Deny(d) PROVE DedupTypeOK'
      BY <2>2 DEF Deny, DedupTypeOK, Denied
    <2>3. ASSUME NEW d \in Delivery, Fresh(d) PROVE DedupTypeOK'
      <3>1. entries' \in [Id -> Entry]
        <4>1. [result |-> "InFlight", age |-> 0, value |-> NoAnswer] \in Entry
          BY DEF Entry, NoAnswer
        <4> QED
          BY Zenon, <2>1, <2>3, <4>1 DEF Fresh
      <3>2. idOf[d] \in Id /\ runs[idOf[d]] + 1 \in Nat
        BY DEF DedupTypeOK
      <3>3. /\ runs' \in [Id -> Nat] /\ joined' \in [Delivery -> Nat]
            /\ sinceRun' \in [Id -> 0..Ttl]
        BY Zenon, <2>3, <3>2 DEF Fresh, DedupTypeOK
      <3>4. stage' \in [Delivery -> {"new", "running", "waiting", "answered"}]
        BY Zenon, <2>3 DEF Fresh, DedupTypeOK
      <3> QED
        BY <2>3, <3>1, <3>3, <3>4 DEF Fresh, DedupTypeOK
    <2>4. ASSUME NEW d \in Delivery, InFlight(d) PROVE DedupTypeOK'
      <3>1. duplicate_wait_timeout(d) \in Nat
        <4>1. timeoutOf[d] \in Int
          BY Zenon, DedupAssumption DEF DedupTypeOK
        <4> QED
          BY <4>1 DEF duplicate_wait_timeout
      <3> QED
        BY <2>1, <2>4, <3>1 DEF InFlight, DedupTypeOK, Empty
    <2>5. ASSUME NEW d \in Delivery, Duplicate(d) PROVE DedupTypeOK'
      BY Zenon, <2>1, <2>5 DEF Duplicate, DedupTypeOK, Entry
    <2>6. ASSUME NEW d \in Delivery, NEW ok \in BOOLEAN, Finish(d, ok) PROVE DedupTypeOK'
      <3> DEFINE v == IF ok /\ idOf[d] \in tells THEN Empty ELSE joined[d]
      <3>1. v \in Int /\ idOf[d] \in Id
        BY DEF DedupTypeOK, Empty
      <3> HIDE DEF v
      <3>2. complete(idOf[d], v)
        BY Zenon, <2>6 DEF Finish, v
      <3>3. entries' \in [Id -> Entry] /\ waiter' \in [Delivery -> Int]
        <4>1. [entries EXCEPT ![idOf[d]].result = "Done", ![idOf[d]].value = v]
                 \in [Id -> Entry]
          BY <3>1, ZenonT(30) DEF DedupTypeOK, Entry
        <4> QED
          BY <3>1, <3>2, <4>1 DEF complete, DedupTypeOK
      <3>4. joined[d] \in Int
        BY DEF DedupTypeOK
      <3>5. /\ answer' \in [Delivery -> Int]
            /\ stage' \in [Delivery -> {"new", "running", "waiting", "answered"}]
        BY Zenon, <2>6, <3>4 DEF Finish, DedupTypeOK
      <3>6. sinceDone' \in [Id -> 0..Ttl]
        BY Zenon, <2>6, <3>1 DEF Finish, DedupTypeOK
      <3> QED
        BY Zenon, <2>6, <3>3, <3>5, <3>6 DEF Finish, DedupTypeOK
    <2>7. ASSUME NEW d \in Delivery, Resolve(d) \/ GiveUp(d) PROVE DedupTypeOK'
      BY <2>7 DEF Resolve, GiveUp, DedupTypeOK, TimedOut
    <2>8. CASE Tick
      <3>1. entries' \in [Id -> Entry]
        <4> DEFINE aged(i) == IF entries[i].result = "none" THEN NoEntry
                              ELSE [entries[i] EXCEPT !.age = Older(@)]
        <4>1. ASSUME NEW i \in Id PROVE aged(i) \in Entry
          <5>1. entries[i] \in Entry
            BY Zenon DEF DedupTypeOK
          <5>2. NoEntry \in Entry
            BY DedupTtl DEF Entry, NoEntry, NoAnswer
          <5>3. [entries[i] EXCEPT !.age = Older(@)] \in Entry
            BY <5>1, DedupTtl DEF Entry, Older
          <5> QED
            BY Zenon, <5>2, <5>3
        <4>2. entries' = [i \in Id |-> aged(i)]
          BY Zenon, <2>8 DEF Tick
        <4> HIDE DEF aged
        <4> QED
          BY Zenon, <4>1, <4>2
      <3> QED
        BY <2>8, <3>1 DEF Tick, DedupTypeOK, Older
    <2>9. CASE UNCHANGED dedupVars
      BY Zenon, <2>9 DEF dedupVars, DedupTypeOK
    <2> QED
      BY <2>2, <2>3, <2>4, <2>5, <2>6, <2>7, <2>8, <2>9 DEF DedupNext
  <1> QED
    BY <1>1, <1>2, PTL DEF DedupSpec

-----------------------------------------------------------------------------
(* The inductive invariant *)

\* What eviction leaves: an entry that is live, or none whose run is Ttl old.
LEMMA DedupEvicted ==
  ASSUME DedupTypeOK, RunBookkeeping, NEW i \in Id
  PROVE  /\ evict_expired[i].result = "none" => sinceRun[i] = Ttl
         /\ evict_expired[i].result # "none" => evict_expired[i] = entries[i]
         /\ evict_expired[i].result = "InFlight" <=> entries[i].result = "InFlight"
  <1>1. evict_expired[i] = IF Expired(entries[i]) THEN NoEntry ELSE entries[i]
    BY Zenon DEF evict_expired
  <1>2. entries[i] \in Entry /\ sinceRun[i] \in 0..Ttl
    BY Zenon DEF DedupTypeOK
  <1>3. Expired(entries[i]) => sinceRun[i] = Ttl /\ entries[i].result = "Done"
    <2> SUFFICES ASSUME Expired(entries[i]) PROVE sinceRun[i] = Ttl /\ entries[i].result = "Done"
      BY Zenon
    <2>1. entries[i].result = "Done" /\ entries[i].age >= Ttl
      BY Zenon DEF Expired
    <2>2. entries[i].age = sinceRun[i]
      BY Zenon, <2>1 DEF RunBookkeeping
    <2> QED
      BY <1>2, <2>1, <2>2, DedupTtl
  <1>4. CASE Expired(entries[i])
    <2>1. evict_expired[i].result = "none"
      BY <1>1, <1>4 DEF NoEntry
    <2> QED
      BY Zenon, <1>3, <1>4, <2>1
  <1>5. CASE ~Expired(entries[i])
    <2>1. evict_expired[i] = entries[i]
      BY Zenon, <1>1, <1>5
    <2> QED
      BY Zenon, <2>1 DEF RunBookkeeping
  <1> QED
    BY Zenon, <1>4, <1>5

LEMMA DedupInitInv == DedupInit => DedupInv
  <1> SUFFICES ASSUME DedupInit PROVE DedupInv
    OBVIOUS
  <1>1. OneRunAtATime /\ MarkerExact /\ AnsweredByOwnRun
    BY Zenon DEF DedupInit, OneRunAtATime, MarkerExact, AnsweredByOwnRun, NoEntry
  <1>2. RunBookkeeping
    BY Zenon DEF DedupInit, RunBookkeeping, NoEntry
  <1> QED
    BY <1>1, <1>2 DEF DedupInv

\* A delivery is answered and nothing else moves but evictions.
LEMMA DedupAnswer ==
  ASSUME DedupTypeOK, DedupInv, NEW d \in Delivery, NEW v \in Int,
         stage[d] \in {"new", "waiting"},
         stage' = [stage EXCEPT ![d] = "answered"],
         answer' = [answer EXCEPT ![d] = v],
         entries' \in {entries, evict_expired},
         joined' \in {joined, [joined EXCEPT ![d] = runs[idOf[d]]]},
         joined' = joined \/ stage[d] = "new",
         UNCHANGED <<idOf, tells, waiter, runs, sinceRun>>,
         v \in {TimedOut, Denied, joined'[d]}
                  \cup (IF idOf[d] \in tells THEN {Empty} ELSE {})
  PROVE  DedupInv'
  <1> USE DEF DedupInv
  <1>1. /\ stage'[d] = "answered" /\ answer'[d] = v
        /\ \A c \in Delivery : c # d =>
              stage'[c] = stage[c] /\ answer'[c] = answer[c] /\ joined'[c] = joined[c]
    BY Zenon DEF DedupTypeOK
  <1>2. \A i \in Id :
           /\ entries'[i].result = "InFlight" <=> entries[i].result = "InFlight"
           /\ entries'[i].result # "none" => entries'[i] = entries[i]
           /\ entries'[i].result = "none" => sinceRun[i] = Ttl
    <2>1. CASE entries' = entries
      BY Zenon, <2>1 DEF RunBookkeeping
    <2>2. CASE entries' = evict_expired
      BY Zenon, <2>2, DedupEvicted
    <2> QED
      BY Zenon, <2>1, <2>2
  <1>11. \A c \in Delivery : stage'[c] = "running" <=> stage[c] = "running"
    BY Zenon, <1>1
  <1>3. OneRunAtATime'
    BY Zenon, <1>11 DEF OneRunAtATime
  <1>4. MarkerExact'
    BY Zenon, <1>2, <1>11 DEF MarkerExact
  <1>5. AnsweredByOwnRun'
    <2>1. ASSUME NEW c \in Delivery, stage'[c] = "answered", answer'[c] \notin {TimedOut, Denied}
          PROVE  answer'[c] \in {joined'[c]} \cup (IF idOf[c] \in tells THEN {Empty} ELSE {})
      <3>1. CASE c = d
        BY Zenon, <1>1, <2>1, <3>1
      <3>2. CASE c # d
        BY Zenon, <1>1, <2>1, <3>2 DEF AnsweredByOwnRun
      <3> QED
        BY Zenon, <3>1, <3>2
    <2> QED
      BY Zenon, <2>1 DEF AnsweredByOwnRun
  <1>6. (\A i \in Id : IF entries[i].result = "none" THEN sinceRun[i] = Ttl
                       ELSE entries[i].age = sinceRun[i])'
    <2>1. \A i \in Id : entries[i].result # "none" => entries[i].age = sinceRun[i]
      BY Zenon DEF RunBookkeeping
    <2>2. \A i \in Id : entries'[i].result # "none" => entries'[i].age = sinceRun[i]
      BY Zenon, <1>2, <2>1
    <2> QED
      BY Zenon, <1>2, <2>2
  <1>7. (\A i \in Id : entries[i].result = "Done" =>
           entries[i].value \in {runs[i]} \cup (IF i \in tells THEN {Empty} ELSE {}))'
    BY Zenon, <1>2 DEF RunBookkeeping
  <1>8. ASSUME NEW c \in Delivery, stage'[c] \in {"running", "waiting"}, waiter'[c] = NoAnswer
        PROVE  joined'[c] = runs'[idOf'[c]] /\ entries'[idOf'[c]].result = "InFlight"
    <2>1. c # d
      BY Zenon, <1>1, <1>8
    <2>2. idOf[c] \in Id
      BY Zenon DEF DedupTypeOK
    <2>3. joined[c] = runs[idOf[c]] /\ entries[idOf[c]].result = "InFlight"
      BY Zenon, <1>1, <1>8, <2>1 DEF RunBookkeeping
    <2> QED
      BY Zenon, <1>1, <1>2, <2>1, <2>2, <2>3
  <1>9. ASSUME NEW c \in Delivery, waiter'[c] # NoAnswer
        PROVE  /\ stage'[c] \in {"waiting", "answered"}
               /\ waiter'[c] \in {joined'[c]} \cup (IF idOf'[c] \in tells' THEN {Empty} ELSE {})
    <2>1. waiter[c] # NoAnswer
      BY Zenon, <1>9
    <2>2. CASE c # d
      BY Zenon, <1>1, <2>1, <2>2 DEF RunBookkeeping
    <2>3. CASE c = d
      <3>1. stage[d] # "new"
        BY Zenon, <2>1, <2>3 DEF RunBookkeeping
      <3> QED
        BY Zenon, <1>1, <2>1, <2>3, <3>1 DEF RunBookkeeping
    <2> QED
      BY Zenon, <2>2, <2>3
  <1> QED
    BY Zenon, <1>3, <1>4, <1>5, <1>6, <1>7, <1>8, <1>9 DEF RunBookkeeping

LEMMA DedupFresh ==
  ASSUME DedupTypeOK, DedupInv, NEW d \in Delivery, Fresh(d)
  PROVE  DedupInv'
  <1> USE DEF DedupInv
  <1> DEFINE i == idOf[d]
  <1>0. i \in Id
    BY Zenon DEF DedupTypeOK
  <1>1. /\ stage[d] = "new" /\ stage'[d] = "running" /\ joined'[d] = runs[i] + 1
        /\ \A c \in Delivery : c # d => stage'[c] = stage[c] /\ joined'[c] = joined[c]
        /\ UNCHANGED <<idOf, tells, waiter, answer>>
    BY Zenon DEF Fresh, DedupTypeOK
  <1>2. /\ entries'[i] = [result |-> "InFlight", age |-> 0, value |-> NoAnswer]
        /\ runs'[i] = runs[i] + 1 /\ sinceRun'[i] = 0
        /\ \A h \in Id : h # i => /\ entries'[h] = evict_expired[h]
                                  /\ runs'[h] = runs[h] /\ sinceRun'[h] = sinceRun[h]
    BY Zenon, <1>0 DEF Fresh, DedupTypeOK, evict_expired
  <1>3. entries[i].result # "InFlight"
    BY Zenon, <1>0, DedupEvicted DEF Fresh
  <1>4. \A h \in Id : h # i =>
           /\ entries'[h].result = "InFlight" <=> entries[h].result = "InFlight"
           /\ entries'[h].result # "none" => entries'[h] = entries[h]
           /\ entries'[h].result = "none" => sinceRun[h] = Ttl
    BY Zenon, <1>2, DedupEvicted
  <1>5. \A c \in Delivery : idOf[c] \in Id
    BY Zenon DEF DedupTypeOK
  <1>e. entries'[i].result = "InFlight" /\ entries'[i].age = 0
    BY <1>2
  <1>r. /\ runs'[i] = runs[i] + 1 /\ sinceRun'[i] = 0
        /\ \A h \in Id : h # i => runs'[h] = runs[h] /\ sinceRun'[h] = sinceRun[h]
    BY Zenon, <1>2
  <1>s. stage'[d] = "running" /\ (\A c \in Delivery : c # d => stage'[c] = stage[c])
    BY Zenon, <1>1
  <1>u. idOf' = idOf /\ tells' = tells /\ waiter' = waiter
    BY Zenon, <1>1
  <1> HIDE DEF i
  <1>6. \A c \in Delivery : stage[c] = "running" => idOf[c] # i
    BY Zenon, <1>0, <1>3 DEF MarkerExact, i
  <1>7. OneRunAtATime'
    BY <1>1, <1>6 DEF OneRunAtATime, i
  <1>8. MarkerExact'
    <2>1. ASSUME NEW h \in Id
          PROVE  entries'[h].result = "InFlight" <=>
                    \E c \in Delivery : stage'[c] = "running" /\ idOf[c] = h
      <3>1. CASE h = i
        BY Zenon, <1>e, <1>s, <3>1 DEF i
      <3>2. CASE h # i
        <4>1. \A c \in Delivery : idOf[c] = h => stage'[c] = stage[c]
          BY <1>s, <3>2 DEF i
        <4>2. entries'[h].result = "InFlight" <=> entries[h].result = "InFlight"
          BY Zenon, <1>4, <3>2
        <4> QED
          BY <4>1, <4>2 DEF MarkerExact
      <3> QED
        BY Zenon, <3>1, <3>2
    <2> QED
      BY Zenon, <1>u, <2>1 DEF MarkerExact
  <1>9. AnsweredByOwnRun'
    BY <1>1 DEF AnsweredByOwnRun
  <1>10. (\A h \in Id : IF entries[h].result = "none" THEN sinceRun[h] = Ttl
                        ELSE entries[h].age = sinceRun[h])'
    <2>1. ASSUME NEW h \in Id
          PROVE  IF entries'[h].result = "none" THEN sinceRun'[h] = Ttl
                 ELSE entries'[h].age = sinceRun'[h]
      <3>1. CASE h = i
        BY Zenon, <1>e, <1>r, <3>1
      <3>2. CASE h # i
        BY <1>4, <1>r, <3>2 DEF RunBookkeeping
      <3> QED
        BY <3>1, <3>2
    <2> QED
      BY Zenon, <2>1
  <1>11. (\A h \in Id : entries[h].result = "Done" =>
            entries[h].value \in {runs[h]} \cup (IF h \in tells THEN {Empty} ELSE {}))'
    <2>1. ASSUME NEW h \in Id, entries'[h].result = "Done"
          PROVE  entries'[h] = entries[h] /\ runs'[h] = runs[h]
      BY Zenon, <1>4, <1>e, <1>r, <2>1
    <2> QED
      BY Zenon, <1>u, <2>1 DEF RunBookkeeping
  <1>12. ASSUME NEW c \in Delivery, stage'[c] \in {"running", "waiting"}, waiter'[c] = NoAnswer
         PROVE  joined'[c] = runs'[idOf'[c]] /\ entries'[idOf'[c]].result = "InFlight"
    <2>1. CASE c = d
      <3>1. idOf'[c] = i
        BY <1>u, <2>1 DEF i
      <3>2. joined'[c] = runs'[i]
        BY Zenon, <1>1, <1>r, <2>1
      <3> QED
        BY Zenon, <1>e, <3>1, <3>2
    <2>2. CASE c # d
      <3>1. joined[c] = runs[idOf[c]] /\ entries[idOf[c]].result = "InFlight"
        BY Zenon, <1>1, <1>12, <2>2 DEF RunBookkeeping
      <3>2. idOf[c] # i
        BY Zenon, <1>3, <3>1
      <3> QED
        BY Zenon, <1>1, <1>4, <1>5, <1>r, <1>u, <2>2, <3>1, <3>2
    <2> QED
      BY Zenon, <2>1, <2>2
  <1>13. ASSUME NEW c \in Delivery, waiter'[c] # NoAnswer
         PROVE  /\ stage'[c] \in {"waiting", "answered"}
                /\ waiter'[c] \in {joined'[c]} \cup (IF idOf'[c] \in tells' THEN {Empty} ELSE {})
    <2>1. waiter[c] # NoAnswer
      BY Zenon, <1>1, <1>13
    <2>2. c # d
      BY Zenon, <1>1, <2>1 DEF RunBookkeeping
    <2> QED
      BY Zenon, <1>1, <2>1, <2>2 DEF RunBookkeeping
  <1> QED
    BY Zenon, <1>7, <1>8, <1>9, <1>10, <1>11, <1>12, <1>13 DEF RunBookkeeping

\* A duplicate request begins to wait.
LEMMA DedupWait ==
  ASSUME DedupTypeOK, DedupInv, NEW d \in Delivery, InFlight(d),
         idOf[d] \notin tells
  PROVE  DedupInv'
  <1> USE DEF DedupInv
  <1>1. /\ stage[d] = "new" /\ stage'[d] = "waiting" /\ joined'[d] = runs[idOf[d]]
        /\ \A c \in Delivery : c # d => stage'[c] = stage[c] /\ joined'[c] = joined[c]
        /\ UNCHANGED <<idOf, tells, waiter, answer, runs, sinceRun>>
        /\ entries' = evict_expired
    BY Zenon DEF InFlight, DedupTypeOK
  <1>2. \A i \in Id :
           /\ entries'[i].result = "InFlight" <=> entries[i].result = "InFlight"
           /\ entries'[i].result # "none" => entries'[i] = entries[i]
           /\ entries'[i].result = "none" => sinceRun[i] = Ttl
    BY Zenon, <1>1, DedupEvicted
  <1>3. \A c \in Delivery : idOf[c] \in Id
    BY Zenon DEF DedupTypeOK
  <1>4. OneRunAtATime' /\ AnsweredByOwnRun'
    BY Zenon, <1>1 DEF OneRunAtATime, AnsweredByOwnRun
  <1>5. MarkerExact'
    <2>1. \A c \in Delivery : stage'[c] = "running" <=> stage[c] = "running"
      BY Zenon, <1>1
    <2>2. idOf' = idOf
      BY Zenon, <1>1
    <2> QED
      BY Zenon, <1>2, <2>1, <2>2 DEF MarkerExact
  <1>6. (\A i \in Id : IF entries[i].result = "none" THEN sinceRun[i] = Ttl
                       ELSE entries[i].age = sinceRun[i])'
    <2>1. sinceRun' = sinceRun
      BY Zenon, <1>1
    <2>2. \A i \in Id : IF entries'[i].result = "none" THEN sinceRun[i] = Ttl
                        ELSE entries'[i].age = sinceRun[i]
      BY <1>2 DEF RunBookkeeping
    <2> QED
      BY Zenon, <2>1, <2>2
  <1>7. (\A i \in Id : entries[i].result = "Done" =>
           entries[i].value \in {runs[i]} \cup (IF i \in tells THEN {Empty} ELSE {}))'
    BY Zenon, <1>1, <1>2 DEF RunBookkeeping
  <1>8. ASSUME NEW c \in Delivery, stage'[c] \in {"running", "waiting"}, waiter'[c] = NoAnswer
        PROVE  joined'[c] = runs'[idOf'[c]] /\ entries'[idOf'[c]].result = "InFlight"
    <2>1. CASE c = d
      BY Zenon, <1>1, <2>1 DEF InFlight
    <2>2. CASE c # d
      BY Zenon, <1>1, <1>2, <1>3, <1>8, <2>2 DEF RunBookkeeping
    <2> QED
      BY Zenon, <2>1, <2>2
  <1>9. ASSUME NEW c \in Delivery, waiter'[c] # NoAnswer
        PROVE  /\ stage'[c] \in {"waiting", "answered"}
               /\ waiter'[c] \in {joined'[c]} \cup (IF idOf'[c] \in tells' THEN {Empty} ELSE {})
    <2>1. waiter[c] # NoAnswer
      BY Zenon, <1>1, <1>9
    <2>2. c # d
      BY Zenon, <1>1, <2>1 DEF RunBookkeeping
    <2> QED
      BY Zenon, <1>1, <2>1, <2>2 DEF RunBookkeeping
  <1> QED
    BY Zenon, <1>4, <1>5, <1>6, <1>7, <1>8, <1>9 DEF RunBookkeeping

LEMMA DedupFinish ==
  ASSUME DedupTypeOK, DedupInv, NEW d \in Delivery, NEW ok \in BOOLEAN,
         Finish(d, ok)
  PROVE  DedupInv'
  <1> USE DEF DedupInv
  <1> DEFINE i == idOf[d]
             v == IF ok /\ i \in tells THEN Empty ELSE joined[d]
  <1>1. i \in Id /\ joined[d] \in Nat /\ \A c \in Delivery : idOf[c] \in Id
    BY Zenon DEF DedupTypeOK
  <1>2. stage[d] = "running" /\ entries[i].result = "InFlight"
    BY Zenon, <1>1 DEF Finish, MarkerExact
  <1>3. waiter[d] = NoAnswer /\ joined[d] = runs[i]
    BY Zenon, <1>2 DEF RunBookkeeping
  <1>4. v \in {runs[i]} \cup (IF i \in tells THEN {Empty} ELSE {}) /\ v # NoAnswer
    BY <1>1, <1>3 DEF NoAnswer, Empty
  <1>5. complete(i, v)
    BY Zenon DEF Finish
  <1>6. /\ stage'[d] = "answered" /\ answer'[d] = joined[d]
        /\ \A c \in Delivery : c # d => stage'[c] = stage[c] /\ answer'[c] = answer[c]
        /\ UNCHANGED <<idOf, tells, runs, joined, sinceRun>>
    BY DEF Finish, DedupTypeOK
  <1> HIDE DEF i, v
  <1>7. /\ entries'[i].result = "Done" /\ entries'[i].value = v
        /\ entries'[i].age = entries[i].age
        /\ \A h \in Id : h # i => entries'[h] = entries[h]
    BY <1>1, <1>2, <1>5 DEF complete, DedupTypeOK, Entry
  <1>8. \A c \in Delivery : waiter'[c] =
           IF stage[c] = "waiting" /\ idOf[c] = i /\ waiter[c] = NoAnswer
           THEN v ELSE waiter[c]
    BY Zenon, <1>2, <1>5 DEF complete
  <1>9. \A c \in Delivery : stage[c] = "running" /\ idOf[c] = i => c = d
    BY <1>2 DEF OneRunAtATime, i
  <1>10. OneRunAtATime'
    BY Zenon, <1>6 DEF OneRunAtATime
  <1>11. MarkerExact'
    <2>1. ASSUME NEW h \in Id
          PROVE  entries'[h].result = "InFlight" <=>
                    \E c \in Delivery : stage'[c] = "running" /\ idOf[c] = h
      <3>1. CASE h = i
        BY Zenon, <1>6, <1>7, <1>9, <3>1
      <3>2. CASE h # i
        <4>1. \A c \in Delivery : idOf[c] = h => (stage'[c] = "running" <=> stage[c] = "running")
          BY Zenon, <1>6, <3>2 DEF i
        <4>2. entries'[h] = entries[h]
          BY Zenon, <1>7, <3>2
        <4> QED
          BY Zenon, <4>1, <4>2 DEF MarkerExact
      <3> QED
        BY Zenon, <3>1, <3>2
    <2> QED
      BY Zenon, <1>6, <2>1 DEF MarkerExact
  <1>12. AnsweredByOwnRun'
    BY Zenon, <1>6 DEF AnsweredByOwnRun
  <1>13. (\A h \in Id : IF entries[h].result = "none" THEN sinceRun[h] = Ttl
                        ELSE entries[h].age = sinceRun[h])'
    <2>1. sinceRun' = sinceRun
      BY Zenon, <1>6
    <2>2. \A h \in Id : IF entries[h].result = "none" THEN sinceRun[h] = Ttl
                        ELSE entries[h].age = sinceRun[h]
      BY Zenon DEF RunBookkeeping
    <2>3. entries[i].age = sinceRun[i]
      BY Zenon, <1>1, <1>2, <2>2
    <2> QED
      BY <1>7, <2>1, <2>2, <2>3
  <1>14. (\A h \in Id : entries[h].result = "Done" =>
            entries[h].value \in {runs[h]} \cup (IF h \in tells THEN {Empty} ELSE {}))'
    BY Zenon, <1>4, <1>6, <1>7 DEF RunBookkeeping
  <1>15. ASSUME NEW c \in Delivery, stage'[c] \in {"running", "waiting"}, waiter'[c] = NoAnswer
         PROVE  joined'[c] = runs'[idOf'[c]] /\ entries'[idOf'[c]].result = "InFlight"
    <2>1. c # d /\ stage[c] \in {"running", "waiting"}
      BY Zenon, <1>6, <1>15
    <2>2. waiter[c] = NoAnswer
      BY <1>4, <1>8, <1>15
    <2>3. idOf[c] # i
      BY Zenon, <1>4, <1>8, <1>9, <1>15, <2>1, <2>2
    <2>4. joined[c] = runs[idOf[c]] /\ entries[idOf[c]].result = "InFlight"
      BY Zenon, <2>1, <2>2 DEF RunBookkeeping
    <2> QED
      BY Zenon, <1>1, <1>6, <1>7, <2>3, <2>4
  <1>16. ASSUME NEW c \in Delivery, waiter'[c] # NoAnswer
         PROVE  /\ stage'[c] \in {"waiting", "answered"}
                /\ waiter'[c] \in {joined'[c]} \cup (IF idOf'[c] \in tells' THEN {Empty} ELSE {})
    <2>1. CASE waiter[c] # NoAnswer
      <3>1. c # d
        BY Zenon, <1>3, <2>1
      <3> QED
        BY Zenon, <1>6, <1>8, <2>1, <3>1 DEF RunBookkeeping
    <2>2. CASE waiter[c] = NoAnswer
      <3>1. stage[c] = "waiting" /\ idOf[c] = i /\ waiter'[c] = v
        BY Zenon, <1>8, <1>16, <2>2
      <3>2. c # d /\ joined[c] = runs[i]
        BY <1>2, <2>2, <3>1 DEF RunBookkeeping
      <3> QED
        BY <1>4, <1>6, <3>1, <3>2
    <2> QED
      BY Zenon, <2>1, <2>2
  <1> QED
    BY Zenon, <1>10, <1>11, <1>12, <1>13, <1>14, <1>15, <1>16 DEF RunBookkeeping

LEMMA DedupTick ==
  ASSUME DedupTypeOK, DedupInv, Tick
  PROVE  DedupInv'
  <1> USE DEF DedupInv
  <1>1. ASSUME NEW i \in Id
        PROVE  /\ entries'[i].result = entries[i].result
               /\ entries[i].result # "none" => entries'[i].value = entries[i].value
               /\ IF entries'[i].result = "none" THEN sinceRun'[i] = Ttl
                  ELSE entries'[i].age = sinceRun'[i]
    <2>1. entries[i] \in Entry /\ sinceRun[i] \in 0..Ttl /\ sinceRun'[i] = Older(sinceRun[i])
      BY Zenon DEF Tick, DedupTypeOK
    <2>2. CASE entries[i].result = "none"
      BY <2>1, <2>2, DedupTtl DEF Tick, NoEntry, Older, RunBookkeeping
    <2>3. CASE entries[i].result # "none"
      <3>1. entries'[i] = [entries[i] EXCEPT !.age = Older(@)]
        BY <2>3 DEF Tick
      <3> QED
        BY <2>1, <2>3, <3>1 DEF Entry, RunBookkeeping
    <2> QED
      BY <2>2, <2>3
  <1>2. UNCHANGED <<idOf, tells, stage, waiter, answer, runs, joined>>
    BY DEF Tick
  <1>3. \A d \in Delivery : idOf[d] \in Id
    BY Zenon DEF DedupTypeOK
  <1>4. OneRunAtATime' /\ MarkerExact' /\ AnsweredByOwnRun'
    BY Zenon, <1>1, <1>2 DEF OneRunAtATime, MarkerExact, AnsweredByOwnRun
  <1>5. RunBookkeeping'
    BY Zenon, <1>1, <1>2, <1>3 DEF RunBookkeeping
  <1> QED
    BY Zenon, <1>4, <1>5

LEMMA DedupStep == DedupTypeOK /\ DedupInv /\ [DedupNext]_dedupVars => DedupInv'
  <1> SUFFICES ASSUME DedupTypeOK, DedupInv, [DedupNext]_dedupVars PROVE DedupInv'
    OBVIOUS
  <1>1. ASSUME NEW d \in Delivery, Deny(d) PROVE DedupInv'
    <2>1. Denied \in Int
      BY DEF Denied
    <2> QED
      BY Zenon, <1>1, <2>1, DedupAnswer DEF Deny
  <1>2. ASSUME NEW d \in Delivery, Fresh(d) PROVE DedupInv'
    BY Zenon, <1>2, DedupFresh
  <1>3. ASSUME NEW d \in Delivery, InFlight(d) PROVE DedupInv'
    <2>1. CASE idOf[d] \in tells
      <3>1. Empty \in Int
        BY DEF Empty
      <3> QED
        BY Zenon, <1>3, <2>1, <3>1, DedupAnswer DEF InFlight
    <2> QED
      BY Zenon, <1>3, <2>1, DedupWait
  <1>4. ASSUME NEW d \in Delivery, Duplicate(d) PROVE DedupInv'
    <2>1. idOf[d] \in Id /\ joined'[d] = runs[idOf[d]] /\ entries[idOf[d]].value \in Int
      BY Zenon, <1>4 DEF Duplicate, DedupTypeOK, Entry
    <2>2. entries[idOf[d]].result = "Done"
      BY Zenon, <1>4, <2>1, DedupEvicted DEF Duplicate, DedupInv
    <2>3. entries[idOf[d]].value
            \in {joined'[d]} \cup (IF idOf[d] \in tells THEN {Empty} ELSE {})
      BY <2>1, <2>2 DEF DedupInv, RunBookkeeping
    <2> QED
      BY Zenon, <1>4, <2>1, <2>3, DedupAnswer DEF Duplicate
  <1>5. ASSUME NEW d \in Delivery, NEW ok \in BOOLEAN, Finish(d, ok) PROVE DedupInv'
    BY Zenon, <1>5, DedupFinish
  <1>6. ASSUME NEW d \in Delivery, Resolve(d) PROVE DedupInv'
    <2>1. waiter[d] \in Int
      BY DEF DedupTypeOK
    <2>2. waiter[d] \in {joined[d]} \cup (IF idOf[d] \in tells THEN {Empty} ELSE {})
      BY Zenon, <1>6 DEF Resolve, DedupInv, RunBookkeeping
    <2> QED
      BY Zenon, <1>6, <2>1, <2>2, DedupAnswer DEF Resolve
  <1>7. ASSUME NEW d \in Delivery, GiveUp(d) PROVE DedupInv'
    <2>1. TimedOut \in Int
      BY DEF TimedOut
    <2> QED
      BY Zenon, <1>7, <2>1, DedupAnswer DEF GiveUp
  <1>8. CASE Tick
    BY Zenon, <1>8, DedupTick
  <1>9. CASE UNCHANGED dedupVars
    <2> USE <1>9 DEF dedupVars
    <2>1. OneRunAtATime' /\ MarkerExact'
      BY Zenon DEF DedupInv, OneRunAtATime, MarkerExact
    <2>2. AnsweredByOwnRun' /\ RunBookkeeping'
      BY DEF DedupInv, AnsweredByOwnRun, RunBookkeeping
    <2> QED
      BY Zenon, <2>1, <2>2 DEF DedupInv
  <1> QED
    BY Zenon, <1>1, <1>2, <1>3, <1>4, <1>5, <1>6, <1>7, <1>8, <1>9 DEF DedupNext

\* A request is never re-entered while it is in flight, its marker is neither
\* lost nor leaked, and every answer is that of the run the delivery joined
\* (check_or_mark, complete, wait_for_inflight_duplicate).
THEOREM DedupCorrect == DedupSpec => []DedupInv
  <1>1. DedupTypeOK /\ DedupInv /\ [DedupNext]_dedupVars => DedupInv'
    BY DedupStep
  <1>2. DedupSpec => []DedupTypeOK
    BY DedupTypes
  <1> QED
    BY <1>1, <1>2, DedupInitInv, PTL DEF DedupSpec

\* Two runs of one request_id start at least Ttl apart (evict_expired).
THEOREM RunsSpacedCorrect == DedupSpec => RunsSpaced
  <1>1. DedupTypeOK /\ DedupInv /\ [DedupNext]_dedupVars
          => [\A i \in Id : runs'[i] # runs[i] => sinceRun[i] = Ttl]_dedupVars
    <2> SUFFICES ASSUME DedupTypeOK, DedupInv, DedupNext,
                        NEW i \in Id, runs'[i] # runs[i]
                 PROVE  sinceRun[i] = Ttl
      OBVIOUS
    <2>1. PICK d \in Delivery : Fresh(d)
      BY Zenon DEF DedupNext, Deny, InFlight, Duplicate, Resolve, GiveUp, Finish,
             Tick
    <2>2. idOf[d] = i
      BY <2>1 DEF Fresh, DedupTypeOK
    <2> QED
      BY Zenon, <2>1, <2>2, DedupEvicted DEF Fresh, DedupInv
  <1>2. DedupSpec => []DedupTypeOK
    BY DedupTypes
  <1>3. DedupSpec => []DedupInv
    BY Zenon, DedupCorrect
  <1> QED
    BY <1>1, <1>2, <1>3, PTL DEF DedupSpec, RunsSpaced

-----------------------------------------------------------------------------
(* The mailbox and its watchdog *)

\* A batch lists queued rows, each once, in the order of the sort, and leaves
\* no row behind that comes before one of them.
LEMMA BatchShape ==
  ASSUME NEW s \in Batches
  PROVE  /\ s \in Seq(Message)
         /\ \A i \in DOMAIN s : s[i] \in Queued
         /\ \A i, j \in DOMAIN s : s[i] = s[j] => i = j
         /\ \A i, j \in DOMAIN s : i < j => ~Before(s[j], s[i])
         /\ \A i \in DOMAIN s, b \in Queued :
               (\A j \in DOMAIN s : s[j] # b) => ~Before(b, s[i])
  <1>1. PICK n \in 0..BatchSize, S \in Selections : s \in Bijection(1..n, S)
    BY DEF Batches
  <1>2. S \subseteq Queued /\ \A a \in S, b \in Queued \ S : ~Before(b, a)
    BY Zenon DEF Selections
  <1>3. S \subseteq Message
    BY Zenon, <1>2 DEF Queued
  <1>4. n \in Nat
    BY MailboxAssumption
  <1>5. /\ s \in Seq(S)
        /\ \A i, j \in DOMAIN s : s[i] = s[j] => i = j
        /\ \A x \in S : \E i \in DOMAIN s : s[i] = x
    BY <1>1, <1>4 DEF Bijection, Injection, Surjection, IsInjective
  <1>6. s \in Seq(Message) /\ \A i \in DOMAIN s : s[i] \in S
    BY <1>3, <1>5
  <1>7. \A i, j \in DOMAIN s : i < j => ~Before(s[j], s[i])
    BY DEF Batches, Sorted
  <1> QED
    BY Zenon, <1>2, <1>5, <1>6, <1>7

\* A batch goes behind everything handed out so far.
LEMMA WatchDequeue ==
  ASSUME WatchTypeOK, FifoPerPriority, HandedFirst,
         NEW s \in Batches, Dequeue(s)
  PROVE  FifoPerPriority' /\ HandedFirst'
  <1>0. /\ handed \in Seq(Message) /\ \A n \in Message : created_at[n] \in Nat /\ priority[n] \in Int
    <2>1. Priorities \subseteq Int
      BY MailboxAssumption
    <2> QED
      BY Zenon, <2>1 DEF WatchTypeOK, TableTypeOK
  <1>1. /\ handed' = handed \o s /\ UNCHANGED <<priority, created_at, clock>>
        /\ \A n \in Message : status'[n] =
              IF \E i \in DOMAIN s : s[i] = n THEN "Inflight" ELSE status[n]
    BY Zenon DEF Dequeue, Take, Range
  <1>2. /\ s \in Seq(Message)
        /\ \A i \in DOMAIN s : s[i] \in Queued
        /\ \A i, j \in DOMAIN s : i < j => ~Before(s[j], s[i])
        /\ \A i \in DOMAIN s, b \in Queued : (\A j \in DOMAIN s : s[j] # b) => ~Before(b, s[i])
    BY Zenon, BatchShape
  <1>3. /\ \A n \in Message : created_at[n] <= clock
        /\ \A i \in DOMAIN handed :
              /\ status[handed[i]] \notin {"new", "Queued"}
              /\ \A n \in Queued :
                    priority[handed[i]] = priority[n] => created_at[handed[i]] <= created_at[n]
    BY Zenon DEF HandedFirst
  <1>4. \A i \in DOMAIN handed' :
           \/ i \in DOMAIN handed /\ handed'[i] = handed[i]
           \/ /\ i - Len(handed) \in DOMAIN s /\ handed'[i] = s[i - Len(handed)]
              /\ \A j \in DOMAIN handed : j < i
    BY <1>0, <1>1, <1>2
  <1>5. ASSUME NEW i \in DOMAIN handed', NEW j \in DOMAIN handed', i < j,
               priority'[handed'[i]] = priority'[handed'[j]]
        PROVE  created_at'[handed'[i]] <= created_at'[handed'[j]]
    <2>0. i \in Int /\ j \in Int /\ Len(handed) \in Int
      BY <1>0, <1>1, <1>2
    <2>1. CASE i \in DOMAIN handed /\ j \in DOMAIN handed
      <3>1. handed'[i] = handed[i] /\ handed'[j] = handed[j]
        BY <1>0, <1>1, <1>2, <2>1
      <3> QED
        BY Zenon, <1>1, <1>5, <2>1, <3>1 DEF FifoPerPriority
    <2>2. CASE i \in DOMAIN handed /\ j \notin DOMAIN handed
      <3>1. handed'[i] = handed[i] /\ handed'[j] \in Queued
        BY <1>0, <1>1, <1>2, <1>4, <2>2
      <3> QED
        BY Zenon, <1>1, <1>3, <1>5, <2>2, <3>1
    <2>3. CASE i \notin DOMAIN handed /\ j \notin DOMAIN handed
      <3>1. PICK k \in DOMAIN s, l \in DOMAIN s : k < l /\ handed'[i] = s[k] /\ handed'[j] = s[l]
        BY <1>4, <1>5, <2>0, <2>3
      <3>2. ~Before(s[l], s[k])
        BY Zenon, <1>2, <3>1
      <3>3. s[k] \in Message /\ s[l] \in Message
        BY Zenon, <1>2 DEF Queued
      <3>4. created_at[s[k]] <= created_at[s[l]]
        <4>1. /\ created_at[s[k]] \in Nat /\ created_at[s[l]] \in Nat
              /\ priority[s[k]] \in Int /\ priority[s[k]] = priority[s[l]]
          BY Zenon, <1>0, <1>1, <1>5, <3>1, <3>3
        <4> QED
          BY <3>2, <4>1 DEF Before
      <3> QED
        BY Zenon, <1>1, <3>1, <3>4
    <2>4. CASE i \notin DOMAIN handed /\ j \in DOMAIN handed
      BY <1>4, <1>5, <2>0, <2>4
    <2> QED
      BY Zenon, <2>1, <2>2, <2>3, <2>4
  <1>6. ASSUME NEW i \in DOMAIN handed'
        PROVE  /\ status'[handed'[i]] \notin {"new", "Queued"}
               /\ \A n \in Message : status'[n] = "Queued" /\ priority'[handed'[i]] = priority'[n]
                     => created_at'[handed'[i]] <= created_at'[n]
    <2>1. CASE i \in DOMAIN handed /\ handed'[i] = handed[i]
      <3>1. handed[i] \in Message /\ status[handed[i]] \notin {"new", "Queued"}
        BY <1>0, <1>3, <2>1
      <3>2. \A n \in Message : status'[n] = "Queued" => n \in Queued
        BY Zenon, <1>1 DEF Queued
      <3> QED
        BY Zenon, <1>1, <1>3, <2>1, <3>1, <3>2
    <2>2. CASE i - Len(handed) \in DOMAIN s /\ handed'[i] = s[i - Len(handed)]
      <3>1. PICK k \in DOMAIN s : handed'[i] = s[k] /\ s[k] \in Message
        BY Zenon, <1>2, <2>2 DEF Queued
      <3>2. status'[s[k]] = "Inflight"
        BY Zenon, <1>1, <3>1
      <3>3. ASSUME NEW n \in Message, status'[n] = "Queued", priority[s[k]] = priority[n]
            PROVE  created_at[s[k]] <= created_at[n]
        <4>1. n \in Queued /\ \A j \in DOMAIN s : s[j] # n
          BY Zenon, <1>1, <3>3 DEF Queued
        <4>2. ~Before(n, s[k])
          BY Zenon, <1>2, <3>1, <4>1
        <4> QED
          BY <1>0, <3>1, <3>3, <4>2 DEF Before
      <3> QED
        BY Zenon, <1>1, <3>1, <3>2, <3>3
    <2> QED
      BY Zenon, <1>4, <2>1, <2>2
  <1>7. FifoPerPriority'
    BY Zenon, <1>5 DEF FifoPerPriority
  <1>8. HandedFirst'
    BY Zenon, <1>1, <1>3, <1>6 DEF HandedFirst, Queued
  <1> QED
    BY <1>7, <1>8

\* What comes in is behind everything handed out, and an ack changes nothing.
LEMMA WatchOrder ==
  ASSUME WatchTypeOK, FifoPerPriority, HandedFirst, WatchNext
  PROVE  FifoPerPriority' /\ HandedFirst'
  <1>0. /\ handed \in Seq(Message) /\ clock \in Nat
        /\ \A n \in Message : created_at[n] \in Nat /\ created_at[n] <= clock
        /\ \A i \in DOMAIN handed : handed[i] \in Message /\ status[handed[i]] \notin {"new", "Queued"}
    BY DEF WatchTypeOK, TableTypeOK, HandedFirst
  <1>1. ASSUME NEW m \in Message, Insert(m), UNCHANGED handed
        PROVE  FifoPerPriority' /\ HandedFirst'
    <2>1. /\ UNCHANGED priority /\ status[m] = "new" /\ clock' \in {clock, clock + 1}
          /\ \A n \in Message : /\ created_at'[n] = IF n = m THEN clock' ELSE created_at[n]
                                /\ status'[n] = IF n = m THEN "Queued" ELSE status[n]
      BY Zenon, <1>1 DEF Insert, WatchTypeOK, TableTypeOK
    <2>2. \A i \in DOMAIN handed : /\ handed[i] # m /\ handed'[i] = handed[i]
                                   /\ created_at'[handed'[i]] = created_at[handed[i]]
                                   /\ status'[handed'[i]] = status[handed[i]]
      BY Zenon, <1>0, <1>1, <2>1
    <2>3. FifoPerPriority'
      BY Zenon, <1>1, <2>1, <2>2 DEF FifoPerPriority
    <2>4. \A n \in Message : created_at'[n] <= clock'
      BY <1>0, <2>1
    <2>5. ASSUME NEW i \in DOMAIN handed, NEW n \in Message, status'[n] = "Queued",
                 priority[handed[i]] = priority[n]
          PROVE  created_at[handed[i]] <= created_at'[n]
      <3>1. CASE n = m
        BY <1>0, <2>1, <3>1
      <3>2. CASE n # m
        BY Zenon, <2>1, <2>5, <3>2 DEF HandedFirst, Queued
      <3> QED
        BY Zenon, <3>1, <3>2
    <2>6. HandedFirst'
      BY Zenon, <1>0, <1>1, <2>1, <2>2, <2>4, <2>5 DEF HandedFirst, Queued
    <2> QED
      BY <2>3, <2>6
  <1>2. ASSUME UNCHANGED <<handed, priority, created_at, clock>>,
               \A n \in Message : status'[n] = status[n] \/ (status[n] = "Inflight" /\ status'[n] = "acked")
        PROVE  FifoPerPriority' /\ HandedFirst'
    <2>1. FifoPerPriority'
      BY Zenon, <1>2 DEF FifoPerPriority
    <2>2. \A n \in Message : /\ status'[n] = "Queued" <=> status[n] = "Queued"
                             /\ status'[n] = "new" <=> status[n] = "new"
      BY Zenon, <1>2
    <2>3. HandedFirst'
      BY Zenon, <1>0, <1>2, <2>2 DEF HandedFirst, Queued
    <2> QED
      BY Zenon, <2>1, <2>3
  <1>3. ASSUME NEW m \in Message, EnqueueRow(m) \/ EnqueueCountFails(m)
        PROVE  FifoPerPriority' /\ HandedFirst'
    BY <1>1, <1>3 DEF EnqueueRow, EnqueueCountFails
  <1>4. ASSUME NEW m \in Message, Report(m)
        PROVE  FifoPerPriority' /\ HandedFirst'
    BY Zenon, <1>2, <1>4 DEF Report, tableVars
  <1>5. ASSUME NEW m \in Message, Ack(m)
        PROVE  FifoPerPriority' /\ HandedFirst'
    <2>1. \A n \in Message : status'[n] = status[n] \/ (status[n] = "Inflight" /\ status'[n] = "acked")
      BY Zenon, <1>5 DEF Ack, Delete, WatchTypeOK, TableTypeOK
    <2> QED
      BY Zenon, <1>2, <1>5, <2>1 DEF Ack, Delete
  <1> QED
    BY Zenon, <1>3, <1>4, <1>5, WatchDequeue DEF WatchNext

\* A report is made once, and only a rising flag swallows one.
LEMMA WatchKnown ==
  ASSUME WatchTypeOK, CrossingKnown, WatchNext
  PROVE  CrossingKnown'
  <1>0. /\ \A n \in Message : depth[n] \in Nat \cup {NoDepth}
        /\ NoDepth = -1 /\ fired \in Nat /\ crossings \in Nat /\ triggered \in BOOLEAN
        /\ Threshold \in Nat \ {0}
    BY Zenon, BackpressureAssumption DEF WatchTypeOK, NoDepth
  <1>1. /\ triggered => fired > 0
        /\ \A n \in Message : depth[n] # NoDepth => status[n] # "new"
        /\ \A n \in Message : depth[n] # NoDepth \/ status[n] = "new" => returned[n] = "pending"
        /\ crossings > 0 => fired > 0 \/ \E n \in Message :
              depth[n] >= Threshold \/ (status[n] # "new" /\ returned[n] = "Err")
    BY Zenon DEF CrossingKnown
  <1>2. ASSUME UNCHANGED <<depth, returned, triggered, fired, crossings>>,
               \A n \in Message : status[n] # "new" => status'[n] # "new"
        PROVE  CrossingKnown'
    BY Zenon, <1>1, <1>2 DEF CrossingKnown
  <1>3. ASSUME NEW m \in Message, EnqueueRow(m) PROVE CrossingKnown'
    <2>1. PICK c : /\ c = Cardinality(Queued')
                   /\ \A n \in Message : depth'[n] = IF n = m THEN c ELSE depth[n]
      BY Zenon, <1>3 DEF EnqueueRow, WatchTypeOK
    <2>2. /\ crossings' = crossings \/ c >= Threshold
          /\ UNCHANGED <<returned, triggered, fired>> /\ status[m] = "new"
          /\ \A n \in Message : status'[n] = IF n = m THEN "Queued" ELSE status[n]
      BY Zenon, <1>3, <2>1 DEF EnqueueRow, CountCrossing, Insert, WatchTypeOK,
                        TableTypeOK
    <2>3. depth[m] = NoDepth
      BY <1>1, <2>2
    <2>4. returned[m] = "pending"
      BY Zenon, <1>1, <2>2
    <2> QED
      BY <1>0, <1>1, <2>1, <2>2, <2>3, <2>4 DEF CrossingKnown
  <1>4. ASSUME NEW m \in Message, EnqueueCountFails(m) PROVE CrossingKnown'
    <2>1. /\ UNCHANGED <<depth, triggered, fired>> /\ status[m] = "new"
          /\ \A n \in Message : /\ status'[n] = IF n = m THEN "Queued" ELSE status[n]
                                /\ returned'[n] = IF n = m THEN "Err" ELSE returned[n]
      BY Zenon, <1>4 DEF EnqueueCountFails, Insert, WatchTypeOK, TableTypeOK
    <2>2. depth[m] = NoDepth
      BY Zenon, <1>1, <2>1
    <2> QED
      BY <1>1, <2>1, <2>2 DEF CrossingKnown
  <1>5. ASSUME NEW m \in Message, Report(m) PROVE CrossingKnown'
    <2>1. /\ UNCHANGED <<status, crossings>> /\ depth[m] # NoDepth
          /\ \A n \in Message : /\ depth'[n] = IF n = m THEN NoDepth ELSE depth[n]
                                /\ returned'[n] = IF n = m THEN "Ok" ELSE returned[n]
      BY <1>5 DEF Report, tableVars, WatchTypeOK
    <2>2. /\ triggered' <=> depth[m] >= Threshold
          /\ fired' = IF depth[m] >= Threshold /\ ~triggered THEN fired + 1 ELSE fired
      BY Zenon, <1>5 DEF Report, fire_if_rising
    <2>3. /\ depth[m] >= Threshold => fired' > 0
          /\ fired > 0 => fired' > 0
          /\ triggered' => fired' > 0
      BY <1>0, <1>1, <2>2
    <2>4. returned[m] = "pending"
      BY Zenon, <1>1, <2>1
    <2>5. crossings' > 0 => fired' > 0 \/ \E n \in Message :
              depth'[n] >= Threshold \/ (status'[n] # "new" /\ returned'[n] = "Err")
      BY Zenon, <1>1, <2>1, <2>3, <2>4
    <2>6. \A n \in Message : depth'[n] # NoDepth => n # m /\ depth[n] # NoDepth
      BY Zenon, <2>1
    <2>7. status'[m] # "new"
      BY Zenon, <1>1, <2>1
    <2> QED
      BY Zenon, <1>1, <2>1, <2>3, <2>5, <2>6, <2>7 DEF CrossingKnown
  <1>6. ASSUME NEW m \in Message, Ack(m) PROVE CrossingKnown'
    <2>1. \A n \in Message : status[n] # "new" => status'[n] # "new"
      BY Zenon, <1>6 DEF Ack, Delete, WatchTypeOK, TableTypeOK
    <2>2. \A n \in Message : status'[n] = "new" => status[n] = "new"
      BY Zenon, <1>6 DEF Ack, Delete, WatchTypeOK, TableTypeOK
    <2> QED
      BY <1>2, <1>6, <2>1, <2>2 DEF Ack
  <1>7. ASSUME NEW s \in Batches, Dequeue(s) PROVE CrossingKnown'
    <2>1. \A n \in Message : status'[n] = "new" <=> status[n] = "new"
      <3>1. \A i \in DOMAIN s : s[i] \in Queued
        BY Zenon, BatchShape
      <3>2. \A n \in Message : status'[n] = IF \E i \in DOMAIN s : s[i] = n THEN "Inflight" ELSE status[n]
        BY Zenon, <1>7 DEF Dequeue, Take, Range
      <3> QED
        BY <3>1, <3>2 DEF Queued
    <2> QED
      BY Zenon, <1>2, <1>7, <2>1 DEF Dequeue
  <1> QED
    BY Zenon, <1>3, <1>4, <1>5, <1>6, <1>7 DEF WatchNext

LEMMA WatchInitTypes ==
  ASSUME WatchInit
  PROVE  WatchTypeOK
  <1>1. TableTypeOK
    BY Zenon DEF WatchInit, TableInit, TableTypeOK
  <1>2. depth \in [Message -> Nat \cup {NoDepth}]
    BY Zenon DEF WatchInit
  <1>3. returned \in [Message -> {"pending", "Ok", "Err"}]
    BY Zenon DEF WatchInit
  <1>4. handed \in Seq(Message)
    BY DEF WatchInit
  <1>5. triggered \in BOOLEAN /\ fired \in Nat /\ crossings \in Nat
    BY Zenon DEF WatchInit
  <1> QED
    BY Zenon, <1>1, <1>2, <1>3, <1>4, <1>5 DEF WatchTypeOK

\* The depth enqueue counts is a number because the table is finite.
INSTANCE FiniteSetTheorems

LEMMA WatchType ==
  ASSUME WatchTypeOK, WatchNext
  PROVE  WatchTypeOK'
  <1>0. /\ priority \in [Message -> Priorities]
        /\ status \in [Message -> {"new", "Queued", "Inflight", "acked"}]
        /\ created_at \in [Message -> Nat] /\ clock \in Nat
        /\ depth \in [Message -> Nat \cup {NoDepth}]
        /\ returned \in [Message -> {"pending", "Ok", "Err"}] /\ handed \in Seq(Message)
        /\ triggered \in BOOLEAN /\ fired \in Nat /\ crossings \in Nat
    BY Zenon DEF WatchTypeOK, TableTypeOK
  <1> USE DEF WatchTypeOK, TableTypeOK
  <1>1. ASSUME NEW m \in Message, Insert(m)
        PROVE  TableTypeOK' /\ Cardinality(Queued') \in Nat
    <2>1. TableTypeOK'
      BY <1>0, <1>1 DEF Insert
    <2>2. IsFiniteSet(Queued')
      BY Zenon, MailboxAssumption, FS_Subset DEF Queued
    <2>3. Cardinality(Queued') = Cardinality(Queued')
      BY DEF Cardinality, Cardinality
    <2> QED
      BY Zenon, <2>1, <2>2, <2>3, FS_CardinalityType
  <1>2. ASSUME NEW m \in Message, EnqueueRow(m) PROVE WatchTypeOK'
    <2>1. TableTypeOK' /\ Cardinality(Queued') \in Nat
      BY Zenon, <1>1, <1>2 DEF EnqueueRow
    <2>2. PICK c \in Nat : depth' = [depth EXCEPT ![m] = c]
      BY Zenon, <1>2, <2>1 DEF EnqueueRow
    <2>3. crossings' \in Nat /\ UNCHANGED <<returned, handed, triggered, fired>>
      BY <1>0, <1>2 DEF EnqueueRow, CountCrossing
    <2>4. depth' \in [Message -> Nat \cup {NoDepth}]
      BY <1>0, <2>2
    <2> QED
      BY Zenon, <1>0, <2>1, <2>3, <2>4
  <1>3. ASSUME NEW m \in Message, EnqueueCountFails(m) PROVE WatchTypeOK'
    <2>1. TableTypeOK'
      BY Zenon, <1>1, <1>3 DEF EnqueueCountFails
    <2>2. /\ crossings' \in Nat /\ UNCHANGED <<depth, handed, triggered, fired>>
          /\ returned' = [returned EXCEPT ![m] = "Err"]
      BY <1>0, <1>3 DEF EnqueueCountFails, CountCrossing
    <2> QED
      BY Zenon, <1>0, <2>1, <2>2
  <1>4. ASSUME NEW m \in Message, Report(m) PROVE WatchTypeOK'
    <2>1. triggered' \in BOOLEAN /\ fired' \in Nat
      BY <1>0, <1>4 DEF Report, fire_if_rising
    <2>2. /\ depth' = [depth EXCEPT ![m] = NoDepth]
          /\ returned' = [returned EXCEPT ![m] = "Ok"]
          /\ UNCHANGED <<priority, status, created_at, clock, handed, crossings>>
      BY Zenon, <1>4 DEF Report, tableVars
    <2>3. depth' \in [Message -> Nat \cup {NoDepth}]
      BY <1>0, <2>2
    <2> QED
      BY Zenon, <1>0, <2>1, <2>2, <2>3
  <1>5. ASSUME NEW m \in Message, Ack(m) PROVE WatchTypeOK'
    BY Zenon, <1>0, <1>5 DEF Ack, Delete
  <1>6. ASSUME NEW s \in Batches, Dequeue(s) PROVE WatchTypeOK'
    <2>1. s \in Seq(Message)
      BY Zenon, BatchShape
    <2>2. handed' \in Seq(Message)
      BY <1>0, <1>6, <2>1 DEF Dequeue
    <2> QED
      BY Zenon, <1>0, <1>6, <2>2 DEF Dequeue, Take
  <1> QED
    BY Zenon, <1>2, <1>3, <1>4, <1>5, <1>6 DEF WatchNext

\* FifoPerPriority: dequeue's ORDER BY, LIMIT and sort hand out the messages of
\* a priority in the order of their INSERTs, for every batch size.
THEOREM MailboxFifo == WatchSpec => []FifoPerPriority
  <1> DEFINE Inv == WatchTypeOK /\ FifoPerPriority /\ HandedFirst
  <1>1. WatchInit => Inv
    <2> SUFFICES ASSUME WatchInit PROVE Inv
      OBVIOUS
    <2>1. WatchTypeOK
      BY Zenon, WatchInitTypes
    <2>2. handed = <<>> /\ \A n \in Message : created_at[n] = 0 /\ clock = 0
      BY Zenon DEF WatchInit, TableInit
    <2> QED
      BY <2>1, <2>2 DEF FifoPerPriority, HandedFirst
  <1>2. Inv /\ [WatchNext]_watchVars => Inv'
    <2> SUFFICES ASSUME Inv, [WatchNext]_watchVars PROVE Inv'
      OBVIOUS
    <2>1. CASE WatchNext
      BY Zenon, <2>1, WatchType, WatchOrder
    <2>2. CASE UNCHANGED watchVars
      BY <2>2 DEF watchVars, tableVars, WatchTypeOK, TableTypeOK, FifoPerPriority,
                  HandedFirst, Queued
    <2> QED
      BY Zenon, <2>1, <2>2
  <1> QED
    BY <1>1, <1>2, PTL DEF WatchSpec

\* FirstOverloadSignalled: fire_if_rising is called with a count at the
\* threshold by the first enqueue that reaches it, and calls the hook.
THEOREM FirstOverload == WatchSpec => []FirstOverloadSignalled
  <1> DEFINE Inv == WatchTypeOK /\ CrossingKnown
  <1>1. WatchInit => Inv
    <2> SUFFICES ASSUME WatchInit PROVE Inv
      OBVIOUS
    <2>1. WatchTypeOK
      BY Zenon, WatchInitTypes
    <2> QED
      BY Zenon, <2>1 DEF WatchInit, CrossingKnown
  <1>2. Inv /\ [WatchNext]_watchVars => Inv'
    <2> SUFFICES ASSUME Inv, [WatchNext]_watchVars PROVE Inv'
      OBVIOUS
    <2>1. CASE WatchNext
      BY Zenon, <2>1, WatchType, WatchKnown
    <2>2. CASE UNCHANGED watchVars
      BY Zenon, <2>2 DEF watchVars, tableVars, WatchTypeOK, TableTypeOK, CrossingKnown
    <2> QED
      BY Zenon, <2>1, <2>2
  <1>3. Inv => FirstOverloadSignalled
    <2> SUFFICES ASSUME Inv, \A m \in Message : status[m] # "new" => returned[m] = "Ok",
                        crossings > 0
                 PROVE  fired > 0
      BY Zenon DEF FirstOverloadSignalled
    <2>1. \A m \in Message : depth[m] = NoDepth
      BY Zenon DEF CrossingKnown
    <2>2. \A m \in Message : ~(depth[m] >= Threshold)
      BY <2>1, BackpressureAssumption DEF NoDepth
    <2> QED
      BY Zenon, <2>2 DEF CrossingKnown
  <1> QED
    BY <1>1, <1>2, <1>3, PTL DEF WatchSpec
=============================================================================
