---------------------------- MODULE ActorRunner ----------------------------
(***************************************************************************)
(* The actor runner, core/hyper/src/executor.rs: one task that owns the    *)
(* workload and executes the commands of a bounded channel, either one at  *)
(* a time (run_loop) or with dispatches interleaved and every other        *)
(* command a barrier (run_loop_interleaved).  Callers send under the read  *)
(* side of the intake lock; shutdown closes it, sends on_stop and then     *)
(* Shutdown behind everything admitted, and joins.                         *)
(*                                                                         *)
(* Guest code may panic, exceed its deadline, or lose its caller while it  *)
(* runs; the interleaved runner is then poisoned and ends at once.         *)
(***************************************************************************)
EXTENDS Integers, FiniteSets, Sequences

CONSTANTS
    Cmd,        \* ordinary commands
    OnStop,     \* the lifecycle command sent by the stop coordinator
    Shutdown,   \* ActorCmd::Shutdown
    NoCmd,
    Modes,      \* RunnerMode values to explore
    Capacity    \* RUNNER_QUEUE_CAPACITY

ASSUME RunnerAssumption ==
    /\ Capacity \in Nat \ {0}
    /\ Modes \subseteq {"Serial", "Interleaved"}
    /\ OnStop \notin Cmd /\ Shutdown \notin Cmd /\ NoCmd \notin Cmd
    /\ OnStop # Shutdown /\ NoCmd # OnStop /\ NoCmd # Shutdown

All == Cmd \cup {OnStop, Shutdown}

VARIABLES
    mode,       \* which loop was spawned
    kindOf,     \* "Dispatch", "Hook" (hooks and data chunks) or "Lifecycle"
    pc,         \* where each command is
    caller,     \* whether someone still waits for the reply
    result,     \* the reply
    queue,      \* the mpsc channel
    barrier,    \* command taken from the channel that must run alone
    gone,       \* the runner task has ended
    stop,       \* the stop coordinator (ActorHandle::stop_intake, on_stop, shutdown)
    poisoned,   \* history: ended by a panic, a deadline or a lost caller
    aborted     \* history: ended by abort()

vars == <<mode, kindOf, pc, caller, result, queue, barrier, gone, stop, poisoned, aborted>>

Running == {c \in All : pc[c] = "running"}

Init ==
    /\ mode \in Modes
    /\ kindOf \in {k \in [All -> {"Dispatch", "Hook", "Lifecycle"}] :
                      k[OnStop] = "Lifecycle" /\ k[Shutdown] = "Lifecycle"}
    /\ pc = [c \in All |-> "idle"]
    /\ caller = [c \in All |-> "waiting"]
    /\ result = [c \in All |-> "none"]
    /\ queue = <<>>
    /\ barrier = NoCmd
    /\ gone = FALSE
    /\ stop = "idle"
    /\ poisoned = FALSE
    /\ aborted = FALSE

\* The command is over, with reply r.
Answer(c, r) ==
    /\ pc' = [pc EXCEPT ![c] = "over"]
    /\ result' = [result EXCEPT ![c] = r]

\* The task ends, with reply r for command c: all reply channels it holds, in
\* the mpsc buffer or in futures, are dropped.
EndTask(c, r) ==
    LET held == {d \in All : pc[d] \in {"queued", "barrier", "running"}} IN
    /\ gone' = TRUE
    /\ queue' = <<>>
    /\ barrier' = NoCmd
    /\ pc' = [d \in All |-> IF d \in held THEN "over" ELSE pc[d]]
    /\ result' = [d \in All |-> IF d = c THEN r
                                ELSE IF d \in held THEN "terminated" ELSE result[d]]

-----------------------------------------------------------------------------
(* Callers: call_admitted, call_raw *)

\* The read lock, which waits behind a waiting stop_intake.
Call(c) ==
    /\ c \in Cmd
    /\ pc[c] = "idle"
    /\ stop # "closing"
    /\ IF stop = "idle"
       THEN pc' = [pc EXCEPT ![c] = "sending"] /\ UNCHANGED result
       ELSE Answer(c, "refused")
    /\ UNCHANGED <<mode, kindOf, caller, queue, barrier, gone, stop, poisoned, aborted>>

\* tx.send: waits for capacity, fails when the receiver is gone.
Send(c) ==
    /\ pc[c] = "sending"
    /\ IF gone
       THEN Answer(c, "terminated") /\ UNCHANGED queue
       ELSE /\ Len(queue) < Capacity
            /\ queue' = Append(queue, c)
            /\ pc' = [pc EXCEPT ![c] = "queued"]
            /\ UNCHANGED result
    /\ UNCHANGED <<mode, kindOf, caller, barrier, gone, stop, poisoned, aborted>>

\* The future of the call is dropped: the guard and the receiver with it.
CallerLeaves(c) ==
    /\ c \in Cmd
    /\ caller[c] = "waiting"
    /\ pc[c] \in {"sending", "queued", "barrier", "running"}
    /\ caller' = [caller EXCEPT ![c] = "gone"]
    /\ pc' = [pc EXCEPT ![c] = IF @ = "sending" THEN "over" ELSE @]
    /\ UNCHANGED <<mode, kindOf, result, queue, barrier, gone, stop, poisoned, aborted>>

-----------------------------------------------------------------------------
(* run_loop and run_loop_interleaved *)

\* The serial loop runs every command alone.
IsBarrier(c) == mode = "Serial" \/ kindOf[c] # "Dispatch"

\* Take the next command; one that nobody waits for is skipped.
Recv ==
    LET c == Head(queue) IN
    /\ ~gone
    /\ barrier = NoCmd
    /\ queue # <<>>
    /\ queue' = Tail(queue)
    /\ \/ /\ caller[c] = "gone"
          /\ pc' = [pc EXCEPT ![c] = "over"]
          /\ UNCHANGED barrier
       \/ /\ caller[c] = "waiting" /\ IsBarrier(c)
          /\ pc' = [pc EXCEPT ![c] = "barrier"]
          /\ barrier' = c
       \/ /\ caller[c] = "waiting" /\ ~IsBarrier(c)
          /\ pc' = [pc EXCEPT ![c] = "running"]
          /\ UNCHANGED barrier
    /\ UNCHANGED <<mode, kindOf, caller, result, gone, stop, poisoned, aborted>>

\* Mutant: the barrier does not wait for the dispatches in flight.
Drained_No == TRUE

Drained == Running = {}

\* The dispatches in flight are drained: execute the barrier.  Hooks mean
\* nothing to the interleaved (linked) workload.
RunBarrier ==
    LET c == barrier IN
    /\ c # NoCmd
    /\ pc[c] = "barrier"
    /\ Drained
    /\ \/ /\ c = Shutdown
          /\ EndTask(c, "ok")
       \/ /\ c # Shutdown
          /\ mode = "Interleaved" /\ kindOf[c] = "Hook"
          /\ Answer(c, "ok")
          /\ barrier' = NoCmd
          /\ UNCHANGED <<queue, gone>>
       \/ /\ c # Shutdown
          /\ mode = "Serial" \/ kindOf[c] # "Hook"
          /\ pc' = [pc EXCEPT ![c] = "running"]
          /\ UNCHANGED <<result, queue, barrier, gone>>
    /\ UNCHANGED <<mode, kindOf, caller, stop, poisoned, aborted>>

\* Mutant: a panic is survived in both modes.
Poisons_Timeout(out) == mode = "Interleaved" /\ out = "timeout"

\* poisons_runner: the serial loop contains panics and has no deadline.
Poisons(out) == mode = "Interleaved" /\ out \in {"panic", "timeout"}

\* Guest code ends.  A deadline is armed only on interleaved dispatches.
Complete(c, out) ==
    /\ pc[c] = "running"
    /\ out = "timeout" => mode = "Interleaved" /\ kindOf[c] = "Dispatch"
    /\ IF Poisons(out)
       THEN EndTask(c, out) /\ poisoned' = TRUE
       ELSE /\ Answer(c, out)
            /\ barrier' = IF barrier = c THEN NoCmd ELSE barrier
            /\ UNCHANGED <<queue, gone, poisoned>>
    /\ UNCHANGED <<mode, kindOf, caller, stop, aborted>>

\* The caller left while guest code was running: both loops end.
CallerCanceled(c) ==
    /\ pc[c] = "running"
    /\ caller[c] = "gone"
    /\ EndTask(c, "none")
    /\ poisoned' = TRUE
    /\ UNCHANGED <<mode, kindOf, caller, stop, aborted>>

-----------------------------------------------------------------------------
(* Shutdown: stop_intake, on_stop, shutdown, join *)

StopIntake ==
    /\ stop = "idle"
    /\ stop' = "closing"
    /\ UNCHANGED <<mode, kindOf, pc, caller, result, queue, barrier, gone, poisoned, aborted>>

\* Mutant: on_stop is sent without waiting for the senders.
NoSender_No == TRUE

\* The write lock comes free when no sender holds the read side.
NoSender == \A c \in Cmd : pc[c] # "sending"

SendOnStop ==
    /\ stop = "closing"
    /\ NoSender
    /\ stop' = "on_stop"
    /\ pc' = [pc EXCEPT ![OnStop] = "sending"]
    /\ UNCHANGED <<mode, kindOf, caller, result, queue, barrier, gone, poisoned, aborted>>

\* Mutant: a failed on_stop is returned as the error of the shutdown.
SendShutdown_OkOnly ==
    /\ stop = "on_stop"
    /\ pc[OnStop] = "over" /\ result[OnStop] = "ok"
    /\ stop' = "shutdown"
    /\ pc' = [pc EXCEPT ![Shutdown] = "sending"]
    /\ UNCHANGED <<mode, kindOf, caller, result, queue, barrier, gone, poisoned, aborted>>

\* An error of on_stop is only logged.
SendShutdown ==
    /\ stop = "on_stop"
    /\ pc[OnStop] = "over"
    /\ stop' = "shutdown"
    /\ pc' = [pc EXCEPT ![Shutdown] = "sending"]
    /\ UNCHANGED <<mode, kindOf, caller, result, queue, barrier, gone, poisoned, aborted>>

Join ==
    /\ stop = "shutdown"
    /\ pc[Shutdown] = "over"
    /\ gone
    /\ stop' = "joined"
    /\ UNCHANGED <<mode, kindOf, pc, caller, result, queue, barrier, gone, poisoned, aborted>>

\* abort(): the stop coordinator was cancelled or exceeded its time, at any
\* point of the shutdown or before it.
Abort ==
    /\ ~gone
    /\ EndTask(NoCmd, "none")
    /\ aborted' = TRUE
    /\ UNCHANGED <<mode, kindOf, caller, stop, poisoned>>

-----------------------------------------------------------------------------
Outcomes == {"ok", "panic", "timeout"}

Guest(c) == (\E out \in Outcomes : Complete(c, out)) \/ CallerCanceled(c)

Stop == StopIntake \/ SendOnStop \/ SendShutdown \/ Join

Next ==
    \/ \E c \in All : Call(c) \/ Send(c) \/ CallerLeaves(c) \/ Guest(c)
    \/ Recv \/ RunBarrier \/ Stop \/ Abort

Spec == Init /\ [][Next]_vars

\* The runner and the callers are polled, and guest code does not hang.
FairSpec ==
    /\ Spec
    /\ WF_vars(Recv) /\ WF_vars(RunBarrier)
    /\ WF_vars(SendOnStop) /\ WF_vars(SendShutdown) /\ WF_vars(Join)
    /\ \A c \in All : WF_vars(Guest(c)) /\ SF_vars(Send(c))

-----------------------------------------------------------------------------
(* Properties *)

TypeOK ==
    /\ mode \in Modes
    /\ kindOf \in [All -> {"Dispatch", "Hook", "Lifecycle"}]
    /\ pc \in [All -> {"idle", "sending", "queued", "barrier", "running", "over"}]
    /\ caller \in [All -> {"waiting", "gone"}]
    /\ result \in [All -> {"none", "refused", "terminated"} \cup Outcomes]
    /\ queue \in Seq(All) /\ Len(queue) =< Capacity
    /\ barrier \in All \cup {NoCmd}
    /\ gone \in BOOLEAN /\ poisoned \in BOOLEAN /\ aborted \in BOOLEAN
    /\ stop \in {"idle", "closing", "on_stop", "shutdown", "joined"}

Active(c) == pc[c] \in {"sending", "queued", "barrier", "running"}

\* Everything but interleaved dispatches runs alone: the serial loop is one
\* command at a time, and a lifecycle hook never overlaps a dispatch
\* (run_loop_interleaved: "runs the barrier command alone").
RunsAlone ==
    \A c, d \in Running : mode = "Serial" \/ kindOf[c] # "Dispatch" => c = d

\* on_stop comes behind every command that was admitted before the intake
\* closed, and no ordinary command runs next to it or after it (stop_intake,
\* on_stop through call_raw).
OnStopLast ==
    pc[OnStop] \in {"running", "over"} => \A c \in Cmd : ~Active(c)

\* An ordered shutdown loses nothing: an admitted command is answered
\* "terminated" only if the runner was poisoned or aborted (shutdown).
LosslessStop ==
    \A c \in Cmd : result[c] = "terminated" => poisoned \/ aborted

\* After a panic or an expired deadline, no sibling touches the state of an
\* interleaved workload again (InterleavedDispatchCompletion::poisons_runner).
FailClosed ==
    mode = "Interleaved" /\ (\E c \in All : result[c] \in {"panic", "timeout"}) =>
        gone /\ Running = {}

\* The inductive invariant: what the channel and the barrier slot hold, and in
\* which order the stop coordinator's commands follow the ordinary ones.
ChannelExact ==
    /\ \A i \in 1..Len(queue) : pc[queue[i]] = "queued"
    /\ \A i, j \in 1..Len(queue) : queue[i] = queue[j] => i = j
    /\ \A c \in All : pc[c] = "queued" => \E i \in 1..Len(queue) : queue[i] = c
BarrierExact ==
    /\ barrier # NoCmd => pc[barrier] \in {"barrier", "running"}
    /\ \A c \in All : pc[c] = "barrier" => barrier = c
    /\ \A c \in Running : (mode = "Serial" \/ kindOf[c] # "Dispatch") => barrier = c
    /\ barrier \in Running => Running = {barrier}
StopOrder ==
    /\ caller[OnStop] = "waiting" /\ caller[Shutdown] = "waiting"
    /\ kindOf[OnStop] = "Lifecycle" /\ kindOf[Shutdown] = "Lifecycle"
    /\ stop \in {"idle", "closing"} <=> pc[OnStop] = "idle"
    /\ stop \in {"idle", "closing", "on_stop"} <=> pc[Shutdown] = "idle"
    /\ pc[OnStop] # "idle" => \A c \in Cmd : pc[c] # "sending"
    /\ \A i, j \in 1..Len(queue) : queue[i] = OnStop /\ i < j => queue[j] = Shutdown
    /\ pc[OnStop] = "barrier" => \A c \in Cmd : pc[c] \notin {"queued", "barrier"}
    /\ pc[Shutdown] # "idle" => pc[OnStop] = "over"
    /\ pc[Shutdown] # "running"
EndExact ==
    /\ gone => \A c \in All : pc[c] \notin {"queued", "barrier", "running"}
    /\ gone => poisoned \/ aborted \/ pc[Shutdown] = "over"
RunnerInv ==
    ChannelExact /\ BarrierExact /\ StopOrder /\ EndExact
    /\ OnStopLast /\ LosslessStop /\ FailClosed

\* Shutdown ends, whatever on_stop does and even if the runner is dead.
StopEnds == stop = "closing" ~> stop = "joined"
=============================================================================
