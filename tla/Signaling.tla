------------------------------ MODULE Signaling ------------------------------
(***************************************************************************)
(* The signaling client of a node:                                         *)
(* core/hyper/src/wire/webrtc/signaling.rs (WebSocketSignalingClient).     *)
(*                                                                         *)
(* Several tasks share one client: explicit callers of connect_once,       *)
(* disconnect and probe_alive, and the reconnect manager, which runs the   *)
(* same steps with a generation that an explicit disconnect invalidates.   *)
(* Each live socket has a receiver task; one ping task watches whatever    *)
(* sink is installed.  The module has the steps of the client; Session     *)
(* composes them with the tasks that call it.                              *)
(***************************************************************************)
EXTENDS Integers

CONSTANTS
    User,           \* the tasks that call the client
    Sockets,        \* bound: sockets that exist at a time
    MaxAttempts,    \* reconnect_config.max_attempts
    MaxFaults       \* bound: sockets that break and dials that fail

ASSUME SignalingAssumption ==
    /\ "mgr" \notin User
    /\ Sockets \in Nat \ {0}
    /\ MaxAttempts \in Nat \ {0}
    /\ MaxFaults \in Nat

Mgr == "mgr"
Task == User \cup {Mgr}
Socket == 1..Sockets

VARIABLES
    connected, connecting,  \* the two atomic flags
    suppressed, gen,        \* auto_reconnect_suppressed, reconnect_generation
    permit,                 \* the stored permit of reconnect_notify
    reset,                  \* backoff was reset since the manager last looked
    sink, stream,           \* the installed halves, 0 for None
    receiver,               \* the socket whose receiver is in receiver_task
    ping,                   \* the ping task runs
    reads,                  \* the sockets whose receiver task runs
    alive,                  \* the sockets whose peer still answers
    who,                    \* the identity each socket was dialled with
    hand,                   \* the socket of the attempt that holds connecting
    id,                     \* actor_id and credential_state of the client
    pc,                     \* where each task is in the client
    stage,                  \* where each task is in its own code
    was,                    \* disconnects that found the client connected
    mgen, att,              \* the manager's generation and attempts
    faults

flags == <<connected, connecting, suppressed, gen, permit, reset>>
socks == <<sink, stream, receiver, ping, reads, alive, who, hand>>
mgr == <<mgen, att>>
svars == <<flags, socks, id, pc, stage, was, mgr, faults>>

\* Steps of connect_once that hold the connecting flag.
Owning == {"dial", "dialed", "sinked", "live"}

\* A client that start-up has connected with its first identity.
SignalingInit ==
    /\ connected = TRUE /\ connecting = FALSE
    /\ suppressed = FALSE /\ gen = 0
    /\ permit = FALSE /\ reset = FALSE
    /\ sink = 1 /\ stream = 0 /\ receiver = 1 /\ ping = TRUE
    /\ reads = {1} /\ alive = {1}
    /\ who = [k \in Socket |-> 0] /\ hand = 0 /\ id = 0
    /\ pc = [t \in Task |-> "idle"] /\ stage = [t \in Task |-> "idle"]
    /\ was = {} /\ mgen = 0 /\ att = 0 /\ faults = 0

auto_reconnect_cancelled == suppressed \/ gen # mgen

\* A task goes on, and an event reaches the tasks that wait for one.
Goto(t, l) == pc' = [pc EXCEPT ![t] = l]
Heard(e) == [s \in Task |-> IF pc[s] = "wait" THEN (IF e = "down" /\ s = Mgr THEN "err" ELSE e) ELSE pc[s]]
Send(t, l, e) == pc' = [Heard(e) EXCEPT ![t] = l]

\* publish_disconnected_transition outside of a task's own call.
Publish(notify) ==
    /\ connected' = FALSE
    /\ permit' = (permit \/ (connected /\ notify))
    /\ pc' = IF connected THEN Heard("down") ELSE pc

\* A socket nothing refers to any more stands for the next one; without one
\* the dial fails.
Free == Socket \ ({sink, stream, receiver, hand} \cup reads)
NewSocket == IF Free = {} THEN 0 ELSE CHOOSE k \in Free : \A j \in Free : k <= j

-----------------------------------------------------------------------------
(* connect_once, and connect_once_for_auto_reconnect for the manager. *)

Cancelled(t) == t = Mgr /\ auto_reconnect_cancelled

\* The first load of connected.
Look(t) ==
    /\ pc[t] = "look"
    /\ Goto(t, IF Cancelled(t) THEN "err" ELSE IF connected THEN "ok" ELSE "cas")
    /\ UNCHANGED <<flags, socks, id, stage, was, mgr, faults>>

\* Mutant: the owner trusts the load it made before it took the flag.
Cas_NoRecheck(t) ==
    /\ pc[t] = "cas"
    /\ IF connecting
         THEN Goto(t, IF connected THEN "ok" ELSE "wait") /\ UNCHANGED <<connecting, hand, who>>
         ELSE /\ Goto(t, "dial")
              /\ connecting' = TRUE
              /\ hand' = NewSocket /\ who' = [k \in Socket |-> IF k = NewSocket THEN id ELSE who[k]]
    /\ UNCHANGED <<connected, suppressed, gen, permit, reset, sink, stream, receiver, ping, reads, alive, id, stage, was, mgr, faults>>

\* The compare_exchange on connecting.  The owner looks again, then builds
\* its URL from the identity of now; the others wait for an event.
Cas(t) ==
    /\ pc[t] = "cas"
    /\ IF connecting \/ connected \/ Cancelled(t)
         THEN /\ Goto(t, CASE ~connecting /\ Cancelled(t) -> "err"
                           [] connected /\ ~(~connecting /\ Cancelled(t)) -> "ok"
                           [] OTHER -> "wait")
              /\ UNCHANGED <<connecting, hand, who>>
         ELSE /\ Goto(t, "dial")
              /\ connecting' = TRUE
              /\ hand' = NewSocket /\ who' = [k \in Socket |-> IF k = NewSocket THEN id ELSE who[k]]
    /\ UNCHANGED <<connected, suppressed, gen, permit, reset, sink, stream, receiver, ping, reads, alive, id, stage, was, mgr, faults>>

\* The attempt is over without a connection: the flag first, then the event,
\* which a cancelled reconnect keeps to itself.
Fail(t) ==
    /\ hand' = 0
    /\ connecting' = FALSE
    /\ IF Cancelled(t) THEN Goto(t, "err") ELSE Send(t, "err", "down")

\* connect_async_with_config ends, with a socket or without.
Dial(t) ==
    /\ pc[t] = "dial"
    /\ \/ /\ hand # 0
          /\ alive' = alive \cup {hand}
          /\ Goto(t, "dialed")
          /\ UNCHANGED <<connecting, hand, faults>>
       \/ /\ hand = 0 \/ faults < MaxFaults
          /\ faults' = IF hand = 0 THEN faults ELSE faults + 1
          /\ Fail(t)
          /\ UNCHANGED alive
    /\ UNCHANGED <<connected, suppressed, gen, permit, reset, sink, stream, receiver, ping, reads, who, id, stage, was, mgr>>

\* A cancelled reconnect discards its socket; otherwise the sink goes in.
Dialed(t) ==
    /\ pc[t] = "dialed"
    /\ IF Cancelled(t)
         THEN /\ alive' = alive \ {hand}
              /\ Fail(t)
              /\ UNCHANGED sink
         ELSE /\ sink' = hand
              /\ Goto(t, "sinked")
              /\ UNCHANGED <<alive, hand, connecting>>
    /\ UNCHANGED <<connected, suppressed, gen, permit, reset, stream, receiver, ping, reads, who, id, stage, was, mgr, faults>>

\* The stream goes in and the client is connected; only an explicit connect
\* lifts the suppression.
Sinked(t) ==
    /\ pc[t] = "sinked"
    /\ stream' = hand /\ hand' = 0
    /\ connected' = TRUE
    /\ suppressed' = (suppressed /\ t = Mgr)
    /\ Send(t, "live", "ok")
    /\ UNCHANGED <<connecting, gen, permit, reset, sink, receiver, ping, reads, alive, who, id, stage, was, mgr, faults>>

\* start_receiver, if the stream is still there, and start_ping_task.
StartTasks ==
    /\ reads' = reads \cup ({stream} \ {0})
    /\ receiver' = IF stream = 0 THEN receiver ELSE stream
    /\ stream' = 0
    /\ ping' = TRUE

\* Mutant: the manager does not look at its generation after it installed.
Live_NoCheck(t) ==
    /\ pc[t] = "live"
    /\ connecting' = FALSE
    /\ Goto(t, "ok") /\ StartTasks
    /\ UNCHANGED <<connected, suppressed, gen, permit, reset, sink, alive, who, hand, id, stage, was, mgr, faults>>

\* The flag is released.  A reconnect that was cancelled meanwhile undoes
\* itself with disconnect_internal(false).
Live(t) ==
    /\ pc[t] = "live"
    /\ connecting' = FALSE
    /\ IF Cancelled(t)
         THEN Goto(t, "swap") /\ UNCHANGED <<reads, receiver, stream, ping>>
         ELSE Goto(t, "ok") /\ StartTasks
    /\ UNCHANGED <<connected, suppressed, gen, permit, reset, sink, alive, who, hand, id, stage, was, mgr, faults>>

\* wait_for_connection_result gives up; a failed attempt of another task is
\* retried at once by an explicit caller.
Wait(t) ==
    /\ pc[t] = "wait"
    /\ Goto(t, IF connected THEN "ok" ELSE IF t = Mgr THEN "err" ELSE "down")
    /\ UNCHANGED <<flags, socks, id, stage, was, mgr, faults>>

Down(t) ==
    /\ pc[t] = "down"
    /\ Goto(t, IF connected \/ connecting THEN "err" ELSE "look")
    /\ UNCHANGED <<flags, socks, id, stage, was, mgr, faults>>

ConnectStep(t) ==
    \/ Look(t) \/ Cas(t) \/ Dial(t) \/ Dialed(t) \/ Sinked(t)
    \/ Live(t) \/ Wait(t) \/ Down(t)

-----------------------------------------------------------------------------
(* disconnect, disconnect_internal and probe_alive. *)

\* suppress_auto_reconnect_internal.  notify_waiters only makes a manager that
\* waits look again, as its timers may at any time.
Suppress ==
    /\ gen' = gen + 1
    /\ suppressed' = TRUE

\* connected is cleared and both background tasks are aborted, before the
\* socket locks are taken.
Swap(t) ==
    /\ pc[t] = "swap"
    /\ connected' = FALSE
    /\ was' = IF connected THEN was \cup {t} ELSE was
    /\ ping' = FALSE
    /\ reads' = reads \ {receiver}
    /\ receiver' = 0
    /\ Goto(t, "close")
    /\ UNCHANGED <<connecting, suppressed, gen, permit, reset, sink, stream, alive, who, hand, id, stage, mgr, faults>>

\* The sink is taken and closed.
Close(t) ==
    /\ pc[t] = "close"
    /\ sink' = 0
    /\ alive' = alive \ {sink}
    /\ Goto(t, "drain")
    /\ UNCHANGED <<flags, stream, receiver, ping, reads, who, hand, id, stage, was, mgr, faults>>

\* The stream is dropped and the transition published.
Drain(t) ==
    /\ pc[t] = "drain"
    /\ stream' = 0
    /\ was' = was \ {t}
    /\ LET l == IF t = Mgr /\ stage[t] = "attempt" THEN "err" ELSE "ok"
       IN  IF t \in was THEN Send(t, l, "down") ELSE Goto(t, l)
    /\ UNCHANGED <<flags, sink, receiver, ping, reads, alive, who, hand, id, stage, mgr, faults>>

DisconnectStep(t) == Swap(t) \/ Close(t) \/ Drain(t)

\* The installed socket answers.
Healthy == sink # 0 /\ sink \in alive /\ sink \in reads

\* probe_alive.  A ping that cannot be sent marks the client disconnected and
\* leaves the rest to the caller; one that is not answered changes nothing.
ProbeAlive(t) ==
    /\ pc[t] = "probe"
    /\ \/ /\ connected /\ Healthy
          /\ Goto(t, "ok")
          /\ UNCHANGED connected
       \/ /\ ~connected \/ ~Healthy
          /\ Goto(t, "err")
          /\ UNCHANGED connected
       \/ /\ connected /\ (sink = 0 \/ sink \notin alive)
          /\ connected' = FALSE
          /\ Send(t, "err", "down")
    /\ UNCHANGED <<connecting, suppressed, gen, permit, reset, socks, id, stage, was, mgr, faults>>

-----------------------------------------------------------------------------
(* The sockets and their tasks. *)

\* The peer or the network closes a socket.
Break(k) ==
    /\ k \in alive
    /\ faults < MaxFaults
    /\ faults' = faults + 1
    /\ alive' = alive \ {k}
    /\ UNCHANGED <<flags, sink, stream, receiver, ping, reads, who, hand, id, pc, stage, was, mgr>>

\* The receiver's stream ends: it clears connected, whichever socket that is.
ReceiverEnds(k) ==
    /\ k \in reads \ alive
    /\ reads' = reads \ {k}
    /\ receiver' = IF receiver = k THEN 0 ELSE receiver
    /\ Publish(TRUE)
    /\ UNCHANGED <<connecting, suppressed, gen, reset, sink, stream, ping, alive, who, hand, id, stage, was, mgr, faults>>

\* The ping task wakes.  It holds the sink lock while it sends, so no socket
\* is installed before the outcome is known.
PingEnds ==
    /\ ping /\ ~connected
    /\ ping' = FALSE
    /\ UNCHANGED <<flags, sink, stream, receiver, reads, alive, who, hand, id, pc, stage, was, mgr, faults>>

\* The ping cannot be sent: the receiver is left alone.
PingFails ==
    /\ ping /\ connected
    /\ sink = 0 \/ sink \notin alive
    /\ ping' = FALSE
    /\ Publish(TRUE)
    /\ UNCHANGED <<connecting, suppressed, gen, reset, sink, stream, receiver, reads, alive, who, hand, id, stage, was, mgr, faults>>

\* The ping went out, but nothing came in for PONG_TIMEOUT_SECS on a
\* connection that is older than that: the receiver is aborted.
PongTimeout ==
    /\ ping /\ connected
    /\ sink # 0 /\ ~Healthy
    /\ \A t \in Task : pc[t] # "live"
    /\ ping' = FALSE
    /\ reads' = reads \ {receiver}
    /\ receiver' = 0
    /\ Publish(TRUE)
    /\ UNCHANGED <<connecting, suppressed, gen, reset, sink, stream, alive, who, hand, id, stage, was, mgr, faults>>

SocketStep == (\E k \in Socket : ReceiverEnds(k)) \/ PingEnds \/ PingFails \/ PongTimeout

\* handle_envelope_send_failure, on behalf of whoever sends an envelope.
SendFails ==
    /\ connected
    /\ sink = 0 \/ sink \notin alive
    /\ ping' = FALSE
    /\ reads' = reads \ {receiver}
    /\ receiver' = 0
    /\ sink' = 0
    /\ Publish(TRUE)
    /\ UNCHANGED <<connecting, suppressed, gen, reset, stream, alive, who, hand, id, was, mgr, faults>>

\* schedule_auto_reconnect, and with a reset of the backoff.
Schedule(again) ==
    /\ suppressed' = FALSE
    /\ permit' = TRUE
    /\ reset' = (reset \/ again)

-----------------------------------------------------------------------------
(* The reconnect manager: start_reconnect_manager and run_reconnect_cycle. *)

MgrGoto(l, p) ==
    /\ stage' = [stage EXCEPT ![Mgr] = l]
    /\ pc' = [pc EXCEPT ![Mgr] = p]
MgrRests == MgrGoto("idle", "idle") /\ mgen' = 0 /\ att' = 0
MgrTries(n) == MgrGoto("attempt", "look") /\ att' = n

\* A cycle begins with the generation of now; a connected client is probed.
MgrWakes ==
    /\ stage[Mgr] = "idle" /\ permit
    /\ permit' = FALSE
    /\ CASE suppressed -> MgrRests /\ UNCHANGED reset
         [] ~suppressed /\ connected -> MgrGoto("probe", "probe") /\ mgen' = gen /\ UNCHANGED <<att, reset>>
         [] OTHER -> MgrTries(1) /\ mgen' = gen /\ reset' = FALSE
    /\ UNCHANGED <<connected, connecting, suppressed, gen, socks, id, was, faults>>

\* After the probe; a failed one is followed by disconnect_internal(false).
MgrProbed ==
    /\ stage[Mgr] = "probe" /\ pc[Mgr] \in {"ok", "err"}
    /\ IF pc[Mgr] = "ok" THEN MgrRests ELSE MgrGoto("rebuild", "swap") /\ UNCHANGED mgr
    /\ UNCHANGED <<flags, socks, id, was, faults>>

MgrRebuilt ==
    /\ stage[Mgr] = "rebuild" /\ pc[Mgr] = "ok"
    /\ MgrTries(1)
    /\ reset' = FALSE
    /\ UNCHANGED <<connected, connecting, suppressed, gen, permit, socks, id, was, mgen, faults>>

MgrTried ==
    /\ stage[Mgr] = "attempt" /\ pc[Mgr] \in {"ok", "err"}
    /\ IF pc[Mgr] = "ok" \/ auto_reconnect_cancelled
         THEN MgrRests
         ELSE MgrGoto("backoff", "idle") /\ UNCHANGED mgr
    /\ UNCHANGED <<flags, socks, id, was, faults>>

\* The backoff ends with its timer or with a permit.  A reset restarts the
\* attempts; a cycle that has used them up cools down.
MgrBacksOff ==
    /\ stage[Mgr] = "backoff"
    /\ permit' \in {permit, FALSE}
    /\ CASE reset -> MgrTries(1) /\ UNCHANGED mgen
         [] ~reset /\ auto_reconnect_cancelled -> MgrRests
         [] ~reset /\ ~auto_reconnect_cancelled /\ att < MaxAttempts -> MgrTries(att + 1) /\ UNCHANGED mgen
         [] OTHER -> MgrGoto("cooldown", "idle") /\ UNCHANGED mgr
    /\ reset' = FALSE
    /\ UNCHANGED <<connected, connecting, suppressed, gen, socks, id, was, faults>>

\* After the cooldown the manager waits to be woken again.
MgrCoolsDown ==
    /\ stage[Mgr] = "cooldown"
    /\ permit' \in {permit, FALSE}
    /\ IF reset THEN MgrTries(1) /\ UNCHANGED mgen ELSE MgrRests
    /\ reset' = FALSE
    /\ UNCHANGED <<connected, connecting, suppressed, gen, socks, id, was, faults>>

MgrStep == MgrWakes \/ MgrProbed \/ MgrRebuilt \/ MgrTried \/ MgrBacksOff \/ MgrCoolsDown
==============================================================================
