---------------------------- MODULE SessionProofs ----------------------------
(***************************************************************************)
(* The signaling client under the tasks of Session, for any number of      *)
(* sockets, attempts, faults and calls: one task dials at a time, a socket *)
(* in use is never replaced, and a disconnect lasts.  The argument is the  *)
(* inductive invariant SessionInv.  The last part is the hard rebind: with *)
(* RebindInv on top, nothing of the old identity is left once the session  *)
(* is Active again.                                                        *)
(***************************************************************************)
EXTENDS Session, TLAPS

LEMMA InitInv == Init => SessionInv
  <1> SUFFICES ASSUME Init PROVE SessionInv
    OBVIOUS
  <1>1. /\ connected = TRUE /\ connecting = FALSE /\ suppressed = FALSE
        /\ pc = [t \in Task |-> "idle"] /\ stage = [t \in Task |-> "idle"]
    BY DEF Init, SignalingInit
  <1>2. pc = [t \in Task |-> pc[t]] /\ stage = [t \in Task |-> stage[t]]
    BY <1>1
  <1>3. \A t \in Task : pc[t] \notin Owning
    BY <1>1 DEF Owning
  <1>4. OneConnector
    BY Zenon, <1>1, <1>3 DEF OneConnector
  <1>5. StaysDown
    BY <1>1 DEF StaysDown
  <1> QED
    BY Zenon, <1>1, <1>2, <1>3, <1>4, <1>5 DEF SessionInv, Owning, Task, Mgr

\* One place of a function changes.
LEMMA ExceptOne ==
  ASSUME NEW S, NEW f, f = [s \in S |-> f[s]], NEW t \in S, NEW l, NEW g, g = [f EXCEPT ![t] = l]
  PROVE  /\ g = [s \in S |-> g[s]]
         /\ g[t] = l
         /\ \A s \in S : s # t => g[s] = f[s]
  OBVIOUS

\* Events only move tasks that wait, to places that do not own the flag.
LEMMA HeardMoves ==
  ASSUME NEW e \in {"ok", "down"}
  PROVE  /\ Heard(e) = [s \in Task |-> Heard(e)[s]]
         /\ \A s \in Task : \/ Heard(e)[s] = pc[s]
                            \/ pc[s] = "wait" /\ Heard(e)[s] \in {"ok", "down", "err"}
  BY DEF Heard

\* What a step may do to the flags and to pc without touching the invariant:
\* no task enters or leaves the attempt, swap or live, nor does settle end.
Calm ==
  /\ pc' = [t \in Task |-> pc'[t]] /\ stage' = [t \in Task |-> stage'[t]]
  /\ connected' \in BOOLEAN /\ (connected' => connected)
  /\ connecting' = connecting
  /\ suppressed' \in BOOLEAN /\ (suppressed' => suppressed)
  /\ \A t \in Task : pc'[t] = pc[t] \/ (pc[t] \notin Owning /\ pc'[t] \notin Owning /\ pc[t] # "swap")
  /\ stage[Net] = "settle" => stage'[Net] = "settle"
  /\ stage'[Mgr] \in {"idle", "backoff", "cooldown"} => pc'[Mgr] = "idle"

LEMMA CalmKeeps ==
  ASSUME SessionInv, Calm
  PROVE  SessionInv'
  <1> USE DEF SessionInv, Calm
  <1>1. OneConnector'
    BY Zenon DEF OneConnector
  <1>2. StaysDown'
    BY Zenon, SessionAssumption DEF StaysDown, Owning, Task, Mgr, Net
  <1>3. \A t \in Task : pc'[t] \in {"dial", "dialed", "sinked"} => ~connected'
    BY DEF Owning
  <1> QED
    BY Zenon, <1>1, <1>2, <1>3

\* A task of User that is not at settle goes on in its own code.
LEMMA TaskCalm ==
  ASSUME SessionInv, NEW t \in User, NEW l, NEW p,
         pc[t] \notin Owning \cup {"swap"}, p \notin Owning, t = Net => stage[t] # "settle",
         Go(t, l, p), connected' = connected, connecting' = connecting,
         suppressed' \in BOOLEAN, suppressed' => suppressed
  PROVE  SessionInv'
  <1>1. /\ pc' = [s \in Task |-> pc'[s]] /\ stage' = [s \in Task |-> stage'[s]]
        /\ \A s \in Task : s # t => pc'[s] = pc[s] /\ stage'[s] = stage[s]
        /\ pc'[t] = p
    BY Zenon DEF SessionInv, Go, Task
  <1>2. t # Mgr /\ t \in Task /\ Mgr \in Task /\ Net \in Task
    BY Zenon, SignalingAssumption, SessionAssumption DEF Task, Mgr, Net
  <1>3. Calm
    BY Zenon, <1>1, <1>2 DEF Calm, SessionInv
  <1> QED
    BY Zenon, <1>3, CalmKeeps

\* A task calls disconnect.
LEMMA DisconnectKeeps ==
  ASSUME SessionInv, NEW t \in User, NEW l,
         pc[t] \notin Owning, Go(t, l, "swap"), CallDisconnect
  PROVE  SessionInv'
  <1>1. /\ pc' = [s \in Task |-> pc'[s]] /\ stage' = [s \in Task |-> stage'[s]]
        /\ \A s \in Task : s # t => pc'[s] = pc[s] /\ stage'[s] = stage[s]
        /\ pc'[t] = "swap"
    BY Zenon DEF SessionInv, Go, Task
  <1>2. t # Mgr /\ t \in Task /\ Mgr \in Task
    BY SignalingAssumption DEF Task, Mgr
  <1>3. connected' = connected /\ connecting' = connecting /\ suppressed' = TRUE
    BY DEF CallDisconnect, Suppress
  <1>4. OneConnector'
    BY Zenon, <1>1, <1>2, <1>3 DEF SessionInv, OneConnector, Owning
  <1>5. StaysDown'
    BY <1>1, <1>2 DEF StaysDown
  <1> QED
    BY Zenon, <1>1, <1>2, <1>3, <1>4, <1>5 DEF SessionInv

\* A task moves inside the client, with or without an event to the others.
LEMMA PcMoves ==
  ASSUME SessionInv, NEW t \in Task, NEW l,
         Goto(t, l) \/ (\E e \in {"ok", "down"} : Send(t, l, e))
  PROVE  /\ pc' = [s \in Task |-> pc'[s]]
         /\ \A s \in Task : s # t => \/ pc'[s] = pc[s]
                                     \/ pc[s] = "wait" /\ pc'[s] \in {"ok", "down", "err"}
         /\ pc'[t] = l
  <1>1. CASE Goto(t, l)
    <2>1. pc' = [pc EXCEPT ![t] = l] /\ pc = [s \in Task |-> pc[s]]
      BY <1>1 DEF SessionInv, Goto
    <2> QED
      BY <2>1
  <1>2. CASE \E e \in {"ok", "down"} : Send(t, l, e)
    <2>1. PICK e \in {"ok", "down"} : pc' = [Heard(e) EXCEPT ![t] = l]
      BY Zenon, <1>2 DEF Send
    <2>2. /\ Heard(e) = [s \in Task |-> Heard(e)[s]]
          /\ \A s \in Task : \/ Heard(e)[s] = pc[s]
                             \/ pc[s] = "wait" /\ Heard(e)[s] \in {"ok", "down", "err"}
      BY HeardMoves
    <2>3. /\ pc' = [s \in Task |-> pc'[s]]
          /\ pc'[t] = l
          /\ \A s \in Task : s # t => pc'[s] = Heard(e)[s]
      BY <2>1, <2>2
    <2> QED
      BY <2>2, <2>3
  <1> QED
    BY <1>1, <1>2

\* It moves outside of an attempt and of swap.
LEMMA MoveCalm ==
  ASSUME SessionInv, NEW t \in Task, NEW l,
         pc[t] \notin Owning \cup {"swap", "idle"}, l \notin Owning,
         Goto(t, l) \/ (\E e \in {"ok", "down"} : Send(t, l, e)),
         stage' = stage, connected' \in BOOLEAN, connected' => connected,
         connecting' = connecting, suppressed' = suppressed
  PROVE  SessionInv'
  <1>1. /\ pc' = [s \in Task |-> pc'[s]]
        /\ \A s \in Task : s # t => \/ pc'[s] = pc[s]
                                    \/ pc[s] = "wait" /\ pc'[s] \in {"ok", "down", "err"}
        /\ pc'[t] = l
    BY Zenon, PcMoves
  <1>2. Calm
    BY Zenon, <1>1 DEF Calm, SessionInv, Owning, Task
  <1> QED
    BY <1>2, CalmKeeps

\* An attempt fails: the flag is released and the client is as it was.
LEMMA FailKeeps ==
  ASSUME SessionInv, NEW t \in Task, pc[t] \in Owning \ {"live"}, Fail(t),
         stage' = stage, connected' = connected, suppressed' = suppressed
  PROVE  SessionInv'
  <1>0. connecting' = FALSE /\ (Goto(t, "err") \/ Send(t, "err", "down"))
    BY Zenon DEF Fail
  <1>1. /\ pc' = [s \in Task |-> pc'[s]]
        /\ \A s \in Task : s # t => \/ pc'[s] = pc[s]
                                    \/ pc[s] = "wait" /\ pc'[s] \in {"ok", "down", "err"}
        /\ pc'[t] = "err"
    BY Zenon, <1>0, PcMoves
  <1>2. \A s \in Task : pc'[s] \notin Owning
    BY Zenon, <1>1 DEF SessionInv, OneConnector, Owning
  <1>3. OneConnector'
    BY Zenon, <1>0, <1>2 DEF OneConnector
  <1>4. \A s \in Task : pc[s] = "swap" => pc'[s] = "swap"
    BY Zenon, <1>1 DEF Owning
  <1>5. StaysDown'
    BY Zenon, <1>1, <1>4 DEF SessionInv, StaysDown, OneConnector, Owning, Task
  <1>6. stage'[Mgr] \in {"idle", "backoff", "cooldown"} => pc'[Mgr] = "idle"
    BY Zenon, <1>1 DEF SessionInv, Owning, Task
  <1> QED
    BY Zenon, <1>0, <1>1, <1>2, <1>3, <1>5, <1>6 DEF SessionInv, Owning

\* The owner goes on with its attempt.
LEMMA OwnerMoves ==
  ASSUME SessionInv, NEW t \in Task, pc[t] \in Owning, NEW l \in Owning,
         Goto(t, l) \/ Send(t, l, "ok"), connecting' = connecting
  PROVE  /\ pc' = [s \in Task |-> pc'[s]]
         /\ pc'[t] = l
         /\ \A s \in Task : s # t => pc[s] \notin Owning /\ pc'[s] \notin Owning
         /\ \A s \in Task : pc[s] = "swap" => pc'[s] = "swap"
         /\ OneConnector'
         /\ stage' = stage => (stage'[Mgr] \in {"idle", "backoff", "cooldown"} => pc'[Mgr] = "idle")
  <1>1. /\ pc' = [s \in Task |-> pc'[s]]
        /\ \A s \in Task : s # t => \/ pc'[s] = pc[s]
                                    \/ pc[s] = "wait" /\ pc'[s] \in {"ok", "down", "err"}
        /\ pc'[t] = l
    BY Zenon, PcMoves
  <1>2. \A s \in Task : s # t => pc[s] \notin Owning /\ pc'[s] \notin Owning
    BY Zenon, <1>1 DEF SessionInv, OneConnector, Owning
  <1>3. OneConnector'
    BY Zenon, <1>1, <1>2 DEF SessionInv, OneConnector
  <1>4. \A s \in Task : pc[s] = "swap" => pc'[s] = "swap"
    BY Zenon, <1>1 DEF Owning
  <1>5. stage' = stage => (stage'[Mgr] \in {"idle", "backoff", "cooldown"} => pc'[Mgr] = "idle")
    BY Zenon, <1>1 DEF SessionInv, Owning, Task
  <1> QED
    BY Zenon, <1>1, <1>2, <1>3, <1>4, <1>5

\* The compare_exchange succeeds for one task, and only with the client down.
LEMMA CasKeeps ==
  ASSUME SessionInv, NEW t \in Task, Cas(t)
  PROVE  SessionInv'
  <1>0. pc[t] = "cas" /\ UNCHANGED <<connected, suppressed, stage>>
    BY Zenon DEF Cas
  <1>1. CASE connecting \/ connected \/ Cancelled(t)
    <2>1. connecting' = connecting /\ (\E l \in {"err", "ok", "wait"} : Goto(t, l))
      BY Zenon, <1>1 DEF Cas
    <2> QED
      BY <1>0, <2>1, MoveCalm DEF Owning, SessionInv
  <1>2. CASE ~(connecting \/ connected \/ Cancelled(t))
    <2>1. connecting' = TRUE /\ Goto(t, "dial") /\ ~connected /\ ~connecting
      BY Zenon, <1>2 DEF Cas
    <2>2. /\ pc' = [s \in Task |-> pc'[s]]
          /\ \A s \in Task : s # t => \/ pc'[s] = pc[s]
                                      \/ pc[s] = "wait" /\ pc'[s] \in {"ok", "down", "err"}
          /\ pc'[t] = "dial"
      BY Zenon, <2>1, PcMoves
    <2>3. OneConnector'
      BY Zenon, <2>1, <2>2 DEF SessionInv, OneConnector, Owning
    <2>4. stage'[Mgr] \in {"idle", "backoff", "cooldown"} => pc'[Mgr] = "idle"
      BY Zenon, <1>0, <2>2 DEF SessionInv, Task
    <2> QED
      BY <1>0, <2>1, <2>2, <2>3, <2>4 DEF SessionInv, StaysDown
  <1> QED
    BY <1>1, <1>2

\* The steps of an attempt between the flag and its release.
LEMMA AttemptKeeps ==
  ASSUME SessionInv, NEW t \in Task, Dial(t) \/ Dialed(t) \/ Sinked(t)
  PROVE  SessionInv'
  <1>1. CASE Dial(t) /\ ~Fail(t)
    <2>1. /\ pc[t] = "dial" /\ Goto(t, "dialed")
          /\ UNCHANGED <<connected, connecting, suppressed, stage>>
      BY Zenon, <1>1 DEF Dial
    <2> QED
      BY Zenon, <2>1, OwnerMoves DEF SessionInv, StaysDown, Owning, Task
  <1>2. CASE Dial(t) /\ Fail(t)
    BY Zenon, <1>2, FailKeeps DEF Dial, Owning
  <1>3. CASE Dialed(t) /\ Cancelled(t)
    BY Zenon, <1>3, FailKeeps DEF Dialed, Owning
  <1>4. CASE Dialed(t) /\ ~Cancelled(t)
    <2>1. /\ pc[t] = "dialed" /\ Goto(t, "sinked")
          /\ UNCHANGED <<connected, connecting, suppressed, stage>>
      BY <1>4 DEF Dialed
    <2> QED
      BY Zenon, <2>1, OwnerMoves DEF SessionInv, StaysDown, Owning, Task
  <1>5. CASE Sinked(t)
    <2>1. /\ pc[t] = "sinked" /\ Send(t, "live", "ok")
          /\ connected' = TRUE /\ suppressed' = (suppressed /\ t = Mgr)
          /\ UNCHANGED <<connecting, stage>>
      BY Zenon, <1>5 DEF Sinked
    <2>2. /\ pc' = [s \in Task |-> pc'[s]]
          /\ pc'[t] = "live"
          /\ \A s \in Task : s # t => pc[s] \notin Owning /\ pc'[s] \notin Owning
          /\ OneConnector'
          /\ stage'[Mgr] \in {"idle", "backoff", "cooldown"} => pc'[Mgr] = "idle"
      BY Zenon, <2>1, OwnerMoves DEF Owning
    <2>3. StaysDown'
      BY Zenon, <2>1, <2>2 DEF StaysDown
    <2>4. \A s \in Task : pc'[s] \notin {"dial", "dialed", "sinked"}
      BY Zenon, <2>2 DEF Owning
    <2> QED
      BY Zenon, <2>1, <2>2, <2>3, <2>4 DEF SessionInv
  <1> QED
    BY Zenon, <1>1, <1>2, <1>3, <1>4, <1>5

\* The release; a cancelled reconnect turns to undoing itself.
LEMMA LiveKeeps ==
  ASSUME SessionInv, NEW t \in Task, Live(t)
  PROVE  SessionInv'
  <1>0. pc[t] = "live" /\ connecting' = FALSE /\ UNCHANGED <<connected, suppressed, stage>>
    BY Zenon DEF Live
  <1>1. PICK l \in {"swap", "ok"} : Goto(t, l) /\ (Cancelled(t) => l = "swap")
    BY Zenon DEF Live
  <1>2. /\ pc' = [s \in Task |-> pc'[s]]
        /\ \A s \in Task : s # t => \/ pc'[s] = pc[s]
                                    \/ pc[s] = "wait" /\ pc'[s] \in {"ok", "down", "err"}
        /\ pc'[t] = l
    BY Zenon, <1>1, PcMoves
  <1>3. \A s \in Task : pc'[s] \notin Owning
    BY <1>0, <1>2 DEF SessionInv, OneConnector, Owning
  <1>4. OneConnector'
    BY Zenon, <1>0, <1>3 DEF OneConnector
  <1>5. t = Mgr /\ suppressed => l = "swap"
    BY <1>1 DEF Cancelled, auto_reconnect_cancelled
  <1>6. \A s \in Task : pc[s] = "swap" => pc'[s] = "swap"
    BY Zenon, <1>0, <1>2
  <1>7. StaysDown'
    BY Zenon, <1>0, <1>2, <1>5, <1>6 DEF SessionInv, StaysDown, Task
  <1>8. stage'[Mgr] \in {"idle", "backoff", "cooldown"} => pc'[Mgr] = "idle"
    BY Zenon, <1>0, <1>2 DEF SessionInv, Task
  <1> QED
    BY Zenon, <1>0, <1>2, <1>3, <1>4, <1>7, <1>8 DEF SessionInv, Owning

\* disconnect_internal.
LEMMA SwapKeeps ==
  ASSUME SessionInv, NEW t \in Task, Swap(t)
  PROVE  SessionInv'
  <1>1. /\ pc[t] = "swap" /\ Goto(t, "close") /\ connected' = FALSE
        /\ UNCHANGED <<connecting, suppressed, stage>>
    BY DEF Swap
  <1>2. /\ pc' = [s \in Task |-> pc'[s]]
        /\ \A s \in Task : s # t => \/ pc'[s] = pc[s]
                                    \/ pc[s] = "wait" /\ pc'[s] \in {"ok", "down", "err"}
        /\ pc'[t] = "close"
    BY Zenon, <1>1, PcMoves
  <1>3. OneConnector'
    BY <1>1, <1>2 DEF SessionInv, OneConnector, Owning
  <1>4. StaysDown'
    BY Zenon, <1>1 DEF StaysDown
  <1>5. stage'[Mgr] \in {"idle", "backoff", "cooldown"} => pc'[Mgr] = "idle"
    BY Zenon, <1>1, <1>2 DEF SessionInv, Task
  <1> QED
    BY Zenon, <1>1, <1>2, <1>3, <1>4, <1>5 DEF SessionInv

\* The other steps inside the client leave the attempt and the flags alone.
LEMMA QuietClientKeeps ==
  ASSUME SessionInv, NEW t \in Task,
         Look(t) \/ Wait(t) \/ Down(t) \/ Close(t) \/ Drain(t) \/ ProbeAlive(t)
  PROVE  SessionInv'
  <1>1. /\ pc[t] \in {"look", "wait", "down", "close", "drain", "probe"}
        /\ connecting' = connecting /\ suppressed' = suppressed /\ stage' = stage
        /\ connected' \in BOOLEAN /\ (connected' => connected)
    <2>1. CASE Look(t) \/ Wait(t) \/ Down(t)
      BY <2>1 DEF Look, Wait, Down, flags, SessionInv
    <2>2. CASE Close(t) \/ Drain(t)
      BY <2>2 DEF Close, Drain, flags, SessionInv
    <2>3. CASE ProbeAlive(t)
      <3>1. pc[t] = "probe" /\ UNCHANGED <<connecting, suppressed, stage>>
        BY <2>3 DEF ProbeAlive
      <3>2. connected' = connected \/ (connected' = FALSE)
        BY <2>3 DEF ProbeAlive
      <3>3. connected \in BOOLEAN
        BY DEF SessionInv
      <3>4. connected' \in BOOLEAN
        BY Zenon, <3>2, <3>3
      <3>5. connected' => connected
        BY Zenon, <3>2
      <3> QED
        BY <3>1, <3>4, <3>5
    <2> QED
      BY Zenon, <2>1, <2>2, <2>3
  <1>2. PICK l \in {"err", "ok", "cas", "down", "look", "drain"} :
          Goto(t, l) \/ (\E e \in {"ok", "down"} : Send(t, l, e))
    <2>1. CASE Look(t)
      BY Zenon, <2>1 DEF Look
    <2>2. CASE Wait(t) \/ Down(t)
      BY <2>2 DEF Wait, Down
    <2>3. CASE Close(t) \/ Drain(t) \/ ProbeAlive(t)
      BY <2>3 DEF Close, Drain, ProbeAlive
    <2> QED
      BY Zenon, <2>1, <2>2, <2>3
  <1> QED
    BY <1>1, <1>2, MoveCalm DEF Owning

LEMMA ClientKeeps ==
  ASSUME SessionInv, NEW t \in Task, ConnectStep(t) \/ DisconnectStep(t) \/ ProbeAlive(t)
  PROVE  SessionInv'
  BY CasKeeps, AttemptKeeps, LiveKeeps, SwapKeeps, QuietClientKeeps DEF ConnectStep, DisconnectStep

\* A socket, a background task or a failed send brings the client down.
LEMMA PublishKeeps ==
  ASSUME SessionInv, NEW n, Publish(n), UNCHANGED <<connecting, suppressed, stage>>
  PROVE  SessionInv'
  <1>1. connected' = FALSE /\ pc' = IF connected THEN Heard("down") ELSE pc
    BY Zenon DEF Publish
  <1>2. /\ pc' = [s \in Task |-> pc'[s]]
        /\ \A s \in Task : \/ pc'[s] = pc[s]
                           \/ pc[s] = "wait" /\ pc'[s] \in {"ok", "down", "err"}
    BY Zenon, <1>1, HeardMoves DEF SessionInv
  <1>3. Calm
    BY Zenon, <1>1, <1>2 DEF Calm, SessionInv, Owning, Task
  <1> QED
    BY <1>3, CalmKeeps

LEMMA StillKeeps ==
  ASSUME SessionInv, UNCHANGED <<connected, connecting, suppressed, pc, stage>>
  PROVE  SessionInv'
  BY Zenon DEF SessionInv, OneConnector, StaysDown

LEMMA SocketKeeps ==
  ASSUME SessionInv, SocketStep \/ (\E k \in Socket : Break(k))
  PROVE  SessionInv'
  <1>1. CASE PingEnds \/ (\E k \in Socket : Break(k))
    BY Zenon, <1>1, StillKeeps DEF PingEnds, Break, flags
  <1>2. CASE PingFails \/ PongTimeout \/ (\E k \in Socket : ReceiverEnds(k))
    BY Zenon, <1>2, PublishKeeps DEF PingFails, PongTimeout, ReceiverEnds
  <1> QED
    BY <1>1, <1>2 DEF SocketStep

\* The manager's own steps are taken between its calls of the client.
LEMMA MgrMoves ==
  ASSUME SessionInv, NEW l, NEW p, MgrGoto(l, p), pc[Mgr] \in {"idle", "ok", "err"},
         p \notin Owning, l \in {"idle", "backoff", "cooldown"} => p = "idle",
         UNCHANGED <<connected, connecting, suppressed>>
  PROVE  SessionInv'
  <1>1. Mgr \in Task /\ Net \in Task /\ Net # Mgr
    BY Zenon, SignalingAssumption, SessionAssumption DEF Task, Mgr, Net
  <1>2. /\ pc' = [s \in Task |-> pc'[s]] /\ stage' = [s \in Task |-> stage'[s]]
        /\ \A s \in Task : s # Mgr => pc'[s] = pc[s] /\ stage'[s] = stage[s]
        /\ pc'[Mgr] = p /\ stage'[Mgr] = l
    BY Zenon, <1>1 DEF SessionInv, MgrGoto
  <1>3. Calm
    BY Zenon, <1>1, <1>2 DEF Calm, SessionInv, Owning
  <1> QED
    BY Zenon, <1>3, CalmKeeps

LEMMA MgrGoes ==
  ASSUME MgrStep
  PROVE  \/ MgrGoto("idle", "idle") \/ MgrGoto("attempt", "look") \/ MgrGoto("probe", "probe")
         \/ MgrGoto("rebuild", "swap") \/ MgrGoto("backoff", "idle") \/ MgrGoto("cooldown", "idle")
  <1>1. CASE MgrWakes
    BY <1>1 DEF MgrWakes, MgrRests, MgrTries
  <1>2. CASE MgrProbed \/ MgrRebuilt \/ MgrTried \/ MgrCoolsDown
    BY Zenon, <1>2 DEF MgrProbed, MgrRebuilt, MgrTried, MgrCoolsDown, MgrRests, MgrTries
  <1>3. CASE MgrBacksOff
    BY Zenon, <1>3 DEF MgrBacksOff, MgrRests, MgrTries
  <1> QED
    BY <1>1, <1>2, <1>3 DEF MgrStep

LEMMA MgrKeeps ==
  ASSUME SessionInv, MgrStep
  PROVE  SessionInv'
  <1>1. pc[Mgr] \in {"idle", "ok", "err"}
    BY Zenon DEF SessionInv, MgrStep, MgrWakes, MgrProbed, MgrRebuilt, MgrTried, MgrBacksOff,
           MgrCoolsDown
  <1>2. UNCHANGED <<connected, connecting, suppressed>>
    BY Zenon DEF MgrStep, MgrWakes, MgrProbed, MgrRebuilt, MgrTried, MgrBacksOff, MgrCoolsDown,
           flags
  <1> QED
    BY Zenon, <1>1, <1>2, MgrGoes, MgrMoves DEF Owning

LEMMA Tasks == Hb \in User /\ Net \in User /\ Rb \in User /\ Hb # Net /\ Rb # Net
  BY SessionAssumption DEF Hb, Net, Rb

\* What a step outside of the client does to the flags.
LEMMA FlagsStay ==
  ASSUME SessionInv, Flags \/ (\E b \in BOOLEAN : CallSchedule(b))
  PROVE  /\ connected' = connected /\ connecting' = connecting
         /\ suppressed' \in BOOLEAN /\ (suppressed' => suppressed)
  <1>1. suppressed \in BOOLEAN
    BY DEF SessionInv
  <1>2. CASE Flags
    BY <1>1, <1>2 DEF Flags, flags
  <1>3. CASE \E b \in BOOLEAN : CallSchedule(b)
    <2>1. connected' = connected /\ connecting' = connecting /\ suppressed' = FALSE
      BY Zenon, <1>3 DEF CallSchedule, Schedule
    <2> QED
      BY Zenon, <2>1
  <1> QED
    BY Zenon, <1>2, <1>3

LEMMA HbKeeps ==
  ASSUME SessionInv, HbStep \/ HbRenews
  PROVE  SessionInv'
  <1>1. CASE HbConnect
    <2>1. Go(Hb, "conn", "look") /\ Flags /\ pc[Hb] \in {"idle", "ok", "err"}
      BY Zenon, <1>1 DEF HbConnect, Returned
    <2> QED
      BY Zenon, <2>1, FlagsStay, TaskCalm, Tasks DEF Owning
  <1>2. CASE HbConnected
    <2>1. Go(Hb, "idle", "idle") /\ (Flags \/ CallSchedule(FALSE)) /\ pc[Hb] \in {"idle", "ok", "err"}
      BY Zenon, <1>2 DEF HbConnected, Returned
    <2> QED
      BY Zenon, <2>1, FlagsStay, TaskCalm, Tasks DEF Owning
  <1>3. CASE HbBeats
    BY Zenon, <1>3, StillKeeps DEF HbBeats, vars, svars, flags
  <1>4. CASE HbFails
    BY Zenon, <1>4, PublishKeeps DEF HbFails, SendFails
  <1>5. CASE HbRenews
    <2>1. /\ \E l : stage' = [stage EXCEPT ![Rb] = l]
          /\ pc' = pc /\ UNCHANGED <<connected, connecting, suppressed>>
      BY Zenon, <1>5 DEF HbRenews, Flags, flags
    <2>2. /\ stage' = [s \in Task |-> stage'[s]]
          /\ stage'[Net] = stage[Net] /\ stage'[Mgr] = stage[Mgr]
      BY Zenon, <2>1, Tasks, SignalingAssumption DEF SessionInv, Task, Mgr
    <2>3. Calm
      BY Zenon, <2>1, <2>2 DEF Calm, SessionInv
    <2> QED
      BY <2>3, CalmKeeps
  <1> QED
    BY Zenon, <1>1, <1>2, <1>3, <1>4, <1>5 DEF HbStep

LEMMA RbKeeps ==
  ASSUME SessionInv, RbStep
  PROVE  SessionInv'
  <1>1. CASE RbDisconnect
    <2>1. Go(Rb, "down", "swap") /\ CallDisconnect /\ pc[Rb] \in {"idle", "ok", "err"}
      BY Zenon, <1>1 DEF RbDisconnect, Returned
    <2> QED
      BY Zenon, <2>1, DisconnectKeeps, Tasks DEF Owning
  <1>2. CASE RbRenew \/ RbClosePeers \/ RbBind \/ RbConnected
    <2>1. pc[Rb] \in {"idle", "ok", "err"}
      BY Zenon, <1>2 DEF RbRenew, RbClosePeers, RbBind, RbConnected, Returned
    <2>2. /\ connected' = connected /\ connecting' = connecting
          /\ suppressed' \in BOOLEAN /\ (suppressed' => suppressed)
      <3>1. CASE RbRenew \/ RbBind \/ RbConnected
        BY Zenon, <3>1, FlagsStay DEF RbRenew, RbBind, RbConnected
      <3>2. CASE RbClosePeers
        BY Zenon, <3>2 DEF RbClosePeers, flags, SessionInv
      <3> QED
        BY Zenon, <1>2, <3>1, <3>2
    <2>3. \/ Go(Rb, "idle", "idle") \/ Go(Rb, "committed", "idle")
          \/ Go(Rb, "bind", "idle") \/ Go(Rb, "conn", "look")
      BY Zenon, <1>2 DEF RbRenew, RbClosePeers, RbBind, RbConnected
    <2> QED
      BY <2>1, <2>2, <2>3, TaskCalm, Tasks DEF Owning
  <1> QED
    BY <1>1, <1>2 DEF RbStep

LEMMA NetKeeps ==
  ASSUME SessionInv, NetStep \/ NetAct
  PROVE  SessionInv'
  <1>0. pc[Net] \in {"idle", "ok", "err"}
    BY Zenon DEF NetStep, NetAct, NetDisconnected, NetProbed, NetRebuild, NetConnected, Returned
  <1>1. CASE \E l : Go(Net, l, "swap") /\ CallDisconnect
    BY Zenon, <1>0, <1>1, DisconnectKeeps, Tasks DEF Owning
  <1>2. CASE /\ stage[Net] # "settle"
             /\ \E l, p : Go(Net, l, p) /\ p \in {"idle", "probe", "look"}
             /\ Flags \/ (\E b \in BOOLEAN : CallSchedule(b))
    BY Zenon, <1>0, <1>2, FlagsStay, TaskCalm, Tasks DEF Owning
  <1>3. CASE NetAct
    BY Zenon, <1>1, <1>2, <1>3 DEF NetAct, Restore, Returned
  <1>4. CASE NetDisconnected
    BY Zenon, <1>2, <1>4 DEF NetDisconnected, Restore, Returned
  <1>5. CASE NetProbed
    BY <1>1, <1>2, <1>5 DEF NetProbed, Returned
  <1>6. CASE NetRebuild \/ NetConnected
    BY Zenon, <1>2, <1>6 DEF NetRebuild, NetConnected, Returned
  <1> QED
    BY <1>3, <1>4, <1>5, <1>6 DEF NetStep

\* The suppression ahead of a batch holds the session at settle.
LEMMA PrepareKeeps ==
  ASSUME SessionInv, NetPrepare
  PROVE  SessionInv'
  <1>1. /\ Go(Net, "settle", "idle") /\ pc[Net] \in {"idle", "ok", "err"}
        /\ suppressed' = TRUE /\ UNCHANGED <<connected, connecting>>
    BY Zenon DEF NetPrepare, Returned, Suppress
  <1>2. Net \in Task /\ Mgr \in Task /\ Net # Mgr
    BY Zenon, SignalingAssumption, Tasks DEF Task, Mgr
  <1>3. /\ pc' = [s \in Task |-> pc'[s]] /\ stage' = [s \in Task |-> stage'[s]]
        /\ \A s \in Task : s # Net => pc'[s] = pc[s] /\ stage'[s] = stage[s]
        /\ pc'[Net] = "idle" /\ stage'[Net] = "settle"
    BY Zenon, <1>1, <1>2 DEF SessionInv, Go
  <1>4. OneConnector'
    BY Zenon, <1>1, <1>3 DEF SessionInv, OneConnector, Owning
  <1>5. StaysDown'
    BY Zenon, <1>3 DEF StaysDown
  <1> QED
    BY Zenon, <1>1, <1>2, <1>3, <1>4, <1>5 DEF SessionInv

LEMMA NextInv == SessionInv /\ [Next]_vars => SessionInv'
  <1> SUFFICES ASSUME SessionInv, [Next]_vars PROVE SessionInv'
    OBVIOUS
  <1>1. CASE UNCHANGED vars \/ Offer
    BY <1>1, StillKeeps DEF vars, svars, flags, Offer
  <1>2. CASE HbStep \/ HbRenews
    BY <1>2, HbKeeps
  <1>3. CASE RbStep
    BY <1>3, RbKeeps
  <1>4. CASE NetStep \/ NetAct
    BY <1>4, NetKeeps
  <1>5. CASE NetPrepare
    BY <1>5, PrepareKeeps
  <1>6. CASE \E t \in Task : ClientStep(t)
    BY <1>6, ClientKeeps DEF ClientStep
  <1>7. CASE Other(MgrStep)
    BY <1>7, MgrKeeps DEF Other
  <1>8. CASE Other(SocketStep) \/ (\E k \in Socket : Other(Break(k)))
    BY <1>8, SocketKeeps DEF Other
  <1> QED
    BY Zenon, <1>1, <1>2, <1>3, <1>4, <1>5, <1>6, <1>7, <1>8 DEF Next

\* The invariant behind the theorems below: whoever holds the connecting flag
\* and has not installed its stream yet finds the client down, and the reconnect
\* manager is outside the client between its attempts (signaling.rs,
\* establish_connection_once_with_intent).
THEOREM SessionInvariant == Spec => []SessionInv
  BY InitInv, NextInv, PTL DEF Spec

\* For any number of sockets, faults and calls, connecting is set exactly while
\* one task is in its attempt (connect_once and its twin for the manager).
THEOREM OneDialsAtATime == Spec => []OneConnector
  <1>1. SessionInv => OneConnector
    BY Zenon DEF SessionInv
  <1> QED
    BY <1>1, SessionInvariant, PTL

\* For any number of calls an explicit disconnect lasts until somebody lifts
\* the suppression it set (disconnect_internal, auto_reconnect_cancelled).
THEOREM DisconnectLasts == Spec => []StaysDown
  <1>1. SessionInv => StaysDown
    BY Zenon DEF SessionInv
  <1> QED
    BY <1>1, SessionInvariant, PTL

\* Only an attempt installs a socket, and it finds the client down.
LEMMA ClientInstalls ==
  ASSUME SessionInv, NEW t \in Task, ConnectStep(t) \/ DisconnectStep(t) \/ ProbeAlive(t)
  PROVE  sink' \notin {0, sink} => ~connected
  <1>1. CASE Dialed(t)
    BY Zenon, <1>1 DEF Dialed, SessionInv
  <1>2. CASE Look(t) \/ Cas(t) \/ Dial(t) \/ Sinked(t) \/ Live(t) \/ Wait(t) \/ Down(t)
    BY Zenon, <1>2 DEF Look, Cas, Dial, Sinked, Live, Wait, Down, socks
  <1>3. CASE Swap(t) \/ Close(t) \/ Drain(t) \/ ProbeAlive(t)
    BY <1>3 DEF Swap, Close, Drain, ProbeAlive, socks
  <1> QED
    BY Zenon, <1>1, <1>2, <1>3 DEF ConnectStep, DisconnectStep

LEMMA OthersInstallNothing ==
  ASSUME \/ HbStep \/ HbRenews \/ RbStep \/ NetStep \/ NetPrepare \/ NetAct \/ Offer
         \/ MgrStep \/ SocketStep \/ (\E k \in Socket : Break(k))
  PROVE  sink' \in {0, sink}
  <1>1. CASE HbStep \/ HbRenews
    BY Zenon, <1>1 DEF HbStep, HbConnect, HbConnected, HbBeats, HbFails, SendFails, HbRenews, Quiet,
           vars, svars, socks
  <1>2. CASE RbStep
    BY Zenon, <1>2 DEF RbStep, RbRenew, RbDisconnect, RbClosePeers, RbBind, RbConnected, Quiet,
           socks
  <1>3. CASE NetStep \/ NetPrepare \/ NetAct
    BY Zenon, <1>3 DEF NetStep, NetDisconnected, NetProbed, NetRebuild, NetConnected, NetPrepare,
           NetAct, Quiet, socks
  <1>4. CASE Offer \/ (\E k \in Socket : Break(k)) \/ SocketStep
    BY Zenon, <1>4 DEF Offer, Break, SocketStep, ReceiverEnds, PingEnds, PingFails, PongTimeout,
           svars, socks
  <1>5. CASE MgrStep
    BY Zenon, <1>5 DEF MgrStep, MgrWakes, MgrProbed, MgrRebuilt, MgrTried, MgrBacksOff,
           MgrCoolsDown, socks
  <1> QED
    BY Zenon, <1>1, <1>2, <1>3, <1>4, <1>5

\* For any number of sockets and tasks in flight a socket is installed only
\* while the client is down (establish_connection_once_with_intent).
THEOREM NothingIsReplaced == Spec => NoReplace
  <1>1. SessionInv /\ [Next]_vars => [sink' \notin {0, sink} => ~connected]_vars
    <2> SUFFICES ASSUME SessionInv, Next PROVE sink' \notin {0, sink} => ~connected
      OBVIOUS
    <2>1. CASE \E t \in Task : ClientStep(t)
      BY Zenon, <2>1, ClientInstalls DEF ClientStep
    <2>2. CASE ~(\E t \in Task : ClientStep(t))
      <3>1. sink' \in {0, sink}
        BY Zenon, <2>2, OthersInstallNothing DEF Next, Other
      <3> QED
        BY Zenon, <3>1
    <2> QED
      BY Zenon, <2>1, <2>2
  <1> QED
    BY <1>1, SessionInvariant, PTL DEF Spec, NoReplace

-----------------------------------------------------------------------------
(* RebindClean.  The argument is the inductive invariant RebindInv: while the *)
(* suppression of the rebind stands, whoever connects is a reconnect of an    *)
(* older generation and undoes itself; once the rebind has connected, every   *)
(* dial takes the new identity.                                               *)

LEMMA RebindInit == Init => RebindInv
  <1> SUFFICES ASSUME Init PROVE RebindInv
    OBVIOUS
  <1>1. /\ phase = "Active" /\ generation = 0 /\ oldPeers = FALSE
        /\ gen = 0 /\ mgen = 0 /\ id = 0 /\ hand = 0 /\ stream = 0
        /\ who = [k \in Socket |-> 0] /\ reads = {1} /\ sink = 1 /\ 1 \in Socket
        /\ pc = [t \in Task |-> "idle"] /\ stage = [t \in Task |-> "idle"]
    BY SignalingAssumption DEF Init, SignalingInit, Socket
  <1>2. Rb \in Task
    BY Zenon, Tasks DEF Task
  <1>3. pc[Rb] = "idle" /\ stage[Rb] = "idle" /\ \A t \in Task : pc[t] = "idle"
    BY <1>1, <1>2
  <1>4. SessionTypes
    BY <1>1 DEF SessionTypes
  <1>5. RebindPlace
    BY Zenon, <1>1, <1>3 DEF RebindPlace
  <1>6. AttemptSocket
    BY Zenon, <1>1, <1>2, <1>3 DEF AttemptSocket, Dialing
  <1>7. KeptDown
    BY Zenon, <1>3 DEF KeptDown, Unbound
  <1>8. AllCurrent
    BY Zenon, <1>1, <1>3 DEF AllCurrent, Current
  <1> QED
    BY Zenon, <1>4, <1>5, <1>6, <1>7, <1>8 DEF RebindInv

\* Who an event moves, and where to.
LEMMA HeardWhere ==
  ASSUME SessionInv, NEW e \in {"ok", "down"}
  PROVE  \A s \in Task : \/ Heard(e)[s] = pc[s]
                         \/ pc[s] = "wait" /\ Heard(e)[s] \in {e, "err"} /\ (s # Mgr => Heard(e)[s] = e)
  BY DEF Heard

\* A step behind which everything the rebind relies on is at least as good as
\* before: nothing connects, nobody starts to read, no suppression is lifted
\* unnoticed, and the manager's generation does not catch up.
Mild ==
  /\ UNCHANGED <<who, generation>>
  /\ hand' \in {0, hand} /\ stream' \in {0, stream} /\ reads' \subseteq reads
  /\ connected' => sink' \in {0, sink}
  /\ (oldPeers' => oldPeers) /\ (connected' => connected) /\ (crossed => crossed')
  /\ (Unbound' => Unbound) /\ (Bound' => Bound)
  /\ Unbound /\ ~crossed' /\ suppressed => suppressed'
  /\ stage'[Rb] = "down" <=> stage[Rb] = "down"
  /\ pc[Rb] = "swap" => pc'[Rb] = "swap"
  /\ pc[Rb] \in {"swap", "close", "drain"} => pc'[Rb] \in {"swap", "close", "drain"}
  /\ \A t \in Task : pc'[t] = "live" => pc[t] = "live"
  /\ connected' /\ pc[Mgr] \in {"live", "swap"} => pc'[Mgr] \in {"live", "swap"}
  /\ mgen < gen /\ (suppressed \/ pc[Mgr] \in {"live", "swap"}) => mgen' < gen'

LEMMA MildKeeps ==
  ASSUME KeptDown, AllCurrent, Mild
  PROVE  KeptDown' /\ AllCurrent'
  <1>1. KeptDown'
    <2> SUFFICES ASSUME Unbound', ~crossed'
                 PROVE  /\ suppressed' /\ mgen' < gen'
                        /\ pc'[Rb] # "swap" /\ connected' => pc'[Mgr] \in {"live", "swap"}
                        /\ pc'[Rb] \notin {"swap", "close", "drain"} =>
                              \A t \in User : pc'[t] = "live" => stream' = 0
                        /\ stage'[Rb] # "down" => ~oldPeers' /\ reads' = {}
      BY Zenon DEF KeptDown
    <2>1. Unbound /\ ~crossed
      BY Zenon DEF Mild
    <2>2. /\ suppressed /\ mgen < gen
          /\ pc[Rb] # "swap" /\ connected => pc[Mgr] \in {"live", "swap"}
          /\ pc[Rb] \notin {"swap", "close", "drain"} =>
                \A t \in User : pc[t] = "live" => stream = 0
          /\ stage[Rb] # "down" => ~oldPeers /\ reads = {}
      BY Zenon, <2>1 DEF KeptDown
    <2>3. suppressed' /\ mgen' < gen'
      BY Zenon, <2>1, <2>2 DEF Mild
    <2>4. pc'[Rb] # "swap" /\ connected' => pc'[Mgr] \in {"live", "swap"}
      BY Zenon, <2>2 DEF Mild
    <2>5. pc'[Rb] \notin {"swap", "close", "drain"} =>
            \A t \in User : pc'[t] = "live" => stream' = 0
      BY Zenon, <2>2 DEF Mild, Task
    <2>6. stage'[Rb] # "down" => ~oldPeers' /\ reads' = {}
      BY Zenon, <2>2 DEF Mild
    <2> QED
      BY Zenon, <2>3, <2>4, <2>5, <2>6
  <1>2. AllCurrent'
    <2> SUFFICES ASSUME Bound', ~crossed'
                 PROVE  /\ ~oldPeers' /\ \A k \in reads' : who'[k] = generation'
                        /\ hand' # 0 => who'[hand'] = generation'
                        /\ connected' /\ sink' # 0 =>
                              who'[sink'] = generation' \/ (pc'[Mgr] \in {"live", "swap"} /\ mgen' < gen')
                        /\ \A t \in Task : pc'[t] = "live" /\ stream' # 0 =>
                              who'[stream'] = generation' \/ (t = Mgr /\ mgen' < gen')
      BY Zenon DEF AllCurrent, Current
    <2>1. Bound /\ ~crossed
      BY Zenon DEF Mild
    <2>2. /\ ~oldPeers /\ \A k \in reads : who[k] = generation
          /\ hand # 0 => who[hand] = generation
          /\ connected /\ sink # 0 =>
                who[sink] = generation \/ (pc[Mgr] \in {"live", "swap"} /\ mgen < gen)
          /\ \A t \in Task : pc[t] = "live" /\ stream # 0 =>
                who[stream] = generation \/ (t = Mgr /\ mgen < gen)
      BY Zenon, <2>1 DEF AllCurrent, Current
    <2>3. ~oldPeers' /\ \A k \in reads' : who'[k] = generation'
      BY Zenon, <2>2 DEF Mild
    <2>4. hand' # 0 => who'[hand'] = generation'
      BY Zenon, <2>2 DEF Mild
    <2>5. connected' /\ sink' # 0 =>
            who'[sink'] = generation' \/ (pc'[Mgr] \in {"live", "swap"} /\ mgen' < gen')
      BY <2>2 DEF Mild
    <2>6. \A t \in Task : pc'[t] = "live" /\ stream' # 0 =>
            who'[stream'] = generation' \/ (t = Mgr /\ mgen' < gen')
      BY <2>2 DEF Mild
    <2> QED
      BY Zenon, <2>3, <2>4, <2>5, <2>6
  <1> QED
    BY Zenon, <1>1, <1>2

\* Places of a connect that does not hold the flag and is not through.
Seeking == {"look", "cas", "wait", "down", "err"}

\* A step outside of an attempt, by which the rebind gets no further than to
\* the next place of its connect or its disconnect.
Aside ==
  /\ UNCHANGED <<who, generation, phase, renewing, id, hand>>
  /\ stage'[Rb] = stage[Rb]
  /\ sink' \in {0, sink} /\ stream' \in {0, stream} /\ reads' \subseteq reads
  /\ (oldPeers' => oldPeers) /\ (connected' => connected) /\ (crossed => crossed')
  /\ Unbound /\ ~crossed' /\ suppressed => suppressed'
  /\ gen' \in Nat /\ mgen' \in Nat /\ mgen' <= gen'
  /\ mgen < gen /\ (suppressed \/ pc[Mgr] \in {"live", "swap"}) => mgen' < gen'
  /\ connected' /\ pc[Mgr] \in {"live", "swap"} => pc'[Mgr] \in {"live", "swap"}
  /\ \A t \in Task : /\ pc[t] \in Dialing \/ pc'[t] \in Dialing => pc'[t] = pc[t]
                     /\ pc'[t] = "live" => pc[t] = "live"
  /\ \/ pc'[Rb] = pc[Rb]
     \/ pc[Rb] \in Seeking /\ pc'[Rb] \in Seeking
     \/ pc[Rb] = "close" /\ pc'[Rb] = "drain"

LEMMA AsideKeeps ==
  ASSUME RebindInv, Aside
  PROVE  RebindInv'
  <1>0. SessionTypes /\ RebindPlace /\ AttemptSocket /\ KeptDown /\ AllCurrent
    BY Zenon DEF RebindInv
  <1>1. SessionTypes'
    <2>1. who' = [k \in Socket |-> who'[k]]
      BY Zenon, <1>0 DEF SessionTypes, Aside
    <2>2. reads' \subseteq Socket /\ {hand', stream'} \subseteq Socket \cup {0}
      BY <1>0 DEF SessionTypes, Aside
    <2>3. gen' \in Nat /\ mgen' \in Nat /\ mgen' <= gen'
      BY Zenon DEF Aside
    <2> QED
      BY Zenon, <2>1, <2>2, <2>3 DEF SessionTypes
  <1>2. RebindPlace'
    BY <1>0 DEF RebindPlace, Aside, Seeking, Owning
  <1>3. AttemptSocket'
    <2>1. Rb \in Task
      BY Zenon, Tasks DEF Task
    <2>2. hand' # 0 => \E t \in Task : pc'[t] \in Dialing
      BY Zenon, <1>0 DEF AttemptSocket, Aside
    <2>3. \A t \in Task : /\ pc'[t] \in {"dialed", "sinked"} => hand' # 0
                          /\ pc'[t] = "sinked" => sink' \in {0, hand'}
      BY Zenon, <1>0 DEF AttemptSocket, Aside, Dialing
    <2>4. pc'[Rb] \in Dialing /\ hand' # 0 => who'[hand'] = generation'
      BY Zenon, <1>0, <2>1 DEF AttemptSocket, Aside, Current
    <2> QED
      BY <2>2, <2>3, <2>4 DEF AttemptSocket, Current
  <1>4. Mild
    <2>1. /\ Unbound' => Unbound
          /\ Bound' => Bound
      BY Zenon DEF Aside, Unbound, Bound, Seeking
    <2>2. /\ pc[Rb] = "swap" => pc'[Rb] = "swap"
          /\ pc[Rb] \in {"swap", "close", "drain"} => pc'[Rb] \in {"swap", "close", "drain"}
      BY DEF Aside, Seeking
    <2> QED
      BY Zenon, <2>1, <2>2 DEF Aside, Mild
  <1> QED
    BY <1>0, <1>1, <1>2, <1>3, <1>4, MildKeeps DEF RebindInv

\* The manager's steps: the generation it takes is the one of now, and it takes
\* none under a suppression.
LEMMA MgrAside ==
  ASSUME SessionInv, RebindInv, MgrStep, UNCHANGED <<session, crossed>>
  PROVE  RebindInv'
  <1>1. pc[Mgr] \in {"idle", "ok", "err"}
    BY Zenon DEF SessionInv, MgrStep, MgrWakes, MgrProbed, MgrRebuilt, MgrTried, MgrBacksOff,
           MgrCoolsDown
  <1>2. UNCHANGED <<connected, suppressed, gen, sink, stream, reads, who, hand, id>>
    BY Zenon DEF MgrStep, MgrWakes, MgrProbed, MgrRebuilt, MgrTried, MgrBacksOff, MgrCoolsDown,
           flags, socks
  <1>3. PICK p \in {"idle", "look", "probe", "swap"} : \E l : MgrGoto(l, p)
    BY Zenon, MgrGoes
  <1>4. Mgr \in Task /\ Rb \in Task /\ Rb # Mgr
    BY SignalingAssumption, Tasks DEF Task, Mgr
  <1>5. /\ \A s \in Task : s # Mgr => pc'[s] = pc[s] /\ stage'[s] = stage[s]
        /\ pc'[Mgr] = p
    BY Zenon, <1>3, <1>4 DEF SessionInv, MgrGoto
  <1>6. mgen' \in {mgen, 0} \/ (~suppressed /\ mgen' = gen)
    <2>1. CASE MgrWakes
      BY Zenon, <2>1 DEF MgrWakes, MgrRests, MgrTries
    <2>2. CASE MgrProbed \/ MgrRebuilt \/ MgrTried \/ MgrCoolsDown
      BY Zenon, <2>2 DEF MgrProbed, MgrRebuilt, MgrTried, MgrCoolsDown, MgrRests, MgrTries, mgr
    <2>3. CASE MgrBacksOff
      BY Zenon, <2>3 DEF MgrBacksOff, MgrRests, MgrTries, mgr
    <2> QED
      BY <2>1, <2>2, <2>3 DEF MgrStep
  <1>7. gen \in Nat /\ mgen \in Nat /\ mgen <= gen
    BY Zenon DEF RebindInv, SessionTypes
  <1>8. /\ gen' \in Nat /\ mgen' \in Nat /\ mgen' <= gen'
        /\ mgen < gen /\ suppressed => mgen' < gen'
    <2>1. PICK m : mgen' = m
      OBVIOUS
    <2>2. m \in Nat /\ m <= gen /\ (mgen < gen /\ suppressed => m < gen)
      BY <1>6, <1>7, <2>1
    <2> QED
      BY Zenon, <1>2, <1>7, <2>1, <2>2
  <1>9. Aside
    BY Zenon, <1>1, <1>2, <1>4, <1>5, <1>8 DEF Aside, Dialing, session
  <1> QED
    BY Zenon, <1>9, AsideKeeps

\* A socket, a background task or a failed send brings the client down.
LEMMA PublishAside ==
  ASSUME SessionInv, RebindInv, NEW n, Publish(n),
         UNCHANGED <<who, generation, phase, renewing, id, hand, stage, stream, oldPeers, crossed, suppressed, gen, mgen>>,
         sink' \in {0, sink}, reads' \subseteq reads
  PROVE  RebindInv'
  <1>1. connected' = FALSE /\ pc' = IF connected THEN Heard("down") ELSE pc
    BY Zenon DEF Publish
  <1>2. \A s \in Task : \/ pc'[s] = pc[s]
                        \/ pc[s] = "wait" /\ pc'[s] \in {"down", "err"}
    BY Zenon, <1>1, HeardWhere
  <1>3. Rb \in Task
    BY Zenon, Tasks DEF Task
  <1>4. gen \in Nat /\ mgen \in Nat /\ mgen <= gen
    BY Zenon DEF RebindInv, SessionTypes
  <1>5. Aside
    BY <1>1, <1>2, <1>3, <1>4 DEF Aside, Dialing, Seeking
  <1> QED
    BY <1>5, AsideKeeps

\* The parts of the state nothing of RebindInv looks at may change freely.
LEMMA StillAside ==
  ASSUME RebindInv,
         UNCHANGED <<connected, suppressed, gen, mgen, sink, stream, reads, who, hand, id, pc, stage, session, crossed>>
  PROVE  RebindInv'
  BY Zenon DEF RebindInv, SessionTypes, RebindPlace, AttemptSocket, KeptDown, AllCurrent, Unbound,
         Bound, Current, session

LEMMA SocketAside ==
  ASSUME SessionInv, RebindInv, SocketStep \/ (\E k \in Socket : Break(k)),
         UNCHANGED <<session, crossed>>
  PROVE  RebindInv'
  <1>1. CASE PingEnds \/ (\E k \in Socket : Break(k))
    <2>1. UNCHANGED <<connected, suppressed, gen, mgen, sink, stream, reads, who, hand, id, pc, stage>>
      BY Zenon, <1>1 DEF PingEnds, Break, flags, mgr
    <2> QED
      BY Zenon, <2>1, StillAside
  <1>2. CASE PingFails \/ PongTimeout \/ (\E k \in Socket : ReceiverEnds(k))
    <2>1. /\ Publish(TRUE)
          /\ UNCHANGED <<who, id, hand, stage, stream, suppressed, gen, mgen, sink>>
          /\ reads' \subseteq reads
      BY Zenon, <1>2 DEF PingFails, PongTimeout, ReceiverEnds, mgr
    <2> QED
      BY Zenon, <2>1, PublishAside DEF session
  <1> QED
    BY Zenon, <1>1, <1>2 DEF SocketStep

\* A delayed offer needs a receiver of a replaced identity.
LEMMA OfferKeeps ==
  ASSUME RebindInv, Offer
  PROVE  RebindInv'
  <1>0. SessionTypes /\ RebindPlace /\ AttemptSocket /\ KeptDown /\ AllCurrent
    BY Zenon DEF RebindInv
  <1>1. UNCHANGED <<connected, suppressed, gen, mgen, sink, stream, reads, who, hand, id, pc, stage, phase, generation, renewing, crossed>>
    BY DEF Offer, svars, flags, socks, mgr
  <1>2. SessionTypes' /\ RebindPlace' /\ AttemptSocket'
    BY <1>0, <1>1 DEF SessionTypes, RebindPlace, AttemptSocket, Current
  <1>3. PICK k \in reads : who[k] # generation
    BY Zenon DEF Offer
  <1>4. Unbound /\ ~crossed => stage[Rb] = "down"
    BY Zenon, <1>0, <1>3 DEF KeptDown
  <1>5. ~(Bound /\ ~crossed)
    BY Zenon, <1>0, <1>3 DEF AllCurrent, Current
  <1>6. KeptDown'
    BY Zenon, <1>0, <1>1, <1>4 DEF KeptDown, Unbound
  <1>7. AllCurrent'
    BY Zenon, <1>1, <1>5 DEF AllCurrent, Bound
  <1> QED
    BY Zenon, <1>2, <1>6, <1>7 DEF RebindInv

\* What the other tasks' own steps do to the flags.
LEMMA FlagsAside ==
  ASSUME SessionInv, RebindInv, NEW t \in User \ {Rb}, NEW l, NEW p,
         Go(t, l, p), pc[t] \notin Dialing \cup {"live"}, p \notin Dialing \cup {"live"},
         Flags \/ (\E b \in BOOLEAN : CallSchedule(b)) \/ (CallDisconnect /\ UNCHANGED crossed),
         UNCHANGED <<who, generation, phase, renewing, id, hand, sink, stream, reads, mgen>>,
         oldPeers' => oldPeers
  PROVE  RebindInv'
  <1>1. t \in Task /\ Rb \in Task /\ Mgr \in Task /\ t # Rb /\ t # Mgr
    BY Zenon, SignalingAssumption, Tasks DEF Task, Mgr
  <1>2. /\ \A s \in Task : s # t => pc'[s] = pc[s] /\ stage'[s] = stage[s]
        /\ pc'[t] = p
    BY Zenon, <1>1 DEF SessionInv, Go
  <1>3. gen \in Nat /\ mgen \in Nat /\ mgen <= gen
    BY Zenon DEF RebindInv, SessionTypes
  <1>4. connected' = connected /\ (crossed => crossed') /\ gen' \in {gen, gen + 1}
    <2>1. connected' = connected
      BY DEF Flags, CallSchedule, CallDisconnect, flags
    <2>3. crossed => crossed'
      BY Zenon DEF Flags, CallSchedule
    <2>2. gen' \in {gen, gen + 1}
      BY Zenon DEF Flags, CallSchedule, CallDisconnect, Suppress, flags
    <2> QED
      BY Zenon, <2>1, <2>2, <2>3
  <1>5. Unbound /\ ~crossed' /\ suppressed => suppressed'
    BY Zenon DEF Flags, CallSchedule, CallDisconnect, Suppress, flags, Unbound, Rebinds
  <1>6. gen' \in Nat /\ mgen' \in Nat /\ mgen' <= gen' /\ (mgen < gen => mgen' < gen')
    <2>1. PICK g : gen' = g
      OBVIOUS
    <2>2. g \in Nat /\ mgen <= g /\ (mgen < gen => mgen < g)
      BY <1>3, <1>4, <2>1
    <2> QED
      BY Zenon, <1>3, <2>1, <2>2
  <1>7. Aside
    BY Zenon, <1>1, <1>2, <1>4, <1>5, <1>6 DEF Aside
  <1> QED
    BY Zenon, <1>7, AsideKeeps

\* The heartbeat's and the reconciler's own steps.
LEMMA OthersAside ==
  ASSUME SessionInv, RebindInv, HbConnect \/ HbConnected \/ NetStep \/ NetAct \/ NetPrepare
  PROVE  RebindInv'
  <1>1. UNCHANGED <<who, generation, phase, renewing, id, hand, sink, stream, reads, mgen>>
    <2>1. CASE HbConnect \/ HbConnected
      BY Zenon, <2>1 DEF HbConnect, HbConnected, Quiet, session, socks, mgr
    <2>2. CASE NetDisconnected
      BY Zenon, <2>2 DEF NetDisconnected, Quiet, socks, mgr
    <2>3. CASE NetProbed \/ NetRebuild \/ NetConnected \/ NetAct \/ NetPrepare
      BY Zenon, <2>3 DEF NetProbed, NetRebuild, NetConnected, NetAct, NetPrepare, Quiet, session,
             socks, mgr
    <2> QED
      BY Zenon, <2>1, <2>2, <2>3 DEF NetStep
  <1>2. oldPeers' => oldPeers
    <2>1. CASE HbConnect \/ HbConnected
      BY Zenon, <2>1 DEF HbConnect, HbConnected, session
    <2>2. CASE NetDisconnected
      BY Zenon, <2>2 DEF NetDisconnected
    <2>3. CASE NetProbed \/ NetRebuild \/ NetConnected \/ NetAct \/ NetPrepare
      BY Zenon, <2>3 DEF NetProbed, NetRebuild, NetConnected, NetAct, NetPrepare, session
    <2> QED
      BY Zenon, <2>1, <2>2, <2>3 DEF NetStep
  <1>3. PICK t \in User \ {Rb}, p \in {"idle", "look", "probe", "swap"} :
          /\ pc[t] \in {"idle", "ok", "err"} /\ (\E l : Go(t, l, p))
          /\ Flags \/ (\E b \in BOOLEAN : CallSchedule(b)) \/ (CallDisconnect /\ UNCHANGED crossed)
    <2>0. Hb \in User \ {Rb} /\ Net \in User \ {Rb}
      BY Zenon, Tasks DEF Hb, Rb
    <2>1. CASE HbConnect \/ HbConnected
      BY Zenon, <2>0, <2>1 DEF HbConnect, HbConnected, Returned
    <2>2. CASE NetDisconnected
      BY Zenon, <2>0, <2>2 DEF NetDisconnected, Restore, Returned
    <2>3. CASE NetProbed \/ NetRebuild \/ NetConnected
      BY Zenon, <2>0, <2>3 DEF NetProbed, NetRebuild, NetConnected, Returned
    <2>4. CASE NetAct
      BY Zenon, <2>0, <2>4 DEF NetAct, Restore, Returned
    <2>5. CASE NetPrepare
      BY Zenon, <2>0, <2>5 DEF NetPrepare, CallDisconnect, Returned
    <2> QED
      BY Zenon, <2>1, <2>2, <2>3, <2>4, <2>5 DEF NetStep
  <1> QED
    BY <1>1, <1>2, <1>3, FlagsAside DEF Dialing

LEMMA HbRebind ==
  ASSUME SessionInv, RebindInv, HbStep
  PROVE  RebindInv'
  <1>1. CASE HbConnect \/ HbConnected
    BY <1>1, OthersAside
  <1>2. CASE HbBeats
    BY <1>2, StillAside DEF HbBeats, vars, svars, flags, socks, mgr
  <1>3. CASE HbFails
    <2>1. /\ Publish(TRUE) /\ sink' = 0 /\ reads' \subseteq reads
          /\ UNCHANGED <<who, id, hand, stage, stream, suppressed, gen, mgen, session, crossed>>
      BY Zenon, <1>3 DEF HbFails, SendFails, mgr
    <2> QED
      BY Zenon, <2>1, PublishAside DEF session
  <1> QED
    BY Zenon, <1>1, <1>2, <1>3 DEF HbStep

\* A renewal is started only when none runs.
LEMMA RenewRebind ==
  ASSUME SessionInv, RebindInv, HbRenews
  PROVE  RebindInv'
  <1>0. SessionTypes /\ RebindPlace /\ AttemptSocket /\ KeptDown /\ AllCurrent
    BY DEF RebindInv
  <1>1. /\ UNCHANGED <<connected, suppressed, gen, mgen, sink, stream, reads, who, hand, id, pc, phase, generation, oldPeers, crossed>>
        /\ renewing' = TRUE
        /\ stage' = [stage EXCEPT ![Rb] = IF renewing THEN @ ELSE "renew"]
    BY Zenon DEF HbRenews, Flags, flags, Quiet, socks, mgr
  <1>2. stage'[Rb] = stage[Rb] \/ (stage[Rb] = "idle" /\ stage'[Rb] = "renew")
    BY Zenon, <1>0, <1>1, Tasks DEF SessionInv, RebindPlace, Task
  <1>3. SessionTypes' /\ AttemptSocket'
    BY Zenon, <1>0, <1>1 DEF SessionTypes, AttemptSocket, Current
  <1>4. RebindPlace'
    BY Zenon, <1>0, <1>1, <1>2 DEF RebindPlace
  <1>5. Mild
    <2>1. (Unbound' => Unbound) /\ (Bound' => Bound)
      BY Zenon, <1>1, <1>2 DEF Unbound, Bound
    <2> QED
      BY Zenon, <1>1, <1>2, <2>1 DEF Mild
  <1> QED
    BY Zenon, <1>0, <1>3, <1>4, <1>5, MildKeeps DEF RebindInv

\* The rebind's own steps leave the client's sockets alone.
LEMMA RbMoves ==
  ASSUME SessionInv, NEW l, NEW p, Go(Rb, l, p)
  PROVE  /\ pc'[Rb] = p /\ stage'[Rb] = l
         /\ \A s \in Task : s # Rb => pc'[s] = pc[s]
         /\ Rb \in Task /\ Mgr \in Task /\ Rb # Mgr
         /\ pc'[Mgr] = pc[Mgr]
  <1>1. Rb \in Task /\ Mgr \in Task /\ Rb # Mgr
    BY Zenon, SignalingAssumption, Tasks DEF Task, Mgr
  <1> QED
    BY Zenon, <1>1 DEF SessionInv, Go

\* What they need of the socket of an attempt: the rebind is in none.
LEMMA RbSockets ==
  ASSUME SessionInv, RebindInv, NEW l, NEW p, Go(Rb, l, p),
         pc[Rb] \notin Dialing, p \notin Dialing,
         UNCHANGED <<sink, stream, reads, who, hand, mgen>>,
         gen' \in Nat, mgen <= gen'
  PROVE  SessionTypes' /\ AttemptSocket'
  <1>1. /\ pc'[Rb] = p
        /\ \A s \in Task : s # Rb => pc'[s] = pc[s]
        /\ Rb \in Task
    BY Zenon, RbMoves
  <1>2. SessionTypes /\ AttemptSocket
    BY Zenon DEF RebindInv
  <1>3. SessionTypes'
    <2>1. who' = [k \in Socket |-> who'[k]] /\ reads' \subseteq Socket /\ {hand', stream'} \subseteq Socket \cup {0}
      BY Zenon, <1>2 DEF SessionTypes
    <2>2. gen' \in Nat /\ mgen' \in Nat /\ mgen' <= gen'
      BY <1>2 DEF SessionTypes
    <2> QED
      BY Zenon, <2>1, <2>2 DEF SessionTypes
  <1>4. hand' # 0 => \E t \in Task : pc'[t] \in Dialing
    BY Zenon, <1>1, <1>2 DEF AttemptSocket
  <1>5. \A t \in Task : /\ pc'[t] \in {"dialed", "sinked"} => hand' # 0
                        /\ pc'[t] = "sinked" => sink' \in {0, hand'}
    BY Zenon, <1>1, <1>2 DEF AttemptSocket, Dialing
  <1>6. pc'[Rb] \notin Dialing
    BY <1>1
  <1> QED
    BY Zenon, <1>3, <1>4, <1>5, <1>6 DEF AttemptSocket

LEMMA RbRenewRebind ==
  ASSUME SessionInv, RebindInv, RbRenew
  PROVE  RebindInv'
  <1>0. SessionTypes /\ RebindPlace /\ AttemptSocket /\ KeptDown /\ AllCurrent
    BY DEF RebindInv
  <1>1. /\ stage[Rb] = "renew" /\ pc[Rb] \in {"idle", "ok", "err"}
        /\ UNCHANGED <<connected, suppressed, gen, mgen, sink, stream, reads, who, hand, id, crossed>>
    BY Zenon DEF RbRenew, Returned, Quiet, Flags, flags, socks, mgr
  <1>2. gen \in Nat /\ mgen <= gen
    BY Zenon, <1>0 DEF SessionTypes
  <1>3. CASE /\ phase' \in {phase, "RealmUnavailable"} /\ renewing' = FALSE
             /\ Go(Rb, "idle", "idle") /\ UNCHANGED <<generation, oldPeers>>
    <2>1. /\ pc'[Rb] = "idle" /\ stage'[Rb] = "idle"
          /\ \A s \in Task : s # Rb => pc'[s] = pc[s]
          /\ pc'[Mgr] = pc[Mgr]
      BY <1>3, RbMoves
    <2>2. SessionTypes' /\ AttemptSocket'
      BY Zenon, <1>1, <1>2, <1>3, RbSockets DEF Dialing
    <2>3. RebindPlace'
      BY <1>0, <1>1, <1>3, <2>1 DEF RebindPlace
    <2>4. Mild
      <3>1. ~Unbound' /\ (Bound' => Bound)
        BY Zenon, <1>3, <2>1 DEF Unbound, Bound
      <3>2. ~Unbound
        BY Zenon, <1>1 DEF Unbound
      <3>3. \A t \in Task : pc'[t] = "live" => pc[t] = "live"
        BY Zenon, <2>1
      <3> QED
        BY Zenon, <1>1, <1>3, <2>1, <3>1, <3>2, <3>3 DEF Mild
    <2> QED
      BY <1>0, <2>2, <2>3, <2>4, MildKeeps DEF RebindInv
  <1>4. CASE /\ phase' = "Rebinding" /\ Go(Rb, "committed", "idle") /\ UNCHANGED renewing
    <2>1. pc'[Rb] = "idle" /\ stage'[Rb] = "committed"
      BY Zenon, <1>4, RbMoves
    <2>2. SessionTypes' /\ AttemptSocket'
      BY Zenon, <1>1, <1>2, <1>4, RbSockets DEF Dialing
    <2>3. RebindPlace'
      BY Zenon, <1>0, <1>1, <1>4, <2>1 DEF RebindPlace
    <2>4. ~Unbound' /\ ~Bound'
      BY Zenon, <1>4, <2>1 DEF Unbound, Bound
    <2> QED
      BY Zenon, <2>2, <2>3, <2>4 DEF RebindInv, KeptDown, AllCurrent
  <1> QED
    BY Zenon, <1>3, <1>4 DEF RbRenew

\* From here the suppression stands and every manager in flight is outdated.
LEMMA RbDisconnectRebind ==
  ASSUME SessionInv, RebindInv, RbDisconnect
  PROVE  RebindInv'
  <1>0. RebindPlace /\ SessionTypes
    BY Zenon DEF RebindInv
  <1>1. /\ stage[Rb] = "committed" /\ pc[Rb] \in {"idle", "ok", "err"} /\ Go(Rb, "down", "swap")
        /\ suppressed' = TRUE /\ gen' = gen + 1
        /\ UNCHANGED <<mgen, sink, stream, reads, who, hand, id, phase, generation, renewing>>
    BY Zenon DEF RbDisconnect, CallDisconnect, Suppress, Returned, Quiet, session, socks, mgr
  <1>2. pc'[Rb] = "swap" /\ stage'[Rb] = "down"
    BY Zenon, <1>1, RbMoves
  <1>3. gen' \in Nat /\ mgen <= gen' /\ mgen' < gen'
    BY <1>0, <1>1 DEF SessionTypes
  <1>4. SessionTypes' /\ AttemptSocket'
    BY Zenon, <1>1, <1>3, RbSockets DEF Dialing
  <1>5. RebindPlace'
    BY Zenon, <1>0, <1>1, <1>2 DEF RebindPlace
  <1>6. ~Bound'
    BY Zenon, <1>0, <1>1, <1>2 DEF Bound, RebindPlace
  <1>7. KeptDown'
    BY Zenon, <1>1, <1>2, <1>3 DEF KeptDown
  <1> QED
    BY <1>4, <1>5, <1>6, <1>7 DEF RebindInv, AllCurrent

\* The old peers go, and no receiver is left unless crossed says so.
LEMMA RbCloseRebind ==
  ASSUME SessionInv, RebindInv, RbClosePeers
  PROVE  RebindInv'
  <1>0. SessionTypes /\ RebindPlace /\ KeptDown
    BY Zenon DEF RebindInv
  <1>1. /\ stage[Rb] = "down" /\ pc[Rb] \in {"idle", "ok", "err"} /\ Go(Rb, "bind", "idle")
        /\ oldPeers' = FALSE /\ crossed' = (crossed \/ reads # {})
        /\ UNCHANGED <<connected, suppressed, gen, mgen, sink, stream, reads, who, hand, id, phase, generation, renewing>>
    BY Zenon DEF RbClosePeers, Returned, Quiet, flags, socks, mgr
  <1>2. /\ pc'[Rb] = "idle" /\ stage'[Rb] = "bind" /\ pc'[Mgr] = pc[Mgr]
        /\ \A s \in Task : s # Rb => pc'[s] = pc[s]
    BY Zenon, <1>1, RbMoves
  <1>3. gen' \in Nat /\ mgen <= gen'
    BY Zenon, <1>0, <1>1 DEF SessionTypes
  <1>4. SessionTypes' /\ AttemptSocket'
    BY Zenon, <1>1, <1>3, RbSockets DEF Dialing
  <1>5. RebindPlace'
    BY Zenon, <1>0, <1>1, <1>2 DEF RebindPlace
  <1>6. ~Bound'
    BY Zenon, <1>0, <1>1, <1>2 DEF Bound, RebindPlace
  <1>7. KeptDown'
    <2> SUFFICES ASSUME ~crossed'
                 PROVE  /\ suppressed' /\ mgen' < gen'
                        /\ connected' => pc'[Mgr] \in {"live", "swap"}
                        /\ \A t \in User : pc'[t] = "live" => stream' = 0
                        /\ ~oldPeers' /\ reads' = {}
      BY Zenon DEF KeptDown
    <2>1. ~crossed /\ reads = {}
      BY Zenon, <1>1
    <2>2. Unbound /\ pc[Rb] \notin {"swap", "close", "drain"}
      BY Zenon, <1>1 DEF Unbound
    <2>3. /\ suppressed /\ mgen < gen
          /\ connected => pc[Mgr] \in {"live", "swap"}
          /\ \A t \in User : pc[t] = "live" => stream = 0
      BY Zenon, <1>0, <2>1, <2>2 DEF KeptDown
    <2>4. \A t \in User : pc'[t] = "live" => pc[t] = "live"
      BY Zenon, <1>2 DEF Task
    <2> QED
      BY Zenon, <1>1, <1>2, <2>1, <2>3, <2>4
  <1> QED
    BY <1>4, <1>5, <1>6, <1>7 DEF RebindInv, AllCurrent

LEMMA RbBindRebind ==
  ASSUME SessionInv, RebindInv, RbBind
  PROVE  RebindInv'
  <1>0. SessionTypes /\ RebindPlace /\ KeptDown /\ AllCurrent
    BY DEF RebindInv
  <1>1. /\ stage[Rb] = "bind" /\ pc[Rb] \in {"idle", "ok", "err"} /\ Go(Rb, "conn", "look")
        /\ id' = generation
        /\ UNCHANGED <<connected, suppressed, gen, mgen, sink, stream, reads, who, hand, phase, generation, renewing, oldPeers, crossed>>
    BY DEF RbBind, Returned, Quiet, Flags, flags, socks, mgr, session
  <1>2. /\ pc'[Rb] = "look" /\ stage'[Rb] = "conn" /\ pc'[Mgr] = pc[Mgr]
        /\ \A s \in Task : s # Rb => pc'[s] = pc[s]
    BY Zenon, <1>1, RbMoves
  <1>3. gen' \in Nat /\ mgen <= gen'
    BY <1>0, <1>1 DEF SessionTypes
  <1>4. SessionTypes' /\ AttemptSocket'
    BY <1>1, <1>3, RbSockets DEF Dialing
  <1>5. RebindPlace'
    BY Zenon, <1>0, <1>1, <1>2 DEF RebindPlace
  <1>6. Mild
    <2>1. Unbound /\ (Bound' => Bound)
      BY Zenon, <1>1, <1>2 DEF Unbound, Bound
    <2>2. \A t \in Task : pc'[t] = "live" => pc[t] = "live"
      BY Zenon, <1>2
    <2> QED
      BY Zenon, <1>1, <1>2, <2>1, <2>2 DEF Mild
  <1> QED
    BY Zenon, <1>0, <1>4, <1>5, <1>6, MildKeeps DEF RebindInv

\* The session is Active only behind a connect that went through.
LEMMA RbConnectedRebind ==
  ASSUME SessionInv, RebindInv, RbConnected
  PROVE  RebindInv'
  <1>0. SessionTypes /\ RebindPlace /\ KeptDown /\ AllCurrent
    BY DEF RebindInv
  <1>1. /\ stage[Rb] = "conn" /\ pc[Rb] \in {"idle", "ok", "err"} /\ Go(Rb, "idle", "idle")
        /\ renewing' = FALSE
        /\ UNCHANGED <<sink, stream, reads, who, hand, mgen, id, generation, oldPeers>>
    BY Zenon DEF RbConnected, Returned, Quiet, socks, mgr
  <1>2. /\ pc'[Rb] = "idle" /\ stage'[Rb] = "idle" /\ pc'[Mgr] = pc[Mgr]
        /\ \A s \in Task : s # Rb => pc'[s] = pc[s]
    BY Zenon, <1>1, RbMoves
  <1>3. gen' = gen /\ gen' \in Nat /\ mgen <= gen'
    BY Zenon, <1>0 DEF SessionTypes, RbConnected, Flags, flags, CallSchedule
  <1>4. SessionTypes' /\ AttemptSocket'
    BY Zenon, <1>1, <1>3, RbSockets DEF Dialing
  <1>5. phase = "Rebinding" /\ id = generation
    BY <1>0, <1>1 DEF RebindPlace
  <1>6. phase' \in {"Active", phase}
    BY Zenon DEF RbConnected
  <1>7. RebindPlace'
    BY <1>1, <1>2, <1>5, <1>6 DEF RebindPlace
  <1>8. ~Unbound'
    BY Zenon, <1>2 DEF Unbound
  <1>9. CASE pc[Rb] = "ok" /\ phase' = "Active" /\ Flags
    <2>1. Mild
      <3>1. Bound /\ ~Unbound
        BY Zenon, <1>1, <1>9 DEF Bound, Unbound
      <3>2. \A t \in Task : pc'[t] = "live" => pc[t] = "live"
        BY Zenon, <1>2
      <3>3. connected' = connected /\ suppressed' = suppressed /\ crossed' = crossed
        BY Zenon, <1>9 DEF Flags, flags
      <3>4. stage'[Rb] # "down" /\ stage[Rb] # "down"
        BY Zenon, <1>1, <1>2
      <3> QED
        BY Zenon, <1>1, <1>2, <1>3, <1>8, <1>9, <3>1, <3>2, <3>3, <3>4 DEF Mild
    <2> QED
      BY Zenon, <1>0, <1>4, <1>7, <2>1, MildKeeps DEF RebindInv
  <1>10. CASE pc[Rb] = "err" /\ UNCHANGED phase
    <2>1. ~Bound'
      BY Zenon, <1>2, <1>5, <1>10 DEF Bound
    <2> QED
      BY Zenon, <1>4, <1>7, <1>8, <2>1 DEF RebindInv, KeptDown, AllCurrent
  <1> QED
    BY Zenon, <1>9, <1>10 DEF RbConnected

\* Where a step inside the client leaves the tasks.
LEMMA ClientMoves ==
  ASSUME SessionInv, NEW t \in Task, NEW l, NEW e \in {"ok", "down"},
         Goto(t, l) \/ Send(t, l, e)
  PROVE  /\ pc'[t] = l
         /\ \A s \in Task : s # t =>
               \/ pc'[s] = pc[s]
               \/ pc[s] = "wait" /\ pc'[s] \in {e, "err"} /\ (s # Mgr => pc'[s] = e)
  <1>1. CASE Goto(t, l)
    BY Zenon, <1>1 DEF Goto, SessionInv
  <1>2. CASE Send(t, l, e)
    <2>1. Heard(e) = [s \in Task |-> Heard(e)[s]]
      BY Zenon, HeardMoves
    <2>2. pc'[t] = l /\ \A s \in Task : s # t => pc'[s] = Heard(e)[s]
      BY Zenon, <1>2, <2>1 DEF Send
    <2> QED
      BY Zenon, <2>2, HeardWhere
  <1> QED
    BY Zenon, <1>1, <1>2

\* A task moves inside the client without touching an attempt.
LEMMA ClientAside ==
  ASSUME SessionInv, RebindInv, NEW t \in Task, NEW l,
         Goto(t, l) \/ Send(t, l, "down"),
         pc[t] \notin Dialing, l \notin Dialing \cup {"live"},
         t = Rb => \/ pc[Rb] \in Seeking /\ l \in Seeking
                   \/ pc[Rb] = "close" /\ l = "drain",
         t = Mgr /\ pc[Mgr] \in {"live", "swap"} => ~connected' \/ l = "swap",
         UNCHANGED <<who, hand, id, stage, suppressed, gen, mgen, session>>,
         sink' \in {0, sink}, stream' \in {0, stream}, reads' \subseteq reads,
         connected' => connected, crossed => crossed'
  PROVE  RebindInv'
  <1>1. /\ pc'[t] = l
        /\ \A s \in Task : s # t =>
              \/ pc'[s] = pc[s]
              \/ pc[s] = "wait" /\ pc'[s] \in {"down", "err"} /\ (s # Mgr => pc'[s] = "down")
    BY Zenon, ClientMoves
  <1>2. Rb \in Task /\ Mgr \in Task /\ Rb # Mgr
    BY Zenon, SignalingAssumption, Tasks DEF Task, Mgr
  <1>3. gen \in Nat /\ mgen \in Nat /\ mgen <= gen
    BY Zenon DEF RebindInv, SessionTypes
  <1>4. \/ pc'[Rb] = pc[Rb]
        \/ pc[Rb] \in Seeking /\ pc'[Rb] \in Seeking
        \/ pc[Rb] = "close" /\ pc'[Rb] = "drain"
    BY Zenon, <1>1, <1>2 DEF Seeking
  <1>5. \A s \in Task : /\ pc[s] \in Dialing \/ pc'[s] \in Dialing => pc'[s] = pc[s]
                        /\ pc'[s] = "live" => pc[s] = "live"
    BY Zenon, <1>1 DEF Dialing
  <1>6. connected' /\ pc[Mgr] \in {"live", "swap"} => pc'[Mgr] \in {"live", "swap"}
    BY Zenon, <1>1, <1>2
  <1>7. Aside
    BY Zenon, <1>3, <1>4, <1>5, <1>6 DEF Aside, session
  <1> QED
    BY Zenon, <1>7, AsideKeeps

\* The rebind's disconnect: the client is down, then the stream is gone.
LEMMA RbDownRebind ==
  ASSUME SessionInv, RebindInv, Swap(Rb) \/ Drain(Rb), UNCHANGED session, crossed' <=> crossed
  PROVE  RebindInv'
  <1>0. SessionTypes /\ RebindPlace /\ AttemptSocket /\ KeptDown /\ AllCurrent
    BY Zenon DEF RebindInv
  <1>1. Rb \in Task /\ Mgr \in Task /\ Rb # Mgr
    BY Zenon, SignalingAssumption, Tasks DEF Task, Mgr
  <1>2. PICK l \in {"close", "ok"} :
          /\ Goto(Rb, l) \/ Send(Rb, l, "down")
          /\ pc[Rb] \in {"swap", "drain"}
          /\ pc[Rb] = "swap" => l = "close" /\ connected' = FALSE
          /\ pc[Rb] = "drain" => l = "ok" /\ connected' = connected /\ stream' = 0
    BY Zenon, <1>1 DEF Swap, Drain, flags
  <1>3. /\ UNCHANGED <<who, hand, id, stage, suppressed, gen, mgen, sink>>
        /\ stream' \in {0, stream} /\ reads' \subseteq reads
    BY Zenon DEF Swap, Drain, flags, mgr
  <1>4. /\ pc'[Rb] = l
        /\ \A s \in Task : s # Rb =>
              \/ pc'[s] = pc[s]
              \/ pc[s] = "wait" /\ pc'[s] \in {"down", "err"} /\ (s # Mgr => pc'[s] = "down")
    BY Zenon, <1>1, <1>2, ClientMoves
  <1>5. stage[Rb] = "down"
    BY Zenon, <1>0, <1>2 DEF RebindPlace, Owning
  <1>6. SessionTypes'
    BY Zenon, <1>0, <1>3 DEF SessionTypes
  <1>7. RebindPlace'
    BY Zenon, <1>0, <1>2, <1>3, <1>4, <1>5 DEF RebindPlace, session
  <1>8. AttemptSocket'
    <2>1. \A s \in Task : pc[s] \in Dialing \/ pc'[s] \in Dialing => pc'[s] = pc[s]
      BY Zenon, <1>2, <1>4 DEF Dialing
    <2>2. pc'[Rb] \notin Dialing
      BY Zenon, <1>4 DEF Dialing
    <2>3. hand' # 0 => \E s \in Task : pc'[s] \in Dialing
      BY Zenon, <1>0, <1>3, <2>1 DEF AttemptSocket
    <2>4. \A s \in Task : /\ pc'[s] \in {"dialed", "sinked"} => hand' # 0
                          /\ pc'[s] = "sinked" => sink' \in {0, hand'}
      BY Zenon, <1>0, <1>3, <2>1 DEF AttemptSocket, Dialing
    <2> QED
      BY Zenon, <2>2, <2>3, <2>4 DEF AttemptSocket
  <1>9. ~Bound'
    BY Zenon, <1>0, <1>3, <1>5 DEF Bound, RebindPlace, session
  <1>10. KeptDown'
    <2> SUFFICES ASSUME ~crossed'
                 PROVE  /\ suppressed' /\ mgen' < gen'
                        /\ connected' => pc'[Mgr] \in {"live", "swap"}
                        /\ pc'[Rb] \notin {"swap", "close", "drain"} => stream' = 0
      BY Zenon, <1>3, <1>5 DEF KeptDown
    <2>1. /\ suppressed /\ mgen < gen
          /\ pc[Rb] # "swap" /\ connected => pc[Mgr] \in {"live", "swap"}
      BY Zenon, <1>0, <1>5 DEF KeptDown, Unbound
    <2>2. connected' => pc'[Mgr] \in {"live", "swap"}
      BY Zenon, <1>1, <1>2, <1>4, <2>1
    <2> QED
      BY Zenon, <1>2, <1>3, <1>4, <2>1, <2>2
  <1> QED
    BY Zenon, <1>6, <1>7, <1>8, <1>9, <1>10 DEF RebindInv, AllCurrent

\* The rebind's connect finds the client up, which by then can only be a
\* reconnect that is about to undo itself.
LEMMA RbThrough ==
  ASSUME SessionInv, RebindInv, Goto(Rb, "ok"), pc[Rb] \in Seeking, connected,
         UNCHANGED <<connected, suppressed, gen, mgen, sink, stream, reads, who, hand, id, stage, session>>, crossed' <=> crossed
  PROVE  RebindInv'
  <1>0. SessionTypes /\ RebindPlace /\ AttemptSocket /\ KeptDown /\ AllCurrent
    BY Zenon DEF RebindInv
  <1>1. Rb \in Task /\ Mgr \in Task /\ Rb # Mgr
    BY SignalingAssumption, Tasks DEF Task, Mgr
  <1>2. pc'[Rb] = "ok" /\ \A s \in Task : s # Rb => pc'[s] = pc[s]
    BY Zenon, <1>1 DEF Goto, SessionInv
  <1>3. stage[Rb] = "conn"
    BY <1>0 DEF RebindPlace, Seeking
  <1>4. \A s \in Task : pc[s] \notin Dialing
    BY Zenon DEF SessionInv, Dialing
  <1>5. hand = 0
    BY Zenon, <1>0, <1>4 DEF AttemptSocket
  <1>6. SessionTypes'
    BY Zenon, <1>0 DEF SessionTypes
  <1>7. RebindPlace'
    BY Zenon, <1>0, <1>2, <1>3 DEF RebindPlace, session
  <1>8. \A s \in Task : pc'[s] \notin Dialing
    BY Zenon, <1>2, <1>4 DEF Dialing
  <1>9. AttemptSocket'
    BY Zenon, <1>1, <1>5, <1>8 DEF AttemptSocket, Dialing
  <1>10. ~Unbound'
    BY Zenon, <1>2, <1>3 DEF Unbound
  <1>11. AllCurrent'
    <2> SUFFICES ASSUME ~crossed
                 PROVE  /\ ~oldPeers /\ reads = {}
                        /\ pc'[Mgr] \in {"live", "swap"} /\ mgen < gen
                        /\ \A t \in Task : pc'[t] = "live" /\ stream # 0 => t = Mgr
      BY Zenon, <1>5 DEF AllCurrent, session
    <2>1. Unbound /\ stage[Rb] # "down" /\ pc[Rb] \notin {"swap", "close", "drain"}
      BY Zenon, <1>3 DEF Unbound, Seeking
    <2>2. /\ mgen < gen /\ pc[Mgr] \in {"live", "swap"}
          /\ \A t \in User : pc[t] = "live" => stream = 0
          /\ ~oldPeers /\ reads = {}
      BY Zenon, <1>0, <2>1 DEF KeptDown
    <2> QED
      BY Zenon, <1>1, <1>2, <2>2 DEF Task
  <1> QED
    BY Zenon, <1>6, <1>7, <1>9, <1>10, <1>11 DEF RebindInv, KeptDown

\* The loads of the flags on the way to an attempt.
LEMMA SeekRebind ==
  ASSUME SessionInv, RebindInv, NEW t \in Task, UNCHANGED session, crossed' <=> crossed,
         \/ Look(t) \/ Wait(t) \/ Down(t)
         \/ Cas(t) /\ (connecting \/ connected \/ Cancelled(t))
  PROVE  RebindInv'
  <1>1. /\ UNCHANGED <<connected, suppressed, gen, mgen, sink, stream, reads, who, hand, id, stage>>
        /\ pc[t] \in {"look", "wait", "down", "cas"}
    BY Zenon DEF Look, Wait, Down, Cas, flags, socks, mgr
  <1>2. PICK l \in Seeking \cup {"ok"} : Goto(t, l) /\ (l = "ok" => connected)
    <2>1. CASE Look(t)
      BY <2>1 DEF Look, Seeking
    <2>2. CASE Wait(t) \/ Down(t)
      BY <2>2 DEF Wait, Down, Seeking
    <2>3. CASE Cas(t) /\ (connecting \/ connected \/ Cancelled(t))
      BY <2>3 DEF Cas, Seeking
    <2> QED
      BY Zenon, <2>1, <2>2, <2>3
  <1>3. CASE t = Rb /\ l = "ok"
    BY Zenon, <1>1, <1>2, <1>3, RbThrough DEF Seeking
  <1>4. CASE ~(t = Rb /\ l = "ok")
    <2>1. pc[t] \notin Dialing /\ l \notin Dialing \cup {"live"}
      BY Zenon, <1>1 DEF Dialing, Seeking
    <2>2. t = Rb => pc[Rb] \in Seeking /\ l \in Seeking
      BY Zenon, <1>1, <1>4 DEF Seeking
    <2>3. pc[t] \notin {"live", "swap"}
      BY Zenon, <1>1
    <2> QED
      BY Zenon, <1>1, <1>2, <2>1, <2>2, <2>3, ClientAside
  <1> QED
    BY Zenon, <1>3, <1>4

\* disconnect_internal and probe_alive.
LEMMA DownRebind ==
  ASSUME SessionInv, RebindInv, NEW t \in Task, UNCHANGED session, crossed' <=> crossed,
         Swap(t) \/ Close(t) \/ Drain(t) \/ ProbeAlive(t)
  PROVE  RebindInv'
  <1>1. /\ UNCHANGED <<who, hand, id, stage, suppressed, gen, mgen>>
        /\ sink' \in {0, sink} /\ stream' \in {0, stream} /\ reads' \subseteq reads
        /\ pc[t] \in {"swap", "close", "drain", "probe"}
    BY Zenon DEF Swap, Close, Drain, ProbeAlive, flags, socks, mgr
  <1>2. (connected' => connected) /\ (pc[t] = "swap" => ~connected')
    <2>1. CASE Swap(t)
      BY <2>1 DEF Swap
    <2>2. CASE Close(t) \/ Drain(t)
      <3>1. pc[t] \in {"close", "drain"} /\ connected' = connected
        BY Zenon, <2>2 DEF Close, Drain, flags
      <3>2. pc[t] # "swap"
        BY Zenon, <3>1
      <3> QED
        BY <3>1, <3>2, Zenon
    <2>3. CASE ProbeAlive(t)
      <3>1. pc[t] = "probe" /\ (connected' = connected \/ connected' = FALSE)
        BY Zenon, <2>3 DEF ProbeAlive
      <3> QED
        BY <3>1
    <2> QED
      BY Zenon, <2>1, <2>2, <2>3
  <1>3. PICK l \in {"close", "drain", "ok", "err"} :
          /\ Goto(t, l) \/ Send(t, l, "down")
          /\ pc[t] = "close" => l = "drain"
    BY Zenon DEF Swap, Close, Drain, ProbeAlive
  <1>4. CASE t = Rb /\ pc[t] # "close"
    <2>1. pc[Rb] # "probe"
      BY Zenon DEF RebindInv, RebindPlace, Owning
    <2> QED
      BY Zenon, <1>4, <2>1, RbDownRebind DEF Close, ProbeAlive
  <1>5. CASE ~(t = Rb /\ pc[t] # "close")
    <2>1. pc[t] \notin Dialing /\ l \notin Dialing \cup {"live"}
      BY Zenon, <1>1 DEF Dialing
    <2>2. t = Rb => pc[Rb] = "close" /\ l = "drain"
      BY Zenon, <1>3, <1>5
    <2>3. pc[t] \in {"live", "swap"} => ~connected'
      BY Zenon, <1>1, <1>2
    <2> QED
      BY Zenon, <1>1, <1>2, <1>3, <2>1, <2>2, <2>3, ClientAside
  <1> QED
    BY <1>4, <1>5

INSTANCE WellFoundedInduction

\* Any set of naturals that is not empty has a least element.
LEMMA LeastNat ==
  ASSUME NEW T, T \subseteq Nat, T # {}
  PROVE  \E k \in T : \A j \in T : k <= j
  <1>1. PICK k \in T : \A j \in T : ~(<<j, k>> \in OpToRel(<, Nat))
    BY Zenon, NatLessThanWellFounded, WFMin
  <1>2. \A j \in T : j < k => <<j, k>> \in OpToRel(<, Nat)
    BY DEF OpToRel
  <1>3. \A j \in T : ~(j < k) /\ j \in Nat /\ k \in Nat
    BY Zenon, <1>1, <1>2
  <1>4. \A j \in T : k <= j
    BY <1>3
  <1> QED
    BY <1>4

\* A new socket is none that is in use.
LEMMA NewIsFree == NewSocket \in Socket \cup {0} /\ (NewSocket # 0 => NewSocket \in Socket \ reads)
  <1>1. CASE Free = {}
    BY Zenon, <1>1 DEF NewSocket
  <1>2. CASE Free # {}
    <2>1. Free \subseteq Nat
      BY SignalingAssumption DEF Free, Socket
    <2>2. \E k \in Free : \A j \in Free : k <= j
      BY Zenon, <1>2, <2>1, LeastNat
    <2>3. NewSocket \in Free
      BY Zenon, <1>2, <2>2 DEF NewSocket
    <2> QED
      BY Zenon, <2>3 DEF Free
  <1> QED
    BY Zenon, <1>1, <1>2

\* Whoever takes the flag dials with the identity of now.
LEMMA CasRebind ==
  ASSUME SessionInv, RebindInv, NEW t \in Task, Cas(t),
         ~(connecting \/ connected \/ Cancelled(t)), UNCHANGED session, crossed' <=> crossed
  PROVE  RebindInv'
  <1>0. SessionTypes /\ RebindPlace /\ AttemptSocket /\ KeptDown /\ AllCurrent
    BY Zenon DEF RebindInv
  <1>1. PICK n : n = NewSocket
    OBVIOUS
  <1>2. /\ pc[t] = "cas" /\ Goto(t, "dial") /\ ~connected /\ ~connecting
        /\ hand' = n /\ who' = [k \in Socket |-> IF k = n THEN id ELSE who[k]]
        /\ UNCHANGED <<connected, suppressed, gen, mgen, sink, stream, reads, id, stage>>
    BY Zenon, <1>1 DEF Cas, mgr
  <1>3. n \in Socket \cup {0} /\ (n # 0 => n \in Socket \ reads)
    BY Zenon, <1>1, NewIsFree
  <1>4. Rb \in Task /\ Mgr \in Task
    BY Tasks DEF Task
  <1>5. pc'[t] = "dial" /\ \A s \in Task : s # t => pc'[s] = pc[s]
    BY Zenon, <1>2 DEF Goto, SessionInv
  <1>6. \A s \in Task : pc[s] \notin Owning
    BY Zenon, <1>2 DEF SessionInv, OneConnector
  <1>7. n # 0 => who'[n] = id
    BY Zenon, <1>2, <1>3
  <1>8. \A k \in reads : who'[k] = who[k]
    <2>1. 0 \notin Socket /\ reads \subseteq Socket
      BY <1>0, SignalingAssumption DEF SessionTypes, Socket
    <2>2. \A k \in reads : k # n
      BY Zenon, <1>3, <2>1
    <2> QED
      BY Zenon, <1>2, <2>1, <2>2
  <1>9. SessionTypes'
    <2>1. who' = [k \in Socket |-> who'[k]]
      BY Zenon, <1>2
    <2>2. reads' \subseteq Socket /\ {hand', stream'} \subseteq Socket \cup {0}
      BY Zenon, <1>0, <1>2, <1>3 DEF SessionTypes
    <2>3. gen' \in Nat /\ mgen' \in Nat /\ mgen' <= gen'
      BY Zenon, <1>0, <1>2 DEF SessionTypes
    <2> QED
      BY Zenon, <2>1, <2>2, <2>3 DEF SessionTypes
  <1>10. RebindPlace'
    BY Zenon, <1>0, <1>2, <1>4, <1>5 DEF RebindPlace, Owning, session
  <1>11. AttemptSocket'
    <2>1. hand' # 0 => \E s \in Task : pc'[s] \in Dialing
      BY Zenon, <1>5 DEF Dialing
    <2>2. \A s \in Task : pc'[s] \notin {"dialed", "sinked"}
      BY Zenon, <1>5, <1>6 DEF Owning
    <2>3. pc'[Rb] \in Dialing /\ hand' # 0 => who'[hand'] = generation'
      <3> SUFFICES ASSUME pc'[Rb] \in Dialing, n # 0 PROVE who'[n] = generation
        BY Zenon, <1>2 DEF session
      <3>1. t = Rb
        BY Zenon, <1>4, <1>5, <1>6 DEF Owning, Dialing
      <3>2. id = generation
        BY Zenon, <1>0, <1>2, <3>1 DEF RebindPlace
      <3> QED
        BY Zenon, <1>7, <3>2
    <2> QED
      BY Zenon, <2>1, <2>2, <2>3 DEF AttemptSocket, Current
  <1>12. /\ Unbound' => Unbound
         /\ Bound' => Bound
         /\ pc[Rb] \in {"swap", "close", "drain"} => pc'[Rb] = pc[Rb]
    BY Zenon, <1>2, <1>4, <1>5 DEF Unbound, Bound, session
  <1>13. KeptDown'
    <2> SUFFICES ASSUME Unbound, ~crossed
                 PROVE  /\ suppressed /\ mgen < gen
                        /\ pc'[Rb] \notin {"swap", "close", "drain"} =>
                              \A s \in User : pc'[s] # "live"
                        /\ stage[Rb] # "down" => ~oldPeers /\ reads = {}
      BY Zenon, <1>2, <1>12 DEF KeptDown, session
    <2>1. \A s \in User : pc'[s] # "live"
      BY Zenon, <1>5, <1>6 DEF Owning, Task
    <2> QED
      BY Zenon, <1>0, <2>1 DEF KeptDown
  <1>14. AllCurrent'
    <2> SUFFICES ASSUME Bound, ~crossed
                 PROVE  /\ ~oldPeers /\ \A k \in reads : who'[k] = generation
                        /\ n # 0 => who'[n] = generation
                        /\ \A s \in Task : pc'[s] # "live"
      BY Zenon, <1>2, <1>12 DEF AllCurrent, Current, session
    <2>1. id = generation
      BY Zenon, <1>0 DEF RebindPlace, Bound
    <2>2. \A s \in Task : pc'[s] # "live"
      BY Zenon, <1>5, <1>6 DEF Owning
    <2> QED
      BY Zenon, <1>0, <1>7, <1>8, <2>1, <2>2 DEF AllCurrent, Current
  <1> QED
    BY Zenon, <1>9, <1>10, <1>11, <1>13, <1>14 DEF RebindInv

\* An attempt goes on, or is over without a connection.
LEMMA DialRebind ==
  ASSUME SessionInv, RebindInv, NEW t \in Task, Dial(t) \/ Dialed(t), UNCHANGED session,
         crossed' <=> crossed
  PROVE  RebindInv'
  <1>0. SessionTypes /\ RebindPlace /\ AttemptSocket /\ KeptDown /\ AllCurrent
    BY Zenon DEF RebindInv
  <1>1. /\ pc[t] \in {"dial", "dialed"}
        /\ UNCHANGED <<connected, suppressed, gen, mgen, stream, reads, who, id, stage>>
    BY Zenon DEF Dial, Dialed, mgr
  <1>2. PICK l \in {"dialed", "sinked", "err"} :
          /\ Goto(t, l) \/ Send(t, l, "down")
          /\ l = "err" => hand' = 0
          /\ l # "err" => hand' = hand /\ hand # 0
          /\ l = "sinked" => sink' = hand
          /\ Cancelled(t) /\ pc[t] = "dialed" => l = "err"
    <2>1. CASE Dial(t)
      BY Zenon, <2>1 DEF Dial, Fail
    <2>2. CASE Dialed(t)
      BY Zenon, <1>0, <2>2 DEF Dialed, Fail, AttemptSocket
    <2> QED
      BY Zenon, <2>1, <2>2
  <1>3. Rb \in Task /\ Mgr \in Task /\ Rb # Mgr
    BY Zenon, SignalingAssumption, Tasks DEF Task, Mgr
  <1>4. /\ pc'[t] = l
        /\ \A s \in Task : s # t =>
              \/ pc'[s] = pc[s]
              \/ pc[s] = "wait" /\ pc'[s] \in {"down", "err"} /\ (s # Mgr => pc'[s] = "down")
    BY Zenon, <1>2, ClientMoves
  <1>5. \A s \in Task : s # t => pc[s] \notin Owning /\ pc'[s] \notin Owning
    BY Zenon, <1>1, <1>4 DEF SessionInv, OneConnector, Owning
  <1>6. ~connected
    BY Zenon, <1>1 DEF SessionInv
  <1>7. t = Rb => stage[Rb] = "conn"
    BY Zenon, <1>0, <1>1 DEF RebindPlace
  <1>8. SessionTypes'
    <2>1. {hand', stream'} \subseteq Socket \cup {0}
      BY Zenon, <1>0, <1>1, <1>2 DEF SessionTypes
    <2> QED
      BY Zenon, <1>0, <1>1, <2>1 DEF SessionTypes
  <1>9. RebindPlace'
    <2>1. \/ pc'[Rb] = pc[Rb]
          \/ stage[Rb] = "conn" /\ pc'[Rb] \in {"down", "err"} \cup Owning
      BY Zenon, <1>0, <1>2, <1>3, <1>4, <1>7 DEF RebindPlace, Owning
    <2> QED
      BY <1>0, <1>1, <2>1 DEF RebindPlace, session
  <1>10. AttemptSocket'
    <2>1. hand' # 0 => \E s \in Task : pc'[s] \in Dialing
      BY Zenon, <1>2, <1>4 DEF Dialing
    <2>2. \A s \in Task : /\ pc'[s] \in {"dialed", "sinked"} => hand' # 0
                          /\ pc'[s] = "sinked" => sink' \in {0, hand'}
      BY Zenon, <1>2, <1>4, <1>5 DEF Owning
    <2>3. pc'[Rb] \in Dialing /\ hand' # 0 => who'[hand'] = generation'
      <3>1. pc'[Rb] \in Dialing => t = Rb
        BY Zenon, <1>3, <1>5 DEF Owning, Dialing
      <3>2. t = Rb /\ hand # 0 => who[hand] = generation
        BY <1>0, <1>1 DEF AttemptSocket, Current, Dialing
      <3> QED
        BY Zenon, <1>1, <1>2, <3>1, <3>2 DEF session
    <2> QED
      BY Zenon, <2>1, <2>2, <2>3 DEF AttemptSocket, Current
  <1>11. Mild
    <2>1. Rb = t \/ pc'[Rb] = pc[Rb] \/ (pc[Rb] = "wait" /\ pc'[Rb] = "down")
      BY Zenon, <1>3, <1>4
    <2>2. (Unbound' => Unbound) /\ (Bound' => Bound)
      BY Zenon, <1>1, <1>2, <1>4, <1>7, <2>1 DEF Unbound, Bound, session
    <2>3. pc[Rb] \in {"swap", "close", "drain"} => pc'[Rb] = pc[Rb]
      BY Zenon, <1>1, <2>1
    <2>4. \A s \in Task : pc'[s] # "live"
      BY Zenon, <1>2, <1>4, <1>5 DEF Owning
    <2> QED
      BY Zenon, <1>1, <1>2, <1>6, <2>2, <2>3, <2>4 DEF Mild, session
  <1> QED
    BY Zenon, <1>0, <1>8, <1>9, <1>10, <1>11, MildKeeps DEF RebindInv

\* The flag is released: the receiver that starts reads a socket of the
\* present identity, and a cancelled manager starts none.
LEMMA LiveRebind ==
  ASSUME SessionInv, RebindInv, NEW t \in Task, Live(t), UNCHANGED session, crossed' <=> crossed
  PROVE  RebindInv'
  <1>0. SessionTypes /\ RebindPlace /\ AttemptSocket /\ KeptDown /\ AllCurrent
    BY Zenon DEF RebindInv
  <1>1. /\ pc[t] = "live"
        /\ UNCHANGED <<connected, suppressed, gen, mgen, sink, who, hand, id, stage>>
    BY Zenon DEF Live, mgr
  <1>2. Rb \in Task /\ Mgr \in Task /\ Rb # Mgr
    BY Zenon, SignalingAssumption, Tasks DEF Task, Mgr
  <1>3. CASE Cancelled(t)
    <2>1. Goto(t, "swap") /\ UNCHANGED <<reads, stream>> /\ t = Mgr
      BY Zenon, <1>3 DEF Live, Cancelled
    <2>2. pc[t] \notin Dialing /\ "swap" \notin Dialing \cup {"live"}
      BY Zenon, <1>1 DEF Dialing
    <2> QED
      BY Zenon, <1>1, <1>2, <2>1, <2>2, ClientAside
  <1>4. CASE ~Cancelled(t)
    <2>1. Goto(t, "ok") /\ stream' = 0 /\ reads' = reads \cup ({stream} \ {0})
      BY Zenon, <1>4 DEF Live, StartTasks
    <2>2. pc'[t] = "ok" /\ \A s \in Task : s # t => pc'[s] = pc[s]
      BY Zenon, <2>1 DEF Goto, SessionInv
    <2>3. \A s \in Task : s # t => pc[s] \notin Owning
      BY Zenon, <1>1 DEF SessionInv, OneConnector, Owning
    <2>4. \A s \in Task : pc'[s] \notin Owning /\ (s # t => pc[s] \notin Owning)
      BY Zenon, <2>2, <2>3 DEF Owning
    <2>5. hand = 0
      BY Zenon, <1>0, <1>1, <2>3 DEF AttemptSocket, Dialing, Owning
    <2>6. t = Mgr => ~suppressed /\ gen = mgen
      BY Zenon, <1>4 DEF Cancelled, auto_reconnect_cancelled
    <2>7. gen \in Nat /\ mgen \in Nat /\ mgen <= gen
      BY Zenon, <1>0 DEF SessionTypes
    <2>8. SessionTypes'
      <3>1. reads' \subseteq Socket /\ {hand', stream'} \subseteq Socket \cup {0}
        BY Zenon, <1>0, <1>1, <2>1 DEF SessionTypes
      <3> QED
        BY Zenon, <1>0, <1>1, <3>1 DEF SessionTypes
    <2>9. t = Rb => stage[Rb] = "conn"
      BY <1>0, <1>1 DEF RebindPlace
    <2>10. RebindPlace'
      BY Zenon, <1>0, <1>1, <1>2, <2>2, <2>9 DEF RebindPlace, session
    <2>11. AttemptSocket'
      BY Zenon, <1>1, <1>2, <2>4, <2>5 DEF AttemptSocket, Dialing, Owning
    <2>12. /\ Unbound' => Unbound /\ t # Rb
           /\ Bound' => Bound
      BY Zenon, <1>1, <1>2, <2>2, <2>9 DEF Unbound, Bound, session
    <2>13. KeptDown'
      <3> SUFFICES ASSUME Unbound, t # Rb, ~crossed
                   PROVE  /\ suppressed /\ mgen < gen
                          /\ pc'[Rb] # "swap" /\ connected => pc'[Mgr] \in {"live", "swap"}
                          /\ stage[Rb] # "down" => ~oldPeers /\ reads' = {}
        BY Zenon, <1>1, <2>1, <2>12 DEF KeptDown, session
      <3>1. /\ suppressed /\ mgen < gen
            /\ pc[Rb] # "swap" /\ connected => pc[Mgr] \in {"live", "swap"}
            /\ pc[Rb] \notin {"swap", "close", "drain"} =>
                  \A s \in User : pc[s] = "live" => stream = 0
            /\ stage[Rb] # "down" => ~oldPeers /\ reads = {}
        BY Zenon, <1>0 DEF KeptDown
      <3>2. t # Mgr /\ t \in User
        BY Zenon, <2>6, <3>1 DEF Task
      <3>3. pc'[Mgr] = pc[Mgr] /\ pc'[Rb] = pc[Rb]
        BY Zenon, <1>2, <2>2, <3>2
      <3>4. stage[Rb] # "down" => pc[Rb] \notin {"swap", "close", "drain"}
        BY Zenon, <1>0 DEF RebindPlace, Owning
      <3>5. stage[Rb] # "down" => reads' = {}
        BY Zenon, <1>1, <2>1, <3>1, <3>2, <3>4
      <3> QED
        BY <3>1, <3>3, <3>5
    <2>14. AllCurrent'
      <3> SUFFICES ASSUME Bound, ~crossed
                   PROVE  /\ ~oldPeers /\ \A k \in reads' : who[k] = generation
                          /\ connected /\ sink # 0 =>
                                who[sink] = generation \/ (pc'[Mgr] \in {"live", "swap"} /\ mgen < gen)
        BY Zenon, <1>1, <2>1, <2>5, <2>12 DEF AllCurrent, Current, session
      <3>1. /\ ~oldPeers /\ \A k \in reads : who[k] = generation
            /\ connected /\ sink # 0 =>
                  who[sink] = generation \/ (pc[Mgr] \in {"live", "swap"} /\ mgen < gen)
            /\ stream # 0 => who[stream] = generation \/ (t = Mgr /\ mgen < gen)
        BY Zenon, <1>0, <1>1 DEF AllCurrent, Current
      <3>2. ~(t = Mgr /\ mgen < gen)
        BY <2>6, <2>7
      <3>3. \A k \in reads' : who[k] = generation
        BY Zenon, <2>1, <3>1, <3>2
      <3>4. pc[Mgr] \in {"live", "swap"} /\ mgen < gen => pc'[Mgr] = pc[Mgr]
        BY Zenon, <1>2, <2>2, <3>2
      <3> QED
        BY <3>1, <3>3, <3>4
    <2> QED
      BY Zenon, <2>8, <2>10, <2>11, <2>13, <2>14 DEF RebindInv
  <1> QED
    BY Zenon, <1>3, <1>4

\* The client is connected: by the rebind, with a socket of the new identity;
\* by the manager, which undoes it; or by another task, once the rebind is
\* through, unless it lifts the suppression and crossed says so.
LEMMA SinkedRebind ==
  ASSUME SessionInv, RebindInv, NEW t \in Task, Sinked(t), UNCHANGED session,
         crossed' = (crossed \/ (Rebinds /\ t # Rb /\ suppressed # suppressed'))
  PROVE  RebindInv'
  <1>0. SessionTypes /\ RebindPlace /\ AttemptSocket /\ KeptDown /\ AllCurrent
    BY Zenon DEF RebindInv
  <1>1. /\ pc[t] = "sinked" /\ Send(t, "live", "ok")
        /\ stream' = hand /\ hand' = 0 /\ connected' = TRUE
        /\ suppressed' = (suppressed /\ t = Mgr)
        /\ UNCHANGED <<gen, mgen, sink, reads, who, id, stage>>
    BY Zenon DEF Sinked, mgr
  <1>2. Rb \in Task /\ Mgr \in Task /\ Rb # Mgr
    BY Zenon, SignalingAssumption, Tasks DEF Task, Mgr
  <1>3. /\ pc'[t] = "live"
        /\ \A s \in Task : s # t =>
              \/ pc'[s] = pc[s]
              \/ pc[s] = "wait" /\ pc'[s] \in {"ok", "err"} /\ (s # Mgr => pc'[s] = "ok")
    BY Zenon, <1>1, ClientMoves
  <1>4. \A s \in Task : s # t => pc[s] \notin Owning /\ pc'[s] \notin Owning
    BY Zenon, <1>1, <1>3 DEF SessionInv, OneConnector, Owning
  <1>5. hand # 0 /\ sink \in {0, hand}
    BY Zenon, <1>0, <1>1 DEF AttemptSocket
  <1>6. t = Rb => stage[Rb] = "conn" /\ who[hand] = generation
    BY Zenon, <1>0, <1>1, <1>5 DEF RebindPlace, AttemptSocket, Current, Dialing
  <1>7. SessionTypes'
    <2>1. {hand', stream'} \subseteq Socket \cup {0}
      BY Zenon, <1>0, <1>1 DEF SessionTypes
    <2> QED
      BY Zenon, <1>0, <1>1, <2>1 DEF SessionTypes
  <1>8. \/ t = Rb /\ pc'[Rb] = "live"
        \/ t # Rb /\ pc'[Rb] = pc[Rb]
        \/ t # Rb /\ pc[Rb] = "wait" /\ pc'[Rb] = "ok" /\ stage[Rb] = "conn"
    BY Zenon, <1>0, <1>2, <1>3 DEF RebindPlace
  <1>9. RebindPlace'
    BY Zenon, <1>0, <1>1, <1>6, <1>8 DEF RebindPlace, session, Owning
  <1>10. AttemptSocket'
    <2>1. \A s \in Task : pc'[s] \notin Dialing
      BY Zenon, <1>3, <1>4 DEF Dialing, Owning
    <2> QED
      BY Zenon, <1>1, <1>2, <2>1 DEF AttemptSocket, Dialing
  <1>11. Unbound /\ ~crossed' /\ t # Rb =>
           /\ t = Mgr /\ ~crossed /\ suppressed /\ mgen < gen
           /\ stage[Rb] # "down" => ~oldPeers /\ reads = {}
    <2> SUFFICES ASSUME Unbound, ~crossed', t # Rb
                 PROVE  /\ t = Mgr /\ ~crossed /\ suppressed /\ mgen < gen
                        /\ stage[Rb] # "down" => ~oldPeers /\ reads = {}
      OBVIOUS
    <2>1. ~crossed /\ Rebinds
      BY Zenon DEF Unbound, Rebinds
    <2>2. /\ suppressed /\ mgen < gen
          /\ stage[Rb] # "down" => ~oldPeers /\ reads = {}
      BY Zenon, <1>0, <2>1 DEF KeptDown
    <2>3. suppressed' = suppressed
      BY Zenon, <2>1
    <2>4. t = Mgr
      <3>1. suppressed' => t = Mgr
        BY Zenon, <1>1
      <3> QED
        BY <2>2, <2>3, <3>1
    <2> QED
      BY Zenon, <2>1, <2>2, <2>4
  <1>12. KeptDown'
    <2> SUFFICES ASSUME Unbound', ~crossed'
                 PROVE  /\ suppressed' /\ mgen < gen
                        /\ pc'[Mgr] \in {"live", "swap"}
                        /\ \A s \in User : pc'[s] # "live"
                        /\ stage[Rb] # "down" => ~oldPeers /\ reads = {}
      BY <1>1 DEF KeptDown, session
    <2>1. Unbound /\ t # Rb
      BY Zenon, <1>1, <1>6, <1>8 DEF Unbound
    <2>2. /\ t = Mgr /\ suppressed /\ mgen < gen
          /\ stage[Rb] # "down" => ~oldPeers /\ reads = {}
      BY Zenon, <1>11, <2>1
    <2>3. suppressed'
      BY Zenon, <1>1, <2>2
    <2>4. \A s \in User : pc'[s] # "live"
      BY Zenon, <1>4, <2>2, SignalingAssumption DEF Owning, Task, Mgr
    <2> QED
      BY <1>3, <2>2, <2>3, <2>4
  <1>13. AllCurrent'
    <2> SUFFICES ASSUME Bound', ~crossed'
                 PROVE  /\ ~oldPeers /\ \A k \in reads : who[k] = generation
                        /\ who[hand] = generation \/ (t = Mgr /\ mgen < gen)
      <3>1. \A s \in Task : pc'[s] = "live" => s = t
        BY Zenon, <1>4 DEF Owning
      <3>2. connected' /\ sink' # 0 => sink' = hand
        BY Zenon, <1>1, <1>5
      <3> QED
        BY Zenon, <1>1, <1>3, <3>1, <3>2 DEF AllCurrent, Current, session
    <2>0. ~crossed
      OBVIOUS
    <2>1. CASE t = Rb
      <3>1. Unbound /\ stage[Rb] # "down"
        BY <1>1, <1>6, <2>1 DEF Unbound
      <3>2. ~oldPeers /\ reads = {}
        BY Zenon, <1>0, <2>0, <3>1 DEF KeptDown
      <3> QED
        BY Zenon, <1>6, <2>1, <3>2
    <2>2. CASE Bound
      BY Zenon, <1>0, <1>5, <2>0, <2>2 DEF AllCurrent, Current
    <2>3. CASE t # Rb /\ ~Bound
      <3>1. pc[Rb] = "wait" /\ stage[Rb] = "conn"
        BY Zenon, <1>1, <1>8, <2>3 DEF Bound, session
      <3>2. Unbound /\ stage[Rb] # "down"
        BY Zenon, <3>1 DEF Unbound
      <3>3. t = Mgr /\ mgen < gen /\ ~oldPeers /\ reads = {}
        BY Zenon, <1>11, <2>3, <3>2
      <3> QED
        BY Zenon, <3>3
    <2> QED
      BY <2>1, <2>2, <2>3
  <1> QED
    BY Zenon, <1>7, <1>9, <1>10, <1>12, <1>13 DEF RebindInv

LEMMA ClientRebind ==
  ASSUME SessionInv, RebindInv, NEW t \in Task, ClientStep(t)
  PROVE  RebindInv'
  <1>1. /\ UNCHANGED session
        /\ crossed' = (crossed \/ (Rebinds /\ t # Rb /\ suppressed # suppressed'))
    BY Zenon DEF ClientStep
  <1>2. CASE Sinked(t)
    BY Zenon, <1>1, <1>2, SinkedRebind
  <1>3. CASE \/ Look(t) \/ Wait(t) \/ Down(t) \/ Cas(t) \/ Dial(t) \/ Dialed(t) \/ Live(t)
             \/ Swap(t) \/ Close(t) \/ Drain(t) \/ ProbeAlive(t)
    <2>1. suppressed' = suppressed
      BY Zenon, <1>3 DEF Look, Wait, Down, Cas, Dial, Dialed, Live, Swap, Close, Drain, ProbeAlive,
             flags
    <2>2. crossed' <=> crossed
      BY Zenon, <1>1, <2>1
    <2> QED
      BY Zenon, <1>1, <1>3, <2>2, SeekRebind, CasRebind, DialRebind, LiveRebind, DownRebind
  <1> QED
    BY Zenon, <1>2, <1>3 DEF ClientStep, ConnectStep, DisconnectStep

LEMMA RebindNext == SessionInv /\ RebindInv /\ [Next]_vars => RebindInv'
  <1> SUFFICES ASSUME SessionInv, RebindInv, [Next]_vars PROVE RebindInv'
    OBVIOUS
  <1>1. CASE UNCHANGED vars
    BY <1>1, StillAside DEF vars, svars, flags, socks, mgr
  <1>2. CASE HbStep
    BY Zenon, <1>2, HbRebind
  <1>3. CASE HbRenews
    BY Zenon, <1>3, RenewRebind
  <1>4. CASE RbStep
    BY Zenon, <1>4, RbRenewRebind, RbDisconnectRebind, RbCloseRebind, RbBindRebind, RbConnectedRebind
       DEF RbStep
  <1>5. CASE NetStep \/ NetAct \/ NetPrepare
    BY Zenon, <1>5, OthersAside
  <1>6. CASE Offer
    BY Zenon, <1>6, OfferKeeps
  <1>7. CASE \E t \in Task : ClientStep(t)
    BY Zenon, <1>7, ClientRebind
  <1>8. CASE Other(MgrStep)
    BY Zenon, <1>8, MgrAside DEF Other
  <1>9. CASE Other(SocketStep) \/ (\E k \in Socket : Other(Break(k)))
    BY <1>9, SocketAside DEF Other
  <1> QED
    BY Zenon, <1>1, <1>2, <1>3, <1>4, <1>5, <1>6, <1>7, <1>8, <1>9 DEF Next

\* What a rebind relies on between its disconnect and its return to Active, at
\* every step of every other task (credential_manager.rs, run_hard_rebind).
THEOREM RebindInvariant == Spec => []RebindInv
  BY RebindInit, RebindNext, SessionInvariant, PTL DEF Spec

\* For any number of sockets, attempts, faults, calls and rebinds a session is
\* Active again only without peers, receivers and a connection of the identity
\* it replaced, unless another task lifted the suppression of that rebind or a
\* receiver survived its disconnect (run_hard_rebind).
THEOREM RebindLeavesNothing == Spec => []RebindClean
  <1>1. RebindInv => RebindClean
    <2> SUFFICES ASSUME RebindInv, phase = "Active", ~crossed
                 PROVE  /\ ~oldPeers
                        /\ \A k \in reads : Current(k)
                        /\ connected /\ sink # 0 => Current(sink) \/ Undoing
      BY Zenon DEF RebindClean
    <2>1. AllCurrent /\ SessionTypes
      BY Zenon DEF RebindInv
    <2>2. /\ ~oldPeers
          /\ \A k \in reads : Current(k)
          /\ connected /\ sink # 0 =>
                Current(sink) \/ (pc[Mgr] \in {"live", "swap"} /\ mgen < gen)
      BY Zenon, <2>1 DEF AllCurrent, Bound
    <2>3. mgen < gen => Cancelled(Mgr)
      BY <2>1 DEF SessionTypes, Cancelled, auto_reconnect_cancelled
    <2> QED
      BY Zenon, <2>2, <2>3 DEF Undoing
  <1> QED
    BY <1>1, RebindInvariant, PTL
==============================================================================
