---------------------------- MODULE OutboundGates ----------------------------
(***************************************************************************)
(* Requests on their way out: core/hyper/src/outbound/peer_gate.rs and     *)
(* host_gate.rs, the request correlation of transport/correlation.rs, and  *)
(* what the gate reads of wire/webrtc/coordinator.rs.                      *)
(*                                                                         *)
(* A request to another process first passes a preflight over three        *)
(* records that say "this peer is not usable now": the recovery guard of   *)
(* the coordinator, the recovery guard of the gate and the gate's set of   *)
(* closing peers.  It then registers its id, sends, and waits for the      *)
(* response under one deadline.  A listener of the gate keeps the two      *)
(* records of the gate in step with the events that the WebRTC sessions    *)
(* of the peer emit, and fails the pending requests when the session that  *)
(* carries them closes.  Sessions come one after another, and the events   *)
(* of an old one may be handled long after the next one is up.             *)
(*                                                                         *)
(* A request within the process registers with a guard that removes the    *)
(* entry however the call ends.                                            *)
(*                                                                         *)
(* One peer is modelled: the records of different peers are independent.   *)
(* Transports are those of PeerTransport, reduced to what the gate sees.   *)
(***************************************************************************)
EXTENDS Integers, Sequences, FiniteSets

CONSTANTS
    Call,           \* requests
    Sessions,       \* bound: how many WebRTC sessions are created
    Changes,        \* bound: how often something happens to the sessions
    Capacity        \* bound: events a lagging listener can have before it

ASSUME OutboundGatesAssumption ==
    /\ Sessions \in Nat \ {0} /\ Changes \in Nat
    /\ Capacity \in Nat \ {0}

Session == 1..Sessions

\* No session is numbered 0.
NoStatus == [s |-> 0, why |-> "none"]

VARIABLES
    cur,        \* coordinator: session of the peer, 0 for none
    conn,       \* state of each session's connection
    changes,    \* what happened to the sessions so far
    restart,    \* coordinator: ice_restart_inflight of the session
    guard,      \* coordinator: session in network_recovering_peers, 0 for none
    marking,    \* session that begin_network_recovery is about to mark
    evs,        \* events the gate's listener has not received
    rec,        \* gate: the status in recovering_peers
    closing,    \* gate: closing_peers holds the peer
    lis,        \* gate: the listener, where it is and with which event
    tr,         \* the transport of the peer: "absent", "connecting", ...
    rtc,        \* session of its WebRTC wire, 0 for none
    ws,         \* it has a WebSocket wire
    pending,    \* pending_requests: ids of the registered requests
    host,       \* RpcCorrelation: ids of the registered requests
    gate,       \* the gate each request goes through, "Peer" or "Host"
    pc,         \* where each request is
    st,         \* recovery status its preflight read
    sent,       \* session it was sent on, 0 for another wire, -1 for none
    got         \* what its oneshot channel holds

coordVars == <<cur, conn, changes, restart, guard, marking>>
gateVars == <<rec, closing>>
transVars == <<tr, rtc, ws>>
mapVars == <<pending, host>>
callVars == <<gate, pc, st, sent, got>>
vars == <<coordVars, evs, gateVars, lis, transVars, mapVars, callVars>>

EventKind == {"open", "down", "failed", "started", "restarted", "gaveup", "closed"}
Event == [k : EventKind, s : Session]

At(where, s) == [at |-> where, e |-> [k |-> "none", s |-> s], stale |-> FALSE]
Idle == At("idle", 0)

Init ==
    /\ cur = 0 /\ conn = [s \in Session |-> "none"] /\ changes = 0
    /\ restart = FALSE /\ guard = 0 /\ marking = 0 /\ evs = <<>>
    /\ rec = NoStatus /\ closing = FALSE /\ lis = Idle
    /\ tr = "absent" /\ rtc = 0 /\ ws = FALSE
    /\ pending = {} /\ host = {}
    /\ gate \in [Call -> {"Peer", "Host"}]
    /\ pc = [c \in Call |-> "idle"]
    /\ st = [c \in Call |-> NoStatus]
    /\ sent = [c \in Call |-> -1]
    /\ got = [c \in Call |-> "none"]

-----------------------------------------------------------------------------
(* Sessions and their events.                                              *)

\* A broadcast channel: a receiver that lags loses the oldest events.
Push(q, e) == Append(IF Len(q) = Capacity THEN Tail(q) ELSE q, e)

Emit(k, s) == evs' = Push(evs, [k |-> k, s |-> s])

Live(s) == conn[s] \in {"new", "up", "down", "failed"}

Sendable(s) == cur = s /\ ~restart /\ conn[s] = "up"

\* A session is created by an attempt of this side or by an offer of the
\* other one.  It becomes the session of the peer unless there is one.
NewSession ==
    \E s \in Session :
        /\ conn[s] = "none" /\ \A r \in Session : r < s => conn[r] # "none"
        /\ conn' = [conn EXCEPT ![s] = "new"]
        /\ cur' = IF cur = 0 THEN s ELSE cur
        /\ restart' = IF cur = 0 THEN FALSE ELSE restart
        /\ UNCHANGED <<changes, guard, evs, marking, gateVars, lis, transVars,
                       mapVars, callVars>>

Happens == changes < Changes /\ changes' = changes + 1

\* WebRTC reports a new state, or a data channel opens.
StateChange(s) ==
    /\ Live(s) /\ Happens
    /\ \E to \in {"up", "down", "failed"} :
        /\ to = "down" => conn[s] = "up"
        /\ to = "failed" => conn[s] # "failed"
        /\ conn' = [conn EXCEPT ![s] = to]
        /\ Emit(IF to = "up" THEN "open" ELSE to, s)
    /\ UNCHANGED <<cur, restart, guard, marking, gateVars, lis, transVars, mapVars,
                   callVars>>

Mark(s) == guard' = s /\ Emit("started", s)

\* The platform reports a network change: the peer recovers before WebRTC
\* notices anything.  Its session, which must have been up once, is read under
\* one lock and marked under another.  A peer that is recovering already is
\* announced again if the network had been lost.
BeginNetworkRecovery ==
    /\ \/ /\ marking = 0 /\ cur # 0 /\ conn[cur] # "new"
          /\ Happens /\ marking' = cur /\ UNCHANGED <<guard, evs>>
       \/ /\ marking # 0 /\ marking' = 0 /\ UNCHANGED changes
          /\ Mark(marking) \/ (guard = marking /\ UNCHANGED <<guard, evs>>)
    /\ UNCHANGED <<cur, conn, restart, gateVars, lis, transVars, mapVars, callVars>>

RestartIce ==
    /\ cur # 0 /\ Live(cur) /\ conn[cur] # "new" /\ ~restart
    /\ Happens /\ restart' = TRUE
    /\ IF guard = cur THEN UNCHANGED <<guard, evs>> ELSE Mark(cur)
    /\ UNCHANGED <<cur, conn, marking, gateVars, lis, transVars, mapVars,
                   callVars>>

\* The peer's entry goes; its connection is closed afterwards.
Removed(s) ==
    /\ cur' = IF cur = s THEN 0 ELSE cur
    /\ restart' = (restart /\ cur # s)

Cleared(s) == guard' = IF guard = s THEN 0 ELSE guard

RestartCompletes ==
    /\ cur # 0 /\ restart /\ conn[cur] = "up"
    /\ restart' = FALSE /\ Emit("restarted", cur)
    /\ UNCHANGED <<cur, conn, changes, guard, marking, gateVars, lis, transVars,
                   mapVars, callVars>>

\* The peer is removed after the event, which nobody can tell from before it.
RestartGivesUp ==
    /\ cur # 0 /\ restart
    /\ Emit("gaveup", cur) /\ Removed(cur)
    /\ UNCHANGED <<conn, changes, guard, marking, gateVars, lis, transVars, mapVars,
                   callVars>>

\* Health check, closed data channel, replacement by an offer or a new role.
CleanUp ==
    /\ cur # 0 /\ Happens /\ Removed(cur)
    /\ UNCHANGED <<conn, guard, evs, marking, gateVars, lis, transVars,
                   mapVars, callVars>>

\* The connection of a session closes once: by the tear-down of a removed
\* peer, which also ends its recovery, or because WebRTC closed it.
CloseSession(s) ==
    /\ Live(s)
    /\ conn' = [conn EXCEPT ![s] = "closed"]
    /\ \/ cur = s /\ Happens /\ UNCHANGED guard
       \/ cur # s /\ Cleared(s) /\ UNCHANGED changes
    /\ Emit("closed", s)
    /\ UNCHANGED <<cur, restart, marking, gateVars, lis, transVars, mapVars,
                   callVars>>

\* A close is announced twice, as ConnectionClosed and as a state change.
AnnounceAgain(s) ==
    /\ conn[s] = "closed"
    /\ conn' = [conn EXCEPT ![s] = "gone"]
    /\ Emit("closed", s)
    /\ UNCHANGED <<cur, changes, restart, guard, marking, gateVars, lis, transVars,
                   mapVars, callVars>>

\* The coordinator's own listener drops a peer whose session closed, and a
\* guard whose session is no longer the peer's or has become sendable.  Its
\* events are not tracked: it may look at any time.
CoordinatorListens ==
    /\ \/ cur # 0 /\ ~Live(cur) /\ Removed(cur) /\ Cleared(cur)
       \/ /\ guard # 0 /\ (guard # cur \/ Sendable(guard)) /\ guard' = 0
          /\ UNCHANGED <<cur, restart>>
    /\ UNCHANGED <<conn, changes, evs, marking, gateVars, lis, transVars, mapVars,
                   callVars>>

-----------------------------------------------------------------------------
(* The listener of the gate.  Every lock it takes and every question it    *)
(* asks of the coordinator or the transports is a step of its own.         *)

Remember(s, k) ==
    rec' = IF rec.s # s
           THEN [s |-> s, why |-> IF k = "failed" THEN "failed" ELSE "other"]
           ELSE IF k = "started" THEN [s |-> s, why |-> "other"] ELSE rec

Forget(s) == rec' = IF rec.s = s THEN NoStatus ELSE rec

Continue(where) == lis' = [lis EXCEPT !.at = where]
Finish == lis' = Idle

\* stale: the transport carries another session when the event is received.
Receive ==
    /\ lis = Idle /\ evs # <<>> /\ evs' = Tail(evs)
    /\ lis' = [at |-> "handle", e |-> Head(evs),
               stale |-> tr = "connected" /\ rtc \notin {0, Head(evs).s}]
    /\ UNCHANGED <<coordVars, gateVars, transVars, mapVars, callVars>>

\* Mutant: events of any session count.
IsActive_No(s) == TRUE
IsActive(s) == cur = s

Handle ==
    /\ lis.at = "handle"
    /\ LET k == lis.e.k
           s == lis.e.s IN
        \/ /\ k \in {"down", "failed"} /\ UNCHANGED rec
           /\ IF IsActive(s) THEN Continue("remember") ELSE Finish
        \/ k = "started" /\ Remember(s, k) /\ Finish
        \/ /\ k \in {"open", "restarted"} /\ UNCHANGED rec
           /\ IF rec.s \in {0, s} THEN Continue("sendable") ELSE Finish
        \/ /\ k = "gaveup" /\ UNCHANGED rec
           /\ IF rec.s \in {0, s} THEN Continue("giveup") ELSE Finish
        \/ k = "closed" /\ Forget(s) /\ Continue("expire")
    /\ UNCHANGED <<coordVars, evs, closing, transVars, mapVars, callVars>>

RememberAndBlock ==
    /\ \/ /\ lis.at = "remember" /\ Remember(lis.e.s, lis.e.k)
          /\ Continue("block") /\ UNCHANGED closing
       \/ /\ lis.at = "block" /\ closing' = TRUE /\ Finish /\ UNCHANGED rec
       \/ /\ lis.at = "giveup" /\ Remember(lis.e.s, lis.e.k)
          /\ closing' = TRUE /\ Finish
    /\ UNCHANGED <<coordVars, evs, transVars, mapVars, callVars>>

Unblock ==
    /\ \/ /\ lis.at = "sendable" /\ UNCHANGED <<rec, closing>>
          /\ IF Sendable(lis.e.s) THEN Continue("clear") ELSE Finish
       \/ /\ lis.at = "clear" /\ rec' = NoStatus /\ UNCHANGED closing
          /\ Continue("unblock")
       \/ /\ lis.at = "unblock" /\ closing' = FALSE /\ Finish /\ UNCHANGED rec
    /\ UNCHANGED <<coordVars, evs, transVars, mapVars, callVars>>

ExpireGuard ==
    /\ lis.at = "expire" /\ Cleared(lis.e.s) /\ Continue("transient")
    /\ UNCHANGED <<cur, conn, changes, restart, evs, marking, gateVars, transVars,
                   mapVars, callVars>>

\* A close during a connection attempt is taken for a failed intermediate
\* one and ignored.
MarkClosing ==
    /\ \/ /\ lis.at = "transient" /\ UNCHANGED closing
          /\ IF tr = "connecting" THEN Finish ELSE Continue("mark")
       \/ lis.at = "mark" /\ closing' = TRUE /\ Continue("shut")
    /\ UNCHANGED <<coordVars, evs, rec, transVars, mapVars, callVars>>

\* Mutant: whatever WebRTC wire the transport has.
MatchesSession_No(s) == tr = "connected" /\ rtc # 0
MatchesSession(s) == tr = "connected" /\ rtc = s

\* Closing the WebRTC wire closes the connection of its session.
CloseWire(s) ==
    /\ rtc' = 0
    /\ IF Live(s) THEN conn' = [conn EXCEPT ![s] = "closed"] /\ Emit("closed", s)
       ELSE UNCHANGED <<conn, evs>>

ShutWire ==
    /\ lis.at = "shut"
    /\ IF MatchesSession(lis.e.s)
       THEN CloseWire(rtc) /\ Continue("sweep")
       ELSE Continue("unblock") /\ UNCHANGED <<rtc, conn, evs>>
    /\ UNCHANGED <<cur, changes, restart, guard, marking, gateVars, tr, ws, mapVars,
                   callVars>>

\* Every registered request to the peer fails with "Connection closed".
Sweep ==
    /\ lis.at = "sweep"
    /\ got' = [c \in Call |-> IF c \in pending THEN "error" ELSE got[c]]
    /\ pending' = {} /\ Continue("unblock")
    /\ UNCHANGED <<coordVars, evs, gateVars, transVars, host, pc, st, sent, gate>>

Listener == Receive \/ Handle \/ RememberAndBlock \/ Unblock \/ ExpireGuard
              \/ MarkClosing \/ ShutWire \/ Sweep

-----------------------------------------------------------------------------
(* The transport of the peer, see PeerTransport and WirePool.              *)

ConnectEnds ==
    /\ tr = "connecting"
    /\ \/ tr' = "absent" /\ UNCHANGED <<rtc, ws>>
       \/ /\ tr' = "connected" /\ ws' \in BOOLEAN
          /\ rtc' \in {0} \cup {s \in Session : Sendable(s)}
          /\ rtc' # 0 \/ ws'
    /\ UNCHANGED <<coordVars, evs, gateVars, lis, mapVars, callVars>>

WireLost ==
    /\ tr = "connected"
    /\ \/ rtc # 0 /\ ~Live(rtc) /\ rtc' = 0 /\ UNCHANGED <<ws, changes>>
       \/ ws /\ Happens /\ ws' = FALSE /\ rtc' = rtc
       \/ rtc = 0 /\ ~ws /\ UNCHANGED <<rtc, ws, changes>>
    /\ tr' = IF rtc' = 0 /\ ~ws' THEN "absent" ELSE tr
    /\ UNCHANGED <<cur, conn, restart, guard, evs, marking, gateVars, lis, mapVars, callVars>>

TransportClosed ==
    /\ tr = "closing" /\ tr' = "absent" /\ ws' = FALSE
    /\ IF rtc = 0 THEN UNCHANGED <<rtc, conn, evs>> ELSE CloseWire(rtc)
    /\ UNCHANGED <<cur, changes, restart, guard, marking, gateVars, lis, mapVars,
                   callVars>>

-----------------------------------------------------------------------------
(* Requests to the peer: preflight_send, then send_request_with_type.      *)

Goto(c, where) == pc' = [pc EXCEPT ![c] = where]
Reads(c, status) == st' = [st EXCEPT ![c] = status]

\* The call returns: its channel and what it knew are gone.
Return(c, where) ==
    /\ Goto(c, where)
    /\ sent' = [sent EXCEPT ![c] = -1] /\ got' = [got EXCEPT ![c] = "none"]

\* peer_recovery_status: the guard is read, then compared with the session of
\* the peer; one left by an earlier session is removed.
AskCoordinator(c) ==
    /\ \/ /\ gate[c] = "Peer" /\ pc[c] = "idle" /\ UNCHANGED guard
          /\ IF guard = 0 THEN Goto(c, "local") /\ UNCHANGED st
             ELSE Goto(c, "ask") /\ Reads(c, [s |-> guard, why |-> "timeout"])
       \/ /\ pc[c] = "ask" /\ cur = st[c].s /\ UNCHANGED guard
          /\ \/ Goto(c, "failed") /\ Reads(c, NoStatus)
             \/ Goto(c, "forget") /\ UNCHANGED st
       \/ /\ pc[c] = "ask" /\ cur # st[c].s /\ Cleared(st[c].s)
          /\ Goto(c, "local") /\ Reads(c, NoStatus)
    /\ UNCHANGED <<cur, conn, changes, restart, evs, marking, gateVars, lis,
                   transVars, mapVars, sent, got, gate>>

ReadLocal(c) ==
    /\ pc[c] = "local" /\ Reads(c, rec)
    /\ Goto(c, IF rec.s = 0 THEN "door" ELSE "compare")
    /\ UNCHANGED <<coordVars, evs, gateVars, lis, transVars, mapVars, sent, got, gate>>

Outdated(status) ==
    /\ cur # 0
    /\ cur # status.s \/ (status.why # "failed" /\ Sendable(status.s))

Compare(c) ==
    /\ pc[c] = "compare"
    /\ IF Outdated(st[c]) THEN Goto(c, "forget") /\ UNCHANGED st
       ELSE \/ Goto(c, "failed") /\ Reads(c, NoStatus)
            \/ Goto(c, "forget") /\ Reads(c, [st[c] EXCEPT !.why = "timeout"])
    /\ UNCHANGED <<coordVars, evs, gateVars, lis, transVars, mapVars, sent, got, gate>>

\* clear_local_recovery_guard, for an outdated status and for one whose
\* recovery timed out.
ClearLocal(c) ==
    /\ \/ /\ pc[c] = "forget" /\ Forget(st[c].s) /\ UNCHANGED closing
          /\ Goto(c, "release")
       \/ /\ pc[c] = "release" /\ closing' = FALSE /\ UNCHANGED rec
          /\ Goto(c, IF st[c].why = "timeout" THEN "expire" ELSE "door")
    /\ UNCHANGED <<coordVars, evs, lis, transVars, mapVars, st, sent, got, gate>>

\* close_recovering_peer, then close_webrtc_transport_if_session.
RecoveryTimeout(c) ==
    /\ \/ /\ pc[c] = "expire" /\ Goto(c, "evict") /\ Cleared(st[c].s)
          /\ UNCHANGED <<cur, restart, conn, evs, rtc, st>>
       \/ /\ pc[c] = "evict" /\ Goto(c, "close") /\ Removed(st[c].s)
          /\ UNCHANGED <<guard, conn, evs, rtc, st>>
       \/ /\ pc[c] = "close" /\ Goto(c, "failed") /\ Reads(c, NoStatus)
          /\ IF MatchesSession(st[c].s) THEN CloseWire(rtc)
             ELSE UNCHANGED <<conn, evs, rtc>>
          /\ UNCHANGED <<cur, restart, guard>>
    /\ UNCHANGED <<changes, marking, gateVars, lis, tr, ws, mapVars, sent, got,
                   gate>>

Door(c) ==
    /\ pc[c] = "door"
    /\ Goto(c, IF closing \/ tr = "closing" THEN "failed" ELSE "register")
    /\ Reads(c, NoStatus)
    /\ UNCHANGED <<coordVars, evs, gateVars, lis, transVars, mapVars, sent, got, gate>>

Register(c) ==
    /\ pc[c] = "register" /\ pending' = pending \cup {c} /\ Goto(c, "send")
    /\ UNCHANGED <<coordVars, evs, gateVars, lis, transVars, host, st, sent, got, gate>>

\* Send with retries: the first attempt without a transport starts one.  A wire
\* may report an error for what it has delivered.
Send(c) ==
    /\ gate[c] = "Peer" /\ pc[c] = "send"
    /\ \/ /\ tr = "absent" /\ tr' = "connecting"
          /\ UNCHANGED <<pc, sent>>
       \/ /\ tr = "connected" /\ UNCHANGED tr
          /\ \/ /\ rtc # 0 /\ conn[rtc] = "up"
                /\ sent' = [sent EXCEPT ![c] = rtc]
             \/ ws /\ rtc = 0 /\ sent' = [sent EXCEPT ![c] = 0]
          /\ Goto(c, "wait") \/ Goto(c, "remove")
       \/ Goto(c, "remove") /\ UNCHANGED <<tr, sent>>
    /\ UNCHANGED <<coordVars, evs, gateVars, lis, rtc, ws, mapVars, st, got, gate>>

Results == {"reply", "error"}

\* The response: the map entry decides, whoever waits for it or not.
Response(c) ==
    /\ sent[c] # -1 /\ c \in pending
    /\ pending' = pending \ {c}
    /\ \E result \in Results : got' = [got EXCEPT ![c] = result]
    /\ UNCHANGED <<coordVars, evs, gateVars, lis, transVars, host, pc, st, sent, gate>>

Wake(c) ==
    /\ gate[c] = "Peer" /\ pc[c] = "wait"
    /\ \/ got[c] = "reply" /\ Return(c, "done")
       \/ got[c] = "error" /\ Goto(c, "remove") /\ UNCHANGED <<sent, got>>
    /\ UNCHANGED <<coordVars, evs, gateVars, lis, transVars, mapVars, st, gate>>

\* One deadline covers sending and waiting.
Deadline(c) ==
    /\ gate[c] = "Peer" /\ pc[c] \in {"send", "wait"}
    /\ Goto(c, "expired")
    /\ UNCHANGED <<coordVars, evs, gateVars, lis, transVars, mapVars, st, sent, got, gate>>

\* Mutant: a request that timed out leaves its entry.
TakeBack_ErrOnly(c) ==
    /\ \/ pc[c] = "expired" /\ Goto(c, "timedout") /\ UNCHANGED <<pending, sent, got>>
       \/ pc[c] = "remove" /\ Return(c, "failed") /\ pending' = pending \ {c}
    /\ UNCHANGED <<coordVars, evs, gateVars, lis, transVars, host, st, gate>>

\* A request that failed or timed out takes its entry back; the latter also
\* leaves a task behind that closes the transport it may be stuck on.
TakeBack(c) ==
    /\ \/ pc[c] = "expired" /\ Goto(c, "timedout") /\ UNCHANGED <<sent, got>>
       \/ pc[c] = "remove" /\ Return(c, "failed")
    /\ pending' = pending \ {c}
    /\ UNCHANGED <<coordVars, evs, gateVars, lis, transVars, host, st, gate>>

\* Without a known wire the transport is closed whatever it is; after a send
\* only if it is the one that was used (instances are not told apart here).
CloseTimedOut(c) ==
    /\ pc[c] = "timedout" /\ Return(c, "failed")
    /\ \/ sent[c] = -1 /\ tr' = IF tr = "absent" THEN tr ELSE "closing"
       \/ sent[c] \in Session /\ tr' = IF MatchesSession(sent[c]) THEN "closing" ELSE tr
       \/ sent[c] = 0 /\ (UNCHANGED tr \/ (tr = "connected" /\ tr' = "closing"))
    /\ UNCHANGED <<coordVars, evs, gateVars, lis, rtc, ws, mapVars, st, gate>>

\* The future of the caller is dropped, and its entry stays.
Cancel(c) ==
    /\ gate[c] = "Peer"
    /\ pc[c] \notin {"idle", "done", "failed", "timedout", "dropped"}
    /\ Goto(c, "dropped") /\ Reads(c, NoStatus)
    /\ UNCHANGED <<coordVars, evs, gateVars, lis, transVars, mapVars, sent, got, gate>>

Preflight(c) == AskCoordinator(c) \/ ReadLocal(c) \/ Compare(c) \/ ClearLocal(c)
                  \/ RecoveryTimeout(c) \/ Door(c)

Request(c) == Register(c) \/ Send(c) \/ Response(c) \/ Wake(c) \/ Deadline(c)
                \/ TakeBack(c) \/ CloseTimedOut(c) \/ Cancel(c)

-----------------------------------------------------------------------------
(* Requests within the process: HostTransport::send_request.               *)

HostRegister(c) ==
    /\ gate[c] = "Host" /\ pc[c] = "idle"
    /\ host' = host \cup {c} /\ Goto(c, "send")
    /\ UNCHANGED <<coordVars, evs, gateVars, lis, transVars, pending, st, sent, got, gate>>

\* The lane takes the envelope, or there is none or it is closed; no deadline.
HostSend(c) ==
    /\ gate[c] = "Host" /\ pc[c] = "send"
    /\ \/ Goto(c, "wait") /\ sent' = [sent EXCEPT ![c] = 0]
       \/ Goto(c, "guard") /\ UNCHANGED sent
    /\ UNCHANGED <<coordVars, evs, gateVars, lis, transVars, mapVars, st, got, gate>>

HostComplete(c) ==
    /\ sent[c] # -1 /\ c \in host
    /\ host' = host \ {c}
    /\ \E result \in Results : got' = [got EXCEPT ![c] = result]
    /\ UNCHANGED <<coordVars, evs, gateVars, lis, transVars, pending, pc, st, sent, gate>>

\* The result arrives or the deadline passes, which it may at any time.
HostWait(c) ==
    /\ gate[c] = "Host" /\ pc[c] = "wait" /\ Goto(c, "guard")
    /\ UNCHANGED <<coordVars, evs, gateVars, lis, transVars, mapVars, st, sent, got, gate>>

\* The entry goes with the guard, whichever way the call ends.
DropGuard(c) ==
    /\ host' = host \ {c}
    /\ UNCHANGED <<coordVars, evs, gateVars, lis, transVars, pending, st, gate>>

HostReturn(c) ==
    /\ DropGuard(c)
    /\ \/ pc[c] = "guard" /\ Return(c, IF got[c] = "reply" THEN "done" ELSE "failed")
       \/ /\ gate[c] = "Host" /\ pc[c] \in {"send", "wait"}
          /\ Goto(c, "dropped") /\ UNCHANGED <<sent, got>>

HostRequest(c) == HostRegister(c) \/ HostSend(c) \/ HostComplete(c) \/ HostWait(c)
                    \/ HostReturn(c)

-----------------------------------------------------------------------------
Next ==
    \/ NewSession \/ BeginNetworkRecovery \/ RestartIce \/ RestartCompletes
    \/ RestartGivesUp \/ CleanUp \/ CoordinatorListens
    \/ \E s \in Session : StateChange(s) \/ CloseSession(s) \/ AnnounceAgain(s)
    \/ Listener
    \/ ConnectEnds \/ WireLost \/ TransportClosed
    \/ \E c \in Call : Preflight(c) \/ Request(c) \/ HostRequest(c)

Spec == Init /\ [][Next]_vars

-----------------------------------------------------------------------------
(* Properties.                                                             *)

\* Where a request to the peer is before it registers.
Before == {"idle", "ask", "local", "compare", "forget", "release", "expire", "evict",
           "close", "door", "register"}

Places == Before \cup {"send", "wait", "remove", "expired", "timedout", "guard", "done",
                       "failed", "dropped"}

CallTypes ==
    /\ gate \in [Call -> {"Peer", "Host"}]
    /\ pc \in [Call -> Places]
    /\ st \in [Call -> [s : 0..Sessions, why : {"none", "failed", "other", "timeout"}]]
    /\ sent \in [Call -> -1..Sessions]
    /\ got \in [Call -> {"none", "reply", "error"}]
    /\ pending \subseteq {c \in Call : gate[c] = "Peer"}
    /\ host \subseteq {c \in Call : gate[c] = "Host"}

SessionTypes ==
    /\ cur \in 0..Sessions /\ guard \in 0..Sessions /\ marking \in 0..Sessions
    /\ conn \in [Session -> {"none", "new", "up", "down", "failed", "closed", "gone"}]
    /\ changes \in 0..Changes /\ restart \in BOOLEAN
    /\ evs \in Seq(Event)

GateTypes ==
    /\ rec \in [s : 0..Sessions, why : {"none", "failed", "other"}]
    /\ closing \in BOOLEAN
    /\ lis \in [at : {"idle", "handle", "remember", "block", "sendable", "clear",
                      "unblock", "giveup", "expire", "transient", "mark", "shut", "sweep"},
                e : [k : EventKind \cup {"none"}, s : 0..Sessions], stale : BOOLEAN]
    /\ tr \in {"absent", "connecting", "connected", "closing"}
    /\ rtc \in 0..Sessions /\ ws \in BOOLEAN

TypeOK == CallTypes /\ SessionTypes /\ GateTypes

\* An id is registered exactly while its caller can still be woken: nothing
\* takes an entry out of the maps without an answer for the caller, whatever
\* response, sweep and deadline race for it, and no caller returns and leaves
\* its entry behind.  The entry of a caller whose future was dropped stays in
\* pending_requests, never in the correlation of the process.
PendingExact ==
    \A c \in Call :
        /\ pc[c] \in {"send", "wait"} => (c \in pending \cup host <=> got[c] = "none")
        /\ c \in pending => pc[c] \in {"send", "wait", "remove", "expired", "dropped"}
        /\ c \in host => pc[c] \in {"send", "wait", "guard"}

\* While the gate guards the recovery of a session, no state change and no end
\* of an ICE restart of an earlier session takes the guard over, however late
\* the listener handles it.  The start of a recovery is not checked against
\* the session of the peer, see GuardKept.
GuardNotOlder == [][rec.s # 0 /\ rec'.s # 0 /\ rec'.s < rec.s => lis.e.k = "started"]_vars

\* What recovering_peers stores the session for: "keeps late events from older
\* sessions from unblocking a newer recovery" (peer_gate.rs:79).  It does not
\* hold: begin_network_recovery may announce a session that was replaced since
\* it looked, and the next preflight drops the guard of that session.
GuardKept == [][rec.s # 0 /\ rec'.s # 0 => rec'.s >= rec.s]_vars

\* The close of a session that the transport no longer carries fails no
\* request: those that are pending belong to the session that replaced it.
StaleCloseHarmless == lis.stale => lis.at # "sweep"

\* What closing_peers is for, "Block new requests to peers being cleaned up"
\* (peer_gate.rs:63): once every session is closed, every event is handled and
\* no request is about to change the records, only a guard, which expires,
\* blocks the peer.  It does not hold: a failed first attempt blocks the peer,
\* its close drops the guard but leaves the block because the attempt is still
\* running, and after the attempt every request is refused at the door.
BlockEnds ==
    (/\ closing /\ lis = Idle /\ evs = <<>> /\ tr = "absent"
     /\ \A s \in Session : conn[s] \in {"none", "gone"}
     /\ \A c \in Call : pc[c] \in {"idle", "done", "failed"})
        => rec # NoStatus

-----------------------------------------------------------------------------
(* What makes the three properties inductive.                              *)

\* Nobody answers a request that has not registered, the preflight is for
\* requests to the peer, and one that is held up knows by which session.
Unsent ==
    \A c \in Call :
        pc[c] \in Before =>
            /\ c \notin pending \cup host /\ got[c] = "none"
            /\ pc[c] = "idle" \/ gate[c] = "Peer"
            /\ pc[c] \in {"idle", "local", "door", "register"} \/ st[c].s # 0

Over(s) == conn[s] \in {"closed", "gone"}

\* A session that is or was the peer's.  They follow each other in the order of
\* their creation.
Known(s) == conn[s] # "none" /\ (cur # 0 => s <= cur)

\* A close is announced after the fact, a recovery for a session of the peer.
EventOK(e) ==
    /\ e.s \in Session
    /\ e.k = "closed" => Over(e.s)
    /\ e.k \in {"started", "gaveup"} => Known(e.s)

OrderInv ==
    /\ \A r, s \in Session : r < s /\ conn[s] # "none" => conn[r] # "none"
    /\ \A s \in Session : s \in {cur, marking, rec.s} => Known(s)
    /\ \A i \in DOMAIN evs : EventOK(evs[i])

\* A wire to a closed session is never made, so the wire that made a close stale
\* does not become its own; and what the listener still has to remember is not
\* about an older session than the one it guards.
ListenerInv ==
    /\ lis.e.k # "none" => EventOK(lis.e)
    /\ lis.e.k = "closed" /\ lis.stale => rtc # lis.e.s
    /\ lis.at \in {"expire", "transient", "mark", "shut", "sweep"} => lis.e.k = "closed"
    /\ lis.at = "remember" => lis.e.k # "none" /\ Known(lis.e.s) /\ rec.s <= lis.e.s
    /\ lis.at = "giveup" => lis.e.k = "gaveup" /\ rec.s \in {0, lis.e.s}

GateInv == TypeOK /\ PendingExact /\ Unsent /\ StaleCloseHarmless /\ OrderInv /\ ListenerInv
=============================================================================
