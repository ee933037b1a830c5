------------------------------- MODULE Session -------------------------------
(***************************************************************************)
(* A node's session with its realm, over the signaling client:             *)
(* core/hyper/src/lifecycle/session_state.rs, credential_manager.rs,       *)
(* heartbeat.rs and the recovery actions of network_event.rs.              *)
(*                                                                         *)
(* Three tasks drive the client of Signaling: the heartbeat, which         *)
(* reconnects whenever it finds the client down, the reconciler of network *)
(* events, and the renewal that a heartbeat's answer triggers.  A renewal  *)
(* whose token is no longer good registers again and rebinds the session:  *)
(* it commits the new identity, disconnects, closes the peers of the old   *)
(* one and connects under the new one.                                     *)
(***************************************************************************)
EXTENDS Signaling

CONSTANT
    MaxCalls        \* bound: network events, renewals and reconnecting heartbeats

ASSUME SessionAssumption ==
    /\ MaxCalls \in Nat
    /\ User = {"heartbeat", "network", "rebind"}

VARIABLES
    phase, generation,  \* of the session; the generation names the identity
    renewing,           \* the single-flight flag of the credential manager
    oldPeers,           \* some peer was made under an identity now replaced
    crossed,            \* history: another task lifted the suppression of the last
                        \* rebind, or a receiver was left when it had disconnected
    calls

session == <<phase, generation, renewing, oldPeers>>
vars == <<svars, session, crossed, calls>>

Hb == "heartbeat"
Net == "network"
Rb == "rebind"

Init ==
    /\ SignalingInit
    /\ phase = "Active" /\ generation = 0
    /\ renewing = FALSE /\ oldPeers = FALSE
    /\ crossed = FALSE
    /\ calls = 0

\* Task t is at l of its own code, and its call of the client has returned.
Returned(t, l) == stage[t] = l /\ pc[t] \in {"idle", "ok", "err"}
Go(t, l, p) ==
    /\ stage' = [stage EXCEPT ![t] = l]
    /\ pc' = [pc EXCEPT ![t] = p]

\* A task starts something that may call the client.
Calls == calls < MaxCalls /\ calls' = calls + 1

\* What a step of a task's own code leaves alone.
Quiet == UNCHANGED <<socks, was, mgr, faults>>
Flags == UNCHANGED <<flags, crossed>>

\* The rebind has disconnected and not yet connected.
Rebinds == stage[Rb] \in {"down", "bind", "conn"}

\* Calls of disconnect and of the two forms of schedule_auto_reconnect.
CallDisconnect ==
    /\ Suppress
    /\ UNCHANGED <<connected, connecting, permit, reset>>
CallSchedule(again) ==
    /\ Schedule(again)
    /\ crossed' = (crossed \/ Rebinds)
    /\ UNCHANGED <<connected, connecting, gen>>

-----------------------------------------------------------------------------
(* The heartbeat task. *)

\* A client that is down is connected first.
HbConnect ==
    /\ Returned(Hb, "idle") /\ ~connected
    /\ Calls
    /\ Go(Hb, "conn", "look")
    /\ UNCHANGED <<id, session>> /\ Quiet /\ Flags

\* A failed reconnect is left to the manager.
HbConnected ==
    /\ Returned(Hb, "conn")
    /\ Go(Hb, "idle", "idle")
    /\ \/ pc[Hb] = "ok" /\ Flags
       \/ pc[Hb] = "err" /\ CallSchedule(FALSE)
    /\ UNCHANGED <<id, session, calls>> /\ Quiet

\* An answered heartbeat, and the next one of a run that has used its bound.
HbBeats ==
    /\ Returned(Hb, "idle")
    /\ IF connected THEN Healthy ELSE calls = MaxCalls
    /\ UNCHANGED vars

\* A heartbeat that cannot be sent brings the client down; one that is only
\* not answered changes nothing.
HbFails ==
    /\ Returned(Hb, "idle")
    /\ SendFails
    /\ UNCHANGED <<stage, session, calls, crossed>>

\* The answer warns of the credential: trigger_renewal, one at a time.
HbRenews ==
    /\ Returned(Hb, "idle")
    /\ connected /\ Healthy
    /\ Calls
    /\ renewing' = TRUE
    /\ stage' = [stage EXCEPT ![Rb] = IF renewing THEN @ ELSE "renew"]
    /\ UNCHANGED <<pc, id, phase, generation, oldPeers>> /\ Quiet /\ Flags

-----------------------------------------------------------------------------
(* run_renewal_once and run_hard_rebind. *)

\* The identity service answers.  New credentials keep the identity; with a
\* rejected or expired token the node registers again, and a registration
\* that succeeds is committed.
RbRenew ==
    /\ Returned(Rb, "renew")
    /\ \/ /\ phase' \in {phase, "RealmUnavailable"}
          /\ renewing' = FALSE
          /\ Go(Rb, "idle", "idle")
          /\ UNCHANGED <<generation, oldPeers>>
       \/ /\ phase' = "Rebinding"
          /\ generation' = generation + 1
          /\ oldPeers' = TRUE
          /\ Go(Rb, "committed", "idle")
          /\ UNCHANGED renewing
    /\ UNCHANGED <<id, calls>> /\ Quiet /\ Flags

RbDisconnect ==
    /\ Returned(Rb, "committed")
    /\ Go(Rb, "down", "swap")
    /\ CallDisconnect
    /\ crossed' = FALSE
    /\ UNCHANGED <<id, session, calls>> /\ Quiet

\* close_all_peers_immediately and close_all, behind the disconnect.
RbClosePeers ==
    /\ Returned(Rb, "down")
    /\ oldPeers' = FALSE
    /\ crossed' = (crossed \/ reads # {})
    /\ Go(Rb, "bind", "idle")
    /\ UNCHANGED <<flags, id, phase, generation, renewing, calls>> /\ Quiet

\* Mutant: the client is not given the new identity before it connects.
RbBind_KeepsId ==
    /\ Returned(Rb, "bind")
    /\ Go(Rb, "conn", "look")
    /\ UNCHANGED <<id, session, calls>> /\ Quiet /\ Flags

\* The client gets the new identity and connects.
RbBind ==
    /\ Returned(Rb, "bind")
    /\ id' = generation
    /\ Go(Rb, "conn", "look")
    /\ UNCHANGED <<session, calls>> /\ Quiet /\ Flags

\* The session is active again only if this connect succeeds.
RbConnected ==
    /\ Returned(Rb, "conn")
    /\ renewing' = FALSE
    /\ Go(Rb, "idle", "idle")
    /\ \/ pc[Rb] = "ok" /\ phase' = "Active" /\ Flags
       \/ pc[Rb] = "err" /\ UNCHANGED phase /\ CallSchedule(FALSE)
    /\ UNCHANGED <<id, generation, oldPeers, calls>> /\ Quiet

-----------------------------------------------------------------------------
(* The reconciler of network events and its recovery actions. *)

\* prepare_network_event: a long absence suppresses the manager at once.
NetPrepare ==
    /\ Returned(Net, "idle") /\ Calls
    /\ Suppress
    /\ Go(Net, "settle", "idle")
    /\ UNCHANGED <<connected, connecting, permit, reset, id, session, crossed>> /\ Quiet

\* ensure_signaling_healthy_once.
Restore ==
    IF connected
      THEN Go(Net, "check", "probe") /\ Flags
      ELSE Go(Net, "conn", "look") /\ CallSchedule(TRUE)

\* process_network_recovery_action: offline, cleanup with or without a
\* reconnect, probe or restore.  select_action never answers a batch with a
\* long absence in it with one of the last two.
NetAct ==
    /\ \/ Returned(Net, "idle") /\ Calls
       \/ Returned(Net, "settle") /\ UNCHANGED calls
    /\ \/ \E l \in {"offline", "cleanup", "force"} :
             Go(Net, l, "swap") /\ CallDisconnect /\ UNCHANGED crossed
       \/ stage[Net] = "idle" /\ Go(Net, "probe", "probe") /\ Flags
       \/ stage[Net] = "idle" /\ Restore
    /\ UNCHANGED <<id, session>> /\ Quiet

\* process_offline ends here; cleanup_connections closes the peers first, and
\* a forced reconnect goes on to restore, as a failed probe does.
NetDisconnected ==
    /\ \/ Returned(Net, "offline") /\ Go(Net, "idle", "idle") /\ Flags /\ UNCHANGED oldPeers
       \/ Returned(Net, "cleanup") /\ Go(Net, "idle", "idle") /\ Flags /\ oldPeers' = FALSE
       \/ Returned(Net, "force") /\ Restore /\ oldPeers' = FALSE
       \/ Returned(Net, "redo") /\ Restore /\ UNCHANGED oldPeers
    /\ UNCHANGED <<id, phase, generation, renewing, calls>> /\ Quiet

\* A probe that failed is followed by a disconnect.
NetProbed ==
    /\ Returned(Net, "probe") \/ Returned(Net, "check")
    /\ IF pc[Net] = "ok"
         THEN Go(Net, "idle", "idle") /\ Flags
         ELSE /\ Go(Net, IF stage[Net] = "probe" THEN "redo" ELSE "rebuild", "swap")
              /\ CallDisconnect
              /\ UNCHANGED crossed
    /\ UNCHANGED <<id, session, calls>> /\ Quiet

NetRebuild ==
    /\ Returned(Net, "rebuild")
    /\ Go(Net, "conn", "look")
    /\ CallSchedule(TRUE)
    /\ UNCHANGED <<id, session, calls>> /\ Quiet

NetConnected ==
    /\ Returned(Net, "conn")
    /\ Go(Net, "idle", "idle")
    /\ \/ pc[Net] = "ok" /\ Flags
       \/ pc[Net] = "err" /\ CallSchedule(FALSE)
    /\ UNCHANGED <<id, session, calls>> /\ Quiet

-----------------------------------------------------------------------------
\* A delayed offer on a socket of a replaced identity makes such a peer again.
Offer ==
    /\ \E k \in reads \cap alive : who[k] # generation
    /\ oldPeers' = TRUE
    /\ UNCHANGED <<svars, phase, generation, renewing, calls, crossed>>

ClientStep(t) ==
    /\ ConnectStep(t) \/ DisconnectStep(t) \/ ProbeAlive(t)
    /\ crossed' = (crossed \/ (Rebinds /\ t # Rb /\ suppressed # suppressed'))
    /\ UNCHANGED <<session, calls>>

Other(A) == A /\ UNCHANGED <<session, calls, crossed>>

HbStep == HbConnect \/ HbConnected \/ HbBeats \/ HbFails
RbStep == RbRenew \/ RbDisconnect \/ RbClosePeers \/ RbBind \/ RbConnected
NetStep == NetDisconnected \/ NetProbed \/ NetRebuild \/ NetConnected

Next ==
    \/ HbStep \/ HbRenews \/ RbStep \/ NetStep \/ NetPrepare \/ NetAct \/ Offer
    \/ \E t \in Task : ClientStep(t)
    \/ Other(MgrStep)
    \/ Other(SocketStep)
    \/ \E k \in Socket : Other(Break(k))

Spec == Init /\ [][Next]_vars

-----------------------------------------------------------------------------
\* connecting is one lock (signaling.rs, connect_once and its twin for the
\* manager): it is set exactly while some task is between its compare_exchange
\* and the release, and then for one task only, however failures, cancelled
\* reconnects and disconnects interleave.
OneConnector ==
    /\ connecting = (\E t \in Task : pc[t] \in Owning)
    /\ \A s, t \in Task : pc[s] \in Owning /\ pc[t] \in Owning => s = t

\* A socket is never installed over one that is in use: whoever dials looked
\* at connected again once it held the flag, and nobody else can have set it.
\* Otherwise the socket that worked would be left with a receiver of its own.
NoReplace == [][sink' \notin {0, sink} => ~connected]_vars

\* After an explicit disconnect the client does not come back by itself: while
\* the suppression stands, connected is only seen when a reconnect that was
\* already past its last check is about to find itself cancelled, or a
\* disconnect is about to clear it, as the one that follows a suppression by
\* prepare_network_event is.
StaysDown ==
    suppressed /\ connected =>
        \/ pc[Mgr] = "live" \/ stage[Net] = "settle"
        \/ \E t \in Task : pc[t] = "swap"

\* What makes the three inductive: an attempt that has not yet installed its
\* stream finds the client down, and a manager between its cycles and attempts
\* is not in the client.
SessionInv ==
    /\ pc = [t \in Task |-> pc[t]] /\ stage = [t \in Task |-> stage[t]]
    /\ connected \in BOOLEAN /\ connecting \in BOOLEAN /\ suppressed \in BOOLEAN
    /\ \A t \in Task : pc[t] \in {"dial", "dialed", "sinked"} => ~connected
    /\ stage[Mgr] \in {"idle", "backoff", "cooldown"} => pc[Mgr] = "idle"
    /\ OneConnector
    /\ StaysDown

\* The identity of the session is the one under which socket k was dialled.
Current(k) == who[k] = generation

\* A reconnect that was cancelled before or after it installed its socket, and
\* that has not yet brought the client down again.
Undoing == pc[Mgr] \in {"live", "swap"} /\ Cancelled(Mgr)

\* A session that is Active again after a rebind has no peer, no receiver and no
\* connection of the identity it replaced, "a delayed old-identity Offer" on a
\* socket that is being closed and a reconnect in flight included, which brings
\* the client down again (credential_manager.rs, run_hard_rebind).  This needs
\* what the rebind's disconnect sets up to last: no other task lifts the
\* suppression before the rebind connects and no receiver outlives its socket's
\* replacement (see crossed).
RebindClean ==
    phase = "Active" /\ ~crossed =>
        /\ ~oldPeers
        /\ \A k \in reads : Current(k)
        /\ connected /\ sink # 0 => Current(sink) \/ Undoing

\* Types, and the manager's generation is one there has been.
SessionTypes ==
    /\ who = [k \in Socket |-> who[k]]
    /\ reads \subseteq Socket /\ {hand, stream} \subseteq Socket \cup {0}
    /\ gen \in Nat /\ mgen \in Nat /\ mgen <= gen

\* Where the rebind is, in its own code and in the client.
RebindPlace ==
    /\ stage[Rb] \in {"idle", "renew", "committed", "bind"} => pc[Rb] = "idle"
    /\ stage[Rb] = "down" => pc[Rb] \in {"swap", "close", "drain", "ok"}
    /\ stage[Rb] = "conn" =>
          pc[Rb] \in {"look", "cas", "wait", "down", "ok", "err"} \cup Owning
    /\ stage[Rb] \in {"idle", "renew", "committed", "down", "bind", "conn"}
    /\ stage[Rb] # "idle" => renewing
    /\ stage[Rb] \in {"committed", "down", "bind", "conn"} => phase = "Rebinding"
    /\ phase = "Active" \/ stage[Rb] = "conn" => id = generation

\* The steps of an attempt before its stream is in.
Dialing == {"dial", "dialed", "sinked"}

\* The socket of the attempt that holds connecting.
AttemptSocket ==
    /\ hand # 0 => \E t \in Task : pc[t] \in Dialing
    /\ \A t \in Task : /\ pc[t] \in {"dialed", "sinked"} => hand # 0
                       /\ pc[t] = "sinked" => sink \in {0, hand}
    /\ pc[Rb] \in Dialing /\ hand # 0 => Current(hand)

\* The rebind has called disconnect, and its own connect is not through.
Unbound ==
    \/ stage[Rb] \in {"down", "bind"}
    \/ stage[Rb] = "conn" /\ pc[Rb] \notin {"live", "ok"}

\* The suppression stands, and whatever connects meanwhile undoes itself.
KeptDown ==
    Unbound /\ ~crossed =>
        /\ suppressed /\ mgen < gen
        /\ pc[Rb] # "swap" /\ connected => pc[Mgr] \in {"live", "swap"}
        /\ pc[Rb] \notin {"swap", "close", "drain"} =>
              \A t \in User : pc[t] = "live" => stream = 0
        /\ stage[Rb] # "down" => ~oldPeers /\ reads = {}

\* The rebind has connected, or was done before.
Bound == phase = "Active" \/ (stage[Rb] = "conn" /\ pc[Rb] \in {"live", "ok"})

\* From then on everything is of the present identity, a cancelled reconnect
\* apart.
AllCurrent ==
    Bound /\ ~crossed =>
        /\ ~oldPeers /\ \A k \in reads : Current(k)
        /\ hand # 0 => Current(hand)
        /\ connected /\ sink # 0 =>
              Current(sink) \/ (pc[Mgr] \in {"live", "swap"} /\ mgen < gen)
        /\ \A t \in Task : pc[t] = "live" /\ stream # 0 =>
              Current(stream) \/ (t = Mgr /\ mgen < gen)

\* What makes RebindClean inductive, together with SessionInv.
RebindInv == SessionTypes /\ RebindPlace /\ AttemptSocket /\ KeptDown /\ AllCurrent

\* A session is not left Rebinding once signaling is up under its identity and
\* no rebind is at work: "Transition back to `Active` after signaling reconnect
\* succeeds" (session_state.rs, set_active).
RebindingEnds ==
    connected /\ Healthy /\ who[sink] = generation /\ ~renewing => phase # "Rebinding"
==============================================================================
