------------------------------ MODULE WirePool ------------------------------
(***************************************************************************)
(* The wires of one destination: the pool of                               *)
(* core/hyper/src/transport/wire_pool.rs, the senders and closers of       *)
(* transport/dest_transport.rs that share it, and the wires themselves.    *)
(*                                                                         *)
(* A background task per wire dials with retries, writes the outcome in    *)
(* the slot of its connection type and then broadcasts the ready set over  *)
(* a watch channel.  A sender samples the watch, tries the lanes in        *)
(* priority order and, when none took the message, sleeps until the next   *)
(* broadcast.  The write of a slot and its broadcast are separate steps,   *)
(* and so are a sender's reads of the watch, the slot and the wire.        *)
(***************************************************************************)
EXTENDS Integers, FiniteSets, Sequences

CONSTANTS
    Sender,         \* tasks inside DestTransport::send_with_identity
    PoolCloser,     \* tasks inside DestTransport::close_connection or close
    MaxAttempts,    \* RetryConfig::max_attempts
    Gens            \* bound: how many wires of each type are built

ASSUME WirePoolAssumption ==
    /\ MaxAttempts \in Nat \ {0}
    /\ Gens \in [{"WebSocket", "WebRTC"} -> Nat \ {0}]

ConnType == {"WebSocket", "WebRTC"}

\* data_lane_types: every payload that has a route prefers WebRTC.
Lanes == <<"WebRTC", "WebSocket">>

Wire == UNION {[type : {t}, gen : 1..Gens[t]] : t \in ConnType}

\* close_connection is called for a WebRTC session that ended, close visits both.
CloseOrder(kind) == IF kind = "session" THEN <<"WebRTC">> ELSE <<"WebSocket", "WebRTC">>

VARIABLES
    slot,       \* connections: the status of each type and the wire it holds
    watch,      \* value of the ready watch
    closed,     \* WirePool::closed
    task,       \* where the connection task of each wire is
    tries,      \* failed attempts of each task
    wire,       \* the wire itself: "none", "built", "open", "dead" (peer gone) or "closed"
    spc,        \* where each sender is
    snap,       \* ready set the sender sampled
    seen,       \* the sampled version is still the latest
    lane,       \* index in Lanes the sender tries
    hold,       \* wire the sender took from its slot
    cpc,        \* where each closer is
    ckind,      \* what it closes: "session" or "all"
    ctodo,      \* connection types it has still to visit
    chold       \* wire it took from the slot

poolVars == <<slot, watch, closed, task, tries, wire>>
sendVars == <<spc, snap, seen, lane, hold>>
closerVars == <<cpc, ckind, ctodo, chold>>
wireVars == <<slot, watch, closed, task, tries, wire, spc, snap, seen, lane, hold, cpc, ckind, ctodo, chold>>

NoWire == [type |-> "none", gen |-> 0]

Slot(st, g) == [st |-> st, gen |-> g]

IsReady(t) == slot[t].st = "Ready"

ReadySet == {t \in ConnType : IsReady(t)}

\* The coordinator hands out WebRTC wires that are connected already; a
\* WebSocket is opened by connect().
Born(t) == IF t = "WebRTC" THEN "open" ELSE "built"

\* DestTransport::new: the wires of the builder, at least one, are added and
\* their tasks spawned before anyone can see the pool.
PoolInit ==
    /\ \E built \in SUBSET ConnType \ {{}} :
          /\ slot = [t \in ConnType |-> IF t \in built THEN Slot("Connecting", 0) ELSE Slot("None", 0)]
          /\ task = [w \in Wire |-> IF w.type \in built /\ w.gen = 1 THEN "top" ELSE "unborn"]
          /\ wire = [w \in Wire |-> IF w.type \in built /\ w.gen = 1 THEN Born(w.type) ELSE "none"]
    /\ watch = {}
    /\ closed = FALSE
    /\ tries = [w \in Wire |-> 0]
    /\ spc = [s \in Sender |-> "idle"]
    /\ snap = [s \in Sender |-> {}]
    /\ seen = [s \in Sender |-> FALSE]
    /\ lane = [s \in Sender |-> 1]
    /\ hold = [s \in Sender |-> NoWire]
    /\ cpc = [c \in PoolCloser |-> "idle"]
    /\ ckind = [c \in PoolCloser |-> "session"]
    /\ ctodo = [c \in PoolCloser |-> <<>>]
    /\ chold = [c \in PoolCloser |-> NoWire]

\* ready_tx.send: a new version of the watch for every receiver.
Broadcast(set) ==
    /\ watch' = set
    /\ seen' = [s \in Sender |-> FALSE]

-----------------------------------------------------------------------------
(* The connection task of a wire: WirePool::add_connection *)

Task(w, to) == task' = [task EXCEPT ![w] = to]

TaskEnd(w) == Task(w, "done") /\ tries' = [tries EXCEPT ![w] = 0]

\* Head of the retry loop: a closed pool ends the task, and every attempt but
\* the first sleeps.
TaskTop(w) ==
    /\ task[w] = "top"
    /\ \/ closed /\ TaskEnd(w)
       \/ ~closed /\ Task(w, IF tries[w] = 0 THEN "dial" ELSE "sleep") /\ UNCHANGED tries
    /\ UNCHANGED <<slot, watch, closed, wire, sendVars, closerVars>>

\* The backoff elapsed: the flag is read again.
TaskAwake(w) ==
    /\ task[w] = "sleep"
    /\ \/ closed /\ TaskEnd(w)
       \/ ~closed /\ Task(w, "dial") /\ UNCHANGED tries
    /\ UNCHANGED <<slot, watch, closed, wire, sendVars, closerVars>>

\* connect() succeeded, as it always does on WebRTC: the slot is not yet written.
DialOk(w) ==
    /\ task[w] = "dial"
    /\ wire' = [wire EXCEPT ![w] = IF @ = "built" THEN "open" ELSE @]
    /\ Task(w, "won")
    /\ UNCHANGED <<slot, watch, closed, tries, sendVars, closerVars>>

\* connect() failed: the next attempt, or none is left.
DialErr(w) ==
    /\ task[w] = "dial"
    /\ w.type = "WebSocket"
    /\ tries' = [tries EXCEPT ![w] = @ + 1]
    /\ Task(w, IF tries[w] + 1 = MaxAttempts THEN "lost" ELSE "top")
    /\ UNCHANGED <<slot, watch, closed, wire, sendVars, closerVars>>

\* Write the slot; the broadcast is another step.
TaskWrite(w) ==
    /\ task[w] \in {"won", "lost"}
    /\ slot' = [slot EXCEPT ![w.type] = IF task[w] = "won" THEN Slot("Ready", w.gen)
                                                            ELSE Slot("Failed", 0)]
    /\ Task(w, "announce")
    /\ UNCHANGED <<watch, closed, tries, wire, sendVars, closerVars>>

\* Mutant: only a success is broadcast.
TaskAnnounce_OnlyReady(w) ==
    /\ task[w] = "announce"
    /\ IF IsReady(w.type) THEN Broadcast(ReadySet) ELSE UNCHANGED <<watch, seen>>
    /\ TaskEnd(w)
    /\ UNCHANGED <<slot, closed, wire, spc, snap, lane, hold, closerVars>>

\* broadcast_ready_connections reads the slots under their lock.
TaskAnnounce(w) ==
    /\ task[w] = "announce"
    /\ Broadcast(ReadySet)
    /\ TaskEnd(w)
    /\ UNCHANGED <<slot, closed, wire, spc, snap, lane, hold, closerVars>>

\* add_connection_smart with a wire of the next generation, by the health
\* checker: only a slot that is empty or failed is dialled again.
Reconnect(w) ==
    /\ task[w] = "unborn"
    /\ \A v \in Wire : v.type = w.type /\ v.gen < w.gen => task[v] # "unborn"
    /\ slot[w.type].st \in {"None", "Failed"}
    /\ slot' = [slot EXCEPT ![w.type] = Slot("Connecting", 0)]
    /\ wire' = [wire EXCEPT ![w] = Born(w.type)]
    /\ Task(w, "top")
    /\ UNCHANGED <<watch, closed, tries, sendVars, closerVars>>

\* The peer or the network ends a WebRTC wire; nothing in the pool is told.
\* (Of a WebSocket only the lane errors show, and those may come at any time.)
WireDies(w) ==
    /\ wire[w] = "open"
    /\ w.type = "WebRTC"
    /\ wire' = [wire EXCEPT ![w] = "dead"]
    /\ UNCHANGED <<slot, watch, closed, task, tries, sendVars, closerVars>>

-----------------------------------------------------------------------------
(* A sender: DestTransport::send_with_identity *)

SGoto(s, to) == spc' = [spc EXCEPT ![s] = to]

\* The next lane type, or the wait when all were tried.
NextLane(s) ==
    /\ lane' = [lane EXCEPT ![s] = IF @ = Len(Lanes) THEN 1 ELSE @ + 1]
    /\ hold' = [hold EXCEPT ![s] = NoWire]
    /\ SGoto(s, IF lane[s] = Len(Lanes) THEN "tried" ELSE "try")
    /\ UNCHANGED <<snap, seen>>

\* The call is over, its locals with it.
SendReturn(s) ==
    /\ SGoto(s, "idle")
    /\ snap' = [snap EXCEPT ![s] = {}]
    /\ seen' = [seen EXCEPT ![s] = FALSE]
    /\ lane' = [lane EXCEPT ![s] = 1]
    /\ hold' = [hold EXCEPT ![s] = NoWire]

\* On to another step of the call.
Go(s, to) == SGoto(s, to) /\ UNCHANGED <<snap, seen, lane, hold>>

\* The call, and the head of its loop: sample the watch and mark it seen.
Sample(s) ==
    /\ spc[s] \in {"idle", "again"}
    /\ snap' = [snap EXCEPT ![s] = watch]
    /\ seen' = [seen EXCEPT ![s] = TRUE]
    /\ lane' = [lane EXCEPT ![s] = 1]
    /\ hold' = [hold EXCEPT ![s] = NoWire]
    /\ SGoto(s, "try")
    /\ UNCHANGED <<poolVars, closerVars>>

\* A type outside the sample is skipped; otherwise get_connection, which may
\* find that the slot has changed since.
Try(s) ==
    LET t == Lanes[lane[s]] IN
    /\ spc[s] = "try"
    /\ IF t \in snap[s] /\ IsReady(t)
       THEN /\ hold' = [hold EXCEPT ![s] = [type |-> t, gen |-> slot[t].gen]]
            /\ SGoto(s, "lane")
            /\ UNCHANGED <<snap, seen, lane>>
       ELSE NextLane(s)
    /\ UNCHANGED <<poolVars, closerVars>>

\* Only a WebRTC wire is evicted, and only for an error that says it is gone.
Evicts(w) == w.type = "WebRTC" /\ wire[w] # "open"

\* get_lane gave a lane, possibly a cached one of a wire that is gone, and
\* lane.send returned: done, or a WebRTC lane was closed and is made again.
LaneSent(s) ==
    /\ spc[s] = "lane"
    /\ \/ SendReturn(s)
       \/ hold[s].type = "WebRTC" /\ Go(s, "relane")
    /\ UNCHANGED <<poolVars, closerVars>>

\* get_lane failed: evict and start over, or go on with the next lane.
LaneErr(s) ==
    /\ spc[s] = "lane"
    /\ \/ Evicts(hold[s]) /\ Go(s, "evict")
       \/ NextLane(s)
    /\ UNCHANGED <<poolVars, closerVars>>

\* The one retry with a new lane: its result is returned, unless the wire is gone.
Relane(s) ==
    /\ spc[s] = "relane"
    /\ \/ SendReturn(s)
       \/ Evicts(hold[s]) /\ Go(s, "evict")
    /\ UNCHANGED <<poolVars, closerVars>>

\* Mutant: the slot is failed whoever holds it (mark_connection_closed).
Evict_Any(s) ==
    /\ spc[s] = "evict"
    /\ slot' = [slot EXCEPT ![hold[s].type] = Slot("Failed", 0)]
    /\ SGoto(s, "evicted")
    /\ UNCHANGED <<watch, closed, task, tries, wire, snap, seen, lane, hold, closerVars>>

\* evict_closed_like_connection: mark_connection_closed_if_same compares the
\* wire in the slot with the one that failed.
Evict(s) ==
    LET t == hold[s].type IN
    /\ spc[s] = "evict"
    /\ IF IsReady(t) /\ slot[t].gen = hold[s].gen
       THEN slot' = [slot EXCEPT ![t] = Slot("Failed", 0)] /\ SGoto(s, "evicted")
       ELSE SGoto(s, "again") /\ UNCHANGED slot
    /\ UNCHANGED <<watch, closed, task, tries, wire, snap, seen, lane, hold, closerVars>>

\* The broadcast after the eviction.
EvictAnnounce(s) ==
    /\ spc[s] = "evicted"
    /\ Broadcast(ReadySet)
    /\ SGoto(s, "again")
    /\ UNCHANGED <<slot, closed, task, tries, wire, snap, lane, hold, closerVars>>

\* All lanes were tried: a closed pool is an error.
CheckClosed(s) ==
    /\ spc[s] = "tried"
    /\ IF closed THEN SendReturn(s) ELSE Go(s, "checked")
    /\ UNCHANGED <<poolVars, closerVars>>

Live == \E t \in ConnType : slot[t].st \in {"Ready", "Connecting"}

\* Mutant: the watch is marked as seen again before the wait.
CheckLive_MarkSeen(s) ==
    /\ spc[s] = "checked"
    /\ \/ ~Live /\ SendReturn(s)
       \/ /\ Live
          /\ seen' = [seen EXCEPT ![s] = TRUE]
          /\ SGoto(s, "wait")
          /\ UNCHANGED <<snap, lane, hold>>
    /\ UNCHANGED <<poolVars, closerVars>>

\* has_live_candidate: NoRoute when no wire is ready or connecting.
CheckLive(s) ==
    /\ spc[s] = "checked"
    /\ IF Live THEN Go(s, "wait") ELSE SendReturn(s)
    /\ UNCHANGED <<poolVars, closerVars>>

\* conn_watcher.changed(): a version newer than the sampled one.
SendWake(s) ==
    /\ spc[s] = "wait"
    /\ ~seen[s]
    /\ Go(s, "again")
    /\ UNCHANGED <<poolVars, closerVars>>

-----------------------------------------------------------------------------
(* Closers: DestTransport::close_connection and close *)

CGoto(c, to) == cpc' = [cpc EXCEPT ![c] = to]

CloseBegin(c) ==
    /\ cpc[c] = "idle"
    /\ \E kind \in {"session", "all"} :
          /\ ckind' = [ckind EXCEPT ![c] = kind]
          /\ ctodo' = [ctodo EXCEPT ![c] = CloseOrder(kind)]
    /\ CGoto(c, "get")
    /\ UNCHANGED <<poolVars, sendVars, chold>>

\* get_connection: only a Ready slot has a wire to close.
CloseGet(c) ==
    /\ cpc[c] = "get"
    /\ IF ctodo[c] = <<>>
       THEN CGoto(c, IF ckind[c] = "all" THEN "flag" ELSE "idle") /\ UNCHANGED <<ckind, ctodo, chold>>
       ELSE LET t == Head(ctodo[c]) IN
            /\ ctodo' = [ctodo EXCEPT ![c] = Tail(@)]
            /\ IF IsReady(t)
               THEN chold' = [chold EXCEPT ![c] = [type |-> t, gen |-> slot[t].gen]] /\ CGoto(c, "close")
               ELSE UNCHANGED <<cpc, chold>>
    /\ UNCHANGED <<poolVars, sendVars, ckind>>

\* conn.close().
CloseWire(c) ==
    /\ cpc[c] = "close"
    /\ wire' = [wire EXCEPT ![chold[c]] = "closed"]
    /\ CGoto(c, "mark")
    /\ UNCHANGED <<slot, watch, closed, task, tries, sendVars, ckind, ctodo, chold>>

\* mark_connection_closed: the slot fails whatever it holds by now.
CloseMark(c) ==
    /\ cpc[c] = "mark"
    /\ slot' = [slot EXCEPT ![chold[c].type] = Slot("Failed", 0)]
    /\ chold' = [chold EXCEPT ![c] = NoWire]
    /\ CGoto(c, "announce")
    /\ UNCHANGED <<watch, closed, task, tries, wire, sendVars, ckind, ctodo>>

\* Its broadcast.
CloseAnnounce(c) ==
    /\ cpc[c] = "announce"
    /\ Broadcast(ReadySet)
    /\ CGoto(c, "get")
    /\ UNCHANGED <<slot, closed, task, tries, wire, spc, snap, lane, hold, ckind, ctodo, chold>>

\* close_all sets the flag before it takes the lock.
CloseFlag(c) ==
    /\ cpc[c] = "flag"
    /\ closed' = TRUE
    /\ CGoto(c, "clear")
    /\ UNCHANGED <<slot, watch, task, tries, wire, sendVars, ckind, ctodo, chold>>

\* Under the lock: every slot is cleared and the empty set broadcast.
CloseClear(c) ==
    /\ cpc[c] = "clear"
    /\ slot' = [t \in ConnType |-> Slot("None", 0)]
    /\ Broadcast({})
    /\ CGoto(c, "over")
    /\ UNCHANGED <<closed, task, tries, wire, spc, snap, lane, hold, ckind, ctodo, chold>>

-----------------------------------------------------------------------------
TaskStep(w) ==
    \/ TaskTop(w) \/ TaskAwake(w) \/ DialOk(w) \/ DialErr(w)
    \/ TaskWrite(w) \/ TaskAnnounce(w)

\* What a sender does once called.
SendStep(s) ==
    \/ Try(s) \/ LaneSent(s) \/ LaneErr(s) \/ Relane(s)
    \/ Evict(s) \/ EvictAnnounce(s) \/ CheckClosed(s) \/ CheckLive(s) \/ SendWake(s)
    \/ spc[s] = "again" /\ Sample(s)

CloserStep(c) ==
    \/ CloseGet(c) \/ CloseWire(c) \/ CloseMark(c) \/ CloseAnnounce(c)
    \/ CloseFlag(c) \/ CloseClear(c)

PoolNext ==
    \/ \E w \in Wire : TaskStep(w) \/ Reconnect(w) \/ WireDies(w)
    \/ \E s \in Sender : SendStep(s) \/ Sample(s)
    \/ \E c \in PoolCloser : CloserStep(c) \/ CloseBegin(c)

PoolSpec == PoolInit /\ [][PoolNext]_wireVars

\* Spawned tasks, calls in progress and closes in progress keep being polled;
\* nobody has to call send, close or the health checker.
FairPoolSpec ==
    /\ PoolSpec
    /\ \A w \in Wire : WF_wireVars(TaskStep(w))
    /\ \A s \in Sender : WF_wireVars(SendStep(s))
    /\ \A c \in PoolCloser : WF_wireVars(CloserStep(c))

-----------------------------------------------------------------------------
(* Properties *)

PoolTypes ==
    /\ slot \in [ConnType -> [st : {"None", "Connecting", "Ready", "Failed"}, gen : Nat]]
    /\ \A t \in ConnType : IsReady(t) => slot[t].gen \in 1..Gens[t]
    /\ watch \in SUBSET ConnType
    /\ closed \in BOOLEAN
    /\ task \in [Wire -> {"unborn", "top", "sleep", "dial", "won", "lost", "announce", "done"}]
    /\ tries \in [Wire -> Nat]
    /\ wire \in [Wire -> {"none", "built", "open", "dead", "closed"}]

SendTypes ==
    /\ spc \in [Sender -> {"idle", "again", "try", "lane", "relane", "evict", "evicted",
                           "tried", "checked", "wait"}]
    /\ snap \in [Sender -> SUBSET ConnType]
    /\ seen \in [Sender -> BOOLEAN]
    /\ lane \in [Sender -> Nat]
    /\ hold \in [Sender -> Wire \cup {NoWire}]

CloserTypes ==
    /\ cpc \in [PoolCloser -> {"idle", "get", "close", "mark", "announce", "flag", "clear", "over"}]
    /\ ctodo \in [PoolCloser -> Seq(ConnType)]
    /\ chold \in [PoolCloser -> Wire \cup {NoWire}]

PoolTypeOK == PoolTypes /\ SendTypes /\ CloserTypes

\* Someone has written a slot and not yet broadcast it.
Owed ==
    \/ \E w \in Wire : task[w] = "announce"
    \/ \E s \in Sender : spc[s] = "evicted"
    \/ \E c \in PoolCloser : cpc[c] = "announce"

\* The watch tells the truth: it may differ from the slots only while a writer
\* has its broadcast still to make, whichever order writers and broadcasts take
\* (broadcast_ready_connections, after each of the five writes of the slots).
ReadyExact == watch = ReadySet \/ Owed

\* No wake-up is lost: a sender that sleeps on the latest version of the watch
\* has tried every wire that is ready, unless a broadcast is on its way; what
\* becomes ready between the sample and the wait of send_with_identity wakes it.
NoMissedWire ==
    \A s \in Sender : spc[s] = "wait" /\ seen[s] /\ ~Owed => ReadySet \subseteq snap[s]

\* The slot a sender fails holds a wire that is gone: an error of a wire that
\* was replaced meanwhile never takes its successor out of the pool
\* (mark_connection_closed_if_same).
EvictsDead ==
    [][\A s \in Sender, t \in ConnType :
          spc[s] = "evict" /\ spc'[s] # "evict" /\ slot[t].st = "Ready" /\ slot'[t].st # "Ready"
             => wire[[type |-> t, gen |-> slot[t].gen]] # "open"]_wireVars

\* What makes the three inductive.  A sample that is still the latest version is
\* the value of the watch.
SampleLatest == \A s \in Sender : seen[s] => snap[s] = watch

WasUp == {"open", "dead", "closed"}

\* A task that is not born has no wire; one that is has, and has brought it up
\* before it writes the slot.
TaskWires ==
    \A w \in Wire :
       /\ task[w] = "unborn" => wire[w] = "none"
       /\ task[w] \in {"top", "sleep", "dial"} => wire[w] # "none"
       /\ w.type = "WebRTC" => wire[w] # "built"
       /\ task[w] = "won" => wire[w] \in WasUp

\* The wires that slots, senders and closers hold have been up, and the one that
\* a sender evicts is down for good.
HeldWires ==
    /\ \A t \in ConnType : IsReady(t) => wire[[type |-> t, gen |-> slot[t].gen]] \in WasUp
    /\ \A s \in Sender :
          /\ spc[s] \in {"lane", "relane", "evict"} => hold[s] \in Wire /\ wire[hold[s]] \in WasUp
          /\ spc[s] = "evict" => wire[hold[s]] # "open"
    /\ \A c \in PoolCloser : cpc[c] = "close" => chold[c] \in Wire /\ wire[chold[c]] \in WasUp

PoolInv == PoolTypeOK /\ ReadyExact /\ SampleLatest /\ TaskWires /\ HeldWires

\* A send returns, or ends up waiting while a slot stays Ready: the only thing
\* it can wait for for ever is a wire that is listed as ready and gives no lane.
\* It never waits for ever on connects that failed or on a pool that was closed.
SendSettles ==
    \A s \in Sender : []<>(spc[s] = "idle") \/ <>[](spc[s] = "wait" /\ ReadySet # {})
=============================================================================
