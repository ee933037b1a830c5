---------------------------- MODULE PeerTransport ----------------------------
(***************************************************************************)
(* The transports of one destination:                                      *)
(* core/hyper/src/transport/peer_transport.rs with the calls that the      *)
(* requests, tells and stream sends of outbound/peer_gate.rs make of it.   *)
(*                                                                         *)
(* The first caller that finds no transport becomes the creator: it maps   *)
(* the destination to Connecting with a Notify of its own, builds the      *)
(* transport outside every lock, publishes it and wakes the waiters.       *)
(* Closers cancel an attempt through its token, unmap it and close what    *)
(* was mapped; a monitor per published transport unmaps it when its wires  *)
(* are gone.  A caller is a future that its own deadline may drop at any   *)
(* await.  Entries of different destinations are independent.              *)
(***************************************************************************)
EXTENDS Integers

CONSTANTS
    Request,        \* callers in send_request_with_type
    Tell,           \* callers in send_tell_with_type or send_data_chunk
    Expires,        \* the callers whose deadline may pass during the call
    Admin,          \* tasks that may call close_all, each once
    Attempts        \* bound: how many connection attempts are started

ASSUME PeerTransportAssumption ==
    /\ Attempts \in Nat \ {0}
    /\ Request \cap Tell = {}
    /\ Expires \subseteq Request \cup Tell
    /\ (Request \cup Tell) \cap Admin = {}

Caller == Request \cup Tell

\* The clean-up that a request spawns when its deadline passed runs on its own.
Closer == Request \cup Admin

Attempt == 1..Attempts

None == [st |-> "None", n |-> 0]
Connecting(n) == [st |-> "Connecting", n |-> n]
Connected(n) == [st |-> "Connected", n |-> n]

VARIABLES
    map,        \* transports: the entry of the destination
    token,      \* pending_tokens: attempt whose token is stored, 0 for none
    canceled,   \* attempts under way whose token was cancelled
    closing,    \* closing_peers holds the destination
    next,       \* attempts started so far
    trans,      \* transport each attempt built: "none", "open" or "closed"
    ready,      \* its wires: "dialing", "ready" or "gone"
    mon,        \* its ready monitor
    fresh,      \* the ready watch changed since the monitor looked
    pc,         \* where each caller is
    at,         \* attempt it makes, waits for or sends on
    good,       \* outcome of the attempt it makes
    sent,       \* transport that took its request, 0 for none
    kpc,        \* where each closer is
    kind,       \* "dest", "session", "current" or "all"
    tgt         \* attempt or transport the closer is about

mapVars == <<map, token, canceled, closing, next>>
transVars == <<trans, ready, mon, fresh>>
callVars == <<pc, at, good, sent>>
closeVars == <<kpc, kind, tgt>>
vars == <<map, token, canceled, closing, next, trans, ready, mon, fresh, pc, at, good, sent, kpc, kind, tgt>>

Init ==
    /\ map = None
    /\ token = 0
    /\ canceled = {}
    /\ closing = FALSE
    /\ next = 0
    /\ trans = [n \in Attempt |-> "none"]
    /\ ready = [n \in Attempt |-> "dialing"]
    /\ mon = [n \in Attempt |-> "off"]
    /\ fresh = [n \in Attempt |-> FALSE]
    /\ pc = [c \in Caller |-> "idle"]
    /\ at = [c \in Caller |-> 0]
    /\ good = [c \in Caller |-> FALSE]
    /\ sent = [c \in Caller |-> 0]
    /\ kpc = [k \in Closer |-> "idle"]
    /\ kind = [k \in Closer |-> "all"]
    /\ tgt = [k \in Closer |-> 0]

-----------------------------------------------------------------------------
(* Callers: get_or_create_transport and the send behind it *)

Goto(c, to) == pc' = [pc EXCEPT ![c] = to] /\ UNCHANGED <<at, good, sent>>

GotoAt(c, to, n) ==
    /\ pc' = [pc EXCEPT ![c] = to]
    /\ at' = [at EXCEPT ![c] = n]
    /\ UNCHANGED <<good, sent>>

\* The call is over, its locals with it.
Return(c) ==
    /\ pc' = [pc EXCEPT ![c] = "idle"]
    /\ at' = [at EXCEPT ![c] = 0]
    /\ good' = [good EXCEPT ![c] = FALSE]
    /\ sent' = [sent EXCEPT ![c] = 0]

\* notify_waiters wakes those that are waiting now and keeps no permit.
Woken(n) ==
    [c \in Caller |-> CASE pc[c] = "wait" /\ at[c] = n -> "woken"
                        [] pc[c] = "waitT" /\ at[c] = n -> "look"
                        [] OTHER -> pc[c]]

\* A destination that is being closed fails fast.  (A request whose earlier
\* clean-up still runs is another task of the same kind; here it waits for it.)
Start(c) ==
    /\ pc[c] = "idle"
    /\ c \in Request => kpc[c] = "idle"
    /\ ~closing
    /\ Goto(c, "look")
    /\ UNCHANGED <<mapVars, transVars, closeVars>>

\* Fast path: one look at the entry under the read lock.
Look(c) ==
    /\ pc[c] = "look"
    /\ CASE map.st = "Connected" -> GotoAt(c, "send", map.n)
         [] map.st = "Connecting" -> GotoAt(c, "arm", map.n)
         [] map.st = "None" -> GotoAt(c, "slow", 0)
    /\ UNCHANGED <<mapVars, transVars, closeVars>>

\* notified() is called after the lock was released: what was notified in
\* between is lost.
Arm(c) ==
    /\ \/ pc[c] = "arm" /\ Goto(c, "wait")
       \/ pc[c] = "armT" /\ Goto(c, "waitT")
    /\ UNCHANGED <<mapVars, transVars, closeVars>>

\* Woken on the fast path: fail if the destination is closing, else look again.
Wake(c) ==
    /\ pc[c] = "woken"
    /\ IF closing THEN Return(c) ELSE Goto(c, "look")
    /\ UNCHANGED <<mapVars, transVars, closeVars>>

\* Only the wait of the slow path has a timeout of its own.
WaitTimeout(c) ==
    /\ pc[c] = "waitT"
    /\ Return(c)
    /\ UNCHANGED <<mapVars, transVars, closeVars>>

\* Slow path, under the write lock: look again, or become the creator.
Slow(c) ==
    /\ pc[c] = "slow"
    /\ \/ map.st = "Connected" /\ GotoAt(c, "send", map.n) /\ UNCHANGED <<map, next>>
       \/ map.st = "Connecting" /\ GotoAt(c, "armT", map.n) /\ UNCHANGED <<map, next>>
       \/ map.st = "None" /\ closing /\ Return(c) /\ UNCHANGED <<map, next>>
       \/ /\ map.st = "None" /\ ~closing
          /\ next < Attempts
          /\ next' = next + 1
          /\ map' = Connecting(next + 1)
          /\ GotoAt(c, "token", next + 1)
    /\ UNCHANGED <<token, canceled, closing, transVars, closeVars>>

\* The cancellation token of the attempt is stored for closers to find.
StoreToken(c) ==
    /\ pc[c] = "token"
    /\ token' = at[c]
    /\ Goto(c, "create")
    /\ UNCHANGED <<map, canceled, closing, next, transVars, closeVars>>

Outcome(c, ok) ==
    /\ pc' = [pc EXCEPT ![c] = "untoken"]
    /\ good' = [good EXCEPT ![c] = ok]
    /\ canceled' = canceled \ {at[c]}
    /\ UNCHANGED <<at, sent>>

\* create_connections_with_cancel returned: an error, or wires of which those
\* of a cancelled attempt are closed.
Create(c) ==
    /\ pc[c] = "create"
    /\ \/ Outcome(c, FALSE) /\ UNCHANGED trans
       \/ /\ at[c] \notin canceled
          /\ trans' = [trans EXCEPT ![at[c]] = "open"]
          /\ Goto(c, "built") /\ UNCHANGED canceled
    /\ UNCHANGED <<map, token, closing, next, ready, mon, fresh, closeVars>>

\* DestTransport::new returned: the token is read a last time.
Built(c) ==
    /\ pc[c] = "built"
    /\ IF at[c] \in canceled
       THEN trans' = [trans EXCEPT ![at[c]] = "closed"] /\ Outcome(c, FALSE)
       ELSE UNCHANGED trans /\ Outcome(c, TRUE)
    /\ UNCHANGED <<map, token, closing, next, ready, mon, fresh, closeVars>>

\* The token of the destination is dropped, whichever attempt it belongs to.
DropToken(c) ==
    /\ pc[c] = "untoken"
    /\ token' = 0
    /\ Goto(c, "finish")
    /\ UNCHANGED <<map, canceled, closing, next, transVars, closeVars>>

\* Publish the transport and spawn its monitor, or unmap the destination.
Finish(c) ==
    /\ pc[c] = "finish"
    /\ IF good[c]
       THEN /\ map' = Connected(at[c])
            /\ mon' = [mon EXCEPT ![at[c]] = "spawned"]
       ELSE map' = None /\ UNCHANGED mon
    /\ Goto(c, "notify")
    /\ UNCHANGED <<token, canceled, closing, next, trans, ready, fresh, closeVars>>

\* Wake the waiters of this attempt.
Notify(c) ==
    /\ pc[c] = "notify"
    /\ pc' = [Woken(at[c]) EXCEPT ![c] = IF good[c] THEN "send" ELSE "idle"]
    /\ at' = [at EXCEPT ![c] = IF good[c] THEN @ ELSE 0]
    /\ good' = [good EXCEPT ![c] = FALSE]
    /\ UNCHANGED <<sent, mapVars, transVars, closeVars>>

\* DestTransport::send_with_identity: an error ends the call (a retry is another
\* call), a wire that is up takes the message; a request waits for its response.
Send(c) ==
    /\ pc[c] = "send"
    /\ \/ Return(c)
       \/ /\ c \in Request
          /\ trans[at[c]] = "open" /\ ready[at[c]] = "ready"
          /\ pc' = [pc EXCEPT ![c] = "response"]
          /\ sent' = [sent EXCEPT ![c] = at[c]]
          /\ UNCHANGED <<at, good>>
    /\ UNCHANGED <<mapVars, transVars, closeVars>>

\* The response came, or the pending request was failed by a sweep.
Respond(c) ==
    /\ pc[c] = "response"
    /\ Return(c)
    /\ UNCHANGED <<mapVars, transVars, closeVars>>

\* Mutant: a request that timed out before it was sent closes nothing.
Deadline_SentOnly(c) ==
    /\ c \in Expires
    /\ pc[c] \notin {"idle", "arm", "armT", "notify"}
    /\ Return(c)
    /\ IF c \in Request /\ sent[c] # 0
       THEN /\ \E k \in {"session", "current"} : kind' = [kind EXCEPT ![c] = k]
            /\ kpc' = [kpc EXCEPT ![c] = "guard"]
            /\ tgt' = [tgt EXCEPT ![c] = sent[c]]
       ELSE UNCHANGED closeVars
    /\ UNCHANGED <<mapVars, transVars>>

\* The deadline drops the future at one of its awaits.  A request spawns
\* close_timed_out_request_transport: without a recorded transport the
\* destination is closed, otherwise only if the session or the instance still
\* matches.  A tell or a stream send just returns.
Deadline(c) ==
    /\ c \in Expires
    /\ pc[c] \notin {"idle", "arm", "armT", "notify"}
    /\ Return(c)
    /\ IF c \in Request
       THEN /\ \E k \in IF sent[c] = 0 THEN {"dest"} ELSE {"session", "current"} :
                  kind' = [kind EXCEPT ![c] = k]
            /\ kpc' = [kpc EXCEPT ![c] = IF sent[c] = 0 THEN "mark" ELSE "guard"]
            /\ tgt' = [tgt EXCEPT ![c] = sent[c]]
       ELSE UNCHANGED closeVars
    /\ UNCHANGED <<mapVars, transVars>>

-----------------------------------------------------------------------------
(* Closers: close_transport, its guarded forms, and close_all *)

KGoto(k, to) == kpc' = [kpc EXCEPT ![k] = to] /\ UNCHANGED <<kind, tgt>>

KGotoAt(k, to, n) ==
    /\ kpc' = [kpc EXCEPT ![k] = to]
    /\ tgt' = [tgt EXCEPT ![k] = n]
    /\ UNCHANGED kind

\* A task of Admin closes once.
KReturn(k) ==
    /\ kpc' = [kpc EXCEPT ![k] = IF k \in Admin THEN "over" ELSE "idle"]
    /\ tgt' = [tgt EXCEPT ![k] = 0]
    /\ kind' = [kind EXCEPT ![k] = "all"]

\* Take the stored token and cancel it; an attempt that is past its last look at
\* the token does not notice.
CancelToken ==
    /\ token' = 0
    /\ canceled' = canceled \cup {n \in {token} : \E c \in Caller : at[c] = n /\ pc[c] \in {"create", "built"}}

\* A new version of the ready watch, for a monitor that has subscribed.
Signal(n) == fresh' = [fresh EXCEPT ![n] = mon[n] \in {"noneYet", "hadReady"}]

\* DestTransport::close: the pool is cleared, which its monitor sees.
CloseTransport(n) ==
    /\ trans' = [trans EXCEPT ![n] = "closed"]
    /\ ready' = [ready EXCEPT ![n] = "gone"]
    /\ Signal(n)
    /\ UNCHANGED mon

\* The guards read the entry: the transport of the request must still be the
\* one that is mapped, and its WebRTC session, which may have ended, the same.
KGuard(k) ==
    /\ kpc[k] = "guard"
    /\ \/ map = Connected(tgt[k]) /\ KGoto(k, "mark")
       \/ (map # Connected(tgt[k]) \/ kind[k] = "session") /\ KReturn(k)
    /\ UNCHANGED <<mapVars, transVars, callVars>>

\* The destination is marked as closing.
KMark(k) ==
    /\ kpc[k] = "mark"
    /\ closing' = TRUE
    /\ KGoto(k, IF kind[k] = "current" THEN "take" ELSE "inspect")
    /\ UNCHANGED <<map, token, canceled, next, transVars, callVars>>

\* close_transport looks at the entry and takes one of two ways.
KInspect(k) ==
    /\ kpc[k] = "inspect"
    /\ CASE map.st = "Connecting" -> KGotoAt(k, "cancelL", map.n)
         [] map.st = "Connected" -> KGotoAt(k, "cancelR", 0)
         [] map.st = "None" -> KGotoAt(k, "unmark", 0)
    /\ UNCHANGED <<mapVars, transVars, callVars>>

\* Cancel whichever attempt has its token stored.
KCancel(k) ==
    /\ \/ kpc[k] = "cancelL" /\ KGoto(k, "dropL")
       \/ kpc[k] = "cancelR" /\ KGoto(k, "dropR")
    /\ CancelToken
    /\ UNCHANGED <<map, closing, next, transVars, callVars>>

\* Drop a Connecting entry, if it is one still.
KDropConnecting(k) ==
    /\ kpc[k] = "dropL"
    /\ map' = IF map.st = "Connecting" THEN None ELSE map
    /\ KGoto(k, "notify")
    /\ UNCHANGED <<token, canceled, closing, next, transVars, callVars>>

\* Wake the waiters of the attempt that was read.
KNotify(k) ==
    /\ kpc[k] = "notify"
    /\ pc' = Woken(tgt[k])
    /\ KGotoAt(k, "unmark", 0)
    /\ UNCHANGED <<mapVars, transVars, at, good, sent>>

\* Mutant: the entry of a transport is left for its monitor to remove.
KDropConnected_Leave(k) ==
    /\ kpc[k] = "dropR"
    /\ IF map.st = "Connected" THEN KGotoAt(k, "close", map.n) ELSE KGotoAt(k, "unmark", 0)
    /\ UNCHANGED <<mapVars, transVars, callVars>>

\* Drop the entry whatever it is by now; a transport is to be closed.
KDropConnected(k) ==
    /\ kpc[k] = "dropR"
    /\ map' = None
    /\ IF map.st = "Connected" THEN KGotoAt(k, "close", map.n) ELSE KGotoAt(k, "unmark", 0)
    /\ UNCHANGED <<token, canceled, closing, next, transVars, callVars>>

\* Mutant: the instance is not compared again under the write lock.
KTake_Unchecked(k) ==
    /\ kpc[k] = "take"
    /\ IF map.st = "Connected"
       THEN map' = None /\ KGotoAt(k, "close", map.n)
       ELSE UNCHANGED map /\ KGotoAt(k, "unmark", 0)
    /\ UNCHANGED <<token, canceled, closing, next, transVars, callVars>>

\* close_transport_if_current compares again under the write lock.
KTake(k) ==
    /\ kpc[k] = "take"
    /\ IF map = Connected(tgt[k])
       THEN map' = None /\ KGoto(k, "close")
       ELSE UNCHANGED map /\ KGotoAt(k, "unmark", 0)
    /\ UNCHANGED <<token, canceled, closing, next, transVars, callVars>>

KClose(k) ==
    /\ kpc[k] = "close"
    /\ CloseTransport(tgt[k])
    /\ KGotoAt(k, "unmark", 0)
    /\ UNCHANGED <<mapVars, callVars>>

KUnmark(k) ==
    /\ kpc[k] = "unmark"
    /\ closing' = FALSE
    /\ KReturn(k)
    /\ UNCHANGED <<map, token, canceled, next, transVars, callVars>>

\* close_all drains the tokens,
AllCancel(k) ==
    /\ k \in Admin
    /\ kpc[k] = "idle"
    /\ CancelToken
    /\ KGoto(k, "drain")
    /\ UNCHANGED <<map, closing, next, transVars, callVars>>

\* then the entries,
AllDrain(k) ==
    /\ kpc[k] = "drain"
    /\ map' = None
    /\ CASE map.st = "Connecting" -> KGotoAt(k, "allMarkL", map.n)
         [] map.st = "Connected" -> KGotoAt(k, "allMarkR", map.n)
         [] map.st = "None" -> KReturn(k)
    /\ UNCHANGED <<token, canceled, closing, next, transVars, callVars>>

\* and marks, closes or notifies, and unmarks each of them.
AllMark(k) ==
    /\ \/ kpc[k] = "allMarkL" /\ KGoto(k, "notify")
       \/ kpc[k] = "allMarkR" /\ KGoto(k, "close")
    /\ closing' = TRUE
    /\ UNCHANGED <<map, token, canceled, next, transVars, callVars>>

-----------------------------------------------------------------------------
(* The wires of a transport and its ready monitor *)

\* A wire connected, or the last wire failed or dropped: see WirePool.  Before the
\* transport is published nobody looks at its wires.
WiresUp(n) ==
    /\ mon[n] # "off" /\ trans[n] = "open" /\ ready[n] = "dialing"
    /\ ready' = [ready EXCEPT ![n] = "ready"]
    /\ Signal(n)
    /\ UNCHANGED <<mapVars, trans, mon, callVars, closeVars>>

WiresGone(n) ==
    /\ mon[n] # "off" /\ trans[n] = "open" /\ ready[n] # "gone"
    /\ ready' = [ready EXCEPT ![n] = "gone"]
    /\ Signal(n)
    /\ UNCHANGED <<mapVars, trans, mon, callVars, closeVars>>

\* The monitor subscribes: had_ready is what it finds.
MonStart(n) ==
    /\ mon[n] = "spawned"
    /\ mon' = [mon EXCEPT ![n] = IF ready[n] = "ready" THEN "hadReady" ELSE "noneYet"]
    /\ fresh' = [fresh EXCEPT ![n] = FALSE]
    /\ UNCHANGED <<mapVars, trans, ready, callVars, closeVars>>

\* Mutant: the monitor ends with the first change that it sees.
MonStep_Once(n) ==
    /\ mon[n] \in {"noneYet", "hadReady"} /\ fresh[n]
    /\ fresh' = [fresh EXCEPT ![n] = FALSE]
    /\ IF ready[n] = "gone" /\ map = Connected(n)
       THEN map' = None /\ mon' = [mon EXCEPT ![n] = "closing"]
       ELSE mon' = [mon EXCEPT ![n] = "done"] /\ UNCHANGED map
    /\ UNCHANGED <<token, canceled, closing, next, trans, ready, callVars, closeVars>>

\* A change of the watch: once a wire has been seen, an empty set ends the
\* monitor, which unmaps this transport if it is the one that is mapped.
MonStep(n) ==
    /\ mon[n] \in {"noneYet", "hadReady"} /\ fresh[n]
    /\ fresh' = [fresh EXCEPT ![n] = FALSE]
    /\ IF ready[n] = "gone" /\ mon[n] = "hadReady"
       THEN IF map = Connected(n)
            THEN map' = None /\ mon' = [mon EXCEPT ![n] = "closing"]
            ELSE mon' = [mon EXCEPT ![n] = "done"] /\ UNCHANGED map
       ELSE mon' = [mon EXCEPT ![n] = IF ready[n] = "ready" THEN "hadReady" ELSE @] /\ UNCHANGED map
    /\ UNCHANGED <<token, canceled, closing, next, trans, ready, callVars, closeVars>>

MonClose(n) ==
    /\ mon[n] = "closing"
    /\ trans' = [trans EXCEPT ![n] = "closed"]
    /\ mon' = [mon EXCEPT ![n] = "done"]
    /\ UNCHANGED <<mapVars, ready, fresh, callVars, closeVars>>

-----------------------------------------------------------------------------
CallStep(c) ==
    \/ Look(c) \/ Arm(c) \/ Wake(c) \/ WaitTimeout(c) \/ Slow(c) \/ StoreToken(c)
    \/ Create(c) \/ Built(c) \/ DropToken(c) \/ Finish(c) \/ Notify(c) \/ Send(c) \/ Respond(c)

CloseStep(k) ==
    \/ KGuard(k) \/ KMark(k) \/ KInspect(k) \/ KCancel(k) \/ KDropConnecting(k) \/ KNotify(k)
    \/ KDropConnected(k) \/ KTake(k) \/ KClose(k) \/ KUnmark(k) \/ AllDrain(k) \/ AllMark(k)

MonitorStep(n) == MonStart(n) \/ MonStep(n) \/ MonClose(n)

Next ==
    \/ \E c \in Caller : Start(c) \/ CallStep(c) \/ Deadline(c)
    \/ \E k \in Closer : AllCancel(k) \/ CloseStep(k)
    \/ \E n \in Attempt : MonitorStep(n) \/ WiresUp(n) \/ WiresGone(n)

Spec == Init /\ [][Next]_vars

-----------------------------------------------------------------------------
(* Properties *)

CallTypes ==
    /\ pc \in [Caller -> {"idle", "look", "arm", "armT", "wait", "waitT", "woken", "slow", "token", "create",
                          "built", "untoken", "finish", "notify", "send", "response"}]
    /\ at \in [Caller -> Nat]
    /\ good \in [Caller -> BOOLEAN]
    /\ sent \in [Caller -> Nat]

CloseTypes ==
    /\ kpc \in [Closer -> {"idle", "guard", "mark", "inspect", "cancelL", "cancelR", "dropL", "dropR", "notify",
                           "take", "close", "unmark", "drain", "allMarkL", "allMarkR", "over"}]
    /\ kind \in [Closer -> {"dest", "session", "current", "all"}]
    /\ tgt \in [Closer -> Nat]

MapTypes ==
    /\ map \in [st : {"None", "Connecting", "Connected"}, n : Nat]
    /\ next \in 0..Attempts
    /\ trans \in [Attempt -> {"none", "open", "closed"}]
    /\ ready \in [Attempt -> {"dialing", "ready", "gone"}]
    /\ mon \in [Attempt -> {"off", "spawned", "noneYet", "hadReady", "closing", "done"}]
    /\ fresh \in [Attempt -> BOOLEAN]

TypeOK == CallTypes /\ CloseTypes /\ MapTypes

\* What is mapped can be used: this layer never closes a transport that the map
\* still hands out, and never maps one it has closed, whichever order creators,
\* closers and monitors take (every close follows the removal of the entry).
MappedIsOpen ==
    map.st = "Connected" => trans[map.n] = "open"

\* A guarded removal takes out its own instance: neither the monitor of an old
\* transport nor the clean-up of a request that timed out on it without a wire
\* identity unmaps the transport that replaced it (Arc::ptr_eq under the lock).
GuardedRemoval ==
    [][map.st = "Connected" /\ map' # map =>
          /\ \A n \in Attempt : mon'[n] # mon[n] => map.n = n \/ mon'[n] = "spawned"
          /\ \A k \in Closer : kpc[k] = "take" /\ kpc'[k] # "take" => map.n = tgt[k]]_vars

\* The steps of an attempt between its Connecting entry and its outcome.
Creating == {"token", "create", "built", "untoken", "finish"}

\* No destination is stuck in Connecting: the attempt that inserted the entry is
\* still being made, or a closer is on its way to remove it, also after the
\* deadline of the request that made the attempt has dropped its future
\* (get_or_create_transport, close_timed_out_request_transport).
ConnectingHasOwner ==
    map.st = "Connecting" =>
       \/ \E c \in Caller : at[c] = map.n /\ pc[c] \in Creating
       \/ \E k \in Closer :
             \/ kpc[k] \in {"inspect", "cancelL", "cancelR", "dropL", "dropR", "drain"}
             \/ kpc[k] = "mark" /\ kind[k] # "current"

\* A mapped transport whose wires are gone has a monitor that will remove it: as
\* long as it is mapped, a monitor that has seen a ready wire has a change of the
\* watch before it (spawn_ready_monitor).  A monitor that has not seen one, as
\* when the watch went up and down between two of its looks, leaves the entry.
DeadIsNoticed ==
    map.st = "Connected" /\ ready[map.n] = "gone" =>
       \/ mon[map.n] \in {"spawned", "noneYet"}
       \/ mon[map.n] = "hadReady" /\ fresh[map.n]

\* What makes these inductive.  An attempt has one maker, is not published before
\* its last step, and what the maker built is open; an attempt that was published
\* was started.
AttemptInv ==
    /\ \A c \in Caller : pc[c] \in Creating =>
          /\ at[c] \in 1..next /\ mon[at[c]] = "off"
          /\ pc[c] = "built" \/ (pc[c] \in {"untoken", "finish"} /\ good[c]) => trans[at[c]] = "open"
    /\ \A c, d \in Caller : pc[c] \in Creating /\ pc[d] \in Creating /\ at[c] = at[d] => c = d
    /\ \A n \in Attempt : mon[n] # "off" => n <= next

\* The mapped transport is published and monitored, and the one that a closer or
\* a monitor is about to close is not mapped, nor will be again.
MappedInv ==
    /\ MappedIsOpen
    /\ DeadIsNoticed
    /\ map.st = "Connected" => map.n \in Attempt /\ mon[map.n] \in {"spawned", "noneYet", "hadReady"}
    /\ \A k \in Closer : kpc[k] \in {"close", "allMarkR"} =>
          tgt[k] \in Attempt /\ mon[tgt[k]] # "off" /\ map # Connected(tgt[k])

\* A request calls only when its earlier clean-up is over, and nothing was sent
\* before the attempt ended.
OwnerInv ==
    /\ ConnectingHasOwner
    /\ \A c \in Request : pc[c] # "idle" => kpc[c] = "idle"
    /\ \A c \in Caller : sent[c] # 0 => pc[c] = "response"

TransportInv == TypeOK /\ AttemptInv /\ MappedInv
=============================================================================
