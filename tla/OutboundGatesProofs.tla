------------------------- MODULE OutboundGatesProofs -------------------------
(***************************************************************************)
(* Requests on their way out for any number of requests, sessions, changes *)
(* and any capacity of the event channel: registrations are exact, the     *)
(* close of a replaced session fails nobody, and late events of an older   *)
(* session do not take over the guard of a newer one.  The argument is the *)
(* inductive invariant GateInv.                                            *)
(***************************************************************************)
EXTENDS OutboundGates, TLAPS

USE OutboundGatesAssumption

-----------------------------------------------------------------------------
(* The event channel *)

\* Events are of the type of the channel.
LEMMA NewEvent ==
  ASSUME NEW k \in EventKind, NEW s \in Session
  PROVE  [k |-> k, s |-> s] \in Event
  BY DEF Event

\* What is in the channel after an event was sent was in it before, or is the
\* event.
LEMMA Pushed ==
  ASSUME NEW q \in Seq(Event), NEW e \in Event
  PROVE  /\ Push(q, e) \in Seq(Event)
         /\ \A i \in DOMAIN Push(q, e) :
               \/ Push(q, e)[i] = e
               \/ \E j \in DOMAIN q : Push(q, e)[i] = q[j]
  <1>1. CASE Len(q) # Capacity
    BY <1>1 DEF Push
  <1>2. CASE Len(q) = Capacity
    <2>1. q # <<>>
      BY <1>2
    <2>2. Tail(q) \in Seq(Event) /\ Len(Tail(q)) = Len(q) - 1
      BY <2>1
    <2>3. \A i \in DOMAIN Tail(q) : i + 1 \in DOMAIN q /\ Tail(q)[i] = q[i + 1]
      BY <2>1, <2>2
    <2>4. Push(q, e) = Append(Tail(q), e)
      BY <1>2 DEF Push
    <2>5. \A i \in DOMAIN Append(Tail(q), e) :
             Append(Tail(q), e)[i] = e \/ (i \in DOMAIN Tail(q) /\ Append(Tail(q), e)[i] = Tail(q)[i])
      BY <2>2
    <2> QED
      BY <2>2, <2>3, <2>4, <2>5
  <1> QED
    BY <1>1, <1>2

\* Emit, in terms of what is in the channel afterwards.
LEMMA Emitted ==
  ASSUME SessionTypes, NEW k \in EventKind, NEW s \in Session, Emit(k, s)
  PROVE  /\ evs' \in Seq(Event)
         /\ \A i \in DOMAIN evs' :
               \/ evs'[i] = [k |-> k, s |-> s]
               \/ \E j \in DOMAIN evs : evs'[i] = evs[j]
  BY NewEvent, Pushed DEF SessionTypes, Emit

\* What is left in the channel after the oldest event was received.
LEMMA Taken ==
  ASSUME SessionTypes, evs # <<>>
  PROVE  /\ Head(evs) \in Event /\ 1 \in DOMAIN evs /\ Head(evs) = evs[1]
         /\ Tail(evs) \in Seq(Event)
         /\ \A i \in DOMAIN Tail(evs) : \E j \in DOMAIN evs : Tail(evs)[i] = evs[j]
  <1>1. Tail(evs) \in Seq(Event) /\ Len(Tail(evs)) = Len(evs) - 1
    BY DEF SessionTypes
  <1>2. \A i \in DOMAIN Tail(evs) : i + 1 \in DOMAIN evs /\ Tail(evs)[i] = evs[i + 1]
    BY <1>1 DEF SessionTypes
  <1>3. Head(evs) \in Event /\ 1 \in DOMAIN evs /\ Head(evs) = evs[1]
    BY DEF SessionTypes
  <1> QED
    BY <1>1, <1>2, <1>3

-----------------------------------------------------------------------------
(* Registrations *)

CallInv == CallTypes /\ PendingExact /\ Unsent

Status == [s : 0..Sessions, why : {"none", "failed", "other", "timeout"}]

\* Most steps of the sessions do not touch the requests.
LEMMA CallsStill ==
  ASSUME CallInv, UNCHANGED <<mapVars, callVars>>
  PROVE  CallInv'
  BY Zenon DEF CallInv, CallTypes, PendingExact, Unsent, mapVars, callVars

\* A request that has not registered moves on, or is refused.
LEMMA BeforeMoves ==
  ASSUME CallInv, NEW c \in Call, pc[c] \in Before, pc[c] # "idle" \/ gate[c] = "Peer",
         NEW to \in Before \cup {"failed"}, Goto(c, to),
         to \in {"local", "door", "register", "failed"} \/ st'[c].s # 0,
         st' = st \/ \E status \in Status : Reads(c, status),
         UNCHANGED <<mapVars, sent, got, gate>>
  PROVE  CallInv'
  <1>1. CallTypes'
    <2>1. pc' \in [Call -> Places]
      BY DEF CallInv, CallTypes, Goto, Places
    <2>2. st' \in [Call -> Status]
      BY Zenon DEF CallInv, CallTypes, Reads, Status
    <2> QED
      BY <2>1, <2>2 DEF CallInv, CallTypes, mapVars, Status
  <1>2. c \notin pending \cup host
    BY Zenon DEF CallInv, Unsent
  <1>3. \A d \in Call : d # c => pc'[d] = pc[d] /\ st'[d] = st[d]
    BY DEF CallInv, CallTypes, Goto, Reads
  <1>4. pc'[c] = to /\ to \notin {"send", "wait"}
    BY DEF CallInv, CallTypes, Goto, Before
  <1>5. PendingExact'
    BY <1>2, <1>3, <1>4 DEF CallInv, PendingExact, mapVars
  <1>6. Unsent'
    <2>1. gate[c] = "Peer" /\ got[c] = "none"
      BY Zenon DEF CallInv, Unsent
    <2>2. to \in Before => to \in {"local", "door", "register"} \/ st'[c].s # 0
      BY Zenon DEF Before
    <2> QED
      BY Zenon, <1>2, <1>3, <1>4, <2>1, <2>2 DEF CallInv, Unsent, mapVars
  <1> QED
    BY Zenon, <1>1, <1>5, <1>6 DEF CallInv

\* preflight_send: nobody is registered before it is through.
LEMMA PreflightCalls ==
  ASSUME CallInv, SessionTypes, GateTypes, NEW c \in Call, Preflight(c)
  PROVE  CallInv'
  <1>1. CASE AskCoordinator(c)
    <2>1. /\ pc[c] = "ask" \/ (pc[c] = "idle" /\ gate[c] = "Peer")
          /\ UNCHANGED <<mapVars, sent, got, gate>>
      BY Zenon, <1>1 DEF AskCoordinator
    <2>2. \/ \E to \in {"local", "failed"} : Goto(c, to)
          \/ \E to \in {"ask", "forget"} : Goto(c, to) /\ st'[c].s # 0
      BY <1>1 DEF AskCoordinator, Reads, CallInv, CallTypes, Unsent, Before
    <2>3. st' = st \/ \E status \in Status : Reads(c, status)
      <3>1. NoStatus \in Status /\ [s |-> guard, why |-> "timeout"] \in Status
        BY DEF NoStatus, Status, SessionTypes
      <3> QED
        BY Zenon, <1>1, <3>1 DEF AskCoordinator
    <2> QED
      BY Zenon, <2>1, <2>2, <2>3, BeforeMoves DEF Before
  <1>2. CASE ReadLocal(c)
    <2>1. rec \in Status
      BY Zenon DEF GateTypes, Status
    <2>2. Goto(c, "door") \/ (Goto(c, "compare") /\ st'[c].s # 0)
      BY Zenon, <1>2 DEF ReadLocal, Reads, CallInv, CallTypes
    <2> QED
      BY Zenon, <1>2, <2>1, <2>2, BeforeMoves DEF ReadLocal, Before
  <1>3. CASE Compare(c)
    <2>1. NoStatus \in Status /\ [st[c] EXCEPT !.why = "timeout"] \in Status
      BY DEF NoStatus, Status, CallInv, CallTypes
    <2>2. Goto(c, "failed") \/ (Goto(c, "forget") /\ st'[c].s # 0)
      BY <1>3 DEF Compare, Reads, CallInv, CallTypes, Unsent, Before
    <2>3. st' = st \/ \E status \in Status : Reads(c, status)
      BY Zenon, <1>3, <2>1 DEF Compare
    <2> QED
      BY <1>3, <2>2, <2>3, BeforeMoves DEF Compare, Before
  <1>4. CASE ClearLocal(c)
    <2>1. \E to \in {"release", "expire", "door"} : Goto(c, to) /\ st'[c].s # 0
      BY Zenon, <1>4 DEF ClearLocal, CallInv, CallTypes, Unsent, Before
    <2> QED
      BY Zenon, <1>4, <2>1, BeforeMoves DEF ClearLocal, Before
  <1>5. CASE RecoveryTimeout(c)
    <2>1. NoStatus \in Status
      BY DEF NoStatus, Status
    <2>2. Goto(c, "failed") \/ \E to \in {"evict", "close"} : Goto(c, to) /\ st'[c].s # 0
      BY <1>5 DEF RecoveryTimeout, CallInv, CallTypes, Unsent, Before
    <2>3. st' = st \/ \E status \in Status : Reads(c, status)
      BY Zenon, <1>5, <2>1 DEF RecoveryTimeout
    <2> QED
      BY <1>5, <2>2, <2>3, BeforeMoves DEF RecoveryTimeout, Before
  <1>6. CASE Door(c)
    <2>1. NoStatus \in Status
      BY DEF NoStatus, Status
    <2>2. \E to \in {"failed", "register"} : Goto(c, to)
      BY Zenon, <1>6 DEF Door
    <2> QED
      BY Zenon, <1>6, <2>1, <2>2, BeforeMoves DEF Door, Before
  <1> QED
    BY Zenon, <1>1, <1>2, <1>3, <1>4, <1>5, <1>6 DEF Preflight

\* The other steps change at most one call; what is left to show is about it.
LEMMA OneCall ==
  ASSUME CallInv, CallTypes', NEW c \in Call,
         \A d \in Call \ {c} : /\ pc'[d] = pc[d] /\ got'[d] = got[d] /\ st'[d] = st[d]
                               /\ d \in pending' <=> d \in pending
                               /\ d \in host' <=> d \in host,
         UNCHANGED gate,
         pc'[c] \in {"send", "wait"} => (c \in pending' \cup host' <=> got'[c] = "none"),
         c \in pending' => pc'[c] \in {"send", "wait", "remove", "expired", "dropped"},
         c \in host' => pc'[c] \in {"send", "wait", "guard"},
         pc'[c] \notin Before
  PROVE  CallInv'
  <1>1. PendingExact'
    BY DEF CallInv, PendingExact
  <1>2. Unsent'
    BY DEF CallInv, Unsent
  <1> QED
    BY Zenon, <1>1, <1>2 DEF CallInv

\* Requests to the peer: register, send, wait, take the entry back.
LEMMA RequestCalls ==
  ASSUME CallInv, SessionTypes, GateTypes, NEW c \in Call, Request(c)
  PROVE  CallInv'
  <1> USE DEF CallInv, CallTypes, mapVars
  <1>0. c \in pending => c \notin host
    OBVIOUS
  <1>1. CASE Register(c)
    <2>1. gate[c] = "Peer" /\ got[c] = "none" /\ c \notin host
      BY Zenon, <1>1 DEF Register, Unsent, Before
    <2>2. CallTypes'
      BY Zenon, <1>1, <2>1 DEF Register, Goto, Places
    <2> QED
      BY <1>1, <2>1, <2>2, OneCall DEF Register, Goto, Before
  <1>2. CASE Send(c)
    <2>1. CASE UNCHANGED pc
      <3>1. CallTypes' /\ UNCHANGED <<pc, got, gate, st, pending, host>>
        BY <1>2, <2>1 DEF Send, GateTypes, Goto
      <3> QED
        BY <3>1 DEF PendingExact, Unsent
    <2>2. CASE \E to \in {"wait", "remove"} : Goto(c, to)
      <3>1. PICK to \in {"wait", "remove"} : Goto(c, to)
        BY Zenon, <2>2
      <3>2. sent' \in [Call -> -1..Sessions]
        BY <1>2 DEF Send, GateTypes
      <3>3. CallTypes'
        BY Zenon, <1>2, <3>1, <3>2 DEF Send, Goto, Places
      <3> QED
        BY <1>2, <3>1, <3>3, OneCall DEF Send, Goto, Before, PendingExact
    <2> QED
      BY Zenon, <1>2, <2>1, <2>2 DEF Send
  <1>3. CASE Response(c)
    <2>1. pc[c] \in {"send", "wait", "remove", "expired", "dropped"}
      BY Zenon, <1>3 DEF Response, PendingExact
    <2>2. PICK result \in Results : got' = [got EXCEPT ![c] = result]
      BY Zenon, <1>3 DEF Response
    <2>3. CallTypes'
      BY Zenon, <1>3, <2>2 DEF Response, Results
    <2>4. c \notin pending' \cup host' /\ got'[c] # "none" /\ pc'[c] = pc[c]
      BY <1>0, <1>3, <2>2 DEF Response, Results
    <2>5. \A d \in Call \ {c} : /\ pc'[d] = pc[d] /\ got'[d] = got[d] /\ st'[d] = st[d]
                                /\ d \in pending' <=> d \in pending
                                /\ d \in host' <=> d \in host
      BY <1>3, <2>2 DEF Response
    <2>6. UNCHANGED gate /\ pc'[c] \notin Before
      BY <1>3, <2>1 DEF Response, Before
    <2> HIDE DEF CallInv, CallTypes, mapVars
    <2> QED
      BY Zenon, <2>3, <2>4, <2>5, <2>6, OneCall
  <1>4. CASE Wake(c)
    <2>1. CASE got[c] = "reply" /\ Return(c, "done")
      <3>1. c \notin pending \cup host
        BY Zenon, <1>4, <2>1 DEF Wake, PendingExact
      <3>2. CallTypes'
        BY <1>4, <2>1 DEF Wake, Return, Goto, Places
      <3> QED
        BY <1>4, <2>1, <3>1, <3>2, OneCall DEF Wake, Return, Goto, Before
    <2>2. CASE Goto(c, "remove") /\ UNCHANGED <<sent, got>>
      <3>1. CallTypes'
        BY Zenon, <1>4, <2>2 DEF Wake, Goto, Places
      <3> QED
        BY <1>4, <2>2, <3>1, OneCall DEF Wake, Goto, Before
    <2> QED
      BY Zenon, <1>4, <2>1, <2>2 DEF Wake
  <1>5. CASE Deadline(c)
    <2>1. CallTypes'
      BY Zenon, <1>5 DEF Deadline, Goto, Places
    <2> QED
      BY <1>5, <2>1, OneCall DEF Deadline, Goto, Before
  <1>6. CASE TakeBack(c)
    <2>1. c \notin host
      BY Zenon, <1>6 DEF TakeBack, PendingExact
    <2>2. CallTypes'
      <3>1. pc' \in [Call -> Places]
        BY <1>6 DEF TakeBack, Goto, Return, Places
      <3>2. sent' \in [Call -> -1..Sessions]
        BY <1>6 DEF TakeBack, Return
      <3>3. got' \in [Call -> {"none", "reply", "error"}]
        BY Zenon, <1>6 DEF TakeBack, Return
      <3> QED
        BY Zenon, <1>6, <3>1, <3>2, <3>3 DEF TakeBack
    <2> QED
      BY <1>6, <2>1, <2>2, OneCall DEF TakeBack, Goto, Return, Before
  <1>7. CASE CloseTimedOut(c)
    <2>1. c \notin pending \cup host
      BY Zenon, <1>7 DEF CloseTimedOut, PendingExact
    <2>2. CallTypes'
      BY <1>7 DEF CloseTimedOut, Goto, Return, Places
    <2> QED
      BY <1>7, <2>1, <2>2, OneCall DEF CloseTimedOut, Goto, Return, Before
  <1>8. CASE Cancel(c)
    <2>1. c \notin host
      BY Zenon, <1>8 DEF Cancel
    <2>2. CallTypes'
      BY <1>8 DEF Cancel, Goto, Reads, NoStatus, Places
    <2> QED
      BY <1>8, <2>1, <2>2, OneCall DEF Cancel, Goto, Reads, Before
  <1> QED
    BY Zenon, <1>1, <1>2, <1>3, <1>4, <1>5, <1>6, <1>7, <1>8 DEF Request

\* Requests within the process, whose guard removes the entry.
LEMMA HostCalls ==
  ASSUME CallInv, NEW c \in Call, HostRequest(c)
  PROVE  CallInv'
  <1> USE DEF CallInv, CallTypes, mapVars
  <1>0. c \in host => c \notin pending
    OBVIOUS
  <1>1. CASE HostRegister(c)
    <2>1. got[c] = "none" /\ c \notin pending
      BY Zenon, <1>1 DEF HostRegister, Unsent, Before
    <2>2. CallTypes'
      BY Zenon, <1>1 DEF HostRegister, Goto, Places
    <2> QED
      BY <1>1, <2>1, <2>2, OneCall DEF HostRegister, Goto, Before
  <1>2. CASE HostSend(c)
    <2>1. PICK to \in {"wait", "guard"} : Goto(c, to)
      BY Zenon, <1>2 DEF HostSend
    <2>2. sent' \in [Call -> -1..Sessions]
      BY <1>2 DEF HostSend
    <2>3. CallTypes'
      BY Zenon, <1>2, <2>1, <2>2 DEF HostSend, Goto, Places
    <2> QED
      BY <1>2, <2>1, <2>3, OneCall DEF HostSend, Goto, Before, PendingExact
  <1>3. CASE HostComplete(c)
    <2>1. PICK result \in Results : got' = [got EXCEPT ![c] = result]
      BY Zenon, <1>3 DEF HostComplete
    <2>2. pc[c] \in {"send", "wait", "guard"}
      BY Zenon, <1>3 DEF HostComplete, PendingExact
    <2>3. CallTypes'
      BY Zenon, <1>3, <2>1 DEF HostComplete, Results
    <2> QED
      BY <1>0, <1>3, <2>1, <2>2, <2>3, OneCall DEF HostComplete, Results, Before
  <1>4. CASE HostWait(c)
    <2>1. CallTypes'
      BY Zenon, <1>4 DEF HostWait, Goto, Places
    <2> QED
      BY <1>4, <2>1, OneCall DEF HostWait, Goto, Before
  <1>5. CASE HostReturn(c)
    <2>1. c \notin pending
      BY Zenon, <1>5 DEF HostReturn, PendingExact
    <2>2. \E to \in {"done", "failed", "dropped"} :
             /\ Goto(c, to)
             /\ Return(c, to) \/ UNCHANGED <<sent, got>>
      BY <1>5 DEF HostReturn, Return
    <2>3. CallTypes'
      BY <1>5, <2>2 DEF HostReturn, DropGuard, Goto, Return, Places
    <2>4. /\ pc'[c] \in {"done", "failed", "dropped"}
          /\ \A d \in Call \ {c} : pc'[d] = pc[d] /\ got'[d] = got[d]
      BY <2>2 DEF Goto, Return
    <2>5. /\ UNCHANGED <<pending, st, gate>> /\ c \notin host'
          /\ \A d \in Call \ {c} : d \in host' <=> d \in host
      BY Zenon, <1>5 DEF HostReturn, DropGuard
    <2>6. pc'[c] \notin Before \cup {"send", "wait"}
      BY Zenon, <2>4 DEF Before
    <2> HIDE DEF CallInv, CallTypes, mapVars
    <2> QED
      BY <2>1, <2>3, <2>4, <2>5, <2>6, OneCall
  <1> QED
    BY <1>1, <1>2, <1>3, <1>4, <1>5 DEF HostRequest

\* The close of the session that carries them answers all registered requests.
LEMMA SweepCalls ==
  ASSUME CallInv, Sweep
  PROVE  CallInv'
  <1> USE DEF CallInv, CallTypes, Sweep
  <1>1. CallTypes'
    OBVIOUS
  <1>2. PendingExact'
    BY Zenon DEF PendingExact
  <1>3. Unsent'
    BY DEF Unsent
  <1> QED
    BY Zenon, <1>1, <1>2, <1>3

-----------------------------------------------------------------------------
(* Sessions and the listener *)

SessionInv == SessionTypes /\ GateTypes /\ StaleCloseHarmless /\ OrderInv /\ ListenerInv

\* A connection that was made stays made, and one that is closed stays closed.
Lasting ==
  \A s \in Session : /\ conn[s] # "none" => conn'[s] # "none"
                     /\ conn'[s] # "none" => conn[s] # "none"
                     /\ Over(s) => Over(s)'

\* An event in the channel was there before the step, or is true after it.
TrueEvents ==
  \A i \in DOMAIN evs' :
     \/ \E j \in DOMAIN evs : evs'[i] = evs[j]
     \/ \E e \in Event : evs'[i] = e /\ EventOK(e)'

\* What every step outside the listener keeps, the creation of a session apart:
\* sessions are not forgotten and do not come back, the peer's session, the one
\* to be marked and the guarded one go or stay, wires are made to live sessions,
\* and new events are true.
Calm ==
  /\ lis' = lis /\ Lasting /\ TrueEvents
  /\ cur' \in {0, cur} /\ marking' \in {0, cur, marking} /\ rec'.s \in {0, rec.s}
  /\ rtc' \in {0, rtc} \/ (rtc' \in Session /\ conn[rtc'] = "up")

\* Known sessions stay known unless another one becomes the peer's.
LEMMA KnownStays ==
  ASSUME SessionTypes, SessionTypes', Calm, NEW s \in Session, Known(s)
  PROVE  Known(s)'
  BY DEF SessionTypes, Calm, Lasting, Known, Session

\* What an event says stays true.
LEMMA EventStays ==
  ASSUME SessionTypes, SessionTypes', Calm, NEW e, EventOK(e)
  PROVE  EventOK(e)'
  BY Zenon, KnownStays DEF EventOK, Calm, Lasting

\* Calm steps keep the order of the sessions and what the listener knows.
LEMMA CalmSteps ==
  ASSUME SessionInv, SessionTypes', GateTypes', Calm
  PROVE  SessionInv'
  <1>0. SessionTypes /\ GateTypes /\ OrderInv /\ ListenerInv
    BY DEF SessionInv
  <1>1. StaleCloseHarmless'
    BY Zenon DEF SessionInv, StaleCloseHarmless, Calm
  <1>2. OrderInv'
    <2>1. (\A r, s \in Session : r < s /\ conn[s] # "none" => conn[r] # "none")'
      BY Zenon, <1>0 DEF OrderInv, Calm, Lasting
    <2>2. (\A s \in Session : s \in {cur, marking, rec.s} => Known(s))'
      <3> SUFFICES ASSUME NEW s \in Session, s \in {cur', marking', rec'.s}
                   PROVE  Known(s)'
        OBVIOUS
      <3>1. s \in {cur, marking, rec.s}
        BY DEF Calm, Session
      <3> QED
        BY Zenon, <1>0, <3>1, KnownStays DEF OrderInv
    <2>3. (\A i \in DOMAIN evs : EventOK(evs[i]))'
      <3> SUFFICES ASSUME NEW i \in DOMAIN evs'
                   PROVE  EventOK(evs[i])'
        OBVIOUS
      <3>1. CASE \E j \in DOMAIN evs : evs'[i] = evs[j]
        <4>1. PICK j \in DOMAIN evs : evs'[i] = evs[j]
          BY Zenon, <3>1
        <4>2. EventOK(evs[j])
          BY Zenon, <1>0 DEF OrderInv
        <4>3. PICK e : e = evs[j]
          OBVIOUS
        <4>4. EventOK(e)'
          BY Zenon, <1>0, <4>2, <4>3, EventStays
        <4> QED
          BY Zenon, <4>1, <4>3, <4>4 DEF EventOK
      <3>2. CASE \E e \in Event : evs'[i] = e /\ EventOK(e)'
        BY Zenon, <3>2 DEF EventOK
      <3> QED
        BY Zenon, <3>1, <3>2 DEF Calm, TrueEvents
    <2> QED
      BY Zenon, <2>1, <2>2, <2>3 DEF OrderInv
  <1>3. ListenerInv'
    <2>0. lis' = lis
      BY Zenon DEF Calm
    <2>1. (lis.e.k # "none" => EventOK(lis.e))'
      <3>1. PICK e : e = lis.e
        OBVIOUS
      <3>2. EventOK(e) => EventOK(e)'
        BY <1>0, EventStays
      <3>3. EventOK(lis.e) <=> EventOK(e)
        BY Zenon, <3>1
      <3>4. EventOK(e)' => EventOK(lis.e)'
        BY Zenon, <3>1, <2>0 DEF EventOK
      <3> QED
        BY <1>0, <2>0, <3>2, <3>3, <3>4 DEF ListenerInv
    <2>2. (lis.e.k = "closed" /\ lis.stale => rtc # lis.e.s)'
      <3> SUFFICES ASSUME lis.e.k = "closed", lis.stale
                   PROVE  rtc' # lis.e.s
        BY Zenon, <2>0
      <3>1. lis.e.s \in Session /\ Over(lis.e.s) /\ rtc # lis.e.s
        BY Zenon, <1>0 DEF ListenerInv, EventOK
      <3> QED
        BY <3>1 DEF Calm, Lasting, Over, Session
    <2>3. (lis.at = "remember" => lis.e.k # "none" /\ Known(lis.e.s) /\ rec.s <= lis.e.s)'
      <3> SUFFICES ASSUME lis.at = "remember"
                   PROVE  lis.e.k # "none" /\ Known(lis.e.s)' /\ rec'.s <= lis.e.s
        BY Zenon, <2>0 DEF Known
      <3>1. lis.e.k # "none" /\ Known(lis.e.s) /\ rec.s <= lis.e.s /\ lis.e.s \in Session
        BY Zenon, <1>0 DEF ListenerInv, EventOK
      <3> QED
        BY <1>0, <3>1, KnownStays DEF Calm, Session
    <2>4. (lis.at = "giveup" => lis.e.k = "gaveup" /\ rec.s \in {0, lis.e.s})'
      BY Zenon, <1>0, <2>0 DEF ListenerInv, Calm
    <2> QED
      BY Zenon, <1>0, <2>0, <2>1, <2>2, <2>3, <2>4 DEF ListenerInv
  <1> QED
    BY <1>1, <1>2, <1>3 DEF SessionInv

\* A step that emits an event which is true after it.
LEMMA EmitsTrue ==
  ASSUME SessionTypes, NEW k \in EventKind, NEW s \in Session, Emit(k, s),
         k = "closed" => Over(s)', k \in {"started", "gaveup"} => Known(s)'
  PROVE  evs' \in Seq(Event) /\ TrueEvents
  <1>1. PICK e : e = [k |-> k, s |-> s]
    OBVIOUS
  <1>2. e \in Event /\ e.k = k /\ e.s = s
    BY Zenon, <1>1, NewEvent
  <1>3. EventOK(e)'
    BY Zenon, <1>2 DEF EventOK
  <1> QED
    BY <1>1, <1>2, <1>3, Emitted DEF TrueEvents

\* A step that emits nothing.
LEMMA SameEvents ==
  ASSUME SessionTypes, UNCHANGED evs
  PROVE  evs' \in Seq(Event) /\ TrueEvents
  BY Zenon DEF SessionTypes, TrueEvents

\* Closing a wire closes the connection of its session and announces it.
LEMMA Shuts ==
  ASSUME SessionTypes, NEW s \in Session, CloseWire(s)
  PROVE  /\ conn' \in [Session -> {"none", "new", "up", "down", "failed", "closed", "gone"}]
         /\ evs' \in Seq(Event) /\ rtc' = 0
         /\ Lasting /\ TrueEvents
         /\ conn[s] # "none" => Over(s)'
  <1>1. CASE Live(s)
    <2>1. conn' = [conn EXCEPT ![s] = "closed"] /\ Emit("closed", s) /\ rtc' = 0
      BY Zenon, <1>1 DEF CloseWire
    <2>2. Over(s)' /\ Lasting
      BY Zenon, <1>1, <2>1 DEF Over, Live, Lasting, SessionTypes
    <2>3. evs' \in Seq(Event) /\ TrueEvents
      BY Zenon, <2>1, <2>2, EmitsTrue DEF EventKind
    <2> QED
      BY Zenon, <2>1, <2>2, <2>3 DEF SessionTypes
  <1>2. CASE ~Live(s)
    <2>1. UNCHANGED <<conn, evs>> /\ rtc' = 0
      BY Zenon, <1>2 DEF CloseWire
    <2> QED
      BY Zenon, <1>2, <2>1, SameEvents DEF SessionTypes, Lasting, Over, Live
  <1> QED
    BY Zenon, <1>1, <1>2

\* The steps of the sessions are calm.
LEMMA CoordinatorCalm ==
  ASSUME SessionInv,
         \/ BeginNetworkRecovery \/ RestartIce \/ RestartCompletes
         \/ RestartGivesUp \/ CleanUp \/ CoordinatorListens
         \/ \E s \in Session : StateChange(s) \/ CloseSession(s) \/ AnnounceAgain(s)
  PROVE  SessionInv'
  <1> SessionTypes /\ GateTypes /\ OrderInv
    BY Zenon DEF SessionInv
  <1> SUFFICES SessionTypes' /\ GateTypes' /\ Calm
    BY CalmSteps
  <1>0. \A s \in Session : s \in {cur, marking} => Known(s)
    BY Zenon DEF OrderInv
  <1>1. CASE BeginNetworkRecovery
    <2>0. UNCHANGED <<cur, conn, restart, gateVars, lis, transVars>>
      BY Zenon, <1>1 DEF BeginNetworkRecovery
    <2>1. Lasting /\ GateTypes'
      BY <2>0 DEF Lasting, Over, GateTypes, gateVars, transVars
    <2>2. CASE marking = 0 /\ cur # 0 /\ Happens /\ marking' = cur /\ UNCHANGED <<guard, evs>>
      BY <2>0, <2>1, <2>2, SameEvents DEF Calm, SessionTypes, Happens,
         gateVars, transVars
    <2>3. CASE marking # 0 /\ marking' = 0 /\ UNCHANGED changes /\ Mark(marking)
      <3>1. PICK s \in Session : s = marking
        BY <2>3 DEF SessionTypes, Session
      <3>2. Known(s)' /\ Emit("started", s)
        BY Zenon, <1>0, <2>0, <2>3, <3>1 DEF Known, Mark, Emit
      <3>3. evs' \in Seq(Event) /\ TrueEvents
        BY Zenon, <3>2, EmitsTrue DEF EventKind
      <3> QED
        BY <2>0, <2>1, <2>3, <3>3 DEF Calm, SessionTypes, Mark,
           gateVars, transVars
    <2>4. CASE marking # 0 /\ marking' = 0 /\ UNCHANGED <<changes, guard, evs>>
      BY <2>0, <2>1, <2>4, SameEvents DEF Calm, SessionTypes,
         gateVars, transVars
    <2> QED
      BY Zenon, <1>1, <2>2, <2>3, <2>4 DEF BeginNetworkRecovery
  <1>2. CASE RestartIce
    <2>0. /\ cur \in Session /\ UNCHANGED <<cur, conn, marking, gateVars, lis, transVars>>
          /\ restart' = TRUE /\ Happens
      BY <1>2 DEF RestartIce, SessionTypes, Session
    <2>1. Lasting /\ GateTypes'
      BY <2>0 DEF Lasting, Over, GateTypes, gateVars, transVars
    <2>2. Known(cur)'
      BY <1>0, <2>0 DEF Known
    <2>3. evs' \in Seq(Event) /\ TrueEvents /\ guard' \in {guard, cur}
      <3>1. CASE guard = cur
        BY Zenon, <1>2, <3>1, SameEvents DEF RestartIce
      <3>2. CASE guard # cur
        <4>1. Emit("started", cur) /\ guard' = cur
          BY Zenon, <1>2, <3>2 DEF RestartIce, Mark
        <4>2. PICK s \in Session : s = cur
          BY Zenon, <2>0
        <4>3. Known(s)' /\ Emit("started", s)
          BY Zenon, <2>0, <2>2, <4>1, <4>2 DEF Known, Emit
        <4> QED
          BY Zenon, <4>1, <4>3, EmitsTrue DEF EventKind
      <3> QED
        BY Zenon, <3>1, <3>2
    <2> QED
      BY <2>0, <2>1, <2>3 DEF Calm, SessionTypes, Happens, gateVars, transVars
  <1>3. CASE RestartCompletes
    <2>0. /\ cur \in Session /\ Emit("restarted", cur) /\ restart' = FALSE
          /\ UNCHANGED <<cur, conn, changes, guard, marking, gateVars, lis, transVars>>
      BY <1>3 DEF RestartCompletes, SessionTypes, Session
    <2>1. Lasting /\ GateTypes'
      BY <2>0 DEF Lasting, Over, GateTypes, gateVars, transVars
    <2>2. evs' \in Seq(Event) /\ TrueEvents
      BY Zenon, <2>0, EmitsTrue DEF EventKind
    <2> QED
      BY Zenon, <2>0, <2>1, <2>2 DEF Calm, SessionTypes, gateVars, transVars
  <1>4. CASE RestartGivesUp
    <2>0. /\ cur \in Session /\ Emit("gaveup", cur) /\ cur' = 0 /\ restart' \in BOOLEAN
          /\ UNCHANGED <<conn, changes, guard, marking, gateVars, lis, transVars>>
      BY <1>4 DEF RestartGivesUp, Removed, SessionTypes, Session
    <2>1. Lasting /\ GateTypes'
      BY <2>0 DEF Lasting, Over, GateTypes, gateVars, transVars
    <2>2. PICK s \in Session : s = cur
      BY Zenon, <2>0
    <2>3. Known(s)' /\ Emit("gaveup", s)
      BY Zenon, <1>0, <2>0, <2>2 DEF Known, Emit
    <2>4. evs' \in Seq(Event) /\ TrueEvents
      BY Zenon, <2>3, EmitsTrue DEF EventKind
    <2> QED
      BY <2>0, <2>1, <2>4 DEF Calm, SessionTypes, gateVars, transVars
  <1>5. CASE CleanUp
    <2>0. /\ cur' = 0 /\ restart' \in BOOLEAN /\ Happens
          /\ UNCHANGED <<conn, guard, evs, marking, gateVars, lis, transVars>>
      BY Zenon, <1>5 DEF CleanUp, Removed, SessionTypes
    <2>1. Lasting /\ GateTypes'
      BY <2>0 DEF Lasting, Over, GateTypes, gateVars, transVars
    <2> QED
      BY <2>0, <2>1, SameEvents DEF Calm, SessionTypes, Happens, gateVars, transVars
  <1>6. CASE CoordinatorListens
    <2>0. /\ cur' \in {0, cur} /\ guard' \in {0, guard} /\ restart' \in BOOLEAN
          /\ UNCHANGED <<conn, changes, evs, marking, gateVars, lis, transVars>>
      BY Zenon, <1>6 DEF CoordinatorListens, Removed, Cleared, SessionTypes
    <2>1. Lasting /\ GateTypes'
      BY <2>0 DEF Lasting, Over, GateTypes, gateVars, transVars
    <2> QED
      BY <2>0, <2>1, SameEvents DEF Calm, SessionTypes, gateVars, transVars
  <1>7. ASSUME NEW s \in Session, StateChange(s)
        PROVE  SessionTypes' /\ GateTypes' /\ Calm
    <2>1. PICK to \in {"up", "down", "failed"} :
             conn' = [conn EXCEPT ![s] = to] /\ Emit(IF to = "up" THEN "open" ELSE to, s)
      BY Zenon, <1>7 DEF StateChange
    <2>2. Lasting
      BY <1>7, <2>1 DEF StateChange, Live, Lasting, Over, SessionTypes
    <2>3. evs' \in Seq(Event) /\ TrueEvents
      BY Zenon, <2>1, EmitsTrue DEF EventKind
    <2>4. UNCHANGED <<cur, restart, guard, marking, gateVars, lis, transVars>> /\ Happens
      BY Zenon, <1>7 DEF StateChange
    <2>5. GateTypes'
      BY <2>4 DEF GateTypes, gateVars, transVars
    <2> QED
      BY <2>1, <2>2, <2>3, <2>4, <2>5 DEF Calm, SessionTypes, Happens,
         gateVars, transVars
  <1>8. ASSUME NEW s \in Session, CloseSession(s) \/ AnnounceAgain(s)
        PROVE  SessionTypes' /\ GateTypes' /\ Calm
    <2>1. /\ conn[s] # "none" /\ Emit("closed", s)
          /\ \E to \in {"closed", "gone"} : conn' = [conn EXCEPT ![s] = to]
          /\ Live(s) \/ conn[s] = "closed"
          /\ UNCHANGED <<cur, restart, marking, gateVars, lis, transVars>>
      BY Zenon, <1>8 DEF CloseSession, AnnounceAgain, Live
    <2>2. guard' \in {0, guard} /\ changes' \in 0..Changes
      BY <1>8 DEF CloseSession, AnnounceAgain, Cleared, Happens, SessionTypes
    <2>3. Lasting /\ Over(s)'
      BY Zenon, <2>1 DEF Live, Lasting, Over, SessionTypes
    <2>4. evs' \in Seq(Event) /\ TrueEvents
      BY Zenon, <2>1, <2>3, EmitsTrue DEF EventKind
    <2>5. GateTypes'
      BY <2>1 DEF GateTypes, gateVars, transVars
    <2> QED
      BY <2>1, <2>2, <2>3, <2>4, <2>5 DEF Calm, SessionTypes,
         gateVars, transVars
  <1> QED
    BY Zenon, <1>1, <1>2, <1>3, <1>4, <1>5, <1>6, <1>7, <1>8

\* A new session is later than all known ones.
LEMMA NewSessionKeeps ==
  ASSUME SessionInv, NewSession
  PROVE  SessionInv'
  <1> SessionTypes /\ GateTypes /\ OrderInv /\ ListenerInv
    BY Zenon DEF SessionInv
  <1>1. PICK s \in Session : /\ conn[s] = "none" /\ \A r \in Session : r < s => conn[r] # "none"
                             /\ conn' = [conn EXCEPT ![s] = "new"]
                             /\ cur' = IF cur = 0 THEN s ELSE cur
                             /\ restart' = IF cur = 0 THEN FALSE ELSE restart
    BY Zenon DEF NewSession
  <1>2. UNCHANGED <<changes, guard, evs, marking, gateVars, lis, transVars>>
    BY Zenon DEF NewSession
  <1>3. SessionTypes' /\ GateTypes' /\ StaleCloseHarmless'
    <2>1. SessionTypes'
      <3>1. cur' \in 0..Sessions
        BY <1>1 DEF SessionTypes, Session
      <3>2. restart' \in BOOLEAN
        BY Zenon, <1>1 DEF SessionTypes
      <3> QED
        BY Zenon, <1>1, <1>2, <3>1, <3>2 DEF SessionTypes
    <2>2. GateTypes'
      BY <1>2 DEF GateTypes, gateVars, transVars
    <2>3. StaleCloseHarmless'
      BY Zenon, <1>2 DEF SessionInv, StaleCloseHarmless
    <2> QED
      BY Zenon, <2>1, <2>2, <2>3
  <1>4. \A r \in Session : Known(r) => Known(r)'
    <2> SUFFICES ASSUME NEW r \in Session, Known(r)
                 PROVE  Known(r)'
      OBVIOUS
    <2>1. r # s /\ ~(s < r)
      BY Zenon, <1>1 DEF Known, OrderInv
    <2>2. r <= s
      BY <2>1 DEF Session
    <2>3. conn'[r] # "none"
      BY Zenon, <1>1 DEF Known, SessionTypes
    <2>4. CASE cur = 0
      BY <1>1, <2>2, <2>3, <2>4 DEF Known
    <2>5. CASE cur # 0
      BY Zenon, <1>1, <2>3, <2>5 DEF Known
    <2> QED
      BY Zenon, <2>4, <2>5
  <1>5. \A r \in Session : Over(r) => Over(r)'
    BY Zenon, <1>1 DEF Over, SessionTypes
  <1>6. \A e : EventOK(e) => EventOK(e)'
    BY Zenon, <1>4, <1>5 DEF EventOK
  <1>7. OrderInv'
    <2>1. (\A r, t \in Session : r < t /\ conn[t] # "none" => conn[r] # "none")'
      BY <1>1 DEF OrderInv, SessionTypes
    <2>2. (\A r \in Session : r \in {cur, marking, rec.s} => Known(r))'
      <3>1. cur # 0 => cur' = cur
        BY Zenon, <1>1
      <3>2. cur = 0 => Known(s)' /\ cur' = s
        BY <1>1 DEF Known, SessionTypes, Session
      <3>3. marking' = marking /\ rec' = rec
        BY <1>2 DEF gateVars
      <3>4. 0 \notin Session
        BY DEF Session
      <3> QED
        BY Zenon, <1>4, <3>1, <3>2, <3>3, <3>4 DEF OrderInv
    <2>3. (\A i \in DOMAIN evs : EventOK(evs[i]))'
      <3> SUFFICES ASSUME NEW i \in DOMAIN evs
                   PROVE  EventOK(evs[i])'
        BY <1>2
      <3>1. PICK e : e = evs[i]
        OBVIOUS
      <3>2. EventOK(e)'
        BY Zenon, <1>6, <3>1 DEF OrderInv
      <3> QED
        BY Zenon, <1>2, <3>1, <3>2 DEF EventOK
    <2> QED
      BY <2>1, <2>2, <2>3 DEF OrderInv
  <1>8. ListenerInv'
    <2>1. UNCHANGED <<lis, rec, rtc>>
      BY Zenon, <1>2 DEF gateVars, transVars
    <2>2. PICK e : e = lis.e
      OBVIOUS
    <2>3. EventOK(lis.e) => EventOK(lis.e)'
      <3>1. EventOK(e) => EventOK(e)'
        BY Zenon, <1>6
      <3> QED
        BY Zenon, <2>1, <2>2, <3>1 DEF EventOK
    <2>4. lis.e.k # "none" /\ Known(lis.e.s) => Known(lis.e.s)'
      <3> SUFFICES ASSUME lis.e.k # "none", Known(lis.e.s)
                   PROVE  Known(lis.e.s)'
        OBVIOUS
      <3>1. e.s \in Session /\ Known(e.s)
        BY Zenon, <2>2 DEF ListenerInv, EventOK
      <3>2. Known(e.s)'
        BY Zenon, <1>4, <3>1
      <3> QED
        BY Zenon, <2>1, <2>2, <3>2 DEF Known
    <2> QED
      BY Zenon, <2>1, <2>3, <2>4 DEF ListenerInv
  <1> QED
    BY <1>3, <1>7, <1>8 DEF SessionInv

\* The steps of the transport are calm: wires are made to live sessions.
LEMMA TransportCalm ==
  ASSUME SessionInv, ConnectEnds \/ WireLost \/ TransportClosed
  PROVE  SessionInv'
  <1> SessionTypes /\ GateTypes
    BY Zenon DEF SessionInv
  <1> SUFFICES SessionTypes' /\ GateTypes' /\ Calm
    BY Zenon, CalmSteps
  <1>1. CASE ConnectEnds
    <2>0. UNCHANGED <<coordVars, evs, gateVars, lis>>
      BY Zenon, <1>1 DEF ConnectEnds
    <2>1. \/ rtc' \in {0, rtc}
          \/ rtc' \in Session /\ conn[rtc'] = "up"
      BY Zenon, <1>1 DEF ConnectEnds, Sendable
    <2>2. GateTypes'
      BY <1>1, <2>0, <2>1 DEF ConnectEnds, GateTypes, gateVars, Session
    <2>3. Lasting
      BY Zenon, <2>0 DEF Lasting, Over, coordVars
    <2> QED
      BY Zenon, <2>0, <2>1, <2>2, <2>3, SameEvents DEF Calm, SessionTypes, coordVars, gateVars
  <1>2. CASE WireLost
    <2>0. UNCHANGED <<cur, conn, restart, guard, evs, marking, gateVars, lis>>
      BY Zenon, <1>2 DEF WireLost
    <2>1. rtc' \in {0, rtc} /\ tr' \in {"absent", tr}
      BY Zenon, <1>2 DEF WireLost
    <2>2. ws' \in BOOLEAN
      BY Zenon, <1>2 DEF WireLost, GateTypes
    <2>3. changes' \in 0..Changes
      BY <1>2 DEF WireLost, Happens, SessionTypes
    <2>4. GateTypes'
      BY <2>0, <2>1, <2>2 DEF GateTypes, gateVars
    <2>5. Lasting
      BY Zenon, <2>0 DEF Lasting, Over
    <2> QED
      BY Zenon, <2>0, <2>1, <2>3, <2>4, <2>5, SameEvents DEF Calm, SessionTypes, gateVars
  <1>3. CASE TransportClosed
    <2>0. /\ UNCHANGED <<cur, changes, restart, guard, marking, gateVars, lis>>
          /\ tr' = "absent" /\ ws' = FALSE
      BY Zenon, <1>3 DEF TransportClosed
    <2>1. /\ conn' \in [Session -> {"none", "new", "up", "down", "failed", "closed", "gone"}]
          /\ evs' \in Seq(Event) /\ rtc' = 0 /\ Lasting /\ TrueEvents
      <3>1. CASE rtc = 0
        BY Zenon, <1>3, <3>1, SameEvents DEF TransportClosed, SessionTypes, Lasting, Over
      <3>2. CASE rtc # 0
        <4>1. rtc \in Session /\ CloseWire(rtc)
          BY <1>3, <3>2 DEF TransportClosed, GateTypes, Session
        <4> QED
          BY Zenon, <4>1, Shuts
      <3> QED
        BY <3>1, <3>2
    <2>2. GateTypes'
      <3>1. rtc' \in 0..Sessions /\ UNCHANGED <<rec, closing, lis>>
        BY <2>0, <2>1 DEF gateVars
      <3> QED
        BY Zenon, <2>0, <3>1 DEF GateTypes
    <2> QED
      BY Zenon, <2>0, <2>1, <2>2 DEF Calm, SessionTypes, gateVars
  <1> QED
    BY Zenon, <1>1, <1>2, <1>3

\* The preflight only clears guards and closes wires.
LEMMA PreflightCalm ==
  ASSUME SessionInv, CallInv, NEW c \in Call, Preflight(c)
  PROVE  SessionInv'
  <1> SessionTypes /\ GateTypes
    BY Zenon DEF SessionInv
  <1> SUFFICES SessionTypes' /\ GateTypes' /\ Calm
    BY Zenon, CalmSteps
  <1>1. CASE AskCoordinator(c)
    <2>0. /\ UNCHANGED <<cur, conn, changes, restart, evs, marking, gateVars, lis, transVars>>
          /\ guard' \in {0, guard}
      BY <1>1 DEF AskCoordinator, Cleared
    <2>1. Lasting /\ GateTypes'
      BY <2>0 DEF Lasting, Over, GateTypes, gateVars, transVars
    <2> QED
      BY <2>0, <2>1, SameEvents DEF Calm, SessionTypes, gateVars, transVars
  <1>2. CASE ReadLocal(c) \/ Compare(c) \/ Door(c)
    <2>0. UNCHANGED <<coordVars, evs, gateVars, lis, transVars>>
      BY Zenon, <1>2 DEF ReadLocal, Compare, Door
    <2>1. Lasting /\ GateTypes'
      BY <2>0 DEF Lasting, Over, GateTypes, coordVars, gateVars, transVars
    <2> QED
      BY <2>0, <2>1, SameEvents DEF Calm, SessionTypes, coordVars, gateVars, transVars
  <1>3. CASE ClearLocal(c)
    <2>0. UNCHANGED <<coordVars, evs, lis, transVars>>
      BY Zenon, <1>3 DEF ClearLocal
    <2>1. rec' \in {rec, NoStatus}
      BY Zenon, <1>3 DEF ClearLocal, Forget
    <2>2. closing' \in BOOLEAN
      BY Zenon, <1>3 DEF ClearLocal, GateTypes
    <2>3. Lasting
      BY Zenon, <2>0 DEF Lasting, Over, coordVars
    <2>4. GateTypes' /\ rec'.s \in {0, rec.s}
      BY <2>0, <2>1, <2>2 DEF GateTypes, NoStatus, transVars
    <2> QED
      BY Zenon, <2>0, <2>3, <2>4, SameEvents DEF Calm, SessionTypes, coordVars, transVars
  <1>4. CASE RecoveryTimeout(c)
    <2>0. UNCHANGED <<changes, marking, gateVars, lis, tr, ws>>
      BY Zenon, <1>4 DEF RecoveryTimeout
    <2>1. cur' \in {0, cur} /\ guard' \in {0, guard}
      BY <1>4 DEF RecoveryTimeout, Removed, Cleared
    <2>2. restart' \in BOOLEAN
      BY Zenon, <1>4 DEF RecoveryTimeout, Removed, SessionTypes
    <2>3. /\ conn' \in [Session -> {"none", "new", "up", "down", "failed", "closed", "gone"}]
          /\ evs' \in Seq(Event) /\ rtc' \in {0, rtc} /\ Lasting /\ TrueEvents
      <3>1. CASE UNCHANGED <<conn, evs, rtc>>
        BY Zenon, <3>1, SameEvents DEF SessionTypes, Lasting, Over
      <3>2. CASE pc[c] = "close" /\ MatchesSession(st[c].s) /\ CloseWire(rtc)
        <4>1. st[c].s # 0
          BY <3>2 DEF CallInv, Unsent, Before
        <4>2. rtc \in Session
          BY <3>2, <4>1 DEF MatchesSession, GateTypes, Session
        <4> QED
          BY <3>2, <4>2, Shuts
      <3> QED
        BY Zenon, <1>4, <3>1, <3>2 DEF RecoveryTimeout
    <2>4. GateTypes'
      <3>1. rtc' \in 0..Sessions /\ UNCHANGED <<rec, closing, lis>>
        BY <2>0, <2>3 DEF gateVars, GateTypes
      <3> QED
        BY Zenon, <2>0, <3>1 DEF GateTypes
    <2> QED
      BY <2>0, <2>1, <2>2, <2>3, <2>4 DEF Calm, SessionTypes, gateVars
  <1> QED
    BY Zenon, <1>1, <1>2, <1>3, <1>4 DEF Preflight

\* Requests do not touch the sessions.
LEMMA RequestCalm ==
  ASSUME SessionInv, NEW c \in Call, Request(c) \/ HostRequest(c)
  PROVE  SessionInv'
  <1> SessionTypes /\ GateTypes
    BY DEF SessionInv
  <1>1. UNCHANGED <<coordVars, evs, gateVars, lis, rtc, ws>>
    BY Zenon DEF Request, Register, Send, Response, Wake, Deadline, TakeBack, CloseTimedOut, Cancel,
       HostRequest, HostRegister, HostSend, HostComplete, HostWait, HostReturn, DropGuard, transVars
  <1>2. tr' \in {tr, "connecting", "closing"}
    BY Zenon DEF Request, Register, Send, Response, Wake, Deadline, TakeBack, CloseTimedOut, Cancel,
       HostRequest, HostRegister, HostSend, HostComplete, HostWait, HostReturn, DropGuard, transVars
  <1>3. Lasting
    BY Zenon, <1>1 DEF Lasting, Over, coordVars
  <1>4. SessionTypes' /\ GateTypes'
    BY <1>1, <1>2 DEF SessionTypes, GateTypes, coordVars, gateVars
  <1>5. Calm
    BY Zenon, <1>1, <1>3, SameEvents DEF Calm, coordVars, gateVars
  <1> QED
    BY <1>4, <1>5, CalmSteps

-----------------------------------------------------------------------------
(* The steps of the listener leave the sessions alone *)

\* Known and EventOK depend on the sessions only.
LEMMA Frozen ==
  ASSUME UNCHANGED <<cur, conn>>
  PROVE  /\ \A s : Known(s)' <=> Known(s)
         /\ \A e : EventOK(e)' <=> EventOK(e)
  BY Zenon DEF Known, EventOK, Over

Steps == {"idle", "handle", "remember", "block", "sendable", "clear", "unblock", "giveup",
          "expire", "transient", "mark", "shut", "sweep"}

CloseSteps == {"expire", "transient", "mark", "shut", "sweep"}

\* What the listener has established when it goes to a step.
Allowed(where) ==
  /\ where = "sweep" => ~lis.stale
  /\ where \in CloseSteps => lis.e.k = "closed"
  /\ where = "remember" => lis.e.k # "none" /\ Known(lis.e.s) /\ rec'.s <= lis.e.s
  /\ where = "giveup" => lis.e.k = "gaveup" /\ rec'.s \in {0, lis.e.s}

Recoveries == [s : 0..Sessions, why : {"none", "failed", "other"}]

\* The order of the sessions when only the guard of the gate changes.
LEMMA OrderKept ==
  ASSUME OrderInv, UNCHANGED <<cur, conn, marking>>, evs' = evs,
         rec'.s \in {0, rec.s} \/ Known(rec'.s)
  PROVE  OrderInv'
  <1>1. (\A r, s \in Session : r < s /\ conn[s] # "none" => conn[r] # "none")'
    BY Zenon DEF OrderInv
  <1>2. (\A s \in Session : s \in {cur, marking, rec.s} => Known(s))'
    <2>1. 0 \notin Session
      BY DEF Session
    <2>2. \A s \in Session : s \in {cur, marking, rec'.s} => Known(s)
      BY Zenon, <2>1 DEF OrderInv
    <2> QED
      BY Zenon, <2>2, Frozen
  <1>3. (\A i \in DOMAIN evs : EventOK(evs[i]))'
    <2> SUFFICES ASSUME NEW i \in DOMAIN evs
                 PROVE  EventOK(evs[i])'
      OBVIOUS
    <2>1. PICK e : e = evs[i]
      OBVIOUS
    <2>2. EventOK(e)'
      BY Zenon, <2>1, Frozen DEF OrderInv
    <2> QED
      BY Zenon, <2>1, <2>2 DEF EventOK
  <1> QED
    BY Zenon, <1>1, <1>2, <1>3 DEF OrderInv

\* The listener is done with an event.
LEMMA Finishes ==
  ASSUME Finish
  PROVE  /\ ListenerInv' /\ StaleCloseHarmless'
         /\ lis' \in [at : Steps, e : [k : EventKind \cup {"none"}, s : 0..Sessions],
                      stale : BOOLEAN]
  <1>1. lis' = [at |-> "idle", e |-> [k |-> "none", s |-> 0], stale |-> FALSE]
    BY Zenon DEF Finish, Idle, At
  <1>2. lis'.at = "idle" /\ lis'.e.k = "none" /\ lis'.stale = FALSE
    BY Zenon, <1>1
  <1>3. ListenerInv' /\ StaleCloseHarmless'
    BY Zenon, <1>2 DEF ListenerInv, StaleCloseHarmless
  <1> QED
    BY <1>1, <1>3 DEF Steps

\* The listener goes on to a step that it may take.
LEMMA Continues ==
  ASSUME GateTypes, ListenerInv, NEW where \in Steps, Continue(where),
         UNCHANGED <<cur, conn>>, rtc' \in {0, rtc}, Allowed(where)
  PROVE  /\ ListenerInv' /\ StaleCloseHarmless'
         /\ lis' \in [at : Steps, e : [k : EventKind \cup {"none"}, s : 0..Sessions],
                      stale : BOOLEAN]
  <1>1. lis'.at = where /\ lis'.e = lis.e /\ lis'.stale = lis.stale
    BY DEF GateTypes, Continue
  <1>2. lis' \in [at : Steps, e : [k : EventKind \cup {"none"}, s : 0..Sessions], stale : BOOLEAN]
    BY Zenon DEF GateTypes, Continue
  <1>3. PICK e : e = lis.e
    OBVIOUS
  <1>4. (lis.e.k # "none" => EventOK(lis.e))'
    <2>1. e.k # "none" => EventOK(e)'
      BY Zenon, <1>3, Frozen DEF ListenerInv
    <2> QED
      BY Zenon, <1>1, <1>3, <2>1 DEF EventOK
  <1>5. (lis.e.k = "closed" /\ lis.stale => rtc # lis.e.s)'
    <2>1. lis.e.k = "closed" => lis.e.s \in Session
      BY Zenon DEF ListenerInv, EventOK
    <2>2. 0 \notin Session
      BY DEF Session
    <2> QED
      BY Zenon, <1>1, <2>1, <2>2 DEF ListenerInv
  <1>6. (lis.at = "remember" => lis.e.k # "none" /\ Known(lis.e.s) /\ rec.s <= lis.e.s)'
    BY Zenon, <1>1 DEF Allowed, Known
  <1>7. ListenerInv'
    BY Zenon, <1>1, <1>4, <1>5, <1>6 DEF Allowed, ListenerInv, CloseSteps
  <1>8. StaleCloseHarmless'
    BY Zenon, <1>1 DEF Allowed, StaleCloseHarmless
  <1> QED
    BY <1>2, <1>7, <1>8

\* The event that the listener receives was true when it was sent, and still is.
LEMMA ReceiveKeeps ==
  ASSUME SessionInv, Receive
  PROVE  SessionInv'
  <1> SessionTypes /\ GateTypes /\ OrderInv
    BY Zenon DEF SessionInv
  <1>0. UNCHANGED <<coordVars, gateVars, transVars>> /\ evs # <<>> /\ evs' = Tail(evs)
    BY Zenon DEF Receive
  <1>1. PICK e \in Event : e = Head(evs) /\ EventOK(e)
    BY Zenon, <1>0, Taken DEF OrderInv
  <1>2. lis' = [at |-> "handle", e |-> e, stale |-> tr = "connected" /\ rtc \notin {0, e.s}]
    BY Zenon, <1>1 DEF Receive
  <1>3. lis'.at = "handle" /\ lis'.e = e /\ (lis'.stale => rtc # e.s)
    BY Zenon, <1>2
  <1>4. evs' \in Seq(Event) /\ TrueEvents
    BY Zenon, <1>0, Taken DEF TrueEvents
  <1>5. SessionTypes'
    BY Zenon, <1>0, <1>4 DEF SessionTypes, coordVars
  <1>6. GateTypes'
    <2>1. (tr = "connected" /\ rtc \notin {0, e.s}) \in BOOLEAN
      OBVIOUS
    <2>2. e \in [k : EventKind \cup {"none"}, s : 0..Sessions]
      BY DEF Event, Session
    <2> QED
      BY <1>0, <1>2, <2>1, <2>2 DEF GateTypes, gateVars, transVars
  <1>7. StaleCloseHarmless'
    BY <1>3 DEF StaleCloseHarmless
  <1>8. UNCHANGED <<cur, conn, marking, rec, rtc>>
    BY Zenon, <1>0 DEF coordVars, gateVars, transVars
  <1>9. OrderInv'
    <2>1. (\A i \in DOMAIN evs : EventOK(evs[i]))'
      <3> SUFFICES ASSUME NEW i \in DOMAIN evs'
                   PROVE  EventOK(evs[i])'
        OBVIOUS
      <3>1. PICK j \in DOMAIN evs : evs'[i] = evs[j]
        BY Zenon, <1>0, Taken
      <3>2. PICK x : x = evs[j]
        OBVIOUS
      <3>3. EventOK(x)'
        BY Zenon, <1>8, <3>2, Frozen DEF OrderInv
      <3> QED
        BY Zenon, <3>1, <3>2, <3>3 DEF EventOK
    <2>2. (\A s \in Session : s \in {cur, marking, rec.s} => Known(s))'
      BY Zenon, <1>8, Frozen DEF OrderInv
    <2> QED
      BY Zenon, <1>8, <2>1, <2>2 DEF OrderInv
  <1>10. ListenerInv'
    <2>1. EventOK(e)'
      BY Zenon, <1>1, <1>8, Frozen
    <2>2. EventOK(lis.e)'
      BY Zenon, <1>3, <2>1 DEF EventOK
    <2> QED
      BY Zenon, <1>3, <1>8, <2>2 DEF ListenerInv
  <1> QED
    BY Zenon, <1>5, <1>6, <1>7, <1>9, <1>10 DEF SessionInv

\* What a step of the listener has to establish.
LEMMA ListenerStep ==
  ASSUME SessionInv,
         UNCHANGED <<cur, conn, changes, restart, marking, evs, tr, ws>>,
         guard' \in {0, guard}, rtc' \in {0, rtc}, closing' \in BOOLEAN,
         rec' \in Recoveries, rec'.s \in {0, rec.s} \/ Known(rec'.s),
         Finish \/ \E where \in Steps : Continue(where) /\ Allowed(where)
  PROVE  SessionInv'
  <1> SessionTypes /\ GateTypes /\ OrderInv /\ ListenerInv
    BY Zenon DEF SessionInv
  <1>1. SessionTypes'
    BY DEF SessionTypes
  <1>2. /\ ListenerInv' /\ StaleCloseHarmless'
        /\ lis' \in [at : Steps, e : [k : EventKind \cup {"none"}, s : 0..Sessions],
                     stale : BOOLEAN]
    <2>1. CASE Finish
      BY Zenon, <2>1, Finishes
    <2>2. CASE \E where \in Steps : Continue(where) /\ Allowed(where)
      <3>1. PICK where \in Steps : Continue(where) /\ Allowed(where)
        BY Zenon, <2>2
      <3> QED
        BY Zenon, <3>1, Continues
    <2> QED
      BY Zenon, <2>1, <2>2
  <1>3. GateTypes'
    BY <1>2 DEF GateTypes, Steps, Recoveries
  <1>4. OrderInv'
    BY Zenon, OrderKept
  <1> QED
    BY Zenon, <1>1, <1>2, <1>3, <1>4 DEF SessionInv

\* The guard after Remember and Forget.
LEMMA Remembered ==
  ASSUME GateTypes, NEW s \in Session, NEW k, Remember(s, k)
  PROVE  rec' \in Recoveries /\ rec'.s = s
  BY DEF GateTypes, Remember, Recoveries, Session

\* ... and after steps that at most forget it.
LEMMA Forgotten ==
  ASSUME GateTypes, NEW s, rec' = rec \/ rec' = NoStatus \/ Forget(s)
  PROVE  rec' \in Recoveries /\ rec'.s \in {0, rec.s}
  BY DEF GateTypes, Forget, NoStatus, Recoveries

\* Which step each kind of event leads to.
LEMMA HandleKeeps ==
  ASSUME SessionInv, Handle
  PROVE  SessionInv'
  <1> SessionTypes /\ GateTypes /\ OrderInv /\ ListenerInv
    BY Zenon DEF SessionInv
  <1>0. /\ UNCHANGED <<cur, conn, changes, restart, marking, guard, evs, tr, rtc, ws>>
        /\ closing' \in BOOLEAN
    BY Zenon DEF Handle, GateTypes, coordVars, transVars
  <1>1. CASE lis.e.k \in {"down", "failed"}
    <2>1. rec' = rec /\ IF IsActive(lis.e.s) THEN Continue("remember") ELSE Finish
      BY Zenon, <1>1 DEF Handle
    <2>2. rec' \in Recoveries /\ rec'.s \in {0, rec.s}
      BY Zenon, <2>1, Forgotten
    <2>3. Finish \/ \E where \in Steps : Continue(where) /\ Allowed(where)
      <3>1. CASE IsActive(lis.e.s)
        <4>1. lis.e.s \in Session /\ cur = lis.e.s
          BY Zenon, <1>1, <3>1 DEF ListenerInv, EventOK, IsActive
        <4>2. Known(lis.e.s)
          BY Zenon, <4>1 DEF OrderInv
        <4>3. rec.s <= cur
          BY <4>1 DEF OrderInv, Known, GateTypes, Session
        <4>4. Allowed("remember")
          BY Zenon, <1>1, <2>1, <4>1, <4>2, <4>3 DEF Allowed, CloseSteps
        <4> QED
          BY Zenon, <2>1, <3>1, <4>4 DEF Steps
      <3>2. CASE ~IsActive(lis.e.s)
        BY Zenon, <2>1, <3>2
      <3> QED
        BY Zenon, <3>1, <3>2
    <2> QED
      BY Zenon, <1>0, <2>2, <2>3, ListenerStep
  <1>2. CASE lis.e.k = "started"
    <2>1. Remember(lis.e.s, lis.e.k) /\ Finish
      BY Zenon, <1>2 DEF Handle
    <2>2. lis.e.s \in Session /\ Known(lis.e.s)
      BY Zenon, <1>2 DEF ListenerInv, EventOK
    <2>3. rec' \in Recoveries /\ rec'.s = lis.e.s
      BY Zenon, <2>1, <2>2, Remembered
    <2> QED
      BY Zenon, <1>0, <2>1, <2>2, <2>3, ListenerStep
  <1>3. CASE lis.e.k \in {"open", "restarted"}
    <2>1. rec' = rec /\ (Continue("sendable") \/ Finish)
      BY Zenon, <1>3 DEF Handle
    <2>2. rec' \in Recoveries /\ rec'.s \in {0, rec.s}
      BY Zenon, <2>1, Forgotten
    <2>3. Allowed("sendable") /\ "sendable" \in Steps
      BY Zenon DEF Allowed, CloseSteps, Steps
    <2> QED
      BY Zenon, <1>0, <2>1, <2>2, <2>3, ListenerStep
  <1>4. CASE lis.e.k = "gaveup"
    <2>1. rec' = rec /\ IF rec.s \in {0, lis.e.s} THEN Continue("giveup") ELSE Finish
      BY Zenon, <1>4 DEF Handle
    <2>2. rec' \in Recoveries /\ rec'.s \in {0, rec.s}
      BY Zenon, <2>1, Forgotten
    <2>3. rec.s \in {0, lis.e.s} => Allowed("giveup")
      BY <1>4, <2>1 DEF Allowed, CloseSteps
    <2>4. "giveup" \in Steps
      BY Zenon DEF Steps
    <2> QED
      BY Zenon, <1>0, <2>1, <2>2, <2>3, <2>4, ListenerStep
  <1>5. CASE lis.e.k = "closed"
    <2>1. Forget(lis.e.s) /\ Continue("expire")
      BY Zenon, <1>5 DEF Handle
    <2>2. rec' \in Recoveries /\ rec'.s \in {0, rec.s}
      BY Zenon, <2>1, Forgotten
    <2>3. Allowed("expire") /\ "expire" \in Steps
      BY Zenon, <1>5 DEF Allowed, Steps
    <2> QED
      BY Zenon, <1>0, <2>1, <2>2, <2>3, ListenerStep
  <1> QED
    BY Zenon, <1>1, <1>2, <1>3, <1>4, <1>5 DEF Handle

\* The steps that change the records of the gate.
LEMMA RecordKeeps ==
  ASSUME SessionInv, RememberAndBlock \/ Unblock \/ ExpireGuard \/ MarkClosing
  PROVE  SessionInv'
  <1> SessionTypes /\ GateTypes /\ OrderInv /\ ListenerInv
    BY Zenon DEF SessionInv
  <1>0. UNCHANGED <<cur, conn, changes, restart, marking, evs, tr, rtc, ws>>
    BY Zenon DEF RememberAndBlock, Unblock, ExpireGuard, MarkClosing, coordVars, transVars
  <1>1. closing' \in BOOLEAN
    BY Zenon DEF RememberAndBlock, Unblock, ExpireGuard, MarkClosing, GateTypes, gateVars
  <1>2. guard' \in {0, guard}
    BY DEF RememberAndBlock, Unblock, ExpireGuard, MarkClosing, Cleared, coordVars
  <1>3. rec' \in Recoveries /\ (rec'.s \in {0, rec.s} \/ Known(rec'.s))
    <2>1. CASE lis.at \in {"remember", "giveup"} /\ Remember(lis.e.s, lis.e.k)
      <3>1. lis.e.s \in Session /\ Known(lis.e.s)
        BY Zenon, <2>1 DEF ListenerInv, EventOK
      <3> QED
        BY <2>1, <3>1, Remembered
    <2>2. CASE rec' \in {rec, NoStatus}
      BY Zenon, <2>2, Forgotten
    <2> QED
      BY Zenon, <2>1, <2>2 DEF RememberAndBlock, Unblock, ExpireGuard, MarkClosing, gateVars
  <1>4. Finish \/ \E where \in Steps : Continue(where) /\ Allowed(where)
    <2>1. \/ Finish
          \/ \E where \in {"block", "clear", "unblock"} : Continue(where)
          \/ /\ lis.at \in CloseSteps
             /\ \E where \in {"transient", "mark", "shut"} : Continue(where)
      BY Zenon DEF RememberAndBlock, Unblock, ExpireGuard, MarkClosing, CloseSteps
    <2>2. \A where \in {"block", "clear", "unblock"} : where \in Steps /\ Allowed(where)
      BY Zenon DEF Allowed, CloseSteps, Steps
    <2>3. lis.at \in CloseSteps =>
             \A where \in {"transient", "mark", "shut"} : where \in Steps /\ Allowed(where)
      BY DEF Allowed, CloseSteps, Steps, ListenerInv
    <2> QED
      BY Zenon, <2>1, <2>2, <2>3
  <1> QED
    BY <1>0, <1>1, <1>2, <1>3, <1>4, ListenerStep

\* The wire that a close shuts is the one of its session, so it was not replaced
\* before; and its connection is closed already.
LEMMA SweepKeeps ==
  ASSUME SessionInv, ShutWire \/ Sweep
  PROVE  SessionInv'
  <1> SessionTypes /\ GateTypes /\ OrderInv /\ ListenerInv
    BY Zenon DEF SessionInv
  <1>0. "unblock" \in Steps /\ Allowed("unblock") /\ "sweep" \in Steps
    BY Zenon DEF Allowed, CloseSteps, Steps
  <1>1. CASE ShutWire
    <2>1. lis.at = "shut" /\ lis.e.k = "closed" /\ lis.e.s \in Session /\ Over(lis.e.s)
      BY Zenon, <1>1 DEF ShutWire, ListenerInv, EventOK
    <2>2. UNCHANGED <<cur, changes, restart, guard, marking, rec, closing, tr, ws>>
      BY Zenon, <1>1 DEF ShutWire, gateVars
    <2>3. rec' \in Recoveries /\ rec'.s \in {0, rec.s} /\ closing' \in BOOLEAN
      BY Zenon, <2>2, Forgotten DEF GateTypes
    <2>4. CASE MatchesSession(lis.e.s)
      <3>1. CloseWire(rtc) /\ Continue("sweep") /\ rtc = lis.e.s
        BY Zenon, <1>1, <2>4 DEF ShutWire, MatchesSession
      <3>2. ~Live(rtc)
        BY Zenon, <2>1, <3>1 DEF Over, Live
      <3>3. rtc' = 0 /\ UNCHANGED <<conn, evs>>
        BY Zenon, <3>1, <3>2 DEF CloseWire
      <3>4. Allowed("sweep")
        BY Zenon, <2>1, <3>1 DEF Allowed, ListenerInv
      <3> QED
        BY Zenon, <1>0, <2>2, <2>3, <3>1, <3>3, <3>4, ListenerStep
    <2>5. CASE ~MatchesSession(lis.e.s)
      <3>1. Continue("unblock") /\ UNCHANGED <<rtc, conn, evs>>
        BY Zenon, <1>1, <2>5 DEF ShutWire
      <3> QED
        BY Zenon, <1>0, <2>2, <2>3, <3>1, ListenerStep
    <2> QED
      BY Zenon, <2>4, <2>5
  <1>2. CASE Sweep
    <2>1. /\ UNCHANGED <<cur, conn, changes, restart, marking, guard, evs, rec, closing, tr, rtc, ws>>
          /\ Continue("unblock")
      BY Zenon, <1>2 DEF Sweep, coordVars, gateVars, transVars
    <2>2. rec' \in Recoveries /\ rec'.s \in {0, rec.s} /\ closing' \in BOOLEAN
      BY <2>1, Forgotten DEF GateTypes
    <2> QED
      BY Zenon, <1>0, <2>1, <2>2, ListenerStep
  <1> QED
    BY <1>1, <1>2

-----------------------------------------------------------------------------
(* The invariant *)

\* The two halves of the invariant.
LEMMA GateInvSplit == GateInv <=> CallInv /\ SessionInv
  BY Zenon DEF GateInv, TypeOK, CallInv, SessionInv

\* GateInv holds initially.
LEMMA InitGate ==
  ASSUME Init
  PROVE  GateInv
  <1> USE DEF Init
  <1>1. CallTypes
    BY DEF CallTypes, Places, Before, NoStatus
  <1>2. SessionTypes
    <2>1. 0 \in 0..Sessions /\ 0 \in 0..Changes /\ <<>> \in Seq(Event)
      OBVIOUS
    <2>2. conn \in [Session -> {"none", "new", "up", "down", "failed", "closed", "gone"}]
      OBVIOUS
    <2>3. /\ cur = 0 /\ guard = 0 /\ marking = 0 /\ changes = 0 /\ evs = <<>>
          /\ restart \in BOOLEAN
      OBVIOUS
    <2> HIDE DEF Init
    <2> QED
      BY Zenon, <2>1, <2>2, <2>3 DEF SessionTypes
  <1>3. GateTypes
    <2>1. 0 \in 0..Sessions
      OBVIOUS
    <2>2. rec = [s |-> 0, why |-> "none"]
      BY DEF NoStatus
    <2>3. lis = [at |-> "idle", e |-> [k |-> "none", s |-> 0], stale |-> FALSE]
      BY Zenon DEF Idle, At
    <2>4. closing = FALSE /\ tr = "absent" /\ rtc = 0 /\ ws = FALSE
      OBVIOUS
    <2> HIDE DEF Init
    <2> QED
      BY Zenon, <2>1, <2>2, <2>3, <2>4 DEF GateTypes
  <1>4. PendingExact /\ Unsent
    BY Zenon DEF PendingExact, Unsent
  <1>5. StaleCloseHarmless /\ ListenerInv
    BY Zenon DEF StaleCloseHarmless, ListenerInv, Idle, At
  <1>6. OrderInv
    BY DEF OrderInv, Session, NoStatus
  <1> QED
    BY Zenon, <1>1, <1>2, <1>3, <1>4, <1>5, <1>6 DEF GateInv, TypeOK

\* GateInv is inductive: one step per action.
LEMMA NextGate ==
  ASSUME GateInv, [Next]_vars
  PROVE  GateInv'
  <1> CallInv /\ SessionInv /\ SessionTypes /\ GateTypes
    BY Zenon, GateInvSplit DEF SessionInv
  <1> SUFFICES CallInv' /\ SessionInv'
    BY Zenon DEF GateInv, TypeOK, CallInv, SessionInv
  <1>1. CASE NewSession
    BY Zenon, <1>1, NewSessionKeeps, CallsStill DEF NewSession
  <1>2. CASE \/ BeginNetworkRecovery \/ RestartIce \/ RestartCompletes
             \/ RestartGivesUp \/ CleanUp \/ CoordinatorListens
             \/ \E s \in Session : StateChange(s) \/ CloseSession(s) \/ AnnounceAgain(s)
    <2>1. UNCHANGED <<mapVars, callVars>>
      BY <1>2 DEF BeginNetworkRecovery, RestartIce, RestartCompletes, RestartGivesUp, CleanUp,
         CoordinatorListens, StateChange, CloseSession, AnnounceAgain
    <2> QED
      BY Zenon, <1>2, <2>1, CallsStill, CoordinatorCalm
  <1>3. CASE Receive \/ Handle
    <2>1. UNCHANGED <<mapVars, callVars>>
      BY Zenon, <1>3 DEF Receive, Handle
    <2> QED
      BY <1>3, <2>1, CallsStill, ReceiveKeeps, HandleKeeps
  <1>4. CASE RememberAndBlock \/ Unblock \/ ExpireGuard \/ MarkClosing
    <2>1. UNCHANGED <<mapVars, callVars>>
      BY Zenon, <1>4 DEF RememberAndBlock, Unblock, ExpireGuard, MarkClosing
    <2> QED
      BY Zenon, <1>4, <2>1, CallsStill, RecordKeeps
  <1>5. CASE ShutWire
    BY Zenon, <1>5, CallsStill, SweepKeeps DEF ShutWire
  <1>6. CASE Sweep
    BY Zenon, <1>6, SweepCalls, SweepKeeps
  <1>7. CASE ConnectEnds \/ WireLost \/ TransportClosed
    <2>1. UNCHANGED <<mapVars, callVars>>
      BY Zenon, <1>7 DEF ConnectEnds, WireLost, TransportClosed
    <2> QED
      BY Zenon, <1>7, <2>1, CallsStill, TransportCalm
  <1>8. CASE \E c \in Call : Preflight(c) \/ Request(c) \/ HostRequest(c)
    <2>1. PICK c \in Call : Preflight(c) \/ Request(c) \/ HostRequest(c)
      BY Zenon, <1>8
    <2>2. CASE Preflight(c)
      BY Zenon, <2>2, PreflightCalls, PreflightCalm
    <2>3. CASE Request(c)
      BY Zenon, <2>3, RequestCalls, RequestCalm
    <2>4. CASE HostRequest(c)
      BY Zenon, <2>4, HostCalls, RequestCalm
    <2> QED
      BY Zenon, <2>1, <2>2, <2>3, <2>4
  <1>9. CASE UNCHANGED vars
    <2>1. UNCHANGED <<mapVars, callVars>> /\ UNCHANGED <<coordVars, evs, gateVars, lis, transVars>>
      BY Zenon, <1>9 DEF vars
    <2>2. Lasting /\ SessionTypes' /\ GateTypes'
      BY <2>1 DEF Lasting, Over, SessionTypes, GateTypes, coordVars, gateVars, transVars
    <2>3. Calm
      BY <2>1, <2>2, SameEvents DEF Calm, coordVars, gateVars, transVars
    <2> QED
      BY Zenon, <2>1, <2>2, <2>3, CallsStill, CalmSteps
  <1> QED
    BY Zenon, <1>1, <1>2, <1>3, <1>4, <1>5, <1>6, <1>7, <1>8, <1>9 DEF Next, Listener

\* GateInv holds in every reachable state, for every set of requests and every
\* bound: the types, exact registrations, and what the listener of the gate may
\* rely on when it handles an event.
THEOREM GateInvariant == Spec => []GateInv
  <1>1. Init => GateInv
    BY Zenon, InitGate
  <1>2. GateInv /\ [Next]_vars => GateInv'
    BY NextGate
  <1> QED
    BY <1>1, <1>2, PTL DEF Spec

\* A request of peer_gate.rs or host_gate.rs is registered exactly while its
\* caller can still be woken.
THEOREM RegistrationsExact == Spec => []PendingExact
  <1>1. GateInv => PendingExact
    BY DEF GateInv
  <1> QED
    BY <1>1, GateInvariant, PTL

\* The gate's listener never fails pending requests for the close of a session
\* that the transport had already replaced when the event was received.
THEOREM StaleClosesHarmless == Spec => []StaleCloseHarmless
  <1>1. GateInv => StaleCloseHarmless
    BY Zenon DEF GateInv
  <1> QED
    BY <1>1, GateInvariant, PTL

\* The step of the guard: only the start of a recovery may move it to an older
\* session.
LEMMA GuardSteps ==
  ASSUME GateInv, Next, rec.s # 0, rec'.s # 0, rec'.s < rec.s
  PROVE  lis.e.k = "started"
  <1> SessionTypes /\ GateTypes /\ ListenerInv
    BY Zenon DEF GateInv, TypeOK
  <1>0. rec'.s # rec.s
    BY DEF GateTypes
  <1>1. CASE rec' \in {rec, NoStatus}
    <2>1. NoStatus.s = 0
      BY Zenon DEF NoStatus
    <2> QED
      BY Zenon, <1>0, <1>1, <2>1
  <1>2. CASE Handle
    BY Zenon, <1>1, <1>2 DEF Handle, Forget
  <1>3. CASE RememberAndBlock
    <2>1. CASE lis.at \in {"remember", "giveup"} /\ Remember(lis.e.s, lis.e.k)
      <3>0. lis.e.s \in Session
        BY Zenon, <2>1 DEF ListenerInv, EventOK
      <3>1. lis.e.s \in Session /\ rec.s <= lis.e.s
        BY <2>1, <3>0 DEF ListenerInv, GateTypes, Session
      <3>2. rec'.s = lis.e.s
        BY Zenon, <2>1, <3>1, Remembered
      <3> QED
        BY <3>1, <3>2 DEF GateTypes, Session
    <2>2. CASE rec' = rec
      BY Zenon, <1>1, <2>2
    <2> QED
      BY Zenon, <1>3, <2>1, <2>2 DEF RememberAndBlock
  <1>4. CASE Receive \/ Unblock \/ ExpireGuard \/ MarkClosing \/ ShutWire \/ Sweep
    BY Zenon, <1>1, <1>4 DEF Receive, Unblock, ExpireGuard, MarkClosing, ShutWire, Sweep, gateVars
  <1>5. CASE \/ NewSession \/ BeginNetworkRecovery \/ RestartIce \/ RestartCompletes
             \/ RestartGivesUp \/ CleanUp \/ CoordinatorListens
             \/ \E s \in Session : StateChange(s) \/ CloseSession(s) \/ AnnounceAgain(s)
    BY Zenon, <1>1, <1>5 DEF NewSession, BeginNetworkRecovery, RestartIce, RestartCompletes,
       RestartGivesUp, CleanUp, CoordinatorListens, StateChange, CloseSession, AnnounceAgain,
       gateVars
  <1>6. CASE ConnectEnds \/ WireLost \/ TransportClosed
    BY Zenon, <1>1, <1>6 DEF ConnectEnds, WireLost, TransportClosed, gateVars
  <1>7. ASSUME NEW c \in Call, Preflight(c) PROVE rec' \in {rec, NoStatus}
    BY <1>7 DEF Preflight, AskCoordinator, ReadLocal, Compare, ClearLocal, RecoveryTimeout, Door,
       Forget, gateVars
  <1>8. ASSUME NEW c \in Call, Request(c) \/ HostRequest(c) PROVE rec' = rec
    BY Zenon, <1>8 DEF Request, Register, Send, Response, Wake, Deadline, TakeBack, CloseTimedOut,
           Cancel,
       HostRequest, HostRegister, HostSend, HostComplete, HostWait, HostReturn, DropGuard, gateVars
  <1> QED
    BY <1>1, <1>2, <1>3, <1>4, <1>5, <1>6, <1>7, <1>8 DEF Next, Listener

\* No state change and no end of an ICE restart of an earlier session takes over
\* the recovery guard of the gate, however late its listener handles it.
THEOREM GuardsNotOlder == Spec => GuardNotOlder
  <1>1. GateInv /\ [Next]_vars =>
           [rec.s # 0 /\ rec'.s # 0 /\ rec'.s < rec.s => lis.e.k = "started"]_vars
    BY GuardSteps
  <1> QED
    BY <1>1, GateInvariant, PTL DEF Spec, GuardNotOlder
=============================================================================
