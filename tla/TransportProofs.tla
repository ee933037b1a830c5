--------------------------- MODULE TransportProofs ---------------------------
(***************************************************************************)
(* The transports of a destination for any number of callers, closers and  *)
(* attempts: what is mapped is open and watched, a guarded removal hits    *)
(* its own transport, and as long as only requests meet their deadline no  *)
(* destination stays Connecting for ever.  The argument is the inductive   *)
(* invariant TransportInv, with OwnerInv for the last theorem.  The second *)
(* half is the wire pool inside one transport: no sender sleeps through a  *)
(* wire that is up, and an eviction fails only the slot of a dead wire     *)
(* (inductive invariant PoolInv).                                          *)
(***************************************************************************)
EXTENDS PeerTransport, WirePool, TLAPS

Places == {"idle", "look", "arm", "armT", "wait", "waitT", "woken", "slow", "token", "create",
           "built", "untoken", "finish", "notify", "send", "response"}

ClosePlaces == {"idle", "guard", "mark", "inspect", "cancelL", "cancelR", "dropL", "dropR", "notify",
                "take", "close", "unmark", "drain", "allMarkL", "allMarkR", "over"}

-----------------------------------------------------------------------------
(* Types *)

LEMMA GotoTypes ==
  ASSUME CallTypes, NEW c \in Caller, NEW to \in Places, Goto(c, to)
  PROVE  CallTypes'
  BY Zenon DEF CallTypes, Goto, Places

LEMMA GotoAtTypes ==
  ASSUME CallTypes, NEW c \in Caller, NEW to \in Places, NEW n \in Nat, GotoAt(c, to, n)
  PROVE  CallTypes'
  BY DEF CallTypes, GotoAt, Places

LEMMA ReturnTypes ==
  ASSUME CallTypes, NEW c \in Caller, Return(c)
  PROVE  CallTypes'
  BY DEF CallTypes, Return

LEMMA OutcomeTypes ==
  ASSUME CallTypes, NEW c \in Caller, NEW ok \in BOOLEAN, Outcome(c, ok)
  PROVE  CallTypes'
  BY DEF CallTypes, Outcome

\* Only callers that wait are woken.
LEMMA WokenMoves ==
  ASSUME CallTypes, NEW n
  PROVE  /\ Woken(n) \in [Caller -> Places]
         /\ \A c \in Caller : \/ Woken(n)[c] = pc[c]
                              \/ pc[c] \in {"wait", "waitT"} /\ Woken(n)[c] \in {"woken", "look"}
  BY DEF Woken, CallTypes, Places

LEMMA KGotoTypes ==
  ASSUME CloseTypes, NEW k \in Closer, NEW to \in ClosePlaces, KGoto(k, to)
  PROVE  CloseTypes'
  BY DEF CloseTypes, KGoto, ClosePlaces

LEMMA KGotoAtTypes ==
  ASSUME CloseTypes, NEW k \in Closer, NEW to \in ClosePlaces, NEW n \in Nat, KGotoAt(k, to, n)
  PROVE  CloseTypes'
  BY DEF CloseTypes, KGotoAt, ClosePlaces

LEMMA KReturnTypes ==
  ASSUME CloseTypes, NEW k \in Closer, KReturn(k)
  PROVE  CloseTypes'
  BY DEF CloseTypes, KReturn

LEMMA SignalTypes ==
  ASSUME NEW n, fresh \in [Attempt -> BOOLEAN], Signal(n)
  PROVE  fresh' \in [Attempt -> BOOLEAN]
  <1> DEFINE b == mon[n] \in {"noneYet", "hadReady"}
  <1>1. b \in BOOLEAN
    OBVIOUS
  <1>2. fresh' = [fresh EXCEPT ![n] = b]
    BY DEF Signal
  <1> HIDE DEF b
  <1> QED
    BY Zenon, <1>1, <1>2

\* The constructors of the map's entries.
LEMMA Entries ==
  /\ None \in [st : {"None", "Connecting", "Connected"}, n : Nat] /\ None.st = "None"
  /\ \A n \in Nat : /\ Connecting(n) \in [st : {"None", "Connecting", "Connected"}, n : Nat]
                    /\ Connecting(n).st = "Connecting" /\ Connecting(n).n = n
                    /\ Connected(n) \in [st : {"None", "Connecting", "Connected"}, n : Nat]
                    /\ Connected(n).st = "Connected" /\ Connected(n).n = n
  BY DEF None, Connecting, Connected

LEMMA ConnectedEntry ==
  ASSUME MapTypes
  PROVE  /\ map.n \in Nat /\ map.st \in {"None", "Connecting", "Connected"}
         /\ map.st = "Connected" => map = Connected(map.n)
  BY DEF MapTypes, Connected

LEMMA InitInv == Init => TransportInv /\ OwnerInv
  <1> SUFFICES ASSUME Init PROVE TransportInv /\ OwnerInv
    OBVIOUS
  <1> USE PeerTransportAssumption
  <1>1. CallTypes
    BY DEF Init, CallTypes
  <1>2. CloseTypes
    BY Zenon DEF Init, CloseTypes
  <1>3. MapTypes
    BY Entries DEF Init, MapTypes
  <1>4. AttemptInv
    BY DEF Init, AttemptInv, Creating
  <1>5. map.st = "None"
    BY Entries DEF Init
  <1>6. MappedInv
    BY <1>5 DEF Init, MappedInv, MappedIsOpen, DeadIsNoticed
  <1>7. OwnerInv
    <2>1. \A c \in Caller : pc[c] = "idle" /\ sent[c] = 0
      BY DEF Init
    <2> QED
      BY <1>5, <2>1 DEF OwnerInv, ConnectingHasOwner, Caller
  <1> QED
    BY <1>1, <1>2, <1>3, <1>4, <1>6, <1>7 DEF TransportInv, TypeOK

LEMMA TypesCall ==
  ASSUME TypeOK, AttemptInv, NEW c \in Caller, Start(c) \/ CallStep(c) \/ Deadline(c)
  PROVE  TypeOK'
  <1> USE PeerTransportAssumption DEF TypeOK
  <1>0. at[c] \in Nat /\ sent[c] \in Nat /\ (pc[c] \in Creating => at[c] \in Attempt)
    BY DEF CallTypes, AttemptInv, Attempt, MapTypes
  <1>1. CloseTypes'
    <2>1. CASE Deadline(c) /\ c \in Request
      <3>1. c \in Closer
        BY <2>1 DEF Closer
      <3> QED
        BY <1>0, <2>1, <3>1 DEF Deadline, CloseTypes
    <2>2. CASE UNCHANGED closeVars
      BY <2>2 DEF closeVars, CloseTypes
    <2> QED
      BY Zenon, <2>1, <2>2 DEF Start, CallStep, Look, Arm, Wake, WaitTimeout, Slow, StoreToken,
             Create,
             Built, DropToken,
                        Finish, Notify, Send, Respond, Deadline
  <1>2. MapTypes'
    <2>1. CASE Slow(c)
      <3>1. CASE UNCHANGED <<map, next>>
        BY Zenon, <2>1, <3>1 DEF Slow, transVars, MapTypes
      <3>2. CASE next < Attempts /\ next' = next + 1 /\ map' = Connecting(next + 1)
        BY <2>1, <3>2, Entries DEF Slow, transVars, MapTypes
      <3> QED
        BY Zenon, <2>1, <3>1, <3>2 DEF Slow
    <2>2. CASE Create(c) \/ Built(c)
      BY Zenon, <1>0, <2>2 DEF Create, Built, MapTypes, Creating
    <2>3. CASE Finish(c)
      BY <1>0, <2>3, Entries DEF Finish, MapTypes, Creating
    <2>4. CASE UNCHANGED <<map, next, transVars>>
      BY Zenon, <2>4 DEF transVars, MapTypes
    <2> QED
      BY Zenon, <2>1, <2>2, <2>3, <2>4 DEF Start, CallStep, Look, Arm, Wake, WaitTimeout,
             StoreToken,
             DropToken,
                        Notify, Send, Respond, Deadline, mapVars
  <1>3. CallTypes'
    <2> USE GotoTypes, GotoAtTypes, ReturnTypes, OutcomeTypes DEF Places
    <2>1. CASE Start(c) \/ Arm(c) \/ Wake(c) \/ WaitTimeout(c) \/ StoreToken(c) \/ DropToken(c) \/ Respond(c)
      BY <2>1 DEF Start, Arm, Wake, WaitTimeout, StoreToken, DropToken, Respond
    <2>2. CASE Look(c)
      BY Zenon, <2>2, ConnectedEntry DEF Look
    <2>3. CASE Slow(c)
      BY <2>3, ConnectedEntry DEF Slow, MapTypes
    <2>4. CASE Create(c) \/ Built(c)
      BY Zenon, <2>4 DEF Create, Built
    <2>5. CASE Finish(c) \/ Deadline(c)
      BY Zenon, <2>5 DEF Finish, Deadline
    <2>6. CASE Notify(c)
      BY Zenon, <2>6, WokenMoves DEF Notify, CallTypes
    <2>7. CASE Send(c)
      <3>1. CASE Return(c)
        BY Zenon, <3>1
      <3>2. CASE ~Return(c)
        BY Zenon, <1>0, <2>7, <3>2 DEF Send, CallTypes
      <3> QED
        BY Zenon, <3>1, <3>2
    <2> QED
      BY Zenon, <2>1, <2>2, <2>3, <2>4, <2>5, <2>6, <2>7 DEF CallStep
  <1> QED
    BY Zenon, <1>1, <1>2, <1>3

LEMMA TypesClose ==
  ASSUME TypeOK, NEW k \in Closer, AllCancel(k) \/ CloseStep(k)
  PROVE  TypeOK'
  <1> USE PeerTransportAssumption DEF TypeOK
  <1>1. CallTypes'
    <2>1. CASE KNotify(k)
      BY Zenon, <2>1, WokenMoves DEF KNotify, CallTypes, Places
    <2>2. CASE UNCHANGED callVars
      BY <2>2 DEF callVars, CallTypes
    <2> QED
      BY Zenon, <2>1, <2>2 DEF AllCancel, CloseStep, KGuard, KMark, KInspect, KCancel,
             KDropConnecting,
             KDropConnected,
                        KTake, KClose, KUnmark, AllDrain, AllMark
  <1>2. MapTypes'
    <2>1. CASE KClose(k)
      BY Zenon, <2>1, SignalTypes DEF KClose, CloseTransport, mapVars, MapTypes
    <2>2. CASE UNCHANGED <<transVars, next>> /\ map' \in {map, None}
      BY <2>2, Entries DEF transVars, MapTypes
    <2> QED
      BY Zenon, <2>1, <2>2 DEF AllCancel, CloseStep, KGuard, KMark, KInspect, KCancel,
             KDropConnecting,
             KNotify,
                        KDropConnected, KTake, KUnmark, AllDrain, AllMark, mapVars
  <1>3. CloseTypes'
    <2> USE KGotoTypes, KGotoAtTypes, KReturnTypes, ConnectedEntry DEF ClosePlaces
    <2>1. CASE KGuard(k) \/ KMark(k) \/ KCancel(k) \/ KDropConnecting(k) \/ KUnmark(k) \/ AllCancel(k) \/ AllMark(k)
      BY Zenon, <2>1 DEF KGuard, KMark, KCancel, KDropConnecting, KUnmark, AllCancel, AllMark
    <2>2. CASE KInspect(k) \/ AllDrain(k)
      BY Zenon, <2>2 DEF KInspect, AllDrain
    <2>3. CASE KNotify(k) \/ KDropConnected(k) \/ KTake(k) \/ KClose(k)
      BY Zenon, <2>3 DEF KNotify, KDropConnected, KTake, KClose
    <2> QED
      BY Zenon, <2>1, <2>2, <2>3 DEF CloseStep
  <1> QED
    BY Zenon, <1>1, <1>2, <1>3

LEMMA TypesMonitor ==
  ASSUME TypeOK, NEW n \in Attempt, MonitorStep(n) \/ WiresUp(n) \/ WiresGone(n)
  PROVE  TypeOK'
  <1> USE DEF TypeOK
  <1>1. CallTypes' /\ CloseTypes'
    <2>1. UNCHANGED <<callVars, closeVars>>
      BY DEF MonitorStep, MonStart, MonStep, MonClose, WiresUp, WiresGone
    <2> QED
      BY Zenon, <2>1 DEF callVars, closeVars, CallTypes, CloseTypes
  <1>2. MapTypes'
    <2>1. CASE MonStart(n) \/ MonClose(n)
      BY Zenon, <2>1 DEF MonStart, MonClose, mapVars, MapTypes
    <2>2. CASE MonStep(n)
      BY <2>2, Entries DEF MonStep, MapTypes
    <2>3. CASE WiresUp(n) \/ WiresGone(n)
      BY <2>3, SignalTypes DEF WiresUp, WiresGone, mapVars, MapTypes
    <2> QED
      BY <2>1, <2>2, <2>3 DEF MonitorStep
  <1> QED
    BY <1>1, <1>2

-----------------------------------------------------------------------------
(* Attempts *)

\* No attempt starts and none is published; what is built stays open.
Steady ==
  /\ UNCHANGED <<next, mon>>
  /\ \A d \in Caller : pc'[d] \in Creating =>
       /\ pc[d] \in Creating /\ at'[d] = at[d]
       /\ pc'[d] = "built" \/ (pc'[d] \in {"untoken", "finish"} /\ good'[d]) => trans'[at[d]] = "open"

LEMMA SteadyKeeps ==
  ASSUME AttemptInv, Steady
  PROVE  AttemptInv'
  BY DEF AttemptInv, Steady

\* The attempt of a maker, and that it is its alone.
LEMMA Making ==
  ASSUME MapTypes, AttemptInv, NEW c \in Caller, pc[c] \in Creating
  PROVE  /\ at[c] \in Attempt /\ at[c] <= next /\ mon[at[c]] = "off"
         /\ \A d \in Caller : d # c /\ pc[d] \in Creating => at[d] # at[c]
  BY PeerTransportAssumption DEF MapTypes, AttemptInv, Attempt

\* A step of one caller does not move the others' attempts.
LEMMA AttemptsCall ==
  ASSUME TypeOK, AttemptInv, NEW c \in Caller, Start(c) \/ CallStep(c) \/ Deadline(c)
  PROVE  AttemptInv'
  <1> USE DEF TypeOK, CallTypes
  <1>1. CASE Slow(c) /\ next' # next
    <2>1. /\ next < Attempts /\ next' = next + 1 /\ UNCHANGED <<trans, mon>>
          /\ pc' = [pc EXCEPT ![c] = "token"] /\ at' = [at EXCEPT ![c] = next + 1] /\ good' = good
      BY Zenon, <1>1 DEF Slow, GotoAt, transVars
    <2>2. next \in Nat /\ next + 1 \in Attempt
      BY <2>1, PeerTransportAssumption DEF MapTypes, Attempt
    <2>3. mon[next + 1] = "off"
      BY <2>2 DEF AttemptInv, Attempt
    <2>4. \A d \in Caller : d # c /\ pc'[d] \in Creating =>
            /\ pc[d] = pc'[d] /\ at'[d] = at[d] /\ at[d] \in 1..next /\ mon[at[d]] = "off"
            /\ pc[d] = "built" \/ (pc[d] \in {"untoken", "finish"} /\ good[d]) => trans[at[d]] = "open"
      BY <2>1 DEF AttemptInv
    <2>5. \A d, e \in Caller : pc'[d] \in Creating /\ pc'[e] \in Creating /\ at'[d] = at'[e] => d = e
      BY <2>1, <2>2, <2>4 DEF AttemptInv
    <2>6. \A n \in Attempt : mon'[n] # "off" => n <= next'
      BY <2>1, <2>2 DEF AttemptInv, Attempt
    <2>7. \A d \in Caller : pc'[d] \in Creating =>
            /\ at'[d] \in 1..next' /\ mon'[at'[d]] = "off"
            /\ pc'[d] = "built" \/ (pc'[d] \in {"untoken", "finish"} /\ good'[d]) => trans'[at'[d]] = "open"
      BY <2>1, <2>2, <2>3, <2>4
    <2> QED
      BY Zenon, <2>5, <2>6, <2>7 DEF AttemptInv
  <1>2. CASE Finish(c)
    <2>0. pc[c] \in Creating
      BY Zenon, <1>2 DEF Finish, Creating
    <2>1. /\ UNCHANGED <<next, trans, at, good>>
          /\ pc' = [pc EXCEPT ![c] = "notify"]
          /\ mon' \in {mon, [mon EXCEPT ![at[c]] = "spawned"]}
      BY Zenon, <1>2 DEF Finish, Goto
    <2>2. \A d \in Caller : pc'[d] \in Creating => pc[d] \in Creating /\ pc'[d] = pc[d] /\ at[d] # at[c]
      BY Zenon, <2>0, <2>1, Making DEF Creating
    <2>3. \A d \in Caller : pc'[d] \in Creating => mon'[at[d]] = "off"
      BY Zenon, <2>1, <2>2, Making DEF MapTypes
    <2>4. \A n \in Attempt : mon'[n] # "off" => n <= next
      BY <2>0, <2>1, Making DEF AttemptInv, MapTypes
    <2> QED
      BY <2>1, <2>2, <2>3, <2>4 DEF AttemptInv
  <1>3. CASE Create(c)
    <2>0. pc[c] \in Creating
      BY <1>3 DEF Create, Creating
    <2>1. CASE Outcome(c, FALSE) /\ UNCHANGED trans
      <3>1. Steady
        BY <1>3, <2>0, <2>1 DEF Create, Outcome, Steady, AttemptInv
      <3> QED
        BY Zenon, <3>1, SteadyKeeps
    <2>2. CASE trans' = [trans EXCEPT ![at[c]] = "open"] /\ Goto(c, "built")
      <3>1. Steady
        BY <1>3, <2>0, <2>2, Making DEF Create, Goto, Steady, AttemptInv, MapTypes
      <3> QED
        BY <3>1, SteadyKeeps
    <2> QED
      BY Zenon, <1>3, <2>1, <2>2 DEF Create
  <1>4. CASE Built(c)
    <2>0. pc[c] \in Creating /\ trans[at[c]] = "open"
      BY Zenon, <1>4 DEF Built, Creating, AttemptInv
    <2>1. /\ UNCHANGED <<next, mon, at>>
          /\ pc' = [pc EXCEPT ![c] = "untoken"]
          /\ \/ trans' = [trans EXCEPT ![at[c]] = "closed"] /\ good' = [good EXCEPT ![c] = FALSE]
             \/ trans' = trans /\ good' = [good EXCEPT ![c] = TRUE]
      BY Zenon, <1>4 DEF Built, Outcome
    <2>2. Steady
      <3>1. ASSUME NEW d \in Caller, d # c, pc'[d] \in Creating
            PROVE  pc[d] = pc'[d] /\ good'[d] = good[d] /\ trans'[at[d]] = trans[at[d]]
        BY <2>0, <2>1, <3>1, Making DEF MapTypes
      <3>2. good'[c] => trans'[at[c]] = "open"
        BY <2>0, <2>1
      <3> QED
        BY <2>0, <2>1, <3>1, <3>2 DEF Steady, AttemptInv
    <2> QED
      BY Zenon, <2>2, SteadyKeeps
  <1>5. CASE StoreToken(c) \/ DropToken(c)
    <2>1. Steady
      BY <1>5 DEF StoreToken, DropToken, Goto, transVars, Steady, AttemptInv, Creating
    <2> QED
      BY Zenon, <2>1, SteadyKeeps
  <1>6. CASE Notify(c)
    <2>1. Steady
      BY <1>6, WokenMoves DEF Notify, mapVars, transVars, Steady, AttemptInv, Creating, Places
    <2> QED
      BY Zenon, <2>1, SteadyKeeps
  <1>7. CASE UNCHANGED <<next, trans, mon>> /\ \A d \in Caller : \/ pc'[d] = pc[d] /\ at'[d] = at[d] /\ good'[d] = good[d]
                                                                \/ pc'[d] \notin Creating
    <2>1. Steady
      BY Zenon, <1>7 DEF Steady, AttemptInv
    <2> QED
      BY Zenon, <2>1, SteadyKeeps
  <1>8. CASE Slow(c) /\ next' = next
    BY <1>7, <1>8 DEF Slow, GotoAt, Return, transVars, Creating, MapTypes
  <1>9. CASE Start(c) \/ Look(c) \/ Arm(c) \/ Wake(c) \/ WaitTimeout(c) \/ Send(c) \/ Respond(c) \/ Deadline(c)
    <2>1. /\ UNCHANGED <<next, trans, mon>>
          /\ \A d \in Caller : d # c => pc'[d] = pc[d] /\ at'[d] = at[d] /\ good'[d] = good[d]
          /\ pc'[c] \notin Creating
      <3>1. CASE Start(c) \/ Look(c) \/ Arm(c) \/ Wake(c)
        BY Zenon, <3>1, ConnectedEntry DEF Start, Look, Arm, Wake, Goto, GotoAt, Return, mapVars,
               transVars, Creating
      <3>2. CASE WaitTimeout(c) \/ Send(c) \/ Respond(c) \/ Deadline(c)
        BY Zenon, <3>2 DEF WaitTimeout, Send, Respond, Deadline, Return, mapVars, transVars,
               Creating
      <3> QED
        BY <1>9, <3>1, <3>2
    <2> QED
      BY Zenon, <1>7, <2>1
  <1> QED
    BY Zenon, <1>1, <1>2, <1>3, <1>4, <1>5, <1>6, <1>8, <1>9 DEF CallStep

\* Closers and monitors only touch transports that are published.
LEMMA AttemptsClose ==
  ASSUME TypeOK, AttemptInv, MappedInv, NEW k \in Closer, AllCancel(k) \/ CloseStep(k)
  PROVE  AttemptInv'
  <1> USE DEF TypeOK
  <1>1. CASE KClose(k)
    <2>1. mon[tgt[k]] # "off" /\ tgt[k] \in Attempt
      BY Zenon, <1>1 DEF KClose, MappedInv
    <2>2. UNCHANGED <<next, mon, callVars>> /\ trans' = [trans EXCEPT ![tgt[k]] = "closed"]
      BY <1>1 DEF KClose, CloseTransport, mapVars
    <2>3. Steady
      BY <2>1, <2>2 DEF Steady, AttemptInv, callVars, MapTypes, Attempt
    <2> QED
      BY <2>3, SteadyKeeps
  <1>2. CASE KNotify(k)
    <2>1. Steady
      BY <1>2, WokenMoves DEF KNotify, mapVars, transVars, Steady, AttemptInv, Creating, Places
    <2> QED
      BY <2>1, SteadyKeeps
  <1>3. CASE UNCHANGED <<next, trans, mon, callVars>>
    <2>1. Steady
      BY Zenon, <1>3 DEF Steady, AttemptInv, callVars
    <2> QED
      BY <2>1, SteadyKeeps
  <1> QED
    BY Zenon, <1>1, <1>2, <1>3 DEF AllCancel, CloseStep, KGuard, KMark, KInspect, KCancel,
           KDropConnecting,
           KDropConnected,
                            KTake, KUnmark, AllDrain, AllMark, mapVars, transVars

LEMMA AttemptsMonitor ==
  ASSUME TypeOK, AttemptInv, NEW n \in Attempt, MonitorStep(n) \/ WiresUp(n) \/ WiresGone(n)
  PROVE  AttemptInv'
  <1>1. /\ UNCHANGED <<next, callVars>>
        /\ \A i \in Attempt : mon'[i] = "off" <=> mon[i] = "off"
        /\ \A i \in Attempt : mon[i] = "off" => trans'[i] = trans[i]
    BY DEF MonitorStep, MonStart, MonStep, MonClose, WiresUp, WiresGone, mapVars, TypeOK, MapTypes
  <1>2. \A c \in Caller : pc[c] \in Creating => mon'[at[c]] = "off" /\ trans'[at[c]] = trans[at[c]]
    BY Zenon, <1>1, Making DEF TypeOK
  <1> QED
    BY <1>1, <1>2 DEF AttemptInv, callVars

-----------------------------------------------------------------------------
(* The mapped transport *)

\* The entry, and what is known of the transport in it, stay as they are.
Untouched ==
  /\ map' = map
  /\ map.st = "Connected" => /\ trans'[map.n] = trans[map.n] /\ ready'[map.n] = ready[map.n]
                             /\ mon'[map.n] = mon[map.n] /\ fresh'[map.n] = fresh[map.n]

\* No closer decides to close another transport, and none becomes unpublished.
SameClosers ==
  /\ \A k \in Closer : kpc'[k] \in {"close", "allMarkR"} => kpc[k] \in {"close", "allMarkR"} /\ tgt'[k] = tgt[k]
  /\ \A n \in Attempt : mon[n] # "off" => mon'[n] # "off"

LEMMA UntouchedKeeps ==
  ASSUME MappedInv, Untouched, SameClosers
  PROVE  MappedInv'
  BY Zenon DEF MappedInv, MappedIsOpen, DeadIsNoticed, Untouched, SameClosers

\* An entry that is not Connected asks for nothing.
LEMMA UnmappedKeeps ==
  ASSUME MappedInv, map'.st # "Connected", SameClosers
  PROVE  MappedInv'
  <1>1. \A n \in Attempt : map' # Connected(n)
    BY DEF Connected
  <1> QED
    BY <1>1 DEF MappedInv, MappedIsOpen, DeadIsNoticed, SameClosers

LEMMA MappedCall ==
  ASSUME TypeOK, AttemptInv, MappedInv, NEW c \in Caller, Start(c) \/ CallStep(c) \/ Deadline(c)
  PROVE  MappedInv'
  <1> USE DEF TypeOK
  <1>1. CASE Finish(c) /\ good[c]
    <2>1. /\ at[c] \in Attempt /\ mon[at[c]] = "off" /\ trans[at[c]] = "open"
      BY Zenon, <1>1, Making DEF Finish, Creating, AttemptInv
    <2>2. /\ map' = Connected(at[c]) /\ map'.st = "Connected" /\ map'.n = at[c]
          /\ trans' = trans /\ UNCHANGED closeVars
          /\ mon' = [mon EXCEPT ![at[c]] = "spawned"] /\ mon'[at[c]] = "spawned"
      BY <1>1, <2>1 DEF Finish, Connected, MapTypes
    <2>3. ASSUME NEW k \in Closer, kpc[k] \in {"close", "allMarkR"}
          PROVE  tgt[k] \in Attempt /\ mon'[tgt[k]] # "off" /\ map' # Connected(tgt[k])
      <3>1. tgt[k] \in Attempt /\ mon[tgt[k]] # "off"
        BY Zenon, <2>3 DEF MappedInv
      <3>2. tgt[k] # at[c]
        BY Zenon, <2>1, <3>1
      <3> QED
        BY <2>2, <3>1, <3>2 DEF Connected, MapTypes
    <2> QED
      BY Zenon, <2>1, <2>2, <2>3 DEF MappedInv, MappedIsOpen, DeadIsNoticed, closeVars
  <1>2. CASE Finish(c) /\ ~good[c]
    <2>1. map' = None /\ UNCHANGED <<mon, closeVars>>
      BY Zenon, <1>2 DEF Finish
    <2> QED
      BY Zenon, <2>1, Entries, UnmappedKeeps DEF SameClosers, closeVars
  <1>3. CASE Slow(c) /\ map' # map
    <2>1. map' = Connecting(next + 1) /\ UNCHANGED <<mon, closeVars>> /\ next + 1 \in Nat
      BY <1>3, PeerTransportAssumption DEF Slow, transVars, MapTypes
    <2> QED
      BY Zenon, <2>1, Entries, UnmappedKeeps DEF SameClosers, closeVars
  <1>4. CASE Create(c) \/ Built(c)
    <2>1. at[c] \in Attempt /\ mon[at[c]] = "off"
      BY Zenon, <1>4, Making DEF Create, Built, Creating
    <2>2. UNCHANGED <<map, ready, mon, fresh, closeVars>> /\ \A n \in Attempt : n # at[c] => trans'[n] = trans[n]
      BY Zenon, <1>4 DEF Create, Built, MapTypes
    <2> QED
      BY <2>1, <2>2, UntouchedKeeps DEF MappedInv, Untouched, SameClosers, closeVars
  <1>5. CASE Deadline(c)
    <2>1. UNCHANGED <<map, trans, ready, mon, fresh>>
      BY Zenon, <1>5 DEF Deadline, mapVars, transVars
    <2>2. \A k \in Closer : kpc'[k] \in {"close", "allMarkR"} => kpc[k] \in {"close", "allMarkR"} /\ tgt'[k] = tgt[k]
      BY Zenon, <1>5 DEF Deadline, closeVars, CloseTypes
    <2> QED
      BY <2>1, <2>2, UntouchedKeeps DEF Untouched, SameClosers
  <1>6. CASE UNCHANGED <<map, transVars, closeVars>>
    BY Zenon, <1>6, UntouchedKeeps DEF Untouched, SameClosers, transVars, closeVars
  <1> QED
    BY Zenon, <1>1, <1>2, <1>3, <1>4, <1>5, <1>6 DEF Start, CallStep, Look, Arm, Wake, WaitTimeout,
           Slow,
           StoreToken, DropToken,
                        Notify, Send, Respond, mapVars

\* A closer takes the mapped transport: it is unmapped in the same step.
LEMMA TakeKeeps ==
  ASSUME TypeOK, MappedInv, NEW k \in Closer, NEW to \in {"close", "allMarkR"},
         map.st = "Connected", map' = None,
         UNCHANGED transVars, kpc' = [kpc EXCEPT ![k] = to], tgt'[k] = map.n, \A j \in Closer : j # k => tgt'[j] = tgt[j]
  PROVE  MappedInv'
  <1>1. map'.st = "None" /\ \A n \in Attempt : map' # Connected(n)
    BY Entries DEF Connected
  <1>2. map.n \in Attempt /\ mon[map.n] # "off"
    BY Zenon DEF MappedInv
  <1>3. \A j \in Closer : j # k => kpc'[j] = kpc[j]
    BY Zenon DEF TypeOK, CloseTypes
  <1>4. \A j \in Closer : kpc'[j] \in {"close", "allMarkR"} => tgt'[j] \in Attempt /\ mon'[tgt'[j]] # "off"
    BY <1>2, <1>3 DEF MappedInv, transVars
  <1> QED
    BY <1>1, <1>4 DEF MappedInv, MappedIsOpen, DeadIsNoticed

LEMMA MappedClose ==
  ASSUME TypeOK, MappedInv, NEW k \in Closer, AllCancel(k) \/ CloseStep(k)
  PROVE  MappedInv'
  <1> USE ConnectedEntry DEF TypeOK
  <1>1. CASE KClose(k)
    <2>1. tgt[k] \in Attempt /\ map # Connected(tgt[k])
      BY <1>1 DEF KClose, MappedInv
    <2>2. /\ UNCHANGED <<map, mon>>
          /\ \A n \in Attempt : n # tgt[k] => trans'[n] = trans[n] /\ ready'[n] = ready[n] /\ fresh'[n] = fresh[n]
      BY Zenon, <1>1 DEF KClose, CloseTransport, Signal, mapVars, MapTypes
    <2>3. SameClosers
      BY <1>1, <2>2 DEF KClose, KGotoAt, SameClosers, CloseTypes
    <2> QED
      BY Zenon, <2>1, <2>2, <2>3, UntouchedKeeps DEF MappedInv, Untouched
  <1>2. CASE (KDropConnected(k) \/ KTake(k) \/ AllDrain(k)) /\ kpc'[k] \in {"close", "allMarkR"}
    <2>1. CASE KTake(k)
      <3>1. map = Connected(tgt[k]) /\ tgt[k] \in Nat
        BY Zenon, <1>2, <2>1 DEF KTake, KGotoAt, CloseTypes
      <3>2. map.st = "Connected" /\ map.n = tgt[k]
        BY <3>1, Entries
      <3> QED
        BY Zenon, <2>1, <3>1, <3>2, TakeKeeps DEF KTake, KGoto
    <2>2. CASE KDropConnected(k)
      <3>1. map.st = "Connected" /\ KGotoAt(k, "close", map.n) /\ map' = None /\ UNCHANGED transVars
        BY <1>2, <2>2 DEF KDropConnected, KGotoAt, CloseTypes
      <3> QED
        BY Zenon, <3>1, TakeKeeps DEF KGotoAt, CloseTypes
    <2>3. CASE AllDrain(k)
      <3>1. map.st = "Connected" /\ KGotoAt(k, "allMarkR", map.n) /\ map' = None /\ UNCHANGED transVars
        BY Zenon, <1>2, <2>3 DEF AllDrain, KGotoAt, KReturn, CloseTypes
      <3> QED
        BY Zenon, <3>1, TakeKeeps DEF KGotoAt, CloseTypes
    <2> QED
      BY Zenon, <1>2, <2>1, <2>2, <2>3
  <1>3. CASE /\ map' \in {map, None} /\ UNCHANGED transVars
             /\ \A j \in Closer : j # k => kpc'[j] = kpc[j] /\ tgt'[j] = tgt[j]
             /\ kpc'[k] \notin {"close", "allMarkR"} \/ (kpc[k] = "allMarkR" /\ tgt'[k] = tgt[k])
    <2>1. SameClosers
      BY <1>3 DEF SameClosers, transVars
    <2>2. CASE map' = map
      BY Zenon, <1>3, <2>1, <2>2, UntouchedKeeps DEF Untouched, transVars
    <2>3. CASE map' = None
      BY <2>1, <2>3, Entries, UnmappedKeeps
    <2> QED
      BY Zenon, <1>3, <2>2, <2>3
  <1>4. CASE (KDropConnected(k) \/ KTake(k) \/ AllDrain(k)) /\ kpc'[k] \notin {"close", "allMarkR"}
    BY Zenon, <1>3, <1>4 DEF KDropConnected, KTake, AllDrain, KGoto, KGotoAt, KReturn, CloseTypes
  <1>5. CASE KGuard(k) \/ KMark(k) \/ KInspect(k) \/ KUnmark(k) \/ KNotify(k)
    <2>1. map' = map /\ UNCHANGED transVars
      BY Zenon, <1>5 DEF KGuard, KMark, KInspect, KUnmark, KNotify, mapVars
    <2>2. kpc'[k] \notin {"close", "allMarkR"} /\ \A j \in Closer : j # k => kpc'[j] = kpc[j] /\ tgt'[j] = tgt[j]
      BY Zenon, <1>5 DEF KGuard, KMark, KInspect, KUnmark, KNotify, KGoto, KGotoAt, KReturn,
             CloseTypes
    <2> QED
      BY Zenon, <1>3, <2>1, <2>2
  <1>6. CASE KCancel(k) \/ KDropConnecting(k) \/ AllCancel(k) \/ AllMark(k)
    <2>1. map' \in {map, None} /\ UNCHANGED transVars
      BY Zenon, <1>6 DEF KCancel, KDropConnecting, AllCancel, AllMark
    <2>2. /\ \A j \in Closer : j # k => kpc'[j] = kpc[j] /\ tgt'[j] = tgt[j]
          /\ kpc'[k] \notin {"close", "allMarkR"} \/ (kpc[k] = "allMarkR" /\ tgt'[k] = tgt[k])
      BY Zenon, <1>6 DEF KCancel, KDropConnecting, AllCancel, AllMark, KGoto, CloseTypes
    <2> QED
      BY <1>3, <2>1, <2>2
  <1> QED
    BY Zenon, <1>1, <1>2, <1>4, <1>5, <1>6 DEF CloseStep

LEMMA MappedMonitor ==
  ASSUME TypeOK, MappedInv, NEW n \in Attempt, MonitorStep(n) \/ WiresUp(n) \/ WiresGone(n)
  PROVE  MappedInv'
  <1> USE ConnectedEntry DEF TypeOK
  <1>0. UNCHANGED closeVars
    BY Zenon DEF MonitorStep, MonStart, MonStep, MonClose, WiresUp, WiresGone
  <1>1. /\ \A i \in Attempt : mon[i] # "off" => mon'[i] # "off"
        /\ \A i \in Attempt : i # n => trans'[i] = trans[i] /\ ready'[i] = ready[i] /\ mon'[i] = mon[i] /\ fresh'[i] = fresh[i]
    BY Zenon DEF MonitorStep, MonStart, MonStep, MonClose, WiresUp, WiresGone, Signal, MapTypes
  <1>2. SameClosers
    BY Zenon, <1>0, <1>1 DEF SameClosers, closeVars
  <1>3. map' = map \/ (MonStep(n) /\ map' = None)
    BY Zenon DEF MonitorStep, MonStart, MonStep, MonClose, WiresUp, WiresGone, mapVars
  <1>4. CASE map' = None
    BY Zenon, <1>2, <1>4, Entries, UnmappedKeeps
  <1>5. CASE map' = map /\ ~(map.st = "Connected" /\ map.n = n)
    BY Zenon, <1>1, <1>2, <1>5, UntouchedKeeps DEF Untouched, MappedInv
  <1>6. CASE map' = map /\ map.st = "Connected" /\ map.n = n
    <2>1. map = Connected(n) /\ mon[n] \in {"spawned", "noneYet", "hadReady"} /\ trans[n] = "open"
          /\ (ready[n] = "gone" => mon[n] \in {"spawned", "noneYet"} \/ (mon[n] = "hadReady" /\ fresh[n]))
      BY Zenon, <1>6 DEF MappedInv, MappedIsOpen, DeadIsNoticed
    <2>2. /\ trans'[n] = "open" /\ mon'[n] \in {"spawned", "noneYet", "hadReady"}
          /\ ready'[n] = "gone" => mon'[n] \in {"spawned", "noneYet"} \/ (mon'[n] = "hadReady" /\ fresh'[n])
      <3>1. CASE MonStart(n)
        BY Zenon, <2>1, <3>1 DEF MonStart, MapTypes
      <3>2. CASE MonStep(n)
        <4>1. map' # None
          BY Zenon, <1>6, Entries
        <4> QED
          BY Zenon, <2>1, <3>2, <4>1 DEF MonStep, MapTypes
      <3>3. CASE MonClose(n)
        BY <2>1, <3>3 DEF MonClose
      <3>4. CASE WiresUp(n) \/ WiresGone(n)
        <4>1. Signal(n) /\ mon' = mon /\ trans' = trans
          BY <3>4 DEF WiresUp, WiresGone
        <4>2. mon[n] = "hadReady" => fresh'[n]
          BY Zenon, <4>1 DEF Signal, MapTypes
        <4> QED
          BY Zenon, <2>1, <4>1, <4>2
      <3> QED
        BY Zenon, <3>1, <3>2, <3>3, <3>4 DEF MonitorStep
    <2>3. \A k \in Closer : kpc'[k] \in {"close", "allMarkR"} =>
             tgt'[k] \in Attempt /\ mon'[tgt'[k]] # "off" /\ map' # Connected(tgt'[k])
      BY <1>2, <1>6 DEF SameClosers, MappedInv
    <2> QED
      BY <1>6, <2>2, <2>3 DEF MappedInv, MappedIsOpen, DeadIsNoticed
  <1> QED
    BY <1>3, <1>4, <1>5, <1>6

-----------------------------------------------------------------------------
(* The owner of a Connecting entry, when only requests meet their deadline *)

\* Callers that are making the attempt n, and closers that will unmap an entry.
Owns(c, n) == pc[c] \in Creating /\ at[c] = n

Unmaps(k) == \/ kpc[k] \in {"inspect", "cancelL", "cancelR", "dropL", "dropR", "drain"}
             \/ kpc[k] = "mark" /\ kind[k] # "current"

LEMMA OwnerCall ==
  ASSUME Expires \subseteq Request, TypeOK, AttemptInv, OwnerInv, NEW c \in Caller,
         Start(c) \/ CallStep(c) \/ Deadline(c)
  PROVE  OwnerInv'
  <1> USE DEF TypeOK, CallTypes
  <1>1. CASE Deadline(c)
    <2>1. c \in Request /\ c \in Closer /\ kpc[c] = "idle" /\ map' = map
      BY Zenon, <1>1 DEF Deadline, Closer, OwnerInv, mapVars
    <2>2. \A k \in Closer : k # c => kpc'[k] = kpc[k] /\ kind'[k] = kind[k]
      BY <1>1, <2>1 DEF Deadline, CloseTypes
    <2>3. /\ pc' = [pc EXCEPT ![c] = "idle"] /\ at' = [at EXCEPT ![c] = 0] /\ sent' = [sent EXCEPT ![c] = 0]
      BY Zenon, <1>1 DEF Deadline, Return
    <2>4. pc[c] \in Creating => kpc'[c] = "mark" /\ kind'[c] = "dest"
      <3>1. pc[c] \in Creating => sent[c] = 0
        BY Zenon DEF OwnerInv, Creating
      <3> QED
        BY <1>1, <2>1, <3>1 DEF Deadline, CloseTypes
    <2>5. ConnectingHasOwner'
      <3> SUFFICES ASSUME map.st = "Connecting"
                   PROVE  (\E d \in Caller : Owns(d, map.n)') \/ (\E k \in Closer : Unmaps(k)')
        BY Zenon, <2>1 DEF ConnectingHasOwner, Owns, Unmaps
      <3>1. (\E d \in Caller : Owns(d, map.n)) \/ (\E k \in Closer : Unmaps(k))
        BY Zenon DEF OwnerInv, ConnectingHasOwner, Owns, Unmaps
      <3>2. ASSUME NEW d \in Caller, Owns(d, map.n) PROVE Owns(d, map.n)' \/ Unmaps(c)'
        BY <2>1, <2>3, <2>4, <3>2 DEF Owns, Unmaps
      <3>3. ASSUME NEW k \in Closer, Unmaps(k) PROVE Unmaps(k)'
        BY Zenon, <2>1, <2>2, <3>3 DEF Unmaps
      <3> QED
        BY <2>1, <3>1, <3>2, <3>3
    <2>6. /\ \A d \in Request : pc'[d] # "idle" => kpc'[d] = "idle"
          /\ \A d \in Caller : sent'[d] # 0 => pc'[d] = "response"
      BY Zenon, <2>1, <2>2, <2>3 DEF OwnerInv, Closer, Caller
    <2> QED
      BY Zenon, <2>5, <2>6 DEF OwnerInv
  <1>2. CASE ~Deadline(c)
    <2>1. UNCHANGED closeVars
      BY Zenon, <1>2 DEF Start, CallStep, Look, Arm, Wake, WaitTimeout, Slow, StoreToken, Create,
             Built,
             DropToken,
                  Finish, Notify, Send, Respond
    <2>2. \A d \in Caller : pc[d] = "idle" => pc'[d] = "idle" \/ (d \in Request => kpc[d] = "idle")
      <3>1. CASE Start(c)
        BY <3>1 DEF Start, Goto
      <3>2. CASE Notify(c)
        BY <3>2, WokenMoves DEF Notify, Places
      <3>3. CASE ~Start(c) /\ ~Notify(c)
        <4>1. pc[c] # "idle"
          BY Zenon, <1>2, <3>3 DEF CallStep, Look, Arm, Wake, WaitTimeout, Slow, StoreToken, Create,
                 Built,
                 DropToken,
                  Finish, Send, Respond
        <4>2. \A d \in Caller : d # c => pc'[d] = pc[d]
          BY Zenon, <1>2, <3>3, ConnectedEntry DEF CallStep, Look, Arm, Wake, WaitTimeout, Slow,
                 StoreToken, Create, Built,
                  DropToken, Finish, Send, Respond, Goto, GotoAt, Return, Outcome
        <4> QED
          BY Zenon, <4>1, <4>2
      <3> QED
        BY Zenon, <3>1, <3>2, <3>3
    <2>3. \A d \in Caller : sent'[d] # 0 => pc'[d] = "response"
      <3>1. CASE Notify(c)
        BY <3>1, WokenMoves DEF Notify, Places, OwnerInv
      <3>2. CASE Send(c) \/ Respond(c)
        BY <3>2 DEF Send, Respond, Return, OwnerInv
      <3>3. CASE ~Notify(c) /\ ~(Send(c) \/ Respond(c))
        <4>1. /\ pc[c] # "response"
              /\ \A d \in Caller : d # c => pc'[d] = pc[d] /\ sent'[d] = sent[d]
              /\ sent'[c] = sent[c] \/ sent'[c] = 0
          <5>1. CASE Start(c) \/ Look(c) \/ Arm(c) \/ Wake(c) \/ WaitTimeout(c) \/ Slow(c)
            BY Zenon, <5>1, ConnectedEntry DEF Start, Look, Arm, Wake, WaitTimeout, Slow, Goto,
                   GotoAt,
                   Return
          <5>2. CASE StoreToken(c) \/ Create(c) \/ Built(c) \/ DropToken(c) \/ Finish(c)
            BY Zenon, <5>2 DEF StoreToken, Create, Built, DropToken, Finish, Goto, Outcome
          <5> QED
            BY Zenon, <1>2, <3>3, <5>1, <5>2 DEF CallStep
        <4> QED
          BY Zenon, <4>1 DEF OwnerInv
      <3> QED
        BY Zenon, <3>1, <3>2, <3>3
    <2>4. ASSUME map'.st = "Connecting"
          PROVE  \/ \E d \in Caller : Owns(d, map.n)'
                 \/ map' = map /\ \A d \in Caller : Owns(d, map.n) => Owns(d, map.n)'
      <3>1. CASE Slow(c) /\ map' # map
        <4>1. map' = Connecting(next + 1) /\ pc'[c] = "token" /\ at'[c] = next + 1 /\ next + 1 \in Nat
          BY <3>1, PeerTransportAssumption DEF Slow, GotoAt, MapTypes
        <4>2. map'.n = at'[c] /\ pc'[c] \in Creating
          BY <4>1, Entries DEF Creating
        <4> QED
          BY Zenon, <4>2 DEF Owns
      <3>2. CASE Slow(c) /\ map' = map
        BY <3>2 DEF Slow, GotoAt, Return, Owns, Creating
      <3>3. CASE Finish(c)
        BY Zenon, <2>4, <3>3, Entries DEF Finish
      <3>4. CASE Notify(c)
        BY Zenon, <3>4, WokenMoves DEF Notify, mapVars, Owns, Creating, Places
      <3>5. CASE StoreToken(c) \/ Create(c) \/ Built(c) \/ DropToken(c)
        BY Zenon, <3>5 DEF StoreToken, Create, Built, DropToken, Goto, Outcome, Owns, Creating
      <3>6. CASE Start(c) \/ Arm(c) \/ Wake(c) \/ WaitTimeout(c) \/ Send(c) \/ Respond(c)
        BY <3>6 DEF Start, Arm, Wake, WaitTimeout, Send, Respond, Goto, Return, mapVars, Owns,
               Creating
      <3>7. CASE Look(c)
        BY Zenon, <3>7, ConnectedEntry DEF Look, GotoAt, mapVars, Owns, Creating
      <3> QED
        BY Zenon, <1>2, <3>1, <3>2, <3>3, <3>4, <3>5, <3>6, <3>7 DEF CallStep
    <2>5. \A k \in Closer : Unmaps(k) => Unmaps(k)'
      BY Zenon, <2>1 DEF Unmaps, closeVars
    <2>6. ConnectingHasOwner'
      <3> SUFFICES ASSUME map'.st = "Connecting"
                   PROVE  (\E d \in Caller : Owns(d, map.n)') \/ (\E k \in Closer : Unmaps(k)')
        BY Zenon DEF ConnectingHasOwner, Owns, Unmaps
      <3>1. CASE \E d \in Caller : Owns(d, map.n)'
        BY Zenon, <3>1
      <3>2. CASE map' = map /\ \A d \in Caller : Owns(d, map.n) => Owns(d, map.n)'
        <4>1. (\E d \in Caller : Owns(d, map.n)) \/ (\E k \in Closer : Unmaps(k))
          BY Zenon, <3>2 DEF OwnerInv, ConnectingHasOwner, Owns, Unmaps
        <4> QED
          BY Zenon, <2>5, <3>2, <4>1 DEF Owns
      <3> QED
        BY Zenon, <2>4, <3>1, <3>2
    <2> QED
      BY <2>1, <2>2, <2>3, <2>6 DEF OwnerInv, Caller, closeVars
  <1> QED
    BY <1>1, <1>2

\* A closer that is to unmap the entry goes on towards it, or has unmapped it.
LEMMA OwnerClose ==
  ASSUME TypeOK, OwnerInv, NEW k \in Closer, AllCancel(k) \/ CloseStep(k)
  PROVE  OwnerInv'
  <1> USE DEF TypeOK
  <1>1. /\ \A c \in Caller : pc'[c] = pc[c] \/ (pc[c] \in {"wait", "waitT"} /\ pc'[c] \in {"woken", "look"})
        /\ UNCHANGED <<at, sent>>
    <2>1. CASE KNotify(k)
      BY Zenon, <2>1, WokenMoves DEF KNotify
    <2>2. CASE UNCHANGED callVars
      BY <2>2 DEF callVars
    <2> QED
      BY Zenon, <2>1, <2>2 DEF AllCancel, CloseStep, KGuard, KMark, KInspect, KCancel,
             KDropConnecting,
             KDropConnected,
                        KTake, KClose, KUnmark, AllDrain, AllMark
  <1>2. map' = map \/ map' = None
    BY Zenon DEF AllCancel, CloseStep, KGuard, KMark, KInspect, KCancel, KDropConnecting, KNotify,
           KDropConnected,
           KTake, KClose, KUnmark, AllDrain, AllMark, mapVars
  <1>3. \A j \in Closer : j # k => kpc'[j] = kpc[j] /\ kind'[j] = kind[j]
    <2>1. CASE AllCancel(k) \/ KGuard(k) \/ KMark(k) \/ KCancel(k) \/ KDropConnecting(k) \/ KUnmark(k) \/ AllMark(k)
      BY <2>1 DEF AllCancel, KGuard, KMark, KCancel, KDropConnecting, KUnmark, AllMark, KGoto,
             KReturn, CloseTypes
    <2>2. CASE KInspect(k) \/ AllDrain(k)
      BY Zenon, <2>2, ConnectedEntry DEF KInspect, AllDrain, KGotoAt, KReturn, CloseTypes
    <2>3. CASE KNotify(k) \/ KDropConnected(k) \/ KTake(k) \/ KClose(k)
      BY Zenon, <2>3 DEF KNotify, KDropConnected, KTake, KClose, KGoto, KGotoAt, CloseTypes
    <2> QED
      BY Zenon, <2>1, <2>2, <2>3 DEF CloseStep
  <1>4. map'.st = "Connecting" /\ Unmaps(k) => Unmaps(k)'
    <2> SUFFICES ASSUME map'.st = "Connecting", Unmaps(k) PROVE Unmaps(k)'
      OBVIOUS
    <2>0. map' = map
      BY Zenon, <1>2, Entries
    <2>1. CASE KMark(k) \/ KCancel(k) \/ KDropConnecting(k)
      BY <2>0, <2>1, Entries DEF KMark, KCancel, KDropConnecting, KGoto, Unmaps, CloseTypes
    <2>2. CASE KInspect(k)
      BY Zenon, <2>0, <2>2 DEF KInspect, KGotoAt, Unmaps, CloseTypes
    <2>3. CASE KDropConnected(k) \/ AllDrain(k)
      <3>1. map' = None
        BY Zenon, <2>3 DEF KDropConnected, AllDrain
      <3> QED
        BY <3>1, Entries
    <2>4. CASE ~(KMark(k) \/ KCancel(k) \/ KDropConnecting(k) \/ KInspect(k) \/ KDropConnected(k) \/ AllDrain(k))
      BY Zenon, <2>4 DEF AllCancel, CloseStep, KGuard, KNotify, KTake, KClose, KUnmark, AllMark,
             Unmaps
    <2> QED
      BY Zenon, <2>1, <2>2, <2>3, <2>4
  <1>5. ConnectingHasOwner'
    <2> SUFFICES ASSUME map'.st = "Connecting"
                 PROVE  (\E d \in Caller : Owns(d, map.n)') \/ (\E j \in Closer : Unmaps(j)')
      BY Zenon DEF ConnectingHasOwner, Owns, Unmaps
    <2>1. map' = map
      BY Zenon, <1>2, Entries
    <2>2. (\E d \in Caller : Owns(d, map.n)) \/ (\E j \in Closer : Unmaps(j))
      BY Zenon, <2>1 DEF OwnerInv, ConnectingHasOwner, Owns, Unmaps
    <2>3. ASSUME NEW d \in Caller, Owns(d, map.n) PROVE Owns(d, map.n)'
      BY Zenon, <1>1, <2>1, <2>3 DEF Owns, Creating
    <2>4. ASSUME NEW j \in Closer, Unmaps(j) PROVE Unmaps(j)'
      BY Zenon, <1>3, <1>4, <2>4 DEF Unmaps
    <2> QED
      BY Zenon, <2>2, <2>3, <2>4
  <1>6. \A c \in Request : pc'[c] # "idle" => kpc'[c] = "idle"
    <2>1. k \in Request => kpc[k] # "idle"
      BY Zenon, PeerTransportAssumption DEF AllCancel, CloseStep, KGuard, KMark, KInspect, KCancel,
             KDropConnecting, KNotify,
             KDropConnected, KTake, KClose, KUnmark, AllDrain, AllMark, Caller
    <2> QED
      BY <1>1, <1>3, <2>1 DEF OwnerInv, Caller, Closer
  <1>7. \A c \in Caller : sent'[c] # 0 => pc'[c] = "response"
    BY Zenon, <1>1 DEF OwnerInv
  <1> QED
    BY <1>5, <1>6, <1>7 DEF OwnerInv

LEMMA OwnerMonitor ==
  ASSUME OwnerInv, NEW n \in Attempt, MonitorStep(n) \/ WiresUp(n) \/ WiresGone(n)
  PROVE  OwnerInv'
  <1>1. UNCHANGED <<callVars, closeVars>> /\ (map' = map \/ map' = None)
    BY Zenon DEF MonitorStep, MonStart, MonStep, MonClose, WiresUp, WiresGone, mapVars
  <1> QED
    BY <1>1, Entries DEF OwnerInv, ConnectingHasOwner, callVars, closeVars

-----------------------------------------------------------------------------
(* The theorems *)

LEMMA StepInv == TransportInv /\ [Next]_vars => TransportInv'
  <1> SUFFICES ASSUME TransportInv, [Next]_vars PROVE TransportInv'
    OBVIOUS
  <1> USE DEF TransportInv
  <1>1. ASSUME NEW c \in Caller, Start(c) \/ CallStep(c) \/ Deadline(c) PROVE TransportInv'
    BY Zenon, <1>1, TypesCall, AttemptsCall, MappedCall
  <1>2. ASSUME NEW k \in Closer, AllCancel(k) \/ CloseStep(k) PROVE TransportInv'
    BY Zenon, <1>2, TypesClose, AttemptsClose, MappedClose
  <1>3. ASSUME NEW n \in Attempt, MonitorStep(n) \/ WiresUp(n) \/ WiresGone(n) PROVE TransportInv'
    BY Zenon, <1>3, TypesMonitor, AttemptsMonitor, MappedMonitor
  <1>4. CASE UNCHANGED vars
    BY <1>4 DEF vars, TypeOK, CallTypes, CloseTypes, MapTypes, AttemptInv, MappedInv, MappedIsOpen,
           DeadIsNoticed
  <1> QED
    BY <1>1, <1>2, <1>3, <1>4 DEF Next

\* The invariant behind the theorems below, with the types of the state
\* (PeerTransport::get_or_create_transport and its closers).
THEOREM TransportInvariant == Spec => []TransportInv
  BY InitInv, StepInv, PTL DEF Spec

\* What the map hands out has not been closed by this layer (close_transport,
\* close_all, spawn_ready_monitor).
THEOREM MappedStaysOpen == Spec => []MappedIsOpen
  <1>1. TransportInv => MappedIsOpen
    BY DEF TransportInv, MappedInv
  <1> QED
    BY <1>1, TransportInvariant, PTL

\* A mapped transport without wires has a monitor that will notice
\* (spawn_ready_monitor).
THEOREM DeadOnesAreNoticed == Spec => []DeadIsNoticed
  <1>1. TransportInv => DeadIsNoticed
    BY DEF TransportInv, MappedInv
  <1> QED
    BY <1>1, TransportInvariant, PTL

\* If tells and stream sends stay within their budget, then an entry is
\* Connecting only while its attempt is made or a closer is about to remove it:
\* the clean-up of a request covers every deadline (close_timed_out_request_transport).
THEOREM ConnectingIsOwned ==
  ASSUME Expires \subseteq Request
  PROVE  Spec => []ConnectingHasOwner
  <1>1. TransportInv /\ OwnerInv /\ [Next]_vars => OwnerInv'
    <2> SUFFICES ASSUME TransportInv, OwnerInv, [Next]_vars PROVE OwnerInv'
      OBVIOUS
    <2> USE DEF TransportInv
    <2>1. ASSUME NEW c \in Caller, Start(c) \/ CallStep(c) \/ Deadline(c) PROVE OwnerInv'
      BY <2>1, OwnerCall
    <2>2. ASSUME NEW k \in Closer, AllCancel(k) \/ CloseStep(k) PROVE OwnerInv'
      BY <2>2, OwnerClose
    <2>3. ASSUME NEW n \in Attempt, MonitorStep(n) \/ WiresUp(n) \/ WiresGone(n) PROVE OwnerInv'
      BY Zenon, <2>3, OwnerMonitor
    <2>4. CASE UNCHANGED vars
      BY Zenon, <2>4 DEF vars, OwnerInv, ConnectingHasOwner
    <2> QED
      BY <2>1, <2>2, <2>3, <2>4 DEF Next
  <1>2. OwnerInv => ConnectingHasOwner
    BY DEF OwnerInv
  <1> QED
    BY <1>1, <1>2, InitInv, TransportInvariant, PTL DEF Spec

\* Monitors and guarded clean-ups remove the transport that they are about and
\* no other (close_transport_if_current, spawn_ready_monitor).
THEOREM RemovalIsGuarded == Spec => GuardedRemoval
  <1> DEFINE A == map.st = "Connected" /\ map' # map =>
          /\ \A n \in Attempt : mon'[n] # mon[n] => map.n = n \/ mon'[n] = "spawned"
          /\ \A k \in Closer : kpc[k] = "take" /\ kpc'[k] # "take" => map.n = tgt[k]
  <1>1. TransportInv /\ [Next]_vars => [A]_vars
    <2> SUFFICES ASSUME TransportInv, Next, map.st = "Connected", map' # map PROVE A
      OBVIOUS
    <2> USE DEF TransportInv, TypeOK
    <2>1. ASSUME NEW c \in Caller, Start(c) \/ CallStep(c) \/ Deadline(c) PROVE A
      <3>1. CASE Finish(c)
        <4>1. UNCHANGED closeVars /\ mon' \in {mon, [mon EXCEPT ![at[c]] = "spawned"]}
          BY Zenon, <3>1 DEF Finish
        <4> QED
          BY Zenon, <4>1 DEF closeVars, MapTypes
      <3>2. CASE ~Finish(c)
        BY Zenon, <2>1, <3>2 DEF Start, CallStep, Look, Arm, Wake, WaitTimeout, Slow, StoreToken,
               Create,
               Built, DropToken,
                          Notify, Send, Respond, Deadline, mapVars
      <3> QED
        BY <3>1, <3>2
    <2>2. ASSUME NEW k \in Closer, AllCancel(k) \/ CloseStep(k) PROVE A
      <3>1. mon' = mon
        BY Zenon, <2>2 DEF AllCancel, CloseStep, KGuard, KMark, KInspect, KCancel, KDropConnecting,
               KNotify, KDropConnected,
                    KTake, KClose, CloseTransport, KUnmark, AllDrain, AllMark, transVars
      <3>2. KDropConnecting(k) \/ KDropConnected(k) \/ KTake(k) \/ AllDrain(k)
        BY Zenon, <2>2 DEF AllCancel, CloseStep, KGuard, KMark, KInspect, KCancel, KNotify, KClose,
               KUnmark, AllMark, mapVars
      <3>3. \A j \in Closer : j # k => kpc'[j] = kpc[j]
        BY Zenon, <3>2, ConnectedEntry DEF KDropConnecting, KDropConnected, KTake, AllDrain, KGoto,
               KGotoAt, KReturn, CloseTypes
      <3>4. kpc[k] = "take" => map = Connected(tgt[k]) /\ tgt[k] \in Nat
        BY Zenon, <3>2 DEF KDropConnecting, KDropConnected, KTake, AllDrain, CloseTypes
      <3>5. kpc[k] = "take" => map.n = tgt[k]
        BY Zenon, <3>4, Entries
      <3> QED
        BY <3>1, <3>3, <3>5
    <2>3. ASSUME NEW n \in Attempt, MonitorStep(n) \/ WiresUp(n) \/ WiresGone(n) PROVE A
      <3>1. UNCHANGED closeVars /\ map = Connected(n) /\ \A i \in Attempt : i # n => mon'[i] = mon[i]
        BY Zenon, <2>3 DEF MonitorStep, MonStart, MonStep, MonClose, WiresUp, WiresGone, mapVars,
               MapTypes
      <3>2. map.n = n
        BY <3>1 DEF Connected
      <3> QED
        BY <3>1, <3>2 DEF closeVars
    <2> QED
      BY Zenon, <2>1, <2>2, <2>3 DEF Next
  <1>2. GuardedRemoval <=> [][A]_vars
    BY Zenon DEF GuardedRemoval
  <1> QED
    BY <1>1, <1>2, TransportInvariant, PTL DEF Spec

-----------------------------------------------------------------------------
(* The pool of wires under a transport: the watch tells the truth, no sender *)
(* sleeps through a wire that became ready, and an eviction only hits a wire *)
(* that is gone.  The argument is the inductive invariant PoolInv.           *)

LEMMA WireFields ==
  ASSUME NEW w \in Wire
  PROVE  /\ w.type \in ConnType /\ w.gen \in 1..Gens[w.type]
         /\ w = [type |-> w.type, gen |-> w.gen]
  BY DEF Wire, ConnType

LEMMA WireOf ==
  ASSUME NEW t \in ConnType, NEW g \in 1..Gens[t]
  PROVE  [type |-> t, gen |-> g] \in Wire
  BY DEF Wire

\* A Ready slot holds a wire.
LEMMA SlotHolds ==
  ASSUME PoolTypeOK, NEW t \in ConnType, IsReady(t)
  PROVE  [type |-> t, gen |-> slot[t].gen] \in Wire
  BY Zenon, WireOf DEF PoolTypeOK, PoolTypes

LEMMA PoolInitInv == PoolInit => PoolInv
  <1> SUFFICES ASSUME PoolInit PROVE PoolInv
    OBVIOUS
  <1>1. PICK built \in SUBSET ConnType \ {{}} :
          /\ slot = [t \in ConnType |-> IF t \in built THEN Slot("Connecting", 0) ELSE Slot("None", 0)]
          /\ task = [w \in Wire |-> IF w.type \in built /\ w.gen = 1 THEN "top" ELSE "unborn"]
          /\ wire = [w \in Wire |-> IF w.type \in built /\ w.gen = 1 THEN Born(w.type) ELSE "none"]
    BY Zenon DEF PoolInit
  <1>2. \A t \in ConnType : ~IsReady(t)
    BY Zenon, <1>1 DEF IsReady, Slot
  <1>3. PoolTypeOK
    <2>1. PoolTypes
      BY Zenon, <1>1, <1>2 DEF PoolInit, PoolTypes, Slot, Born
    <2>2. SendTypes
      BY Zenon DEF PoolInit, SendTypes
    <2>3. CloserTypes
      BY DEF PoolInit, CloserTypes
    <2> QED
      BY <2>1, <2>2, <2>3 DEF PoolTypeOK
  <1>4. ReadyExact
    BY Zenon, <1>2 DEF PoolInit, ReadyExact, ReadySet
  <1>5. \A w \in Wire :
          /\ task[w] = "unborn" => wire[w] = "none"
          /\ task[w] \in {"top", "sleep", "dial"} => wire[w] # "none"
          /\ w.type = "WebRTC" => wire[w] # "built"
          /\ task[w] # "won"
    BY <1>1 DEF Born
  <1> QED
    BY Zenon, <1>2, <1>3, <1>4, <1>5 DEF PoolInit, PoolInv, SampleLatest, TaskWires, HeldWires

-----------------------------------------------------------------------------
(* Types *)

LEMMA TypesTask ==
  ASSUME PoolTypeOK, NEW w \in Wire, TaskStep(w) \/ Reconnect(w) \/ WireDies(w)
  PROVE  PoolTypeOK'
  <1> USE DEF Task, TaskEnd, PoolTypeOK
  <1>1. CloserTypes'
    BY Zenon DEF TaskStep, TaskTop, TaskAwake, DialOk, DialErr, TaskWrite, TaskAnnounce, Reconnect,
           WireDies, closerVars, CloserTypes
  <1>2. SendTypes'
    BY Zenon DEF TaskStep, TaskTop, TaskAwake, DialOk, DialErr, TaskWrite, TaskAnnounce, Reconnect,
           WireDies, Broadcast, sendVars, SendTypes
  <1>3. PoolTypes'
    <2> USE WireFields DEF IsReady
    <2>1. CASE TaskTop(w)
      BY <2>1 DEF PoolTypes, TaskTop
    <2>2. CASE TaskAwake(w)
      <3>1. CASE TaskEnd(w)
        BY Zenon, <2>2, <3>1 DEF PoolTypes, TaskAwake
      <3>2. CASE Task(w, "dial") /\ UNCHANGED tries
        BY Zenon, <2>2, <3>2 DEF PoolTypes, TaskAwake
      <3> QED
        BY Zenon, <2>2, <3>1, <3>2 DEF TaskAwake
    <2>3. CASE DialOk(w)
      BY Zenon, <2>3 DEF PoolTypes, DialOk
    <2>4. CASE DialErr(w)
      BY <2>4 DEF PoolTypes, DialErr
    <2>5. CASE TaskWrite(w)
      BY <2>5 DEF PoolTypes, TaskWrite, Slot
    <2>6. CASE TaskAnnounce(w)
      BY Zenon, <2>6 DEF PoolTypes, TaskAnnounce, Broadcast, ReadySet
    <2>7. CASE Reconnect(w)
      BY Zenon, <2>7 DEF PoolTypes, Reconnect, Slot, Born
    <2>8. CASE WireDies(w)
      BY Zenon, <2>8 DEF PoolTypes, WireDies
    <2> QED
      BY Zenon, <2>1, <2>2, <2>3, <2>4, <2>5, <2>6, <2>7, <2>8 DEF TaskStep
  <1> QED
    BY <1>1, <1>2, <1>3

\* The ways in which a sender goes on.
LEMMA GoTypes ==
  ASSUME SendTypes, NEW s \in Sender,
         NEW to \in {"idle", "again", "try", "lane", "relane", "evict", "evicted", "tried", "checked", "wait"},
         Go(s, to)
  PROVE  SendTypes'
  BY Zenon DEF SendTypes, Go, SGoto

LEMMA PoolReturnTypes ==
  ASSUME SendTypes, NEW s \in Sender, SendReturn(s)
  PROVE  SendTypes'
  BY Zenon DEF SendTypes, SendReturn, SGoto

LEMMA NextLaneTypes ==
  ASSUME SendTypes, NEW s \in Sender, NextLane(s)
  PROVE  SendTypes'
  BY DEF SendTypes, NextLane, SGoto

LEMMA TypesSend ==
  ASSUME PoolTypeOK, NEW s \in Sender, SendStep(s) \/ Sample(s)
  PROVE  PoolTypeOK'
  <1> USE DEF PoolTypeOK
  <1>1. CloserTypes'
    BY Zenon DEF SendStep, Sample, Try, LaneSent, LaneErr, Relane, Evict, EvictAnnounce,
           CheckClosed, CheckLive, SendWake, closerVars, CloserTypes
  <1>2. PoolTypes'
    <2>1. CASE Evict(s)
      BY <2>1 DEF Evict, PoolTypes, Slot, IsReady
    <2>2. CASE EvictAnnounce(s)
      BY Zenon, <2>2 DEF EvictAnnounce, Broadcast, ReadySet, PoolTypes, IsReady
    <2>3. CASE UNCHANGED poolVars
      BY Zenon, <2>3 DEF poolVars, PoolTypes, IsReady
    <2> QED
      BY Zenon, <2>1, <2>2, <2>3 DEF SendStep, Sample, Try, LaneSent, LaneErr, Relane, CheckClosed,
             CheckLive, SendWake
  <1>3. SendTypes'
    <2>1. CASE Sample(s)
      BY <2>1 DEF SendTypes, PoolTypes, Sample, SGoto
    <2>2. CASE Try(s)
      <3> DEFINE t == Lanes[lane[s]]
      <3>1. t \in snap[s] /\ IsReady(t) => [type |-> t, gen |-> slot[t].gen] \in Wire
        BY Zenon, SlotHolds DEF SendTypes
      <3>2. CASE t \in snap[s] /\ IsReady(t)
        <4> HIDE DEF t
        <4> QED
          BY Zenon, <2>2, <3>1, <3>2 DEF SendTypes, Try, SGoto, t
      <3>3. CASE ~(t \in snap[s] /\ IsReady(t))
        BY Zenon, <2>2, <3>3, NextLaneTypes DEF Try
      <3> QED
        BY Zenon, <3>2, <3>3
    <2>3. CASE LaneSent(s) \/ Relane(s)
      BY <2>3, PoolReturnTypes, GoTypes DEF LaneSent, Relane
    <2>4. CASE LaneErr(s)
      BY Zenon, <2>4, NextLaneTypes, GoTypes DEF LaneErr
    <2>5. CASE Evict(s) \/ EvictAnnounce(s)
      BY Zenon, <2>5 DEF SendTypes, Evict, EvictAnnounce, Broadcast, SGoto
    <2>6. CASE CheckClosed(s) \/ CheckLive(s) \/ SendWake(s)
      BY Zenon, <2>6, PoolReturnTypes, GoTypes DEF CheckClosed, CheckLive, SendWake
    <2> QED
      BY Zenon, <2>1, <2>2, <2>3, <2>4, <2>5, <2>6 DEF SendStep
  <1> QED
    BY Zenon, <1>1, <1>2, <1>3

LEMMA PoolTypesClose ==
  ASSUME PoolTypeOK, NEW c \in PoolCloser, CloserStep(c) \/ CloseBegin(c)
  PROVE  PoolTypeOK'
  <1> USE DEF CGoto, PoolTypeOK
  <1>1. SendTypes'
    BY Zenon DEF CloserStep, CloseBegin, CloseGet, CloseWire, CloseMark, CloseAnnounce, CloseFlag,
           CloseClear, Broadcast, sendVars, SendTypes
  <1>2. PoolTypes'
    <2> USE DEF IsReady, PoolTypes
    <2>1. CASE CloseWire(c)
      BY Zenon, <2>1 DEF CloseWire
    <2>2. CASE CloseMark(c)
      BY Zenon, <2>2 DEF CloseMark, Slot
    <2>3. CASE CloseAnnounce(c)
      BY Zenon, <2>3 DEF CloseAnnounce, Broadcast, ReadySet
    <2>4. CASE CloseFlag(c)
      BY <2>4 DEF CloseFlag
    <2>5. CASE CloseClear(c)
      BY Zenon, <2>5 DEF CloseClear, Broadcast, Slot
    <2>6. CASE UNCHANGED poolVars
      BY Zenon, <2>6 DEF poolVars
    <2> QED
      BY Zenon, <2>1, <2>2, <2>3, <2>4, <2>5, <2>6 DEF CloserStep, CloseBegin, CloseGet
  <1>3. CloserTypes'
    <2>1. CASE CloseBegin(c)
      <3>1. \A what : CloseOrder(what) \in Seq(ConnType)
        <4>1. <<"WebRTC">> \in Seq(ConnType)
          BY DEF ConnType
        <4>2. <<"WebSocket", "WebRTC">> \in Seq(ConnType)
          BY DEF ConnType
        <4> QED
          BY <4>1, <4>2 DEF CloseOrder
      <3> QED
        BY <2>1, <3>1 DEF CloserTypes, CloseBegin
    <2>2. CASE CloseGet(c) /\ ctodo[c] = <<>>
      BY Zenon, <2>2 DEF CloserTypes, CloseGet
    <2>3. CASE CloseGet(c) /\ ctodo[c] # <<>>
      <3>1. Head(ctodo[c]) \in ConnType /\ Tail(ctodo[c]) \in Seq(ConnType)
        BY <2>3 DEF CloserTypes
      <3>2. IsReady(Head(ctodo[c])) => [type |-> Head(ctodo[c]), gen |-> slot[Head(ctodo[c])].gen] \in Wire
        BY Zenon, <3>1, SlotHolds
      <3>3. ctodo' \in [PoolCloser -> Seq(ConnType)]
        BY Zenon, <2>3, <3>1 DEF CloserTypes, CloseGet
      <3>4. /\ cpc' \in {cpc, [cpc EXCEPT ![c] = "close"]}
            /\ chold' \in {chold, [chold EXCEPT ![c] = [type |-> Head(ctodo[c]), gen |-> slot[Head(ctodo[c])].gen]]}
            /\ chold' # chold => IsReady(Head(ctodo[c]))
        BY Zenon, <2>3 DEF CloseGet
      <3> QED
        BY Zenon, <3>2, <3>3, <3>4 DEF CloserTypes
    <2>4. CASE CloseWire(c) \/ CloseMark(c) \/ CloseAnnounce(c) \/ CloseFlag(c) \/ CloseClear(c)
      BY Zenon, <2>4 DEF CloserTypes, CloseWire, CloseMark, CloseAnnounce, CloseFlag, CloseClear
    <2> QED
      BY Zenon, <2>1, <2>2, <2>3, <2>4 DEF CloserStep
  <1> QED
    BY Zenon, <1>1, <1>2, <1>3

-----------------------------------------------------------------------------
(* The watch and the slots *)

\* A broadcast leaves the watch as the slots are.
LEMMA BroadcastExact ==
  ASSUME Broadcast(ReadySet), UNCHANGED slot
  PROVE  ReadyExact'
  BY Zenon DEF Broadcast, ReadyExact, ReadySet, IsReady

LEMMA ExactTask ==
  ASSUME PoolTypeOK, ReadyExact, NEW w \in Wire, TaskStep(w) \/ Reconnect(w) \/ WireDies(w)
  PROVE  ReadyExact'
  <1> USE DEF PoolTypeOK, PoolTypes
  <1>1. CASE TaskAnnounce(w)
    BY Zenon, <1>1, BroadcastExact DEF TaskAnnounce
  <1>2. CASE TaskWrite(w)
    <2>1. task'[w] = "announce"
      BY <1>2 DEF TaskWrite, Task
    <2> QED
      BY Zenon, <2>1 DEF ReadyExact, Owed
  <1>3. CASE Reconnect(w)
    <2>1. ReadySet' = ReadySet
      BY Zenon, <1>3, WireFields DEF Reconnect, Slot, ReadySet, IsReady
    <2>2. Owed => Owed'
      BY <1>3 DEF Reconnect, Task, Owed, sendVars, closerVars
    <2> QED
      BY Zenon, <1>3, <2>1, <2>2 DEF ReadyExact, Reconnect
  <1>4. CASE TaskTop(w) \/ TaskAwake(w) \/ DialOk(w) \/ DialErr(w) \/ WireDies(w)
    <2>1. UNCHANGED <<slot, watch, sendVars, closerVars>>
      BY Zenon, <1>4 DEF TaskTop, TaskAwake, DialOk, DialErr, WireDies
    <2>2. \A v \in Wire : task[v] = "announce" => task'[v] = "announce"
      BY Zenon, <1>4 DEF TaskTop, TaskAwake, DialOk, DialErr, WireDies, Task, TaskEnd
    <2> QED
      BY Zenon, <2>1, <2>2 DEF ReadyExact, ReadySet, IsReady, Owed, sendVars, closerVars
  <1> QED
    BY Zenon, <1>1, <1>2, <1>3, <1>4 DEF TaskStep

LEMMA ExactSend ==
  ASSUME PoolTypeOK, ReadyExact, NEW s \in Sender, SendStep(s) \/ Sample(s)
  PROVE  ReadyExact'
  <1> USE DEF PoolTypeOK, SendTypes
  <1>1. CASE EvictAnnounce(s)
    BY Zenon, <1>1, BroadcastExact DEF EvictAnnounce
  <1>2. CASE Evict(s)
    <2>1. CASE spc'[s] = "evicted"
      BY Zenon, <2>1 DEF ReadyExact, Owed
    <2>2. CASE UNCHANGED slot /\ SGoto(s, "again")
      <3>1. \A r \in Sender : spc[r] = "evicted" => spc'[r] = "evicted"
        BY Zenon, <1>2, <2>2 DEF Evict, SGoto
      <3> QED
        BY Zenon, <1>2, <2>2, <3>1 DEF Evict, ReadyExact, ReadySet, IsReady, Owed, closerVars
    <2> QED
      BY Zenon, <1>2, <2>1, <2>2 DEF Evict, SGoto
  <1>3. CASE UNCHANGED <<poolVars, closerVars>> /\ spc[s] # "evicted" /\ \A r \in Sender : r # s => spc'[r] = spc[r]
    BY Zenon, <1>3 DEF ReadyExact, ReadySet, IsReady, Owed, poolVars, closerVars
  <1>4. CASE Sample(s) \/ Try(s) \/ LaneSent(s) \/ LaneErr(s) \/ Relane(s)
    BY Zenon, <1>3, <1>4 DEF Sample, Try, LaneSent, LaneErr, Relane, Go, SendReturn, NextLane, SGoto
  <1>5. CASE CheckClosed(s) \/ CheckLive(s) \/ SendWake(s)
    BY Zenon, <1>3, <1>5 DEF CheckClosed, CheckLive, SendWake, Go, SendReturn, SGoto
  <1> QED
    BY <1>1, <1>2, <1>4, <1>5 DEF SendStep

LEMMA ExactClose ==
  ASSUME PoolTypeOK, ReadyExact, NEW c \in PoolCloser, CloserStep(c) \/ CloseBegin(c)
  PROVE  ReadyExact'
  <1> USE DEF PoolTypeOK, CloserTypes
  <1>1. CASE CloseAnnounce(c)
    BY Zenon, <1>1, BroadcastExact DEF CloseAnnounce
  <1>2. CASE CloseMark(c)
    <2>1. cpc'[c] = "announce"
      BY Zenon, <1>2 DEF CloseMark, CGoto
    <2> QED
      BY Zenon, <2>1 DEF ReadyExact, Owed
  <1>3. CASE CloseClear(c)
    BY Zenon, <1>3 DEF CloseClear, Broadcast, ReadyExact, ReadySet, IsReady, Slot
  <1>4. CASE CloseBegin(c) \/ CloseGet(c) \/ CloseWire(c) \/ CloseFlag(c)
    <2>1. UNCHANGED <<slot, watch, task, sendVars>>
      BY Zenon, <1>4 DEF CloseBegin, CloseGet, CloseWire, CloseFlag, poolVars
    <2>2. \A d \in PoolCloser : cpc[d] = "announce" => cpc'[d] = "announce"
      BY Zenon, <1>4 DEF CloseBegin, CloseGet, CloseWire, CloseFlag, CGoto
    <2> QED
      BY Zenon, <2>1, <2>2 DEF ReadyExact, ReadySet, IsReady, Owed, sendVars
  <1> QED
    BY <1>1, <1>2, <1>3, <1>4 DEF CloserStep

\* A sender samples the watch as it is, and every broadcast outdates all samples.
LEMMA SampleKept ==
  ASSUME PoolTypeOK, SampleLatest, PoolNext
  PROVE  SampleLatest'
  <1> USE DEF PoolTypeOK, SendTypes
  <1>1. CASE \E set : Broadcast(set)
    BY Zenon, <1>1 DEF Broadcast, SampleLatest
  <1>2. CASE UNCHANGED <<watch, seen, snap>>
    BY Zenon, <1>2 DEF SampleLatest
  <1>3. ASSUME NEW s \in Sender, Sample(s) PROVE SampleLatest'
    BY Zenon, <1>3 DEF Sample, SampleLatest, poolVars
  <1>4. ASSUME NEW s \in Sender, SendReturn(s), UNCHANGED poolVars PROVE SampleLatest'
    BY <1>4 DEF SendReturn, SampleLatest, poolVars
  <1>5. ASSUME NEW w \in Wire, TaskStep(w) \/ Reconnect(w) \/ WireDies(w) PROVE SampleLatest'
    BY Zenon, <1>1, <1>2, <1>5 DEF TaskStep, TaskTop, TaskAwake, DialOk, DialErr, TaskWrite,
           TaskAnnounce, Reconnect, WireDies, sendVars
  <1>6. ASSUME NEW s \in Sender, SendStep(s) PROVE SampleLatest'
    BY Zenon, <1>1, <1>2, <1>3, <1>4, <1>6 DEF SendStep, Try, LaneSent, LaneErr, Relane, Evict,
           EvictAnnounce, CheckClosed, CheckLive, SendWake, Go, NextLane, poolVars
  <1>7. ASSUME NEW c \in PoolCloser, CloserStep(c) \/ CloseBegin(c) PROVE SampleLatest'
    BY Zenon, <1>1, <1>2, <1>7 DEF CloserStep, CloseBegin, CloseGet, CloseWire, CloseMark,
           CloseAnnounce, CloseFlag, CloseClear, poolVars, sendVars
  <1> QED
    BY Zenon, <1>3, <1>5, <1>6, <1>7 DEF PoolNext

-----------------------------------------------------------------------------
(* The wires *)

\* A wire that has been up stays so, and is never up again once it is down.
Ages == \A w \in Wire : wire[w] \in WasUp =>
          wire'[w] \in WasUp /\ (wire[w] # "open" => wire'[w] # "open")

LEMMA WiresTask ==
  ASSUME PoolTypeOK, TaskWires, HeldWires, NEW w \in Wire,
         TaskStep(w) \/ Reconnect(w) \/ WireDies(w)
  PROVE  TaskWires' /\ Ages
  <1> USE DEF PoolTypeOK, PoolTypes, Task, TaskEnd
  <1>1. CASE TaskTop(w) \/ TaskAwake(w) \/ DialErr(w) \/ TaskWrite(w) \/ TaskAnnounce(w)
    <2>1. wire' = wire
      BY Zenon, <1>1 DEF TaskTop, TaskAwake, DialErr, TaskWrite, TaskAnnounce
    <2>2. \A v \in Wire :
            \/ task'[v] = task[v]
            \/ /\ task[v] \in {"top", "sleep", "dial"}
               /\ task'[v] \in {"top", "sleep", "dial", "lost", "done"}
            \/ task'[v] \in {"announce", "done"}
      BY Zenon, <1>1 DEF TaskTop, TaskAwake, DialErr, TaskWrite, TaskAnnounce
    <2> QED
      BY Zenon, <2>1, <2>2 DEF TaskWires, Ages
  <1>2. CASE DialOk(w)
    BY Zenon, <1>2, WireFields DEF DialOk, TaskWires, Ages, WasUp
  <1>3. CASE Reconnect(w)
    BY Zenon, <1>3, WireFields DEF Reconnect, Born, TaskWires, Ages, WasUp
  <1>4. CASE WireDies(w)
    BY <1>4 DEF WireDies, TaskWires, Ages, WasUp
  <1> QED
    BY Zenon, <1>1, <1>2, <1>3, <1>4 DEF TaskStep

LEMMA WiresClose ==
  ASSUME PoolTypeOK, TaskWires, HeldWires, NEW c \in PoolCloser, CloserStep(c) \/ CloseBegin(c)
  PROVE  TaskWires' /\ Ages
  <1>1. CASE CloseWire(c)
    <2>1. chold[c] \in Wire /\ wire[chold[c]] \in WasUp
      BY Zenon, <1>1 DEF CloseWire, HeldWires
    <2>2. /\ task' = task
          /\ wire'[chold[c]] = "closed"
          /\ \A v \in Wire : v # chold[c] => wire'[v] = wire[v]
      BY Zenon, <1>1, <2>1 DEF CloseWire, PoolTypeOK, PoolTypes
    <2> QED
      BY Zenon, <2>1, <2>2 DEF TaskWires, Ages, WasUp
  <1>2. CASE UNCHANGED <<task, wire>>
    BY Zenon, <1>2 DEF TaskWires, Ages
  <1> QED
    BY Zenon, <1>1, <1>2 DEF CloserStep, CloseBegin, CloseGet, CloseMark, CloseAnnounce, CloseFlag,
           CloseClear, poolVars

LEMMA WiresSend ==
  ASSUME TaskWires, NEW s \in Sender, SendStep(s) \/ Sample(s)
  PROVE  TaskWires' /\ Ages
  <1>1. UNCHANGED <<task, wire>>
    BY Zenon DEF SendStep, Sample, Try, LaneSent, LaneErr, Relane, Evict, EvictAnnounce,
           CheckClosed, CheckLive, SendWake, poolVars
  <1> QED
    BY <1>1 DEF TaskWires, Ages

\* Slots change hands, nobody else takes or leaves a wire.
LEMMA HeldTask ==
  ASSUME PoolTypeOK, TaskWires, HeldWires, Ages, NEW w \in Wire,
         TaskStep(w) \/ Reconnect(w) \/ WireDies(w)
  PROVE  HeldWires'
  <1>1. UNCHANGED <<spc, hold, closerVars>>
    BY Zenon DEF TaskStep, TaskTop, TaskAwake, DialOk, DialErr, TaskWrite, TaskAnnounce, Reconnect,
           WireDies, sendVars
  <1>2. \A t \in ConnType : IsReady(t)' => \/ IsReady(t) /\ slot'[t] = slot[t]
                                           \/ t = w.type /\ task[w] = "won" /\ slot'[t].gen = w.gen
    <2>1. CASE TaskWrite(w)
      BY Zenon, <2>1, WireFields DEF TaskWrite, Slot, IsReady, PoolTypeOK, PoolTypes
    <2>2. CASE Reconnect(w)
      BY <2>2, WireFields DEF Reconnect, Slot, IsReady, PoolTypeOK, PoolTypes
    <2>3. CASE UNCHANGED slot
      BY Zenon, <2>3 DEF IsReady
    <2> QED
      BY Zenon, <2>1, <2>2, <2>3 DEF TaskStep, TaskTop, TaskAwake, DialOk, DialErr, TaskAnnounce,
             WireDies
  <1>3. ASSUME NEW t \in ConnType, IsReady(t)'
        PROVE  wire'[[type |-> t, gen |-> slot'[t].gen]] \in WasUp
    <2>1. CASE IsReady(t) /\ slot'[t] = slot[t]
      BY Zenon, <2>1, SlotHolds DEF HeldWires, Ages
    <2>2. CASE t = w.type /\ task[w] = "won" /\ slot'[t].gen = w.gen
      <3>1. [type |-> t, gen |-> slot'[t].gen] = w
        BY Zenon, <2>2, WireFields
      <3> QED
        BY <2>2, <3>1 DEF TaskWires, Ages
    <2> QED
      BY Zenon, <1>2, <1>3, <2>1, <2>2
  <1> QED
    BY <1>1, <1>3 DEF HeldWires, Ages, closerVars

LEMMA HeldClose ==
  ASSUME PoolTypeOK, HeldWires, Ages, NEW c \in PoolCloser, CloserStep(c) \/ CloseBegin(c)
  PROVE  HeldWires'
  <1>1. UNCHANGED <<spc, hold>>
    BY Zenon DEF CloserStep, CloseBegin, CloseGet, CloseWire, CloseMark, CloseAnnounce, CloseFlag,
           CloseClear, sendVars
  <1>2. \A t \in ConnType : IsReady(t)' => IsReady(t) /\ slot'[t] = slot[t]
    <2>1. CASE CloseMark(c) \/ CloseClear(c)
      BY <2>1 DEF CloseMark, CloseClear, Slot, IsReady, PoolTypeOK, PoolTypes
    <2>2. CASE UNCHANGED slot
      BY <2>2 DEF IsReady
    <2> QED
      BY Zenon, <2>1, <2>2 DEF CloserStep, CloseBegin, CloseGet, CloseWire, CloseAnnounce,
             CloseFlag, poolVars
  <1>3. ASSUME NEW t \in ConnType, IsReady(t)'
        PROVE  wire'[[type |-> t, gen |-> slot'[t].gen]] \in WasUp
    BY Zenon, <1>2, <1>3, SlotHolds DEF HeldWires, Ages
  <1>4. ASSUME NEW d \in PoolCloser, cpc'[d] = "close"
        PROVE  chold'[d] \in Wire /\ wire'[chold'[d]] \in WasUp
    <2>1. CASE cpc[d] = "close" /\ chold'[d] = chold[d]
      BY Zenon, <2>1 DEF HeldWires, Ages
    <2>2. CASE CloseGet(c) /\ d = c
      <3>1. ctodo[c] # <<>> /\ IsReady(Head(ctodo[c]))
            /\ chold'[c] = [type |-> Head(ctodo[c]), gen |-> slot[Head(ctodo[c])].gen]
        BY Zenon, <1>4, <2>2 DEF CloseGet, CGoto, PoolTypeOK, CloserTypes
      <3>2. Head(ctodo[c]) \in ConnType
        BY <3>1 DEF PoolTypeOK, CloserTypes
      <3> QED
        BY Zenon, <2>2, <3>1, <3>2, SlotHolds DEF HeldWires, Ages
    <2> QED
      BY Zenon, <1>4, <2>1, <2>2 DEF CloserStep, CloseBegin, CloseGet, CloseWire, CloseMark,
             CloseAnnounce, CloseFlag, CloseClear, CGoto, PoolTypeOK, CloserTypes
  <1> QED
    BY Zenon, <1>1, <1>3, <1>4 DEF HeldWires, Ages

LEMMA HeldSend ==
  ASSUME PoolTypeOK, TaskWires, HeldWires, Ages, NEW s \in Sender, SendStep(s) \/ Sample(s)
  PROVE  HeldWires'
  <1>1. UNCHANGED <<wire, closerVars>>
    BY Zenon DEF SendStep, Sample, Try, LaneSent, LaneErr, Relane, Evict, EvictAnnounce,
           CheckClosed, CheckLive, SendWake, poolVars
  <1>2. \A t \in ConnType : IsReady(t)' => IsReady(t) /\ slot'[t] = slot[t]
    <2>1. CASE Evict(s)
      BY <2>1 DEF Evict, Slot, IsReady, PoolTypeOK, PoolTypes
    <2>2. CASE UNCHANGED slot
      BY Zenon, <2>2 DEF IsReady
    <2> QED
      BY Zenon, <2>1, <2>2 DEF SendStep, Sample, Try, LaneSent, LaneErr, Relane, EvictAnnounce,
             CheckClosed, CheckLive, SendWake, poolVars
  <1>3. \A t \in ConnType : IsReady(t)' => wire'[[type |-> t, gen |-> slot'[t].gen]] \in WasUp
    BY <1>1, <1>2 DEF HeldWires
  <1>4. \A r \in Sender : r # s => spc'[r] = spc[r] /\ hold'[r] = hold[r]
    BY Zenon DEF SendStep, Sample, Try, LaneSent, LaneErr, Relane, Evict, EvictAnnounce,
           CheckClosed, CheckLive, SendWake, Go, SendReturn, NextLane, SGoto, PoolTypeOK, SendTypes
  <1>5. /\ spc'[s] \in {"lane", "relane", "evict"} => hold'[s] \in Wire /\ wire[hold'[s]] \in WasUp
        /\ spc'[s] = "evict" => wire[hold'[s]] # "open"
    <2> USE DEF PoolTypeOK, SendTypes
    <2>1. CASE Try(s)
      <3> DEFINE t == Lanes[lane[s]]
      <3>1. CASE t \in snap[s] /\ IsReady(t)
        <4>1. t \in ConnType
          BY Zenon, <3>1
        <4>2. [type |-> t, gen |-> slot[t].gen] \in Wire /\ wire[[type |-> t, gen |-> slot[t].gen]] \in WasUp
          BY Zenon, <3>1, <4>1, SlotHolds DEF HeldWires
        <4>3. hold'[s] = [type |-> t, gen |-> slot[t].gen] /\ spc'[s] = "lane"
          BY Zenon, <2>1, <3>1 DEF Try, SGoto
        <4> QED
          BY Zenon, <4>2, <4>3
      <3>2. CASE ~(t \in snap[s] /\ IsReady(t))
        BY Zenon, <2>1, <3>2 DEF Try, NextLane, SGoto
      <3> QED
        BY Zenon, <3>1, <3>2
    <2>2. CASE LaneSent(s)
      BY Zenon, <2>2 DEF LaneSent, SendReturn, Go, SGoto, HeldWires
    <2>3. CASE LaneErr(s) \/ Relane(s)
      BY Zenon, <2>3 DEF LaneErr, Relane, Evicts, SendReturn, Go, NextLane, SGoto, HeldWires
    <2>4. CASE Sample(s) \/ Evict(s) \/ EvictAnnounce(s) \/ CheckClosed(s) \/ CheckLive(s) \/ SendWake(s)
      <3>1. spc'[s] \notin {"lane", "relane", "evict"}
        BY Zenon, <2>4 DEF Sample, Evict, EvictAnnounce, CheckClosed, CheckLive, SendWake,
               SendReturn, Go, SGoto
      <3> QED
        BY Zenon, <3>1
    <2> QED
      BY Zenon, <2>1, <2>2, <2>3, <2>4 DEF SendStep
  <1> QED
    BY Zenon, <1>1, <1>3, <1>4, <1>5 DEF HeldWires, closerVars

-----------------------------------------------------------------------------
(* The theorems *)

LEMMA PoolStepInv == PoolInv /\ [PoolNext]_wireVars => PoolInv'
  <1> SUFFICES ASSUME PoolInv, [PoolNext]_wireVars PROVE PoolInv'
    OBVIOUS
  <1> USE DEF PoolInv
  <1>1. ASSUME NEW w \in Wire, TaskStep(w) \/ Reconnect(w) \/ WireDies(w), PoolNext PROVE PoolInv'
    BY Zenon, <1>1, TypesTask, ExactTask, SampleKept, WiresTask, HeldTask
  <1>2. ASSUME NEW s \in Sender, SendStep(s) \/ Sample(s), PoolNext PROVE PoolInv'
    BY <1>2, TypesSend, ExactSend, SampleKept, WiresSend, HeldSend
  <1>3. ASSUME NEW c \in PoolCloser, CloserStep(c) \/ CloseBegin(c), PoolNext PROVE PoolInv'
    BY Zenon, <1>3, PoolTypesClose, ExactClose, SampleKept, WiresClose, HeldClose
  <1>4. CASE UNCHANGED wireVars
    BY <1>4 DEF wireVars, PoolTypeOK, PoolTypes, SendTypes, CloserTypes, ReadyExact, ReadySet,
           IsReady, Owed,
                SampleLatest, TaskWires, HeldWires
  <1> QED
    BY Zenon, <1>1, <1>2, <1>3, <1>4 DEF PoolNext

\* The invariant behind the theorems below, with the types of the pool's state
\* (WirePool and DestTransport::send_with_identity).
THEOREM PoolInvariant == PoolSpec => []PoolInv
  BY PoolInitInv, PoolStepInv, PTL DEF PoolSpec

\* The watch differs from the slots only while a writer still has to broadcast
\* (broadcast_ready_connections).
THEOREM WatchIsExact == PoolSpec => []ReadyExact
  <1>1. PoolInv => ReadyExact
    BY DEF PoolInv
  <1> QED
    BY <1>1, PoolInvariant, PTL

\* No sender sleeps through a wire that became ready (send_with_identity).
THEOREM NoWireIsMissed == PoolSpec => []NoMissedWire
  <1>1. PoolInv => NoMissedWire
    BY DEF PoolInv, ReadyExact, SampleLatest, NoMissedWire
  <1> QED
    BY <1>1, PoolInvariant, PTL

\* A sender only fails a slot whose wire is gone (mark_connection_closed_if_same).
THEOREM EvictionHitsDead == PoolSpec => EvictsDead
  <1> DEFINE A == \A s \in Sender, t \in ConnType :
          spc[s] = "evict" /\ spc'[s] # "evict" /\ slot[t].st = "Ready" /\ slot'[t].st # "Ready"
             => wire[[type |-> t, gen |-> slot[t].gen]] # "open"
  <1>1. PoolInv /\ [PoolNext]_wireVars => [A]_wireVars
    <2> SUFFICES ASSUME PoolInv, PoolNext, NEW s \in Sender, NEW t \in ConnType,
                        spc[s] = "evict", spc'[s] # "evict", slot[t].st = "Ready", slot'[t].st # "Ready"
                 PROVE  wire[[type |-> t, gen |-> slot[t].gen]] # "open"
      OBVIOUS
    <2>1. ASSUME NEW w \in Wire, TaskStep(w) \/ Reconnect(w) \/ WireDies(w) PROVE spc' = spc
      BY Zenon, <2>1 DEF TaskStep, TaskTop, TaskAwake, DialOk, DialErr, TaskWrite, TaskAnnounce,
             Reconnect, WireDies, sendVars
    <2>2. ASSUME NEW c \in PoolCloser, CloserStep(c) \/ CloseBegin(c) PROVE spc' = spc
      BY Zenon, <2>2 DEF CloserStep, CloseBegin, CloseGet, CloseWire, CloseMark, CloseAnnounce,
             CloseFlag, CloseClear, sendVars
    <2>3. ASSUME NEW r \in Sender, SendStep(r) \/ Sample(r), r # s PROVE spc'[s] = spc[s]
      BY Zenon, <2>3 DEF SendStep, Sample, Try, LaneSent, LaneErr, Relane, Evict, EvictAnnounce,
             CheckClosed, CheckLive,
                  SendWake, Go, SendReturn, NextLane, SGoto, PoolInv, PoolTypeOK, SendTypes
    <2>4. SendStep(s) \/ Sample(s)
      BY Zenon, <2>1, <2>2, <2>3 DEF PoolNext
    <2>5. Evict(s)
      BY Zenon, <2>4 DEF SendStep, Sample, Try, LaneSent, LaneErr, Relane, EvictAnnounce,
             CheckClosed, CheckLive, SendWake
    <2>6. t = hold[s].type /\ slot[t].gen = hold[s].gen
      BY Zenon, <2>5 DEF Evict, PoolInv, PoolTypeOK, PoolTypes
    <2>7. hold[s] \in Wire /\ wire[hold[s]] # "open"
      BY Zenon DEF PoolInv, HeldWires
    <2> QED
      BY Zenon, <2>6, <2>7, WireFields
  <1>2. EvictsDead <=> [][A]_wireVars
    BY Zenon DEF EvictsDead
  <1> QED
    BY <1>1, <1>2, PoolInvariant, PTL DEF PoolSpec
=============================================================================
