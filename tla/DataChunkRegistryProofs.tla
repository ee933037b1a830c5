----------------------- MODULE DataChunkRegistryProofs -----------------------
(***************************************************************************)
(* One stream of the data-chunk registry, for any set of receive tasks and *)
(* any number of chunks and registrations: it has one worker at a time and *)
(* none is left behind (invariant RegistryInv); its chunks run in order,   *)
(* with fresh callbacks, and none that was accepted is left in a queue     *)
(* (invariant StreamInv).                                                  *)
(***************************************************************************)
EXTENDS DataChunkRegistry, TLAPS

LEMMA GenNotZero == Gen \subseteq Nat /\ 0 \notin Gen
  BY DataChunkAssumption DEF Gen

LEMMA InitRegistry == Init => RegistryInv
  <1> SUFFICES ASSUME Init PROVE RegistryInv
    OBVIOUS
  <1>1. /\ wst = [g \in Gen |-> "unborn"] /\ finished = [g \in Gen |-> FALSE]
        /\ aborted = [g \in Gen |-> FALSE] /\ spawned = 0 /\ shut = FALSE
        /\ handle = 0 /\ wk = 0 /\ down = "no"
    BY DEF Init
  <1>2. \A g \in Gen : ~Live(g)
    BY <1>1 DEF Live
  <1> QED
    BY Zenon, <1>1, <1>2 DEF RegistryInv, NoOrphans

\* A step that spawns no worker and forgets none.
LEMMA CalmKeeps ==
  ASSUME RegistryInv,
         wst' = [g \in Gen |-> wst'[g]], finished' \in [Gen -> BOOLEAN],
         \A g \in Gen : wst[g] = "unborn" => wst'[g] = "unborn" /\ finished'[g] = finished[g],
         \A g \in Gen : Live(g)' => Live(g) /\ ~finished'[g] /\ (wk' = g \/ handle' = g),
         UNCHANGED <<aborted, spawned, shut, handle, down>>, wk' \in {wk, 0}
  PROVE  RegistryInv'
  BY Zenon DEF RegistryInv, NoOrphans, Live

\* The steps that leave the workers and the entry's worker alone.
LEMMA StillKeeps ==
  ASSUME RegistryInv, UNCHANGED <<wst, finished, aborted, spawned, shut, wk, handle, down>>
  PROVE  RegistryInv'
  BY DEF RegistryInv, NoOrphans, Live

\* unregister forgets a worker only when its flag is set.
LEMMA UnregisterKeeps ==
  ASSUME RegistryInv, Unregister
  PROVE  RegistryInv'
  <1>1. /\ UNCHANGED <<wst, finished, aborted, spawned, shut, handle, down>>
        /\ wk' = IF wk # 0 /\ ~finished[wk] THEN wk ELSE 0
    BY DEF Unregister, workVars
  <1>2. \A g \in Gen : Live(g)' => Live(g)
    BY <1>1 DEF Live
  <1>3. \A g \in Gen : Live(g) => ~finished[g] /\ (wk' = g \/ handle = g)
    BY Zenon, <1>1, GenNotZero DEF RegistryInv
  <1> QED
    BY Zenon, <1>1, <1>2, <1>3, CalmKeeps DEF RegistryInv

\* A worker spawned by worker_tx finds no other live one.
LEMMA SpawnKeeps ==
  ASSUME RegistryInv, NEW d \in Dispatcher, Spawn(d), ~Closing, ~Busy,
         UNCHANGED <<handle, down>>
  PROVE  RegistryInv'
  <1>1. /\ spawned' = spawned + 1 /\ wk' = spawned + 1
        /\ wst' = [wst EXCEPT ![spawned + 1] = "idle"]
        /\ UNCHANGED <<shut, finished, aborted>>
    BY DEF Spawn
  <1>2. shut = FALSE /\ handle = 0 /\ down = "no"
    BY DEF RegistryInv, Closing
  <1>3. \A g \in Gen : ~Live(g)
    BY <1>2, GenNotZero DEF RegistryInv, Busy
  <1>4. wst' = [g \in Gen |-> IF g = spawned + 1 THEN "idle" ELSE wst[g]]
    BY Zenon, <1>1 DEF RegistryInv
  <1>5. \A g \in Gen : Live(g)' => g = spawned + 1
    BY <1>3, <1>4 DEF Live
  <1>6. \A g \in Gen : g > spawned' => wst'[g] = "unborn" /\ ~finished'[g]
    BY <1>1, <1>4, GenNotZero DEF RegistryInv
  <1>7. \A g \in Gen : Live(g)' => ~finished'[g] /\ wk' = g
    BY <1>1, <1>5, GenNotZero DEF RegistryInv
  <1>8. wst' = [g \in Gen |-> wst'[g]]
    BY <1>4
  <1> QED
    BY <1>1, <1>2, <1>6, <1>7, <1>8 DEF RegistryInv, NoOrphans

LEMMA DispatchKeeps ==
  ASSUME RegistryInv, NEW d \in Dispatcher, Dispatch(d) \/ DispatchStep(d)
  PROVE  RegistryInv'
  <1>1. CASE WorkerTx(d)
    <2>0. UNCHANGED <<handle, down>>
      BY <1>1 DEF WorkerTx
    <2>1. CASE Refused
      <3>1. UNCHANGED <<mapVars, workVars>>
        BY <1>1, <2>1 DEF WorkerTx
      <3> QED
        BY <2>0, <3>1, StillKeeps DEF mapVars, workVars
    <2>2. CASE ~Refused /\ Busy
      <3>1. UNCHANGED <<mapVars, workVars>>
        BY Zenon, <1>1, <2>2 DEF WorkerTx
      <3> QED
        BY <2>0, <3>1, StillKeeps DEF mapVars, workVars
    <2>3. CASE ~Refused /\ ~Busy
      <3>1. Spawn(d) /\ ~Closing
        BY Zenon, <1>1, <2>3 DEF WorkerTx, Refused
      <3> QED
        BY <2>0, <2>3, <3>1, SpawnKeeps
    <2> QED
      BY <2>1, <2>2, <2>3
  <1>2. CASE Dispatch(d) \/ Subscribe(d) \/ Wake(d)
    BY Zenon, <1>2, StillKeeps DEF Dispatch, Subscribe, Wake, mapVars, workVars
  <1>3. CASE Send(d) \/ Stalled(d)
    BY Zenon, <1>3, StillKeeps DEF Send, Stalled, mapVars
  <1> QED
    BY <1>1, <1>2, <1>3 DEF DispatchStep

\* A worker goes from one live state to another, or to one that is not.
LEMMA WorkMoves ==
  ASSUME RegistryInv, NEW g \in Gen, NEW l, Work(g, l), Live(g),
         l \in {"idle", "recv", "run", "ended", "dead"},
         UNCHANGED <<finished, aborted, spawned, shut, wk, handle, down>>
  PROVE  RegistryInv'
  <1>1. wst' = [h \in Gen |-> IF h = g THEN l ELSE wst[h]]
    BY DEF Work, RegistryInv
  <1>2. \A h \in Gen : Live(h)' => Live(h)
    BY <1>1 DEF Live
  <1>3. \A h \in Gen : wst[h] = "unborn" => wst'[h] = "unborn"
    BY <1>1 DEF Live
  <1>4. wst' = [h \in Gen |-> wst'[h]]
    BY <1>1
  <1> QED
    BY <1>2, <1>3, <1>4, CalmKeeps DEF RegistryInv

LEMMA WorkerKeeps ==
  ASSUME RegistryInv, NEW g \in Gen, WorkerStep(g)
  PROVE  RegistryInv'
  <1>1. CASE Poll(g) \/ Recv(g) \/ CallbackEnds(g) \/ Die(g)
    <2>1. Live(g) /\ UNCHANGED <<finished, aborted, spawned, shut, wk, handle, down>>
      BY <1>1 DEF Poll, Recv, CallbackEnds, Die, Live, mapVars
    <2>2. PICK l \in {"idle", "recv", "run", "ended", "dead"} : Work(g, l)
      <3>1. CASE Poll(g)
        BY <3>1 DEF Poll
      <3>2. CASE Recv(g)
        BY Zenon, <3>2 DEF Recv, Run
      <3>3. CASE CallbackEnds(g) \/ Die(g)
        BY Zenon, <3>3 DEF CallbackEnds, Die
      <3> QED
        BY <1>1, <3>1, <3>2, <3>3
    <2> QED
      BY Zenon, <2>1, <2>2, WorkMoves
  <1>2. CASE MarkFinished(g)
    <2>1. /\ wst[g] = "ended" /\ wst' = [wst EXCEPT ![g] = "clean"]
          /\ finished' = [finished EXCEPT ![g] = TRUE]
          /\ UNCHANGED <<aborted, spawned, shut, wk, handle, down>>
      BY Zenon, <1>2 DEF MarkFinished, Work, mapVars
    <2>2. wst' = [h \in Gen |-> IF h = g THEN "clean" ELSE wst[h]]
      BY <2>1 DEF RegistryInv
    <2>3. finished' \in [Gen -> BOOLEAN] /\ (\A h \in Gen : h # g => finished'[h] = finished[h])
      BY <2>1 DEF RegistryInv
    <2>4. \A h \in Gen : Live(h)' => h # g /\ Live(h)
      BY <2>2 DEF Live
    <2>5. \A h \in Gen : wst[h] = "unborn" => wst'[h] = "unborn" /\ finished'[h] = finished[h]
      BY <2>1, <2>2, <2>3
    <2>6. wst' = [h \in Gen |-> wst'[h]]
      BY Zenon, <2>2
    <2> QED
      BY <2>1, <2>3, <2>4, <2>5, <2>6, CalmKeeps DEF RegistryInv
  <1>3. CASE CleanUp(g)
    <2>1. /\ wst[g] = "clean" /\ wst' = [wst EXCEPT ![g] = "done"]
          /\ wk' = IF cb = 0 /\ wk = g THEN 0 ELSE wk
          /\ UNCHANGED <<finished, aborted, spawned, shut, handle, down>>
      BY <1>3 DEF CleanUp, Work
    <2>2. wst' = [h \in Gen |-> IF h = g THEN "done" ELSE wst[h]]
      BY <2>1 DEF RegistryInv
    <2>3. \A h \in Gen : Live(h)' => h # g /\ Live(h)
      BY <2>2 DEF Live
    <2>4. \A h \in Gen : wst[h] = "unborn" => wst'[h] = "unborn"
      BY <2>1, <2>2
    <2>5. wst' = [h \in Gen |-> wst'[h]]
      BY <2>2
    <2> QED
      BY <2>1, <2>3, <2>4, <2>5, CalmKeeps DEF RegistryInv
  <1> QED
    BY <1>1, <1>2, <1>3 DEF WorkerStep

\* shutdown and clear take the only live worker out of the map.
LEMMA TeardownKeeps ==
  ASSUME RegistryInv, Shutdown \/ ShutdownEnds \/ Clear
  PROVE  RegistryInv'
  <1>0. UNCHANGED <<wst, finished, spawned>> /\ (\A g \in Gen : Live(g)' <=> Live(g))
    BY Zenon DEF Shutdown, ShutdownEnds, Clear, Drain, workVars, mapVars, Live
  <1>1. CASE Shutdown
    <2>1. /\ ~shut /\ shut' = TRUE /\ wk' = 0 /\ handle' = wk /\ aborted' = aborted
          /\ down' = IF wk = 0 THEN "over" ELSE "join"
      BY <1>1 DEF Shutdown, Drain, workVars
    <2>2. \A g \in Gen : Live(g) => wk = g
      BY <2>1, GenNotZero DEF RegistryInv
    <2>3. NoOrphans'
      BY <1>0, <2>1, <2>2, GenNotZero DEF NoOrphans
    <2> QED
      BY <1>0, <2>1, <2>2, <2>3 DEF RegistryInv
  <1>2. CASE Clear
    <2>1. /\ ~shut /\ shut' = TRUE /\ wk' = 0 /\ handle' = wk /\ down' = "over"
          /\ aborted' = [g \in Gen |-> g = wk]
      BY <1>2 DEF Clear, Drain
    <2>2. \A g \in Gen : Live(g) => wk = g
      BY <2>1, GenNotZero DEF RegistryInv
    <2>3. NoOrphans'
      BY Zenon, <1>0, <2>1, <2>2 DEF NoOrphans
    <2>4. aborted' \in [Gen -> BOOLEAN]
      BY <2>1
    <2> QED
      BY <1>0, <2>1, <2>2, <2>3, <2>4 DEF RegistryInv
  <1>3. CASE ShutdownEnds
    <2>1. /\ down = "join" /\ down' = "over" /\ UNCHANGED <<shut, wk, handle>>
          /\ aborted' = [aborted EXCEPT ![handle] = ~Joined]
      BY Zenon, <1>3 DEF ShutdownEnds, mapVars
    <2>2. shut /\ wk = 0
      BY Zenon, <2>1 DEF RegistryInv
    <2>3. \A g \in Gen : Live(g) => handle = g
      BY Zenon, <2>2, GenNotZero DEF RegistryInv
    <2>4. \A g \in Gen : Live(g) => aborted'[g] = TRUE
      BY Zenon, <2>1, <2>3 DEF RegistryInv, Joined, Live
    <2>5. NoOrphans'
      BY Zenon, <1>0, <2>4 DEF NoOrphans
    <2>6. aborted' \in [Gen -> BOOLEAN]
      BY Zenon, <2>1 DEF RegistryInv, Joined
    <2> QED
      BY Zenon, <1>0, <2>1, <2>2, <2>3, <2>5, <2>6 DEF RegistryInv
  <1> QED
    BY <1>1, <1>2, <1>3

LEMMA NextRegistry == RegistryInv /\ [Next]_vars => RegistryInv'
  <1> SUFFICES ASSUME RegistryInv, [Next]_vars PROVE RegistryInv'
    OBVIOUS
  <1>1. CASE UNCHANGED vars \/ Register \/ Cancel
    BY Zenon, <1>1, StillKeeps DEF vars, Register, Cancel, workVars
  <1>2. CASE Unregister
    BY <1>2, UnregisterKeeps
  <1>3. CASE Shutdown \/ ShutdownEnds \/ Clear
    BY <1>3, TeardownKeeps
  <1>4. CASE \E d \in Dispatcher : Dispatch(d) \/ DispatchStep(d)
    BY Zenon, <1>4, DispatchKeeps
  <1>5. CASE \E g \in Gen : WorkerStep(g)
    BY <1>5, WorkerKeeps
  <1> QED
    BY Zenon, <1>1, <1>2, <1>3, <1>4, <1>5 DEF Next

\* The entry or the handle taken from it knows every live worker, always.
THEOREM RegistryInvariant == Spec => []RegistryInv
  BY InitRegistry, NextRegistry, PTL DEF Spec

\* For any number of registrations, receive tasks and chunks, a stream never
\* has two workers that have not finished (worker_tx, unregister, worker_loop).
THEOREM OneWorkerPerStream == Spec => []SingleWorker
  <1>1. RegistryInv => SingleWorker
    BY Zenon, GenNotZero DEF RegistryInv, SingleWorker
  <1> QED
    BY <1>1, RegistryInvariant, PTL

\* For any number of registrations, a worker that is alive when shutdown or
\* clear is over has been told to abort (AbortWorkersOnDrop, clear).
THEOREM NoneLeftBehind == Spec => []NoOrphans
  <1>1. RegistryInv => NoOrphans
    BY DEF RegistryInv
  <1> QED
    BY <1>1, RegistryInvariant, PTL

-----------------------------------------------------------------------------
(* The chunks: StreamInv.  Each of its parts has a lemma that says which    *)
(* changes leave it alone; the steps that do more are treated one by one.   *)

LEMMA EarliestNat ==
  ASSUME StreamTypes, StreamTypes'
  PROVE  Earliest \in Nat /\ Earliest' \in Nat
  <1>1. reg \in Nat /\ (cb = 0 \/ cb = reg)
    BY DataChunkAssumption DEF StreamTypes
  <1>2. PICK r \in Nat : reg' = r
    BY DataChunkAssumption DEF StreamTypes
  <1>3. cb' = 0 \/ cb' = reg'
    BY Zenon DEF StreamTypes
  <1>4. r + 1 \in Nat
    OBVIOUS
  <1>5. Earliest' \in Nat
    BY <1>2, <1>3, <1>4 DEF Earliest
  <1> QED
    BY <1>1, <1>5 DEF Earliest

LEMMA FreshFrame ==
  ASSUME StreamTypes, StreamTypes', Freshness,
         \A d \in Dispatcher : pc'[d] # "idle" => pc[d] # "idle" /\ since'[d] = since[d],
         \A d \in Dispatcher : Sending(d)' => Sending(d) /\ cap'[d] = cap[d],
         Earliest <= Earliest', ran' = ran,
         \A g \in Gen : queue'[g] = queue[g] \/ queue'[g] = <<>>
  PROVE  Freshness'
  <1>1. ASSUME NEW d \in Dispatcher, pc'[d] # "idle" PROVE since'[d] <= Earliest'
    <2>1. since[d] \in Nat /\ Earliest \in Nat /\ Earliest' \in Nat
      BY Zenon, EarliestNat DEF StreamTypes
    <2>2. since'[d] = since[d] /\ since[d] <= Earliest
      BY Zenon, <1>1 DEF Freshness
    <2> QED
      BY <2>1, <2>2
  <1>2. ASSUME NEW d \in Dispatcher, Sending(d)' PROVE since'[d] <= cap'[d]
    <2>1. pc'[d] # "idle" /\ cap'[d] = cap[d] /\ since[d] <= cap[d]
      BY Zenon, <1>2 DEF Freshness, Sending
    <2> QED
      BY Zenon, <2>1
  <1>3. ASSUME NEW g \in Gen, NEW i \in 1..Len(queue'[g])
        PROVE  queue'[g][i].v >= queue'[g][i].since
    <2>1. CASE queue'[g] = queue[g]
      BY Zenon, <1>3, <2>1 DEF Freshness
    <2>2. CASE queue'[g] = <<>>
      BY <1>3, <2>2
    <2> QED
      BY Zenon, <2>1, <2>2
  <1>4. FreshCallback'
    BY Zenon DEF FreshCallback, Freshness
  <1> QED
    BY <1>1, <1>2, <1>3, <1>4 DEF Freshness

LEMMA OrderFrame ==
  ASSUME StreamTypes, StreamTypes', Ordered, ran' = ran,
         \A d \in Dispatcher : Ended(d) <= Ended(d)',
         \A g \in Gen : queue'[g] = queue[g] \/ queue'[g] = <<>>,
         \A g \in Gen : Serving(g)' => Serving(g) \/ queue[g] = <<>>,
         \A g \in Gen : wst'[g] = "unborn" => wst[g] = "unborn"
  PROVE  Ordered'
  <1>0. \A d \in Dispatcher : Ended(d) \in Int /\ Ended(d)' \in Int
    BY DEF StreamTypes, Ended
  <1>1. ASSUME NEW i \in 1..Len(ran') PROVE ran'[i].n <= Ended(ran[i].d)'
    <2>1. ran[i] \in QueuedChunk /\ ran[i].n <= Ended(ran[i].d)
      BY <1>1 DEF StreamTypes, Ordered
    <2>2. ran[i].d \in Dispatcher /\ ran[i].n \in Nat
      BY Zenon, <2>1 DEF QueuedChunk
    <2> QED
      BY <1>0, <2>1, <2>2
  <1>2. ASSUME NEW g \in Gen
        PROVE  /\ wst'[g] = "unborn" => queue'[g] = <<>>
               /\ (\A i \in 1..Len(queue[g]) : queue[g][i].n <= Ended(queue[g][i].d))'
               /\ \A i, j \in 1..Len(queue'[g]) :
                     i < j /\ queue'[g][i].d = queue'[g][j].d
                     => queue'[g][i].n < queue'[g][j].n
               /\ Serving(g)' => \A i \in 1..Len(ran'), j \in 1..Len(queue'[g]) :
                     ran'[i].d = queue'[g][j].d => ran'[i].n < queue'[g][j].n
    <2>1. CASE queue'[g] = <<>>
      BY <2>1
    <2>2. CASE queue'[g] = queue[g]
      <3>1. wst'[g] = "unborn" => queue'[g] = <<>>
        BY Zenon, <2>2 DEF Ordered
      <3>2. ASSUME NEW i \in 1..Len(queue'[g]) PROVE (queue[g][i].n <= Ended(queue[g][i].d))'
        <4>0. queue[g] \in Seq(QueuedChunk) /\ i \in 1..Len(queue[g])
          BY Zenon, <2>2, <3>2 DEF StreamTypes
        <4>1. queue[g][i] \in QueuedChunk /\ queue[g][i].n <= Ended(queue[g][i].d)
          BY <4>0 DEF Ordered
        <4>2. queue[g][i].d \in Dispatcher /\ queue[g][i].n \in Nat
          BY Zenon, <4>1 DEF QueuedChunk
        <4> QED
          BY <1>0, <2>2, <4>1, <4>2
      <3>3. Serving(g)' => \A i \in 1..Len(ran'), j \in 1..Len(queue'[g]) :
               ran'[i].d = queue'[g][j].d => ran'[i].n < queue'[g][j].n
        BY <2>2 DEF Ordered
      <3>4. \A i, j \in 1..Len(queue'[g]) :
               i < j /\ queue'[g][i].d = queue'[g][j].d => queue'[g][i].n < queue'[g][j].n
        BY <2>2 DEF Ordered
      <3> QED
        BY Zenon, <3>1, <3>2, <3>3, <3>4
    <2> QED
      BY Zenon, <2>1, <2>2
  <1>3. FifoPerStream'
    BY DEF FifoPerStream, Ordered
  <1> QED
    BY <1>1, <1>2, <1>3 DEF Ordered

LEMMA CountFrame ==
  ASSUME Counted, UNCHANGED <<spawned, reg>>,
         cb' # 0 => cb' = cb /\ hasTx' = hasTx,
         hasTx' => hasTx /\ wk' = wk /\ cb' = cb,
         shut' => cancelled', cancelled => cancelled',
         \A g \in Gen : wst'[g] = "unborn" => wst[g] = "unborn",
         \A g \in Gen : aborted'[g] => cancelled',
         \A d \in Dispatcher : Sending(d)' => Sending(d) /\ use'[d] = use[d]
  PROVE  Counted'
  BY DEF Counted

LEMMA SenderFrame ==
  ASSUME hasTx' => hasTx /\ wk' = wk,
         \A d \in Dispatcher : Sending(d)' => Sending(d) /\ use'[d] = use[d]
  PROVE  \A g : NoSender(g) => NoSender(g)'
  BY DEF NoSender, Sending

LEMMA ServeFrame ==
  ASSUME Served, ~cancelled' => ~cancelled, UNCHANGED wst,
         \A g \in Gen : NoSender(g) => NoSender(g)',
         \A g \in Gen : queue[g] # <<>> => queue'[g] # <<>>
  PROVE  Served'
  BY DEF Served, Serving

LEMMA AccountFrame ==
  ASSUME StreamTypes, AcceptedDelivered, cancelled => cancelled',
         ~cancelled' => \A d \in Dispatcher : \A k \in Nat : Accounted(d, k) => Accounted(d, k)',
         ~cancelled' => \A d \in Dispatcher : \A k \in 1..Ended(d)' :
                            k <= Ended(d) \/ Accounted(d, k)'
  PROVE  AcceptedDelivered'
  <1> SUFFICES ASSUME ~cancelled', NEW d \in Dispatcher, NEW k \in 1..Ended(d)'
               PROVE  Accounted(d, k)'
    BY DEF AcceptedDelivered
  <1>1. CASE k <= Ended(d)
    <2>1. Ended(d) \in Int
      BY DEF StreamTypes, Ended
    <2>2. k \in 1..Ended(d) /\ k \in Nat
      BY <1>1, <2>1
    <2> QED
      BY <2>2 DEF AcceptedDelivered
  <1>2. CASE Accounted(d, k)'
    BY Zenon, <1>2
  <1> QED
    BY <1>1, <1>2

LEMMA AccountedKept ==
  ASSUME lost \subseteq lost', ran' = ran,
         \A g \in Gen : Serving(g) => Serving(g)' /\ queue'[g] = queue[g]
  PROVE  \A d, k : Accounted(d, k) => Accounted(d, k)'
  BY DEF Accounted

LEMMA InitStream == Init => StreamInv
  <1> SUFFICES ASSUME Init PROVE StreamInv
    OBVIOUS
  <1>0. Len(ran) = 0 /\ (\A g \in Gen : queue[g] = <<>> /\ Len(queue[g]) = 0)
    BY Zenon DEF Init
  <1>1. StreamTypes
    BY DataChunkAssumption DEF Init, StreamTypes, Place
  <1>2. Freshness
    BY <1>0 DEF Init, Freshness, FreshCallback, Sending
  <1>3. Ordered
    BY <1>0 DEF Init, Ordered, FifoPerStream
  <1>4. Counted
    BY GenNotZero DEF Init, Counted, Sending
  <1>5. Served
    BY DEF Init, Served, NoSender
  <1>6. AcceptedDelivered
    BY DEF Init, AcceptedDelivered, Ended
  <1> QED
    BY <1>1, <1>2, <1>3, <1>4, <1>5, <1>6 DEF StreamInv

\* Steps on the map leave the chunks where they are.
LEMMA MapFrame ==
  ASSUME StreamInv, UNCHANGED <<queue, wst, callVars, ran, lost>>, StreamTypes', Counted',
         Earliest <= Earliest', cancelled => cancelled', hasTx' => hasTx /\ wk' = wk
  PROVE  StreamInv'
  <1> USE DEF callVars
  <1>0. StreamTypes /\ Freshness /\ Ordered /\ Served /\ AcceptedDelivered
    BY Zenon DEF StreamInv
  <1>1. Freshness'
    BY Zenon, <1>0, FreshFrame DEF Sending
  <1>2. Ordered'
    <2>1. \A d \in Dispatcher : Ended(d) \in Int /\ Ended(d)' = Ended(d)
      BY <1>0 DEF Ended, StreamTypes
    <2> QED
      BY <1>0, <2>1, OrderFrame DEF Serving
  <1>3. Served'
    BY Zenon, <1>0, SenderFrame, ServeFrame DEF Sending
  <1>4. AcceptedDelivered'
    BY <1>0, AccountedKept DEF AcceptedDelivered, Ended, Serving
  <1> QED
    BY <1>1, <1>2, <1>3, <1>4 DEF StreamInv

LEMMA MapStream ==
  ASSUME RegistryInv, StreamInv,
         Register \/ Unregister \/ Cancel \/ Shutdown \/ ShutdownEnds \/ Clear
  PROVE  StreamInv'
  <1> USE DEF mapVars, workVars, callVars
  <1>0. StreamTypes /\ Counted /\ reg \in Nat /\ spawned \in Nat /\ Versions \in Nat
    BY DataChunkAssumption DEF StreamInv, StreamTypes, RegistryInv
  <1>1. CASE Register
    <2>1. StreamTypes'
      BY <1>0, <1>1 DEF Register, StreamTypes
    <2>2. Counted'
      BY <1>0, <1>1 DEF Register, Counted, Sending
    <2>3. Earliest <= Earliest'
      <3>1. Earliest' = reg + 1
        BY <1>0, <1>1 DEF Register, Earliest
      <3> QED
        BY <1>0, <3>1 DEF Earliest, StreamTypes
    <2> QED
      BY Zenon, <1>1, <2>1, <2>2, <2>3, MapFrame DEF Register
  <1>2. CASE Unregister \/ Shutdown \/ Clear
    <2>1. /\ cb' = 0 /\ hasTx' = FALSE /\ (wk' = wk \/ wk' = 0)
          /\ UNCHANGED <<reg, spawned, cancelled, queue, wst, pc, n, use, cap, since, ran, lost>>
          /\ shut' => cancelled
      BY <1>0, <1>2 DEF Unregister, Shutdown, Clear, Drain, Counted
    <2>2. StreamTypes'
      BY <1>0, <2>1 DEF StreamTypes
    <2>3. \A g \in Gen : aborted'[g] => cancelled'
      BY Zenon, <1>0, <1>2, <2>1 DEF Unregister, Shutdown, Clear, Counted
    <2>4. Counted'
      BY Zenon, <1>0, <2>1, <2>3, CountFrame DEF Sending
    <2>5. Earliest <= Earliest'
      <3>1. Earliest' = reg + 1
        BY <2>1 DEF Earliest
      <3> QED
        BY <1>0, <3>1 DEF Earliest, StreamTypes
    <2> QED
      BY Zenon, <2>1, <2>2, <2>4, <2>5, MapFrame
  <1>3. CASE Cancel \/ ShutdownEnds
    <2>1. /\ cancelled => cancelled'
          /\ UNCHANGED <<cb, reg, wk, hasTx, shut, spawned, queue, wst, pc, n, use, cap, since,
                         ran, lost>>
      BY <1>3 DEF Cancel, ShutdownEnds
    <2>2. StreamTypes'
      BY Zenon, <1>0, <2>1 DEF StreamTypes
    <2>3. (shut' => cancelled') /\ \A g \in Gen : aborted'[g] => cancelled'
      <3>1. CASE Cancel
        BY Zenon, <3>1 DEF Cancel
      <3>2. CASE ShutdownEnds
        BY Zenon, <1>0, <3>2 DEF ShutdownEnds, Counted, RegistryInv
      <3> QED
        BY <1>3, <3>1, <3>2
    <2>4. Counted'
      BY <1>0, <2>1, <2>3, CountFrame DEF Sending
    <2>5. Earliest <= Earliest'
      <3>1. Earliest' = Earliest /\ Earliest \in Nat
        BY Zenon, <1>0, <2>1, <2>2, EarliestNat DEF Earliest
      <3> QED
        BY <3>1
    <2> QED
      BY Zenon, <2>1, <2>2, <2>4, <2>5, MapFrame
  <1> QED
    BY Zenon, <1>1, <1>2, <1>3

-----------------------------------------------------------------------------
(* The receive tasks *)

LEMMA GotoEffect ==
  ASSUME StreamTypes, NEW d \in Dispatcher, NEW to \in Place, Goto(d, to)
  PROVE  /\ pc' \in [Dispatcher -> Place] /\ pc'[d] = to
         /\ \A e \in Dispatcher : e # d => pc'[e] = pc[e]
  BY Zenon DEF StreamTypes, Goto

LEMMA ReturnEffect ==
  ASSUME StreamTypes, NEW d \in Dispatcher, pc[d] # "idle", Return(d)
  PROVE  /\ pc' \in [Dispatcher -> Place] /\ n' = n
         /\ use' \in [Dispatcher -> {0} \cup Gen] /\ cap' \in [Dispatcher -> Nat]
         /\ since' \in [Dispatcher -> Nat]
         /\ pc'[d] = "idle" /\ Ended(d)' = n[d] /\ Ended(d) = n[d] - 1 /\ n[d] \in Nat
         /\ \A e \in Dispatcher : e # d =>
               /\ pc'[e] = pc[e] /\ use'[e] = use[e] /\ cap'[e] = cap[e] /\ since'[e] = since[e]
               /\ Ended(e)' = Ended(e) /\ Ended(e) \in Int
  <1>1. Goto(d, "idle") /\ "idle" \in Place /\ n' = n
    BY Zenon DEF Return, Place
  <1>2. /\ pc' \in [Dispatcher -> Place] /\ pc'[d] = "idle"
        /\ \A e \in Dispatcher : e # d => pc'[e] = pc[e]
    BY Zenon, <1>1, GotoEffect
  <1>3. /\ use' \in [Dispatcher -> {0} \cup Gen]
        /\ \A e \in Dispatcher : e # d => use'[e] = use[e]
    BY Zenon DEF Return, StreamTypes
  <1>4. /\ cap' \in [Dispatcher -> Nat] /\ since' \in [Dispatcher -> Nat]
        /\ \A e \in Dispatcher : e # d => cap'[e] = cap[e] /\ since'[e] = since[e]
    BY DEF Return, StreamTypes
  <1>5. \A e \in Dispatcher : n[e] \in Nat
    BY Zenon DEF StreamTypes
  <1>6. /\ Ended(d)' = n[d] /\ Ended(d) = n[d] - 1
        /\ \A e \in Dispatcher : e # d => Ended(e)' = Ended(e) /\ Ended(e) \in Int
    BY <1>1, <1>2, <1>5 DEF Ended
  <1> QED
    BY <1>1, <1>2, <1>3, <1>4, <1>5, <1>6

\* A dispatch goes on, with no sender that it did not have.
LEMMA GoOnStream ==
  ASSUME StreamInv, NEW d \in Dispatcher, NEW to \in Place \ {"idle"}, Goto(d, to),
         pc[d] # "idle", UNCHANGED <<n, cap, since, mapVars, workVars, ran, lost>>,
         use' \in [Dispatcher -> {0} \cup Gen],
         \A e \in Dispatcher : e # d => use'[e] = use[e],
         to \in {"send", "stalled"} => Sending(d) /\ use'[d] = use[d]
  PROVE  StreamInv'
  <1> USE DEF mapVars, workVars
  <1>0. StreamTypes /\ Freshness /\ Ordered /\ Counted /\ Served /\ AcceptedDelivered
    BY Zenon DEF StreamInv
  <1>1. /\ pc' \in [Dispatcher -> Place] /\ pc'[d] = to
        /\ \A e \in Dispatcher : e # d => pc'[e] = pc[e]
    BY Zenon, <1>0, GotoEffect
  <1>2. StreamTypes'
    BY Zenon, <1>0, <1>1 DEF StreamTypes
  <1>3. \A e \in Dispatcher : Sending(e)' => Sending(e) /\ use'[e] = use[e]
    BY Zenon, <1>1 DEF Sending
  <1>4. Freshness'
    <2>1. Earliest' = Earliest /\ Earliest \in Nat
      BY Zenon, <1>0, <1>2, EarliestNat DEF Earliest
    <2>2. \A e \in Dispatcher : pc'[e] # "idle" => pc[e] # "idle"
      BY Zenon, <1>1
    <2>3. Earliest <= Earliest'
      BY <2>1
    <2> QED
      BY Zenon, <1>0, <1>2, <1>3, <2>2, <2>3, FreshFrame
  <1>5. \A e \in Dispatcher : Ended(e)' = Ended(e) /\ Ended(e) \in Int
    BY <1>0, <1>1 DEF Ended, StreamTypes
  <1>6. Ordered'
    <2>1. \A e \in Dispatcher : Ended(e) <= Ended(e)'
      BY <1>5
    <2> QED
      BY Zenon, <1>0, <1>2, <2>1, OrderFrame DEF Serving
  <1>7. Counted'
    BY Zenon, <1>0, <1>3, CountFrame DEF Counted
  <1>8. Served'
    BY Zenon, <1>0, <1>3, SenderFrame, ServeFrame
  <1>9. AcceptedDelivered'
    BY Zenon, <1>0, <1>5, AccountedKept DEF AcceptedDelivered, Serving
  <1> QED
    BY Zenon, <1>2, <1>4, <1>6, <1>7, <1>8, <1>9 DEF StreamInv

\* A dispatch gives its chunk up.
LEMMA DropStream ==
  ASSUME StreamInv, NEW d \in Dispatcher, pc[d] # "idle", Drop(d),
         UNCHANGED <<mapVars, workVars, ran>>
  PROVE  StreamInv'
  <1> USE DEF mapVars, workVars
  <1>0. StreamTypes /\ Freshness /\ Ordered /\ Counted /\ Served /\ AcceptedDelivered
    BY Zenon DEF StreamInv
  <1>1. Return(d) /\ lost' = lost \cup {[d |-> d, n |-> n[d]]}
    BY Zenon DEF Drop
  <1>2. /\ pc' \in [Dispatcher -> Place] /\ n' = n
        /\ use' \in [Dispatcher -> {0} \cup Gen] /\ cap' \in [Dispatcher -> Nat]
        /\ since' \in [Dispatcher -> Nat]
        /\ pc'[d] = "idle" /\ Ended(d)' = n[d] /\ Ended(d) = n[d] - 1 /\ n[d] \in Nat
        /\ \A e \in Dispatcher : e # d =>
              /\ pc'[e] = pc[e] /\ use'[e] = use[e] /\ cap'[e] = cap[e] /\ since'[e] = since[e]
              /\ Ended(e)' = Ended(e) /\ Ended(e) \in Int
    BY Zenon, <1>0, <1>1, ReturnEffect
  <1>3. StreamTypes'
    BY Zenon, <1>0, <1>2 DEF StreamTypes
  <1>4. \A e \in Dispatcher : Sending(e)' => Sending(e) /\ use'[e] = use[e] /\ cap'[e] = cap[e]
    BY Zenon, <1>2 DEF Sending
  <1>5. Freshness'
    <2>1. Earliest' = Earliest /\ Earliest \in Nat
      BY Zenon, <1>0, <1>3, EarliestNat DEF Earliest
    <2>2. \A e \in Dispatcher : pc'[e] # "idle" => pc[e] # "idle" /\ since'[e] = since[e]
      BY Zenon, <1>2
    <2> QED
      BY <1>0, <1>3, <1>4, <2>1, <2>2, FreshFrame
  <1>6. Ordered'
    <2>1. \A e \in Dispatcher : Ended(e) <= Ended(e)'
      BY <1>2
    <2> QED
      BY Zenon, <1>0, <1>3, <2>1, OrderFrame DEF Serving
  <1>7. Counted'
    BY Zenon, <1>0, <1>4, CountFrame DEF Counted
  <1>8. Served'
    BY Zenon, <1>0, <1>4, SenderFrame, ServeFrame
  <1>9. AcceptedDelivered'
    <2>1. \A e, k : Accounted(e, k) => Accounted(e, k)'
      BY Zenon, <1>1, AccountedKept DEF Serving
    <2>2. Accounted(d, n[d])'
      BY Zenon, <1>1, <1>2 DEF Accounted
    <2>3. ASSUME NEW e \in Dispatcher, NEW k \in 1..Ended(e)'
          PROVE  k <= Ended(e) \/ Accounted(e, k)'
      <3>1. CASE e # d
        BY <1>2, <3>1
      <3>2. CASE e = d /\ k # n[d]
        BY <1>2, <3>2
      <3>3. CASE e = d /\ k = n[d]
        BY <1>2, <2>2, <3>3
      <3> QED
        BY Zenon, <3>1, <3>2, <3>3
    <2> QED
      BY Zenon, <1>0, <2>1, <2>3, AccountFrame
  <1> QED
    BY <1>3, <1>5, <1>6, <1>7, <1>8, <1>9 DEF StreamInv

\* A dispatch begins.
LEMMA DispatchStream ==
  ASSUME StreamInv, NEW d \in Dispatcher, Dispatch(d)
  PROVE  StreamInv'
  <1> USE DEF mapVars, workVars
  <1>0. StreamTypes /\ Freshness /\ Ordered /\ Counted /\ Served /\ AcceptedDelivered
    BY Zenon DEF StreamInv
  <1>1. /\ pc[d] = "idle" /\ Goto(d, "look") /\ "look" \in Place
        /\ n' = [n EXCEPT ![d] = @ + 1] /\ since' = [since EXCEPT ![d] = Earliest]
        /\ UNCHANGED <<use, cap, mapVars, workVars, ran, lost>>
    BY Zenon DEF Dispatch, Place
  <1>2. /\ pc' \in [Dispatcher -> Place] /\ pc'[d] = "look"
        /\ \A e \in Dispatcher : e # d => pc'[e] = pc[e]
    BY Zenon, <1>0, <1>1, GotoEffect
  <1>3. Earliest \in Nat /\ Earliest' = Earliest
    <2>1. reg \in Nat /\ (cb = 0 \/ cb = reg)
      BY <1>0, DataChunkAssumption DEF StreamTypes
    <2> QED
      BY <1>1, <2>1 DEF Earliest
  <1>4. /\ n' \in [Dispatcher -> Nat] /\ n'[d] = n[d] + 1 /\ n[d] \in Nat
        /\ \A e \in Dispatcher : e # d => n'[e] = n[e]
    BY <1>0, <1>1 DEF StreamTypes
  <1>5. /\ since' \in [Dispatcher -> Nat] /\ since'[d] = Earliest
        /\ \A e \in Dispatcher : e # d => since'[e] = since[e]
    BY Zenon, <1>0, <1>1, <1>3 DEF StreamTypes
  <1>6. StreamTypes'
    BY Zenon, <1>0, <1>1, <1>2, <1>4, <1>5 DEF StreamTypes
  <1>7. \A e \in Dispatcher : Ended(e)' = Ended(e) /\ Ended(e) \in Int
    BY <1>0, <1>1, <1>2, <1>4 DEF Ended, StreamTypes
  <1>8. \A e \in Dispatcher : Sending(e)' => e # d /\ Sending(e) /\ use'[e] = use[e]
    BY Zenon, <1>1, <1>2 DEF Sending
  <1>9. Freshness'
    <2>1. ASSUME NEW e \in Dispatcher, pc'[e] # "idle" PROVE since'[e] <= Earliest'
      <3>1. CASE e = d
        BY <1>3, <1>5, <3>1
      <3>2. CASE e # d
        BY Zenon, <1>0, <1>2, <1>3, <1>5, <2>1, <3>2 DEF Freshness
      <3> QED
        BY Zenon, <3>1, <3>2
    <2>2. ASSUME NEW e \in Dispatcher, Sending(e)' PROVE since'[e] <= cap'[e]
      BY Zenon, <1>0, <1>1, <1>5, <1>8, <2>2 DEF Freshness
    <2> QED
      BY Zenon, <1>0, <1>1, <2>1, <2>2 DEF Freshness, FreshCallback
  <1>10. Ordered'
    BY <1>0, <1>1, <1>6, <1>7, OrderFrame DEF Serving
  <1>11. Counted'
    BY <1>0, <1>1, <1>8, CountFrame DEF Counted
  <1>12. Served'
    BY Zenon, <1>0, <1>1, <1>8, SenderFrame, ServeFrame
  <1>13. AcceptedDelivered'
    BY Zenon, <1>0, <1>1, <1>7, AccountedKept DEF AcceptedDelivered, Serving
  <1> QED
    BY <1>6, <1>9, <1>10, <1>11, <1>12, <1>13 DEF StreamInv

\* The sender and the callback a dispatch takes are those of this moment.
LEMMA TakeEffect ==
  ASSUME StreamTypes, Freshness, NEW d \in Dispatcher, NEW g \in Gen, Take(d, g),
         pc[d] = "look", cb # 0, UNCHANGED <<cb, reg, queue, ran>>
  PROVE  /\ pc' \in [Dispatcher -> Place] /\ use' \in [Dispatcher -> {0} \cup Gen]
         /\ cap' \in [Dispatcher -> Nat] /\ n' = n /\ since' = since
         /\ pc'[d] = "send" /\ use'[d] = g
         /\ \A e \in Dispatcher : e # d => pc'[e] = pc[e] /\ use'[e] = use[e]
         /\ \A e \in Dispatcher : Ended(e)' = Ended(e) /\ Ended(e) \in Int
         /\ Freshness'
  <1>0. Goto(d, "send") /\ "send" \in Place /\ n' = n /\ since' = since
    BY Zenon DEF Take, Place
  <1>1. /\ pc' \in [Dispatcher -> Place] /\ pc'[d] = "send"
        /\ \A e \in Dispatcher : e # d => pc'[e] = pc[e]
    BY Zenon, <1>0, GotoEffect
  <1>2. /\ use' \in [Dispatcher -> {0} \cup Gen] /\ use'[d] = g
        /\ \A e \in Dispatcher : e # d => use'[e] = use[e]
    BY Zenon DEF Take, StreamTypes
  <1>3. cb = reg /\ cb \in Nat /\ Earliest = cb /\ Earliest' = cb
    BY DataChunkAssumption DEF StreamTypes, Earliest
  <1>4. /\ cap' \in [Dispatcher -> Nat] /\ cap'[d] = cb
        /\ \A e \in Dispatcher : e # d => cap'[e] = cap[e]
    BY Zenon, <1>3 DEF Take, StreamTypes
  <1>5. \A e \in Dispatcher : Ended(e)' = Ended(e) /\ Ended(e) \in Int
    BY <1>0, <1>1 DEF Ended, StreamTypes
  <1>6. Freshness'
    <2>1. ASSUME NEW e \in Dispatcher, pc'[e] # "idle" PROVE since'[e] <= Earliest'
      <3>1. pc[e] # "idle"
        BY Zenon, <1>1, <2>1
      <3> QED
        BY Zenon, <1>0, <1>3, <3>1 DEF Freshness
    <2>2. ASSUME NEW e \in Dispatcher, Sending(e)' PROVE since'[e] <= cap'[e]
      <3>1. CASE e = d
        BY Zenon, <1>0, <1>3, <1>4, <3>1 DEF Freshness
      <3>2. CASE e # d
        BY Zenon, <1>0, <1>1, <1>4, <2>2, <3>2 DEF Freshness, Sending
      <3> QED
        BY Zenon, <3>1, <3>2
    <2> QED
      BY Zenon, <2>1, <2>2 DEF Freshness, FreshCallback
  <1> QED
    BY Zenon, <1>0, <1>1, <1>2, <1>4, <1>5, <1>6

LEMMA TakeStream ==
  ASSUME RegistryInv, StreamInv, NEW d \in Dispatcher, pc[d] = "look", Take(d, wk),
         hasTx, cb # 0, UNCHANGED <<mapVars, workVars, ran, lost>>
  PROVE  StreamInv'
  <1> USE DEF mapVars, workVars
  <1>0. StreamTypes /\ Freshness /\ Ordered /\ Counted /\ Served /\ AcceptedDelivered
    BY Zenon DEF StreamInv
  <1>1. wk \in Gen /\ wk # 0 /\ wk <= spawned
    <2>1. wk # 0 /\ wk \in 0..spawned /\ spawned <= reg /\ reg \in 0..Versions /\ spawned \in Nat
      BY Zenon, <1>0 DEF Counted, StreamTypes, RegistryInv
    <2> QED
      BY <2>1, DataChunkAssumption DEF Gen
  <1>2. /\ pc' \in [Dispatcher -> Place] /\ use' \in [Dispatcher -> {0} \cup Gen]
        /\ cap' \in [Dispatcher -> Nat] /\ n' = n /\ since' = since
        /\ pc'[d] = "send" /\ use'[d] = wk
        /\ \A e \in Dispatcher : e # d => pc'[e] = pc[e] /\ use'[e] = use[e]
        /\ \A e \in Dispatcher : Ended(e)' = Ended(e) /\ Ended(e) \in Int
        /\ Freshness'
    BY Zenon, <1>0, <1>1, TakeEffect
  <1>3. StreamTypes'
    BY Zenon, <1>0, <1>2 DEF StreamTypes
  <1>4. Ordered'
    BY <1>0, <1>2, <1>3, OrderFrame DEF Serving
  <1>5. Counted'
    BY Zenon, <1>0, <1>1, <1>2 DEF Counted, Sending
  <1>6. \A g \in Gen : NoSender(g) => NoSender(g)'
    BY Zenon, <1>2 DEF NoSender
  <1>7. Served'
    BY Zenon, <1>0, <1>6, ServeFrame
  <1>8. AcceptedDelivered'
    BY Zenon, <1>0, <1>2, AccountedKept DEF AcceptedDelivered, Serving
  <1> QED
    BY Zenon, <1>2, <1>3, <1>4, <1>5, <1>7, <1>8 DEF StreamInv

\* There is a registration left for a worker that worker_tx spawns.
LEMMA SpawnFits ==
  ASSUME RegistryInv, StreamInv, ~Refused, ~Busy
  PROVE  spawned + 1 \in Gen /\ spawned + 1 <= reg
  <1>0. StreamTypes /\ Counted /\ Served /\ spawned \in Nat
    BY Zenon DEF StreamInv, RegistryInv
  <1>1. ~hasTx
    <2> SUFFICES ASSUME hasTx PROVE FALSE
      OBVIOUS
    <2>1. wk # 0 /\ wk \in 0..spawned /\ spawned <= reg /\ reg \in 0..Versions
      BY Zenon, <1>0 DEF Counted, StreamTypes
    <2>2. wk \in Gen
      BY <1>0, <2>1, DataChunkAssumption DEF Gen
    <2>3. Serving(wk)
      BY Zenon, <1>0, <2>2 DEF Served, NoSender, Refused, Closing
    <2>4. ~finished[wk]
      BY Zenon, <2>2, <2>3 DEF RegistryInv, Live, Serving
    <2> QED
      BY <2>1, <2>4 DEF Busy
  <1>2. spawned < reg /\ reg \in 0..Versions
    BY Zenon, <1>0, <1>1 DEF Counted, Refused, StreamTypes
  <1> QED
    BY <1>0, <1>2, DataChunkAssumption DEF Gen

LEMMA SpawnStream ==
  ASSUME RegistryInv, StreamInv, NEW d \in Dispatcher, pc[d] = "look", Spawn(d),
         ~Refused, ~Busy, ran' = ran
  PROVE  StreamInv'
  <1>0. /\ StreamTypes /\ Freshness /\ Ordered /\ Counted /\ Served /\ AcceptedDelivered
        /\ spawned \in Nat /\ cb # 0
    BY DEF StreamInv, RegistryInv, Refused
  <1>1. PICK g : g = spawned + 1
    OBVIOUS
  <1>2. g \in Gen /\ g <= reg /\ g \in Nat /\ g # 0
    BY Zenon, <1>1, SpawnFits, GenNotZero
  <1>3. /\ spawned' = g /\ wk' = g /\ hasTx' = TRUE /\ wst' = [wst EXCEPT ![g] = "idle"]
        /\ Take(d, g) /\ UNCHANGED <<cb, reg, cancelled, shut, queue, aborted, lost>>
    BY Zenon, <1>1 DEF Spawn
  <1>4. /\ pc' \in [Dispatcher -> Place] /\ use' \in [Dispatcher -> {0} \cup Gen]
        /\ cap' \in [Dispatcher -> Nat] /\ n' = n /\ since' = since
        /\ pc'[d] = "send" /\ use'[d] = g
        /\ \A e \in Dispatcher : e # d => pc'[e] = pc[e] /\ use'[e] = use[e]
        /\ \A e \in Dispatcher : Ended(e)' = Ended(e) /\ Ended(e) \in Int
        /\ Freshness'
    BY Zenon, <1>0, <1>2, <1>3, TakeEffect
  <1>5. wst[g] = "unborn" /\ wst'[g] = "idle" /\ \A h \in Gen : h # g => wst'[h] = wst[h]
    BY <1>0, <1>1, <1>2, <1>3 DEF RegistryInv
  <1>6. StreamTypes'
    BY <1>0, <1>2, <1>3, <1>4 DEF StreamTypes
  <1>7. Ordered'
    <2>1. \A h \in Gen : Serving(h)' => Serving(h) \/ queue[h] = <<>>
      BY Zenon, <1>0, <1>5 DEF Serving, Ordered
    <2>2. \A h \in Gen : wst'[h] = "unborn" => wst[h] = "unborn"
      BY Zenon, <1>5
    <2>3. \A e \in Dispatcher : Ended(e) <= Ended(e)'
      BY <1>4
    <2> QED
      BY Zenon, <1>0, <1>3, <1>6, <2>1, <2>2, <2>3, OrderFrame
  <1>8. Counted'
    <2>1. ASSUME NEW h \in Gen, h <= g PROVE wst'[h] # "unborn"
      <3>1. CASE h = g
        BY Zenon, <1>5, <3>1
      <3>2. CASE h # g
        <4>1. h <= spawned
          BY <1>0, <1>1, <2>1, <3>2, GenNotZero
        <4> QED
          BY <1>0, <1>5, <3>2, <4>1 DEF Counted
      <3> QED
        BY Zenon, <3>1, <3>2
    <2>2. ASSUME NEW e \in Dispatcher, Sending(e)' PROVE use'[e] # 0 /\ use'[e] <= g
      <3>1. CASE e = d
        BY <1>2, <1>4, <3>1
      <3>2. CASE e # d
        <4>1. use'[e] = use[e] /\ use[e] # 0 /\ use[e] <= spawned
          BY Zenon, <1>0, <1>4, <2>2, <3>2 DEF Counted, Sending
        <4>2. use[e] \in Nat
          <5>1. use[e] \in {0} \cup Gen
            BY Zenon, <1>0 DEF StreamTypes
          <5>2. use[e] \in Gen
            BY Zenon, <4>1, <5>1
          <5> QED
            BY Zenon, <5>2, GenNotZero
        <4> QED
          BY <1>0, <1>1, <4>1, <4>2
      <3> QED
        BY Zenon, <3>1, <3>2
    <2> QED
      BY Zenon, <1>0, <1>2, <1>3, <2>1, <2>2 DEF Counted
  <1>9. Served'
    <2> SUFFICES ASSUME ~cancelled', NEW h \in Gen
                 PROVE  (NoSender(h) \/ (Serving(h) /\ (wst[h] = "recv" => queue[h] # <<>>)))'
      BY Zenon DEF Served
    <2>1. CASE h = g
      BY Zenon, <1>5, <2>1 DEF Serving
    <2>2. CASE h # g
      <3>1. NoSender(h) => NoSender(h)'
        BY Zenon, <1>3, <1>4, <2>2 DEF NoSender
      <3>2. NoSender(h) \/ (Serving(h) /\ (wst[h] = "recv" => queue[h] # <<>>))
        BY Zenon, <1>0, <1>3 DEF Served
      <3> QED
        BY <1>3, <1>5, <2>2, <3>1, <3>2 DEF Serving
    <2> QED
      BY <2>1, <2>2
  <1>10. AcceptedDelivered'
    <2>1. \A e, k : Accounted(e, k) => Accounted(e, k)'
      BY Zenon, <1>3, <1>5, AccountedKept DEF Serving
    <2> QED
      BY Zenon, <1>0, <1>3, <1>4, <2>1 DEF AcceptedDelivered
  <1> QED
    BY Zenon, <1>4, <1>6, <1>7, <1>8, <1>9, <1>10 DEF StreamInv

LEMMA ChunkTypes ==
  ASSUME StreamTypes
  PROVE  /\ \A i \in 1..Len(ran) : ran[i].d \in Dispatcher /\ ran[i].n \in Nat
         /\ \A h \in Gen : \A i \in 1..Len(queue[h]) :
               queue[h][i].d \in Dispatcher /\ queue[h][i].n \in Nat
  <1>1. \A c \in QueuedChunk : c.d \in Dispatcher /\ c.n \in Nat
    BY Zenon DEF QueuedChunk
  <1>2. ASSUME NEW i \in 1..Len(ran) PROVE ran[i] \in QueuedChunk
    BY DEF StreamTypes
  <1>3. ASSUME NEW h \in Gen, NEW i \in 1..Len(queue[h]) PROVE queue[h][i] \in QueuedChunk
    <2>1. queue[h] \in Seq(QueuedChunk)
      BY Zenon DEF StreamTypes
    <2> QED
      BY <2>1
  <1> QED
    BY <1>1, <1>2, <1>3

\* What try_send and send put at the end of the queue.
LEMMA EnqueueEffect ==
  ASSUME StreamTypes, Counted, NEW d \in Dispatcher, Sending(d), Enqueue(d)
  PROVE  \E g \in Gen, c \in QueuedChunk :
            /\ g = use[d] /\ c.d = d /\ c.n = n[d] /\ c.v = cap[d] /\ c.since = since[d]
            /\ queue' \in [Gen -> Seq(QueuedChunk)]
            /\ Len(queue'[g]) = Len(queue[g]) + 1 /\ Len(queue[g]) \in Nat
            /\ queue'[g][Len(queue[g]) + 1] = c
            /\ \A i \in 1..Len(queue[g]) : queue'[g][i] = queue[g][i]
            /\ \A h \in Gen : h # g => queue'[h] = queue[h]
  <1>1. PICK g : g = use[d]
    OBVIOUS
  <1>2. PICK c : c = Chunk(d)
    OBVIOUS
  <1>3. g \in Gen
    BY Zenon, <1>1 DEF Counted, StreamTypes
  <1>4. /\ c \in QueuedChunk
        /\ c.d = d /\ c.n = n[d] /\ c.v = cap[d] /\ c.since = since[d]
    BY <1>1, <1>2, <1>3 DEF Chunk, QueuedChunk, StreamTypes
  <1>5. queue' = [queue EXCEPT ![g] = Append(queue[g], c)]
    BY Zenon, <1>1, <1>2 DEF Enqueue
  <1>6. queue \in [Gen -> Seq(QueuedChunk)] /\ queue[g] \in Seq(QueuedChunk)
    BY Zenon, <1>3 DEF StreamTypes
  <1>7. queue'[g] = Append(queue[g], c) /\ \A h \in Gen : h # g => queue'[h] = queue[h]
    BY Zenon, <1>3, <1>5, <1>6
  <1>8. queue' \in [Gen -> Seq(QueuedChunk)]
    BY <1>3, <1>4, <1>5, <1>6
  <1>9. /\ Len(queue'[g]) = Len(queue[g]) + 1 /\ Len(queue[g]) \in Nat
        /\ queue'[g][Len(queue[g]) + 1] = c
        /\ \A i \in 1..Len(queue[g]) : queue'[g][i] = queue[g][i]
    BY <1>4, <1>6, <1>7
  <1> QED
    BY Zenon, <1>1, <1>3, <1>4, <1>7, <1>8, <1>9

LEMMA EnqueueStream ==
  ASSUME RegistryInv, StreamInv, NEW d \in Dispatcher, Sending(d), Enqueue(d),
         UNCHANGED <<mapVars, wst, aborted, ran>>
  PROVE  StreamInv'
  <1> USE DEF mapVars
  <1>0. StreamTypes /\ Freshness /\ Ordered /\ Counted /\ Served /\ AcceptedDelivered
    BY Zenon DEF StreamInv
  <1>1. Return(d) /\ lost' = lost /\ pc[d] # "idle"
    BY Zenon DEF Enqueue, Sending
  <1>2. /\ pc' \in [Dispatcher -> Place] /\ n' = n
        /\ use' \in [Dispatcher -> {0} \cup Gen] /\ cap' \in [Dispatcher -> Nat]
        /\ since' \in [Dispatcher -> Nat]
        /\ pc'[d] = "idle" /\ Ended(d)' = n[d] /\ Ended(d) = n[d] - 1 /\ n[d] \in Nat
        /\ \A e \in Dispatcher : e # d =>
              /\ pc'[e] = pc[e] /\ use'[e] = use[e] /\ cap'[e] = cap[e] /\ since'[e] = since[e]
              /\ Ended(e)' = Ended(e) /\ Ended(e) \in Int
    BY Zenon, <1>0, <1>1, ReturnEffect
  <1>3. PICK g \in Gen, c \in QueuedChunk :
            /\ g = use[d] /\ c.d = d /\ c.n = n[d] /\ c.v = cap[d] /\ c.since = since[d]
            /\ queue' \in [Gen -> Seq(QueuedChunk)]
            /\ Len(queue'[g]) = Len(queue[g]) + 1 /\ Len(queue[g]) \in Nat
            /\ queue'[g][Len(queue[g]) + 1] = c
            /\ \A i \in 1..Len(queue[g]) : queue'[g][i] = queue[g][i]
            /\ \A h \in Gen : h # g => queue'[h] = queue[h]
    BY Zenon, <1>0, EnqueueEffect
  <1>4. /\ \A i \in 1..Len(queue'[g]) : i \in 1..Len(queue[g]) \/ i = Len(queue[g]) + 1
        /\ \A i \in 1..Len(queue[g]) : i \in 1..Len(queue'[g])
        /\ \A i, j \in 1..Len(queue'[g]) : i < j => i \in 1..Len(queue[g])
    <2>1. Len(queue'[g]) = Len(queue[g]) + 1 /\ Len(queue[g]) \in Nat
      BY Zenon, <1>3
    <2> QED
      BY <2>1
  <1>5. StreamTypes'
    BY Zenon, <1>0, <1>2, <1>3 DEF StreamTypes
  <1>6. \A e \in Dispatcher : Sending(e)' => e # d /\ Sending(e) /\ use'[e] = use[e]
    BY Zenon, <1>2 DEF Sending
  <1>7. Freshness'
    <2>1. Earliest' = Earliest
      BY Zenon DEF Earliest
    <2>2. ASSUME NEW e \in Dispatcher, pc'[e] # "idle"
          PROVE  since'[e] <= Earliest' /\ (Sending(e)' => since'[e] <= cap'[e])
      <3>1. e # d
        BY <1>2, <2>2
      <3> QED
        BY Zenon, <1>0, <1>2, <1>6, <2>1, <2>2, <3>1 DEF Freshness
    <2>3. ASSUME NEW h \in Gen, NEW i \in 1..Len(queue'[h])
          PROVE  queue'[h][i].v >= queue'[h][i].since
      <3>1. CASE h # g
        BY Zenon, <1>0, <1>3, <2>3, <3>1 DEF Freshness
      <3>2. CASE h = g /\ i \in 1..Len(queue[g])
        BY Zenon, <1>0, <1>3, <3>2 DEF Freshness
      <3>3. CASE h = g /\ i = Len(queue[g]) + 1
        <4>1. since[d] <= cap[d] /\ since[d] \in Nat /\ cap[d] \in Nat
          BY Zenon, <1>0 DEF Freshness, StreamTypes
        <4> QED
          BY Zenon, <1>3, <3>3, <4>1
      <3> QED
        BY Zenon, <1>4, <2>3, <3>1, <3>2, <3>3
    <2>4. \A e \in Dispatcher : Sending(e)' => pc'[e] # "idle"
      BY DEF Sending
    <2> QED
      BY Zenon, <1>0, <2>2, <2>3, <2>4 DEF Freshness, FreshCallback
  <1>8. Ordered'
    <2>0. \A e \in Dispatcher : Ended(e) <= Ended(e)' /\ Ended(e) \in Int /\ Ended(e)' \in Int
      BY <1>2
    <2>1. \A i \in 1..Len(ran) : ran[i].d \in Dispatcher /\ ran[i].n \in Nat
      BY Zenon, <1>0, ChunkTypes
    <2>2. \A h \in Gen : \A i \in 1..Len(queue[h]) :
             queue[h][i].d \in Dispatcher /\ queue[h][i].n \in Nat
      BY Zenon, <1>0, ChunkTypes
    <2>3. (\A i \in 1..Len(ran) : ran[i].n <= Ended(ran[i].d))'
      BY <1>0, <2>0, <2>1 DEF Ordered
    <2>4. \A h \in Gen : wst[h] = "unborn" => queue'[h] = <<>>
      <3>1. wst[g] # "unborn"
        BY Zenon, <1>0, <1>3 DEF Counted
      <3> QED
        BY Zenon, <1>0, <1>3, <3>1 DEF Ordered
    <2>5. ASSUME NEW h \in Gen, NEW i \in 1..Len(queue'[h])
          PROVE  (queue[h][i].n <= Ended(queue[h][i].d))'
      <3>1. CASE h # g
        <4>1. queue'[h] = queue[h]
          BY Zenon, <1>3, <3>1
        <4>2. /\ queue[h][i].n <= Ended(queue[h][i].d)
              /\ queue[h][i].d \in Dispatcher /\ queue[h][i].n \in Nat
          BY Zenon, <1>0, <2>2, <2>5, <4>1 DEF Ordered
        <4> QED
          BY <2>0, <4>1, <4>2
      <3>2. CASE h = g /\ i \in 1..Len(queue[g])
        <4>1. queue'[h][i] = queue[h][i]
          BY Zenon, <1>3, <3>2
        <4>2. /\ queue[h][i].n <= Ended(queue[h][i].d)
              /\ queue[h][i].d \in Dispatcher /\ queue[h][i].n \in Nat
          BY Zenon, <1>0, <2>2, <3>2 DEF Ordered
        <4> QED
          BY <2>0, <4>1, <4>2
      <3>3. CASE h = g /\ i = Len(queue[g]) + 1
        BY <1>2, <1>3, <3>3
      <3> QED
        BY Zenon, <1>4, <2>5, <3>1, <3>2, <3>3
    <2>6. ASSUME NEW h \in Gen, NEW i \in 1..Len(queue'[h]), NEW j \in 1..Len(queue'[h]),
                 i < j, queue'[h][i].d = queue'[h][j].d
          PROVE  queue'[h][i].n < queue'[h][j].n
      <3>1. CASE h # g
        <4>1. queue'[h] = queue[h]
          BY Zenon, <1>3, <3>1
        <4> QED
          BY Zenon, <1>0, <2>6, <4>1 DEF Ordered
      <3>2. CASE h = g /\ j \in 1..Len(queue[g])
        <4>1. i \in 1..Len(queue[g])
          BY Zenon, <1>4, <2>6, <3>2
        <4>2. queue'[h][i] = queue[h][i] /\ queue'[h][j] = queue[h][j]
          BY Zenon, <1>3, <3>2, <4>1
        <4> QED
          BY Zenon, <1>0, <2>6, <3>2, <4>1, <4>2 DEF Ordered
      <3>3. CASE h = g /\ j = Len(queue[g]) + 1
        <4>1. i \in 1..Len(queue[g])
          BY Zenon, <1>4, <2>6, <3>3
        <4>2. queue'[h][i] = queue[h][i] /\ queue'[h][j] = c
          BY Zenon, <1>3, <3>3, <4>1
        <4>3. queue[h][i].d = d /\ queue[h][i].n <= Ended(queue[h][i].d)
          BY Zenon, <1>0, <1>3, <2>6, <3>3, <4>1, <4>2 DEF Ordered
        <4>4. queue[h][i].n \in Nat
          BY Zenon, <2>2, <3>3, <4>1
        <4>5. c.n = n[d] /\ Ended(d) = n[d] - 1 /\ n[d] \in Nat
          BY Zenon, <1>2, <1>3
        <4> QED
          BY <4>2, <4>3, <4>4, <4>5
      <3> QED
        BY Zenon, <1>4, <2>6, <3>1, <3>2, <3>3
    <2>7. ASSUME NEW h \in Gen, Serving(h), NEW i \in 1..Len(ran), NEW j \in 1..Len(queue'[h]),
                 ran[i].d = queue'[h][j].d
          PROVE  ran[i].n < queue'[h][j].n
      <3>1. CASE h # g
        <4>1. queue'[h] = queue[h]
          BY Zenon, <1>3, <3>1
        <4> QED
          BY Zenon, <1>0, <2>7, <4>1 DEF Ordered
      <3>2. CASE h = g /\ j \in 1..Len(queue[g])
        <4>1. queue'[h][j] = queue[h][j]
          BY Zenon, <1>3, <3>2
        <4> QED
          BY Zenon, <1>0, <2>7, <3>2, <4>1 DEF Ordered
      <3>3. CASE h = g /\ j = Len(queue[g]) + 1
        <4>1. ran[i].d = d /\ ran[i].n <= Ended(ran[i].d)
          BY Zenon, <1>0, <1>3, <2>7, <3>3 DEF Ordered
        <4>2. queue'[h][j].n = n[d] /\ ran[i].n \in Nat
          BY Zenon, <1>3, <2>1, <3>3
        <4>3. Ended(d) = n[d] - 1 /\ n[d] \in Nat
          BY Zenon, <1>2
        <4> QED
          BY <4>1, <4>2, <4>3
      <3> QED
        BY Zenon, <1>4, <2>7, <3>1, <3>2, <3>3
    <2>8. FifoPerStream'
      BY <1>0 DEF Ordered, FifoPerStream
    <2>9. \A h : Serving(h)' <=> Serving(h)
      BY Zenon DEF Serving
    <2> QED
      BY Zenon, <2>3, <2>4, <2>5, <2>6, <2>7, <2>8, <2>9 DEF Ordered
  <1>9. Counted'
    BY Zenon, <1>0, <1>6, CountFrame DEF Counted
  <1>10. \A h \in Gen : queue[h] # <<>> => queue'[h] # <<>>
    BY <1>3
  <1>11. Served'
    BY Zenon, <1>0, <1>6, <1>10, SenderFrame, ServeFrame
  <1>12. AcceptedDelivered'
    <2> SUFFICES ASSUME ~cancelled PROVE AcceptedDelivered'
      BY Zenon DEF AcceptedDelivered
    <2>1. Serving(g)
      BY Zenon, <1>0, <1>3 DEF Served, NoSender, Sending
    <2>2. ASSUME NEW e \in Dispatcher, NEW k \in Nat, Accounted(e, k) PROVE Accounted(e, k)'
      <3>1. CASE [d |-> e, n |-> k] \in lost \/ \E i \in 1..Len(ran) : ran[i].d = e /\ ran[i].n = k
        BY Zenon, <1>1, <3>1 DEF Accounted
      <3>2. ASSUME NEW h \in Gen, Serving(h), NEW i \in 1..Len(queue[h]),
                   queue[h][i].d = e, queue[h][i].n = k
            PROVE  Accounted(e, k)'
        <4>1. i \in 1..Len(queue'[h]) /\ queue'[h][i] = queue[h][i]
          BY Zenon, <1>3, <1>4, <3>2
        <4>2. Serving(h)'
          BY Zenon, <3>2 DEF Serving
        <4> QED
          BY Zenon, <3>2, <4>1, <4>2 DEF Accounted
      <3> QED
        BY Zenon, <2>2, <3>1, <3>2 DEF Accounted
    <2>3. ASSUME NEW k, k = n[d] PROVE Accounted(d, k)'
      <3>1. Len(queue[g]) + 1 \in 1..Len(queue'[g])
        <4>1. Len(queue'[g]) = Len(queue[g]) + 1 /\ Len(queue[g]) \in Nat
          BY Zenon, <1>3
        <4> QED
          BY <4>1
      <3>2. Serving(g)'
        BY Zenon, <2>1 DEF Serving
      <3>3. queue'[g][Len(queue[g]) + 1].d = d /\ queue'[g][Len(queue[g]) + 1].n = k
        BY Zenon, <1>3, <2>3
      <3> QED
        BY Zenon, <3>1, <3>2, <3>3 DEF Accounted
    <2>4. ASSUME NEW e \in Dispatcher, NEW k \in 1..Ended(e)'
          PROVE  k <= Ended(e) \/ Accounted(e, k)'
      <3>1. CASE e # d
        BY <1>2, <3>1
      <3>2. CASE e = d /\ k # n[d]
        BY <1>2, <3>2
      <3>3. CASE e = d /\ k = n[d]
        BY Zenon, <2>3, <3>3
      <3> QED
        BY Zenon, <3>1, <3>2, <3>3
    <2> QED
      BY Zenon, <1>0, <2>2, <2>4, AccountFrame
  <1> QED
    BY Zenon, <1>5, <1>7, <1>8, <1>9, <1>11, <1>12 DEF StreamInv

LEMMA ReceiveStream ==
  ASSUME RegistryInv, StreamInv, NEW d \in Dispatcher, DispatchStep(d)
  PROVE  StreamInv'
  <1>0. StreamTypes
    BY Zenon DEF StreamInv
  <1>1. use \in [Dispatcher -> {0} \cup Gen]
    BY <1>0 DEF StreamTypes
  <1>2. CASE WorkerTx(d)
    <2>0. pc[d] = "look" /\ pc[d] # "idle" /\ ran' = ran
      BY Zenon, <1>2 DEF WorkerTx
    <2>1. CASE Refused
      <3>1. Drop(d) /\ UNCHANGED <<mapVars, workVars>>
        BY Zenon, <1>2, <2>1 DEF WorkerTx
      <3> QED
        BY <2>0, <3>1, DropStream
    <2>2. CASE ~Refused /\ Busy /\ hasTx
      <3>1. Take(d, wk) /\ UNCHANGED <<mapVars, workVars, lost>> /\ cb # 0
        BY Zenon, <1>2, <2>2 DEF WorkerTx, Refused
      <3> QED
        BY <2>0, <2>2, <3>1, TakeStream
    <2>3. CASE ~Refused /\ ~Busy
      <3>1. Spawn(d)
        BY Zenon, <1>2, <2>3 DEF WorkerTx
      <3> QED
        BY <2>0, <2>3, <3>1, SpawnStream
    <2>4. CASE ~Refused /\ Busy /\ ~hasTx
      <3>1. /\ use' = [use EXCEPT ![d] = wk] /\ Goto(d, "draining")
            /\ UNCHANGED <<mapVars, workVars, n, cap, since, lost>>
        BY <1>2, <2>4 DEF WorkerTx
      <3>2. wk \in Gen
        <4>1. wk # 0 /\ wk \in 0..spawned /\ spawned <= reg /\ reg \in 0..Versions
              /\ spawned \in Nat
          BY Zenon, <2>4 DEF Busy, StreamInv, StreamTypes, Counted, RegistryInv
        <4> QED
          BY <4>1, DataChunkAssumption DEF Gen
      <3>3. /\ use' \in [Dispatcher -> {0} \cup Gen]
            /\ \A e \in Dispatcher : e # d => use'[e] = use[e]
        BY Zenon, <1>1, <3>1, <3>2
      <3>4. "draining" \in Place \ {"idle"} /\ "draining" \notin {"send", "stalled"}
        BY DEF Place
      <3> QED
        BY Zenon, <2>0, <3>1, <3>3, <3>4, GoOnStream
    <2> QED
      BY <2>1, <2>2, <2>3, <2>4
  <1>3. CASE Subscribe(d)
    <2>1. PICK to \in {"look", "wait"} : Goto(d, to)
      BY Zenon, <1>3 DEF Subscribe
    <2>2. /\ UNCHANGED <<n, use, cap, since, mapVars, workVars, ran, lost>>
          /\ pc[d] # "idle"
      BY <1>3 DEF Subscribe
    <2>3. to \in Place \ {"idle"} /\ to \notin {"send", "stalled"}
      BY Zenon DEF Place
    <2> QED
      BY <1>1, <2>1, <2>2, <2>3, GoOnStream
  <1>4. CASE Wake(d)
    <2>0. pc[d] # "idle" /\ UNCHANGED <<mapVars, workVars, ran>>
      BY Zenon, <1>4 DEF Wake
    <2>1. CASE Goto(d, "look") /\ UNCHANGED <<n, use, cap, since, lost>>
      <3>1. "look" \in Place \ {"idle"} /\ "look" \notin {"send", "stalled"}
        BY Zenon DEF Place
      <3> QED
        BY Zenon, <1>1, <2>0, <2>1, <3>1, GoOnStream
    <2>2. CASE Drop(d)
      BY Zenon, <2>0, <2>2, DropStream
    <2> QED
      BY Zenon, <1>4, <2>1, <2>2 DEF Wake
  <1>5. CASE Send(d) \/ Stalled(d)
    <2>0. /\ Sending(d) /\ pc[d] # "idle"
          /\ UNCHANGED <<mapVars, wst, finished, aborted, cur, ran>>
      BY Zenon, <1>5 DEF Send, Stalled, Sending
    <2>1. CASE Drop(d) /\ UNCHANGED queue
      BY Zenon, <2>0, <2>1, DropStream DEF workVars
    <2>2. CASE Enqueue(d)
      BY Zenon, <2>0, <2>2, EnqueueStream
    <2>3. CASE Goto(d, "stalled") /\ UNCHANGED <<n, use, cap, since, lost, queue>>
      <3>1. "stalled" \in Place \ {"idle"}
        BY Zenon DEF Place
      <3> QED
        BY <1>1, <2>0, <2>3, <3>1, GoOnStream DEF workVars
    <2> QED
      BY Zenon, <1>5, <2>1, <2>2, <2>3 DEF Send, Stalled
  <1> QED
    BY <1>2, <1>3, <1>4, <1>5 DEF DispatchStep

-----------------------------------------------------------------------------
(* The workers *)

\* A worker moves on, runs nothing, and leaves nothing behind before a shutdown.
LEMMA WorkStream ==
  ASSUME StreamInv, NEW g \in Gen, wst' = [wst EXCEPT ![g] = wst'[g]],
         wst = [h \in Gen |-> wst[h]], wst'[g] # "unborn",
         UNCHANGED <<cb, reg, hasTx, spawned, cancelled, shut, aborted, callVars, ran, lost>>,
         wk' = wk \/ (wk' = 0 /\ cb = 0), wk' \in 0..spawned,
         queue' = queue \/ queue' = [queue EXCEPT ![g] = <<>>],
         Serving(g)' => Serving(g),
         ~cancelled /\ Serving(g) => queue' = queue /\ (Serving(g)' \/ queue[g] = <<>>),
         ~cancelled => NoSender(g)
                       \/ (Serving(g)' /\ (wst'[g] = "recv" => queue'[g] # <<>>))
  PROVE  StreamInv'
  <1> USE DEF callVars
  <1>0. StreamTypes /\ Freshness /\ Ordered /\ Counted /\ Served /\ AcceptedDelivered
    BY Zenon DEF StreamInv
  <1>1. \A h \in Gen : h # g => wst'[h] = wst[h]
    OBVIOUS
  <1>2. /\ queue' \in [Gen -> Seq(QueuedChunk)]
        /\ \A h \in Gen : queue'[h] = queue[h] \/ queue'[h] = <<>>
        /\ \A h \in Gen : h # g => queue'[h] = queue[h]
    <2>1. queue \in [Gen -> Seq(QueuedChunk)] /\ <<>> \in Seq(QueuedChunk)
      BY <1>0 DEF StreamTypes
    <2> QED
      BY Zenon, <2>1
  <1>3. StreamTypes'
    BY <1>0, <1>2 DEF StreamTypes
  <1>4. Freshness'
    <2>1. Earliest' = Earliest /\ Earliest \in Nat
      BY Zenon, <1>0, <1>3, EarliestNat DEF Earliest
    <2> QED
      BY <1>0, <1>2, <1>3, <2>1, FreshFrame DEF Sending
  <1>5. Ordered'
    <2>1. \A d \in Dispatcher : Ended(d)' = Ended(d) /\ Ended(d) \in Int
      BY <1>0 DEF Ended, StreamTypes
    <2>2. \A h \in Gen : Serving(h)' => Serving(h)
      BY Zenon, <1>1 DEF Serving
    <2>3. \A h \in Gen : wst'[h] = "unborn" => wst[h] = "unborn"
      BY Zenon, <1>1
    <2> QED
      BY <1>0, <1>2, <1>3, <2>1, <2>2, <2>3, OrderFrame
  <1>6. hasTx' => hasTx /\ wk' = wk /\ cb' = cb
    BY Zenon, <1>0 DEF Counted
  <1>7. Counted'
    <2>1. \A h \in Gen : wst'[h] = "unborn" => wst[h] = "unborn"
      BY Zenon, <1>1
    <2> QED
      BY Zenon, <1>0, <1>6, <2>1, CountFrame DEF Counted, Sending
  <1>8. Served'
    <2> SUFFICES ASSUME ~cancelled, NEW h \in Gen
                 PROVE  (NoSender(h) \/ (Serving(h) /\ (wst[h] = "recv" => queue[h] # <<>>)))'
      BY Zenon DEF Served
    <2>1. NoSender(h) => NoSender(h)'
      BY Zenon, <1>6, SenderFrame DEF Sending
    <2>2. CASE h = g
      BY Zenon, <2>1, <2>2
    <2>3. CASE h # g
      BY Zenon, <1>0, <1>1, <1>2, <2>1, <2>3 DEF Served, Serving
    <2> QED
      BY Zenon, <2>2, <2>3
  <1>9. AcceptedDelivered'
    <2> SUFFICES ASSUME ~cancelled PROVE AcceptedDelivered'
      BY Zenon DEF AcceptedDelivered
    <2>1. ASSUME NEW e \in Dispatcher, NEW k \in Nat, Accounted(e, k) PROVE Accounted(e, k)'
      <3>1. CASE [d |-> e, n |-> k] \in lost \/ \E i \in 1..Len(ran) : ran[i].d = e /\ ran[i].n = k
        BY Zenon, <3>1 DEF Accounted
      <3>2. ASSUME NEW h \in Gen, Serving(h), NEW i \in 1..Len(queue[h]),
                   queue[h][i].d = e, queue[h][i].n = k
            PROVE  Accounted(e, k)'
        <4>1. Serving(h)' /\ queue'[h] = queue[h]
          <5>1. CASE h # g
            BY Zenon, <1>1, <1>2, <3>2, <5>1 DEF Serving
          <5>2. CASE h = g
            <6>1. queue[g] # <<>>
              BY <3>2, <5>2
            <6> QED
              BY Zenon, <3>2, <5>2, <6>1
          <5> QED
            BY Zenon, <5>1, <5>2
        <4> QED
          BY Zenon, <3>2, <4>1 DEF Accounted
      <3> QED
        BY Zenon, <2>1, <3>1, <3>2 DEF Accounted
    <2>2. \A e \in Dispatcher : Ended(e)' = Ended(e) /\ Ended(e) \in Int
      BY <1>0 DEF Ended, StreamTypes
    <2> QED
      BY <1>0, <2>1, <2>2, AccountFrame
  <1> QED
    BY Zenon, <1>3, <1>4, <1>5, <1>7, <1>8, <1>9 DEF StreamInv

\* The first chunk of the queue becomes the last of those that ran.
LEMMA RunEffect ==
  ASSUME StreamTypes, NEW g \in Gen, queue[g] # <<>>, Run(g, Head(queue[g]))
  PROVE  \E c \in QueuedChunk :
            /\ c = queue[g][1] /\ 1 \in 1..Len(queue[g]) /\ Len(queue[g]) \in Nat
            /\ queue' \in [Gen -> Seq(QueuedChunk)]
            /\ \A h \in Gen : h # g => queue'[h] = queue[h]
            /\ Len(queue'[g]) = Len(queue[g]) - 1
            /\ \A i \in 1..Len(queue'[g]) : queue'[g][i] = queue[g][i + 1]
            /\ ran' \in Seq(QueuedChunk) /\ Len(ran) \in Nat
            /\ Len(ran') = Len(ran) + 1 /\ ran'[Len(ran) + 1] = c
            /\ \A i \in 1..Len(ran) : ran'[i] = ran[i]
  <1>0. /\ queue \in [Gen -> Seq(QueuedChunk)] /\ queue[g] \in Seq(QueuedChunk)
        /\ ran \in Seq(QueuedChunk)
    BY Zenon DEF StreamTypes
  <1>1. PICK c : c = Head(queue[g])
    OBVIOUS
  <1>2. c \in QueuedChunk /\ c = queue[g][1] /\ 1 \in 1..Len(queue[g]) /\ Len(queue[g]) \in Nat
    BY <1>0, <1>1
  <1>3. queue' = [queue EXCEPT ![g] = Tail(queue[g])] /\ ran' = Append(ran, c)
    BY Zenon, <1>1 DEF Run
  <1>4. /\ Tail(queue[g]) \in Seq(QueuedChunk) /\ Len(Tail(queue[g])) = Len(queue[g]) - 1
        /\ \A i \in 1..Len(Tail(queue[g])) : Tail(queue[g])[i] = queue[g][i + 1]
    BY <1>0
  <1>5. queue'[g] = Tail(queue[g]) /\ \A h \in Gen : h # g => queue'[h] = queue[h]
    BY Zenon, <1>0, <1>3
  <1>6. queue' \in [Gen -> Seq(QueuedChunk)]
    BY Zenon, <1>0, <1>3, <1>4
  <1>7. /\ ran' \in Seq(QueuedChunk) /\ Len(ran) \in Nat
        /\ Len(ran') = Len(ran) + 1 /\ ran'[Len(ran) + 1] = c
        /\ \A i \in 1..Len(ran) : ran'[i] = ran[i]
    BY <1>0, <1>2, <1>3
  <1>8. \A i \in 1..Len(queue'[g]) : queue'[g][i] = queue[g][i + 1]
    BY Zenon, <1>4, <1>5
  <1> QED
    BY Zenon, <1>2, <1>4, <1>5, <1>6, <1>7, <1>8

LEMMA RunStream ==
  ASSUME RegistryInv, StreamInv, NEW g \in Gen, wst[g] = "recv", queue[g] # <<>>,
         Run(g, Head(queue[g])), UNCHANGED <<mapVars, aborted, callVars, lost>>
  PROVE  StreamInv'
  <1> USE DEF mapVars, callVars
  <1>0. StreamTypes /\ Freshness /\ Ordered /\ Counted /\ Served /\ AcceptedDelivered
    BY Zenon DEF StreamInv
  <1>1. PICK c \in QueuedChunk :
            /\ c = queue[g][1] /\ 1 \in 1..Len(queue[g]) /\ Len(queue[g]) \in Nat
            /\ queue' \in [Gen -> Seq(QueuedChunk)]
            /\ \A h \in Gen : h # g => queue'[h] = queue[h]
            /\ Len(queue'[g]) = Len(queue[g]) - 1
            /\ \A i \in 1..Len(queue'[g]) : queue'[g][i] = queue[g][i + 1]
            /\ ran' \in Seq(QueuedChunk) /\ Len(ran) \in Nat
            /\ Len(ran') = Len(ran) + 1 /\ ran'[Len(ran) + 1] = c
            /\ \A i \in 1..Len(ran) : ran'[i] = ran[i]
    BY Zenon, <1>0, RunEffect
  <1>2. wst'[g] = "run" /\ \A h \in Gen : h # g => wst'[h] = wst[h]
    BY Zenon DEF Run, Work, RegistryInv
  <1>3. \A i \in 1..Len(ran') : i \in 1..Len(ran) \/ i = Len(ran) + 1
    BY <1>1
  <1>4. \A i \in 1..Len(queue'[g]) : i + 1 \in 1..Len(queue[g]) /\ 1 < i + 1
    BY <1>1
  <1>5. StreamTypes'
    BY Zenon, <1>0, <1>1 DEF StreamTypes
  <1>51. ASSUME NEW h \in Gen, NEW i \in 1..Len(queue'[h])
         PROVE  \E j \in 1..Len(queue[h]) : queue'[h][i] = queue[h][j]
    <2>1. CASE h = g
      <3>1. i + 1 \in 1..Len(queue[h]) /\ queue'[h][i] = queue[h][i + 1]
        BY Zenon, <1>1, <1>4, <1>51, <2>1
      <3> QED
        BY Zenon, <3>1
    <2>2. CASE h # g
      <3>1. queue'[h] = queue[h]
        BY Zenon, <1>1, <2>2
      <3> QED
        BY Zenon, <3>1
    <2> QED
      BY Zenon, <2>1, <2>2
  <1>6. Freshness'
    <2>1. ASSUME NEW h \in Gen, NEW i \in 1..Len(queue'[h])
          PROVE  queue'[h][i].v >= queue'[h][i].since
      <3>1. PICK j \in 1..Len(queue[h]) : queue'[h][i] = queue[h][j]
        BY Zenon, <1>51
      <3> QED
        BY Zenon, <1>0, <3>1 DEF Freshness
    <2>2. c.v >= c.since
      BY Zenon, <1>0, <1>1 DEF Freshness
    <2>3. FreshCallback'
      BY Zenon, <1>0, <1>1, <1>3, <2>2 DEF Freshness, FreshCallback
    <2> QED
      BY Zenon, <1>0, <2>1, <2>3 DEF Freshness, Sending, Earliest
  <1>7. \A d \in Dispatcher : Ended(d)' = Ended(d) /\ Ended(d) \in Int
    BY <1>0 DEF Ended, StreamTypes
  <1>8. Ordered'
    <2>0. /\ c.d \in Dispatcher /\ c.n \in Nat /\ c.n <= Ended(c.d)
          /\ \A i \in 1..Len(ran) : ran[i].d \in Dispatcher /\ ran[i].n \in Nat
      BY Zenon, <1>0, <1>1, ChunkTypes DEF Ordered
    <2>1. \A h \in Gen : \A i \in 1..Len(queue[h]) :
             queue[h][i].d \in Dispatcher /\ queue[h][i].n \in Nat
      BY Zenon, <1>0, ChunkTypes
    <2>2. ASSUME NEW i \in 1..Len(ran') PROVE (ran[i].n <= Ended(ran[i].d))'
      <3>1. CASE i \in 1..Len(ran)
        BY Zenon, <1>0, <1>1, <1>7, <2>0, <3>1 DEF Ordered
      <3>2. CASE i = Len(ran) + 1
        BY Zenon, <1>1, <1>7, <2>0, <3>2
      <3> QED
        BY Zenon, <1>3, <2>2, <3>1, <3>2
    <2>3. ASSUME NEW h \in Gen, wst'[h] = "unborn" PROVE queue'[h] = <<>>
      <3>1. h # g
        BY Zenon, <1>2, <2>3
      <3> QED
        BY Zenon, <1>0, <1>1, <1>2, <2>3, <3>1 DEF Ordered
    <2>4. ASSUME NEW h \in Gen, NEW i \in 1..Len(queue'[h])
          PROVE  (queue[h][i].n <= Ended(queue[h][i].d))'
      <3>1. PICK j \in 1..Len(queue[h]) : queue'[h][i] = queue[h][j]
        BY Zenon, <1>51
      <3> QED
        BY Zenon, <1>0, <1>7, <2>1, <3>1 DEF Ordered
    <2>5. ASSUME NEW h \in Gen, NEW i \in 1..Len(queue'[h]), NEW j \in 1..Len(queue'[h]),
                 i < j, queue'[h][i].d = queue'[h][j].d
          PROVE  queue'[h][i].n < queue'[h][j].n
      <3>1. PICK a \in 1..Len(queue[h]), b \in 1..Len(queue[h]) :
               a < b /\ queue'[h][i] = queue[h][a] /\ queue'[h][j] = queue[h][b]
        <4>1. CASE h = g
          <5>1. i + 1 < j + 1
            BY <1>1, <2>5, <4>1
          <5> QED
            BY Zenon, <1>1, <1>4, <2>5, <4>1, <5>1
        <4>2. CASE h # g
          BY Zenon, <1>1, <2>5, <4>2
        <4> QED
          BY <4>1, <4>2
      <3> QED
        BY Zenon, <1>0, <2>5, <3>1 DEF Ordered
    <2>6. ASSUME NEW h \in Gen, Serving(h)', NEW i \in 1..Len(ran'), NEW j \in 1..Len(queue'[h]),
                 ran'[i].d = queue'[h][j].d
          PROVE  ran'[i].n < queue'[h][j].n
      <3>1. h = g /\ Serving(g)
        <4>1. Live(h) /\ Live(g) /\ Serving(g)
          BY Zenon, <1>2, <2>6 DEF Live, Serving
        <4> QED
          BY Zenon, <4>1, GenNotZero DEF RegistryInv
      <3>2. j + 1 \in 1..Len(queue[g]) /\ 1 < j + 1 /\ queue'[h][j] = queue[g][j + 1]
        BY Zenon, <1>1, <1>4, <2>6, <3>1
      <3>3. CASE i \in 1..Len(ran)
        <4>1. ran'[i] = ran[i]
          BY Zenon, <1>1, <3>3
        <4> QED
          BY Zenon, <1>0, <2>6, <3>1, <3>2, <3>3, <4>1 DEF Ordered
      <3>4. CASE i = Len(ran) + 1
        <4>1. ran'[i] = queue[g][1] /\ 1 \in 1..Len(queue[g])
          BY Zenon, <1>1, <3>4
        <4> QED
          BY Zenon, <1>0, <2>6, <3>1, <3>2, <4>1 DEF Ordered
      <3> QED
        BY Zenon, <1>3, <2>6, <3>3, <3>4
    <2>7. ASSUME NEW i \in 1..Len(ran'), NEW j \in 1..Len(ran'), i < j, ran'[i].d = ran'[j].d
          PROVE  ran'[i].n < ran'[j].n
      <3>1. i \in 1..Len(ran)
        BY <1>1, <1>3, <2>7
      <3>2. CASE j \in 1..Len(ran)
        BY Zenon, <1>0, <1>1, <2>7, <3>1, <3>2 DEF Ordered, FifoPerStream
      <3>3. CASE j = Len(ran) + 1
        <4>1. Serving(g) /\ ran'[i] = ran[i] /\ ran'[j] = queue[g][1]
          BY Zenon, <1>1, <3>1, <3>3 DEF Serving
        <4>2. 1 \in 1..Len(queue[g])
          BY Zenon, <1>1
        <4> QED
          BY Zenon, <1>0, <2>7, <3>1, <4>1, <4>2 DEF Ordered
      <3> QED
        BY Zenon, <1>3, <2>7, <3>2, <3>3
    <2>8. FifoPerStream'
      BY <2>7 DEF FifoPerStream
    <2> QED
      BY Zenon, <2>2, <2>3, <2>4, <2>5, <2>6, <2>8 DEF Ordered
  <1>9. Counted'
    <2>1. \A h \in Gen : wst'[h] = "unborn" => wst[h] = "unborn"
      BY Zenon, <1>2
    <2> QED
      BY Zenon, <1>0, <2>1, CountFrame DEF Counted, Sending
  <1>10. Served'
    <2>1. \A h \in Gen : NoSender(h)' <=> NoSender(h)
      BY Zenon DEF NoSender
    <2> QED
      BY Zenon, <1>0, <1>1, <1>2, <2>1 DEF Served, Serving
  <1>11. AcceptedDelivered'
    <2>1. ASSUME NEW e \in Dispatcher, NEW k \in Nat, Accounted(e, k) PROVE Accounted(e, k)'
      <3>1. CASE [d |-> e, n |-> k] \in lost
        BY Zenon, <3>1 DEF Accounted
      <3>2. ASSUME NEW i \in 1..Len(ran), ran[i].d = e, ran[i].n = k PROVE Accounted(e, k)'
        <4>1. i \in 1..Len(ran') /\ ran'[i] = ran[i]
          BY <1>1
        <4> QED
          BY Zenon, <3>2, <4>1 DEF Accounted
      <3>3. ASSUME NEW h \in Gen, Serving(h), NEW i \in 1..Len(queue[h]),
                   queue[h][i].d = e, queue[h][i].n = k
            PROVE  Accounted(e, k)'
        <4>0. Serving(h)'
          BY <1>2, <3>3 DEF Serving
        <4>1. CASE h # g
          BY Zenon, <1>1, <3>3, <4>0, <4>1 DEF Accounted
        <4>2. CASE h = g /\ i = 1
          <5>1. Len(ran) + 1 \in 1..Len(ran') /\ ran'[Len(ran) + 1] = queue[h][i]
            BY <1>1, <4>2
          <5> QED
            BY Zenon, <3>3, <5>1 DEF Accounted
        <4>3. CASE h = g /\ i # 1
          <5>1. PICK m \in 1..Len(queue'[g]) : m + 1 = i
            <6>1. i - 1 \in 1..Len(queue'[g]) /\ (i - 1) + 1 = i
              BY <1>1, <3>3, <4>3
            <6> QED
              BY Zenon, <6>1
          <5>2. queue'[g][m] = queue[g][i]
            BY Zenon, <1>1, <5>1
          <5> QED
            BY Zenon, <3>3, <4>0, <4>3, <5>2 DEF Accounted
        <4> QED
          BY Zenon, <4>1, <4>2, <4>3
      <3> QED
        BY Zenon, <2>1, <3>1, <3>2, <3>3 DEF Accounted
    <2> QED
      BY <1>0, <1>7, <2>1, AccountFrame
  <1> QED
    BY Zenon, <1>5, <1>6, <1>8, <1>9, <1>10, <1>11 DEF StreamInv

LEMMA WorkerStream ==
  ASSUME RegistryInv, StreamInv, NEW g \in Gen, WorkerStep(g)
  PROVE  StreamInv'
  <1>0. /\ StreamTypes /\ Counted /\ Served /\ wst = [h \in Gen |-> wst[h]]
        /\ wk \in 0..spawned /\ 0 \in 0..spawned
    <2>1. spawned \in Nat /\ wk \in 0..spawned
      BY Zenon DEF StreamInv, StreamTypes, RegistryInv
    <2> QED
      BY <2>1 DEF StreamInv, RegistryInv
  <1>1. ASSUME NEW to, Work(g, to) PROVE wst' = [wst EXCEPT ![g] = wst'[g]] /\ wst'[g] = to
    BY Zenon, <1>0, <1>1 DEF Work
  <1>2. ~cancelled => NoSender(g) \/ (Serving(g) /\ (wst[g] = "recv" => queue[g] # <<>>))
    BY Zenon, <1>0 DEF Served
  <1>3. CASE Poll(g)
    <2>1. /\ UNCHANGED <<mapVars, queue, aborted, callVars, ran, lost>> /\ wst[g] = "idle"
          /\ ~cancelled => queue[g] # <<>> \/ NoSender(g)
      BY Zenon, <1>3 DEF Poll
    <2>2. /\ wst' = [wst EXCEPT ![g] = wst'[g]]
          /\ wst'[g] = IF cancelled THEN "ended" ELSE "recv"
      BY Zenon, <1>1, <1>3 DEF Poll
    <2> QED
      BY Zenon, <1>0, <2>1, <2>2, WorkStream DEF mapVars, Serving
  <1>4. CASE Recv(g)
    <2>0. UNCHANGED <<mapVars, aborted, callVars, lost>> /\ wst[g] = "recv"
      BY Zenon, <1>4 DEF Recv
    <2>1. CASE queue[g] = <<>>
      <3>1. Work(g, "ended") /\ UNCHANGED <<queue, ran>>
        BY Zenon, <1>4, <2>1 DEF Recv
      <3>2. wst' = [wst EXCEPT ![g] = wst'[g]] /\ wst'[g] = "ended"
        BY Zenon, <1>1, <3>1
      <3> QED
        BY Zenon, <1>0, <1>2, <2>0, <2>1, <3>1, <3>2, WorkStream DEF mapVars, Serving
    <2>2. CASE queue[g] # <<>>
      <3>1. Run(g, Head(queue[g]))
        BY Zenon, <1>4, <2>2 DEF Recv
      <3> QED
        BY Zenon, <2>0, <2>2, <3>1, RunStream
    <2> QED
      BY Zenon, <2>1, <2>2
  <1>5. CASE CallbackEnds(g)
    <2>1. UNCHANGED <<mapVars, queue, aborted, callVars, ran, lost>> /\ wst[g] = "run"
      BY Zenon, <1>5 DEF CallbackEnds
    <2>2. wst' = [wst EXCEPT ![g] = wst'[g]] /\ wst'[g] = "idle"
      BY Zenon, <1>1, <1>5 DEF CallbackEnds
    <2> QED
      BY Zenon, <1>0, <2>1, <2>2, WorkStream DEF mapVars, Serving
  <1>6. CASE MarkFinished(g)
    <2>1. UNCHANGED <<mapVars, queue, aborted, callVars, ran, lost>> /\ wst[g] = "ended"
      BY Zenon, <1>6 DEF MarkFinished
    <2>2. wst' = [wst EXCEPT ![g] = wst'[g]] /\ wst'[g] = "clean"
      BY Zenon, <1>1, <1>6 DEF MarkFinished
    <2> QED
      BY Zenon, <1>0, <1>2, <2>1, <2>2, WorkStream DEF mapVars, Serving
  <1>7. CASE CleanUp(g)
    <2>1. /\ UNCHANGED <<cb, reg, hasTx, spawned, cancelled, shut, aborted, callVars, ran, lost>>
          /\ wst[g] = "clean" /\ (wk' = wk \/ (wk' = 0 /\ cb = 0))
          /\ queue' = [queue EXCEPT ![g] = <<>>]
      BY Zenon, <1>7 DEF CleanUp
    <2>2. wst' = [wst EXCEPT ![g] = wst'[g]] /\ wst'[g] = "done"
      BY Zenon, <1>1, <1>7 DEF CleanUp
    <2>3. wk' \in 0..spawned
      BY <1>0, <2>1
    <2> QED
      BY Zenon, <1>0, <1>2, <2>1, <2>2, <2>3, WorkStream DEF Serving
  <1>8. CASE Die(g)
    <2>1. /\ UNCHANGED <<mapVars, aborted, callVars, ran, lost>>
          /\ cancelled /\ queue' = [queue EXCEPT ![g] = <<>>]
      BY Zenon, <1>0, <1>8 DEF Die, Counted
    <2>2. wst' = [wst EXCEPT ![g] = wst'[g]] /\ wst'[g] = "dead"
      BY Zenon, <1>1, <1>8 DEF Die
    <2> QED
      BY Zenon, <1>0, <2>1, <2>2, WorkStream DEF mapVars, Serving
  <1> QED
    BY Zenon, <1>3, <1>4, <1>5, <1>6, <1>7, <1>8 DEF WorkerStep

LEMMA NextStream == RegistryInv /\ StreamInv /\ [Next]_vars => StreamInv'
  <1> SUFFICES ASSUME RegistryInv, StreamInv, [Next]_vars PROVE StreamInv'
    OBVIOUS
  <1>1. CASE Register \/ Unregister \/ Cancel \/ Shutdown \/ ShutdownEnds \/ Clear
    BY <1>1, MapStream
  <1>2. ASSUME NEW d \in Dispatcher, Dispatch(d) PROVE StreamInv'
    BY Zenon, <1>2, DispatchStream
  <1>3. ASSUME NEW d \in Dispatcher, DispatchStep(d) PROVE StreamInv'
    BY Zenon, <1>3, ReceiveStream
  <1>4. ASSUME NEW g \in Gen, WorkerStep(g) PROVE StreamInv'
    BY Zenon, <1>4, WorkerStream
  <1>5. CASE UNCHANGED vars
    <2>1. UNCHANGED <<cb, reg, wk, hasTx, spawned, cancelled, shut, aborted, queue, wst,
                      callVars, ran, lost>>
      BY Zenon, <1>5 DEF vars, callVars
    <2>2. StreamTypes /\ StreamTypes'
      BY Zenon, <2>1 DEF StreamInv, StreamTypes, callVars
    <2>3. Counted'
      BY Zenon, <2>1, CountFrame DEF StreamInv, Counted, Sending, callVars
    <2>4. Earliest' = Earliest /\ Earliest \in Nat
      BY <2>1, <2>2, EarliestNat DEF Earliest
    <2> QED
      BY <2>1, <2>2, <2>3, <2>4, MapFrame
  <1> QED
    BY <1>1, <1>2, <1>3, <1>4, <1>5 DEF Next

\* The queues hold what the receive tasks sent, in order, each chunk with a
\* callback no older than its dispatch, and serve it as long as there is a sender.
THEOREM StreamInvariant == Spec => []StreamInv
  BY InitStream, NextStream, RegistryInvariant, PTL DEF Spec

\* For any number of receive tasks, chunks, registrations and any depth of the
\* queue, callbacks of a stream start in the order of its receive task
\* (dispatch, worker_loop).
THEOREM InOrderPerStream == Spec => []FifoPerStream
  <1>1. StreamInv => FifoPerStream
    BY DEF StreamInv, Ordered
  <1> QED
    BY <1>1, StreamInvariant, PTL

\* "accepted == delivered" for any number of registrations and chunks: before a
\* shutdown no chunk is left in the queue of a worker that has stopped.
THEOREM AcceptedIsDelivered == Spec => []AcceptedDelivered
  <1>1. StreamInv => AcceptedDelivered
    BY DEF StreamInv
  <1> QED
    BY <1>1, StreamInvariant, PTL

\* A chunk never runs a callback that was replaced or unregistered before its
\* dispatch began, however many registrations there are (worker_tx, run_callback).
THEOREM CallbacksFresh == Spec => []FreshCallback
  <1>1. StreamInv => FreshCallback
    BY Zenon DEF StreamInv, Freshness
  <1> QED
    BY <1>1, StreamInvariant, PTL
==============================================================================
