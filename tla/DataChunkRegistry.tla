-------------------------- MODULE DataChunkRegistry --------------------------
(***************************************************************************)
(* One stream of core/hyper/src/inbound/data_chunk_registry.rs.            *)
(*                                                                         *)
(* A receive task per transport class dispatches the chunks of a stream,   *)
(* one after the other, into the bounded queue of the stream's worker,     *)
(* which it spawns when there is none.  Each queued chunk carries the      *)
(* callback that was registered when it was dispatched.  Unregistering     *)
(* drops the stored sender, so that the worker drains its queue and ends;  *)
(* a dispatch that meets a draining worker waits for it.  Every access to  *)
(* the map is one step under its mutex; the awaits of a dispatch lie       *)
(* between steps.  Streams share nothing but the mutex and the shutdown.   *)
(***************************************************************************)
EXTENDS Integers, Sequences

CONSTANTS
    Reliable,       \* receive tasks of StreamReliable
    Latency,        \* receive tasks of StreamLatencyFirst
    Chunks,         \* bound: chunks each of them dispatches
    QueueDepth,     \* RegistryInner::queue_depth
    Versions        \* bound: callbacks that are registered

ASSUME DataChunkAssumption ==
    /\ Chunks \in Nat \ {0}
    /\ QueueDepth \in Nat \ {0}
    /\ Versions \in Nat \ {0}
    /\ Reliable \cap Latency = {}

Dispatcher == Reliable \cup Latency

\* A worker ends only after its stream was unregistered or the registry shut
\* down, so there are at most as many workers as registrations.
Gen == 1..Versions

VARIABLES
    cb,         \* StreamEntry::callback: its version, 0 for none
    reg,        \* callbacks registered so far
    wk,         \* StreamEntry::worker: its generation, 0 for none
    hasTx,      \* StreamWorker::tx is still there
    spawned,    \* next_generation
    cancelled,  \* the shutdown token
    shut,       \* shutting_down
    queue,      \* the channel of each worker
    wst,        \* where each worker is
    finished,   \* its WorkerDone flag
    aborted,    \* it was told to abort
    cur,        \* chunk it took from the queue
    pc,         \* where each dispatcher is
    n,          \* chunks it has begun to dispatch
    use,        \* worker it sends to or waits for
    cap,        \* callback it captured
    since,      \* history: oldest callback its chunk may still be given to
    ran,        \* history: callbacks started, in order
    lost,       \* history: chunks that were not accepted
    handle,     \* worker whose handle shutdown or clear took, 0 for none
    down        \* shutdown(): "no", "join" or "over"

mapVars == <<cb, reg, wk, hasTx, spawned, cancelled, shut>>
workVars == <<queue, wst, finished, aborted, cur>>
callVars == <<pc, n, use, cap, since>>
vars == <<cb, reg, wk, hasTx, spawned, cancelled, shut, queue, wst, finished, aborted, cur,
          pc, n, use, cap, since, ran, lost, handle, down>>

NoChunk == [d |-> "none", n |-> 0, g |-> 0, v |-> 0, since |-> 0]

\* QueuedChunk: who sent it, its number, the worker and the callback it is for.
Chunk(d) == [d |-> d, n |-> n[d], g |-> use[d], v |-> cap[d], since |-> since[d]]

Init ==
    /\ cb = 0 /\ reg = 0 /\ wk = 0 /\ hasTx = FALSE /\ spawned = 0
    /\ cancelled = FALSE /\ shut = FALSE
    /\ queue = [g \in Gen |-> <<>>]
    /\ wst = [g \in Gen |-> "unborn"]
    /\ finished = [g \in Gen |-> FALSE]
    /\ aborted = [g \in Gen |-> FALSE]
    /\ cur = [g \in Gen |-> NoChunk]
    /\ pc = [d \in Dispatcher |-> "idle"]
    /\ n = [d \in Dispatcher |-> 0]
    /\ use = [d \in Dispatcher |-> 0]
    /\ cap = [d \in Dispatcher |-> 0]
    /\ since = [d \in Dispatcher |-> 0]
    /\ ran = <<>>
    /\ lost = {}
    /\ handle = 0
    /\ down = "no"

-----------------------------------------------------------------------------
(* The map: register and unregister *)

Closing == shut \/ cancelled

Register ==
    /\ reg < Versions
    /\ ~Closing
    /\ reg' = reg + 1
    /\ cb' = reg + 1
    /\ UNCHANGED <<wk, hasTx, spawned, cancelled, shut, workVars, callVars, ran, lost, handle, down>>

\* Mutant: the entry goes away at once, its draining worker with it.
Unregister_Forget ==
    /\ cb' = 0
    /\ hasTx' = FALSE
    /\ wk' = 0
    /\ UNCHANGED <<reg, spawned, cancelled, shut, workVars, callVars, ran, lost, handle, down>>

\* The sender is dropped and the worker stays tracked until it has finished.
Unregister ==
    /\ cb' = 0
    /\ hasTx' = FALSE
    /\ wk' = IF wk # 0 /\ ~finished[wk] THEN wk ELSE 0
    /\ UNCHANGED <<reg, spawned, cancelled, shut, workVars, callVars, ran, lost, handle, down>>

-----------------------------------------------------------------------------
(* A receive task: dispatch and worker_tx *)

Goto(d, to) == pc' = [pc EXCEPT ![d] = to]

\* The call is over, its locals with it.
Return(d) ==
    /\ Goto(d, "idle")
    /\ use' = [use EXCEPT ![d] = 0]
    /\ cap' = [cap EXCEPT ![d] = 0]
    /\ since' = [since EXCEPT ![d] = 0]
    /\ UNCHANGED n

Drop(d) == lost' = lost \cup {[d |-> d, n |-> n[d]]} /\ Return(d)

\* The oldest callback that a chunk dispatched now may be given to.
Earliest == IF cb = 0 THEN reg + 1 ELSE cb

\* The next chunk of the class arrives.
Dispatch(d) ==
    /\ pc[d] = "idle"
    /\ n[d] < Chunks
    /\ n' = [n EXCEPT ![d] = @ + 1]
    /\ since' = [since EXCEPT ![d] = Earliest]
    /\ Goto(d, "look")
    /\ UNCHANGED <<use, cap, mapVars, workVars, ran, lost, handle, down>>

\* worker_tx found a sender: it is cloned with the callback of this moment.
Take(d, g) ==
    /\ use' = [use EXCEPT ![d] = g]
    /\ cap' = [cap EXCEPT ![d] = cb]
    /\ Goto(d, "send")
    /\ UNCHANGED <<n, since>>

\* A worker of the next generation takes the place of none or of a finished one.
Spawn(d) ==
    LET g == spawned + 1 IN
    /\ spawned' = g
    /\ wk' = g
    /\ hasTx' = TRUE
    /\ wst' = [wst EXCEPT ![g] = "idle"]
    /\ Take(d, g)
    /\ UNCHANGED <<cb, reg, cancelled, shut, queue, finished, aborted, cur, lost>>

\* The entry has a worker that has not finished.
Busy == wk # 0 /\ ~finished[wk]

\* No callback, or no registry, is left for the chunk.
Refused == Closing \/ cb = 0

\* Mutant: a new worker is spawned beside one that still drains.
WorkerTx_NoWait(d) ==
    /\ pc[d] = "look"
    /\ CASE Refused -> Drop(d) /\ UNCHANGED <<mapVars, workVars>>
         [] ~Refused /\ Busy /\ hasTx -> Take(d, wk) /\ UNCHANGED <<mapVars, workVars, lost>>
         [] OTHER -> Spawn(d)
    /\ UNCHANGED <<ran, handle, down>>

\* One look at the entry under the mutex; a worker that drains is waited for.
WorkerTx(d) ==
    /\ pc[d] = "look"
    /\ CASE Refused -> Drop(d) /\ UNCHANGED <<mapVars, workVars>>
         [] ~Refused /\ Busy /\ hasTx -> Take(d, wk) /\ UNCHANGED <<mapVars, workVars, lost>>
         [] ~Refused /\ ~Busy -> Spawn(d)
         [] ~Refused /\ Busy /\ ~hasTx -> /\ use' = [use EXCEPT ![d] = wk]
                                         /\ Goto(d, "draining")
                                         /\ UNCHANGED <<mapVars, workVars, n, cap, since, lost>>
    /\ UNCHANGED <<ran, handle, down>>

\* Mutant: the flag is not read again after the subscription.
Subscribe_NoRecheck(d) ==
    /\ pc[d] = "draining"
    /\ Goto(d, IF finished[use[d]] THEN "deaf" ELSE "wait")
    /\ UNCHANGED <<n, use, cap, since, mapVars, workVars, ran, lost, handle, down>>

\* Outside the mutex: subscribe to the worker's done watch, which takes its
\* present value as seen, and read the flag once more.
Subscribe(d) ==
    /\ pc[d] = "draining"
    /\ Goto(d, IF finished[use[d]] THEN "look" ELSE "wait")
    /\ UNCHANGED <<n, use, cap, since, mapVars, workVars, ran, lost, handle, down>>

\* The watch changed, or the registry was shut down.
Wake(d) ==
    /\ pc[d] = "wait"
    /\ \/ finished[use[d]] /\ Goto(d, "look") /\ UNCHANGED <<n, use, cap, since, lost>>
       \/ cancelled /\ Drop(d)
    /\ UNCHANGED <<mapVars, workVars, ran, handle, down>>

\* The receiver lives as long as its worker.
Closed(g) == wst[g] \in {"done", "dead"}

Enqueue(d) ==
    /\ queue' = [queue EXCEPT ![use[d]] = Append(@, Chunk(d))]
    /\ Return(d)
    /\ UNCHANGED lost

\* try_send: accepted, dropped, or, for a reliable chunk, back-pressure.
Send(d) ==
    LET g == use[d] IN
    /\ pc[d] = "send"
    /\ \/ Closed(g) /\ Drop(d) /\ UNCHANGED queue
       \/ ~Closed(g) /\ Len(queue[g]) < QueueDepth /\ Enqueue(d)
       \/ /\ ~Closed(g) /\ Len(queue[g]) = QueueDepth /\ UNCHANGED queue
          /\ \/ d \in Latency /\ Drop(d)
             \/ d \in Reliable /\ Goto(d, "stalled") /\ UNCHANGED <<n, use, cap, since, lost>>
    /\ UNCHANGED <<mapVars, wst, finished, aborted, cur, ran, handle, down>>

\* send().await: until there is room or the worker is gone.
Stalled(d) ==
    LET g == use[d] IN
    /\ pc[d] = "stalled"
    /\ \/ Closed(g) /\ Drop(d) /\ UNCHANGED queue
       \/ ~Closed(g) /\ Len(queue[g]) < QueueDepth /\ Enqueue(d)
    /\ UNCHANGED <<mapVars, wst, finished, aborted, cur, ran, handle, down>>

-----------------------------------------------------------------------------
(* A worker: worker_loop and run_callback *)

\* Every sender of the worker is gone, the clones of dispatches in progress too.
NoSender(g) ==
    /\ wk = g => ~hasTx
    /\ \A d \in Dispatcher : ~(use[d] = g /\ pc[d] \in {"send", "stalled"})

Work(g, to) == wst' = [wst EXCEPT ![g] = to]

\* The biased select is woken: a cancelled token ends the loop, and the queue is
\* polled only after the token was.
Poll(g) ==
    /\ wst[g] = "idle"
    /\ cancelled \/ queue[g] # <<>> \/ NoSender(g)
    /\ Work(g, IF cancelled THEN "ended" ELSE "recv")
    /\ UNCHANGED <<mapVars, queue, finished, aborted, cur, callVars, ran, lost, handle, down>>

\* The callback of a chunk starts.
Run(g, chunk) ==
    /\ cur' = [cur EXCEPT ![g] = chunk]
    /\ queue' = [queue EXCEPT ![g] = Tail(@)]
    /\ ran' = Append(ran, chunk)
    /\ Work(g, "run")

\* Mutant: a worker whose stream was unregistered leaves its queue behind.
Recv_Undrained(g) ==
    /\ wst[g] = "recv"
    /\ IF queue[g] = <<>> \/ (wk = g /\ ~hasTx)
       THEN Work(g, "ended") /\ UNCHANGED <<cur, queue, ran>>
       ELSE Run(g, Head(queue[g]))
    /\ UNCHANGED <<mapVars, finished, aborted, callVars, lost, handle, down>>

\* Mutant: a worker keeps the callback of its first chunk.
Recv_Pinned(g) ==
    /\ wst[g] = "recv"
    /\ LET mine == SelectSeq(ran, LAMBDA c : c.g = g) IN
       IF queue[g] = <<>>
       THEN Work(g, "ended") /\ UNCHANGED <<cur, queue, ran>>
       ELSE Run(g, [Head(queue[g]) EXCEPT !.v = IF mine = <<>> THEN @ ELSE mine[1].v])
    /\ UNCHANGED <<mapVars, finished, aborted, callVars, lost, handle, down>>

\* recv: the next chunk, or nothing is left and every sender is gone.
Recv(g) ==
    /\ wst[g] = "recv"
    /\ IF queue[g] = <<>>
       THEN Work(g, "ended") /\ UNCHANGED <<cur, queue, ran>>
       ELSE Run(g, Head(queue[g]))
    /\ UNCHANGED <<mapVars, finished, aborted, callVars, lost, handle, down>>

\* The callback returned, failed or panicked: all three go on with the loop.
CallbackEnds(g) ==
    /\ wst[g] = "run"
    /\ cur' = [cur EXCEPT ![g] = NoChunk]
    /\ Work(g, "idle")
    /\ UNCHANGED <<mapVars, queue, finished, aborted, callVars, ran, lost, handle, down>>

\* mark_finished sets the flag and sends on the watch,
MarkFinished(g) ==
    /\ wst[g] = "ended"
    /\ finished' = [finished EXCEPT ![g] = TRUE]
    /\ Work(g, "clean")
    /\ UNCHANGED <<mapVars, queue, aborted, cur, callVars, ran, lost, handle, down>>

\* then the worker removes an unregistered entry, if it is still its own.
CleanUp(g) ==
    /\ wst[g] = "clean"
    /\ wk' = IF cb = 0 /\ wk = g THEN 0 ELSE wk
    /\ Work(g, "done")
    /\ queue' = [queue EXCEPT ![g] = <<>>]
    /\ UNCHANGED <<cb, reg, hasTx, spawned, cancelled, shut, finished, aborted, cur, callVars, ran, lost, handle, down>>

\* The runtime drops a task that was aborted, once it is back at an await.
Die(g) ==
    /\ aborted[g] /\ wst[g] \in {"idle", "recv", "run"}
    /\ Work(g, "dead")
    /\ cur' = [cur EXCEPT ![g] = NoChunk]
    /\ queue' = [queue EXCEPT ![g] = <<>>]
    /\ UNCHANGED <<mapVars, finished, aborted, callVars, ran, lost, handle, down>>

-----------------------------------------------------------------------------
(* Teardown: the node's token, shutdown and clear *)

\* The token is a child of the node's, which cancels it; shutdown and clear
\* cancel it before they take the mutex.
Cancel ==
    /\ ~cancelled
    /\ cancelled' = TRUE
    /\ UNCHANGED <<cb, reg, wk, hasTx, spawned, shut, workVars, callVars, ran, lost, handle, down>>

\* Under the mutex the map is drained; its worker is joined or aborted.
Drain ==
    /\ cb' = 0 /\ wk' = 0 /\ hasTx' = FALSE
    /\ shut' = TRUE
    /\ UNCHANGED <<reg, spawned, cancelled>>

Shutdown ==
    /\ cancelled /\ ~shut
    /\ Drain
    /\ handle' = wk
    /\ down' = IF wk = 0 THEN "over" ELSE "join"
    /\ UNCHANGED <<workVars, callVars, ran, lost>>

Joined == wst[handle] \in {"done", "dead"}

\* Mutant: when the time is over the worker is left to itself.
ShutdownEnds_Detach ==
    /\ down = "join"
    /\ down' = "over"
    /\ UNCHANGED <<mapVars, workVars, callVars, ran, lost, handle>>

\* The worker was joined; or the time is over, or the shutdown itself is
\* dropped, and it is aborted (AbortWorkersOnDrop).
ShutdownEnds ==
    /\ down = "join"
    /\ down' = "over"
    /\ aborted' = [aborted EXCEPT ![handle] = ~Joined]
    /\ UNCHANGED <<mapVars, queue, wst, finished, cur, callVars, ran, lost, handle>>

\* The synchronous teardown drains and aborts without waiting.
Clear ==
    /\ cancelled /\ ~shut
    /\ Drain
    /\ handle' = wk
    /\ aborted' = [g \in Gen |-> g = wk]
    /\ down' = "over"
    /\ UNCHANGED <<queue, wst, finished, cur, callVars, ran, lost>>

-----------------------------------------------------------------------------
DispatchStep(d) ==
    WorkerTx(d) \/ Subscribe(d) \/ Wake(d) \/ Send(d) \/ Stalled(d)

WorkerStep(g) ==
    Poll(g) \/ Recv(g) \/ CallbackEnds(g) \/ MarkFinished(g) \/ CleanUp(g) \/ Die(g)

Next ==
    \/ Register \/ Unregister \/ Cancel \/ Shutdown \/ ShutdownEnds \/ Clear
    \/ \E d \in Dispatcher : Dispatch(d) \/ DispatchStep(d)
    \/ \E g \in Gen : WorkerStep(g)

Spec == Init /\ [][Next]_vars

\* Spawned tasks and calls in progress keep being polled, and callbacks return.
FairSpec ==
    /\ Spec
    /\ \A d \in Dispatcher : WF_vars(DispatchStep(d))
    /\ \A g \in Gen : WF_vars(WorkerStep(g))

-----------------------------------------------------------------------------
(* Properties *)

\* A worker that may still touch its queue or a callback.
Live(g) == wst[g] \in {"idle", "recv", "run", "ended"}

\* A worker that will still run what lies in its queue.
Serving(g) == wst[g] \in {"idle", "recv", "run"}

\* "This preserves the single-worker invariant": however registering,
\* unregistering, dispatching and draining interleave, a stream never has two
\* workers that have not finished (worker_tx, unregister, worker_loop).
SingleWorker ==
    \A g, h \in Gen : Live(g) /\ Live(h) => g = h

\* Callbacks of a stream start in the order in which its receive task got the
\* chunks, across workers and through back-pressure; each chunk runs once.
FifoPerStream ==
    \A i, j \in 1..Len(ran) : i < j /\ ran[i].d = ran[j].d => ran[i].n < ran[j].n

\* Chunks of the receive task whose dispatch has ended.
Ended(d) == IF pc[d] = "idle" THEN n[d] ELSE n[d] - 1

\* The chunk was refused, has started, or waits for a worker that will run it.
Accounted(d, k) ==
    \/ [d |-> d, n |-> k] \in lost
    \/ \E i \in 1..Len(ran) : ran[i].d = d /\ ran[i].n = k
    \/ \E g \in Gen : Serving(g) /\ \E i \in 1..Len(queue[g]) :
          queue[g][i].d = d /\ queue[g][i].n = k

\* "accepted == delivered": until the registry is shut down, a chunk whose
\* dispatch has ended was refused, or has started, or is in the queue of a
\* worker that is there to run it, whatever was unregistered in between.
AcceptedDelivered ==
    ~cancelled => \A d \in Dispatcher : \A k \in 1..Ended(d) : Accounted(d, k)

\* "re-register = immediate swap": a chunk never runs a callback that was
\* replaced or unregistered before its dispatch began, even when it is the
\* worker of the old registration that runs it.
FreshCallback ==
    \A i \in 1..Len(ran) : ran[i].v >= ran[i].since

\* "No orphan tasks in either path": once shutdown or clear is over, every
\* worker has ended or has been told to abort.
NoOrphans ==
    down = "over" => \A g \in Gen : Live(g) => aborted[g]

\* Why both hold: the entry, or the handle that shutdown or clear took from it,
\* knows every live worker, and the flag of a live worker is not set.
RegistryInv ==
    /\ wst = [g \in Gen |-> wst[g]]
    /\ finished \in [Gen -> BOOLEAN] /\ aborted \in [Gen -> BOOLEAN]
    /\ spawned \in Nat /\ shut \in BOOLEAN
    /\ \A g \in Gen : g > spawned => wst[g] = "unborn" /\ ~finished[g]
    /\ \A g \in Gen : Live(g) => ~finished[g] /\ (wk = g \/ handle = g)
    /\ IF shut THEN wk = 0 ELSE handle = 0
    /\ shut <=> down # "no"
    /\ NoOrphans

Place == {"idle", "look", "draining", "wait", "send", "stalled"}

QueuedChunk == [d : Dispatcher, n : Nat, g : Gen, v : Nat, since : Nat]

\* The dispatch holds a clone of its worker's sender.
Sending(d) == pc[d] \in {"send", "stalled"}

StreamTypes ==
    /\ reg \in 0..Versions /\ (cb = 0 \/ cb = reg) /\ wk \in 0..spawned
    /\ pc \in [Dispatcher -> Place]
    /\ n \in [Dispatcher -> Nat] /\ since \in [Dispatcher -> Nat]
    /\ use \in [Dispatcher -> {0} \cup Gen] /\ cap \in [Dispatcher -> Nat]
    /\ queue \in [Gen -> Seq(QueuedChunk)] /\ ran \in Seq(QueuedChunk)

\* Why a callback is fresh: it is captured after the dispatch began.
Freshness ==
    /\ \A d \in Dispatcher :
          /\ pc[d] # "idle" => since[d] <= Earliest
          /\ Sending(d) => since[d] <= cap[d]
    /\ \A g \in Gen : \A i \in 1..Len(queue[g]) : queue[g][i].v >= queue[g][i].since
    /\ FreshCallback

\* Why the order is kept: a queue holds what its dispatcher sent, in order, and
\* a worker serves a queue of chunks that are younger than those that have run.
Ordered ==
    /\ \A i \in 1..Len(ran) : ran[i].n <= Ended(ran[i].d)
    /\ \A g \in Gen :
          /\ wst[g] = "unborn" => queue[g] = <<>>
          /\ \A i \in 1..Len(queue[g]) : queue[g][i].n <= Ended(queue[g][i].d)
          /\ \A i, j \in 1..Len(queue[g]) :
                i < j /\ queue[g][i].d = queue[g][j].d => queue[g][i].n < queue[g][j].n
          /\ Serving(g) => \A i \in 1..Len(ran), j \in 1..Len(queue[g]) :
                ran[i].d = queue[g][j].d => ran[i].n < queue[g][j].n
    /\ FifoPerStream

\* Each worker has used up a registration; senders belong to workers that exist.
Counted ==
    /\ spawned <= reg
    /\ cb # 0 /\ ~hasTx => spawned < reg
    /\ hasTx => wk # 0 /\ cb # 0
    /\ shut => cancelled
    /\ \A g \in Gen : (g <= spawned => wst[g] # "unborn") /\ (aborted[g] => cancelled)
    /\ \A d \in Dispatcher : Sending(d) => use[d] # 0 /\ use[d] <= spawned

\* Why what is accepted is delivered: until the shutdown a worker with a sender
\* serves its queue, and polls it only when something is there.
Served ==
    ~cancelled => \A g \in Gen :
        NoSender(g) \/ (Serving(g) /\ (wst[g] = "recv" => queue[g] # <<>>))

StreamInv ==
    StreamTypes /\ Freshness /\ Ordered /\ Counted /\ Served /\ AcceptedDelivered

\* Every dispatch returns, whatever happens to the worker it waits for or sends
\* to: a chunk that is stuck would stop the whole receive task of its class.
DispatchReturns ==
    \A d \in Dispatcher : []<>(pc[d] = "idle")
=============================================================================
