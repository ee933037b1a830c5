------------------------------- MODULE Dedup -------------------------------
(***************************************************************************)
(* Request deduplication: DedupState (core/hyper/src/lifecycle/dedup.rs)   *)
(* together with the part of Inner::admit_incoming that consults it, the   *)
(* wait of a duplicate for the original's result, and the completion that  *)
(* the dispatch continuation writes back (core/hyper/src/lifecycle/node.rs)*)
(*                                                                         *)
(* A delivery is one arrival of an envelope; the sender's retries are      *)
(* further deliveries with the same request_id.  Instants are modelled by  *)
(* ages that stop growing at Ttl, the only limit the code compares them    *)
(* with, so time itself is unbounded.                                      *)
(***************************************************************************)
EXTENDS Integers, FiniteSets

CONSTANTS
    Delivery,   \* arrivals of envelopes
    Id,         \* request_ids
    Ttl,        \* DEDUP_TTL, in ticks
    TimeoutMs   \* the values of RpcEnvelope.timeout_ms, in ticks; not positive: none

ASSUME DedupAssumption ==
    /\ Ttl \in Nat \ {0}
    /\ TimeoutMs \subseteq Int

VARIABLES
    idOf,       \* request_id of each delivery
    tells,      \* the request_ids whose envelopes are tells
    timeoutOf,  \* timeout_ms of each delivery
    entries,    \* DedupState::entries
    stage,      \* how far each delivery has come
    waiter,     \* what a waiting delivery's watch channel holds
    patience,   \* ticks until a waiting delivery gives up
    answer,     \* the result handed to the caller
    runs,       \* history: handler runs started per request_id
    joined,     \* history: the run that each delivery belongs to
    sinceRun,   \* history: ticks since the last run of a request_id started
    sinceDone   \* history: ticks since the last run of a request_id ended

dedupVars == <<idOf, tells, timeoutOf, entries, stage, waiter, patience, answer,
          runs, joined, sinceRun, sinceDone>>

\* Results: that of run n is n; tells cache an empty success; a duplicate that
\* waits too long gets Unavailable; an ACL denial is an answer as well.
Empty == 0
TimedOut == -1
Denied == -2
NoAnswer == -3

NoEntry == [result |-> "none", age |-> 0, value |-> NoAnswer]

DedupInit ==
    /\ idOf \in [Delivery -> Id]
    /\ tells \in SUBSET Id
    /\ timeoutOf \in [Delivery -> TimeoutMs]
    /\ entries = [i \in Id |-> NoEntry]
    /\ stage = [d \in Delivery |-> "new"]
    /\ waiter = [d \in Delivery |-> NoAnswer]
    /\ patience = [d \in Delivery |-> 0]
    /\ answer = [d \in Delivery |-> NoAnswer]
    /\ runs = [i \in Id |-> 0]
    /\ joined = [d \in Delivery |-> 0]
    /\ sinceRun = [i \in Id |-> Ttl]
    /\ sinceDone = [i \in Id |-> Ttl]

-----------------------------------------------------------------------------
(* DedupState *)

\* Mutants: in-flight entries expire too, or an entry expires one tick early.
Expired_InFlight(e) == e.result # "none" /\ e.age >= Ttl
Expired_Early(e) == e.result = "Done" /\ e.age + 1 >= Ttl

\* Only completed entries expire, Ttl after the request was received.
Expired(e) == e.result = "Done" /\ e.age >= Ttl

evict_expired == [i \in Id |-> IF Expired(entries[i]) THEN NoEntry ELSE entries[i]]

\* The value is sent on the watch channel and kept as the cached result; an
\* entry that is gone is not created again.
complete(i, v) ==
    IF entries[i].result = "none"
    THEN UNCHANGED <<entries, waiter>>
    ELSE /\ entries' = [entries EXCEPT ![i].result = "Done", ![i].value = v]
         /\ waiter' = [d \in Delivery |->
                IF /\ stage[d] = "waiting" /\ idOf[d] = i /\ waiter[d] = NoAnswer
                   /\ entries[i].result = "InFlight"
                THEN v ELSE waiter[d]]

-----------------------------------------------------------------------------
(* admit_incoming and the continuation it returns *)

\* duplicate_wait_timeout: no deadline in the envelope means Ttl.
duplicate_wait_timeout(d) == IF timeoutOf[d] > 0 THEN timeoutOf[d] ELSE Ttl

\* The ACL refuses the caller: no trace in the dedup state.
Deny(d) ==
    /\ stage[d] = "new"
    /\ stage' = [stage EXCEPT ![d] = "answered"]
    /\ answer' = [answer EXCEPT ![d] = Denied]
    /\ UNCHANGED <<idOf, tells, timeoutOf, entries, waiter, patience, runs, joined,
                   sinceRun, sinceDone>>

\* check_or_mark finds no live entry: mark it in flight and dispatch.
Fresh(d) ==
    LET i == idOf[d] IN
    /\ stage[d] = "new"
    /\ evict_expired[i].result = "none"
    /\ entries' = [evict_expired EXCEPT ![i] =
                       [result |-> "InFlight", age |-> 0, value |-> NoAnswer]]
    /\ stage' = [stage EXCEPT ![d] = "running"]
    /\ runs' = [runs EXCEPT ![i] = @ + 1]
    /\ joined' = [joined EXCEPT ![d] = runs[i] + 1]
    /\ sinceRun' = [sinceRun EXCEPT ![i] = 0]
    /\ UNCHANGED <<idOf, tells, timeoutOf, waiter, patience, answer, sinceDone>>

\* The original is still being handled: a tell is dropped, a request waits.
InFlight(d) ==
    LET i == idOf[d] IN
    /\ stage[d] = "new"
    /\ evict_expired[i].result = "InFlight"
    /\ entries' = evict_expired
    /\ joined' = [joined EXCEPT ![d] = runs[i]]
    /\ IF i \in tells
       THEN /\ stage' = [stage EXCEPT ![d] = "answered"]
            /\ answer' = [answer EXCEPT ![d] = Empty]
            /\ UNCHANGED patience
       ELSE /\ stage' = [stage EXCEPT ![d] = "waiting"]
            /\ patience' = [patience EXCEPT ![d] = duplicate_wait_timeout(d)]
            /\ UNCHANGED answer
    /\ UNCHANGED <<idOf, tells, timeoutOf, waiter, runs, sinceRun, sinceDone>>

\* The original is done: its cached result is the answer.
Duplicate(d) ==
    LET i == idOf[d] IN
    /\ stage[d] = "new"
    /\ evict_expired[i].result = "Done"
    /\ entries' = evict_expired
    /\ joined' = [joined EXCEPT ![d] = runs[i]]
    /\ stage' = [stage EXCEPT ![d] = "answered"]
    /\ answer' = [answer EXCEPT ![d] = entries[i].value]
    /\ UNCHANGED <<idOf, tells, timeoutOf, waiter, patience, runs, sinceRun, sinceDone>>

\* The handler returned: the continuation records the completion, on errors
\* too, and answers its own caller.  A tell that succeeded caches empty bytes.
Finish(d, ok) ==
    LET i == idOf[d]
        v == joined[d]
    IN
    /\ stage[d] = "running"
    /\ complete(i, IF ok /\ i \in tells THEN Empty ELSE v)
    /\ stage' = [stage EXCEPT ![d] = "answered"]
    /\ answer' = [answer EXCEPT ![d] = v]
    /\ sinceDone' = [sinceDone EXCEPT ![i] = 0]
    /\ UNCHANGED <<idOf, tells, timeoutOf, patience, runs, joined, sinceRun>>

\* wait_for_inflight_duplicate: the watch channel has the result ...
Resolve(d) ==
    /\ stage[d] = "waiting"
    /\ waiter[d] # NoAnswer
    /\ stage' = [stage EXCEPT ![d] = "answered"]
    /\ answer' = [answer EXCEPT ![d] = waiter[d]]
    /\ UNCHANGED <<idOf, tells, timeoutOf, entries, waiter, patience, runs, joined,
                   sinceRun, sinceDone>>

\* Mutant: the wait lasts as long as the original is in flight.
GiveUp_WhenGone(d) ==
    /\ stage[d] = "waiting"
    /\ waiter[d] = NoAnswer
    /\ patience[d] = 0
    /\ entries[idOf[d]].result # "InFlight"
    /\ stage' = [stage EXCEPT ![d] = "answered"]
    /\ answer' = [answer EXCEPT ![d] = TimedOut]
    /\ UNCHANGED <<idOf, tells, timeoutOf, entries, waiter, patience, runs, joined,
                   sinceRun, sinceDone>>

\* ... or the timeout comes first.
GiveUp(d) ==
    /\ stage[d] = "waiting"
    /\ waiter[d] = NoAnswer
    /\ patience[d] = 0
    /\ stage' = [stage EXCEPT ![d] = "answered"]
    /\ answer' = [answer EXCEPT ![d] = TimedOut]
    /\ UNCHANGED <<idOf, tells, timeoutOf, entries, waiter, patience, runs, joined,
                   sinceRun, sinceDone>>

Older(age) == IF age < Ttl THEN age + 1 ELSE age

Tick ==
    /\ entries' = [i \in Id |-> IF entries[i].result = "none" THEN NoEntry
                                ELSE [entries[i] EXCEPT !.age = Older(@)]]
    /\ patience' = [d \in Delivery |-> IF patience[d] > 0 THEN patience[d] - 1 ELSE 0]
    /\ sinceRun' = [i \in Id |-> Older(sinceRun[i])]
    /\ sinceDone' = [i \in Id |-> Older(sinceDone[i])]
    /\ UNCHANGED <<idOf, tells, timeoutOf, stage, waiter, answer, runs, joined>>

DedupNext ==
    \/ \E d \in Delivery :
          \/ Deny(d) \/ Fresh(d) \/ InFlight(d) \/ Duplicate(d)
          \/ Resolve(d) \/ GiveUp(d)
          \/ \E ok \in BOOLEAN : Finish(d, ok)
    \/ Tick

DedupSpec == DedupInit /\ [][DedupNext]_dedupVars

\* Timers and the executor make progress; handlers need not ever return.
FairDedupSpec ==
    /\ DedupSpec
    /\ WF_dedupVars(Tick)
    /\ \A d \in Delivery : WF_dedupVars(Resolve(d)) /\ WF_dedupVars(GiveUp(d))

-----------------------------------------------------------------------------
(* Properties *)

Entry == [result : {"none", "InFlight", "Done"}, age : 0..Ttl, value : Int]

DedupTypeOK ==
    /\ idOf \in [Delivery -> Id]
    /\ tells \in SUBSET Id
    /\ timeoutOf \in [Delivery -> TimeoutMs]
    /\ entries \in [Id -> Entry]
    /\ stage \in [Delivery -> {"new", "running", "waiting", "answered"}]
    /\ waiter \in [Delivery -> Int]
    /\ patience \in [Delivery -> Nat]
    /\ answer \in [Delivery -> Int]
    /\ runs \in [Id -> Nat]
    /\ joined \in [Delivery -> Nat]
    /\ sinceRun \in [Id -> 0..Ttl]
    /\ sinceDone \in [Id -> 0..Ttl]

\* A retry never re-enters the handler while the original runs, however slow
\* it is ("In-flight entries are retained until completion", evict_expired).
OneRunAtATime ==
    \A c, d \in Delivery :
        stage[c] = "running" /\ stage[d] = "running" /\ idOf[c] = idOf[d] => c = d

\* The in-flight marker is there exactly while a handler runs: complete always
\* finds it, and no fast path of admit_incoming leaves one behind for later
\* deliveries to wait on.
MarkerExact ==
    \A i \in Id : entries[i].result = "InFlight" <=>
        \E d \in Delivery : stage[d] = "running" /\ idOf[d] = i

\* A request is answered with the result of the run it belongs to: its own, or
\* the one that was in flight or cached when it arrived.  It is not answered
\* from an older run of a reused request_id, nor from another request.
AnsweredByOwnRun ==
    \A d \in Delivery :
        stage[d] = "answered" /\ answer[d] \notin {TimedOut, Denied} =>
            answer[d] \in {joined[d]} \cup (IF idOf[d] \in tells THEN {Empty} ELSE {})

\* Two runs of one request_id start at least Ttl apart, whatever the retries
\* and however evictions interleave with them (check_or_mark).
RunsSpaced ==
    [][\A i \in Id : runs'[i] # runs[i] => sinceRun[i] = Ttl]_dedupVars

\* The inductive invariant: ages follow the last run, cached and delivered
\* values come from it, and a waiter's run is still the last one.
RunBookkeeping ==
    /\ \A i \in Id : IF entries[i].result = "none" THEN sinceRun[i] = Ttl
                     ELSE entries[i].age = sinceRun[i]
    /\ \A i \in Id : entries[i].result = "Done" =>
          entries[i].value \in {runs[i]} \cup (IF i \in tells THEN {Empty} ELSE {})
    /\ \A d \in Delivery : stage[d] \in {"running", "waiting"} /\ waiter[d] = NoAnswer =>
          joined[d] = runs[idOf[d]] /\ entries[idOf[d]].result = "InFlight"
    /\ \A d \in Delivery : waiter[d] # NoAnswer =>
          /\ stage[d] \in {"waiting", "answered"}
          /\ waiter[d] \in {joined[d]} \cup (IF idOf[d] \in tells THEN {Empty} ELSE {})

DedupInv == OneRunAtATime /\ MarkerExact /\ AnsweredByOwnRun /\ RunBookkeeping

\* A duplicate is answered, even if the original's handler hangs: by the
\* result, or by the timeout of wait_for_inflight_duplicate.
DuplicatesAnswered ==
    \A d \in Delivery : stage[d] = "waiting" ~> stage[d] = "answered"

\* "caching the response for each `request_id` for a fixed TTL": a retry that
\* comes within Ttl of the response is answered from the cache.
CachedForTtl ==
    [][\A i \in Id : runs'[i] # runs[i] => sinceDone[i] = Ttl]_dedupVars
=============================================================================
