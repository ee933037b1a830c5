--------------------------- MODULE AdmissionProofs ---------------------------
(***************************************************************************)
(* Proofs about the State Path, first part: where a record is in table,    *)
(* batch, continuation, scheduler and handler, and who holds its dedup     *)
(* marker, for any number of messages, request_ids and conflict keys and   *)
(* every capacity.  The argument is the inductive invariant AdmissionInv.  *)
(***************************************************************************)
EXTENDS InboundPath, TLAPS

-----------------------------------------------------------------------------
(* The table: what dequeue hands out *)

\* A batch lists queued rows, each once, in the order of the sort, and leaves
\* no row behind that comes before one of them.
LEMMA BatchShape ==
  ASSUME NEW s \in Batches
  PROVE  /\ s \in Seq(Message)
         /\ \A i \in DOMAIN s : s[i] \in Queued
         /\ \A i, j \in DOMAIN s : s[i] = s[j] => i = j
         /\ \A i, j \in DOMAIN s : i < j => ~Before(s[j], s[i])
         /\ \A i \in DOMAIN s, b \in Queued :
               (\A j \in DOMAIN s : s[j] # b) => ~Before(b, s[i])
  <1>1. PICK n \in 0..BatchSize, S \in Selections : s \in Bijection(1..n, S)
    BY DEF Batches
  <1>2. S \subseteq Queued /\ \A a \in S, b \in Queued \ S : ~Before(b, a)
    BY DEF Selections
  <1>3. S \subseteq Message
    BY <1>2 DEF Queued
  <1>4. n \in Nat
    BY MailboxAssumption
  <1>5. /\ s \in Seq(S)
        /\ \A i, j \in DOMAIN s : s[i] = s[j] => i = j
        /\ \A x \in S : \E i \in DOMAIN s : s[i] = x
    BY <1>1, <1>4 DEF Bijection, Injection, Surjection, IsInjective
  <1>6. s \in Seq(Message) /\ \A i \in DOMAIN s : s[i] \in S
    BY <1>3, <1>5
  <1>7. \A i, j \in DOMAIN s : i < j => ~Before(s[j], s[i])
    BY DEF Batches, Sorted
  <1> QED
    BY <1>2, <1>5, <1>6, <1>7

\* The head and the tail of a batch.
LEMMA HeadTail ==
  ASSUME NEW S, NEW s \in Seq(S), s # <<>>
  PROVE  /\ 1 \in DOMAIN s /\ Head(s) = s[1] /\ Head(s) \in S
         /\ Tail(s) \in Seq(S)
         /\ \A i \in DOMAIN Tail(s) : i + 1 \in DOMAIN s /\ Tail(s)[i] = s[i + 1] /\ i \in Nat
  OBVIOUS

-----------------------------------------------------------------------------
(* The State Path: types *)

\* The steps one by one.
LEMMA Steps ==
  ASSUME Next
  PROVE  \/ \E m \in Message : Enqueue(m) \/ Accept(m) \/ Start(m) \/ Return(m)
         \/ \E m \in Message : Finish(m) \/ Reply(m) \/ GiveUp(m)
         \/ \E m \in Message, ok \in BOOLEAN : Ack(m, ok)
         \/ LoopBreak \/ LoopPoll \/ LoopWake \/ LoopBatchDone \/ LoopDone \/ LoopInvalid \/ LoopIdle
         \/ \E ok \in BOOLEAN : LoopPoison(ok) \/ LoopDrop(ok)
         \/ \E m \in Message : AdmitDenied(m) \/ AdmitDuplicate(m) \/ AdmitFresh(m)
         \/ \E m \in Message : Submit(m) \/ SubmitInline(m)
         \/ LoopDequeue \/ (\E i \in Id : Expire(i))
         \/ Cancel \/ StopBegin \/ StopQuiesced \/ StopClose \/ StopIntake \/ StopDone
         \/ AbortStop \/ AbortLoop \/ Restart
  BY Zenon DEF Next, JobStep, ContStep, LoopStep, RecordStep, AdmitStep, StopStep

\* The loop moves on and touches nothing else.
LoopMoves == LoopBreak \/ LoopPoll \/ LoopWake \/ LoopBatchDone \/ LoopDone \/ LoopInvalid \/ LoopIdle

LEMMA LoopMoving ==
  ASSUME LoopMoves
  PROVE  /\ loop \notin {"drop", "submit", "await", "done", "aborted"}
         /\ loop' \in {"drain", "enter", "select", "done", "sleep", "drop"}
         /\ loop' = "drop" => loop = "batch" /\ batch # <<>> /\ kindOf[Head(batch)] = "invalid"
         /\ UNCHANGED <<tableVars, envelopeVars, dlqVars, contVars, jobVars, ran, stopVars, batch>>
  BY DEF LoopMoves, LoopBreak, LoopPoll, LoopWake, LoopBatchDone, LoopDone, LoopInvalid, LoopIdle,
         allButLoop

LEMMA TypeFrame ==
  /\ TableTypeOK /\ UNCHANGED tableVars => TableTypeOK'
  /\ EnvelopeTypeOK /\ UNCHANGED envelopeVars => EnvelopeTypeOK'
  /\ LoopTypeOK /\ UNCHANGED <<dlqVars, loop, batch>> => LoopTypeOK'
  /\ ContTypeOK /\ UNCHANGED contVars => ContTypeOK'
  /\ JobTypeOK /\ UNCHANGED <<jobVars, ran>> => JobTypeOK'
  /\ StopTypeOK /\ UNCHANGED stopVars => StopTypeOK'
  <1>1. TableTypeOK /\ UNCHANGED tableVars => TableTypeOK'
    BY DEF TableTypeOK, tableVars
  <1>2. EnvelopeTypeOK /\ UNCHANGED envelopeVars => EnvelopeTypeOK'
    BY DEF EnvelopeTypeOK, Envelopes, envelopeVars
  <1>3. LoopTypeOK /\ UNCHANGED <<dlqVars, loop, batch>> => LoopTypeOK'
    BY DEF LoopTypeOK, dlqVars
  <1>4. ContTypeOK /\ UNCHANGED contVars => ContTypeOK'
    BY DEF ContTypeOK, contVars
  <1>5. JobTypeOK /\ UNCHANGED <<jobVars, ran>> => JobTypeOK'
    BY DEF JobTypeOK, jobVars
  <1>6. StopTypeOK /\ UNCHANGED stopVars => StopTypeOK'
    BY Zenon DEF StopTypeOK, stopVars
  <1> QED
    BY <1>1, <1>2, <1>3, <1>4, <1>5, <1>6

LEMMA TypeStep ==
  ASSUME TypeOK, BatchExact, Next
  PROVE  TypeOK'
  <1> USE TypeFrame DEF TypeOK
  <1>1. ASSUME NEW m \in Message, Enqueue(m) PROVE TypeOK'
    <2>1. TableTypeOK'
      BY <1>1 DEF TableTypeOK, Enqueue, Insert
    <2> QED
      BY Zenon, <1>1, <2>1 DEF Enqueue
  <1>2. CASE LoopMoves
    <2>1. LoopTypeOK'
      BY Zenon, <1>2, LoopMoving DEF LoopTypeOK, dlqVars
    <2> QED
      BY Zenon, <1>2, <2>1, LoopMoving
  <1>3. ASSUME NEW m \in Message, Accept(m) \/ Start(m) PROVE TypeOK'
    <2>1. JobTypeOK'
      BY Zenon, <1>3 DEF JobTypeOK, Accept, Start, Dispatcher!Accept, Dispatcher!Start
    <2> QED
      BY Zenon, <1>3, <2>1 DEF Accept, Start
  <1>4. ASSUME NEW m \in Message, Return(m) PROVE TypeOK'
    <2>1. ContTypeOK'
      BY <1>4 DEF ContTypeOK, Return, Result
    <2>2. /\ job' \in [Message -> {"out", "sent", "pending", "running"}]
          /\ before' \in SUBSET (Message \X Message)
          /\ UNCHANGED <<closed, torn>>
      BY <1>4 DEF JobTypeOK, Return, Dispatcher!Finish, Dispatcher!Leave, jobVars
    <2>3. JobTypeOK'
      BY Zenon, <1>4, <2>2 DEF JobTypeOK, Return
    <2> QED
      BY Zenon, <1>4, <2>1, <2>3 DEF Return
  <1>5. ASSUME NEW m \in Message, Finish(m) PROVE TypeOK'
    <2>1. result[m] \in Result /\ idOf[m] \in Id
      BY Zenon DEF ContTypeOK, EnvelopeTypeOK, Envelopes
    <2>2. ContTypeOK'
      BY Zenon, <1>5, <2>1 DEF ContTypeOK, Finish
    <2> QED
      BY Zenon, <1>5, <2>2 DEF Finish
  <1>6. ASSUME NEW m \in Message, Reply(m) \/ GiveUp(m) PROVE TypeOK'
    <2>1. ContTypeOK'
      BY <1>6 DEF ContTypeOK, Reply, GiveUp, Result
    <2> QED
      BY Zenon, <1>6, <2>1 DEF Reply, GiveUp
  <1>7. ASSUME NEW m \in Message, NEW ok \in BOOLEAN, Ack(m, ok) PROVE TypeOK'
    <2>1. TableTypeOK'
      BY Zenon, <1>7 DEF TableTypeOK, Ack, Delete, tableVars
    <2>2. ContTypeOK'
      BY Zenon, <1>7 DEF ContTypeOK, Ack
    <2>3. LoopTypeOK'
      BY Zenon, <1>7 DEF LoopTypeOK, Ack, dlqVars
    <2> QED
      BY Zenon, <1>7, <2>1, <2>2, <2>3 DEF Ack
  <1>8. ASSUME NEW ok \in BOOLEAN, LoopPoison(ok) PROVE TypeOK'
    <2>1. Head(batch) \in Message
      BY Zenon, <1>8, HeadTail DEF LoopPoison, LoopTypeOK
    <2>2. LoopTypeOK'
      BY Zenon, <1>8, <2>1 DEF LoopTypeOK, LoopPoison
    <2> QED
      BY Zenon, <1>8, <2>2 DEF LoopPoison
  <1>9. ASSUME NEW ok \in BOOLEAN, LoopDrop(ok) PROVE TypeOK'
    <2>1. Head(batch) \in Message /\ Tail(batch) \in Seq(Message)
      BY <1>9, HeadTail DEF LoopDrop, LoopTypeOK, BatchExact
    <2>2. LoopTypeOK'
      BY <1>9, <2>1 DEF LoopTypeOK, LoopDrop, dlqVars
    <2>3. TableTypeOK'
      BY Zenon, <1>9, <2>1 DEF TableTypeOK, LoopDrop, Delete, tableVars
    <2> QED
      BY Zenon, <1>9, <2>2, <2>3 DEF LoopDrop
  <1>10. ASSUME NEW m \in Message, AdmitDenied(m) \/ AdmitDuplicate(m) PROVE TypeOK'
    <2>1. Tail(batch) \in Seq(Message)
      BY Zenon, <1>10, HeadTail DEF AdmitDenied, AdmitDuplicate, Admitting, LoopTypeOK
    <2>2. entries[idOf[m]].value \in Result
      BY DEF ContTypeOK, EnvelopeTypeOK, Envelopes
    <2>3. PICK c \in {"resolved", "waiting"}, r \in Result : Admitted(m, c, r)
      BY Zenon, <1>10, <2>2 DEF AdmitDenied, AdmitDuplicate, Result
    <2>4. LoopTypeOK'
      BY Zenon, <1>10, <2>1, <2>3 DEF LoopTypeOK, Admitted, AdmitDenied, AdmitDuplicate, dlqVars
    <2>5. ContTypeOK'
      BY Zenon, <1>10, <2>3 DEF ContTypeOK, Admitted, AdmitDenied, AdmitDuplicate
    <2> QED
      BY Zenon, <1>10, <2>4, <2>5 DEF AdmitDenied, AdmitDuplicate
  <1>11. ASSUME NEW m \in Message, AdmitFresh(m) PROVE TypeOK'
    <2>1. ContTypeOK'
      BY Zenon, <1>11 DEF ContTypeOK, EnvelopeTypeOK, Envelopes, AdmitFresh, Result
    <2>2. LoopTypeOK'
      BY Zenon, <1>11 DEF LoopTypeOK, AdmitFresh, dlqVars
    <2> QED
      BY Zenon, <1>11, <2>1, <2>2 DEF AdmitFresh
  <1>12. ASSUME NEW m \in Message, Submit(m) \/ SubmitInline(m) PROVE TypeOK'
    <2>1. Tail(batch) \in Seq(Message)
      BY <1>12, HeadTail DEF Submit, SubmitInline, BatchExact, LoopTypeOK
    <2>2. PICK c \in {"returned", "submitted"}, r \in {"terminated", "none"} : Admitted(m, c, r)
      BY Zenon, <1>12 DEF Submit, SubmitInline
    <2>3. ContTypeOK'
      BY <1>12, <2>2 DEF ContTypeOK, Admitted, Result, Submit, SubmitInline
    <2>4. LoopTypeOK'
      BY Zenon, <1>12, <2>1, <2>2 DEF LoopTypeOK, Admitted, Submit, SubmitInline, dlqVars
    <2>5. /\ job' \in [Message -> {"out", "sent", "pending", "running"}]
          /\ before' \in SUBSET (Message \X Message)
          /\ UNCHANGED <<closed, torn>>
      BY <1>12 DEF JobTypeOK, Submit, SubmitInline, Dispatcher!Admit, Dispatcher!Unfinished, jobVars
    <2>6. JobTypeOK'
      BY <1>12, <2>5 DEF JobTypeOK, Submit, SubmitInline
    <2> QED
      BY Zenon, <1>12, <2>3, <2>4, <2>6 DEF Submit, SubmitInline
  <1>13. CASE LoopDequeue
    <2>1. PICK s \in Batches : Take(s) /\ batch' = s
      BY Zenon, <1>13 DEF LoopDequeue
    <2>2. batch' \in Seq(Message)
      BY Zenon, <2>1, BatchShape
    <2>3. TableTypeOK'
      BY Zenon, <2>1 DEF Take, TableTypeOK
    <2>4. LoopTypeOK'
      BY Zenon, <1>13, <2>2 DEF LoopTypeOK, LoopDequeue, dlqVars
    <2> QED
      BY Zenon, <1>13, <2>3, <2>4 DEF LoopDequeue
  <1>14. ASSUME NEW i \in Id, Expire(i) PROVE TypeOK'
    <2>1. NoEntry \in [state : {"none", "InFlight", "Done"}, value : Result]
      BY Zenon DEF NoEntry, Result
    <2>2. ContTypeOK'
      BY <1>14, <2>1 DEF ContTypeOK, Expire
    <2> QED
      BY Zenon, <1>14, <2>2 DEF Expire
  <1>15. CASE Cancel \/ StopBegin \/ StopQuiesced \/ StopIntake \/ StopDone \/ AbortStop
    <2>1. StopTypeOK'
      BY Zenon, <1>15 DEF StopTypeOK, Cancel, StopBegin, StopQuiesced, StopIntake, StopDone,
             AbortStop, allButStop
    <2> QED
      BY Zenon, <1>15, <2>1 DEF Cancel, StopBegin, StopQuiesced, StopIntake, StopDone, AbortStop,
             allButStop
  <1>16. CASE StopClose
    <2>1. StopTypeOK' /\ JobTypeOK'
      BY Zenon, <1>16 DEF StopTypeOK, JobTypeOK, StopClose, Dispatcher!Close, jobVars
    <2> QED
      BY <1>16, <2>1 DEF StopClose
  <1>17. CASE AbortLoop
    <2>1. LoopTypeOK'
      BY <1>17 DEF LoopTypeOK, AbortLoop, dlqVars
    <2>2. ContTypeOK'
      BY Zenon, <1>17 DEF ContTypeOK, AbortLoop
    <2>3. JobTypeOK'
      BY Zenon, <1>17 DEF JobTypeOK, AbortLoop, jobVars
    <2>4. StopTypeOK'
      BY Zenon, <1>17 DEF StopTypeOK, AbortLoop
    <2> QED
      BY Zenon, <1>17, <2>1, <2>2, <2>3, <2>4 DEF AbortLoop
  <1>18. CASE Restart
    <2>1. NoEntry \in [state : {"none", "InFlight", "Done"}, value : Result]
      BY DEF NoEntry, Result
    <2>2. ContTypeOK'
      BY Zenon, <1>18, <2>1 DEF ContTypeOK, Restart, Result
    <2>3. JobTypeOK'
      BY Zenon, <1>18 DEF JobTypeOK, Restart
    <2>4. LoopTypeOK'
      BY <1>18 DEF LoopTypeOK, Restart, dlqVars
    <2>5. restarts' \in 0..MaxRestarts
      <3>1. MaxRestarts \in Nat /\ restarts \in 0..MaxRestarts
        BY Zenon, InboundAssumption DEF StopTypeOK
      <3>2. restarts < MaxRestarts /\ restarts' = restarts + 1
        BY <1>18 DEF Restart
      <3> QED
        BY <3>1, <3>2
    <2>6. StopTypeOK'
      BY Zenon, <1>18, <2>5 DEF StopTypeOK, Restart
    <2> QED
      BY Zenon, <1>18, <2>2, <2>3, <2>4, <2>6 DEF Restart
  <1> QED
    BY Steps, <1>1, <1>2, <1>3, <1>4, <1>5, <1>6, <1>7, <1>8, <1>9, <1>10, <1>11, <1>12, <1>13,
       <1>14, <1>15, <1>16, <1>17, <1>18 DEF LoopMoves

-----------------------------------------------------------------------------
(* What each kind of step does to a record *)

\* The envelopes, the priorities and the mode never change.
Fixed == UNCHANGED <<kindOf, idOf, keyOf, scheduler_on, priority>>

LEMMA FixedStep == Next => Fixed
  <1> SUFFICES ASSUME Next PROVE Fixed
    OBVIOUS
  <1> USE DEF Fixed, envelopeVars, tableVars, allButStop
  <1>1. ASSUME NEW m \in Message, Enqueue(m) \/ Accept(m) \/ Start(m) \/ Return(m) PROVE Fixed
    BY Zenon, <1>1 DEF Enqueue, Insert, Accept, Start, Return
  <1>2. ASSUME NEW m \in Message, Finish(m) \/ Reply(m) \/ GiveUp(m) PROVE Fixed
    BY Zenon, <1>2 DEF Finish, Reply, GiveUp
  <1>3. ASSUME NEW m \in Message, NEW ok \in BOOLEAN, Ack(m, ok) PROVE Fixed
    BY Zenon, <1>3 DEF Ack, Delete
  <1>4. CASE LoopMoves
    BY <1>4, LoopMoving
  <1>5. ASSUME NEW ok \in BOOLEAN, LoopPoison(ok) \/ LoopDrop(ok) PROVE Fixed
    BY Zenon, <1>5 DEF LoopPoison, LoopDrop, Delete
  <1>6. ASSUME NEW m \in Message, AdmitDenied(m) \/ AdmitDuplicate(m) \/ AdmitFresh(m) PROVE Fixed
    BY Zenon, <1>6 DEF AdmitDenied, AdmitDuplicate, AdmitFresh
  <1>7. ASSUME NEW m \in Message, Submit(m) \/ SubmitInline(m) PROVE Fixed
    BY <1>7 DEF Submit, SubmitInline
  <1>8. CASE LoopDequeue \/ (\E i \in Id : Expire(i)) \/ Cancel \/ StopBegin \/ StopQuiesced
    BY Zenon, <1>8 DEF LoopDequeue, Take, Expire, Cancel, StopBegin, StopQuiesced
  <1>9. CASE StopClose \/ StopIntake \/ StopDone \/ AbortStop \/ AbortLoop \/ Restart
    BY Zenon, <1>9 DEF StopClose, StopIntake, StopDone, AbortStop, AbortLoop, Restart
  <1> QED
    BY Steps, <1>1, <1>2, <1>3, <1>4, <1>5, <1>6, <1>7, <1>8, <1>9 DEF LoopMoves

\* A record is left alone.
Same(n) ==
    /\ cont'[n] = cont[n] /\ result'[n] = result[n] /\ status'[n] = status[n]
    /\ job'[n] = job[n] /\ ran'[n] = ran[n]

AllSame == UNCHANGED <<cont, result, status, job, ran>>

\* The step is about m alone.
Touches(m) == \A n \in Message : n # m => Same(n)

\* The clocks of the table and the stages of the shutdown stand still.
Still == UNCHANGED <<created_at, clock, gate, stop, runner, forced, closed, dlq, lostPoison>>

LEMMA EnqueueDoes ==
  ASSUME TypeOK, NEW m \in Message, Enqueue(m)
  PROVE  /\ Touches(m) /\ status[m] = "new" /\ status'[m] = "Queued"
         /\ cont'[m] = cont[m] /\ result'[m] = result[m] /\ job'[m] = job[m] /\ ran'[m] = ran[m]
         /\ clock' \in {clock, clock + 1} /\ created_at'[m] = clock'
         /\ \A n \in Message : n # m => created_at'[n] = created_at[n]
         /\ UNCHANGED <<loop, batch, entries, replied, before, gate, stop, runner, forced,
                        closed, dlq, lostPoison>>
  BY Zenon DEF Enqueue, Insert, Touches, Same, TypeOK, TableTypeOK, dlqVars, contVars, jobVars,
         stopVars

LEMMA AcceptDoes ==
  ASSUME TypeOK, NEW m \in Message, Accept(m)
  PROVE  /\ Touches(m) /\ Still /\ job[m] = "sent" /\ job'[m] = "pending"
         /\ cont'[m] = cont[m] /\ result'[m] = result[m] /\ status'[m] = status[m] /\ ran'[m] = ran[m]
         /\ UNCHANGED <<loop, batch, entries, replied, before>>
  BY Zenon DEF Accept, Dispatcher!Accept, Touches, Same, Still, TypeOK, JobTypeOK, tableVars,
         dlqVars,
         contVars, stopVars

LEMMA StartDoes ==
  ASSUME TypeOK, NEW m \in Message, Start(m)
  PROVE  /\ Touches(m) /\ Still /\ job[m] = "pending" /\ job'[m] = "running"
         /\ ran'[m] = IF runner = "up" THEN "running" ELSE ran[m]
         /\ cont'[m] = cont[m] /\ result'[m] = result[m] /\ status'[m] = status[m]
         /\ \A n \in Message : <<n, m>> \in before => keyOf[n] # keyOf[m]
         /\ UNCHANGED <<loop, batch, entries, replied, before>>
  BY Zenon DEF Start, Dispatcher!Start, Dispatcher!MayStart, Touches, Same, Still, TypeOK,
         JobTypeOK,
         tableVars, dlqVars, contVars, stopVars

LEMMA ReturnDoes ==
  ASSUME TypeOK, NEW m \in Message, Return(m)
  PROVE  /\ Touches(m) /\ Still /\ status'[m] = status[m]
         /\ IF scheduler_on THEN job[m] = "running" /\ job'[m] = "out"
            ELSE cont[m] = "submitted" /\ job'[m] = job[m]
         /\ before' \subseteq before
         /\ \A a, b \in Message \ {m} : <<a, b>> \in before => <<a, b>> \in before'
         /\ cont'[m] = IF cont[m] = "submitted" THEN "returned" ELSE cont[m]
         /\ ran'[m] = IF ran[m] # "running" THEN ran[m]
                      ELSE IF runner = "aborted" THEN "killed" ELSE "completed"
         /\ result'[m] = IF cont[m] # "submitted" THEN result[m]
                         ELSE IF ran'[m] = "completed" /\ ran[m] = "running" THEN "handled"
                         ELSE "terminated"
         /\ UNCHANGED <<loop, batch, entries, replied>>
  <1>1. /\ Still /\ UNCHANGED <<loop, batch, entries, replied, status>>
        /\ IF scheduler_on THEN job[m] = "running" /\ job'[m] = "out"
           ELSE cont[m] = "submitted" /\ job'[m] = job[m]
        /\ \A n \in Message : n # m => job'[n] = job[n]
        /\ before' \subseteq before
    BY Zenon DEF Return, Dispatcher!Finish, Dispatcher!Leave, Still, TypeOK, JobTypeOK,
           tableVars, dlqVars, jobVars, stopVars
  <1>2. \A a, b \in Message \ {m} : <<a, b>> \in before => <<a, b>> \in before'
    BY Zenon DEF Return, Dispatcher!Finish, Dispatcher!Leave, jobVars
  <1>3. /\ \A n \in Message : n # m => ran'[n] = ran[n] /\ result'[n] = result[n] /\ cont'[n] = cont[n]
        /\ cont'[m] = IF cont[m] = "submitted" THEN "returned" ELSE cont[m]
        /\ ran'[m] = IF ran[m] # "running" THEN ran[m]
                     ELSE IF runner = "aborted" THEN "killed" ELSE "completed"
        /\ result'[m] = IF cont[m] # "submitted" THEN result[m]
                        ELSE IF ran'[m] = "completed" /\ ran[m] = "running" THEN "handled"
                        ELSE "terminated"
    BY DEF Return, TypeOK, ContTypeOK, JobTypeOK
  <1> QED
    BY Zenon, <1>1, <1>2, <1>3 DEF Touches, Same

LEMMA FinishDoes ==
  ASSUME TypeOK, NEW m \in Message, Finish(m)
  PROVE  /\ Still /\ cont[m] = "returned" /\ UNCHANGED <<status, job, ran, loop, batch, replied, before>>
         /\ loop \in {"select", "enter", "drain", "await"}
         /\ \A n \in Message :
               IF n # m /\ cont[n] = "waiting" /\ idOf[n] = idOf[m]
               THEN cont'[n] = "resolved" /\ result'[n] = result[m]
               ELSE /\ result'[n] = result[n]
                    /\ cont'[n] = IF n = m THEN "resolved" ELSE cont[n]
         /\ \A i \in Id : entries'[i] = IF i = idOf[m] THEN [state |-> "Done", value |-> result[m]]
                                        ELSE entries[i]
  BY Zenon DEF Finish, Driven, Polling, Still, TypeOK, ContTypeOK, tableVars, dlqVars, jobVars,
         stopVars

LEMMA GiveUpDoes ==
  ASSUME TypeOK, NEW m \in Message, GiveUp(m)
  PROVE  /\ Touches(m) /\ Still /\ cont[m] = "waiting" /\ cont'[m] = "resolved" /\ result'[m] = "timeout"
         /\ UNCHANGED <<status, job, ran, loop, batch, entries, replied, before>>
  BY DEF GiveUp, Touches, Same, Still, TypeOK, ContTypeOK, tableVars, dlqVars, jobVars, stopVars

LEMMA ReplyDoes ==
  ASSUME TypeOK, NEW m \in Message, Reply(m)
  PROVE  /\ Touches(m) /\ Still /\ cont[m] = "resolved" /\ cont'[m] = "replied"
         /\ UNCHANGED <<result, status, job, ran, loop, batch, entries, before>>
         /\ replied \subseteq replied' /\ (kindOf[m] = "request" => m \in replied')
  BY Zenon DEF Reply, Touches, Same, Still, TypeOK, ContTypeOK, tableVars, dlqVars, jobVars,
         stopVars

LEMMA AckDoes ==
  ASSUME TypeOK, NEW m \in Message, NEW ok \in BOOLEAN, Ack(m, ok)
  PROVE  /\ Touches(m) /\ Still /\ cont[m] = "replied" /\ cont'[m] = "none"
         /\ status'[m] \in {status[m], "acked"}
         /\ loop' = IF loop = "await" THEN "batch" ELSE loop
         /\ loop \in {"select", "enter", "drain", "await"}
         /\ UNCHANGED <<result, job, ran, batch, entries, replied, before>>
  BY Zenon DEF Ack, Delete, Driven, Polling, Touches, Same, Still, TypeOK, ContTypeOK, TableTypeOK,
         tableVars, dlqVars, jobVars, stopVars

LEMMA ExpireDoes ==
  ASSUME TypeOK, NEW i \in Id, Expire(i)
  PROVE  /\ AllSame /\ Still /\ entries[i].state = "Done" /\ UNCHANGED <<loop, batch, replied, before>>
         /\ \A j \in Id : entries'[j] = IF j = i THEN NoEntry ELSE entries[j]
  BY Zenon DEF Expire, AllSame, Still, TypeOK, ContTypeOK, tableVars, dlqVars, jobVars, stopVars

LEMMA MovesDo ==
  ASSUME LoopMoves
  PROVE  AllSame /\ Still /\ UNCHANGED <<batch, entries, replied, before>>
  BY LoopMoving DEF AllSame, Still, tableVars, dlqVars, contVars, jobVars, stopVars

LEMMA PoisonDoes ==
  ASSUME TypeOK, NEW ok \in BOOLEAN, LoopPoison(ok)
  PROVE  /\ AllSame /\ UNCHANGED <<batch, entries, replied, before, created_at, clock, gate, stop,
                                   runner, forced, closed>>
         /\ loop = "batch" /\ batch # <<>> /\ loop' = "drop" /\ kindOf[Head(batch)] = "poison"
         /\ dlq \subseteq dlq' /\ lostPoison \subseteq lostPoison'
         /\ Head(batch) \in dlq' \cup lostPoison'
  BY Zenon DEF LoopPoison, AllSame, tableVars, contVars, jobVars, stopVars

LEMMA DropDoes ==
  ASSUME TypeOK, NEW ok \in BOOLEAN, LoopDrop(ok), batch # <<>>
  PROVE  /\ Touches(Head(batch)) /\ Still /\ UNCHANGED <<cont, result, job, ran, entries, replied, before>>
         /\ status'[Head(batch)] \in {status[Head(batch)], "acked"}
         /\ loop = "drop" /\ loop' = "batch" /\ batch' = Tail(batch)
  <1>1. Head(batch) \in Message
    BY HeadTail DEF TypeOK, LoopTypeOK
  <1> QED
    BY Zenon, <1>1 DEF LoopDrop, Delete, Touches, Same, Still, TypeOK, TableTypeOK, tableVars,
           dlqVars,
                contVars, jobVars, stopVars

\* The record at the head gets its continuation.
Pops(m, c, r) ==
    /\ Touches(m) /\ Still /\ batch # <<>> /\ m = Head(batch) /\ Dispatchable(m)
    /\ cont'[m] = c /\ result'[m] = r /\ status'[m] = status[m]
    /\ batch' = Tail(batch) /\ loop' = IF scheduler_on THEN "batch" ELSE "await"
    /\ UNCHANGED <<entries, replied>>

LEMMA DeniedDoes ==
  ASSUME TypeOK, NEW m \in Message, AdmitDenied(m)
  PROVE  loop = "batch" /\ Pops(m, "resolved", "denied") /\ UNCHANGED <<job, ran, before>>
  BY Zenon DEF AdmitDenied, Admitting, Admitted, Pops, Touches, Same, Still, TypeOK, ContTypeOK,
         tableVars, dlqVars, jobVars, stopVars

LEMMA DuplicateDoes ==
  ASSUME TypeOK, NEW m \in Message, AdmitDuplicate(m)
  PROVE  /\ loop = "batch" /\ UNCHANGED <<job, ran, before>>
         /\ \/ Pops(m, "resolved", "dropped") \/ Pops(m, "waiting", "none")
            \/ entries[idOf[m]].state = "Done" /\ Pops(m, "resolved", entries[idOf[m]].value)
  <1>1. ASSUME NEW c, NEW r, Admitted(m, c, r) PROVE Pops(m, c, r)
    BY Zenon, <1>1 DEF AdmitDuplicate, Admitting, Admitted, Pops, Touches, Same, Still, TypeOK,
           ContTypeOK,
         tableVars, dlqVars, jobVars, stopVars
  <1> QED
    BY Zenon, <1>1 DEF AdmitDuplicate, Admitting, jobVars

LEMMA FreshDoes ==
  ASSUME TypeOK, NEW m \in Message, AdmitFresh(m)
  PROVE  /\ AllSame /\ Still /\ UNCHANGED <<batch, replied, before>>
         /\ loop = "batch" /\ batch # <<>> /\ m = Head(batch) /\ Dispatchable(m) /\ loop' = "submit"
         /\ entries[idOf[m]].state = "none"
         /\ \A i \in Id : entries'[i] = IF i = idOf[m] THEN [state |-> "InFlight", value |-> "none"]
                                        ELSE entries[i]
  BY Zenon DEF AdmitFresh, Admitting, AllSame, Still, TypeOK, ContTypeOK, tableVars, dlqVars,
         jobVars, stopVars

LEMMA SubmitDoes ==
  ASSUME TypeOK, BatchExact, NEW m \in Message, Submit(m)
  PROVE  /\ loop = "submit" /\ scheduler_on /\ UNCHANGED ran
         /\ \/ /\ closed /\ Pops(m, "returned", "terminated") /\ UNCHANGED <<job, before>>
            \/ /\ ~closed /\ Pops(m, "submitted", "none") /\ job[m] = "out" /\ job'[m] = "sent"
               /\ before \subseteq before'
               /\ \A n \in Message : job[n] # "out" => <<n, m>> \in before'
  <1>1. loop = "submit" /\ scheduler_on /\ UNCHANGED ran /\ batch # <<>> /\ Dispatchable(m)
    BY Zenon DEF Submit, BatchExact
  <1>2. CASE closed
    BY Zenon, <1>1, <1>2 DEF Submit, Admitted, Pops, Touches, Same, Still, TypeOK, ContTypeOK,
         tableVars, dlqVars, jobVars, stopVars
  <1>3. CASE ~closed
    <2>1. /\ job[m] = "out" /\ job'[m] = "sent" /\ closed' = closed
          /\ \A n \in Message : n # m => job'[n] = job[n]
          /\ before \subseteq before'
          /\ \A n \in Message : job[n] # "out" => <<n, m>> \in before'
      BY Zenon, <1>3 DEF Submit, Dispatcher!Admit, Dispatcher!Unfinished, TypeOK, JobTypeOK
    <2> QED
      BY Zenon, <1>1, <1>3, <2>1 DEF Submit, Admitted, Pops, Touches, Same, Still, TypeOK,
             ContTypeOK,
           tableVars, dlqVars, stopVars
  <1> QED
    BY <1>1, <1>2, <1>3

LEMMA InlineDoes ==
  ASSUME TypeOK, BatchExact, NEW m \in Message, SubmitInline(m)
  PROVE  /\ loop = "submit" /\ ~scheduler_on /\ UNCHANGED <<job, before>>
         /\ \/ runner = "up" /\ Pops(m, "submitted", "none") /\ ran'[m] = "running"
            \/ runner # "up" /\ Pops(m, "returned", "terminated") /\ UNCHANGED ran
  <1>1. /\ loop = "submit" /\ ~scheduler_on /\ UNCHANGED <<job, before>>
        /\ batch # <<>> /\ Dispatchable(m)
    BY Zenon DEF SubmitInline, BatchExact, jobVars
  <1>2. CASE runner = "up"
    <2>1. ran'[m] = "running" /\ \A n \in Message : n # m => ran'[n] = ran[n]
      BY Zenon, <1>2 DEF SubmitInline, TypeOK, JobTypeOK
    <2> QED
      BY <1>1, <1>2, <2>1 DEF SubmitInline, Admitted, Pops, Touches, Same, Still, TypeOK,
             ContTypeOK,
           tableVars, dlqVars, jobVars, stopVars
  <1>3. CASE runner # "up"
    BY Zenon, <1>1, <1>3 DEF SubmitInline, Admitted, Pops, Touches, Same, Still, TypeOK, ContTypeOK,
         tableVars, dlqVars, jobVars, stopVars
  <1> QED
    BY <1>1, <1>2, <1>3

LEMMA DequeueDoes ==
  ASSUME TypeOK, LoopDequeue
  PROVE  \E s \in Batches :
            /\ Still /\ UNCHANGED <<cont, result, job, ran, entries, replied, before>>
            /\ loop = "enter" /\ gate = "open" /\ loop' = "batch" /\ batch' = s
            /\ \A n \in Message : status'[n] =
                  IF \E i \in DOMAIN s : s[i] = n THEN "Inflight" ELSE status[n]
  BY DEF LoopDequeue, GateOpen, Take, Range, Still, dlqVars, contVars, jobVars, stopVars

\* The stages of the shutdown.
StopMoves == Cancel \/ StopBegin \/ StopQuiesced \/ StopClose \/ StopIntake \/ StopDone \/ AbortStop

LEMMA StopsDo ==
  ASSUME StopMoves
  PROVE  /\ AllSame
         /\ UNCHANGED <<loop, batch, entries, replied, before, created_at, clock, dlq, lostPoison>>
         /\ forced => forced'
  BY DEF StopMoves, Cancel, StopBegin, StopQuiesced, StopClose, Dispatcher!Close, StopIntake,
         StopDone, AbortStop, AllSame, allButStop, tableVars, dlqVars, contVars, jobVars

LEMMA AbortDoes ==
  ASSUME TypeOK, AbortLoop
  PROVE  /\ UNCHANGED <<result, status, job, entries, replied, before, created_at, clock, gate, stop,
                        runner, closed, dlq, lostPoison>>
         /\ loop' = "aborted" /\ batch' = <<>> /\ forced'
         /\ \A n \in Message :
               /\ cont'[n] = "none"
               /\ ran'[n] = IF ~scheduler_on /\ ran[n] = "running" THEN "killed" ELSE ran[n]
  BY Zenon DEF AbortLoop, tableVars, dlqVars, jobVars

LEMMA RestartDoes ==
  ASSUME TypeOK, Restart
  PROVE  /\ UNCHANGED <<status, replied, created_at, clock, dlq, lostPoison, forced>>
         /\ loop' = "select" /\ batch' = <<>> /\ gate' = "open" /\ stop' = "idle" /\ runner' = "up"
         /\ ~closed' /\ before' = {}
         /\ \A n \in Message :
               /\ cont'[n] = "none" /\ job'[n] = "out"
               /\ ran'[n] = IF ran[n] = "running" THEN "killed" ELSE ran[n]
               /\ result'[n] = IF status[n] = "acked" THEN result[n] ELSE "none"
         /\ \A i \in Id : entries'[i] = NoEntry
  BY Zenon DEF Restart, tableVars, dlqVars

-----------------------------------------------------------------------------
(* The records of the table and of the batch *)

\* Steps that leave the batch or throw it away, and records alone that have not
\* been admitted.
LEMMA BatchKeeps ==
  ASSUME BatchExact, Fixed,
         batch' = batch \/ (batch' = <<>> /\ loop' \notin {"drop", "submit"}),
         batch \in Seq(Message),
         \A n \in Message : Idle(n) => Idle(n)' /\ status'[n] = status[n],
         \A n \in Message : status'[n] \in {"new", "Queued"} => status'[n] = status[n],
         loop' = "drop" => batch # <<>> /\ ~Dispatchable(Head(batch)),
         loop' = "submit" => batch # <<>> /\ Dispatchable(Head(batch))
  PROVE  BatchExact'
  <1>1. \A i \in DOMAIN batch : batch[i] \in Message
    OBVIOUS
  <1>2. \A m \in Message : status'[m] \in {"new", "Queued"} => Idle(m)'
    BY Zenon DEF BatchExact
  <1>3. CASE batch' = batch
    <2>1. \A i \in DOMAIN batch' : status'[batch'[i]] = "Inflight" /\ Idle(batch[i])'
      BY Zenon, <1>1, <1>3 DEF BatchExact
    <2> QED
      BY Zenon, <1>2, <1>3, <2>1 DEF BatchExact, Fixed, Dispatchable, Idle
  <1>4. CASE batch' = <<>> /\ loop' \notin {"drop", "submit"}
    BY <1>2, <1>4 DEF BatchExact
  <1> QED
    BY Zenon, <1>3, <1>4

\* Steps that take the head off.
LEMMA BatchPops ==
  ASSUME BatchExact, Fixed, batch \in Seq(Message), batch # <<>>, batch' = Tail(batch),
         \A n \in Message : n # Head(batch) /\ Idle(n) => Idle(n)' /\ status'[n] = status[n],
         \A n \in Message : status'[n] \in {"new", "Queued"} => status'[n] = status[n] /\ n # Head(batch),
         loop' \notin {"drop", "submit"}
  PROVE  BatchExact'
  <1>1. /\ 1 \in DOMAIN batch /\ Head(batch) = batch[1]
        /\ \A i \in DOMAIN batch' : i + 1 \in DOMAIN batch /\ batch'[i] = batch[i + 1] /\ i \in Nat
    BY HeadTail
  <1>2. DOMAIN batch' = 1..(Len(batch) - 1) /\ Len(batch) \in Nat
    OBVIOUS
  <1>3. \A i \in DOMAIN batch' : batch'[i] # Head(batch) /\ batch'[i] \in Message
    <2> TAKE i \in DOMAIN batch'
    <2>1. i + 1 # 1 /\ i + 1 \in DOMAIN batch /\ batch'[i] = batch[i + 1]
      BY <1>1, <1>2
    <2> QED
      BY <1>1, <2>1 DEF BatchExact
  <1>4. \A i, j \in DOMAIN batch' : batch'[i] = batch'[j] => i = j
    <2> SUFFICES ASSUME NEW i \in DOMAIN batch', NEW j \in DOMAIN batch', batch'[i] = batch'[j]
                 PROVE  i = j
      OBVIOUS
    <2>1. i + 1 = j + 1
      BY <1>1 DEF BatchExact
    <2> QED
      BY <1>2, <2>1
  <1>5. \A i \in DOMAIN batch' : status'[batch'[i]] = "Inflight" /\ Idle(batch[i])'
    <2> TAKE i \in DOMAIN batch'
    <2>1. PICK n \in Message : n = batch[i + 1] /\ n = batch'[i] /\ n # Head(batch) /\ i + 1 \in DOMAIN batch
      BY <1>1, <1>3
    <2>2. status[n] = "Inflight" /\ Idle(n)
      BY Zenon, <2>1 DEF BatchExact
    <2>3. status'[n] = "Inflight" /\ Idle(n)'
      BY Zenon, <2>1, <2>2
    <2> QED
      BY Zenon, <2>1, <2>3 DEF Idle
  <1>6. \A m \in Message : status'[m] \in {"new", "Queued"} => Idle(m)'
    BY Zenon DEF BatchExact
  <1> QED
    BY Zenon, <1>4, <1>5, <1>6 DEF BatchExact, Idle

LEMMA BatchDequeue ==
  ASSUME TypeOK, BatchExact, Fixed, LoopDequeue
  PROVE  BatchExact'
  <1>1. PICK s \in Batches :
            /\ UNCHANGED <<cont, job, ran>> /\ loop' = "batch" /\ batch' = s
            /\ \A n \in Message : status'[n] =
                  IF \E i \in DOMAIN s : s[i] = n THEN "Inflight" ELSE status[n]
    BY Zenon, DequeueDoes
  <1>2. /\ s \in Seq(Message) /\ \A i \in DOMAIN s : s[i] \in Queued
        /\ \A i, j \in DOMAIN s : s[i] = s[j] => i = j
    BY Zenon, BatchShape
  <1>3. \A i \in DOMAIN s : Idle(s[i]) /\ s[i] \in Message
    BY Zenon, <1>2 DEF BatchExact, Queued
  <1>4. \A i \in DOMAIN batch' : status'[batch'[i]] = "Inflight" /\ Idle(batch[i])'
    BY Zenon, <1>1, <1>3 DEF Idle
  <1>5. \A n \in Message : status'[n] \in {"new", "Queued"} => Idle(n)'
    BY <1>1 DEF BatchExact, Idle
  <1> QED
    BY Zenon, <1>1, <1>2, <1>4, <1>5 DEF BatchExact

LEMMA BatchStep ==
  ASSUME TypeOK, AdmissionInv, Next
  PROVE  BatchExact'
  <1>0. BatchExact /\ Fixed /\ batch \in Seq(Message)
    BY Zenon, FixedStep DEF AdmissionInv, TypeOK, LoopTypeOK
  <1>1. ASSUME NEW m \in Message, Enqueue(m) PROVE BatchExact'
    <2>1. /\ UNCHANGED <<loop, batch>> /\ status[m] = "new" /\ status'[m] = "Queued"
          /\ \A n \in Message : Idle(n) => Idle(n)'
          /\ \A n \in Message : n # m => status'[n] = status[n]
      BY Zenon, <1>1, EnqueueDoes DEF Touches, Same, Idle
    <2>2. Idle(m)'
      BY Zenon, <1>0, <2>1 DEF BatchExact
    <2>3. \A i \in DOMAIN batch' : status'[batch'[i]] = "Inflight" /\ Idle(batch[i])'
      <3> TAKE i \in DOMAIN batch'
      <3>1. PICK n \in Message : n = batch[i] /\ n = batch'[i] /\ i \in DOMAIN batch
        BY <1>0, <2>1
      <3>2. status[n] = "Inflight" /\ Idle(n)
        BY Zenon, <1>0, <3>1 DEF BatchExact
      <3>3. status'[n] = "Inflight" /\ Idle(n)'
        BY <2>1, <3>2
      <3> QED
        BY Zenon, <3>1, <3>3 DEF Idle
    <2>4. \A n \in Message : status'[n] \in {"new", "Queued"} => Idle(n)'
      BY Zenon, <1>0, <2>1, <2>2 DEF BatchExact
    <2> QED
      BY Zenon, <1>0, <2>1, <2>3, <2>4 DEF BatchExact, Dispatchable, Fixed
  <1>2. CASE LoopMoves
    <2>1. AllSame /\ UNCHANGED batch
      BY Zenon, <1>2, MovesDo
    <2>2. /\ loop' # "submit"
          /\ loop' = "drop" => batch # <<>> /\ ~Dispatchable(Head(batch))
      BY Zenon, <1>2, LoopMoving DEF Dispatchable
    <2> QED
      BY Zenon, <1>0, <2>1, <2>2, BatchKeeps DEF AllSame, Idle
  <1>3. ASSUME NEW m \in Message, Accept(m) \/ Start(m) \/ Return(m) PROVE BatchExact'
    <2>1. Touches(m) /\ UNCHANGED <<loop, batch>> /\ status'[m] = status[m]
      BY Zenon, <1>3, AcceptDoes, StartDoes, ReturnDoes
    <2>2. ~Idle(m)
      BY Zenon, <1>3, AcceptDoes, StartDoes, ReturnDoes DEF Idle
    <2>3. \A n \in Message : (Idle(n) => Idle(n)') /\ status'[n] = status[n]
      BY Zenon, <2>1, <2>2 DEF Touches, Same, Idle
    <2> QED
      BY <1>0, <2>1, <2>3, BatchKeeps DEF BatchExact
  <1>4. ASSUME NEW m \in Message, Finish(m) \/ Reply(m) \/ GiveUp(m) PROVE BatchExact'
    <2>1. UNCHANGED <<loop, batch, status, job, ran>>
      BY Zenon, <1>4, FinishDoes, ReplyDoes, GiveUpDoes
    <2>2. \A n \in Message : cont[n] = "none" => cont'[n] = "none"
      BY Zenon, <1>4, FinishDoes, ReplyDoes, GiveUpDoes DEF Touches, Same
    <2>3. \A n \in Message : Idle(n) => Idle(n)'
      BY <2>1, <2>2 DEF Idle
    <2> QED
      BY Zenon, <1>0, <2>1, <2>3, BatchKeeps DEF BatchExact
  <1>5. ASSUME NEW m \in Message, NEW ok \in BOOLEAN, Ack(m, ok) PROVE BatchExact'
    <2>1. /\ Touches(m) /\ cont[m] = "replied" /\ status'[m] \in {status[m], "acked"}
          /\ UNCHANGED <<job, ran, batch>> /\ loop' \notin {"drop", "submit"}
      BY Zenon, <1>5, AckDoes
    <2>2. \A n \in Message : Idle(n) => Idle(n)' /\ status'[n] = status[n]
      BY Zenon, <2>1 DEF Touches, Same, Idle
    <2>3. \A n \in Message : status'[n] \in {"new", "Queued"} => status'[n] = status[n]
      BY Zenon, <2>1 DEF Touches, Same
    <2> QED
      BY Zenon, <1>0, <2>1, <2>2, <2>3, BatchKeeps
  <1>6. ASSUME NEW ok \in BOOLEAN, LoopPoison(ok) PROVE BatchExact'
    <2>1. /\ AllSame /\ UNCHANGED batch /\ loop' = "drop" /\ batch # <<>>
          /\ ~Dispatchable(Head(batch))
      BY Zenon, <1>6, PoisonDoes DEF Dispatchable
    <2> QED
      BY Zenon, <1>0, <2>1, BatchKeeps DEF AllSame, Idle
  <1>7. ASSUME NEW ok \in BOOLEAN, LoopDrop(ok) PROVE BatchExact'
    <2>1. batch # <<>>
      BY Zenon, <1>0, <1>7 DEF BatchExact, LoopDrop
    <2>2. /\ Touches(Head(batch)) /\ batch' = Tail(batch) /\ loop' = "batch"
          /\ status'[Head(batch)] \in {status[Head(batch)], "acked"}
      BY Zenon, <1>7, <2>1, DropDoes
    <2>3. status[Head(batch)] = "Inflight"
      BY Zenon, <1>0, <2>1, HeadTail DEF BatchExact
    <2>4. \A n \in Message : n # Head(batch) /\ Idle(n) => Idle(n)' /\ status'[n] = status[n]
      BY Zenon, <2>2 DEF Touches, Same, Idle
    <2>5. \A n \in Message : status'[n] \in {"new", "Queued"} => status'[n] = status[n] /\ n # Head(batch)
      BY Zenon, <2>2, <2>3 DEF Touches, Same
    <2> QED
      BY Zenon, <1>0, <2>1, <2>2, <2>4, <2>5, BatchPops
  <1>8. ASSUME NEW m \in Message, NEW c, NEW r, Pops(m, c, r) PROVE BatchExact'
    <2>1. /\ batch # <<>> /\ m = Head(batch) /\ Touches(m) /\ batch' = Tail(batch)
          /\ loop' \notin {"drop", "submit"} /\ status'[m] = status[m]
      BY Zenon, <1>8 DEF Pops
    <2>2. status[m] = "Inflight"
      BY Zenon, <1>0, <2>1, HeadTail DEF BatchExact
    <2>3. \A n \in Message : n # Head(batch) /\ Idle(n) => Idle(n)' /\ status'[n] = status[n]
      BY Zenon, <2>1 DEF Touches, Same, Idle
    <2>4. \A n \in Message : status'[n] \in {"new", "Queued"} => status'[n] = status[n] /\ n # Head(batch)
      BY Zenon, <2>1, <2>2 DEF Touches, Same
    <2> QED
      BY Zenon, <1>0, <2>1, <2>3, <2>4, BatchPops
  <1>9. ASSUME NEW m \in Message, AdmitFresh(m) PROVE BatchExact'
    <2>1. /\ AllSame /\ UNCHANGED batch /\ loop' = "submit" /\ batch # <<>>
          /\ Dispatchable(Head(batch))
      BY <1>9, FreshDoes
    <2> QED
      BY Zenon, <1>0, <2>1, BatchKeeps DEF AllSame, Idle
  <1>10. CASE LoopDequeue
    BY Zenon, <1>0, <1>10, BatchDequeue
  <1>11. CASE (\E i \in Id : Expire(i)) \/ StopMoves
    <2>1. AllSame /\ UNCHANGED <<loop, batch>>
      BY <1>11, ExpireDoes, StopsDo
    <2> QED
      BY Zenon, <1>0, <2>1, BatchKeeps DEF AllSame, Idle, BatchExact
  <1>12. CASE AbortLoop \/ Restart
    <2>1. batch' = <<>> /\ loop' \notin {"drop", "submit"} /\ UNCHANGED status
      BY Zenon, <1>12, AbortDoes, RestartDoes
    <2>2. \A n \in Message : Idle(n) => Idle(n)'
      BY <1>12, AbortDoes, RestartDoes DEF Idle
    <2> QED
      BY <1>0, <2>1, <2>2, BatchKeeps
  <1>13. ASSUME NEW m \in Message,
                AdmitDenied(m) \/ AdmitDuplicate(m) \/ Submit(m) \/ SubmitInline(m)
         PROVE  BatchExact'
    <2>1. \E c, r : Pops(m, c, r)
      BY <1>0, <1>13, DeniedDoes, DuplicateDoes, SubmitDoes, InlineDoes
    <2> QED
      BY Zenon, <1>8, <2>1
  <1> QED
    BY Steps, <1>1, <1>2, <1>3, <1>4, <1>5, <1>6, <1>7, <1>9, <1>10, <1>11, <1>12, <1>13
       DEF LoopMoves, StopMoves

-----------------------------------------------------------------------------
(* Continuation, job and handler *)

LEMMA PlaceKeeps ==
  ASSUME Fixed, loop = "aborted" => loop' = "aborted", NEW n \in Message, InPlace(n), Same(n)
  PROVE  InPlace(n)'
  BY Zenon DEF InPlace, Same, Fixed, Dispatchable

\* A record whose continuation is gone keeps its place when it is acked or
\* handed out.
LEMMA PlaceRow ==
  ASSUME Fixed, loop = "aborted" => loop' = "aborted", NEW n \in Message, InPlace(n),
         cont[n] = "none", cont'[n] = cont[n], job'[n] = job[n], ran'[n] = ran[n]
  PROVE  InPlace(n)'
  BY DEF InPlace, Fixed

LEMMA PlaceStep ==
  ASSUME TypeOK, AdmissionInv, Next
  PROVE  Placed'
  <1>0. /\ BatchExact /\ Fixed /\ batch \in Seq(Message)
        /\ \A n \in Message : InPlace(n)
    BY FixedStep DEF AdmissionInv, Placed, TypeOK, LoopTypeOK
  <1> SUFFICES ASSUME NEW n \in Message PROVE InPlace(n)'
    BY DEF Placed
  <1>1. ASSUME NEW m \in Message, Enqueue(m) PROVE InPlace(n)'
    <2>1. Touches(m) /\ UNCHANGED loop /\ status[m] = "new"
      BY <1>1, EnqueueDoes
    <2>2. cont'[m] = cont[m] /\ job'[m] = job[m] /\ ran'[m] = ran[m]
      BY <1>1, EnqueueDoes
    <2>3. cont[m] = "none"
      BY Zenon, <1>0, <2>1 DEF BatchExact, Idle
    <2>4. CASE n = m
      BY <1>0, <2>1, <2>2, <2>3, <2>4, PlaceRow
    <2>5. CASE n # m
      BY <1>0, <2>1, <2>5, PlaceKeeps DEF Touches
    <2> QED
      BY Zenon, <2>4, <2>5
  <1>2. CASE LoopMoves \/ (\E ok \in BOOLEAN : LoopPoison(ok)) \/ (\E m \in Message : AdmitFresh(m))
    <2>1. AllSame /\ loop # "aborted"
      BY Zenon, <1>2, MovesDo, LoopMoving, PoisonDoes, FreshDoes
    <2> QED
      BY Zenon, <1>0, <2>1, PlaceKeeps DEF AllSame, Same
  <1>3. CASE (\E i \in Id : Expire(i)) \/ StopMoves
    <2>1. AllSame /\ UNCHANGED loop
      BY <1>3, ExpireDoes, StopsDo
    <2> QED
      BY Zenon, <1>0, <2>1, PlaceKeeps DEF AllSame, Same
  <1>4. ASSUME NEW m \in Message, Accept(m) \/ Start(m) \/ Return(m) PROVE InPlace(n)'
    <2>1. Touches(m) /\ UNCHANGED loop /\ status'[m] = status[m] /\ InPlace(m)
      BY <1>0, <1>4, AcceptDoes, StartDoes, ReturnDoes
    <2>2. CASE n # m
      BY Zenon, <1>0, <2>1, <2>2, PlaceKeeps DEF Touches
    <2>3. CASE n = m /\ Accept(m)
      BY Zenon, <1>0, <2>1, <2>3, AcceptDoes DEF InPlace, Fixed, Dispatchable
    <2>4. CASE n = m /\ Start(m)
      BY Zenon, <1>0, <2>1, <2>4, StartDoes DEF InPlace, Fixed, Dispatchable
    <2>5. CASE n = m /\ Return(m)
      <3>1. /\ IF scheduler_on THEN job[m] = "running" /\ job'[m] = "out"
               ELSE cont[m] = "submitted" /\ job'[m] = job[m]
            /\ cont'[m] = IF cont[m] = "submitted" THEN "returned" ELSE cont[m]
            /\ ran'[m] # "running"
        BY Zenon, <2>5, ReturnDoes
      <3>2. job'[m] = "out" /\ cont[m] \in {"none", "submitted"}
        BY Zenon, <2>1, <3>1 DEF InPlace
      <3> QED
        BY Zenon, <1>0, <2>1, <2>5, <3>1, <3>2 DEF InPlace, Fixed, Dispatchable
    <2> QED
      BY Zenon, <1>4, <2>2, <2>3, <2>4, <2>5
  <1>5. ASSUME NEW m \in Message, Finish(m) \/ Reply(m) \/ GiveUp(m) PROVE InPlace(n)'
    <2>1. UNCHANGED <<loop, status, job, ran>>
      BY Zenon, <1>5, FinishDoes, ReplyDoes, GiveUpDoes
    <2>2. cont'[n] = cont[n] \/ (cont[n] \notin {"none", "submitted"} /\ cont'[n] \notin {"none", "submitted"})
      BY Zenon, <1>5, FinishDoes, ReplyDoes, GiveUpDoes DEF Touches, Same
    <2> QED
      BY Zenon, <1>0, <2>1, <2>2 DEF InPlace, Fixed, Dispatchable
  <1>6. ASSUME NEW m \in Message, NEW ok \in BOOLEAN, Ack(m, ok) PROVE InPlace(n)'
    <2>1. /\ Touches(m) /\ cont[m] = "replied" /\ cont'[m] = "none"
          /\ UNCHANGED <<job, ran>> /\ loop # "aborted"
      BY Zenon, <1>6, AckDoes
    <2>2. CASE n = m
      BY Zenon, <1>0, <2>1, <2>2 DEF InPlace, Fixed
    <2>3. CASE n # m
      BY Zenon, <1>0, <2>1, <2>3, PlaceKeeps DEF Touches
    <2> QED
      BY Zenon, <2>2, <2>3
  <1>7. ASSUME NEW ok \in BOOLEAN, LoopDrop(ok) PROVE InPlace(n)'
    <2>1. batch # <<>>
      BY <1>0, <1>7 DEF BatchExact, LoopDrop
    <2>2. Touches(Head(batch)) /\ UNCHANGED <<cont, job, ran>> /\ loop = "drop"
      BY Zenon, <1>7, <2>1, DropDoes
    <2>3. cont[Head(batch)] = "none"
      BY <1>0, <2>1, HeadTail DEF BatchExact, Idle
    <2>4. CASE n = Head(batch)
      BY Zenon, <1>0, <2>2, <2>3, <2>4, PlaceRow
    <2>5. CASE n # Head(batch)
      BY <1>0, <2>2, <2>5, PlaceKeeps DEF Touches
    <2> QED
      BY Zenon, <2>4, <2>5
  <1>8. ASSUME NEW m \in Message,
               AdmitDenied(m) \/ AdmitDuplicate(m) \/ Submit(m) \/ SubmitInline(m)
        PROVE  InPlace(n)'
    <2>1. PICK c, r : Pops(m, c, r)
      BY Zenon, <1>0, <1>8, DeniedDoes, DuplicateDoes, SubmitDoes, InlineDoes
    <2>2. /\ Touches(m) /\ Dispatchable(m) /\ m = Head(batch) /\ batch # <<>>
          /\ status'[m] = status[m] /\ loop' # "aborted"
      BY Zenon, <2>1 DEF Pops
    <2>3. status[m] = "Inflight" /\ Idle(m)
      BY <1>0, <2>2, HeadTail DEF BatchExact
    <2>4. loop # "aborted"
      BY Zenon, <1>0, <1>8, DeniedDoes, DuplicateDoes, SubmitDoes, InlineDoes
    <2>5. \/ job'[m] = "out" /\ ran'[m] = "no"
          \/ job'[m] = "sent" /\ ran'[m] = "no" /\ cont'[m] = "submitted" /\ scheduler_on
          \/ job'[m] = "out" /\ ran'[m] = "running" /\ cont'[m] = "submitted" /\ ~scheduler_on
      BY Zenon, <1>0, <1>8, <2>3, DeniedDoes, DuplicateDoes, SubmitDoes, InlineDoes DEF Pops, Idle
    <2>6. CASE n = m
      BY Zenon, <1>0, <2>2, <2>3, <2>5, <2>6 DEF InPlace, Fixed, Dispatchable
    <2>7. CASE n # m
      BY <1>0, <2>2, <2>4, <2>7, PlaceKeeps DEF Touches
    <2> QED
      BY Zenon, <2>6, <2>7
  <1>9. CASE LoopDequeue
    <2>1. PICK s \in Batches :
            /\ UNCHANGED <<cont, result, job, ran>> /\ loop = "enter"
            /\ \A k \in Message : status'[k] =
                  IF \E i \in DOMAIN s : s[i] = k THEN "Inflight" ELSE status[k]
      BY Zenon, <1>9, DequeueDoes
    <2>2. CASE \E i \in DOMAIN s : s[i] = n
      <3>1. n \in Queued
        BY <2>2, BatchShape
      <3>2. cont[n] = "none"
        BY Zenon, <1>0, <3>1 DEF Queued, BatchExact, Idle
      <3> QED
        BY Zenon, <1>0, <2>1, <3>2, PlaceRow
    <2>3. CASE ~\E i \in DOMAIN s : s[i] = n
      BY Zenon, <1>0, <2>1, <2>3, PlaceKeeps DEF Same
    <2> QED
      BY Zenon, <2>2, <2>3
  <1>10. CASE AbortLoop
    BY Zenon, <1>0, <1>10, AbortDoes DEF InPlace, Fixed
  <1>11. CASE Restart
    BY Zenon, <1>0, <1>11, RestartDoes DEF InPlace, Fixed
  <1> QED
    BY Steps, <1>1, <1>2, <1>3, <1>4, <1>5, <1>6, <1>7, <1>8, <1>9, <1>10, <1>11
       DEF LoopMoves, StopMoves

-----------------------------------------------------------------------------
(* The dedup markers *)

LEMMA MarkKeeps ==
  ASSUME Marked, Fixed,
         \A n \in Message : Holder(n)' =>
            Holder(n) /\ entries'[idOf[n]].state = entries[idOf[n]].state
  PROVE  Marked'
  BY Zenon DEF Marked, Fixed

LEMMA MarkStep ==
  ASSUME TypeOK, AdmissionInv, Next
  PROVE  Marked'
  <1>0. /\ BatchExact /\ Placed /\ Marked /\ Fixed /\ batch \in Seq(Message)
        /\ \A n \in Message : idOf[n] \in Id
    BY Zenon, FixedStep DEF AdmissionInv, TypeOK, LoopTypeOK, EnvelopeTypeOK, Envelopes
  <1>1. ASSUME NEW m \in Message, Enqueue(m) \/ Accept(m) \/ Start(m) \/ Return(m) PROVE Marked'
    <2>1. /\ UNCHANGED <<loop, batch, entries>>
          /\ \A n \in Message : n # m => cont'[n] = cont[n] /\ job'[n] = job[n]
      BY <1>1, EnqueueDoes, AcceptDoes, StartDoes, ReturnDoes DEF Touches, Same
    <2>2. /\ cont'[m] \in {"submitted", "returned"} => cont[m] \in {"submitted", "returned"}
          /\ job'[m] # "out" => job[m] # "out"
      BY Zenon, <1>1, EnqueueDoes, AcceptDoes, StartDoes, ReturnDoes
    <2> QED
      BY Zenon, <1>0, <2>1, <2>2, MarkKeeps DEF Holder
  <1>2. ASSUME NEW m \in Message, Finish(m) PROVE Marked'
    <2>1. /\ UNCHANGED <<job, loop, batch>> /\ loop # "submit" /\ cont[m] = "returned"
          /\ cont'[m] = "resolved"
          /\ \A n \in Message : n # m => cont'[n] \in {cont[n], "resolved"}
          /\ \A i \in Id : i # idOf[m] => entries'[i] = entries[i]
      BY Zenon, <1>2, FinishDoes
    <2>2. job[m] = "out"
      BY Zenon, <1>0, <2>1 DEF Placed, InPlace
    <2>3. Holder(m) /\ ~Holder(m)'
      BY Zenon, <2>1, <2>2 DEF Holder
    <2>4. \A n \in Message : Holder(n)' => Holder(n)
      BY <2>1, <2>3 DEF Holder
    <2>5. \A n \in Message : Holder(n)' => idOf[n] # idOf[m]
      BY Zenon, <1>0, <2>3, <2>4 DEF Marked
    <2> QED
      BY Zenon, <1>0, <2>1, <2>4, <2>5, MarkKeeps
  <1>3. ASSUME NEW m \in Message, Reply(m) \/ GiveUp(m) \/ (\E ok \in BOOLEAN : Ack(m, ok))
        PROVE  Marked'
    <2>1. /\ UNCHANGED <<batch, entries, job>> /\ Touches(m) /\ cont'[m] \notin {"submitted", "returned"}
          /\ loop' = "submit" => loop = "submit"
      BY Zenon, <1>3, ReplyDoes, GiveUpDoes, AckDoes
    <2> QED
      BY Zenon, <1>0, <2>1, MarkKeeps DEF Holder, Touches, Same
  <1>4. CASE LoopMoves \/ (\E ok \in BOOLEAN : LoopPoison(ok)) \/ StopMoves
    <2>1. /\ UNCHANGED <<batch, entries, job, cont>>
          /\ loop' = "submit" => loop = "submit"
      BY Zenon, <1>4, MovesDo, LoopMoving, PoisonDoes, StopsDo DEF AllSame
    <2> QED
      BY Zenon, <1>0, <2>1, MarkKeeps DEF Holder
  <1>5. ASSUME NEW ok \in BOOLEAN, LoopDrop(ok) PROVE Marked'
    <2>1. batch # <<>>
      BY Zenon, <1>0, <1>5 DEF BatchExact, LoopDrop
    <2>2. UNCHANGED <<entries, job, cont>> /\ loop' = "batch"
      BY Zenon, <1>5, <2>1, DropDoes
    <2> QED
      BY Zenon, <1>0, <2>2, MarkKeeps DEF Holder
  <1>6. ASSUME NEW m \in Message, AdmitDenied(m) \/ AdmitDuplicate(m) PROVE Marked'
    <2>1. /\ \E r : Pops(m, "resolved", r) \/ Pops(m, "waiting", r)
          /\ UNCHANGED job
      BY Zenon, <1>6, DeniedDoes, DuplicateDoes
    <2>2. /\ Touches(m) /\ cont'[m] \notin {"submitted", "returned"} /\ loop' # "submit"
          /\ UNCHANGED entries
      BY Zenon, <2>1 DEF Pops
    <2> QED
      BY Zenon, <1>0, <2>1, <2>2, MarkKeeps DEF Holder, Touches, Same
  <1>7. ASSUME NEW m \in Message, Submit(m) \/ SubmitInline(m) PROVE Marked'
    <2>1. loop = "submit" /\ \E c, r : Pops(m, c, r)
      BY Zenon, <1>0, <1>7, SubmitDoes, InlineDoes
    <2>2. Touches(m) /\ m = Head(batch) /\ loop' # "submit" /\ UNCHANGED entries
      BY Zenon, <2>1 DEF Pops
    <2>3. Holder(m)
      BY <2>1, <2>2 DEF Holder
    <2>4. \A n \in Message : n # m /\ Holder(n)' => Holder(n)
      BY Zenon, <2>2 DEF Holder, Touches, Same
    <2> QED
      BY Zenon, <1>0, <2>2, <2>3, <2>4, MarkKeeps
  <1>8. ASSUME NEW m \in Message, AdmitFresh(m) PROVE Marked'
    <2>1. /\ UNCHANGED <<cont, job, batch>> /\ loop = "batch" /\ m = Head(batch)
          /\ entries[idOf[m]].state = "none"
          /\ \A i \in Id : entries'[i] = IF i = idOf[m] THEN [state |-> "InFlight", value |-> "none"]
                                        ELSE entries[i]
      BY Zenon, <1>8, FreshDoes DEF AllSame
    <2>2. \A n \in Message : n # m /\ Holder(n)' => Holder(n)
      BY Zenon, <2>1 DEF Holder
    <2>3. \A n \in Message : Holder(n) => idOf[n] # idOf[m]
      BY Zenon, <1>0, <2>1 DEF Marked
    <2>4. \A n \in Message : Holder(n)' => entries'[idOf[n]].state = "InFlight"
      <3> TAKE n \in Message
      <3>1. CASE n = m
        <4>1. entries'[idOf[m]] = [state |-> "InFlight", value |-> "none"]
          BY Zenon, <1>0, <2>1
        <4>2. entries'[idOf[m]].state = "InFlight"
          BY <4>1
        <4> QED
          BY Zenon, <3>1, <4>2
      <3>2. CASE n # m
        BY Zenon, <1>0, <2>1, <2>2, <2>3, <3>2 DEF Marked
      <3> QED
        BY Zenon, <3>1, <3>2
    <2>5. \A k, n \in Message : Holder(k)' /\ Holder(n)' /\ idOf[k] = idOf[n] => k = n
      BY Zenon, <1>0, <2>2, <2>3 DEF Marked
    <2> QED
      BY Zenon, <1>0, <2>4, <2>5 DEF Marked, Fixed
  <1>9. CASE LoopDequeue
    <2>1. UNCHANGED <<cont, job, entries>> /\ loop' = "batch"
      BY Zenon, <1>9, DequeueDoes
    <2> QED
      BY Zenon, <1>0, <2>1, MarkKeeps DEF Holder
  <1>10. ASSUME NEW i \in Id, Expire(i) PROVE Marked'
    <2>1. /\ UNCHANGED <<cont, job, loop, batch>> /\ entries[i].state = "Done"
          /\ \A j \in Id : j # i => entries'[j] = entries[j]
      BY Zenon, <1>10, ExpireDoes DEF AllSame
    <2>2. \A n \in Message : Holder(n)' => Holder(n)
      BY Zenon, <2>1 DEF Holder
    <2>3. \A n \in Message : Holder(n) => idOf[n] # i
      BY Zenon, <1>0, <2>1 DEF Marked
    <2> QED
      BY Zenon, <1>0, <2>1, <2>2, <2>3, MarkKeeps
  <1>11. CASE AbortLoop
    <2>1. UNCHANGED <<job, entries>> /\ loop' = "aborted" /\ \A n \in Message : cont'[n] = "none"
      BY Zenon, <1>11, AbortDoes
    <2> QED
      BY Zenon, <1>0, <2>1, MarkKeeps DEF Holder
  <1>12. CASE Restart
    <2>1. \A n \in Message : ~Holder(n)'
      BY Zenon, <1>12, RestartDoes DEF Holder
    <2> QED
      BY Zenon, <1>0, <2>1, MarkKeeps
  <1> QED
    BY Steps, <1>1, <1>2, <1>3, <1>4, <1>5, <1>6, <1>7, <1>8, <1>9, <1>10, <1>11, <1>12
       DEF LoopMoves, StopMoves

\* Of the deliveries of one request at most one is open.
LEMMA MarkedIsOneRun ==
  ASSUME Placed, Marked
  PROVE  OneRunPerRequest
  BY DEF Placed, InPlace, Marked, Holder, OneRunPerRequest

-----------------------------------------------------------------------------
(* What stays *)

\* A handler that ran to the end stays so, and what was forced.
History ==
    /\ \A n \in Message : ran[n] = "completed" => ran'[n] = "completed"
    /\ forced => forced'

LEMMA HistoryStep ==
  ASSUME TypeOK, AdmissionInv, Next
  PROVE  History
  <1>0. BatchExact /\ Placed /\ batch \in Seq(Message)
    BY Zenon DEF AdmissionInv, TypeOK, LoopTypeOK
  <1>1. ASSUME NEW m \in Message, Enqueue(m) \/ Accept(m) \/ Start(m) \/ Return(m) PROVE History
    <2>1. Touches(m) /\ UNCHANGED forced
      BY Zenon, <1>1, EnqueueDoes, AcceptDoes, StartDoes, ReturnDoes DEF Still
    <2>2. ran[m] = "completed" => ran'[m] = "completed"
      <3>1. CASE Enqueue(m) \/ Accept(m) \/ Return(m)
        BY Zenon, <3>1, EnqueueDoes, AcceptDoes, ReturnDoes
      <3>2. CASE Start(m)
        <4>1. job[m] = "pending"
          BY Zenon, <3>2, StartDoes
        <4> QED
          BY Zenon, <1>0, <4>1 DEF Placed, InPlace
      <3> QED
        BY <1>1, <3>1, <3>2
    <2> QED
      BY Zenon, <2>1, <2>2 DEF History, Touches, Same
  <1>2. ASSUME NEW m \in Message, Finish(m) \/ Reply(m) \/ GiveUp(m) \/ (\E ok \in BOOLEAN : Ack(m,
               ok))
        PROVE  History
    BY Zenon, <1>2, FinishDoes, ReplyDoes, GiveUpDoes, AckDoes DEF History, Still
  <1>3. CASE LoopMoves \/ (\E ok \in BOOLEAN : LoopPoison(ok)) \/ StopMoves
    BY <1>3, MovesDo, PoisonDoes, StopsDo DEF History, AllSame, Still
  <1>4. ASSUME NEW ok \in BOOLEAN, LoopDrop(ok) PROVE History
    <2>1. batch # <<>>
      BY Zenon, <1>0, <1>4 DEF BatchExact, LoopDrop
    <2> QED
      BY Zenon, <1>4, <2>1, DropDoes DEF History, Still
  <1>5. ASSUME NEW m \in Message, AdmitDenied(m) \/ AdmitDuplicate(m) \/ Submit(m) PROVE History
    <2>1. UNCHANGED ran /\ \E c, r : Pops(m, c, r)
      BY <1>0, <1>5, DeniedDoes, DuplicateDoes, SubmitDoes
    <2> QED
      BY <2>1 DEF History, Pops, Still
  <1>6. ASSUME NEW m \in Message, SubmitInline(m) PROVE History
    <2>1. \E c, r : Pops(m, c, r)
      BY Zenon, <1>0, <1>6, InlineDoes
    <2>2. Touches(m) /\ UNCHANGED forced /\ m = Head(batch) /\ batch # <<>>
      BY Zenon, <2>1 DEF Pops, Still
    <2>3. ran[m] = "no"
      BY <1>0, <2>2, HeadTail DEF BatchExact, Idle
    <2> QED
      BY <2>2, <2>3 DEF History, Touches, Same
  <1>7. ASSUME NEW m \in Message, AdmitFresh(m) PROVE History
    BY Zenon, <1>7, FreshDoes DEF History, AllSame, Still
  <1>8. CASE LoopDequeue \/ (\E i \in Id : Expire(i))
    BY Zenon, <1>8, DequeueDoes, ExpireDoes DEF History, AllSame, Still
  <1>9. CASE AbortLoop \/ Restart
    BY <1>9, AbortDoes, RestartDoes DEF History
  <1> QED
    BY Steps, <1>1, <1>2, <1>3, <1>4, <1>5, <1>6, <1>7, <1>8, <1>9 DEF LoopMoves, StopMoves

-----------------------------------------------------------------------------
(* Theorems *)

LEMMA AdmissionInit ==
  ASSUME Init
  PROVE  TypeOK /\ AdmissionInv
  <1> USE DEF Init, TableInit
  <1>1. TypeOK
    <2>1. TableTypeOK /\ EnvelopeTypeOK
      BY MailboxAssumption, InboundAssumption DEF TableTypeOK, EnvelopeTypeOK
    <2>2. LoopTypeOK /\ ContTypeOK
      BY DEF LoopTypeOK, ContTypeOK, NoEntry, Result
    <2>3. JobTypeOK
      BY Zenon DEF JobTypeOK
    <2>4. StopTypeOK
      <3>1. MaxRestarts \in Nat
        BY Zenon, InboundAssumption
      <3>2. restarts \in 0..MaxRestarts
        BY <3>1
      <3> QED
        BY Zenon, <3>2 DEF StopTypeOK
    <2> QED
      BY Zenon, <2>1, <2>2, <2>3, <2>4 DEF TypeOK
  <1>2. \A m \in Message : Idle(m) /\ status[m] = "new" /\ created_at[m] = clock /\ clock \in Nat
    BY Zenon DEF Idle
  <1>3. BatchExact /\ Placed
    BY <1>2 DEF BatchExact, Placed, InPlace, Idle
  <1>4. Marked
    BY Zenon, <1>2 DEF Marked, Holder, Idle
  <1> QED
    BY Zenon, <1>1, <1>3, <1>4 DEF AdmissionInv

LEMMA AdmissionStep ==
  ASSUME TypeOK, AdmissionInv, [Next]_vars
  PROVE  TypeOK' /\ AdmissionInv'
  <1>1. CASE Next
    BY Zenon, <1>1, TypeStep, BatchStep, PlaceStep, MarkStep DEF AdmissionInv
  <1>2. CASE UNCHANGED vars
    <2> USE <1>2 DEF vars, tableVars, envelopeVars, dlqVars, contVars, jobVars, stopVars
    <2>1. TypeOK'
      <3>1. TableTypeOK' /\ EnvelopeTypeOK' /\ LoopTypeOK'
        BY Zenon DEF TypeOK, TableTypeOK, EnvelopeTypeOK, Envelopes, LoopTypeOK
      <3>2. ContTypeOK' /\ JobTypeOK' /\ StopTypeOK'
        BY Zenon DEF TypeOK, ContTypeOK, JobTypeOK, StopTypeOK
      <3> QED
        BY Zenon, <3>1, <3>2 DEF TypeOK
    <2>2. BatchExact'
      BY Zenon DEF AdmissionInv, BatchExact, Idle, Dispatchable
    <2>3. Placed'
      BY Zenon DEF AdmissionInv, Placed, InPlace, Dispatchable
    <2>4. Marked'
      BY DEF AdmissionInv, Marked, Holder
    <2> QED
      BY <2>1, <2>2, <2>3, <2>4 DEF AdmissionInv
  <1> QED
    BY <1>1, <1>2

\* Where each record is in table, batch, continuation, scheduler and handler,
\* and who holds its marker, for any number of records, restarts and shutdowns
\* that are cut short.
THEOREM AdmissionCorrect == Spec => [](TypeOK /\ AdmissionInv)
  <1>1. Init => TypeOK /\ AdmissionInv
    BY AdmissionInit
  <1>2. TypeOK /\ AdmissionInv /\ [Next]_vars => (TypeOK /\ AdmissionInv)'
    BY AdmissionStep
  <1> QED
    BY <1>1, <1>2, PTL DEF Spec

\* OneRunPerRequest: check_or_mark before submit, and complete by the
\* continuation, keep two deliveries of one request from running both.
THEOREM RequestRunsOnce == Spec => []OneRunPerRequest
  <1>1. AdmissionInv => OneRunPerRequest
    BY MarkedIsOneRun DEF AdmissionInv
  <1> QED
    BY <1>1, AdmissionCorrect, PTL
=============================================================================
