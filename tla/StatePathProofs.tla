--------------------------- MODULE StatePathProofs ---------------------------
(***************************************************************************)
(* Proofs about the State Path, second part: every ack has its reason, and *)
(* handlers start in the order of arrival (inductive invariant PathInv).   *)
(***************************************************************************)
EXTENDS AdmissionProofs

-----------------------------------------------------------------------------
(* Results and acks *)

LEMMA TruthKeeps ==
  ASSUME Fixed, History, NEW r, NEW i, Truthful(r, i)
  PROVE  Truthful(r, i)'
  <1>1. r = "handled" => \E n \in Message : idOf'[n] = i /\ ran'[n] = "completed"
    BY DEF Truthful, Fixed, History
  <1>2. forced' \/ r \in {"handled", "denied", "dropped", "timeout"}
    BY Zenon DEF Truthful, History
  <1> QED
    BY <1>1, <1>2 DEF Truthful

\* The reasons of a record whose result does not change.
LEMMA ReasonKeeps ==
  ASSUME Fixed, History, NEW n \in Message, Reasoned(n), result'[n] = result[n],
         status'[n] = "acked" => status[n] = "acked",
         cont'[n] = cont[n] \/ cont'[n] \notin {"returned", "resolved", "replied"},
         loop' = "drop" /\ n = Head(batch') /\ kindOf[n] = "poison" =>
            n \in dlq' \cup lostPoison' \/ (loop = "drop" /\ n = Head(batch)),
         dlq \subseteq dlq', lostPoison \subseteq lostPoison', replied \subseteq replied'
  PROVE  Reasoned(n)'
  <1>1. PICK r, i : r = result[n] /\ i = idOf[n]
    OBVIOUS
  <1>2. UNCHANGED <<kindOf, idOf>> /\ (Dispatchable(n)' <=> Dispatchable(n))
    BY Zenon DEF Fixed, Dispatchable
  <1>3. (status[n] = "acked" /\ Dispatchable(n)) \/ cont[n] \in {"returned", "resolved", "replied"}
           => Truthful(r, i)
    BY <1>1 DEF Reasoned
  <1>4. (status'[n] = "acked" /\ Dispatchable(n)') \/ cont'[n] \in {"returned", "resolved", "replied"}
           => Truthful(r, i)'
    BY <1>2, <1>3, TruthKeeps
  <1>5. r = result'[n] /\ i = idOf'[n]
    BY Zenon, <1>1, <1>2
  <1>6. (status'[n] = "acked" /\ Dispatchable(n)') \/ cont'[n] \in {"returned", "resolved", "replied"}
           => Truthful(result[n], idOf[n])'
    BY Zenon, <1>4, <1>5 DEF Truthful
  <1>7. (status'[n] = "acked" \/ (loop' = "drop" /\ n = Head(batch'))) /\ kindOf'[n] = "poison"
           => n \in dlq' \cup lostPoison'
    BY Zenon, <1>2 DEF Reasoned
  <1>8. (status'[n] = "acked" \/ cont'[n] = "replied") /\ kindOf'[n] = "request" => n \in replied'
    BY Zenon, <1>2 DEF Reasoned
  <1>9. ~Dispatchable(n)' => result'[n] = "none"
    BY <1>2 DEF Reasoned
  <1> QED
    BY Zenon, <1>6, <1>7, <1>8, <1>9 DEF Reasoned

\* The reasons of a record that gets a result or a continuation.
LEMMA ReasonNew ==
  ASSUME Fixed, NEW n \in Message, Dispatchable(n), status'[n] # "acked", cont'[n] # "replied",
         cont'[n] \in {"returned", "resolved"} => Truthful(result[n], idOf[n])'
  PROVE  Reasoned(n)'
  <1>1. Dispatchable(n)' /\ kindOf'[n] # "poison"
    BY DEF Fixed, Dispatchable
  <1> QED
    BY <1>1 DEF Reasoned

\* Entries that are not completed by the step.
LEMMA EntriesKeep ==
  ASSUME Fixed, History, Justified,
         \A i \in Id : entries'[i] = entries[i] \/ entries'[i].state # "Done"
  PROVE  \A i \in Id : entries'[i].state = "Done" => Truthful(entries[i].value, i)'
  <1> SUFFICES ASSUME NEW i \in Id, entries'[i].state = "Done"
               PROVE  Truthful(entries[i].value, i)'
    OBVIOUS
  <1>1. PICK r : r = entries[i].value
    OBVIOUS
  <1>2. entries'[i] = entries[i] /\ Truthful(r, i)
    BY <1>1 DEF Justified
  <1>3. Truthful(r, i)'
    BY Zenon, <1>2, TruthKeeps
  <1>4. r = entries'[i].value
    BY <1>1, <1>2
  <1> QED
    BY <1>3, <1>4 DEF Truthful

LEMMA ReturnReason ==
  ASSUME TypeOK, PathInv, Fixed, History, NEW m \in Message, Return(m)
  PROVE  Reasoned(m)'
  <1>1. InPlace(m) /\ Reasoned(m)
    BY Zenon DEF PathInv, AdmissionInv, Placed, Justified
  <1>2. /\ Still /\ status'[m] = status[m] /\ UNCHANGED <<loop, batch, replied>>
        /\ scheduler_on => job[m] = "running"
        /\ cont'[m] = IF cont[m] = "submitted" THEN "returned" ELSE cont[m]
        /\ ran'[m] = IF ran[m] # "running" THEN ran[m]
                     ELSE IF runner = "aborted" THEN "killed" ELSE "completed"
        /\ result'[m] = IF cont[m] # "submitted" THEN result[m]
                        ELSE IF ran'[m] = "completed" /\ ran[m] = "running" THEN "handled"
                        ELSE "terminated"
    BY Zenon, ReturnDoes
  <1>3. CASE cont[m] # "submitted"
    <2>1. /\ result'[m] = result[m] /\ cont'[m] = cont[m] /\ UNCHANGED <<dlq, lostPoison>>
      BY Zenon, <1>2, <1>3 DEF Still
    <2> QED
      BY Zenon, <1>1, <1>2, <2>1, ReasonKeeps
  <1>4. CASE cont[m] = "submitted"
    <2>1. Dispatchable(m) /\ status'[m] # "acked" /\ cont'[m] = "returned"
      BY <1>1, <1>2, <1>4 DEF InPlace
    <2>2. ~forced => ran[m] = "running" /\ runner # "aborted"
      <3>1. ~forced => ran[m] = "running"
        BY Zenon, <1>2, <1>4 DEF PathInv, AdmissionInv, Ordered
      <3>2. ~forced => runner # "aborted"
        BY Zenon DEF PathInv, AdmissionInv, Ordered
      <3> QED
        BY Zenon, <3>1, <3>2
    <2>3. ~forced => result'[m] = "handled"
      BY Zenon, <1>2, <1>4, <2>2
    <2>4. result'[m] = "handled" => ran'[m] = "completed"
      BY Zenon, <1>2, <1>4
    <2>5. forced' <=> forced
      BY Zenon, <1>2 DEF Still
    <2>6. Truthful(result[m], idOf[m])'
      <3>1. result'[m] = "handled" => \E n \in Message : idOf'[n] = idOf'[m] /\ ran'[n] = "completed"
        BY Zenon, <2>4
      <3>2. forced' \/ result'[m] \in {"handled", "denied", "dropped", "timeout"}
        BY Zenon, <2>3, <2>5
      <3> QED
        BY Zenon, <3>1, <3>2 DEF Truthful
    <2> QED
      BY Zenon, <2>1, <2>6, ReasonNew
  <1> QED
    BY Zenon, <1>3, <1>4

LEMMA FinishReason ==
  ASSUME TypeOK, PathInv, Fixed, History, NEW m \in Message, Finish(m)
  PROVE  Justified'
  <1>0. Justified /\ \A n \in Message : InPlace(n) /\ Reasoned(n) /\ idOf[n] \in Id
    BY Zenon DEF PathInv, AdmissionInv, Placed, Justified, TypeOK, EnvelopeTypeOK, Envelopes
  <1>1. /\ Still /\ cont[m] = "returned" /\ UNCHANGED <<status, loop, batch, replied>>
        /\ \A n \in Message :
              IF n # m /\ cont[n] = "waiting" /\ idOf[n] = idOf[m]
              THEN cont'[n] = "resolved" /\ result'[n] = result[m]
              ELSE /\ result'[n] = result[n]
                   /\ cont'[n] = IF n = m THEN "resolved" ELSE cont[n]
        /\ \A i \in Id : entries'[i] = IF i = idOf[m] THEN [state |-> "Done", value |-> result[m]]
                                       ELSE entries[i]
    BY FinishDoes
  <1>2. PICK r, j : r = result[m] /\ j = idOf[m]
    OBVIOUS
  <1>3. Truthful(r, j)
    BY <1>0, <1>1, <1>2 DEF Reasoned
  <1>4. Truthful(r, j)'
    BY Zenon, <1>3, TruthKeeps
  <1>5. ASSUME NEW n \in Message PROVE Reasoned(n)'
    <2>1. CASE n = m \/ (cont[n] = "waiting" /\ idOf[n] = idOf[m])
      <3>1. cont'[n] = "resolved" /\ result'[n] = r /\ idOf'[n] = j
        BY Zenon, <1>1, <1>2, <2>1 DEF Fixed
      <3>2. Truthful(result[n], idOf[n])'
        BY Zenon, <1>4, <3>1 DEF Truthful
      <3>3. Dispatchable(n) /\ status'[n] # "acked"
        BY Zenon, <1>0, <1>1, <2>1 DEF InPlace
      <3> QED
        BY Zenon, <3>1, <3>2, <3>3, ReasonNew
    <2>2. CASE ~(n = m \/ (cont[n] = "waiting" /\ idOf[n] = idOf[m]))
      <3>1. result'[n] = result[n] /\ cont'[n] = cont[n] /\ UNCHANGED <<dlq, lostPoison>>
        BY Zenon, <1>1, <2>2 DEF Still
      <3> QED
        BY Zenon, <1>0, <1>1, <3>1, ReasonKeeps
    <2> QED
      BY Zenon, <2>1, <2>2
  <1>6. ASSUME NEW i \in Id, entries'[i].state = "Done" PROVE Truthful(entries[i].value, i)'
    <2>1. CASE i = j
      <3>1. entries'[i].value = r
        BY <1>1, <1>2, <2>1
      <3> QED
        BY Zenon, <1>4, <2>1, <3>1 DEF Truthful
    <2>2. CASE i # j
      <3>1. PICK v : v = entries[i].value
        OBVIOUS
      <3>2. entries'[i] = entries[i] /\ Truthful(v, i)
        BY <1>0, <1>1, <1>2, <1>6, <2>2, <3>1 DEF Justified
      <3>3. Truthful(v, i)' /\ v = entries'[i].value
        BY Zenon, <3>1, <3>2, TruthKeeps
      <3> QED
        BY <3>3 DEF Truthful
    <2> QED
      BY Zenon, <2>1, <2>2
  <1> QED
    BY Zenon, <1>5, <1>6 DEF Justified

\* A record that gets its continuation from the loop.
LEMMA PopReason ==
  ASSUME TypeOK, PathInv, Fixed, History, NEW m \in Message, NEW c, NEW r, Pops(m, c, r),
         c # "replied", c \in {"returned", "resolved"} => Truthful(r, idOf[m])
  PROVE  Justified'
  <1>0. Justified /\ BatchExact /\ batch \in Seq(Message)
    BY Zenon DEF PathInv, AdmissionInv, TypeOK, LoopTypeOK
  <1>1. /\ Touches(m) /\ Still /\ batch # <<>> /\ m = Head(batch) /\ Dispatchable(m)
        /\ cont'[m] = c /\ result'[m] = r /\ status'[m] = status[m]
        /\ loop' # "drop" /\ UNCHANGED <<entries, replied>>
    BY Zenon DEF Pops
  <1>2. status[m] = "Inflight"
    BY <1>0, <1>1, HeadTail DEF BatchExact
  <1>3. ASSUME NEW n \in Message PROVE Reasoned(n)'
    <2>1. CASE n = m
      <3>1. PICK i : i = idOf[m]
        OBVIOUS
      <3>2. c \in {"returned", "resolved"} => Truthful(r, i)'
        BY Zenon, <3>1, TruthKeeps
      <3>3. i = idOf'[m] /\ r = result'[m]
        BY Zenon, <1>1, <3>1 DEF Fixed
      <3>4. cont'[m] \in {"returned", "resolved"} => Truthful(result[m], idOf[m])'
        BY <1>1, <3>2, <3>3 DEF Truthful
      <3> QED
        BY <1>1, <1>2, <2>1, <3>4, ReasonNew
    <2>2. CASE n # m
      <3>1. Same(n) /\ Reasoned(n) /\ UNCHANGED <<dlq, lostPoison>>
        BY Zenon, <1>0, <1>1, <2>2 DEF Touches, Justified, Still
      <3> QED
        BY Zenon, <1>1, <3>1, ReasonKeeps DEF Same
    <2> QED
      BY Zenon, <2>1, <2>2
  <1>4. \A i \in Id : entries'[i].state = "Done" => Truthful(entries[i].value, i)'
    BY Zenon, <1>0, <1>1, EntriesKeep
  <1> QED
    BY Zenon, <1>3, <1>4 DEF Justified

\* The results a record may be given, and what stands behind each.
LEMMA JustStep ==
  ASSUME TypeOK, PathInv, Next
  PROVE  Justified'
  <1>0. /\ Justified /\ BatchExact /\ Ordered /\ batch \in Seq(Message) /\ Fixed /\ History
        /\ \A n \in Message : InPlace(n) /\ Reasoned(n) /\ idOf[n] \in Id
    BY Zenon, FixedStep, HistoryStep
       DEF PathInv, AdmissionInv, TypeOK, LoopTypeOK, EnvelopeTypeOK, Envelopes, Placed, Justified
  <1> DEFINE NoneDone == \A i \in Id : entries'[i] = entries[i] \/ entries'[i].state # "Done"
  <1>1. ASSUME NoneDone, \A n \in Message : Reasoned(n)' PROVE Justified'
    BY <1>0, <1>1, EntriesKeep DEF Justified
  <1> HIDE DEF NoneDone
  <1>2. ASSUME NEW m \in Message, UNCHANGED <<entries, dlq, lostPoison>>, Touches(m), Reasoned(m)',
               loop' = "drop" => loop = "drop" /\ UNCHANGED batch, replied \subseteq replied'
        PROVE  Justified'
    <2>1. ASSUME NEW n \in Message, n # m PROVE Reasoned(n)'
      BY <1>0, <1>2, <2>1, ReasonKeeps DEF Touches, Same
    <2>2. NoneDone
      BY <1>2 DEF NoneDone
    <2> QED
      BY Zenon, <1>1, <1>2, <2>1, <2>2
  <1>3. ASSUME NoneDone, AllSame, loop' = "drop" => loop = "drop" /\ UNCHANGED batch,
               UNCHANGED <<replied, dlq, lostPoison>>
        PROVE  Justified'
    <2>1. ASSUME NEW n \in Message PROVE Reasoned(n)'
      BY Zenon, <1>0, <1>3, <2>1, ReasonKeeps DEF AllSame
    <2> QED
      BY <1>1, <1>3, <2>1
  <1>4. ASSUME NEW m \in Message, Enqueue(m) \/ Accept(m) \/ Start(m) PROVE Justified'
    <2>1. /\ Touches(m) /\ UNCHANGED <<entries, dlq, lostPoison, loop, batch, replied>>
          /\ status'[m] # "acked" \/ status'[m] = status[m]
          /\ cont'[m] = cont[m] /\ result'[m] = result[m]
      BY Zenon, <1>4, EnqueueDoes, AcceptDoes, StartDoes DEF Still
    <2>2. Reasoned(m)'
      BY Zenon, <1>0, <2>1, ReasonKeeps
    <2> QED
      BY Zenon, <1>2, <2>1, <2>2
  <1>5. ASSUME NEW m \in Message, Return(m) PROVE Justified'
    BY <1>0, <1>2, <1>5, ReturnReason, ReturnDoes DEF Still
  <1>6. ASSUME NEW m \in Message, Finish(m) PROVE Justified'
    BY <1>0, <1>6, FinishReason
  <1>7. ASSUME NEW m \in Message, GiveUp(m) PROVE Justified'
    <2>1. /\ Touches(m) /\ UNCHANGED <<entries, dlq, lostPoison, loop, batch, replied, status>>
          /\ cont[m] = "waiting" /\ cont'[m] = "resolved" /\ result'[m] = "timeout"
      BY Zenon, <1>7, GiveUpDoes DEF Still
    <2>2. Dispatchable(m) /\ status[m] = "Inflight"
      BY Zenon, <1>0, <2>1 DEF InPlace
    <2>3. Truthful(result[m], idOf[m])'
      BY Zenon, <2>1 DEF Truthful
    <2>4. Reasoned(m)'
      BY Zenon, <1>0, <2>1, <2>2, <2>3, ReasonNew
    <2> QED
      BY Zenon, <1>2, <2>1, <2>4
  <1>8. ASSUME NEW m \in Message, Reply(m) PROVE Justified'
    <2>1. /\ Touches(m) /\ UNCHANGED <<entries, dlq, lostPoison, loop, batch, status, result>>
          /\ cont[m] = "resolved" /\ cont'[m] = "replied" /\ replied \subseteq replied'
          /\ kindOf[m] = "request" => m \in replied'
      BY <1>8, ReplyDoes DEF Still
    <2>2. PICK r, i : r = result[m] /\ i = idOf[m]
      OBVIOUS
    <2>3. Truthful(r, i)'
      BY Zenon, <1>0, <2>1, <2>2, TruthKeeps DEF Reasoned
    <2>4. r = result'[m] /\ i = idOf'[m] /\ kindOf'[m] = kindOf[m] /\ Dispatchable(m)
      BY Zenon, <1>0, <2>1, <2>2 DEF Fixed, InPlace
    <2>5. Truthful(result[m], idOf[m])'
      BY Zenon, <2>3, <2>4 DEF Truthful
    <2>6. Reasoned(m)'
      BY Zenon, <2>1, <2>4, <2>5 DEF Reasoned, Dispatchable
    <2> QED
      BY Zenon, <1>2, <2>1, <2>6
  <1>9. ASSUME NEW m \in Message, NEW ok \in BOOLEAN, Ack(m, ok) PROVE Justified'
    <2>1. /\ Touches(m) /\ UNCHANGED <<entries, dlq, lostPoison, batch, result, replied>>
          /\ cont[m] = "replied" /\ cont'[m] = "none" /\ loop' # "drop"
      BY Zenon, <1>9, AckDoes DEF Still
    <2>2. PICK r, i : r = result[m] /\ i = idOf[m]
      OBVIOUS
    <2>3. Truthful(r, i)'
      BY Zenon, <1>0, <2>1, <2>2, TruthKeeps DEF Reasoned
    <2>4. r = result'[m] /\ i = idOf'[m] /\ kindOf'[m] = kindOf[m] /\ Dispatchable(m)
      BY Zenon, <1>0, <2>1, <2>2 DEF Fixed, InPlace
    <2>5. Truthful(result[m], idOf[m])'
      BY Zenon, <2>3, <2>4 DEF Truthful
    <2>6. kindOf[m] = "request" => m \in replied
      BY Zenon, <1>0, <2>1 DEF Reasoned
    <2>7. Reasoned(m)'
      BY Zenon, <2>1, <2>4, <2>5, <2>6 DEF Reasoned, Dispatchable
    <2> QED
      BY Zenon, <1>2, <2>1, <2>7
  <1>10. CASE LoopMoves
    <2>1. AllSame /\ UNCHANGED <<batch, entries, replied, dlq, lostPoison>>
      BY Zenon, <1>10, MovesDo DEF Still
    <2>2. loop' = "drop" => LoopInvalid
      BY Zenon, <1>10 DEF LoopMoves, LoopBreak, LoopPoll, LoopWake, LoopBatchDone, LoopDone,
             LoopIdle
    <2>3. ASSUME NEW n \in Message PROVE Reasoned(n)'
      <3>1. loop' = "drop" /\ n = Head(batch') => kindOf[n] # "poison"
        BY Zenon, <2>1, <2>2 DEF LoopInvalid
      <3> QED
        BY Zenon, <1>0, <2>1, <3>1, ReasonKeeps DEF AllSame
    <2> QED
      BY Zenon, <1>1, <2>1, <2>3 DEF NoneDone
  <1>11. ASSUME NEW ok \in BOOLEAN, LoopPoison(ok) PROVE Justified'
    <2>1. /\ AllSame /\ UNCHANGED <<batch, entries, replied>> /\ dlq \subseteq dlq'
          /\ lostPoison \subseteq lostPoison' /\ Head(batch) \in dlq' \cup lostPoison'
      BY Zenon, <1>11, PoisonDoes
    <2>2. ASSUME NEW n \in Message PROVE Reasoned(n)'
      BY Zenon, <1>0, <2>1, ReasonKeeps DEF AllSame
    <2> QED
      BY Zenon, <1>1, <2>1, <2>2 DEF NoneDone
  <1>12. ASSUME NEW ok \in BOOLEAN, LoopDrop(ok) PROVE Justified'
    <2>1. batch # <<>> /\ ~Dispatchable(Head(batch))
      BY Zenon, <1>0, <1>12 DEF BatchExact, LoopDrop
    <2>2. PICK m \in Message : m = Head(batch)
      BY Zenon, <1>0, <2>1, HeadTail
    <2>3. /\ Touches(m) /\ UNCHANGED <<cont, result, entries, replied, dlq, lostPoison>>
          /\ loop = "drop" /\ loop' # "drop"
      BY Zenon, <1>12, <2>1, <2>2, DropDoes DEF Still
    <2>4. cont[m] = "none"
      BY Zenon, <1>0, <2>1, <2>2 DEF InPlace
    <2>5. /\ kindOf[m] = "poison" => m \in dlq \cup lostPoison
          /\ result[m] = "none" /\ ~Dispatchable(m) /\ kindOf[m] # "request"
      BY Zenon, <1>0, <2>1, <2>2, <2>3 DEF Reasoned, Dispatchable
    <2>6. ~Dispatchable(m)' /\ kindOf'[m] = kindOf[m]
      BY Zenon, <1>0, <2>5 DEF Fixed, Dispatchable
    <2>7. Reasoned(m)'
      BY Zenon, <2>3, <2>4, <2>5, <2>6 DEF Reasoned
    <2> QED
      BY Zenon, <1>2, <2>3, <2>7
  <1>13. ASSUME NEW m \in Message, AdmitDenied(m) PROVE Justified'
    <2>1. Truthful("denied", idOf[m])
      BY Zenon DEF Truthful
    <2> QED
      BY Zenon, <1>0, <1>13, <2>1, DeniedDoes, PopReason
  <1>14. ASSUME NEW m \in Message, AdmitDuplicate(m) PROVE Justified'
    <2>1. Truthful("dropped", idOf[m])
      BY Zenon DEF Truthful
    <2>2. CASE Pops(m, "resolved", "dropped") \/ Pops(m, "waiting", "none")
      BY Zenon, <1>0, <2>1, <2>2, PopReason
    <2>3. CASE entries[idOf[m]].state = "Done" /\ Pops(m, "resolved", entries[idOf[m]].value)
      <3>1. Truthful(entries[idOf[m]].value, idOf[m])
        BY Zenon, <1>0, <2>3 DEF Justified
      <3> QED
        BY Zenon, <1>0, <2>3, <3>1, PopReason
    <2> QED
      BY Zenon, <1>14, <2>2, <2>3, DuplicateDoes
  <1>15. ASSUME NEW m \in Message, AdmitFresh(m) PROVE Justified'
    <2>1. NoneDone
      BY <1>0, <1>15, FreshDoes DEF NoneDone
    <2> QED
      BY Zenon, <1>3, <1>15, <2>1, FreshDoes DEF Still
  <1>16. ASSUME NEW m \in Message, Submit(m) \/ SubmitInline(m) PROVE Justified'
    <2>1. loop = "submit"
      BY Zenon, <1>16 DEF Submit, SubmitInline
    <2>2. Holding
      BY Zenon, <2>1 DEF Holding
    <2>3. closed \/ runner # "up" => forced
      BY Zenon, <1>0, <2>2 DEF Ordered
    <2>4. forced => Truthful("terminated", idOf[m])
      BY Zenon DEF Truthful
    <2>5. \/ Pops(m, "submitted", "none")
          \/ (closed \/ runner # "up") /\ Pops(m, "returned", "terminated")
      BY Zenon, <1>0, <1>16, SubmitDoes, InlineDoes
    <2>6. CASE Pops(m, "submitted", "none")
      BY Zenon, <1>0, <2>6, PopReason
    <2>7. CASE (closed \/ runner # "up") /\ Pops(m, "returned", "terminated")
      BY Zenon, <1>0, <2>3, <2>4, <2>7, PopReason
    <2> QED
      BY Zenon, <2>5, <2>6, <2>7
  <1>17. CASE LoopDequeue
    <2>1. /\ UNCHANGED <<cont, result, entries, replied, dlq, lostPoison>> /\ loop' = "batch"
          /\ \A n \in Message : status'[n] \in {"Inflight", status[n]}
      BY Zenon, <1>17, DequeueDoes DEF Still
    <2>2. ASSUME NEW n \in Message PROVE Reasoned(n)'
      BY Zenon, <1>0, <2>1, ReasonKeeps
    <2> QED
      BY Zenon, <1>1, <2>1, <2>2 DEF NoneDone
  <1>18. ASSUME NEW i \in Id, Expire(i) PROVE Justified'
    <2>1. NoneDone
      BY <1>18, ExpireDoes DEF NoneDone, NoEntry
    <2> QED
      BY Zenon, <1>3, <1>18, <2>1, ExpireDoes DEF Still
  <1>19. CASE StopMoves
    BY Zenon, <1>3, <1>19, StopsDo DEF NoneDone
  <1>20. CASE AbortLoop
    <2>1. /\ UNCHANGED <<result, status, entries, replied, dlq, lostPoison>> /\ loop' = "aborted"
          /\ \A n \in Message : cont'[n] = "none"
      BY Zenon, <1>20, AbortDoes
    <2>2. ASSUME NEW n \in Message PROVE Reasoned(n)'
      BY Zenon, <1>0, <2>1, ReasonKeeps
    <2> QED
      BY Zenon, <1>1, <2>1, <2>2 DEF NoneDone
  <1>21. CASE Restart
    <2>1. /\ UNCHANGED <<status, replied, dlq, lostPoison>> /\ loop' = "select"
          /\ \A n \in Message :
                /\ cont'[n] = "none"
                /\ result'[n] = IF status[n] = "acked" THEN result[n] ELSE "none"
          /\ \A i \in Id : entries'[i] = NoEntry
      BY Zenon, <1>21, RestartDoes
    <2>2. ASSUME NEW n \in Message PROVE Reasoned(n)'
      <3>1. CASE status[n] = "acked"
        BY Zenon, <1>0, <2>1, <3>1, ReasonKeeps
      <3>2. CASE status[n] # "acked"
        <4>1. /\ status'[n] # "acked" /\ cont'[n] = "none" /\ result'[n] = "none"
              /\ loop' # "drop"
          BY Zenon, <2>1, <3>2
        <4> QED
          BY Zenon, <4>1 DEF Reasoned
      <3> QED
        BY Zenon, <3>1, <3>2
    <2>3. NoneDone
      BY <2>1 DEF NoneDone, NoEntry
    <2> QED
      BY Zenon, <1>1, <2>2, <2>3
  <1> QED
    BY Zenon, <1>4, <1>5, <1>6, <1>7, <1>8, <1>9, <1>10, <1>11, <1>12, <1>13, <1>14, <1>15, <1>16, <1>17,

       <1>18, <1>19, <1>20, <1>21, Steps DEF LoopMoves, StopMoves

-----------------------------------------------------------------------------
(* The stages of the shutdown *)

\* The two halves of Ordered.
InStages ==
    /\ stop \in {"drain", "join", "on_stop", "stopped"} => gate = "closed" /\ ~Holding
    /\ closed => stop \in {"join", "on_stop", "stopped"}
    /\ stop # "aborted"
    /\ stop \in {"on_stop", "stopped"} => runner = "closed" /\ \A m \in Message : job[m] = "out"
    /\ stop \notin {"on_stop", "stopped"} => runner = "up"

Runs(m) ==
    cont[m] = "submitted" =>
        IF scheduler_on THEN job[m] # "out" /\ (job[m] = "running" => ran[m] = "running")
        ELSE ran[m] = "running"

LEMMA OrderedIs == Ordered <=> (~forced => InStages /\ \A m \in Message : Runs(m))
  <1>1. Dispatcher!Unfinished = {} <=> \A m \in Message : job[m] = "out"
    BY Zenon DEF Dispatcher!Unfinished
  <1> QED
    BY <1>1 DEF Ordered, InStages, Runs

LEMMA OrderedIsNext == Ordered' <=> (~forced' => InStages' /\ \A m \in Message : Runs(m)')
  <1>1. (Dispatcher!Unfinished = {})' <=> \A m \in Message : job'[m] = "out"
    BY Zenon DEF Dispatcher!Unfinished
  <1> QED
    BY <1>1 DEF Ordered, InStages, Runs

\* The loop and the jobs move while the coordinator stands still.
LEMMA StagesKeep ==
  ASSUME InStages, UNCHANGED <<stop, gate, runner, closed>>,
         loop' = loop \/ ~Holding' \/ Holding \/ gate # "closed",
         \A m \in Message : job'[m] # "out" => job[m] # "out" \/ Holding
  PROVE  InStages'
  BY DEF InStages, Holding

LEMMA RunsKeep ==
  ASSUME NEW m \in Message, Runs(m), UNCHANGED scheduler_on,
         cont'[m] = cont[m] \/ cont'[m] # "submitted",
         job'[m] = job[m], ran'[m] = ran[m]
  PROVE  Runs(m)'
  BY Zenon DEF Runs

\* No stage of the shutdown is overtaken, and what is submitted runs.
LEMMA OrderStep ==
  ASSUME TypeOK, PathInv, Next
  PROVE  Ordered'
  <1>0. /\ BatchExact /\ batch \in Seq(Message) /\ UNCHANGED scheduler_on
        /\ \A n \in Message : InPlace(n)
    BY Zenon, FixedStep DEF PathInv, AdmissionInv, TypeOK, LoopTypeOK, Placed, Fixed
  <1>1. forced => forced'
    BY HistoryStep DEF PathInv, History
  <1> SUFFICES ASSUME ~forced, ~forced' PROVE InStages' /\ \A n \in Message : Runs(n)'
    BY Zenon, <1>1, OrderedIsNext
  <1>2. InStages /\ \A n \in Message : Runs(n)
    BY Zenon, OrderedIs DEF PathInv, AdmissionInv
  <1>3. ASSUME NEW m \in Message, Touches(m), Runs(m)' PROVE \A n \in Message : Runs(n)'
    <2>1. ASSUME NEW n \in Message, n # m PROVE Runs(n)'
      BY Zenon, <1>0, <1>2, <1>3, <2>1, RunsKeep DEF Touches, Same
    <2> QED
      BY Zenon, <1>3, <2>1
  <1>4. ASSUME AllSame PROVE \A n \in Message : Runs(n)'
    BY Zenon, <1>0, <1>2, <1>4, RunsKeep DEF AllSame
  <1>5. ASSUME NEW m \in Message, Enqueue(m) \/ Accept(m) \/ Start(m) \/ Return(m)
        PROVE  InStages' /\ \A n \in Message : Runs(n)'
    <2>1. /\ Touches(m) /\ UNCHANGED <<stop, gate, runner, closed, loop>>
          /\ job'[m] # "out" => job[m] # "out"
      BY Zenon, <1>5, EnqueueDoes, AcceptDoes, StartDoes, ReturnDoes DEF Still
    <2>2. InStages'
      BY <1>2, <2>1, StagesKeep DEF Touches, Same
    <2>3. Runs(m)'
      <3>1. CASE Enqueue(m)
        BY Zenon, <1>0, <1>2, <3>1, EnqueueDoes, RunsKeep
      <3>2. CASE Accept(m)
        <4>1. job[m] = "sent" /\ job'[m] = "pending" /\ cont'[m] = cont[m]
          BY <3>2, AcceptDoes
        <4> QED
          BY Zenon, <1>0, <4>1 DEF Runs, InPlace
      <3>3. CASE Start(m)
        <4>1. /\ job[m] = "pending" /\ job'[m] = "running"
              /\ ran'[m] = IF runner = "up" THEN "running" ELSE ran[m]
          BY Zenon, <3>3, StartDoes
        <4>2. runner = "up"
          BY Zenon, <1>2, <4>1 DEF InStages
        <4> QED
          BY Zenon, <1>0, <4>1, <4>2 DEF Runs, InPlace
      <3>4. CASE Return(m)
        <4>1. cont'[m] # "submitted"
          BY Zenon, <3>4, ReturnDoes
        <4> QED
          BY Zenon, <4>1 DEF Runs
      <3> QED
        BY Zenon, <1>5, <3>1, <3>2, <3>3, <3>4
    <2> QED
      BY Zenon, <1>3, <2>1, <2>2, <2>3
  <1>6. ASSUME NEW m \in Message, Finish(m)
        PROVE  InStages' /\ \A n \in Message : Runs(n)'
    <2>1. /\ UNCHANGED <<stop, gate, runner, closed, loop, job, ran>>
          /\ \A n \in Message : cont'[n] \in {cont[n], "resolved"}
      BY Zenon, <1>6, FinishDoes DEF Still
    <2> QED
      BY <1>0, <1>2, <2>1, StagesKeep, RunsKeep
  <1>7. ASSUME NEW m \in Message, NEW ok \in BOOLEAN, GiveUp(m) \/ Reply(m) \/ Ack(m, ok)
        PROVE  InStages' /\ \A n \in Message : Runs(n)'
    <2>1. /\ Touches(m) /\ UNCHANGED <<stop, gate, runner, closed, job, ran>>
          /\ cont'[m] # "submitted"
          /\ loop' = loop \/ loop = "await"
      BY Zenon, <1>7, GiveUpDoes, ReplyDoes, AckDoes DEF Still
    <2>2. InStages'
      BY Zenon, <1>2, <2>1, StagesKeep DEF Holding
    <2>3. Runs(m)'
      BY Zenon, <2>1 DEF Runs
    <2> QED
      BY <1>3, <2>1, <2>2, <2>3
  <1>8. CASE LoopMoves
    <2>1. AllSame /\ UNCHANGED <<stop, gate, runner, closed>>
      BY Zenon, <1>8, MovesDo DEF Still
    <2>2. ~Holding' \/ Holding
      BY Zenon, <1>8 DEF LoopMoves, LoopBreak, LoopPoll, LoopWake, LoopBatchDone, LoopDone,
             LoopInvalid,
                  LoopIdle, Holding
    <2>3. InStages'
      BY Zenon, <1>2, <2>1, <2>2, StagesKeep DEF AllSame
    <2> QED
      BY Zenon, <1>4, <2>1, <2>3
  <1>9. ASSUME NEW ok \in BOOLEAN, LoopPoison(ok) PROVE InStages' /\ \A n \in Message : Runs(n)'
    <2>1. AllSame /\ UNCHANGED <<stop, gate, runner, closed>> /\ Holding
      BY Zenon, <1>9, PoisonDoes DEF Holding
    <2> QED
      BY Zenon, <1>2, <1>4, <2>1, StagesKeep DEF AllSame
  <1>10. ASSUME NEW ok \in BOOLEAN, LoopDrop(ok) PROVE InStages' /\ \A n \in Message : Runs(n)'
    <2>1. batch # <<>>
      BY Zenon, <1>0, <1>10 DEF BatchExact, LoopDrop
    <2>2. UNCHANGED <<stop, gate, runner, closed, cont, job, ran>> /\ Holding
      BY <1>10, <2>1, DropDoes DEF Holding, Still
    <2> QED
      BY Zenon, <1>0, <1>2, <2>2, StagesKeep, RunsKeep
  <1>11. ASSUME NEW m \in Message, AdmitDenied(m) \/ AdmitDuplicate(m)
         PROVE  InStages' /\ \A n \in Message : Runs(n)'
    <2>1. /\ Touches(m) /\ UNCHANGED <<stop, gate, runner, closed, job, ran>> /\ Holding
          /\ cont'[m] # "submitted"
      BY Zenon, <1>11, DeniedDoes, DuplicateDoes DEF Pops, Still, Holding
    <2>2. Runs(m)'
      BY Zenon, <2>1 DEF Runs
    <2> QED
      BY Zenon, <1>2, <1>3, <2>1, <2>2, StagesKeep
  <1>12. ASSUME NEW m \in Message, AdmitFresh(m) PROVE InStages' /\ \A n \in Message : Runs(n)'
    <2>1. AllSame /\ UNCHANGED <<stop, gate, runner, closed>> /\ Holding
      BY Zenon, <1>12, FreshDoes DEF Still, Holding
    <2> QED
      BY Zenon, <1>2, <1>4, <2>1, StagesKeep DEF AllSame
  <1>13. ASSUME NEW m \in Message, Submit(m) \/ SubmitInline(m)
         PROVE  InStages' /\ \A n \in Message : Runs(n)'
    <2>1. /\ Touches(m) /\ UNCHANGED <<stop, gate, runner, closed>> /\ Holding
      BY Zenon, <1>0, <1>13, SubmitDoes, InlineDoes DEF Pops, Still, Holding
    <2>2. Runs(m)'
      <3>1. CASE Submit(m)
        <4>1. scheduler_on' /\ (cont'[m] # "submitted" \/ job'[m] = "sent")
          BY Zenon, <1>0, <3>1, SubmitDoes DEF Pops
        <4> QED
          BY Zenon, <4>1 DEF Runs
      <3>2. CASE SubmitInline(m)
        <4>1. ~scheduler_on' /\ (cont'[m] # "submitted" \/ ran'[m] = "running")
          BY Zenon, <1>0, <3>2, InlineDoes DEF Pops
        <4> QED
          BY Zenon, <4>1 DEF Runs
      <3> QED
        BY <1>13, <3>1, <3>2
    <2> QED
      BY Zenon, <1>2, <1>3, <2>1, <2>2, StagesKeep
  <1>14. CASE LoopDequeue
    <2>1. UNCHANGED <<stop, gate, runner, closed, cont, job, ran>> /\ gate # "closed"
      BY Zenon, <1>14, DequeueDoes DEF Still
    <2> QED
      BY <1>0, <1>2, <2>1, StagesKeep, RunsKeep
  <1>15. ASSUME NEW i \in Id, Expire(i) PROVE InStages' /\ \A n \in Message : Runs(n)'
    BY Zenon, <1>2, <1>4, <1>15, StagesKeep, ExpireDoes DEF AllSame, Still
  <1>16. CASE StopMoves
    <2>1. AllSame /\ UNCHANGED loop
      BY Zenon, <1>16, StopsDo
    <2>2. ~AbortStop
      BY Zenon DEF AbortStop
    <2>3. InStages'
      <3>1. Holding' <=> Holding
        BY Zenon, <2>1 DEF Holding
      <3>2. CASE Cancel
        BY <1>2, <2>1, <3>1, <3>2 DEF Cancel, allButStop, InStages, jobVars
      <3>3. CASE StopBegin
        BY Zenon, <1>2, <2>1, <3>1, <3>3 DEF StopBegin, allButStop, InStages, jobVars, AllSame
      <3>4. CASE StopQuiesced
        BY Zenon, <1>2, <2>1, <3>1, <3>4 DEF StopQuiesced, allButStop, InStages, jobVars, AllSame
      <3>5. CASE StopClose
        BY Zenon, <1>2, <2>1, <3>1, <3>5 DEF StopClose, InStages, AllSame
      <3>6. CASE StopIntake
        <4>1. \A n \in Message : job[n] = "out"
          BY Zenon, <3>6 DEF StopIntake, Dispatcher!Unfinished
        <4> QED
          BY Zenon, <1>2, <2>1, <3>1, <3>6, <4>1 DEF StopIntake, allButStop, InStages, jobVars,
                 AllSame
      <3>7. CASE StopDone
        BY Zenon, <1>2, <2>1, <3>1, <3>7 DEF StopDone, allButStop, InStages, jobVars, AllSame
      <3> QED
        BY Zenon, <1>16, <2>2, <3>2, <3>3, <3>4, <3>5, <3>6, <3>7 DEF StopMoves
    <2> QED
      BY Zenon, <1>4, <2>1, <2>3
  <1>17. ~AbortLoop
    BY Zenon, AbortDoes
  <1>18. CASE Restart
    <2>1. /\ stop' = "idle" /\ runner' = "up" /\ ~closed'
          /\ \A n \in Message : cont'[n] = "none"
      BY Zenon, <1>18, RestartDoes
    <2> QED
      BY Zenon, <2>1 DEF InStages, Runs
  <1> QED
    BY Zenon, <1>5, <1>6, <1>7, <1>8, <1>9, <1>10, <1>11, <1>12, <1>13, <1>14, <1>15, <1>16, <1>17, <1>18,

       Steps DEF LoopMoves, StopMoves

-----------------------------------------------------------------------------
(* Arrival order *)

\* The parts of ArrivalOrder, for a that came before b.
InBatch(a, b) ==
    \A i \in DOMAIN batch : batch[i] = a => Idle(b) /\ \A j \in DOMAIN batch : batch[j] = b => i < j

InJobs(a, b) ==
    job[a] \in {"sent", "pending"} /\ keyOf[a] = keyOf[b] =>
        /\ ran[b] = "no"
        /\ job[b] # "out" => job[b] \in {"sent", "pending"} /\ <<a, b>> \in before

LEMMA ArrivalIs ==
  ArrivalOrder <=>
    /\ \A m \in Message : created_at[m] <= clock
    /\ \A a, b \in Message : Earlier(a, b) =>
          (status[a] = "Queued" => status[b] = "Queued") /\ InBatch(a, b) /\ InJobs(a, b)
  BY DEF ArrivalOrder, InBatch, InJobs

LEMMA ArrivalIsNext ==
  ArrivalOrder' <=>
    /\ \A m \in Message : created_at'[m] <= clock'
    /\ \A a, b \in Message : Earlier(a, b)' =>
          (status'[a] = "Queued" => status'[b] = "Queued") /\ InBatch(a, b)' /\ InJobs(a, b)'
  BY DEF ArrivalOrder, InBatch, InJobs

LEMMA BatchFrame ==
  ASSUME NEW a \in Message, NEW b \in Message, InBatch(a, b), UNCHANGED batch, Idle(b) => Idle(b)'
  PROVE  InBatch(a, b)'
  BY Zenon DEF InBatch, Idle

LEMMA JobsFrame ==
  ASSUME NEW a \in Message, NEW b \in Message, InJobs(a, b), UNCHANGED keyOf,
         job'[a] \in {"sent", "pending"} => job[a] \in {"sent", "pending"},
         job'[b] = job[b], ran[b] = "no" => ran'[b] = "no",
         <<a, b>> \in before => <<a, b>> \in before'
  PROVE  InJobs(a, b)'
  BY Zenon DEF InJobs

\* The head of the batch leaves it.
LEMMA BatchShift ==
  ASSUME NEW a \in Message, NEW b \in Message, InBatch(a, b), batch \in Seq(Message), batch # <<>>,
         batch' = Tail(batch), Idle(b) /\ b # Head(batch) => Idle(b)'
  PROVE  InBatch(a, b)'
  <1>1. /\ 1 \in DOMAIN batch /\ Head(batch) = batch[1]
        /\ \A i \in DOMAIN Tail(batch) : i + 1 \in DOMAIN batch /\ Tail(batch)[i] = batch[i + 1] /\ i \in Nat
    BY Zenon, HeadTail
  <1> SUFFICES ASSUME NEW i \in DOMAIN batch', batch'[i] = a
               PROVE  Idle(b)' /\ \A j \in DOMAIN batch' : batch'[j] = b => i < j
    BY Zenon DEF InBatch
  <1>2. i \in Nat /\ i + 1 \in DOMAIN batch /\ batch[i + 1] = a
    BY Zenon, <1>1
  <1>3. Idle(b) /\ \A j \in DOMAIN batch : batch[j] = b => i + 1 < j
    BY Zenon, <1>2 DEF InBatch
  <1>4. b # Head(batch)
    BY <1>1, <1>2, <1>3
  <1>5. ASSUME NEW j \in DOMAIN batch', batch'[j] = b PROVE i < j
    <2>1. j \in Nat /\ j + 1 \in DOMAIN batch /\ batch[j + 1] = b
      BY Zenon, <1>1, <1>5
    <2>2. i + 1 < j + 1
      BY <1>3, <2>1
    <2> QED
      BY <1>2, <2>1, <2>2
  <1> QED
    BY Zenon, <1>3, <1>4, <1>5

\* Time and the queue stand still.
LEMMA ArrivalKeeps ==
  ASSUME ArrivalOrder, Fixed, UNCHANGED <<created_at, clock>>,
         \A n \in Message : /\ status'[n] = "new" <=> status[n] = "new"
                            /\ status'[n] = "Queued" <=> status[n] = "Queued",
         \A a, b \in Message :
            Earlier(a, b) /\ InBatch(a, b) /\ InJobs(a, b) => InBatch(a, b)' /\ InJobs(a, b)'
  PROVE  ArrivalOrder'
  <1>1. \A n \in Message : created_at'[n] <= clock'
    BY Zenon, ArrivalIs
  <1>2. ASSUME NEW a \in Message, NEW b \in Message, Earlier(a, b)'
        PROVE  (status'[a] = "Queued" => status'[b] = "Queued") /\ InBatch(a, b)' /\ InJobs(a, b)'
    <2>1. Earlier(a, b)
      BY Zenon, <1>2 DEF Earlier, Fixed
    <2> QED
      BY Zenon, <2>1, ArrivalIs
  <1> QED
    BY Zenon, <1>1, <1>2, ArrivalIsNext

\* A record that comes in is the latest.
LEMMA EnqueueOrder ==
  ASSUME TypeOK, PathInv, Fixed, NEW m \in Message, Enqueue(m)
  PROVE  ArrivalOrder'
  <1>0. BatchExact /\ ArrivalOrder
    BY Zenon DEF PathInv, AdmissionInv
  <1>1. /\ Touches(m) /\ status[m] = "new" /\ status'[m] = "Queued"
        /\ cont'[m] = cont[m] /\ job'[m] = job[m] /\ ran'[m] = ran[m]
        /\ clock' \in {clock, clock + 1} /\ created_at'[m] = clock'
        /\ \A n \in Message : n # m => created_at'[n] = created_at[n]
        /\ UNCHANGED <<batch, before>>
    BY EnqueueDoes
  <1>2. clock \in Nat /\ \A n \in Message : created_at[n] \in Nat /\ created_at[n] <= clock
    BY Zenon, <1>0, ArrivalIs DEF TypeOK, TableTypeOK
  <1>3. ASSUME NEW n \in Message PROVE created_at'[n] <= clock'
    BY <1>1, <1>2
  <1>4. Idle(m) /\ \A i \in DOMAIN batch : batch[i] # m
    BY Zenon, <1>0, <1>1 DEF BatchExact
  <1>5. ASSUME NEW a \in Message, NEW b \in Message, Earlier(a, b)'
        PROVE  (status'[a] = "Queued" => status'[b] = "Queued") /\ InBatch(a, b)' /\ InJobs(a, b)'
    <2>1. priority'[a] = priority'[b] /\ created_at'[a] < created_at'[b]
      BY Zenon, <1>5 DEF Earlier
    <2>2. a # m
      BY <1>1, <1>2, <2>1
    <2>3. Same(a)
      BY Zenon, <1>1, <2>2 DEF Touches
    <2>4. CASE b = m
      <3>1. Idle(b)' /\ ran'[b] = "no" /\ job'[b] = "out"
        BY <1>1, <1>4, <2>4 DEF Idle
      <3>2. InBatch(a, b)' /\ InJobs(a, b)'
        BY Zenon, <1>1, <1>4, <2>4, <3>1 DEF InBatch, InJobs
      <3> QED
        BY Zenon, <1>1, <2>4, <3>2
    <2>5. CASE b # m
      <3>1. Same(b)
        BY Zenon, <1>1, <2>5 DEF Touches
      <3>2. Earlier(a, b)
        BY <1>1, <1>5, <2>2, <2>3, <2>5, <3>1 DEF Earlier, Same, Fixed
      <3>3. (status[a] = "Queued" => status[b] = "Queued") /\ InBatch(a, b) /\ InJobs(a, b)
        BY Zenon, <1>0, <3>2, ArrivalIs
      <3>4. InBatch(a, b)'
        BY Zenon, <1>1, <3>1, <3>3, BatchFrame DEF Same, Idle
      <3>5. InJobs(a, b)'
        BY Zenon, <1>1, <2>3, <3>1, <3>3, JobsFrame DEF Same, Fixed
      <3> QED
        BY Zenon, <2>3, <3>1, <3>3, <3>4, <3>5 DEF Same
    <2> QED
      BY Zenon, <2>4, <2>5
  <1> QED
    BY <1>3, <1>5, ArrivalIsNext

\* A batch takes the earliest of every priority, in order.
LEMMA DequeueOrder ==
  ASSUME TypeOK, PathInv, Fixed, LoopDequeue
  PROVE  ArrivalOrder'
  <1>0. BatchExact /\ ArrivalOrder
    BY Zenon DEF PathInv, AdmissionInv
  <1>1. PICK s \in Batches :
            /\ UNCHANGED <<created_at, clock, cont, job, ran, before>>
            /\ batch' = s
            /\ \A n \in Message : status'[n] =
                  IF \E i \in DOMAIN s : s[i] = n THEN "Inflight" ELSE status[n]
    BY Zenon, DequeueDoes DEF Still
  <1>2. /\ s \in Seq(Message)
        /\ \A i \in DOMAIN s : s[i] \in Queued
        /\ \A i, j \in DOMAIN s : i < j => ~Before(s[j], s[i])
        /\ \A i \in DOMAIN s, b \in Queued : (\A j \in DOMAIN s : s[j] # b) => ~Before(b, s[i])
    BY Zenon, <1>1, BatchShape
  <1>3. \A n \in Message : created_at'[n] <= clock' /\ created_at[n] \in Nat
    BY Zenon, <1>0, <1>1, ArrivalIs DEF TypeOK, TableTypeOK
  <1>4. ASSUME NEW a \in Message, NEW b \in Message, Earlier(a, b)'
        PROVE  (status'[a] = "Queued" => status'[b] = "Queued") /\ InBatch(a, b)' /\ InJobs(a, b)'
    <2>1. Earlier(a, b)
      <3>1. status[a] # "new" /\ status[b] # "new"
        BY Zenon, <1>1, <1>2, <1>4 DEF Earlier, Queued
      <3> QED
        BY Zenon, <1>1, <1>4, <3>1 DEF Earlier, Fixed
    <2>2. Before(a, b) /\ a # b
      BY <1>3, <2>1 DEF Earlier, Before
    <2>3. (status[a] = "Queued" => status[b] = "Queued") /\ InJobs(a, b)
      BY Zenon, <1>0, <2>1, ArrivalIs
    <2>4. ASSUME status'[a] = "Queued" PROVE status'[b] = "Queued"
      <3>1. a \in Queued /\ \A j \in DOMAIN s : s[j] # a
        BY Zenon, <1>1, <2>4 DEF Queued
      <3>2. \A i \in DOMAIN s : s[i] # b
        BY Zenon, <1>2, <2>2, <3>1
      <3> QED
        BY Zenon, <1>1, <2>3, <3>1, <3>2 DEF Queued
    <2>5. ASSUME NEW i \in DOMAIN s, s[i] = a
          PROVE  Idle(b)' /\ \A j \in DOMAIN s : s[j] = b => i < j
      <3>1. status[b] = "Queued"
        BY Zenon, <1>2, <2>3, <2>5 DEF Queued
      <3>2. Idle(b)
        BY Zenon, <1>0, <3>1 DEF BatchExact
      <3>3. Idle(b)'
        BY Zenon, <1>1, <3>2 DEF Idle
      <3>4. ASSUME NEW j \in DOMAIN s, s[j] = b PROVE i < j
        <4>1. ~(j < i)
          BY Zenon, <1>2, <2>2, <2>5, <3>4
        <4>2. j # i
          BY Zenon, <2>2, <2>5, <3>4
        <4>3. i \in Int /\ j \in Int
          BY <1>2
        <4> QED
          BY <4>1, <4>2, <4>3
      <3> QED
        BY Zenon, <3>3, <3>4
    <2>6. InBatch(a, b)'
      BY Zenon, <1>1, <2>5 DEF InBatch
    <2>7. InJobs(a, b)'
      BY Zenon, <1>1, <2>3, JobsFrame DEF Fixed
    <2> QED
      BY Zenon, <2>4, <2>6, <2>7
  <1> QED
    BY Zenon, <1>3, <1>4, ArrivalIsNext

\* The earliest of the batch is the one that is admitted.
LEMMA PopOrder ==
  ASSUME TypeOK, PathInv, Fixed, NEW m \in Message, NEW c, NEW r, Pops(m, c, r),
         \A a, b \in Message : Earlier(a, b) /\ InJobs(a, b) => InJobs(a, b)',
         \A n \in Message : n # m /\ Idle(n) => Idle(n)'
  PROVE  ArrivalOrder'
  <1>0. ArrivalOrder /\ batch \in Seq(Message)
    BY Zenon DEF PathInv, AdmissionInv, TypeOK, LoopTypeOK
  <1>1. /\ Touches(m) /\ UNCHANGED <<created_at, clock>> /\ batch # <<>> /\ m = Head(batch)
        /\ status'[m] = status[m] /\ batch' = Tail(batch)
    BY DEF Pops, Still
  <1>2. \A n \in Message : status'[n] = status[n]
    BY Zenon, <1>1 DEF Touches, Same
  <1>3. \A a, b \in Message : InBatch(a, b) => InBatch(a, b)'
    BY Zenon, <1>0, <1>1, BatchShift
  <1> QED
    BY Zenon, <1>0, <1>1, <1>2, <1>3, ArrivalKeeps

\* Nothing that came in earlier falls behind.
LEMMA ArrivalStep ==
  ASSUME TypeOK, PathInv, Next
  PROVE  ArrivalOrder'
  <1>0. /\ BatchExact /\ ArrivalOrder /\ batch \in Seq(Message) /\ Fixed
        /\ \A n \in Message : InPlace(n)
    BY Zenon, FixedStep DEF PathInv, AdmissionInv, TypeOK, LoopTypeOK, Placed
  <1>1. ASSUME AllSame, UNCHANGED <<created_at, clock, batch, before>> PROVE ArrivalOrder'
    <2>1. ASSUME NEW a \in Message, NEW b \in Message, InBatch(a, b), InJobs(a, b)
          PROVE  InBatch(a, b)' /\ InJobs(a, b)'
      BY Zenon, <1>0, <1>1, <2>1, BatchFrame, JobsFrame DEF AllSame, Idle, Fixed
    <2>2. UNCHANGED status
      BY Zenon, <1>1 DEF AllSame
    <2> QED
      BY <1>0, <1>1, <2>1, <2>2, ArrivalKeeps
  <1>2. ASSUME NEW m \in Message, Touches(m), UNCHANGED <<created_at, clock, batch>>,
               status'[m] = "Queued" <=> status[m] = "Queued",
               status'[m] = "new" <=> status[m] = "new",
               ~Idle(m), \A a, b \in Message : Earlier(a, b) /\ InJobs(a, b) => InJobs(a, b)'
        PROVE  ArrivalOrder'
    <2>1. ASSUME NEW a \in Message, NEW b \in Message, InBatch(a, b) PROVE InBatch(a, b)'
      <3>1. Idle(b) => Idle(b)'
        BY Zenon, <1>2 DEF Touches, Same, Idle
      <3> QED
        BY <1>2, <2>1, <3>1, BatchFrame
    <2>2. \A n \in Message : /\ status'[n] = "new" <=> status[n] = "new"
                             /\ status'[n] = "Queued" <=> status[n] = "Queued"
      BY Zenon, <1>2 DEF Touches, Same
    <2> QED
      BY Zenon, <1>0, <1>2, <2>1, <2>2, ArrivalKeeps
  <1>3. ASSUME UNCHANGED <<job, ran, before>>
        PROVE  \A a, b \in Message : Earlier(a, b) /\ InJobs(a, b) => InJobs(a, b)'
    BY Zenon, <1>0, <1>3, JobsFrame DEF Fixed
  <1>4. ASSUME NEW m \in Message, Enqueue(m) PROVE ArrivalOrder'
    BY <1>0, <1>4, EnqueueOrder
  <1>5. ASSUME NEW m \in Message, Accept(m) PROVE ArrivalOrder'
    <2>1. /\ Touches(m) /\ UNCHANGED <<created_at, clock, batch, before>> /\ status'[m] = status[m]
          /\ job[m] = "sent" /\ job'[m] = "pending" /\ ran'[m] = ran[m]
      BY Zenon, <1>5, AcceptDoes DEF Still
    <2>2. ASSUME NEW a \in Message, NEW b \in Message, InJobs(a, b) PROVE InJobs(a, b)'
      BY <1>0, <2>1, <2>2 DEF InJobs, Touches, Same, Fixed
    <2> QED
      BY Zenon, <1>2, <2>1, <2>2 DEF Idle
  <1>6. ASSUME NEW m \in Message, Start(m) PROVE ArrivalOrder'
    <2>1. /\ Touches(m) /\ UNCHANGED <<created_at, clock, batch, before>> /\ status'[m] = status[m]
          /\ job[m] = "pending" /\ job'[m] = "running"
          /\ \A n \in Message : <<n, m>> \in before => keyOf[n] # keyOf[m]
      BY Zenon, <1>6, StartDoes DEF Still
    <2>2. ASSUME NEW a \in Message, NEW b \in Message, InJobs(a, b) PROVE InJobs(a, b)'
      <3>1. CASE b = m
        <4>1. ~(job[a] \in {"sent", "pending"} /\ keyOf[a] = keyOf[b])
          BY Zenon, <2>1, <2>2, <3>1 DEF InJobs
        <4>2. ~(job'[a] \in {"sent", "pending"} /\ keyOf'[a] = keyOf'[b])
          BY Zenon, <1>0, <2>1, <4>1 DEF Touches, Same, Fixed
        <4> QED
          BY Zenon, <4>2 DEF InJobs
      <3>2. CASE b # m
        BY Zenon, <1>0, <2>1, <2>2, <3>2, JobsFrame DEF Touches, Same, Fixed
      <3> QED
        BY <3>1, <3>2
    <2> QED
      BY Zenon, <1>2, <2>1, <2>2 DEF Idle
  <1>7. ASSUME NEW m \in Message, Return(m) PROVE ArrivalOrder'
    <2>1. /\ Touches(m) /\ UNCHANGED <<created_at, clock, batch>> /\ status'[m] = status[m]
          /\ IF scheduler_on THEN job[m] = "running" /\ job'[m] = "out"
             ELSE cont[m] = "submitted" /\ job'[m] = job[m]
          /\ \A a, b \in Message \ {m} : <<a, b>> \in before => <<a, b>> \in before'
      BY Zenon, <1>7, ReturnDoes DEF Still
    <2>2. job'[m] = "out"
      BY Zenon, <1>0, <2>1 DEF InPlace
    <2>3. ASSUME NEW a \in Message, NEW b \in Message, InJobs(a, b) PROVE InJobs(a, b)'
      <3>1. CASE a = m
        BY Zenon, <2>2, <3>1 DEF InJobs
      <3>2. CASE a # m /\ b = m
        <4>1. ~(job[a] \in {"sent", "pending"} /\ keyOf[a] = keyOf[b])
          BY Zenon, <1>0, <2>1, <2>3, <3>2 DEF InJobs, InPlace
        <4>2. ~(job'[a] \in {"sent", "pending"} /\ keyOf'[a] = keyOf'[b])
          BY Zenon, <1>0, <2>1, <3>2, <4>1 DEF Touches, Same, Fixed
        <4> QED
          BY Zenon, <4>2 DEF InJobs
      <3>3. CASE a # m /\ b # m
        BY Zenon, <1>0, <2>1, <2>3, <3>3, JobsFrame DEF Touches, Same, Fixed
      <3> QED
        BY Zenon, <3>1, <3>2, <3>3
    <2>4. ~Idle(m)
      BY Zenon, <2>1 DEF Idle
    <2> QED
      BY Zenon, <1>2, <2>1, <2>3, <2>4
  <1>8. ASSUME NEW m \in Message, Finish(m) PROVE ArrivalOrder'
    <2>1. /\ UNCHANGED <<created_at, clock, batch, before, status, job, ran>>
          /\ \A n \in Message : cont[n] = "none" => cont'[n] = "none"
      BY Zenon, <1>8, FinishDoes DEF Still
    <2>2. ASSUME NEW a \in Message, NEW b \in Message, InBatch(a, b) PROVE InBatch(a, b)'
      BY Zenon, <2>1, <2>2, BatchFrame DEF Idle
    <2> QED
      BY <1>0, <1>3, <2>1, <2>2, ArrivalKeeps
  <1>9. ASSUME NEW m \in Message, NEW ok \in BOOLEAN, GiveUp(m) \/ Reply(m) \/ Ack(m, ok)
        PROVE  ArrivalOrder'
    <2>1. /\ Touches(m) /\ UNCHANGED <<created_at, clock, batch, before, job, ran>>
          /\ status'[m] \in {status[m], "acked"} /\ cont[m] # "none"
      BY Zenon, <1>9, GiveUpDoes, ReplyDoes, AckDoes DEF Still
    <2>2. status[m] = "Inflight" /\ ~Idle(m)
      BY Zenon, <1>0, <2>1 DEF InPlace, Idle
    <2> QED
      BY <1>2, <1>3, <2>1, <2>2
  <1>10. CASE LoopMoves
    BY <1>1, <1>10, MovesDo DEF Still
  <1>11. ASSUME NEW ok \in BOOLEAN, LoopPoison(ok) PROVE ArrivalOrder'
    BY Zenon, <1>1, <1>11, PoisonDoes
  <1>12. ASSUME NEW ok \in BOOLEAN, LoopDrop(ok) PROVE ArrivalOrder'
    <2>1. batch # <<>>
      BY Zenon, <1>0, <1>12 DEF BatchExact, LoopDrop
    <2>2. PICK m \in Message : m = Head(batch) /\ status[m] = "Inflight"
      BY <1>0, <2>1, HeadTail DEF BatchExact
    <2>3. /\ Touches(m) /\ UNCHANGED <<created_at, clock, cont, job, ran, before>>
          /\ status'[m] \in {status[m], "acked"} /\ batch' = Tail(batch)
      BY Zenon, <1>12, <2>1, <2>2, DropDoes DEF Still
    <2>4. \A n \in Message : /\ status'[n] = "new" <=> status[n] = "new"
                             /\ status'[n] = "Queued" <=> status[n] = "Queued"
      BY Zenon, <2>2, <2>3 DEF Touches, Same
    <2>5. \A a, b \in Message : InBatch(a, b) => InBatch(a, b)'
      BY <1>0, <2>1, <2>3, BatchShift DEF Idle
    <2> QED
      BY Zenon, <1>0, <1>3, <2>3, <2>4, <2>5, ArrivalKeeps
  <1>13. ASSUME NEW m \in Message, AdmitDenied(m) \/ AdmitDuplicate(m) PROVE ArrivalOrder'
    <2>1. UNCHANGED <<job, ran, before>> /\ \E c, r : Pops(m, c, r)
      BY Zenon, <1>13, DeniedDoes, DuplicateDoes
    <2>2. PICK c, r : Pops(m, c, r)
      BY Zenon, <2>1
    <2>3. \A n \in Message : n # m /\ Idle(n) => Idle(n)'
      BY Zenon, <2>2 DEF Pops, Touches, Same, Idle
    <2> QED
      BY Zenon, <1>0, <1>3, <2>1, <2>2, <2>3, PopOrder
  <1>14. ASSUME NEW m \in Message, AdmitFresh(m) PROVE ArrivalOrder'
    BY Zenon, <1>1, <1>14, FreshDoes DEF Still
  <1>15. ASSUME NEW m \in Message, Submit(m) PROVE ArrivalOrder'
    <2>1. /\ UNCHANGED ran /\ \E c, r : Pops(m, c, r)
          /\ \/ UNCHANGED <<job, before>>
             \/ /\ job'[m] = "sent" /\ before \subseteq before'
                /\ \A n \in Message : job[n] # "out" => <<n, m>> \in before'
      BY <1>0, <1>15, SubmitDoes
    <2>2. PICK c, r : Pops(m, c, r)
      BY Zenon, <2>1
    <2>3. /\ Touches(m) /\ batch # <<>> /\ m = Head(batch)
          /\ \A n \in Message : n # m /\ Idle(n) => Idle(n)'
      BY Zenon, <2>2 DEF Pops, Touches, Same, Idle
    <2>4. 1 \in DOMAIN batch /\ m = batch[1]
      BY Zenon, <1>0, <2>3, HeadTail
    <2>5. CASE UNCHANGED <<job, before>>
      BY Zenon, <1>0, <1>3, <2>1, <2>2, <2>3, <2>5, PopOrder
    <2>6. CASE /\ job'[m] = "sent" /\ before \subseteq before'
               /\ \A n \in Message : job[n] # "out" => <<n, m>> \in before'
      <3>1. ASSUME NEW a \in Message, NEW b \in Message, Earlier(a, b), InJobs(a, b)
            PROVE  InJobs(a, b)'
        <4>1. a # b
          <5>1. created_at[a] \in Nat /\ created_at[a] < created_at[b]
            BY <3>1 DEF Earlier, TypeOK, TableTypeOK
          <5> QED
            BY <5>1
        <4>2. CASE a = m
          <5>1. Idle(b)
            BY Zenon, <1>0, <2>4, <3>1, <4>2, ArrivalIs DEF InBatch
          <5>2. ran'[b] = "no" /\ job'[b] = "out"
            BY Zenon, <2>3, <4>1, <4>2, <5>1 DEF Idle, Touches, Same
          <5> QED
            BY Zenon, <5>2 DEF InJobs
        <4>3. CASE b = m
          <5>1. Same(a) /\ ran'[m] = "no"
            BY <1>0, <2>1, <2>3, <2>4, <4>1, <4>3 DEF Touches, BatchExact, Idle
          <5>2. job'[a] \in {"sent", "pending"} => <<a, m>> \in before'
            BY Zenon, <2>6, <5>1 DEF Same
          <5> QED
            BY Zenon, <2>6, <4>3, <5>1, <5>2 DEF InJobs
        <4>4. CASE a # m /\ b # m
          BY Zenon, <1>0, <2>3, <2>6, <3>1, <4>4, JobsFrame DEF Touches, Same, Fixed
        <4> QED
          BY Zenon, <4>2, <4>3, <4>4
      <3> QED
        BY Zenon, <1>0, <2>2, <2>3, <3>1, PopOrder
    <2> QED
      BY Zenon, <2>1, <2>5, <2>6
  <1>16. ASSUME NEW m \in Message, SubmitInline(m) PROVE ArrivalOrder'
    <2>1. ~scheduler_on /\ UNCHANGED <<job, before>> /\ \E c, r : Pops(m, c, r)
      BY Zenon, <1>0, <1>16, InlineDoes
    <2>2. PICK c, r : Pops(m, c, r)
      BY Zenon, <2>1
    <2>3. \A n \in Message : n # m /\ Idle(n) => Idle(n)'
      BY Zenon, <2>2 DEF Pops, Touches, Same, Idle
    <2>4. \A n \in Message : job'[n] = "out"
      BY Zenon, <1>0, <2>1 DEF InPlace
    <2>5. \A a, b \in Message : InJobs(a, b)'
      BY <2>4 DEF InJobs
    <2> QED
      BY Zenon, <1>0, <2>2, <2>3, <2>5, PopOrder
  <1>17. CASE LoopDequeue
    BY Zenon, <1>0, <1>17, DequeueOrder
  <1>18. ASSUME NEW i \in Id, Expire(i) PROVE ArrivalOrder'
    BY <1>1, <1>18, ExpireDoes DEF Still
  <1>19. CASE StopMoves
    BY Zenon, <1>1, <1>19, StopsDo
  <1>20. CASE AbortLoop
    <2>1. /\ UNCHANGED <<created_at, clock, status, job, before>> /\ batch' = <<>>
          /\ \A n \in Message : ran[n] = "no" => ran'[n] = "no"
      BY Zenon, <1>20, AbortDoes
    <2>2. \A a, b \in Message : InBatch(a, b)'
      BY <2>1 DEF InBatch
    <2>3. ASSUME NEW a \in Message, NEW b \in Message, InJobs(a, b) PROVE InJobs(a, b)'
      BY Zenon, <1>0, <2>1, <2>3, JobsFrame DEF Fixed
    <2> QED
      BY Zenon, <1>0, <2>1, <2>2, <2>3, ArrivalKeeps
  <1>21. CASE Restart
    <2>1. /\ UNCHANGED <<created_at, clock, status>> /\ batch' = <<>>
          /\ \A n \in Message : job'[n] = "out"
      BY Zenon, <1>21, RestartDoes
    <2>2. \A a, b \in Message : InBatch(a, b)' /\ InJobs(a, b)'
      BY <2>1 DEF InBatch, InJobs
    <2> QED
      BY Zenon, <1>0, <2>1, <2>2, ArrivalKeeps
  <1> QED
    BY Zenon, <1>4, <1>5, <1>6, <1>7, <1>8, <1>9, <1>10, <1>11, <1>12, <1>13, <1>14, <1>15, <1>16, <1>17,

       <1>18, <1>19, <1>20, <1>21, Steps DEF LoopMoves, StopMoves

-----------------------------------------------------------------------------
(* The State Path: theorems *)

LEMMA PathInit ==
  ASSUME Init
  PROVE  TypeOK /\ PathInv
  <1>1. TypeOK /\ AdmissionInv
    BY Zenon, AdmissionInit
  <1> USE DEF Init, TableInit
  <1>2. \A m \in Message : Idle(m) /\ status[m] = "new" /\ created_at[m] = clock /\ clock \in Nat
    BY Zenon DEF Idle
  <1>5. Justified
    <2>1. ASSUME NEW m \in Message PROVE Reasoned(m)
      BY Zenon, <1>2 DEF Reasoned, Idle
    <2>2. \A i \in Id : entries[i].state # "Done"
      BY Zenon DEF NoEntry
    <2> QED
      BY Zenon, <2>1, <2>2 DEF Justified
  <1>6. Ordered
    BY Zenon, <1>2, OrderedIs DEF InStages, Runs, Idle
  <1>7. ArrivalOrder
    BY <1>2, ArrivalIs DEF Earlier
  <1> QED
    BY <1>1, <1>5, <1>6, <1>7 DEF PathInv

LEMMA PathStep ==
  ASSUME TypeOK, PathInv, [Next]_vars
  PROVE  TypeOK' /\ PathInv'
  <1>1. TypeOK' /\ AdmissionInv'
    BY AdmissionStep DEF PathInv
  <1>2. CASE Next
    BY Zenon, <1>1, <1>2, JustStep, OrderStep, ArrivalStep DEF PathInv
  <1>3. CASE UNCHANGED vars
    <2> USE <1>3 DEF vars, tableVars, envelopeVars, dlqVars, contVars, jobVars, stopVars
    <2>1. Justified'
      BY DEF PathInv, Justified, Reasoned, Truthful, Dispatchable
    <2>2. Ordered'
      BY Zenon, OrderedIs, OrderedIsNext DEF PathInv, InStages, Runs, Holding
    <2>3. ArrivalOrder'
      BY DEF PathInv, ArrivalOrder, Earlier, Idle
    <2> QED
      BY Zenon, <1>1, <2>1, <2>2, <2>3 DEF PathInv
  <1> QED
    BY <1>2, <1>3

\* The inductive invariant of the State Path: where each record is in table,
\* batch, continuation, scheduler and handler, for any number of records,
\* restarts and cut short shutdowns.
THEOREM PathCorrect == Spec => [](TypeOK /\ PathInv)
  <1>1. Init => TypeOK /\ PathInv
    BY Zenon, PathInit
  <1>2. TypeOK /\ PathInv /\ [Next]_vars => (TypeOK /\ PathInv)'
    BY Zenon, PathStep
  <1> QED
    BY <1>1, <1>2, PTL DEF Spec

\* AckJustified: mailbox_reply_and_ack deletes a row only when its handler ran
\* to the end, it was refused, or it is in the dead letter queue, and a request
\* only after its reply; a shutdown that is not cut short acks nothing unhandled.
THEOREM AcksJustified == Spec => []AckJustified
  <1>1. TypeOK /\ PathInv => AckJustified
    <2> SUFFICES ASSUME TypeOK, PathInv, NEW m \in Message, status[m] = "acked"
                 PROVE  /\ kindOf[m] = "poison" => m \in dlq \cup lostPoison
                        /\ kindOf[m] = "request" => m \in replied
                        /\ Dispatchable(m) /\ ~forced =>
                              result[m] \in {"handled", "denied", "dropped", "timeout"}
                        /\ result[m] = "handled" =>
                              \E n \in Message : idOf[n] = idOf[m] /\ ran[n] = "completed"
      BY Zenon DEF AckJustified
    <2>1. Reasoned(m)
      BY Zenon DEF PathInv, AdmissionInv, Justified
    <2>2. Dispatchable(m) => Truthful(result[m], idOf[m])
      BY Zenon, <2>1 DEF Reasoned
    <2>3. ~Dispatchable(m) => result[m] = "none"
      BY Zenon, <2>1 DEF Reasoned
    <2>4. /\ kindOf[m] = "poison" => m \in dlq \cup lostPoison
          /\ kindOf[m] = "request" => m \in replied
      BY Zenon, <2>1 DEF Reasoned
    <2> QED
      BY <2>2, <2>3, <2>4 DEF Truthful
  <1> QED
    BY <1>1, PathCorrect, PTL

\* Which steps make a handler run.
LEMMA WhoStarts ==
  ASSUME TypeOK, PathInv, Next, NEW a \in Message, ran[a] = "no", ran'[a] = "running"
  PROVE  Start(a) \/ SubmitInline(a)
  <1>0. BatchExact /\ batch \in Seq(Message)
    BY Zenon DEF PathInv, AdmissionInv, TypeOK, LoopTypeOK
  <1>1. ASSUME NEW m \in Message, Enqueue(m) \/ Accept(m) \/ Return(m) PROVE FALSE
    BY Zenon, <1>1, EnqueueDoes, AcceptDoes, ReturnDoes DEF Touches, Same
  <1>2. ASSUME NEW m \in Message, Start(m) PROVE m = a
    BY Zenon, <1>2, StartDoes DEF Touches, Same
  <1>3. ASSUME NEW m \in Message, Finish(m) \/ Reply(m) \/ GiveUp(m) PROVE FALSE
    BY Zenon, <1>3, FinishDoes, ReplyDoes, GiveUpDoes
  <1>4. ASSUME NEW m \in Message, NEW ok \in BOOLEAN, Ack(m, ok) PROVE FALSE
    BY Zenon, <1>4, AckDoes
  <1>5. ~LoopMoves /\ ~StopMoves /\ ~LoopDequeue
    BY Zenon, MovesDo, StopsDo, DequeueDoes DEF AllSame
  <1>6. ASSUME NEW ok \in BOOLEAN, LoopPoison(ok) \/ LoopDrop(ok) PROVE FALSE
    BY <1>0, <1>6, PoisonDoes, DropDoes DEF AllSame, LoopDrop, BatchExact
  <1>7. ASSUME NEW m \in Message, AdmitDenied(m) \/ AdmitDuplicate(m) \/ AdmitFresh(m) \/ Submit(m)
        PROVE  FALSE
    BY Zenon, <1>0, <1>7, DeniedDoes, DuplicateDoes, FreshDoes, SubmitDoes DEF AllSame
  <1>8. ASSUME NEW m \in Message, SubmitInline(m) PROVE m = a
    BY Zenon, <1>0, <1>8, InlineDoes DEF Pops, Touches, Same
  <1>9. ASSUME NEW i \in Id, Expire(i) PROVE FALSE
    BY Zenon, <1>9, ExpireDoes DEF AllSame
  <1>10. ~AbortLoop /\ ~Restart
    BY AbortDoes, RestartDoes
  <1> QED
    BY Zenon, <1>1, <1>2, <1>3, <1>4, <1>5, <1>6, <1>7, <1>8, <1>9, <1>10, Steps
       DEF LoopMoves, StopMoves

\* HandlersInArrivalOrder: dequeue, batch, admission and scheduler keep the
\* order of arrival among the handlers of a conflict key and a priority.
THEOREM HandlersKeepArrivalOrder == Spec => HandlersInArrivalOrder
  <1> DEFINE InOrder == \A a, b \in Message :
                /\ ran[a] = "no" /\ ran'[a] = "running"
                /\ keyOf[a] = keyOf[b] \/ ~scheduler_on
                /\ priority[a] = priority[b] /\ created_at[a] < created_at[b]
                => ran[b] = "no"
  <1>1. TypeOK /\ PathInv /\ [Next]_vars => [InOrder]_vars
    <2> SUFFICES ASSUME TypeOK, PathInv, Next, NEW a \in Message, NEW b \in Message,
                        ran[a] = "no", ran'[a] = "running", keyOf[a] = keyOf[b] \/ ~scheduler_on,
                        priority[a] = priority[b], created_at[a] < created_at[b]
                 PROVE  ran[b] = "no"
      OBVIOUS
    <2>0. BatchExact /\ ArrivalOrder /\ InPlace(a) /\ batch \in Seq(Message)
      BY Zenon DEF PathInv, AdmissionInv, Placed, TypeOK, LoopTypeOK
    <2>1. CASE status[b] = "new"
      BY <2>0, <2>1 DEF BatchExact, Idle
    <2>2. CASE status[b] # "new" /\ Start(a)
      <3>1. job[a] = "pending"
        BY Zenon, <2>2, StartDoes
      <3>2. status[a] # "new" /\ scheduler_on
        BY Zenon, <2>0, <3>1 DEF BatchExact, Idle, InPlace
      <3>3. InJobs(a, b)
        BY <2>0, <2>2, <3>2, ArrivalIs DEF Earlier
      <3> QED
        BY Zenon, <3>1, <3>2, <3>3 DEF InJobs
    <2>3. CASE status[b] # "new" /\ SubmitInline(a)
      <3>1. batch # <<>> /\ a = Head(batch)
        BY Zenon, <2>0, <2>3, InlineDoes DEF Pops
      <3>2. 1 \in DOMAIN batch /\ a = batch[1]
        BY Zenon, <2>0, <3>1, HeadTail
      <3>3. status[a] # "new"
        BY Zenon, <2>0, <3>2 DEF BatchExact
      <3>4. InBatch(a, b)
        BY <2>0, <2>3, <3>3, ArrivalIs DEF Earlier
      <3> QED
        BY Zenon, <3>2, <3>4 DEF InBatch, Idle
    <2> QED
      BY Zenon, <2>1, <2>2, <2>3, WhoStarts
  <1> QED
    BY <1>1, PathCorrect, PTL DEF Spec, HandlersInArrivalOrder
=============================================================================
