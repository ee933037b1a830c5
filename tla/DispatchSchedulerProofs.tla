----------------------- MODULE DispatchSchedulerProofs -----------------------
(***************************************************************************)
(* Proofs about DispatchScheduler, for every set of jobs and keys, every   *)
(* budget and every queue capacity.                                        *)
(***************************************************************************)
EXTENDS DispatchScheduler, FiniteSetTheorems, TLAPS

USE SchedulerAssumption

LEMMA SizesType == Budget \in Nat \ {0} /\ QueueCap \in Nat \ {0} /\ Budget <= QueueCap
  BY DEF Budget, QueueCap

LEMMA EmptyQueues ==
  /\ <<>> \in Seq(Key)
  /\ <<>> \in Seq(Job)
  /\ [k \in Key |-> <<>>] \in [Key -> Seq(Job)]
  <1>1. <<>> \in Seq(Key) /\ <<>> \in Seq(Job)
    OBVIOUS
  <1> QED
    BY <1>1

LEMMA DropType ==
  ASSUME TypeOK, NEW S \in SUBSET Job, DropJobs(S)
  PROVE  /\ phase' \in [Job -> Phase]
         /\ before' \subseteq Job \X Job
         /\ slots' \in Nat
  <1>1. Cardinality(S) \in Nat
    BY Zenon, FS_Subset, FS_CardinalityType
  <1> QED
    BY <1>1 DEF TypeOK, DropJobs, Phase

LEMMA EnqueueType ==
  ASSUME TypeOK, NEW j \in Job, enqueue(j)
  PROVE  /\ queues' \in [Key -> Seq(Job)]
         /\ ready' \in Seq(Key)
         /\ phase' \in [Job -> Phase]
  BY DEF TypeOK, enqueue, BecomesReady, Phase

LEMMA StartType ==
  ASSUME TypeOK, NEW k \in Key, start(k)
  PROVE  /\ queues' \in [Key -> Seq(Job)]
         /\ active' \subseteq Key
         /\ inflight' \subseteq Job
         /\ phase' \in [Job -> Phase]
  <1>1. CASE queues[k] = <<>>
    BY Zenon, <1>1 DEF TypeOK, start, Phase
  <1>2. CASE queues[k] # <<>>
    <2>1. Head(queues[k]) \in Job /\ Tail(queues[k]) \in Seq(Job)
      BY <1>2 DEF TypeOK
    <2>2. /\ queues' = [queues EXCEPT ![k] = Tail(@)]
          /\ active' = active \cup {k}
          /\ inflight' = inflight \cup {Head(queues[k])}
          /\ phase' = [j \in Job |-> IF j = Head(queues[k]) THEN "running" ELSE phase[j]]
      BY Zenon, <1>2 DEF start, TypeOK
    <2> QED
      BY Zenon, <2>1, <2>2 DEF TypeOK, Phase
  <1> QED
    BY Zenon, <1>1, <1>2

\* Every variable keeps its type (type invariant of DispatchScheduler).
THEOREM TypeCorrect == Spec => []TypeOK
  <1>1. Init => TypeOK
    BY Zenon, SizesType, EmptyQueues DEF Init, TypeOK, Phase
  <1>2. TypeOK /\ [Next]_vars => TypeOK'
    <2> SUFFICES ASSUME TypeOK, [Next]_vars PROVE TypeOK'
      OBVIOUS
    <2> USE DEF submitVars, taskVars
    <2>1. ASSUME NEW j \in Job, SubmitEnter(j) PROVE TypeOK'
      <3>1. \E p \in Phase : phase' = [phase EXCEPT ![j] = p]
        BY <2>1 DEF SubmitEnter, Phase
      <3>2. phase' \in [Job -> Phase]
        BY <3>1 DEF TypeOK
      <3>3. slots' \in Nat
        BY <2>1 DEF SubmitEnter, TypeOK
      <3> QED
        BY <2>1, <3>2, <3>3 DEF TypeOK, SubmitEnter
    <2>2. ASSUME NEW j \in Job, SubmitAcquire(j) PROVE TypeOK'
      BY <2>2 DEF TypeOK, SubmitAcquire, Phase
    <2>3. ASSUME NEW j \in Job, SubmitSend(j) PROVE TypeOK'
      BY <2>3 DEF TypeOK, SubmitSend, Phase, Outstanding
    <2>4. ASSUME NEW j \in Job, NextRequest(j) PROVE TypeOK'
      BY <2>4 DEF TypeOK, NextRequest, Phase
    <2>5. CASE ShutdownBegin
      BY Zenon, <2>5 DEF TypeOK, ShutdownBegin
    <2>6. CASE ShutdownClose
      BY Zenon, <2>6 DEF TypeOK, ShutdownClose
    <2>7. CASE ShutdownJoin
      BY <2>7 DEF TypeOK, ShutdownJoin
    <2>8. CASE DropHandle
      BY <2>8 DEF TypeOK, DropHandle
    <2>9. CASE Recv
      BY <2>9, EnqueueType DEF TypeOK, Recv
    <2>10. CASE RecvNone
      <3> DEFINE S == {j \in Job : phase[j] = "queued"}
      <3>1. S \in SUBSET Job /\ DropJobs(S)
        BY Zenon, <2>10 DEF RecvNone
      <3>2. /\ phase' \in [Job -> Phase]
            /\ before' \subseteq Job \X Job
            /\ slots' \in Nat
        BY Zenon, <3>1, DropType
      <3> QED
        BY Zenon, <2>10, <3>2, EmptyQueues DEF TypeOK, RecvNone
    <2>11. CASE Cancelled
      BY Zenon, <2>11 DEF TypeOK, Cancelled
    <2>12. CASE Drain
      <3>1. Head(intake) \in Job /\ Tail(intake) \in Seq(Job)
        BY <2>12 DEF TypeOK, Drain
      <3>2. enqueue(Head(intake)) /\ intake' = Tail(intake)
        BY Zenon, <2>12 DEF Drain
      <3>3. queues' \in [Key -> Seq(Job)] /\ ready' \in Seq(Key) /\ phase' \in [Job -> Phase]
        BY Zenon, <3>1, <3>2, EnqueueType
      <3> QED
        BY Zenon, <2>12, <3>1, <3>3 DEF TypeOK, Drain, enqueue
    <2>13. CASE DrainEnd
      BY <2>13 DEF TypeOK, DrainEnd
    <2>14. CASE PumpSerial
      BY Zenon, <2>14, StartType DEF TypeOK, PumpSerial
    <2>15. CASE PumpScoped
      BY <2>15, StartType DEF TypeOK, PumpScoped
    <2>16. CASE PumpEnd
      BY Zenon, <2>16 DEF TypeOK, PumpEnd
    <2>17. ASSUME NEW j \in Job, Complete(j) PROVE TypeOK'
      BY <2>17 DEF TypeOK, Complete, Rearmed, Phase
    <2>18. ASSUME TaskGone PROVE TypeOK'
      <3>1. Outstanding \in SUBSET Job /\ DropJobs(Outstanding)
        BY <2>18 DEF TaskGone, Outstanding
      <3>2. /\ phase' \in [Job -> Phase]
            /\ before' \subseteq Job \X Job
            /\ slots' \in Nat
        BY Zenon, <3>1, DropType
      <3> QED
        BY Zenon, <2>18, <3>2, EmptyQueues DEF TypeOK, TaskGone
    <2>19. CASE UNCHANGED vars
      BY <2>19 DEF TypeOK, vars
    <2> QED
      BY <2>1, <2>2, <2>3, <2>4, <2>5, <2>6, <2>7, <2>8, <2>9, <2>10, <2>11, <2>12,
         <2>13, <2>14, <2>15, <2>16, <2>17, <2>18, <2>19
      DEF Next, Submit, Task, Pump, Exit, Abort
  <1> QED
    BY <1>1, <1>2, PTL DEF Spec

-----------------------------------------------------------------------------
(* What the task's data structures say about each other *)

Core == Placement /\ AdmissionOrder /\ FifoPerKey /\ ReadyExact /\ SerialAlone

Live == {"sent", "queued", "running"}

\* Placement, taken apart: what lies in the channel, in the queues and in flight.
LEMMA InChannel ==
  ASSUME Core
  PROVE  /\ \A n \in 1..Len(intake) : phase[intake[n]] = "sent"
         /\ \A j \in Job : phase[j] = "sent" => \E n \in 1..Len(intake) : intake[n] = j
  BY Zenon DEF Core, Placement

LEMMA InQueues ==
  ASSUME Core
  PROVE  /\ \A k \in Key : \A n \in 1..Len(queues[k]) :
               phase[queues[k][n]] = "queued" /\ keyOf[queues[k][n]] = k
         /\ \A j \in Job : phase[j] = "queued" =>
               \E n \in 1..Len(queues[keyOf[j]]) : queues[keyOf[j]][n] = j
  BY Zenon DEF Core, Placement

LEMMA InFlight ==
  ASSUME Core
  PROVE  /\ inflight = {j \in Job : phase[j] = "running"}
         /\ \A k \in Key : k \in active <=> \E j \in inflight : keyOf[j] = k
         /\ \A i, j \in inflight : keyOf[i] = keyOf[j] => i = j
  BY Zenon DEF Core, Placement

\* Steps outside the task's data structures: only jobs that are not admitted,
\* before and after, change phase.
LEMMA CoreFrame ==
  ASSUME TypeOK, TypeOK', Core,
         UNCHANGED <<keyOf, before, intake, queues, ready, active, inflight>>,
         \A j \in Job : phase[j] \in Live \/ phase'[j] \in Live => phase'[j] = phase[j]
  PROVE  Core'
  <1>1. Placement'
    BY DEF Core, Placement, Live, TypeOK
  <1>2. Outstanding' = Outstanding
    BY Zenon DEF Outstanding, Live, TypeOK
  <1>3. AdmissionOrder'
    BY <1>2 DEF Core, AdmissionOrder, Live, TypeOK
  <1>4. FifoPerKey' /\ ReadyExact' /\ SerialAlone'
    BY DEF Core, FifoPerKey, ReadyExact, SerialAlone
  <1> QED
    BY Zenon, <1>1, <1>3, <1>4 DEF Core

\* The step of SubmitSend: the new job goes to the end of the channel, after
\* every outstanding one.
LEMMA CoreSend ==
  ASSUME TypeOK, TypeOK', Core, NEW j \in Job, SubmitSend(j)
  PROVE  Core'
  <1> USE DEF submitVars, taskVars
  <1>1. /\ phase[j] = "sending"
        /\ intake' = Append(intake, j)
        /\ phase' = [phase EXCEPT ![j] = "sent"]
        /\ before' = before \cup (Outstanding \X {j})
        /\ UNCHANGED <<keyOf, queues, ready, active, inflight>>
    BY Zenon DEF SubmitSend
  <1>2. /\ Len(intake) \in Nat
        /\ Len(intake') = Len(intake) + 1
        /\ intake'[Len(intake) + 1] = j
        /\ \A n \in 1..Len(intake) : intake'[n] = intake[n] /\ intake[n] \in Job
    BY <1>1 DEF TypeOK
  <1>3. /\ phase'[j] = "sent"
        /\ \A i \in Job : i # j => phase'[i] = phase[i]
    BY Zenon, <1>1 DEF TypeOK
  <1>4. j \notin Outstanding /\ Outstanding' = Outstanding \cup {j}
    BY Zenon, <1>1, <1>3 DEF Outstanding, TypeOK
  <1>5. Placement'
    BY <1>1, <1>2, <1>3, SMTT(30) DEF Core, Placement, TypeOK
  <1>6. AdmissionOrder'
    <2>1. before' \subseteq Outstanding' \X Outstanding'
      BY Zenon, <1>1, <1>4 DEF Core, AdmissionOrder
    <2>2. \A i, h \in Job : <<i, h>> \in before' => <<h, i>> \notin before'
      BY <1>1, <1>4 DEF Core, AdmissionOrder
    <2>3. \A m, n \in 1..Len(intake') : m < n => <<intake'[m], intake'[n]>> \in before'
      <3> SUFFICES ASSUME NEW m \in 1..Len(intake'), NEW n \in 1..Len(intake'), m < n
                   PROVE  <<intake'[m], intake'[n]>> \in before'
        OBVIOUS
      <3>1. CASE n = Len(intake) + 1
        <4>1. m \in 1..Len(intake) /\ intake'[m] = intake[m] /\ intake'[n] = j
          BY <3>1, <1>2
        <4>2. intake[m] \in Outstanding
          BY Zenon, <4>1, <1>2 DEF Core, Placement, Outstanding
        <4> QED
          BY <4>1, <4>2, <1>1
      <3>2. CASE n # Len(intake) + 1
        <4>1. m \in 1..Len(intake) /\ n \in 1..Len(intake)
          BY <3>2, <1>2
        <4> QED
          BY <4>1, <1>1, <1>2 DEF Core, AdmissionOrder
      <3> QED
        BY Zenon, <3>1, <3>2
    <2>4. \A k \in Key : \A m, n \in 1..Len(queues'[k]) :
             m < n => <<queues'[k][m], queues'[k][n]>> \in before'
      BY Zenon, <1>1 DEF Core, AdmissionOrder
    <2>5. \A i, h \in Job : phase'[i] \in {"queued", "running"} /\ phase'[h] = "sent"
             => <<i, h>> \in before'
      BY Zenon, <1>1, <1>3 DEF Core, AdmissionOrder, Outstanding
    <2> QED
      BY Zenon, <2>1, <2>2, <2>3, <2>4, <2>5 DEF AdmissionOrder
  <1>7. FifoPerKey'
    BY <1>1, <1>4 DEF Core, FifoPerKey, Placement, Outstanding, TypeOK
  <1>8. ReadyExact' /\ SerialAlone'
    BY <1>1 DEF Core, ReadyExact, SerialAlone
  <1> QED
    BY <1>5, <1>6, <1>7, <1>8 DEF Core

\* The head of the channel moves to the end of its key's queue (Recv, Drain).
LEMMA CoreEnqueue ==
  ASSUME TypeOK, TypeOK', Core, intake # <<>>,
         enqueue(Head(intake)), intake' = Tail(intake),
         UNCHANGED <<keyOf, before, active, inflight>>
  PROVE  Core'
  <1> DEFINE j == Head(intake)
  <1> DEFINE k == keyOf[j]
  <1>1. /\ j \in Job /\ k \in Key
        /\ j = intake[1] /\ Len(intake) \in Nat /\ Len(intake) >= 1
        /\ Len(intake') = Len(intake) - 1
        /\ \A n \in 1..Len(intake') : intake'[n] = intake[n + 1]
        /\ \A n \in 1..Len(intake) : intake[n] \in Job
    BY DEF TypeOK
  <1>2. /\ phase[j] = "sent"
        /\ phase'[j] = "queued"
        /\ \A i \in Job : i # j => phase'[i] = phase[i]
    BY <1>1 DEF enqueue, TypeOK, Core, Placement
  <1>3. /\ Len(queues[k]) \in Nat
        /\ Len(queues'[k]) = Len(queues[k]) + 1
        /\ queues'[k][Len(queues[k]) + 1] = j
        /\ \A n \in 1..Len(queues[k]) : queues'[k][n] = queues[k][n] /\ queues[k][n] \in Job
        /\ \A h \in Key : h # k => queues'[h] = queues[h]
        /\ \A h \in Key : Len(queues[h]) \in Nat /\ \A n \in 1..Len(queues[h]) : queues[h][n] \in Job
        /\ queues'[k] # <<>>
    <2>1. \A h \in Key : queues[h] \in Seq(Job)
      BY Zenon DEF TypeOK
    <2>2. /\ queues'[k] = Append(queues[k], j)
          /\ \A h \in Key : h # k => queues'[h] = queues[h]
      BY <1>1 DEF enqueue, TypeOK
    <2> HIDE DEF j, k
    <2>3. queues[k] \in Seq(Job) /\ j \in Job
      BY <1>1, <2>1
    <2>4. /\ Len(queues[k]) \in Nat
          /\ Len(Append(queues[k], j)) = Len(queues[k]) + 1
          /\ Append(queues[k], j)[Len(queues[k]) + 1] = j
          /\ Append(queues[k], j) # <<>>
      BY <2>3
    <2>5. \A n \in 1..Len(queues[k]) :
             Append(queues[k], j)[n] = queues[k][n] /\ queues[k][n] \in Job
      BY <2>3
    <2>6. \A h \in Key : Len(queues[h]) \in Nat /\ \A n \in 1..Len(queues[h]) : queues[h][n] \in Job
      BY <2>1
    <2> QED
      BY Zenon, <2>2, <2>4, <2>5, <2>6
  <1> HIDE DEF j, k
  <1>4. Outstanding' = Outstanding
    BY Zenon, <1>1, <1>2 DEF Outstanding, TypeOK
  <1>5. Placement'
    <2>1. /\ \A n \in 1..Len(intake') : phase'[intake'[n]] = "sent"
          /\ \A m, n \in 1..Len(intake') : intake'[m] = intake'[n] => m = n
      BY <1>1, <1>2 DEF Core, Placement
    <2>2. \A i \in Job : phase'[i] = "sent" => \E n \in 1..Len(intake') : intake'[n] = i
      <3> SUFFICES ASSUME NEW i \in Job, phase'[i] = "sent"
                   PROVE  \E n \in 1..Len(intake') : intake'[n] = i
        OBVIOUS
      <3>1. i # j /\ phase[i] = "sent"
        BY Zenon, <1>1, <1>2
      <3>2. PICK n \in 1..Len(intake) : intake[n] = i
        BY <3>1 DEF Core, Placement
      <3>3. n - 1 \in 1..Len(intake') /\ intake'[n - 1] = i
        BY <3>1, <3>2, <1>1
      <3> QED
        BY Zenon, <3>3
    <2>3. /\ \A h \in Key : \A n \in 1..Len(queues'[h]) :
                phase'[queues'[h][n]] = "queued" /\ keyOf'[queues'[h][n]] = h
          /\ \A h \in Key : \A m, n \in 1..Len(queues'[h]) :
                queues'[h][m] = queues'[h][n] => m = n
      <3>6. \A h \in Key : \A n \in 1..Len(queues[h]) :
               /\ phase[queues[h][n]] = "queued" /\ keyOf[queues[h][n]] = h
               /\ \A m \in 1..Len(queues[h]) : queues[h][m] = queues[h][n] => m = n
        BY DEF Core, Placement
      <3>7. \A h \in Key : \A n \in 1..Len(queues[h]) :
               queues[h][n] # j /\ phase'[queues[h][n]] = "queued"
        <4> SUFFICES ASSUME NEW h \in Key, NEW n \in 1..Len(queues[h])
                     PROVE  queues[h][n] # j /\ phase'[queues[h][n]] = "queued"
          BY Zenon
        <4>1. queues[h][n] \in Job /\ phase[queues[h][n]] = "queued"
          BY Zenon, <1>3, <3>6
        <4> QED
          BY Zenon, <1>2, <4>1
      <3>1. \A h \in Key : h # k => \A n \in 1..Len(queues[h]) :
               /\ phase'[queues[h][n]] = "queued" /\ keyOf'[queues[h][n]] = h
               /\ \A m \in 1..Len(queues[h]) : queues[h][m] = queues[h][n] => m = n
        BY Zenon, <3>6, <3>7
      <3>2. \A n \in 1..Len(queues[k]) :
               /\ phase'[queues[k][n]] = "queued" /\ keyOf'[queues[k][n]] = k
               /\ queues[k][n] # j
               /\ \A m \in 1..Len(queues[k]) : queues[k][m] = queues[k][n] => m = n
        BY <1>1, <3>6, <3>7
      <3>3. phase'[j] = "queued" /\ keyOf'[j] = k
        BY Zenon, <1>2 DEF k
      <3>4. \A n \in 1..Len(queues'[k]) :
               /\ phase'[queues'[k][n]] = "queued" /\ keyOf'[queues'[k][n]] = k
               /\ \A m \in 1..Len(queues'[k]) : queues'[k][m] = queues'[k][n] => m = n
        <4> SUFFICES ASSUME NEW n \in 1..Len(queues'[k]), NEW m \in 1..Len(queues'[k])
                     PROVE  /\ phase'[queues'[k][n]] = "queued" /\ keyOf'[queues'[k][n]] = k
                            /\ queues'[k][m] = queues'[k][n] => m = n
          OBVIOUS
        <4>1. /\ n \in 1..Len(queues[k]) \/ n = Len(queues[k]) + 1
              /\ m \in 1..Len(queues[k]) \/ m = Len(queues[k]) + 1
          BY <1>3
        <4>2. /\ Len(queues[k]) \in Nat /\ queues'[k][Len(queues[k]) + 1] = j
              /\ \A l \in 1..Len(queues[k]) : queues'[k][l] = queues[k][l]
          BY Zenon, <1>3
        <4>3. CASE n \in 1..Len(queues[k]) /\ m \in 1..Len(queues[k])
          BY Zenon, <3>2, <4>2, <4>3
        <4>4. CASE n \in 1..Len(queues[k]) /\ m = Len(queues[k]) + 1
          BY Zenon, <3>2, <4>2, <4>4
        <4>5. CASE n = Len(queues[k]) + 1 /\ m \in 1..Len(queues[k])
          BY Zenon, <3>2, <3>3, <4>2, <4>5
        <4>6. CASE n = Len(queues[k]) + 1 /\ m = Len(queues[k]) + 1
          BY Zenon, <3>3, <4>2, <4>6
        <4> QED
          BY Zenon, <4>1, <4>3, <4>4, <4>5, <4>6
      <3>5. \A h \in Key : h # k => queues'[h] = queues[h]
        BY Zenon, <1>3
      <3> QED
        BY <3>1, <3>4, <3>5
    <2>4. \A i \in Job : phase'[i] = "queued" =>
             \E n \in 1..Len(queues'[keyOf'[i]]) : queues'[keyOf'[i]][n] = i
      <3> SUFFICES ASSUME NEW i \in Job, phase'[i] = "queued"
                   PROVE  \E n \in 1..Len(queues'[keyOf[i]]) : queues'[keyOf[i]][n] = i
        OBVIOUS
      <3>1. CASE i = j
        <4>1. keyOf[i] = k
          BY Zenon, <3>1 DEF k
        <4> QED
          BY <4>1, <3>1, <1>3
      <3>2. CASE i # j
        <4>1. keyOf[i] \in Key /\ phase[i] = "queued"
          BY Zenon, <3>2, <1>2 DEF TypeOK
        <4>2. PICK n \in 1..Len(queues[keyOf[i]]) : queues[keyOf[i]][n] = i
          BY Zenon, <4>1 DEF Core, Placement
        <4>3. n \in 1..Len(queues'[keyOf[i]]) /\ queues'[keyOf[i]][n] = i
          <5>1. CASE keyOf[i] = k
            BY <5>1, <4>2, <1>3
          <5>2. CASE keyOf[i] # k
            BY Zenon, <5>2, <4>1, <4>2, <1>3
          <5> QED
            BY Zenon, <5>1, <5>2
        <4> QED
          BY Zenon, <4>3
      <3> QED
        BY Zenon, <3>1, <3>2
    <2>5. /\ inflight' = {i \in Job : phase'[i] = "running"}
          /\ \A h \in Key : h \in active' <=> \E i \in inflight' : keyOf'[i] = h
          /\ \A i, h \in inflight' : keyOf'[i] = keyOf'[h] => i = h
      BY <1>1, <1>2 DEF Core, Placement
    <2> QED
      BY Zenon, <2>1, <2>2, <2>3, <2>4, <2>5 DEF Placement
  <1>6. AdmissionOrder'
    <2>1. /\ before' \subseteq Outstanding' \X Outstanding'
          /\ \A i, h \in Job : <<i, h>> \in before' => <<h, i>> \notin before'
      BY Zenon, <1>4 DEF Core, AdmissionOrder
    <2>2. \A m, n \in 1..Len(intake') : m < n => <<intake'[m], intake'[n]>> \in before'
      BY <1>1 DEF Core, AdmissionOrder
    <2>3. \A h \in Key : \A m, n \in 1..Len(queues'[h]) :
             m < n => <<queues'[h][m], queues'[h][n]>> \in before'
      <3> SUFFICES ASSUME NEW h \in Key, NEW m \in 1..Len(queues'[h]),
                          NEW n \in 1..Len(queues'[h]), m < n
                   PROVE  <<queues'[h][m], queues'[h][n]>> \in before'
        OBVIOUS
      <3>1. CASE h # k
        BY Zenon, <3>1, <1>3 DEF Core, AdmissionOrder
      <3>2. CASE h = k /\ n # Len(queues[k]) + 1
        <4>1. m \in 1..Len(queues[k]) /\ n \in 1..Len(queues[k])
          BY <3>2, <1>3
        <4> QED
          BY Zenon, <4>1, <3>2, <1>1, <1>3 DEF Core, AdmissionOrder
      <3>3. CASE h = k /\ n = Len(queues[k]) + 1
        <4>1. m \in 1..Len(queues[k])
          BY <3>3, <1>3
        <4>2. queues[k][m] \in Job /\ phase[queues[k][m]] = "queued"
          BY <4>1, <1>1, <1>3 DEF Core, Placement
        <4>3. <<queues[k][m], j>> \in before
          BY Zenon, <4>2, <1>1, <1>2 DEF Core, AdmissionOrder
        <4> QED
          BY Zenon, <4>1, <4>3, <3>3, <1>3
      <3> QED
        BY Zenon, <3>1, <3>2, <3>3
    <2>4. \A i, h \in Job : phase'[i] \in {"queued", "running"} /\ phase'[h] = "sent"
             => <<i, h>> \in before'
      <3> SUFFICES ASSUME NEW i \in Job, NEW h \in Job,
                          phase'[i] \in {"queued", "running"}, phase'[h] = "sent"
                   PROVE  <<i, h>> \in before
        OBVIOUS
      <3>1. h # j /\ phase[h] = "sent"
        BY Zenon, <1>1, <1>2
      <3>2. CASE i # j
        BY Zenon, <3>1, <3>2, <1>2 DEF Core, AdmissionOrder
      <3>3. CASE i = j
        <4>1. PICK n \in 1..Len(intake) : intake[n] = h
          BY <3>1 DEF Core, Placement
        <4>2. 1 < n /\ 1 \in 1..Len(intake)
          BY <4>1, <3>1, <1>1
        <4> QED
          BY Zenon, <4>1, <4>2, <3>3, <1>1 DEF Core, AdmissionOrder
      <3> QED
        BY Zenon, <3>2, <3>3
    <2> QED
      BY Zenon, <2>1, <2>2, <2>3, <2>4 DEF AdmissionOrder
  <1>7. FifoPerKey' /\ SerialAlone'
    BY DEF Core, FifoPerKey, SerialAlone
  <1>8. ReadyExact'
    <2>1. CASE BecomesReady(k)
      <3>1. ready' = Append(ready, k)
        BY Zenon, <2>1 DEF enqueue, k, j
      <3>2. /\ Len(ready) \in Nat
            /\ Len(ready') = Len(ready) + 1
            /\ ready'[Len(ready) + 1] = k
            /\ \A n \in 1..Len(ready) : ready'[n] = ready[n]
        BY <3>1, <1>1 DEF TypeOK
      <3>3. \A n \in 1..Len(ready) : ready[n] # k
        BY Zenon, <2>1, <1>1 DEF Core, ReadyExact, BecomesReady
      <3>4. \A h \in Key : (\E n \in 1..Len(ready') : ready'[n] = h)
                              <=> (h = k \/ \E n \in 1..Len(ready) : ready[n] = h)
        BY <3>2
      <3>5. \A h \in Key : (\E n \in 1..Len(ready') : ready'[n] = h)
                              <=> (h # Serial /\ h \notin active' /\ queues'[h] # <<>>)
        <4>1. ASSUME NEW h \in Key, h # k
              PROVE  (\E n \in 1..Len(ready) : ready[n] = h)
                        <=> (h # Serial /\ h \notin active' /\ queues'[h] # <<>>)
          BY Zenon, <1>3, <4>1 DEF Core, ReadyExact
        <4>2. k # Serial /\ k \notin active' /\ queues'[k] # <<>>
          BY Zenon, <1>3, <2>1 DEF BecomesReady
        <4> QED
          BY Zenon, <3>4, <4>1, <4>2
      <3>6. \A m, n \in 1..Len(ready') : ready'[m] = ready'[n] => m = n
        BY <3>2, <3>3 DEF Core, ReadyExact
      <3> QED
        BY Zenon, <3>5, <3>6 DEF ReadyExact
    <2>2. CASE ~BecomesReady(k)
      <3>1. ready' = ready
        BY Zenon, <2>2 DEF enqueue, k, j
      <3> QED
        BY Zenon, <3>1, <2>2, <1>1, <1>3 DEF Core, ReadyExact, BecomesReady
    <2> QED
      BY Zenon, <2>1, <2>2
  <1> QED
    BY Zenon, <1>5, <1>6, <1>7, <1>8 DEF Core

\* What start(k) does to a key with pending work.
LEMMA StartEffect ==
  ASSUME TypeOK, NEW k \in Key, queues[k] # <<>>, start(k)
  PROVE  LET j == Head(queues[k]) IN
         /\ j \in Job /\ j = queues[k][1]
         /\ Len(queues[k]) \in Nat /\ 1 \in 1..Len(queues[k])
         /\ Len(queues'[k]) = Len(queues[k]) - 1
         /\ \A n \in 1..Len(queues'[k]) : queues'[k][n] = queues[k][n + 1]
         /\ \A h \in Key : h # k => queues'[h] = queues[h]
         /\ active' = active \cup {k}
         /\ inflight' = inflight \cup {j}
         /\ phase'[j] = "running"
         /\ \A i \in Job : i # j => phase'[i] = phase[i]
  <1>1. /\ queues' = [queues EXCEPT ![k] = Tail(@)]
        /\ active' = active \cup {k}
        /\ inflight' = inflight \cup {Head(queues[k])}
        /\ phase' = [j \in Job |-> IF j = Head(queues[k]) THEN "running" ELSE phase[j]]
    BY Zenon DEF start, TypeOK
  <1>2. queues[k] \in Seq(Job)
    BY Zenon DEF TypeOK
  <1>3. /\ Head(queues[k]) \in Job /\ Head(queues[k]) = queues[k][1]
        /\ Len(queues[k]) \in Nat /\ 1 \in 1..Len(queues[k])
        /\ Len(Tail(queues[k])) = Len(queues[k]) - 1
        /\ \A n \in 1..Len(Tail(queues[k])) : Tail(queues[k])[n] = queues[k][n + 1]
    BY <1>2
  <1>4. /\ queues'[k] = Tail(queues[k])
        /\ \A h \in Key : h # k => queues'[h] = queues[h]
    BY Zenon, <1>1 DEF TypeOK
  <1> QED
    BY Zenon, <1>1, <1>3, <1>4

\* A key that is not active starts its first pending job (PumpSerial,
\* PumpScoped); `ready` and the barrier are treated separately below.
LEMMA CoreStart ==
  ASSUME TypeOK, TypeOK', Core, NEW k \in Key, k \notin active, queues[k] # <<>>,
         start(k), UNCHANGED <<keyOf, before, intake>>
  PROVE  Placement' /\ AdmissionOrder' /\ FifoPerKey'
  <1> DEFINE j == Head(queues[k])
  <1>1. /\ j \in Job /\ j = queues[k][1]
        /\ Len(queues[k]) \in Nat /\ 1 \in 1..Len(queues[k])
        /\ Len(queues'[k]) = Len(queues[k]) - 1
        /\ \A n \in 1..Len(queues'[k]) : queues'[k][n] = queues[k][n + 1]
        /\ \A h \in Key : h # k => queues'[h] = queues[h]
        /\ active' = active \cup {k}
        /\ inflight' = inflight \cup {j}
        /\ phase'[j] = "running"
        /\ \A i \in Job : i # j => phase'[i] = phase[i]
    BY StartEffect
  <1> HIDE DEF j
  <1>2. phase[j] = "queued" /\ keyOf[j] = k
    BY <1>1 DEF Core, Placement
  <1>3. Outstanding' = Outstanding
    BY Zenon, <1>1, <1>2 DEF Outstanding, TypeOK
  <1>4. \A h \in Key : Len(queues[h]) \in Nat /\ \A n \in 1..Len(queues[h]) : queues[h][n] \in Job
    BY DEF TypeOK
  <1>5. \A n \in 1..Len(queues'[k]) : n + 1 \in 1..Len(queues[k])
    BY <1>1
  <1>6. \A n \in 1..Len(intake) : intake[n] \in Job
    BY DEF TypeOK
  <1>7. Placement'
    <2>1. /\ \A n \in 1..Len(intake') : phase'[intake'[n]] = "sent"
          /\ \A m, n \in 1..Len(intake') : intake'[m] = intake'[n] => m = n
          /\ \A i \in Job : phase'[i] = "sent" => \E n \in 1..Len(intake') : intake'[n] = i
      <3>1. \A i \in Job : phase'[i] = "sent" <=> phase[i] = "sent"
        BY Zenon, <1>1, <1>2
      <3>2. \A m, n \in 1..Len(intake) : intake[m] = intake[n] => m = n
        BY Zenon DEF Core, Placement
      <3> QED
        BY Zenon, <3>1, <3>2, <1>6, InChannel
    <2>2. \A n \in 1..Len(queues'[k]) :
             /\ phase'[queues'[k][n]] = "queued" /\ keyOf'[queues'[k][n]] = k
             /\ \A m \in 1..Len(queues'[k]) : queues'[k][m] = queues'[k][n] => m = n
      <3> SUFFICES ASSUME NEW n \in 1..Len(queues'[k]), NEW m \in 1..Len(queues'[k])
                   PROVE  /\ phase'[queues'[k][n]] = "queued" /\ keyOf'[queues'[k][n]] = k
                          /\ queues'[k][m] = queues'[k][n] => m = n
        OBVIOUS
      <3>1. /\ n + 1 \in 1..Len(queues[k]) /\ m + 1 \in 1..Len(queues[k])
            /\ queues'[k][n] = queues[k][n + 1] /\ queues'[k][m] = queues[k][m + 1]
            /\ n + 1 # 1
        BY <1>1, <1>5
      <3>2. queues[k][n + 1] \in Job /\ queues[k][n + 1] # j
        BY <3>1, <1>1, <1>4 DEF Core, Placement
      <3>3. phase[queues[k][n + 1]] = "queued" /\ keyOf[queues[k][n + 1]] = k
        BY <3>1 DEF Core, Placement
      <3>4. queues[k][m + 1] = queues[k][n + 1] => m + 1 = n + 1
        BY <3>1 DEF Core, Placement
      <3>5. phase'[queues'[k][n]] = "queued" /\ keyOf'[queues'[k][n]] = k
        BY Zenon, <3>1, <3>2, <3>3, <1>1
      <3>6. queues'[k][m] = queues'[k][n] => m = n
        BY <3>1, <3>4
      <3> QED
        BY Zenon, <3>5, <3>6
    <2>3. \A h \in Key : h # k => \A n \in 1..Len(queues'[h]) :
             /\ phase'[queues'[h][n]] = "queued" /\ keyOf'[queues'[h][n]] = h
             /\ \A m \in 1..Len(queues'[h]) : queues'[h][m] = queues'[h][n] => m = n
      <3> SUFFICES ASSUME NEW h \in Key, h # k, NEW n \in 1..Len(queues[h])
                   PROVE  /\ phase'[queues[h][n]] = "queued" /\ keyOf[queues[h][n]] = h
                          /\ \A m \in 1..Len(queues[h]) : queues[h][m] = queues[h][n] => m = n
        BY <1>1
      <3>1. /\ queues[h][n] \in Job /\ phase[queues[h][n]] = "queued" /\ keyOf[queues[h][n]] = h
        BY <1>4 DEF Core, Placement
      <3>2. \A m \in 1..Len(queues[h]) : queues[h][m] = queues[h][n] => m = n
        BY Zenon DEF Core, Placement
      <3> QED
        BY Zenon, <3>1, <3>2, <1>1, <1>2
    <2>4. \A i \in Job : phase'[i] = "queued" =>
             \E n \in 1..Len(queues'[keyOf'[i]]) : queues'[keyOf'[i]][n] = i
      <3> SUFFICES ASSUME NEW i \in Job, phase'[i] = "queued"
                   PROVE  \E n \in 1..Len(queues'[keyOf[i]]) : queues'[keyOf[i]][n] = i
        OBVIOUS
      <3>1. i # j /\ phase[i] = "queued" /\ keyOf[i] \in Key
        BY Zenon, <1>1 DEF TypeOK
      <3>2. PICK n \in 1..Len(queues[keyOf[i]]) : queues[keyOf[i]][n] = i
        BY Zenon, <3>1 DEF Core, Placement
      <3>3. CASE keyOf[i] # k
        BY Zenon, <3>1, <3>2, <3>3, <1>1
      <3>4. CASE keyOf[i] = k
        <4>1. n - 1 \in 1..Len(queues'[k]) /\ (n - 1) + 1 = n
          BY <3>1, <3>2, <3>4, <1>1
        <4>2. queues'[k][n - 1] = i
          BY <4>1, <3>2, <3>4, <1>1
        <4> QED
          BY Zenon, <4>1, <4>2, <3>4
      <3> QED
        BY Zenon, <3>3, <3>4
    <2>5. inflight' = {i \in Job : phase'[i] = "running"}
      BY <1>1, <1>2, InFlight
    <2>6. \A h \in Key : h \in active' <=> \E i \in inflight' : keyOf'[i] = h
      BY <1>1, <1>2, InFlight
    <2>7. \A i, h \in inflight' : keyOf'[i] = keyOf'[h] => i = h
      <3>1. \A i \in inflight : keyOf[i] # k
        BY Zenon, InFlight
      <3> QED
        BY <3>1, <1>1, <1>2, InFlight
    <2> QED
      BY <2>1, <2>2, <2>3, <2>4, <2>5, <2>6, <2>7 DEF Placement
  <1>8. AdmissionOrder'
    <2>1. /\ before' \subseteq Outstanding' \X Outstanding'
          /\ \A i, h \in Job : <<i, h>> \in before' => <<h, i>> \notin before'
          /\ \A m, n \in 1..Len(intake') : m < n => <<intake'[m], intake'[n]>> \in before'
      BY Zenon, <1>3 DEF Core, AdmissionOrder
    <2>2. \A h \in Key : \A m, n \in 1..Len(queues'[h]) :
             m < n => <<queues'[h][m], queues'[h][n]>> \in before'
      <3> SUFFICES ASSUME NEW h \in Key, NEW m \in 1..Len(queues'[h]),
                          NEW n \in 1..Len(queues'[h]), m < n
                   PROVE  <<queues'[h][m], queues'[h][n]>> \in before
        OBVIOUS
      <3>1. CASE h # k
        BY Zenon, <3>1, <1>1 DEF Core, AdmissionOrder
      <3>2. CASE h = k
        <4>1. /\ n + 1 \in 1..Len(queues[k]) /\ m + 1 \in 1..Len(queues[k]) /\ m + 1 < n + 1
              /\ queues'[k][n] = queues[k][n + 1] /\ queues'[k][m] = queues[k][m + 1]
          <5>1. m \in 1..Len(queues'[k]) /\ n \in 1..Len(queues'[k])
            BY Zenon, <3>2
          <5>2. \A p \in 1..Len(queues'[k]) :
                   /\ p + 1 \in 1..Len(queues[k])
                   /\ queues'[k][p] = queues[k][p + 1]
            BY Zenon, <1>1, <1>5
          <5> QED
            BY <5>1, <5>2
        <4> QED
          BY Zenon, <4>1, <3>2 DEF Core, AdmissionOrder
      <3> QED
        BY Zenon, <3>1, <3>2
    <2>3. \A i, h \in Job : phase'[i] \in {"queued", "running"} /\ phase'[h] = "sent"
             => <<i, h>> \in before'
      BY Zenon, <1>1, <1>2 DEF Core, AdmissionOrder
    <2> QED
      BY Zenon, <2>1, <2>2, <2>3 DEF AdmissionOrder
  <1>9. FifoPerKey'
    <2> SUFFICES ASSUME NEW g \in inflight', NEW i \in Job, <<i, g>> \in before, keyOf[i] = keyOf[g]
                 PROVE  FALSE
      BY Zenon DEF FifoPerKey
    <2>1. CASE g # j
      BY Zenon, <2>1, <1>1 DEF Core, FifoPerKey
    <2>2. CASE g = j
      <3>1. i \in Outstanding /\ keyOf[i] = k /\ <<j, i>> \notin before
        BY Zenon, <2>2, <1>1, <1>2 DEF Core, AdmissionOrder
      <3>2. phase[i] # "running"
        BY Zenon, <3>1 DEF Core, Placement
      <3>3. phase[i] # "sent"
        BY <3>1, <1>1, <1>2 DEF Core, AdmissionOrder
      <3>4. phase[i] = "queued"
        BY Zenon, <3>1, <3>2, <3>3 DEF Outstanding
      <3>5. PICK n \in 1..Len(queues[k]) : queues[k][n] = i
        BY <3>1, <3>4 DEF Core, Placement
      <3>6. i # j
        BY Zenon, <2>2, <3>1
      <3>7. 1 < n
        BY <3>5, <3>6, <1>1
      <3> QED
        BY <3>1, <3>5, <3>7, <1>1 DEF Core, AdmissionOrder
    <2> QED
      BY Zenon, <2>1, <2>2
  <1> QED
    BY Zenon, <1>7, <1>8, <1>9

LEMMA CorePumpSerial ==
  ASSUME TypeOK, TypeOK', Core, PumpSerial
  PROVE  Core'
  <1> USE DEF submitVars
  <1>1. /\ Serial \in Key /\ Serial \notin active /\ queues[Serial] # <<>> /\ inflight = {}
        /\ start(Serial) /\ UNCHANGED <<keyOf, before, intake, ready>>
    BY Zenon DEF PumpSerial
  <1>2. Placement' /\ AdmissionOrder' /\ FifoPerKey'
    BY Zenon, <1>1, CoreStart
  <1>3. /\ \A h \in Key : h # Serial => queues'[h] = queues[h]
        /\ active' = active \cup {Serial}
        /\ inflight' = inflight \cup {Head(queues[Serial])}
    BY Zenon, <1>1, StartEffect
  <1>4. SerialAlone'
    BY Zenon, <1>1, <1>3 DEF SerialAlone
  <1>5. ReadyExact'
    BY <1>1, <1>3 DEF Core, ReadyExact
  <1> QED
    BY Zenon, <1>2, <1>4, <1>5 DEF Core

LEMMA CorePumpScoped ==
  ASSUME TypeOK, TypeOK', Core, PumpScoped
  PROVE  Core'
  <1> USE DEF submitVars
  <1> DEFINE k == Head(ready)
  <1>1. /\ k \in Key /\ k = ready[1] /\ Len(ready) \in Nat /\ 1 \in 1..Len(ready)
        /\ Len(ready') = Len(ready) - 1
        /\ \A n \in 1..Len(ready') : ready'[n] = ready[n + 1]
        /\ \A n \in 1..Len(ready) : ready[n] \in Key
    BY DEF TypeOK, PumpScoped
  <1>2. /\ start(k) /\ UNCHANGED <<keyOf, before, intake>>
        /\ Serial \notin active
    BY Zenon DEF PumpScoped, Barrier
  <1> HIDE DEF k
  <1>3. k # Serial /\ k \notin active /\ queues[k] # <<>>
    BY Zenon, <1>1 DEF Core, ReadyExact
  <1>4. Placement' /\ AdmissionOrder' /\ FifoPerKey'
    BY Zenon, <1>1, <1>2, <1>3, CoreStart
  <1>5. /\ \A h \in Key : h # k => queues'[h] = queues[h]
        /\ active' = active \cup {k}
        /\ inflight' = inflight \cup {Head(queues[k])}
        /\ Head(queues[k]) = queues[k][1] /\ 1 \in 1..Len(queues[k])
    BY Zenon, <1>1, <1>2, <1>3, StartEffect
  <1>6. SerialAlone'
    <2>1. keyOf[Head(queues[k])] = k
      BY <1>1, <1>5, InQueues
    <2>2. \A i \in inflight : keyOf[i] # Serial
      <3>1. Serial \in Key
        BY Zenon, SchedulerAssumption
      <3> QED
        BY <3>1, <1>2, InFlight
    <2> QED
      BY Zenon, <2>1, <2>2, <1>2, <1>3, <1>5 DEF SerialAlone
  <1>7. ReadyExact'
    <2>1. \A m, n \in 1..Len(ready') : ready'[m] = ready'[n] => m = n
      <3> SUFFICES ASSUME NEW m \in 1..Len(ready'), NEW n \in 1..Len(ready'), ready'[m] = ready'[n]
                   PROVE  m = n
        OBVIOUS
      <3>1. m + 1 \in 1..Len(ready) /\ n + 1 \in 1..Len(ready) /\ ready[m + 1] = ready[n + 1]
        BY <1>1
      <3>2. m + 1 = n + 1
        BY <3>1 DEF Core, ReadyExact
      <3> QED
        BY <3>2
    <2>2. ASSUME NEW h \in Key
          PROVE  (\E n \in 1..Len(ready') : ready'[n] = h)
                    <=> (h # k /\ \E n \in 1..Len(ready) : ready[n] = h)
      <3>1. ASSUME NEW n \in 1..Len(ready'), ready'[n] = h
            PROVE  h # k /\ \E m \in 1..Len(ready) : ready[m] = h
        <4>1. n + 1 \in 1..Len(ready) /\ ready[n + 1] = h /\ n + 1 # 1
          BY <3>1, <1>1
        <4>2. h # k
          BY Zenon, <4>1, <1>1 DEF Core, ReadyExact
        <4> QED
          BY Zenon, <4>1, <4>2
      <3>2. ASSUME h # k, NEW n \in 1..Len(ready), ready[n] = h
            PROVE  \E m \in 1..Len(ready') : ready'[m] = h
        <4>1. n - 1 \in 1..Len(ready') /\ (n - 1) + 1 = n
          BY <3>2, <1>1
        <4>2. ready'[n - 1] = h
          BY Zenon, <4>1, <3>2, <1>1
        <4> QED
          BY Zenon, <4>1, <4>2
      <3> QED
        BY Zenon, <3>1, <3>2
    <2>3. \A h \in Key : (\E n \in 1..Len(ready') : ready'[n] = h)
                            <=> (h # Serial /\ h \notin active' /\ queues'[h] # <<>>)
      <3> SUFFICES ASSUME NEW h \in Key
                   PROVE  (h # k /\ \E n \in 1..Len(ready) : ready[n] = h)
                            <=> (h # Serial /\ h \notin active' /\ queues'[h] # <<>>)
        BY Zenon, <2>2
      <3>1. CASE h = k
        BY Zenon, <3>1, <1>5
      <3>2. CASE h # k
        BY Zenon, <3>2, <1>5 DEF Core, ReadyExact
      <3> QED
        BY Zenon, <3>1, <3>2
    <2> QED
      BY <2>1, <2>3 DEF ReadyExact
  <1> QED
    BY Zenon, <1>4, <1>6, <1>7 DEF Core

LEMMA CoreComplete ==
  ASSUME TypeOK, TypeOK', Core, NEW j \in Job, Complete(j)
  PROVE  Core'
  <1> DEFINE k == keyOf[j]
  <1>0. /\ k \in Key /\ j \in inflight /\ phase[j] = "running" /\ k \in active
        /\ \A i \in inflight : keyOf[i] = k => i = j
    <2>1. j \in inflight /\ k \in Key
      BY Zenon DEF Complete, TypeOK
    <2> QED
      BY Zenon, <2>1, InFlight
  <1>1. /\ k \in Key /\ j \in inflight /\ phase[j] = "running" /\ k \in active
        /\ inflight' = inflight \ {j} /\ active' = active \ {k}
        /\ phase'[j] = "done"
        /\ \A i \in Job : i # j => phase'[i] = phase[i]
        /\ before' = {p \in before : p[1] # j /\ p[2] # j}
        /\ UNCHANGED <<keyOf, intake, queues>>
        /\ \A i \in inflight : keyOf[i] = k => i = j
    BY Zenon, <1>0 DEF Complete, TypeOK
  <1>2. Outstanding' = Outstanding \ {j}
    BY Zenon, <1>1 DEF Outstanding, TypeOK
  <1>3. /\ \A n \in 1..Len(intake) : intake[n] \in Job /\ intake[n] # j
        /\ \A h \in Key : \A n \in 1..Len(queues[h]) : queues[h][n] \in Job /\ queues[h][n] # j
    <2>1. \A n \in 1..Len(intake) : intake[n] \in Job
      BY DEF TypeOK
    <2>2. ASSUME NEW h \in Key, NEW n \in 1..Len(queues[h]) PROVE queues[h][n] \in Job
      <3>1. queues[h] \in Seq(Job)
        BY Zenon DEF TypeOK
      <3> QED
        BY <3>1
    <2>3. \A n \in 1..Len(intake) : intake[n] # j
      BY Zenon, <1>1, InChannel
    <2>4. ASSUME NEW h \in Key, NEW n \in 1..Len(queues[h]) PROVE queues[h][n] # j
      <3>1. phase[queues[h][n]] = "queued"
        BY InQueues, Zenon
      <3> QED
        BY <3>1, <1>1
    <2> QED
      BY Zenon, <2>1, <2>2, <2>3, <2>4
  <1>4. ready' = Rearmed(k)
    BY Zenon DEF Complete
  <1> HIDE DEF k
  <1>5. Placement'
    <2>1. /\ \A n \in 1..Len(intake') : phase'[intake'[n]] = "sent"
          /\ \A m, n \in 1..Len(intake') : intake'[m] = intake'[n] => m = n
          /\ \A i \in Job : phase'[i] = "sent" => \E n \in 1..Len(intake') : intake'[n] = i
      <3>1. \A i \in Job : phase'[i] = "sent" <=> phase[i] = "sent"
        BY Zenon, <1>1
      <3>2. /\ \A n \in 1..Len(intake) : phase[intake[n]] = "sent"
            /\ \A m, n \in 1..Len(intake) : intake[m] = intake[n] => m = n
            /\ \A i \in Job : phase[i] = "sent" => \E n \in 1..Len(intake) : intake[n] = i
        BY Zenon DEF Core, Placement
      <3>3. intake' = intake /\ \A n \in 1..Len(intake) : intake[n] \in Job
        BY Zenon, <1>1, <1>3
      <3> QED
        BY Zenon, <3>1, <3>2, <3>3
    <2>2. /\ \A h \in Key : \A n \in 1..Len(queues'[h]) :
                phase'[queues'[h][n]] = "queued" /\ keyOf'[queues'[h][n]] = h
          /\ \A h \in Key : \A m, n \in 1..Len(queues'[h]) :
                queues'[h][m] = queues'[h][n] => m = n
          /\ \A i \in Job : phase'[i] = "queued" =>
                \E n \in 1..Len(queues'[keyOf'[i]]) : queues'[keyOf'[i]][n] = i
      <3>1. \A i \in Job : phase'[i] = "queued" <=> phase[i] = "queued"
        BY Zenon, <1>1
      <3>2. \A h \in Key : \A n \in 1..Len(queues[h]) :
                phase'[queues[h][n]] = "queued" /\ keyOf[queues[h][n]] = h
        <4> SUFFICES ASSUME NEW h \in Key, NEW n \in 1..Len(queues[h])
                     PROVE  phase'[queues[h][n]] = "queued" /\ keyOf[queues[h][n]] = h
          OBVIOUS
        <4>1. phase[queues[h][n]] = "queued" /\ keyOf[queues[h][n]] = h
          BY DEF Core, Placement
        <4> QED
          BY Zenon, <4>1, <3>1, <1>3
      <3>3. \A h \in Key : \A m, n \in 1..Len(queues[h]) :
                queues[h][m] = queues[h][n] => m = n
        BY Zenon DEF Core, Placement
      <3>4. \A i \in Job : phase'[i] = "queued" =>
                \E n \in 1..Len(queues[keyOf[i]]) : queues[keyOf[i]][n] = i
        BY <3>1 DEF Core, Placement
      <3> QED
        BY <3>2, <3>3, <3>4, <1>1
    <2>3. /\ inflight' = {i \in Job : phase'[i] = "running"}
          /\ \A h \in Key : h \in active' <=> \E i \in inflight' : keyOf'[i] = h
          /\ \A i, h \in inflight' : keyOf'[i] = keyOf'[h] => i = h
      <3>1. inflight' = {i \in Job : phase'[i] = "running"}
        BY <1>1, InFlight
      <3>2. \A i \in inflight : keyOf[i] \in Key
        BY Zenon DEF TypeOK
      <3>3. \A h \in Key : h \in active' <=> \E i \in inflight' : keyOf[i] = h
        BY Zenon, <1>1, <3>2, InFlight DEF k
      <3> QED
        BY <3>1, <3>3, <1>1, InFlight
    <2> QED
      BY Zenon, <2>1, <2>2, <2>3 DEF Placement
  <1>6. AdmissionOrder'
    <2>1. /\ before' \subseteq Outstanding' \X Outstanding'
          /\ \A i, h \in Job : <<i, h>> \in before' => <<h, i>> \notin before'
      BY Zenon, <1>1, <1>2 DEF Core, AdmissionOrder
    <2>2. \A m, n \in 1..Len(intake') : m < n => <<intake'[m], intake'[n]>> \in before'
      BY Zenon, <1>1, <1>3 DEF Core, AdmissionOrder
    <2>3. \A h \in Key : \A m, n \in 1..Len(queues'[h]) :
             m < n => <<queues'[h][m], queues'[h][n]>> \in before'
      BY <1>1, <1>3 DEF Core, AdmissionOrder
    <2>4. \A i, h \in Job : phase'[i] \in {"queued", "running"} /\ phase'[h] = "sent"
             => <<i, h>> \in before'
      BY Zenon, <1>1 DEF Core, AdmissionOrder
    <2> QED
      BY Zenon, <2>1, <2>2, <2>3, <2>4 DEF AdmissionOrder
  <1>7. FifoPerKey' /\ SerialAlone'
    BY Zenon, <1>1 DEF Core, FifoPerKey, SerialAlone
  <1>8. ReadyExact'
    <2>1. CASE queues[k] # <<>> /\ k # Serial
      <3>1. ready' = Append(ready, k)
        BY Zenon, <2>1, <1>4 DEF Rearmed
      <3>2. /\ Len(ready) \in Nat
            /\ Len(ready') = Len(ready) + 1
            /\ ready'[Len(ready) + 1] = k
            /\ \A n \in 1..Len(ready) : ready'[n] = ready[n]
        <4>1. ready \in Seq(Key) /\ k \in Key
          BY Zenon, <1>1 DEF TypeOK
        <4> QED
          BY <3>1, <4>1
      <3>3. \A n \in 1..Len(ready) : ready[n] # k
        BY Zenon, <1>1 DEF Core, ReadyExact
      <3>4. \A h \in Key : (\E n \in 1..Len(ready') : ready'[n] = h)
                              <=> (h = k \/ \E n \in 1..Len(ready) : ready[n] = h)
        BY <3>2, SMTT(30)
      <3>5. \A h \in Key : (\E n \in 1..Len(ready') : ready'[n] = h)
                              <=> (h # Serial /\ h \notin active' /\ queues'[h] # <<>>)
        <4>1. \A h \in Key : (\E n \in 1..Len(ready) : ready[n] = h)
                                 <=> (h # Serial /\ h \notin active /\ queues[h] # <<>>)
          BY Zenon DEF Core, ReadyExact
        <4>2. queues' = queues /\ active' = active \ {k}
          BY <1>1
        <4>3. \A h \in Key : h # k => (h \in active' <=> h \in active)
          BY Zenon, <4>2
        <4>4. k # Serial /\ k \notin active' /\ queues'[k] # <<>> /\ k \in active
          BY Zenon, <1>1, <2>1, <4>2
        <4> SUFFICES ASSUME NEW h \in Key
                     PROVE  (\E n \in 1..Len(ready') : ready'[n] = h)
                               <=> (h # Serial /\ h \notin active' /\ queues'[h] # <<>>)
          OBVIOUS
        <4>5. CASE h = k
          BY Zenon, <3>4, <4>4, <4>5
        <4>6. CASE h # k
          <5>1. (\E n \in 1..Len(ready') : ready'[n] = h) <=> \E n \in 1..Len(ready) : ready[n] = h
            BY Zenon, <3>4, <4>6
          <5> QED
            BY Zenon, <5>1, <4>1, <4>2, <4>3, <4>6
        <4> QED
          BY Zenon, <4>5, <4>6
      <3>6. \A m, n \in 1..Len(ready') : ready'[m] = ready'[n] => m = n
        BY <3>2, <3>3 DEF Core, ReadyExact
      <3> QED
        BY Zenon, <3>5, <3>6 DEF ReadyExact
    <2>2. CASE ~(queues[k] # <<>> /\ k # Serial)
      <3>1. ready' = ready
        BY Zenon, <2>2, <1>4 DEF Rearmed
      <3> QED
        BY <3>1, <2>2, <1>1 DEF Core, ReadyExact
    <2> QED
      BY Zenon, <2>1, <2>2
  <1> QED
    BY Zenon, <1>5, <1>6, <1>7, <1>8 DEF Core

\* The task ends, and drops whatever it still owns.
LEMMA CoreGone ==
  ASSUME TypeOK, TypeOK', Core, TaskGone
  PROVE  Core'
  <1>1. /\ intake' = <<>> /\ queues' = [k \in Key |-> <<>>] /\ ready' = <<>>
        /\ active' = {} /\ inflight' = {} /\ keyOf' = keyOf
        /\ phase' = [j \in Job |-> IF j \in Outstanding THEN "dropped" ELSE phase[j]]
        /\ before' = {p \in before : p[1] \notin Outstanding /\ p[2] \notin Outstanding}
    BY Zenon DEF TaskGone, DropJobs
  <1>2. \A j \in Job : phase'[j] \notin Live
    BY Zenon, <1>1 DEF Outstanding, Live, TypeOK, Phase
  <1>3. before' = {}
    BY <1>1 DEF Core, AdmissionOrder
  <1>4. Len(intake') = 0 /\ Len(ready') = 0 /\ \A k \in Key : Len(queues'[k]) = 0 /\ queues'[k] = <<>>
    BY Zenon, <1>1
  <1>5. Placement'
    BY <1>1, <1>2, <1>4 DEF Placement, Live
  <1>6. AdmissionOrder'
    BY <1>2, <1>3, <1>4 DEF AdmissionOrder, Live
  <1>7. FifoPerKey' /\ SerialAlone' /\ ReadyExact'
    BY <1>1, <1>4 DEF FifoPerKey, SerialAlone, ReadyExact
  <1> QED
    BY Zenon, <1>5, <1>6, <1>7 DEF Core

\* Every sender is gone: pending jobs are dropped, jobs in flight stay.
LEMMA CoreRecvNone ==
  ASSUME TypeOK, TypeOK', Core, RecvNone
  PROVE  Core'
  <1>1. /\ intake = <<>> /\ intake' = <<>>
        /\ queues' = [k \in Key |-> <<>>] /\ ready' = <<>>
        /\ phase' = [j \in Job |-> IF phase[j] = "queued" THEN "dropped" ELSE phase[j]]
        /\ UNCHANGED <<keyOf, active, inflight>>
        /\ before' = {p \in before : p[1] \notin {j \in Job : phase[j] = "queued"}
                                       /\ p[2] \notin {j \in Job : phase[j] = "queued"}}
    BY Zenon DEF RecvNone, DropJobs
  <1>2. \A j \in Job : /\ phase'[j] # "queued"
                       /\ phase'[j] # "sent"
                       /\ phase'[j] = "running" <=> phase[j] = "running"
    BY <1>1 DEF Core, Placement, TypeOK, Phase
  <1>3. Len(intake') = 0 /\ Len(ready') = 0 /\ \A k \in Key : Len(queues'[k]) = 0 /\ queues'[k] = <<>>
    BY Zenon, <1>1
  <1>4. before' \subseteq before /\ before' \subseteq Outstanding' \X Outstanding'
    BY Zenon, <1>1, <1>2 DEF Core, AdmissionOrder, Outstanding
  <1>5. Placement'
    <2>1. /\ inflight' = {j \in Job : phase'[j] = "running"}
          /\ \A k \in Key : k \in active' <=> \E j \in inflight' : keyOf'[j] = k
          /\ \A i, j \in inflight' : keyOf'[i] = keyOf'[j] => i = j
      BY Zenon, <1>1, <1>2, InFlight
    <2>2. /\ 1..Len(intake') = {}
          /\ \A k \in Key : 1..Len(queues'[k]) = {}
      BY <1>3
    <2> QED
      BY Zenon, <1>2, <2>1, <2>2 DEF Placement
  <1>6. AdmissionOrder'
    <2>1. \A i, j \in Job : <<i, j>> \in before' => <<j, i>> \notin before'
      BY Zenon, <1>4 DEF Core, AdmissionOrder
    <2>2. /\ \A m, n \in 1..Len(intake') : m < n => <<intake'[m], intake'[n]>> \in before'
          /\ \A k \in Key : \A m, n \in 1..Len(queues'[k]) :
                m < n => <<queues'[k][m], queues'[k][n]>> \in before'
      BY <1>3
    <2>3. \A i, j \in Job : phase'[i] \in {"queued", "running"} /\ phase'[j] = "sent"
             => <<i, j>> \in before'
      BY <1>2
    <2> QED
      BY Zenon, <1>4, <2>1, <2>2, <2>3 DEF AdmissionOrder
  <1>7. FifoPerKey' /\ SerialAlone' /\ ReadyExact'
    <2>1. FifoPerKey' /\ SerialAlone'
      BY Zenon, <1>1, <1>4 DEF Core, FifoPerKey, SerialAlone
    <2>2. ReadyExact'
      BY <1>1, <1>3 DEF ReadyExact
    <2> QED
      BY Zenon, <2>1, <2>2
  <1> QED
    BY Zenon, <1>5, <1>6, <1>7 DEF Core

LEMMA CoreStep == TypeOK /\ TypeOK' /\ Core /\ [Next]_vars => Core'
  <1> SUFFICES ASSUME TypeOK, TypeOK', Core, [Next]_vars PROVE Core'
    OBVIOUS
  <1> USE DEF submitVars, taskVars
  <1>1. ASSUME NEW j \in Job, SubmitEnter(j) PROVE Core'
    <2>1. \A i \in Job : phase[i] \in Live \/ phase'[i] \in Live => phase'[i] = phase[i]
      BY <1>1 DEF SubmitEnter, Live, TypeOK
    <2> QED
      BY Zenon, <1>1, <2>1, CoreFrame DEF SubmitEnter
  <1>2. ASSUME NEW j \in Job, SubmitAcquire(j) PROVE Core'
    <2>1. \A i \in Job : phase[i] \in Live \/ phase'[i] \in Live => phase'[i] = phase[i]
      BY Zenon, <1>2 DEF SubmitAcquire, Live, TypeOK
    <2> QED
      BY Zenon, <1>2, <2>1, CoreFrame DEF SubmitAcquire
  <1>3. ASSUME NEW j \in Job, SubmitSend(j) PROVE Core'
    BY Zenon, <1>3, CoreSend
  <1>4. ASSUME NEW j \in Job, NextRequest(j) PROVE Core'
    <2>1. \A i \in Job : phase[i] \in Live \/ phase'[i] \in Live => phase'[i] = phase[i]
      BY Zenon, <1>4 DEF NextRequest, Live, TypeOK
    <2> QED
      BY Zenon, <1>4, <2>1, CoreFrame DEF NextRequest
  <1>5. CASE ShutdownBegin
    BY Zenon, <1>5, CoreFrame DEF ShutdownBegin
  <1>6. CASE ShutdownClose
    BY Zenon, <1>6, CoreFrame DEF ShutdownClose
  <1>7. CASE ShutdownJoin
    BY Zenon, <1>7, CoreFrame DEF ShutdownJoin
  <1>8. CASE DropHandle
    BY Zenon, <1>8, CoreFrame DEF DropHandle
  <1>9. CASE Recv
    BY <1>9, CoreEnqueue DEF Recv
  <1>10. CASE RecvNone
    BY Zenon, <1>10, CoreRecvNone
  <1>11. CASE Cancelled
    BY Zenon, <1>11, CoreFrame DEF Cancelled
  <1>12. CASE Drain
    BY Zenon, <1>12, CoreEnqueue DEF Drain
  <1>13. CASE DrainEnd
    BY <1>13, CoreFrame DEF DrainEnd
  <1>14. CASE PumpSerial
    BY Zenon, <1>14, CorePumpSerial
  <1>15. CASE PumpScoped
    BY Zenon, <1>15, CorePumpScoped
  <1>16. CASE PumpEnd
    BY Zenon, <1>16, CoreFrame DEF PumpEnd
  <1>17. ASSUME NEW j \in Job, Complete(j) PROVE Core'
    BY <1>17, CoreComplete
  <1>18. ASSUME TaskGone PROVE Core'
    BY Zenon, <1>18, CoreGone
  <1>19. CASE UNCHANGED vars
    BY <1>19, CoreFrame DEF vars
  <1> QED
    BY Zenon, <1>1, <1>2, <1>3, <1>4, <1>5, <1>6, <1>7, <1>8, <1>9, <1>10, <1>11, <1>12,
       <1>13, <1>14, <1>15, <1>16, <1>17, <1>18, <1>19
    DEF Next, Submit, Task, Pump, Exit, Abort

LEMMA CoreInit == Init => Core
  <1> SUFFICES ASSUME Init PROVE Core
    OBVIOUS
  <1>1. /\ Len(intake) = 0 /\ Len(ready) = 0
        /\ \A k \in Key : Len(queues[k]) = 0 /\ queues[k] = <<>>
        /\ \A j \in Job : phase[j] = "idle"
        /\ before = {} /\ active = {} /\ inflight = {}
    BY Zenon DEF Init
  <1>a. 1..Len(intake) = {} /\ \A k \in Key : 1..Len(queues[k]) = {}
    BY <1>1
  <1>b. \A j \in Job : phase[j] \notin {"sent", "queued", "running"}
    BY Zenon, <1>1
  <1>2. Placement
    <2>1. inflight = {j \in Job : phase[j] = "running"}
      BY Zenon, <1>1, <1>b
    <2> QED
      BY Zenon, <1>1, <1>a, <1>b, <2>1 DEF Placement
  <1>3. AdmissionOrder
    <2>1. \A k \in Key : \A m, n \in 1..Len(queues[k]) :
             m < n => <<queues[k][m], queues[k][n]>> \in before
      BY Zenon, <1>a
    <2> QED
      BY Zenon, <1>1, <1>a, <1>b, <2>1 DEF AdmissionOrder
  <1>4. FifoPerKey /\ ReadyExact /\ SerialAlone
    BY <1>1 DEF FifoPerKey, ReadyExact, SerialAlone
  <1> QED
    BY <1>2, <1>3, <1>4 DEF Core

\* Same-key jobs run one at a time in the order of admission, Serial jobs run
\* alone and the round robin holds exactly the startable keys, whatever the
\* jobs, the keys, the budget and the capacity (SchedulerTask).
THEOREM OrderCorrect == Spec => [](FifoPerKey /\ SerialAlone /\ ReadyExact)
  <1>1. Spec => []TypeOK
    BY Zenon, TypeCorrect
  <1>2. Init => Core
    BY CoreInit
  <1>3. TypeOK /\ TypeOK' /\ Core /\ [Next]_vars => Core'
    BY CoreStep
  <1>4. Core => FifoPerKey /\ SerialAlone /\ ReadyExact
    BY Zenon DEF Core
  <1> QED
    BY <1>1, <1>2, <1>3, <1>4, PTL DEF Spec

-----------------------------------------------------------------------------
(* Shutdown *)

LEMMA LifecycleStep == TypeOK /\ TypeOK' /\ Lifecycle /\ [Next]_vars => Lifecycle'
  <1> SUFFICES ASSUME TypeOK, TypeOK', Lifecycle, [Next]_vars PROVE Lifecycle'
    OBVIOUS
  <1> USE DEF submitVars, taskVars
  <1>1. ASSUME UNCHANGED <<shut, handle, cancelled>>,
               ~intakeOpen' => ~intakeOpen \/ cancelled,
               pc' \in {"drain", "exited"} => ~intakeOpen',
               cancelled => Readers' \subseteq Readers
        PROVE  Lifecycle'
    BY Zenon, <1>1 DEF Lifecycle, AdmissionBarrier
  <1>2. ASSUME NEW j \in Job, SubmitEnter(j) PROVE Lifecycle'
    <2>1. cancelled => Readers' \subseteq Readers
      BY Zenon, <1>2 DEF SubmitEnter, Readers, TypeOK
    <2> QED
      BY Zenon, <1>1, <1>2, <2>1 DEF SubmitEnter, Lifecycle
  <1>3. ASSUME NEW j \in Job, SubmitAcquire(j) \/ SubmitSend(j) \/ NextRequest(j)
        PROVE  Lifecycle'
    <2>1. Readers' \subseteq Readers
      BY Zenon, <1>3 DEF SubmitAcquire, SubmitSend, NextRequest, Readers, TypeOK
    <2> QED
      BY Zenon, <1>1, <1>3, <2>1 DEF SubmitAcquire, SubmitSend, NextRequest, Lifecycle
  <1>4. CASE ShutdownBegin
    BY Zenon, <1>4 DEF ShutdownBegin, Lifecycle, AdmissionBarrier, Readers
  <1>5. CASE ShutdownClose
    BY Zenon, <1>5 DEF ShutdownClose, Lifecycle, AdmissionBarrier, Readers
  <1>6. CASE ShutdownJoin
    BY Zenon, <1>6 DEF ShutdownJoin, Lifecycle, AdmissionBarrier, Readers
  <1>7. CASE DropHandle
    BY Zenon, <1>7 DEF DropHandle, Lifecycle, AdmissionBarrier, Readers
  <1>8. CASE Recv \/ Drain
    <2>1. Head(intake) \in Job
      BY <1>8 DEF Recv, Drain, TypeOK
    <2>2. Readers' \subseteq Readers
      BY Zenon, <1>8, <2>1 DEF Recv, Drain, enqueue, Readers, TypeOK
    <2> QED
      BY Zenon, <1>1, <1>8, <2>2 DEF Recv, Drain, Lifecycle
  <1>9. CASE RecvNone
    <2>1. Readers' \subseteq Readers
      BY Zenon, <1>9 DEF RecvNone, DropJobs, Readers
    <2> QED
      BY Zenon, <1>1, <1>9, <2>1 DEF RecvNone, Lifecycle
  <1>10. CASE Cancelled
    <2>1. Readers' \subseteq Readers
      BY <1>10 DEF Cancelled, Readers
    <2> QED
      BY <1>1, <1>10, <2>1 DEF Cancelled, Lifecycle
  <1>11. CASE DrainEnd \/ PumpEnd
    <2>1. Readers' \subseteq Readers
      BY Zenon, <1>11 DEF DrainEnd, PumpEnd, Readers
    <2> QED
      BY Zenon, <1>1, <1>11, <2>1 DEF DrainEnd, PumpEnd, Lifecycle
  <1>12. CASE PumpSerial \/ PumpScoped
    <2>1. Readers' \subseteq Readers
      BY Zenon, <1>12 DEF PumpSerial, PumpScoped, start, Readers
    <2> QED
      BY Zenon, <1>1, <1>12, <2>1 DEF PumpSerial, PumpScoped, Lifecycle
  <1>13. ASSUME NEW j \in Job, Complete(j) PROVE Lifecycle'
    <2>1. Readers' \subseteq Readers
      BY Zenon, <1>13 DEF Complete, Readers, TypeOK
    <2> QED
      BY Zenon, <1>1, <1>13, <2>1 DEF Complete, Lifecycle
  <1>14. CASE Exit \/ Abort
    <2>1. Readers' \subseteq Readers
      BY Zenon, <1>14 DEF Exit, Abort, TaskGone, DropJobs, Readers
    <2> QED
      BY Zenon, <1>1, <1>14, <2>1 DEF Exit, Abort, TaskGone, Lifecycle
  <1>15. CASE UNCHANGED vars
    BY <1>15 DEF vars, Lifecycle, AdmissionBarrier, Readers
  <1> QED
    BY Zenon, <1>2, <1>3, <1>4, <1>5, <1>6, <1>7, <1>8, <1>9, <1>10, <1>11, <1>12, <1>13,
       <1>14, <1>15 DEF Next, Submit, Task, Pump

\* The write lock of `shutdown` is a barrier for submitters: once the token is
\* cancelled none is between its check and its send (submit, shutdown, Drop).
THEOREM AdmissionBarrierCorrect == Spec => []AdmissionBarrier
  <1>1. Spec => []TypeOK
    BY Zenon, TypeCorrect
  <1>2. Init => Lifecycle
    BY Zenon DEF Init, Lifecycle, AdmissionBarrier
  <1>3. TypeOK /\ TypeOK' /\ Lifecycle /\ [Next]_vars => Lifecycle'
    BY Zenon, LifecycleStep
  <1>4. Lifecycle => AdmissionBarrier
    BY Zenon DEF Lifecycle
  <1> QED
    BY <1>1, <1>2, <1>3, <1>4, PTL DEF Spec

-----------------------------------------------------------------------------
(* Budget, lost wake-ups and lossless shutdown *)

Settled == DrainedIntake /\ PumpSettled /\ WithinBudget

LEMMA InflightFinite ==
  ASSUME TypeOK
  PROVE  IsFiniteSet(inflight) /\ Cardinality(inflight) \in Nat
  BY Zenon, FS_Subset, FS_CardinalityType DEF TypeOK

\* Starting a job adds at most one to the jobs in flight.
LEMMA StartBudget ==
  ASSUME TypeOK, TypeOK', NEW k \in Key, start(k)
  PROVE  Cardinality(inflight') <= Cardinality(inflight) + 1
  <1>1. \/ inflight' = inflight
        \/ \E j \in Job : inflight' = inflight \cup {j}
    <2>1. CASE queues[k] = <<>>
      BY Zenon, <2>1 DEF start
    <2>2. CASE queues[k] # <<>>
      BY Zenon, <2>2, StartEffect
    <2> QED
      BY Zenon, <2>1, <2>2
  <1>2. ASSUME NEW j \in Job
        PROVE  Cardinality(inflight \cup {j}) <= Cardinality(inflight) + 1
    <2>1. \/ Cardinality(inflight \cup {j}) = Cardinality(inflight)
          \/ Cardinality(inflight \cup {j}) = Cardinality(inflight) + 1
      BY Zenon, InflightFinite, FS_AddElement
    <2> QED
      BY <2>1, InflightFinite
  <1> QED
    BY <1>1, <1>2, InflightFinite

LEMMA SettledStep ==
  TypeOK /\ TypeOK' /\ Core /\ Lifecycle /\ Settled /\ [Next]_vars => Settled'
  <1> SUFFICES ASSUME TypeOK, TypeOK', Core, Lifecycle, Settled, [Next]_vars PROVE Settled'
    OBVIOUS
  <1> USE DEF submitVars, taskVars
  <1>1. ASSUME UNCHANGED <<intake, intakeOpen, queues, ready, active, inflight, pc>>
        PROVE  Settled'
    BY Zenon, <1>1 DEF Settled, DrainedIntake, PumpSettled, WithinBudget, Barrier, HasBudget
  <1>2. ASSUME NEW j \in Job, SubmitEnter(j) \/ SubmitAcquire(j) \/ NextRequest(j)
        PROVE  Settled'
    BY <1>1, <1>2 DEF SubmitEnter, SubmitAcquire, NextRequest
  <1>3. ASSUME NEW j \in Job, SubmitSend(j) PROVE Settled'
    <2>1. intakeOpen
      BY Zenon, <1>3 DEF SubmitSend, Lifecycle, AdmissionBarrier, Readers
    <2> QED
      BY <1>3, <2>1 DEF SubmitSend, Settled, DrainedIntake, PumpSettled, WithinBudget,
                        Barrier, HasBudget
  <1>4. CASE ShutdownBegin \/ ShutdownClose \/ ShutdownJoin \/ DropHandle
    BY Zenon, <1>1, <1>4 DEF ShutdownBegin, ShutdownClose, ShutdownJoin, DropHandle
  <1>5. CASE Recv
    BY Zenon, <1>5 DEF Recv, Settled, DrainedIntake, PumpSettled, WithinBudget
  <1>6. CASE RecvNone
    <2>1. /\ intake' = <<>> /\ ready' = <<>> /\ queues'[Serial] = <<>>
          /\ UNCHANGED <<active, inflight>>
      BY Zenon, <1>6 DEF RecvNone
    <2> QED
      BY Zenon, <2>1 DEF Settled, DrainedIntake, PumpSettled, WithinBudget, Barrier
  <1>7. CASE Cancelled
    BY Zenon, <1>7 DEF Cancelled, Settled, DrainedIntake, PumpSettled, WithinBudget
  <1>8. CASE Drain
    BY Zenon, <1>8 DEF Drain, Settled, DrainedIntake, PumpSettled, WithinBudget
  <1>9. CASE DrainEnd
    BY Zenon, <1>9 DEF DrainEnd, Settled, DrainedIntake, PumpSettled, WithinBudget
  <1>10. CASE PumpSerial
    <2>1. /\ start(Serial) /\ Serial \in Key /\ queues[Serial] # <<>> /\ inflight = {}
          /\ UNCHANGED <<intake, intakeOpen>> /\ pc = "pump" /\ pc' = "select"
      BY Zenon, <1>10 DEF PumpSerial
    <2>2. Serial \in active'
      BY Zenon, <2>1, StartEffect
    <2>3. Cardinality(inflight') <= Budget
      <3>1. Cardinality(inflight') <= Cardinality(inflight) + 1
        BY Zenon, <2>1, StartBudget
      <3>2. Cardinality(inflight') \in Nat
        BY Zenon, FS_Subset, FS_CardinalityType, SchedulerAssumption DEF TypeOK
      <3>3. Cardinality(inflight) = 0
        BY Zenon, <2>1, FS_EmptySet
      <3> QED
        BY <3>1, <3>2, <3>3, SizesType
    <2> QED
      BY Zenon, <2>1, <2>2, <2>3 DEF Settled, DrainedIntake, PumpSettled, WithinBudget
  <1>11. CASE PumpScoped
    <2>1. /\ start(Head(ready)) /\ Head(ready) \in Key /\ HasBudget
          /\ UNCHANGED <<intake, intakeOpen>> /\ pc = "pump" /\ pc' = "pump"
      BY <1>11 DEF PumpScoped, TypeOK
    <2>2. Cardinality(inflight') <= Budget
      <3>1. Cardinality(inflight') <= Cardinality(inflight) + 1
        BY Zenon, <2>1, StartBudget
      <3>2. Cardinality(inflight') \in Nat
        BY Zenon, FS_Subset, FS_CardinalityType DEF TypeOK
      <3> QED
        BY <2>1, <3>1, <3>2, InflightFinite, SizesType DEF HasBudget
    <2> QED
      BY Zenon, <2>1, <2>2 DEF Settled, DrainedIntake, PumpSettled, WithinBudget
  <1>12. CASE PumpEnd
    BY Zenon, <1>12 DEF PumpEnd, Settled, DrainedIntake, PumpSettled, WithinBudget, Barrier,
           HasBudget
  <1>13. ASSUME NEW j \in Job, Complete(j) PROVE Settled'
    <2>1. /\ inflight' = inflight \ {j} /\ pc' = "pump" /\ pc = "select"
          /\ UNCHANGED <<intake, intakeOpen>>
      BY Zenon, <1>13 DEF Complete
    <2>2. Cardinality(inflight') <= Cardinality(inflight) /\ Cardinality(inflight') \in Nat
      BY Zenon, <2>1, InflightFinite, FS_Subset, FS_CardinalityType
    <2> QED
      BY <2>1, <2>2, InflightFinite, SizesType
      DEF Settled, DrainedIntake, PumpSettled, WithinBudget
  <1>14. CASE Exit \/ Abort
    <2>1. intake' = <<>> /\ inflight' = {} /\ pc' = "exited"
      BY Zenon, <1>14 DEF Exit, Abort, TaskGone
    <2>2. Cardinality(inflight') <= Budget
      BY <2>1, FS_EmptySet, SizesType
    <2> QED
      BY Zenon, <2>1, <2>2 DEF Settled, DrainedIntake, PumpSettled, WithinBudget
  <1>15. CASE UNCHANGED vars
    BY Zenon, <1>1, <1>15 DEF vars
  <1> QED
    BY Zenon, <1>2, <1>3, <1>4, <1>5, <1>6, <1>7, <1>8, <1>9, <1>10, <1>11, <1>12, <1>13,
       <1>14, <1>15 DEF Next, Submit, Task, Pump

\* When the task waits with nothing in flight and an empty channel, nothing is
\* pending anywhere.
LEMMA NothingLeft ==
  ASSUME TypeOK, Core, Settled, pc = "select", inflight = {}
  PROVE  \A k \in Key : queues[k] = <<>>
  <1>1. active = {}
    BY Zenon DEF Core, Placement, TypeOK
  <1>2. Cardinality(inflight) = 0
    BY Zenon, FS_EmptySet
  <1>3. HasBudget
    BY <1>2, SizesType DEF HasBudget
  <1>4. queues[Serial] = <<>> /\ ready = <<>>
    BY Zenon, <1>1, <1>3 DEF Settled, PumpSettled, Barrier
  <1>5. Len(ready) = 0
    BY Zenon, <1>4
  <1> QED
    BY <1>1, <1>4, <1>5 DEF Core, ReadyExact

LEMMA LosslessStep ==
  TypeOK /\ TypeOK' /\ Core /\ Lifecycle /\ Settled /\ LosslessDrain /\ [Next]_vars
    => LosslessDrain'
  <1> SUFFICES ASSUME TypeOK, TypeOK', Core, Lifecycle, Settled, LosslessDrain, [Next]_vars
               PROVE  LosslessDrain'
    OBVIOUS
  <1> USE DEF submitVars, taskVars
  <1>1. ASSUME handle' = handle, NEW j \in Job, NEW p \in Phase, p # "dropped",
               phase' = [phase EXCEPT ![j] = p]
        PROVE  LosslessDrain'
    BY Zenon, <1>1 DEF TypeOK, LosslessDrain
  <1>2. ASSUME NEW j \in Job, Submit(j) \/ Complete(j) PROVE LosslessDrain'
    BY <1>1, <1>2 DEF Submit, SubmitEnter, SubmitAcquire, SubmitSend, NextRequest, Complete, Phase
  <1>3. ASSUME phase' = phase, handle' \in {handle, "dropped"} PROVE LosslessDrain'
    BY Zenon, <1>3 DEF LosslessDrain
  <1>4. CASE ShutdownBegin \/ ShutdownClose \/ ShutdownJoin \/ DropHandle
    BY Zenon, <1>3, <1>4 DEF ShutdownBegin, ShutdownClose, ShutdownJoin, DropHandle
  <1>5. CASE Recv \/ Drain
    <2>1. Head(intake) \in Job
      BY <1>5 DEF Recv, Drain, TypeOK
    <2> QED
      BY Zenon, <1>1, <1>5, <2>1 DEF Recv, Drain, enqueue, Phase
  <1>6. CASE RecvNone \/ Abort
    BY Zenon, <1>6 DEF RecvNone, Abort, TaskGone, LosslessDrain
  <1>7. CASE Cancelled \/ DrainEnd \/ PumpEnd
    BY Zenon, <1>3, <1>7 DEF Cancelled, DrainEnd, PumpEnd
  <1>8. CASE PumpSerial \/ PumpScoped
    <2>1. handle' = handle /\ \A j \in Job : phase'[j] \in {phase[j], "running"}
      BY Zenon, <1>8 DEF PumpSerial, PumpScoped, start, TypeOK
    <2> QED
      BY Zenon, <2>1 DEF LosslessDrain
  <1>9. CASE Exit
    <2>1. \A k \in Key : queues[k] = <<>>
      BY Zenon, <1>9, NothingLeft DEF Exit
    <2>2. \A k \in Key : Len(queues[k]) = 0
      BY <2>1
    <2>3. Len(intake) = 0
      BY <1>9 DEF Exit, Settled, DrainedIntake
    <2>4. Outstanding = {}
      <3>1. \A j \in Job : phase[j] # "sent"
        BY <2>3, InChannel
      <3>2. \A j \in Job : phase[j] # "queued"
        BY <2>2, InQueues DEF TypeOK
      <3>3. \A j \in Job : phase[j] # "running"
        BY Zenon, <1>9, InFlight DEF Exit
      <3> QED
        BY Zenon, <3>1, <3>2, <3>3 DEF Outstanding
    <2>5. phase' = phase /\ handle' = handle
      BY Zenon, <1>9, <2>4 DEF Exit, TaskGone, DropJobs, TypeOK
    <2> QED
      BY Zenon, <2>5 DEF LosslessDrain
  <1>10. CASE UNCHANGED vars
    BY <1>3, <1>10 DEF vars
  <1> QED
    BY <1>2, <1>4, <1>5, <1>6, <1>7, <1>8, <1>9, <1>10 DEF Next, Task, Pump

LEMMA RestInit == Init => Lifecycle /\ Settled /\ LosslessDrain
  <1> SUFFICES ASSUME Init PROVE Lifecycle /\ Settled /\ LosslessDrain
    OBVIOUS
  <1>1. Lifecycle
    BY Zenon DEF Init, Lifecycle, AdmissionBarrier
  <1>2. Cardinality(inflight) <= Budget
    BY FS_EmptySet, SizesType DEF Init
  <1>3. Settled
    BY Zenon, <1>2, SchedulerAssumption
    DEF Init, Settled, DrainedIntake, PumpSettled, WithinBudget, Barrier
  <1>4. LosslessDrain
    BY DEF Init, LosslessDrain
  <1> QED
    BY <1>1, <1>3, <1>4

\* The whole inductive invariant of the scheduler.
THEOREM InvariantCorrect == Spec => []SchedulerInv
  <1>1. Init => Core /\ Lifecycle /\ Settled /\ LosslessDrain
    BY Zenon, CoreInit, RestInit
  <1>2. /\ TypeOK /\ TypeOK' /\ Core /\ Lifecycle /\ Settled /\ LosslessDrain /\ [Next]_vars
        => (Core /\ Lifecycle /\ Settled /\ LosslessDrain)'
    BY Zenon, CoreStep, LifecycleStep, SettledStep, LosslessStep
  <1>3. Core /\ Lifecycle /\ Settled /\ LosslessDrain => SchedulerInv
    BY DEF Core, Settled, SchedulerInv
  <1> QED
    BY <1>1, <1>2, <1>3, TypeCorrect, PTL DEF Spec

\* Graceful shutdown never drops an admitted job (run's cancellation branch,
\* shutdown, and pump's leaving nothing behind), and the budget C is kept.
THEOREM ShutdownLossless == Spec => [](LosslessDrain /\ WithinBudget)
  BY InvariantCorrect, PTL DEF SchedulerInv

\* The task never goes back to waiting while a job could start and nothing is
\* in flight to wake it (enqueue, pump and on_complete together).
THEOREM NoLostWakeup == Spec => []WorkConserving
  <1>1. TypeOK /\ SchedulerInv => WorkConserving
    <2> SUFFICES ASSUME TypeOK, SchedulerInv, pc = "select",
                        NEW k \in Key, queues[k] # <<>>
                 PROVE  /\ inflight # {}
                        /\ \/ k \in active
                           \/ Cardinality(inflight) >= Budget
                           \/ queues[Serial] # <<>> \/ Serial \in active
      BY Zenon DEF WorkConserving
    <2>1. inflight # {}
      BY Zenon, NothingLeft DEF SchedulerInv, Core, Settled
    <2>2. CASE k = Serial
      BY Zenon, <2>1, <2>2
    <2>3. CASE k # Serial /\ k \notin active
      <3>1. PICK n \in 1..Len(ready) : ready[n] = k
        BY Zenon, <2>3 DEF SchedulerInv, ReadyExact
      <3>2. ready # <<>>
        BY <3>1
      <3>3. Barrier \/ ~HasBudget
        BY Zenon, <3>2 DEF SchedulerInv, PumpSettled, Barrier
      <3>4. ~HasBudget => Cardinality(inflight) >= Budget
        BY InflightFinite, SizesType DEF HasBudget
      <3> QED
        BY Zenon, <2>1, <3>3, <3>4 DEF Barrier
    <2> QED
      BY Zenon, <2>1, <2>2, <2>3
  <1> QED
    BY <1>1, TypeCorrect, InvariantCorrect, PTL

-----------------------------------------------------------------------------
(* The semaphore *)

LEMMA HoldersFinite ==
  ASSUME TypeOK
  PROVE  IsFiniteSet(Holders) /\ Cardinality(Holders) \in Nat
  BY Zenon, FS_Subset, FS_CardinalityType, SchedulerAssumption DEF Holders

LEMMA SlotTaken ==
  ASSUME TypeOK, SlotsConserved, NEW j \in Job, phase[j] \in {"idle", "waiting"},
         phase' = [phase EXCEPT ![j] = "sending"], slots' = slots - 1
  PROVE  SlotsConserved'
  <1>1. Holders' = Holders \cup {j} /\ j \notin Holders
    BY Zenon DEF TypeOK, Holders
  <1>2. Cardinality(Holders') = Cardinality(Holders) + 1
    BY Zenon, <1>1, HoldersFinite, FS_AddElement
  <1> QED
    BY <1>2, HoldersFinite, SizesType DEF SlotsConserved, TypeOK

LEMMA SlotsReturned ==
  ASSUME TypeOK, SlotsConserved, NEW S \in SUBSET Holders, Holders' = Holders \ S,
         slots' = slots + Cardinality(S)
  PROVE  SlotsConserved'
  <1>1. Cardinality(Holders') = Cardinality(Holders) - Cardinality(S)
    <2>1. Holders \cap S = S
      OBVIOUS
    <2> QED
      BY <2>1, HoldersFinite, FS_Difference, ZenonT(30)
  <1>2. Cardinality(S) \in Nat /\ Cardinality(Holders) \in Nat
    BY HoldersFinite, FS_Subset, FS_CardinalityType
  <1> QED
    BY <1>1, <1>2, SizesType DEF SlotsConserved, TypeOK

LEMMA SlotsStep ==
  TypeOK /\ TypeOK' /\ Core /\ SlotsConserved /\ [Next]_vars => SlotsConserved'
  <1> SUFFICES ASSUME TypeOK, TypeOK', Core, SlotsConserved, [Next]_vars
               PROVE  SlotsConserved'
    OBVIOUS
  <1> USE DEF submitVars, taskVars
  <1>1. ASSUME Holders' = Holders, slots' = slots PROVE SlotsConserved'
    BY Zenon, <1>1 DEF SlotsConserved
  <1>2. ASSUME NEW j \in Job, Submit(j) PROVE SlotsConserved'
    <2>1. CASE SubmitEnter(j) \/ SubmitAcquire(j)
      <3>1. \/ /\ phase[j] \in {"idle", "waiting"} /\ slots' = slots - 1
               /\ phase' = [phase EXCEPT ![j] = "sending"]
            \/ /\ phase[j] = "idle" /\ slots' = slots
               /\ \/ phase' = [phase EXCEPT ![j] = "rejected"]
                  \/ phase' = [phase EXCEPT ![j] = "waiting"]
        BY <2>1 DEF SubmitEnter, SubmitAcquire
      <3> QED
        BY Zenon, <1>1, <3>1, SlotTaken DEF Holders, TypeOK
    <2>2. CASE SubmitSend(j) \/ NextRequest(j)
      BY Zenon, <1>1, <2>2 DEF SubmitSend, NextRequest, Holders, TypeOK
    <2> QED
      BY Zenon, <1>2, <2>1, <2>2 DEF Submit
  <1>3. ASSUME UNCHANGED <<phase, slots>> PROVE SlotsConserved'
    BY Zenon, <1>1, <1>3 DEF Holders
  <1>4. CASE ShutdownBegin \/ ShutdownClose \/ ShutdownJoin \/ DropHandle
              \/ Cancelled \/ DrainEnd \/ PumpEnd \/ UNCHANGED vars
    BY Zenon, <1>3, <1>4 DEF ShutdownBegin, ShutdownClose, ShutdownJoin, DropHandle,
                      Cancelled, DrainEnd, PumpEnd, vars
  <1>5. CASE Recv \/ Drain
    <2>1. Head(intake) \in Job /\ Head(intake) = intake[1] /\ 1 \in 1..Len(intake)
      BY <1>5 DEF Recv, Drain, TypeOK
    <2>2. phase[Head(intake)] = "sent"
      BY <2>1, InChannel
    <2>3. phase' = [phase EXCEPT ![Head(intake)] = "queued"] /\ slots' = slots
      BY Zenon, <1>5 DEF Recv, Drain, enqueue
    <2> QED
      BY Zenon, <1>1, <2>1, <2>2, <2>3 DEF Holders, TypeOK
  <1>6. CASE RecvNone
    <2> DEFINE S == {j \in Job : phase[j] = "queued"}
    <2>1. /\ phase' = [j \in Job |-> IF j \in S THEN "dropped" ELSE phase[j]]
          /\ slots' = slots + Cardinality(S)
      BY Zenon, <1>6 DEF RecvNone, DropJobs
    <2>2. S \in SUBSET Holders /\ Holders' = Holders \ S
      BY Zenon, <2>1 DEF Holders
    <2> HIDE DEF S
    <2> QED
      BY Zenon, <2>1, <2>2, SlotsReturned
  <1>7. CASE Exit \/ Abort
    <2>1. /\ phase' = [j \in Job |-> IF j \in Outstanding THEN "dropped" ELSE phase[j]]
          /\ slots' = slots + Cardinality(Outstanding)
      BY Zenon, <1>7 DEF Exit, Abort, TaskGone, DropJobs
    <2>2. Outstanding \in SUBSET Holders /\ Holders' = Holders \ Outstanding
      BY Zenon, <2>1 DEF Holders, Outstanding
    <2> QED
      BY Zenon, <2>1, <2>2, SlotsReturned
  <1>8. ASSUME NEW k \in Key, start(k), slots' = slots PROVE SlotsConserved'
    <2>1. CASE queues[k] = <<>>
      BY Zenon, <1>3, <1>8, <2>1 DEF start, TypeOK
    <2>2. CASE queues[k] # <<>>
      <3>1. PICK j \in Job : /\ phase[j] = "queued" /\ phase'[j] = "running"
                             /\ \A i \in Job : i # j => phase'[i] = phase[i]
        <4> DEFINE j == Head(queues[k])
        <4>1. /\ j \in Job /\ j = queues[k][1] /\ 1 \in 1..Len(queues[k])
              /\ phase'[j] = "running"
              /\ \A i \in Job : i # j => phase'[i] = phase[i]
          BY Zenon, <1>8, <2>2, StartEffect
        <4> HIDE DEF j
        <4>2. phase[j] = "queued"
          BY Zenon, <4>1, InQueues
        <4> QED
          BY Zenon, <4>1, <4>2
      <3> QED
        BY Zenon, <1>1, <1>8, <3>1 DEF Holders
    <2> QED
      BY Zenon, <2>1, <2>2
  <1>9. CASE PumpSerial \/ PumpScoped
    BY <1>8, <1>9, SchedulerAssumption DEF PumpSerial, PumpScoped, TypeOK
  <1>10. ASSUME NEW j \in Job, Complete(j) PROVE SlotsConserved'
    <2>1. /\ phase[j] = "running" /\ phase' = [phase EXCEPT ![j] = "done"]
          /\ slots' = slots + 1
      BY Zenon, <1>10 DEF Complete, Core, Placement
    <2>2. {j} \in SUBSET Holders /\ Holders' = Holders \ {j}
      BY Zenon, <2>1 DEF Holders, TypeOK
    <2>3. Cardinality({j}) = 1
      BY Zenon, FS_Singleton
    <2> QED
      BY Zenon, <2>1, <2>2, <2>3, SlotsReturned
  <1> QED
    BY Zenon, <1>2, <1>4, <1>5, <1>6, <1>7, <1>9, <1>10 DEF Next, Task, Pump

\* No path of submit, start, on_complete, drop_queued or Drop leaks or forges
\* a permit, so M bounds the queued and running jobs.
THEOREM PermitsConserved == Spec => []SlotsConserved
  <1>1. Init => SlotsConserved
    <2> SUFFICES ASSUME Init PROVE SlotsConserved
      OBVIOUS
    <2>1. Holders = {}
      BY Zenon DEF Init, Holders
    <2> QED
      BY <2>1, FS_EmptySet, SizesType DEF Init, SlotsConserved
  <1>2. SchedulerInv => Core
    BY DEF SchedulerInv, Core
  <1> QED
    BY <1>1, <1>2, SlotsStep, TypeCorrect, InvariantCorrect, PTL DEF Spec

-----------------------------------------------------------------------------
(* DispatchScheduler implements KeyedDispatch.  Every step of the scheduler *)
(* maps to one promised step or to none; the facts that make the mapped     *)
(* steps legal are the parts of the inductive invariant.                    *)

HIDE SchedulerAssumption

\* The abstract stages, as functions of the phases.
stageOf == [j \in Job |-> Stage(phase[j])]

LEMMA SameCardinality == \A S : Promise!Cardinality(S) = Cardinality(S)
  BY Zenon DEF Promise!Cardinality, Cardinality

LEMMA StageValues ==
  ASSUME NEW p \in Phase
  PROVE  /\ Stage(p) = "sent" <=> p = "sent"
         /\ Stage(p) = "pending" <=> p = "queued"
         /\ Stage(p) = "running" <=> p = "running"
         /\ Stage(p) = "out" <=> p \notin {"sent", "queued", "running"}
  BY DEF Phase, Stage

LEMMA InvCore == SchedulerInv => Core
  BY Zenon DEF SchedulerInv, Core

LEMMA StageSets ==
  ASSUME TypeOK, SchedulerInv
  PROVE  Promise!Unfinished = Outstanding /\ Promise!Running = inflight
  <1>1. inflight = {j \in Job : phase[j] = "running"}
    BY Zenon, InvCore, InFlight
  <1>2. phase \in [Job -> Phase]
    BY Zenon DEF TypeOK
  <1>3. Promise!Running = inflight
    BY Zenon, <1>1, <1>2, StageValues DEF Promise!Running
  <1>4. Promise!Unfinished = Outstanding
    BY Zenon, <1>2, StageValues DEF Promise!Unfinished, Outstanding
  <1> QED
    BY Zenon, <1>3, <1>4

LEMMA StageExcept ==
  ASSUME TypeOK, NEW j \in Job, NEW p \in Phase, phase' = [phase EXCEPT ![j] = p]
  PROVE  stageOf' = [stageOf EXCEPT ![j] = Stage(p)]
  BY Zenon DEF TypeOK, stageOf

\* A step that moves a job between phases outside the scheduler, or leaves the
\* phases alone, is invisible.
LEMMA Invisible ==
  ASSUME TypeOK, UNCHANGED <<keyOf, before, cancelled, handle>>,
         \/ phase' = phase
         \/ \E j \in Job, p \in Phase :
               /\ phase[j] \notin {"sent", "queued", "running"}
               /\ p \notin {"sent", "queued", "running"}
               /\ phase' = [phase EXCEPT ![j] = p]
  PROVE  UNCHANGED Promise!vars
  <1>1. stageOf' = stageOf
    <2>1. CASE phase' = phase
      BY Zenon, <2>1 DEF stageOf
    <2>2. ASSUME NEW j \in Job, NEW p \in Phase,
                 phase[j] \notin {"sent", "queued", "running"},
                 p \notin {"sent", "queued", "running"},
                 phase' = [phase EXCEPT ![j] = p]
          PROVE  stageOf' = stageOf
      <3>1. Stage(p) = "out" /\ stageOf[j] = "out"
        BY Zenon, <2>2, StageValues DEF stageOf, TypeOK
      <3> QED
        BY <2>2, <3>1, StageExcept DEF stageOf
    <2> QED
      BY Zenon, <2>1, <2>2
  <1> QED
    BY Zenon, <1>1 DEF stageOf, Promise!vars

\* Jobs leave the scheduler.
LEMMA Leaves ==
  ASSUME TypeOK, UNCHANGED <<keyOf, cancelled, handle>>,
         NEW S \in SUBSET Job, NEW p \in Phase, p \notin {"sent", "queued", "running"},
         phase' = [j \in Job |-> IF j \in S THEN p ELSE phase[j]],
         before' = {q \in before : q[1] \notin S /\ q[2] \notin S}
  PROVE  Promise!Leave(S)
  <1>1. Stage(p) = "out"
    BY Zenon, StageValues
  <1>2. stageOf' = [j \in Job |-> IF j \in S THEN "out" ELSE stageOf[j]]
    BY Zenon, <1>1 DEF stageOf
  <1> QED
    BY <1>2 DEF stageOf, Promise!Leave

-----------------------------------------------------------------------------
(* One lemma per kind of visible step *)

LEMMA SendAdmits ==
  ASSUME TypeOK, SchedulerInv, NEW j \in Job, SubmitSend(j)
  PROVE  Promise!Admit(j)
  <1>1. ~cancelled
    BY Zenon DEF SubmitSend, SchedulerInv, Lifecycle, AdmissionBarrier, Readers
  <1>2. phase' = [phase EXCEPT ![j] = "sent"] /\ "sent" \in Phase
    BY Zenon DEF SubmitSend, Phase
  <1>3. stageOf' = [stageOf EXCEPT ![j] = "sent"] /\ stageOf[j] = "out"
    <2>1. Stage("sent") = "sent"
      BY Zenon DEF Stage
    <2>2. stageOf[j] = "out"
      BY Zenon, StageValues DEF SubmitSend, stageOf, TypeOK
    <2> QED
      BY Zenon, <1>2, <2>1, <2>2, StageExcept
  <1>4. before' = before \cup (Promise!Unfinished \X {j})
    BY Zenon, StageSets DEF SubmitSend
  <1> QED
    BY Zenon, <1>1, <1>3, <1>4 DEF SubmitSend, submitVars, stageOf, Promise!Admit

LEMMA ReceiveAccepts ==
  ASSUME TypeOK, SchedulerInv, intake # <<>>, enqueue(Head(intake)),
         UNCHANGED <<before, submitVars>>
  PROVE  \E j \in Job : Promise!Accept(j)
  <1> DEFINE j == Head(intake)
  <1>1. j \in Job /\ j = intake[1] /\ 1 \in 1..Len(intake) /\ Len(intake) \in Nat
    BY DEF TypeOK
  <1>2. phase[j] = "sent" /\ phase' = [phase EXCEPT ![j] = "queued"] /\ "queued" \in Phase
    <2>1. phase[j] = "sent"
      BY <1>1, InvCore, InChannel
    <2> QED
      BY Zenon, <2>1 DEF enqueue, Phase
  <1> HIDE DEF j
  <1>3. stageOf' = [stageOf EXCEPT ![j] = "pending"] /\ stageOf[j] = "sent"
    BY <1>1, <1>2, StageExcept, StageValues, ZenonT(30) DEF stageOf, TypeOK
  <1>4. ASSUME NEW i \in Job, <<i, j>> \in before PROVE stageOf[i] # "sent"
    <2> SUFFICES ASSUME phase[i] = "sent" PROVE FALSE
      BY Zenon, StageValues DEF stageOf, TypeOK
    <2>1. PICK n \in 1..Len(intake) : intake[n] = i
      BY InvCore, InChannel
    <2>2. CASE n = 1
      BY Zenon, <1>1, <1>4, <2>1, <2>2 DEF SchedulerInv, AdmissionOrder
    <2>3. CASE n # 1
      <3>1. 1 < n
        BY <1>1, <2>3
      <3>2. <<j, i>> \in before
        BY Zenon, <1>1, <2>1, <3>1 DEF SchedulerInv, AdmissionOrder
      <3> QED
        BY Zenon, <1>1, <1>4, <3>2 DEF SchedulerInv, AdmissionOrder
    <2> QED
      BY Zenon, <2>2, <2>3
  <1>5. Promise!Accept(j)
    BY Zenon, <1>3, <1>4 DEF stageOf, submitVars, Promise!Accept
  <1> QED
    BY Zenon, <1>1, <1>5

\* start(k) after pump's checks is a legal start of the key's first job.
LEMMA PumpStarts ==
  ASSUME TypeOK, SchedulerInv, SchedulerInv', NEW k \in Key, queues[k] # <<>>, start(k),
         HasBudget, UNCHANGED <<before, submitVars>>,
         IF k = Serial THEN inflight = {} ELSE ~Barrier
  PROVE  \E j \in Job : Promise!Start(j)
  <1>0. PICK j : j = Head(queues[k])
    OBVIOUS
  <1>1. /\ j \in Job /\ j = queues[k][1] /\ 1 \in 1..Len(queues[k])
        /\ inflight' = inflight \cup {j}
        /\ phase'[j] = "running"
        /\ \A i \in Job : i # j => phase'[i] = phase[i]
    BY <1>0, StartEffect
  <1>2. phase[j] = "queued" /\ keyOf[j] = k
    <2>1. \A m \in 1..Len(queues[k]) :
             phase[queues[k][m]] = "queued" /\ keyOf[queues[k][m]] = k
      BY InvCore, InQueues, Zenon
    <2>2. phase[queues[k][1]] = "queued" /\ keyOf[queues[k][1]] = k
      BY <1>1, <2>1, Zenon
    <2> QED
      BY <1>1, <2>2, Zenon
  <1>3. "running" \in Phase /\ phase' = [i \in Job |-> phase'[i]]
    BY Zenon DEF Phase, start
  <1>4. phase' = [phase EXCEPT ![j] = "running"]
    BY Zenon, <1>1, <1>3 DEF TypeOK
  <1>5. stageOf' = [stageOf EXCEPT ![j] = "running"] /\ stageOf[j] = "pending"
    <2>1. Stage("running") = "running" /\ Stage("queued") = "pending"
      BY Zenon DEF Stage
    <2> QED
      BY Zenon, <1>1, <1>2, <1>3, <1>4, <2>1, StageExcept DEF stageOf
  <1>6. \A i \in Job : <<i, j>> \in before => keyOf[i] # keyOf[j]
    BY Zenon, <1>1 DEF SchedulerInv, FifoPerKey, submitVars
  <1>7. Promise!Cardinality(Promise!Running) < Budget
    BY Zenon, StageSets, SameCardinality DEF HasBudget
  <1>8. Promise!MayStart(j) => Promise!Start(j)
    <2>1. UNCHANGED <<keyOf, before, cancelled, handle>>
      BY Zenon DEF submitVars
    <2> QED
      BY Zenon, <1>5, <1>7, <2>1 DEF stageOf, Promise!Start
  <1>9. CASE k = Serial
    <2>1. Promise!Running = {}
      BY Zenon, <1>9, StageSets
    <2>2. Promise!MayStart(j)
      BY Zenon, <1>2, <1>6, <1>9, <2>1 DEF Promise!MayStart
    <2> QED
      BY Zenon, <1>1, <1>8, <2>2
  <1>10. CASE k # Serial
    <2>1. ASSUME NEW i \in Job, keyOf[i] = Serial
          PROVE  stageOf[i] \notin {"pending", "running"}
      <3>0. ~Barrier
        BY <1>10, Zenon
      <3>1. Len(queues[Serial]) = 0 /\ Serial \notin active
        <4>1. queues[Serial] = <<>> /\ Serial \notin active
          BY <3>0, Zenon DEF Barrier
        <4> QED
          BY Zenon, <4>1
      <3>2. phase[i] # "queued"
        <4> SUFFICES ASSUME phase[i] = "queued" PROVE FALSE
          OBVIOUS
        <4>1. PICK n \in 1..Len(queues[keyOf[i]]) : queues[keyOf[i]][n] = i
          BY Zenon, InvCore, InQueues
        <4>2. n \in 1..0
          BY Zenon, <2>1, <3>1, <4>1
        <4> QED
          BY <4>2
      <3>3. phase[i] # "running"
        <4> SUFFICES ASSUME phase[i] = "running" PROVE FALSE
          OBVIOUS
        <4>1. i \in inflight
          BY Zenon, InvCore, InFlight
        <4>2. Serial \in active
          BY Zenon, <2>1, <4>1, InvCore, InFlight, SchedulerAssumption
        <4> QED
          BY Zenon, <3>1, <4>2
      <3> QED
        BY Zenon, <3>2, <3>3, StageValues DEF stageOf, TypeOK
    <2>2. Promise!MayStart(j)
      BY Zenon, <1>2, <1>6, <1>10, <2>1 DEF stageOf, Promise!MayStart
    <2> QED
      BY Zenon, <1>1, <1>8, <2>2
  <1> QED
    BY Zenon, <1>9, <1>10

LEMMA CompleteFinishes ==
  ASSUME TypeOK, SchedulerInv, NEW j \in Job, Complete(j)
  PROVE  Promise!Finish(j)
  <1>1. phase[j] = "running" /\ "done" \in Phase
    <2>1. j \in inflight
      BY Zenon DEF Complete
    <2> QED
      BY Zenon, <2>1, InvCore, InFlight DEF Phase
  <1>2. phase' = [i \in Job |-> IF i \in {j} THEN "done" ELSE phase[i]]
    BY Zenon DEF Complete, TypeOK
  <1>3. before' = {q \in before : q[1] \notin {j} /\ q[2] \notin {j}}
    BY Zenon DEF Complete
  <1>4. Promise!Leave({j})
    BY Zenon, <1>1, <1>2, <1>3, Leaves DEF Complete
  <1> QED
    BY Zenon, <1>1, <1>4, StageValues DEF Promise!Finish, TypeOK

LEMMA DropDiscards ==
  ASSUME TypeOK, SchedulerInv, RecvNone \/ Abort
  PROVE  \E S \in SUBSET Promise!Unfinished : Promise!Discard(S)
  <1>1. PICK S \in SUBSET Outstanding : DropJobs(S)
    BY DEF RecvNone, Abort, TaskGone, Outstanding
  <1>2. Promise!Leave(S)
    BY <1>1, Leaves DEF DropJobs, RecvNone, Abort, TaskGone, Phase, Outstanding
  <1> QED
    BY Zenon, <1>1, <1>2, StageSets DEF RecvNone, Abort, Promise!Discard

LEMMA ExitInvisible ==
  ASSUME TypeOK, SchedulerInv, Exit
  PROVE  UNCHANGED Promise!vars
  <1>1. \A k \in Key : queues[k] = <<>>
    BY Zenon, NothingLeft DEF Exit, SchedulerInv, Core, Settled
  <1>2. \A k \in Key : Len(queues[k]) = 0
    BY <1>1
  <1>3. Len(intake) = 0
    BY DEF Exit, SchedulerInv, DrainedIntake
  <1>4. Outstanding = {}
    <2> SUFFICES ASSUME NEW j \in Job, phase[j] \in {"sent", "queued", "running"}
                 PROVE  FALSE
      BY Zenon DEF Outstanding
    <2>1. CASE phase[j] = "sent"
      <3>1. PICK n \in 1..Len(intake) : intake[n] = j
        BY Zenon, <2>1, InvCore, InChannel
      <3> QED
        BY <1>3, <3>1
    <2>2. CASE phase[j] = "queued"
      <3>1. PICK n \in 1..Len(queues[keyOf[j]]) : queues[keyOf[j]][n] = j
        BY Zenon, <2>2, InvCore, InQueues
      <3>2. keyOf[j] \in Key
        BY Zenon DEF TypeOK
      <3> QED
        BY <1>2, <3>1, <3>2
    <2>3. CASE phase[j] = "running"
      <3>1. j \in inflight
        BY Zenon, <2>3, InvCore, InFlight
      <3> QED
        BY Zenon, <3>1 DEF Exit
    <2> QED
      BY Zenon, <2>1, <2>2, <2>3
  <1>5. phase' = phase
    BY Zenon, <1>4 DEF Exit, TaskGone, DropJobs, TypeOK
  <1>6. before' = before
    BY Zenon, <1>4 DEF Exit, TaskGone, DropJobs
  <1> QED
    BY Zenon, <1>5, <1>6, Invisible DEF Exit, TaskGone

LEMMA RefinedStep ==
  TypeOK /\ SchedulerInv /\ SchedulerInv' /\ [Next]_vars => [Promise!Next]_(Promise!vars)
  <1> SUFFICES ASSUME TypeOK, SchedulerInv, SchedulerInv', [Next]_vars
               PROVE  Promise!Next \/ UNCHANGED Promise!vars
    OBVIOUS
  <1> USE DEF submitVars, taskVars
  <1>1. ASSUME NEW j \in Job, SubmitEnter(j) \/ SubmitAcquire(j) \/ NextRequest(j)
        PROVE  UNCHANGED Promise!vars
    BY Zenon, <1>1, Invisible DEF SubmitEnter, SubmitAcquire, NextRequest, Phase
  <1>2. ASSUME NEW j \in Job, SubmitSend(j) PROVE Promise!Next
    BY Zenon, <1>2, SendAdmits DEF Promise!Next
  <1>3. CASE ShutdownBegin \/ ShutdownJoin \/ Cancelled \/ DrainEnd \/ PumpEnd
    BY Zenon, <1>3, Invisible DEF ShutdownBegin, ShutdownJoin, Cancelled, DrainEnd, PumpEnd
  <1>4. CASE ShutdownClose
    BY Zenon, <1>4 DEF ShutdownClose, Promise!Close, Promise!Next
  <1>5. CASE DropHandle
    BY Zenon, <1>5 DEF DropHandle, Promise!TearDown, Promise!Next
  <1>6. CASE Recv \/ Drain
    BY Zenon, <1>6, ReceiveAccepts DEF Recv, Drain, Promise!Next
  <1>7. CASE RecvNone \/ Abort
    BY Zenon, <1>7, DropDiscards DEF Promise!Next
  <1>8. CASE PumpSerial
    <2>1. HasBudget
      BY <1>8, FS_EmptySet, SizesType DEF PumpSerial, HasBudget
    <2> QED
      BY Zenon, <1>8, <2>1, PumpStarts, SchedulerAssumption DEF PumpSerial, Promise!Next
  <1>9. CASE PumpScoped
    <2> DEFINE k == Head(ready)
    <2>1. k \in Key /\ k = ready[1] /\ 1 \in 1..Len(ready)
      BY <1>9 DEF PumpScoped, TypeOK
    <2>2. k # Serial /\ queues[k] # <<>>
      BY Zenon, <2>1 DEF SchedulerInv, ReadyExact
    <2>3. start(k) /\ HasBudget /\ ~Barrier
      BY Zenon, <1>9 DEF PumpScoped
    <2> HIDE DEF k
    <2> QED
      BY Zenon, <1>9, <2>1, <2>2, <2>3, PumpStarts DEF PumpScoped, Promise!Next
  <1>10. ASSUME NEW j \in Job, Complete(j) PROVE Promise!Next
    BY Zenon, <1>10, CompleteFinishes DEF Promise!Next
  <1>11. CASE Exit
    BY Zenon, <1>11, ExitInvisible
  <1>12. CASE UNCHANGED vars
    BY <1>12, Invisible DEF vars
  <1> QED
    BY Zenon, <1>1, <1>2, <1>3, <1>4, <1>5, <1>6, <1>7, <1>8, <1>9, <1>10, <1>11, <1>12
    DEF Next, Submit, Task, Pump

\* Callers see keyed dispatch: what submit, SchedulerTask::run, shutdown and
\* Drop do is a behaviour of the abstract scheduler, whatever the keys, the
\* jobs, the budget and the capacity.
THEOREM SchedulerRefines == Spec => KeepsPromise
  <1>1. Init => Promise!Init
    BY Zenon DEF Init, Promise!Init, Stage
  <1>2. TypeOK /\ SchedulerInv /\ SchedulerInv' /\ [Next]_vars => [Promise!Next]_(Promise!vars)
    BY RefinedStep
  <1> QED
    BY <1>1, <1>2, TypeCorrect, InvariantCorrect, PTL DEF Spec, KeepsPromise, Promise!Spec
=============================================================================
