------------------------ MODULE NotificationsAPIProofs ------------------------
(***************************************************************************)
(* What holds of the service for any number of mails, instances and        *)
(* disruptions and any intervals.                                          *)
(***************************************************************************)
EXTENDS NotificationsAPI, TLAPS

(* Type correctness is inductive with what the program counters imply. *)
TypeInv == TypeOK /\ Jobs

USE DEF Null, MailStatus, Row, NoRow

LEMMA TypeInit == Init => TypeInv
  BY IntervalAssumption, ServiceAssumption, DispatcherAssumption
  DEF Init, TableInit, ServiceInit, DispatcherInit, MailServerInit, TypeInv, TypeOK, Jobs,
      Life, DispatcherPc, Outcome, DeleterPc, RpcPc, InFlight, DispatcherStart, DeleterStart

(* The statements keep the type of the table.                              *)
LEMMA ClaimRowType ==
  ASSUME NEW m \in Mails, NEW t \in Nat, rows \in [Mails -> Row], ClaimRow(m, t)
  PROVE  rows' \in [Mails -> Row]
  BY DEF ClaimRow

LEMMA CreateMailType ==
  ASSUME NEW m \in Mails, NEW s \in MailStatus, rows \in [Mails -> Row], CreateMail(m, s)
  PROVE  rows' \in [Mails -> Row]
  BY DEF CreateMail

LEMMA SetMailStatusType ==
  ASSUME NEW m \in Mails, NEW s \in MailStatus, rows \in [Mails -> Row], SetMailStatus(m, s)
  PROVE  /\ rows' \in [Mails -> Row]
         /\ \A n \in Mails : n # m => rows'[n] = rows[n]
         /\ rows'[m].status = (IF Present(m) THEN s ELSE "absent")
         /\ rows'[m].processedAt = rows[m].processedAt
  BY DEF SetMailStatus, Present

LEMMA AcceptType ==
  ASSUME NEW i \in Instances, NEW m \in Mails, AcceptFromQueue(i, m),
         fromQueue \in [Instances -> [Mails -> Nat]]
  PROVE  fromQueue' \in [Instances -> [Mails -> Nat]]
  BY DEF AcceptFromQueue

(* What the dispatchers hold after one of them returned.                   *)
JobTypes ==
  /\ pc \in [Instances -> DispatcherPc]
  /\ job \in [Instances -> Mails \cup {NoMail}]
  /\ popAt \in [Instances -> Nat]
  /\ outcome \in [Instances -> Outcome]
  /\ Jobs

LEMMA ReturnType ==
  ASSUME NEW i \in Instances, JobTypes, Return(i, pc'[i]),
         pc'[i] \in DispatcherPc \ {"popping", "transmit", "setStatus"}
  PROVE  JobTypes'
  BY DEF JobTypes, Jobs, Return, DispatcherPc, Outcome

LEMMA TypeQueueStep ==
  ASSUME NEW i \in Instances, TypeInv, QueueStep(i)
  PROVE  TypeInv'
<1> USE DEF TypeInv, TypeOK, Jobs, QueueStep, tableVars, serviceVars, rpcVars,
            DispatcherPc, Outcome, DeleterPc, Return, CallFails, Disruption
  <1>1. CASE PopRead(i)
    BY <1>1 DEF PopRead, Candidates
  <1>2. CASE PopEmpty(i)
    BY <1>2 DEF PopEmpty
  <1>3. CASE PopUpdate(i)
    <2>1. job[i] \in Mails /\ rows' \in [Mails -> Row]
      BY <1>3, ClaimRowType DEF PopUpdate
    <2>2. CASE Present(job[i])
      <3>1. /\ pc' = [pc EXCEPT ![i] = "transmit"]
            /\ pc[i] = "popping" /\ UNCHANGED <<job, popAt, outcome>>
        BY <1>3, <2>2 DEF PopUpdate
      <3>2. pc' \in [Instances -> DispatcherPc]
        BY <3>1
      <3>3. \A j \in Instances : pc'[j] = pc[j] \/ (j = i /\ pc'[j] = "transmit")
        BY <3>1
      <3>4. Jobs'
        BY <2>1, <3>1, <3>3
      <3> QED
        BY <1>3, <2>1, <3>1, <3>2, <3>4 DEF PopUpdate
    <2>3. CASE ~Present(job[i])
      <3>1. Return(i, "wait") /\ pc'[i] = "wait"
        BY <1>3, <2>3 DEF PopUpdate
      <3>2. JobTypes'
        BY <3>1, ReturnType DEF JobTypes
      <3> QED
        BY <1>3, <2>1, <3>2 DEF PopUpdate, JobTypes
    <2> QED
      BY <2>2, <2>3
  <1>4. CASE PopError(i)
    <2>1. rows' \in [Mails -> Row]
      BY <1>4, ClaimRowType DEF PopError
    <2>2. Return(i, "wait") /\ pc'[i] = "wait"
      BY <1>4 DEF PopError
    <2>3. JobTypes'
      BY <2>2, ReturnType DEF JobTypes
    <2>4. disruptions' \in Nat
      BY <1>4 DEF PopError
    <2> QED
      BY <1>4, <2>1, <2>3, <2>4 DEF PopError, JobTypes
  <1>5. CASE TransmitAccepted(i)
    BY <1>5 DEF TransmitAccepted, AcceptFromQueue
  <1>6. CASE TransmitError(i)
    <2>1. fromQueue' \in [Instances -> [Mails -> Nat]]
      BY <1>6, AcceptType DEF TransmitError
    <2>2. disruptions' \in Nat
      BY <1>6 DEF TransmitError
    <2> QED
      BY <1>6, <2>1, <2>2 DEF TransmitError
  <1>7. CASE TransmitPanic(i)
    BY <1>7 DEF TransmitPanic
  <1>8. CASE SetStatus(i)
    <2>1. rows' \in [Mails -> Row]
      BY <1>8, SetMailStatusType DEF SetStatus, NewStatus
    <2>2. Return(i, AfterStatus(i)) /\ pc'[i] = AfterStatus(i)
      BY <1>8 DEF SetStatus
    <2>3. JobTypes'
      BY <1>8, <2>2, ReturnType DEF JobTypes, AfterStatus, SetStatus
    <2> QED
      BY <1>8, <2>1, <2>3 DEF SetStatus, JobTypes
  <1>9. CASE SetStatusError(i)
    BY <1>9 DEF SetStatusError, AfterStatus
  <1>10. CASE NextCheck(i)
    BY <1>10 DEF NextCheck
  <1>11. CASE DispatcherExit(i)
    BY <1>11 DEF DispatcherExit
  <1>12. CASE DeleteOldMails(i)
    BY <1>12 DEF DeleteOldMails, DeleteExpired
  <1>13. CASE DeleteError(i)
    BY <1>13 DEF DeleteError
  <1>14. CASE NextDelete(i)
    BY <1>14 DEF NextDelete
  <1> QED
    BY <1>1, <1>2, <1>3, <1>4, <1>5, <1>6, <1>7, <1>8, <1>9, <1>10, <1>11, <1>12, <1>13, <1>14
    DEF DispatcherStep, DispatcherFault, DeleterStep

LEMMA TypeHandlerStep ==
  ASSUME NEW m \in Mails, TypeInv, HandlerStep(m)
  PROVE  TypeInv'
<1> USE DEF TypeInv, TypeOK, Jobs, HandlerStep, tableVars, serviceVars, dispatcherVars,
            RpcPc, InFlight, Goto, At, Disruption
  <1>1. CASE Receive(m)
    BY <1>1 DEF Receive, Reject, LogOnly, Accept
  <1>2. CASE QueueInsert(m)
    BY <1>2, CreateMailType DEF QueueInsert
  <1>3. CASE QueueInsertError(m)
    BY <1>3, CreateMailType DEF QueueInsertError
  <1>4. CASE SendTransmit(m)
    BY <1>4 DEF SendTransmit, AcceptFromRpc
  <1>5. CASE SendTransmitError(m)
    BY <1>5 DEF SendTransmitError, AcceptFromRpc
  <1>6. CASE SendRecord(m)
    BY <1>6, CreateMailType DEF SendRecord
  <1>7. CASE SendRecordError(m)
    BY <1>7, CreateMailType DEF SendRecordError
  <1> QED
    BY <1>1, <1>2, <1>3, <1>4, <1>5, <1>6, <1>7 DEF RpcStep, RpcFault

LEMMA TypeInstanceStep ==
  ASSUME NEW i \in Instances, TypeInv, InstanceStep(i)
  PROVE  TypeInv'
<1> USE DEF TypeInv, TypeOK, Jobs, tableVars, dispatcherVars, rpcVars, Life,
            DispatcherPc, Outcome, DeleterPc, Disruption, Return, Reset
  <1>1. CASE Shutdown(i)
    BY <1>1 DEF Shutdown
  <1>2. CASE Stopped(i)
    BY <1>2 DEF Stopped
  <1>3. CASE Crash(i)
    BY <1>3 DEF Crash, End, RpcPc
  <1>4. CASE PanicExit(i)
    BY <1>4 DEF PanicExit, End, RpcPc
  <1>5. CASE Start(i)
    BY <1>5 DEF Start, DispatcherStart, DeleterStart
  <1>6. CASE GracefulStop(i)
    BY <1>6 DEF GracefulStop
  <1> QED
    BY <1>1, <1>2, <1>3, <1>4, <1>5, <1>6 DEF InstanceStep

LEMMA TypeNext == TypeInv /\ [Next]_vars => TypeInv'
<1> SUFFICES ASSUME TypeInv, [Next]_vars PROVE TypeInv'
  OBVIOUS
<1>1. CASE \E i \in Instances : InstanceStep(i) \/ QueueStep(i)
  BY <1>1, TypeInstanceStep, TypeQueueStep
<1>2. CASE \E m \in Mails : HandlerStep(m)
  BY <1>2, TypeHandlerStep
<1>3. CASE ClockStep
  BY <1>3 DEF ClockStep, Tick, serviceVars, dispatcherVars, rpcVars, TypeInv, TypeOK, Jobs
<1>4. CASE UNCHANGED vars
  BY <1>4 DEF vars, tableVars, serviceVars, dispatcherVars, rpcVars, TypeInv, TypeOK, Jobs
<1> QED
  BY <1>1, <1>2, <1>3, <1>4 DEF Next

(* Whatever interleaving, failure or restart, every variable keeps its     *)
(* type: in particular only values of the enum mail_status reach the       *)
(* column `status`.                                                        *)
THEOREM TypeCorrect == Spec => []TypeOK
<1>1. Spec => []TypeInv
  BY TypeInit, TypeNext, PTL DEF Spec
<1>2. TypeInv => TypeOK
  BY DEF TypeInv
<1> QED
  BY <1>1, <1>2, PTL


-----------------------------------------------------------------------------
(* The sign in the two WHERE clauses: processed_at is never far ahead of   *)
(* the clock, so neither comparison is ever true.                          *)
LEMMA NeverLater ==
  ASSUME TypeOK, Clocks, NEW m \in Mails, NEW interval \in Nat
  PROVE  ~LaterThan(rows[m], now, interval)
  BY DEF TypeOK, Clocks, LaterThan

LEMMA OnlySubmittedPopped ==
  ASSUME TypeOK, Clocks, NEW m \in Candidates
  PROVE  m \in Mails /\ rows[m].status = "submitted"
  BY NeverLater, IntervalAssumption DEF Candidates, Poppable

LEMMA NothingDeleted ==
  ASSUME TypeOK, Clocks, DeleteExpired
  PROVE  rows' = rows
  BY NeverLater, IntervalAssumption DEF TypeOK, DeleteExpired, Expired

Safe == Clocks /\ Attempts /\ Routes /\ SentMeansHandedOver /\ OkIsKept

(* Whoever held a mail still does, except the dispatcher that returned.    *)
LEMMA ReturnHolds ==
  ASSUME NEW i \in Instances, TypeOK, Return(i, pc'[i]),
         pc'[i] \notin {"popping", "transmit", "setStatus"}
  PROVE  \A j \in Instances, m \in Mails :
           /\ Holds(j, m)' => Holds(j, m) /\ pc'[j] = pc[j] /\ outcome'[j] = outcome[j]
           /\ Handling(j, m)' => Handling(j, m)
           /\ ~Holds(i, m)'
  BY DEF TypeOK, Return, Holds, Handling

LEMMA AfterStatusPc ==
  ASSUME TypeOK, Jobs, NEW i \in Instances, pc[i] = "setStatus"
  PROVE  AfterStatus(i) \in {"poll", "wait", "panicked"}
  BY DEF TypeOK, Jobs, AfterStatus, Outcome

(* The history only grows.                                                 *)
LEMMA AcceptGrows ==
  ASSUME TypeOK, NEW i \in Instances, NEW m \in Mails,
         AcceptFromQueue(i, m) \/ UNCHANGED fromQueue, UNCHANGED fromRpc
  PROVE  \A n \in Mails : HandedOver(n) => HandedOver(n)'
<1>1. \A j \in Instances, n \in Mails : fromQueue[j][n] > 0 => fromQueue'[j][n] > 0
  <2>1. CASE AcceptFromQueue(i, m)
    BY <2>1 DEF TypeOK, AcceptFromQueue
  <2>2. CASE UNCHANGED fromQueue
    BY <2>2
  <2> QED
    BY <2>1, <2>2
<1> QED
  BY <1>1 DEF HandedOver

LEMMA SafeQueueStep ==
  ASSUME NEW i \in Instances, IInv, TypeOK', QueueStep(i)
  PROVE  Safe'
<1> USE DEF IInv, TypeOK, Jobs, Safe, Clocks, Attempts, Routes, SentMeansHandedOver, OkIsKept,
            Holds, Handling, HandedOver, Present,
            QueueStep, tableVars, serviceVars, rpcVars, Return
  <1>1. CASE PopRead(i)
    BY <1>1, OnlySubmittedPopped DEF PopRead
  <1>2. CASE PopEmpty(i)
    BY <1>2 DEF PopEmpty
  <1>3. CASE PopUpdate(i)
    BY <1>3 DEF PopUpdate, ClaimRow
  <1>4. CASE PopError(i)
    <2>1. Clocks'
      BY <1>4 DEF PopError, ClaimRow
    <2>2. Attempts'
      BY <1>4 DEF PopError, ClaimRow
    <2>3. Routes'
      BY <1>4 DEF PopError, ClaimRow
    <2>4. SentMeansHandedOver'
      BY <1>4 DEF PopError, ClaimRow
    <2>5. OkIsKept'
      BY <1>4 DEF PopError, ClaimRow
    <2> QED
      BY <2>1, <2>2, <2>3, <2>4, <2>5
  <1>5. CASE TransmitAccepted(i)
    BY <1>5 DEF TransmitAccepted, AcceptFromQueue
  <1>6. CASE TransmitError(i)
    <2>1. Clocks'
      BY <1>6 DEF TransmitError, AcceptFromQueue
    <2>2. Attempts'
      BY <1>6 DEF TransmitError, AcceptFromQueue
    <2>3. Routes'
      BY <1>6 DEF TransmitError, AcceptFromQueue
    <2>0. \A m \in Mails : HandedOver(m) => HandedOver(m)'
      BY <1>6, AcceptGrows DEF TransmitError
    <2>4. SentMeansHandedOver'
      BY <1>6, <2>0 DEF TransmitError
    <2>5. OkIsKept'
      BY <1>6, <2>0 DEF TransmitError
    <2> QED
      BY <2>1, <2>2, <2>3, <2>4, <2>5
  <1>7. CASE TransmitPanic(i)
    BY <1>7 DEF TransmitPanic
  <1>8. CASE SetStatus(i)
    <2> DEFINE m == job[i]
    <2>1. m \in Mails /\ pc[i] = "setStatus"
      BY <1>8 DEF SetStatus
    <2>2. SetMailStatus(m, NewStatus(i)) /\ NewStatus(i) \in {"sent", "failed"}
      BY <1>8 DEF SetStatus, NewStatus
    <2>3. /\ \A n \in Mails : n # m => rows'[n] = rows[n]
          /\ rows'[m].status = (IF Present(m) THEN NewStatus(i) ELSE "absent")
          /\ rows'[m].processedAt = rows[m].processedAt
      BY <2>1, <2>2, SetMailStatusType
    <2>4. Return(i, pc'[i]) /\ pc'[i] \in {"poll", "wait", "panicked"}
      BY <1>8, <2>1, AfterStatusPc DEF SetStatus
    <2>5. \A j \in Instances, n \in Mails :
            /\ Holds(j, n)' => Holds(j, n) /\ pc'[j] = pc[j] /\ outcome'[j] = outcome[j]
            /\ Handling(j, n)' => Handling(j, n)
      BY <2>4, ReturnHolds
    <2>6. UNCHANGED <<now, fromQueue, fromRpc, rpc, method>>
      BY <1>8 DEF SetStatus
    <2>7. \A n \in Mails : rows'[n].processedAt = rows[n].processedAt
      BY <2>3
    <2>8. Clocks'
      BY <2>4, <2>6, <2>7
    <2>9. Handling(i, m) /\ Holds(i, m)
      BY <2>1
    <2>10. NewStatus(i) = "sent" => fromQueue[i][m] = 1
      BY <2>9, <2>2 DEF NewStatus
    <2> HIDE DEF m, Holds, Handling
    <2>11. rows[m].status \notin {"absent", "submitted"} /\ fromRpc[m] # 1
      BY <2>1, <2>9
    <2>12. Attempts'
      <3> HIDE DEF TypeOK, Jobs, Clocks, Routes, SentMeansHandedOver, OkIsKept
      <3>1. rows'[m].status \in {"sent", "failed"}
        BY <2>2, <2>3, <2>11
      <3>2. \A n \in Mails : n # m => rows'[n].status = rows[n].status
        BY <2>3
      <3> QED
        BY <2>5, <2>6, <3>1, <3>2
    <2>13. Routes'
      <3> HIDE DEF TypeOK, Jobs, Clocks, Attempts, SentMeansHandedOver, OkIsKept
      <3>1. \A n \in Mails : rows'[n].status = "absent" => rows[n].status = "absent"
        BY <2>2, <2>3, <2>11
      <3>2. \A n \in Mails : n # m => rows'[n].status = rows[n].status
        BY <2>3
      <3>3. rows'[m].status \in {"sent", "failed"}
        BY <2>2, <2>3, <2>11
      <3> QED
        BY <2>5, <2>6, <2>11, <3>1, <3>2, <3>3
    <2>14. HandedOver(m) \/ NewStatus(i) # "sent"
      BY <2>1, <2>10
    <2>15. SentMeansHandedOver'
      BY <2>1, <2>2, <2>3, <2>6, <2>14
    <2>16. OkIsKept'
      <3> HIDE DEF TypeOK, Jobs, Clocks, Routes, SentMeansHandedOver, Attempts
      <3>1. \A n \in Mails : Present(n) => Present(n)'
        BY <2>2, <2>3, <2>11
      <3>2. \A n \in Mails : HandedOver(n) => HandedOver(n)'
        BY <2>6
      <3> HIDE DEF Present, HandedOver
      <3> QED
        BY <2>6, <3>1, <3>2
    <2> QED
      BY <2>8, <2>12, <2>13, <2>15, <2>16
  <1>9. CASE SetStatusError(i)
    <2>1. Return(i, pc'[i]) /\ pc'[i] \in {"poll", "wait", "panicked"}
      BY <1>9, AfterStatusPc DEF SetStatusError
    <2>2. \A j \in Instances, n \in Mails :
            /\ Holds(j, n)' => Holds(j, n) /\ pc'[j] = pc[j] /\ outcome'[j] = outcome[j]
            /\ Handling(j, n)' => Handling(j, n)
      BY <2>1, ReturnHolds
    <2>3. UNCHANGED <<rows, now, fromQueue, fromRpc, rpc, method>>
      BY <1>9 DEF SetStatusError
    <2>4. Clocks'
      BY <2>1, <2>3
    <2>5. Attempts'
      BY <2>2, <2>3
    <2>6. Routes'
      BY <2>2, <2>3
    <2>7. SentMeansHandedOver' /\ OkIsKept'
      BY <2>3
    <2> QED
      BY <2>4, <2>5, <2>6, <2>7
  <1>10. CASE NextCheck(i)
    BY <1>10 DEF NextCheck
  <1>11. CASE DispatcherExit(i)
    BY <1>11 DEF DispatcherExit
  <1>12. CASE DeleteOldMails(i)
    BY <1>12, NothingDeleted DEF DeleteOldMails
  <1>13. CASE DeleteError(i)
    BY <1>13 DEF DeleteError
  <1>14. CASE NextDelete(i)
    BY <1>14 DEF NextDelete
  <1> QED
    BY <1>1, <1>2, <1>3, <1>4, <1>5, <1>6, <1>7, <1>8, <1>9, <1>10, <1>11, <1>12, <1>13, <1>14
    DEF DispatcherStep, DispatcherFault, DeleterStep

LEMMA SafeHandlerStep ==
  ASSUME NEW m \in Mails, IInv, TypeOK', HandlerStep(m)
  PROVE  Safe'
<1> USE DEF IInv, TypeOK, Jobs, Safe, Clocks, Attempts, Routes, SentMeansHandedOver, OkIsKept,
            Holds, Handling, HandedOver, Present,
            HandlerStep, tableVars, serviceVars, dispatcherVars, Goto, At
  <1>1. CASE Receive(m)
    <2>1. /\ UNCHANGED <<tableVars, serviceVars, method, server>>
          /\ rpc[m] = "none" /\ \A n \in Mails : n # m => rpc'[n] = rpc[n]
          /\ rpc'[m] \in {"ok", "error", "insert", "transmit"}
          /\ rpc'[m] = "ok" => LoggingOnly
          /\ rpc'[m] = "insert" => method[m] = "QueueMail"
          /\ UNCHANGED dispatcherVars
      BY <1>1 DEF Receive, Reject, LogOnly, Accept, OnlyLogged
    <2>2. Clocks' /\ Attempts' /\ SentMeansHandedOver'
      BY <2>1
    <2>3. Routes'
      BY <2>1
    <2>4. OkIsKept'
      <3>1. \A n \in Mails : rpc'[n] = "ok" /\ ~LoggingOnly => rpc[n] = "ok"
        BY <2>1
      <3> HIDE DEF TypeOK, Jobs, Clocks, Routes, SentMeansHandedOver, Attempts, Goto, HandlerStep
      <3> QED
        BY <2>1, <3>1
    <2> QED
      BY <2>2, <2>3, <2>4
  <1>2. CASE QueueInsert(m)
    BY <1>2 DEF QueueInsert, CreateMail
  <1>3. CASE QueueInsertError(m)
    <2>1. Clocks'
      BY <1>3 DEF QueueInsertError, CreateMail
    <2>2. Attempts'
      BY <1>3 DEF QueueInsertError, CreateMail
    <2>3. Routes'
      BY <1>3 DEF QueueInsertError, CreateMail
    <2>4. SentMeansHandedOver'
      BY <1>3 DEF QueueInsertError, CreateMail
    <2>5. OkIsKept'
      BY <1>3 DEF QueueInsertError, CreateMail
    <2> QED
      BY <2>1, <2>2, <2>3, <2>4, <2>5
  <1>4. CASE SendTransmit(m)
    BY <1>4 DEF SendTransmit, AcceptFromRpc
  <1>5. CASE SendTransmitError(m)
    <2>1. Clocks'
      BY <1>5 DEF SendTransmitError, AcceptFromRpc
    <2>2. Attempts'
      BY <1>5 DEF SendTransmitError, AcceptFromRpc
    <2>3. Routes'
      BY <1>5 DEF SendTransmitError, AcceptFromRpc
    <2>4. SentMeansHandedOver'
      BY <1>5 DEF SendTransmitError, AcceptFromRpc
    <2>5. OkIsKept'
      BY <1>5 DEF SendTransmitError, AcceptFromRpc
    <2> QED
      BY <2>1, <2>2, <2>3, <2>4, <2>5
  <1>6. CASE SendRecord(m)
    <2>1. Clocks'
      BY <1>6 DEF SendRecord, CreateMail
    <2>2. Attempts'
      BY <1>6 DEF SendRecord, CreateMail
    <2>3. Routes'
      BY <1>6 DEF SendRecord, CreateMail
    <2>4. SentMeansHandedOver'
      BY <1>6 DEF SendRecord, CreateMail
    <2>0. UNCHANGED <<fromQueue, fromRpc, method>> /\ fromRpc[m] = 1
      BY <1>6 DEF SendRecord
    <2>5. OkIsKept'
      <3>1. \A n \in Mails : n # m => rpc'[n] = rpc[n] /\ rows'[n] = rows[n]
        BY <1>6 DEF SendRecord, CreateMail
      <3>2. HandedOver(m)'
        BY <2>0
      <3>3. \A n \in Mails : n # m =>
              (HandedOver(n) => HandedOver(n)') /\ (Present(n) => Present(n)')
        BY <2>0, <3>1
      <3> HIDE DEF Present, HandedOver, TypeOK, Jobs, Clocks, Routes, SentMeansHandedOver, Attempts
      <3> QED
        BY <2>0, <3>1, <3>2, <3>3
    <2> QED
      BY <2>1, <2>2, <2>3, <2>4, <2>5
  <1>7. CASE SendRecordError(m)
    <2>1. Clocks'
      BY <1>7 DEF SendRecordError, CreateMail
    <2>2. Attempts'
      BY <1>7 DEF SendRecordError, CreateMail
    <2>3. Routes'
      BY <1>7 DEF SendRecordError, CreateMail
    <2>4. SentMeansHandedOver'
      BY <1>7 DEF SendRecordError, CreateMail
    <2>5. OkIsKept'
      BY <1>7 DEF SendRecordError, CreateMail
    <2> QED
      BY <2>1, <2>2, <2>3, <2>4, <2>5
  <1> QED
    BY <1>1, <1>2, <1>3, <1>4, <1>5, <1>6, <1>7 DEF RpcStep, RpcFault

LEMMA SafeInstanceStep ==
  ASSUME NEW i \in Instances, IInv, TypeOK', InstanceStep(i)
  PROVE  Safe'
<1> USE DEF IInv, TypeOK, Jobs, Safe, Clocks, Attempts, Routes, SentMeansHandedOver, OkIsKept,
            Holds, Handling, HandedOver, Present,
            tableVars, dispatcherVars, rpcVars, Return, Reset
  <1>1. CASE Shutdown(i)
    BY <1>1 DEF Shutdown
  <1>2. CASE Stopped(i)
    BY <1>2 DEF Stopped
  <1>3. CASE Crash(i)
    BY <1>3 DEF Crash, End, ServedBy
  <1>4. CASE PanicExit(i)
    BY <1>4 DEF PanicExit, End, ServedBy
  <1>5. CASE Start(i)
    BY <1>5 DEF Start, DispatcherStart
  <1>6. CASE GracefulStop(i)
    BY <1>6 DEF GracefulStop
  <1> QED
    BY <1>1, <1>2, <1>3, <1>4, <1>5, <1>6 DEF InstanceStep

LEMMA SafeInit == Init => Safe
  BY DEF Init, TableInit, ServiceInit, DispatcherInit, MailServerInit, DispatcherStart,
         Safe, Clocks, Attempts, Routes, SentMeansHandedOver, OkIsKept, Holds, Handling, Present

LEMMA SafeNext == IInv /\ [Next]_vars => IInv'
<1> SUFFICES ASSUME IInv, [Next]_vars PROVE TypeInv' /\ Safe'
  BY DEF IInv, TypeInv, Safe
<1>1. TypeInv' /\ TypeOK'
  BY TypeNext DEF IInv, TypeInv
<1>2. CASE \E i \in Instances : InstanceStep(i) \/ QueueStep(i)
  BY <1>1, <1>2, SafeInstanceStep, SafeQueueStep
<1>3. CASE \E m \in Mails : HandlerStep(m)
  BY <1>1, <1>3, SafeHandlerStep
<1>4. CASE ClockStep
  <2>1. now' = now + 1 /\ UNCHANGED <<rows, serviceVars, dispatcherVars, rpcVars>>
    BY <1>4 DEF ClockStep, Tick
  <2>2. Clocks'
    <3>1. now \in Nat /\ (\A i \in Instances : popAt[i] \in Nat)
          /\ (\A m \in Mails : rows[m].processedAt \in Nat \cup {Null})
      BY DEF IInv, TypeOK
    <3> QED
      BY <2>1, <3>1 DEF IInv, Clocks, dispatcherVars, Holds, Handling
  <2>3. (Attempts /\ Routes)'
    BY <2>1 DEF IInv, Attempts, Routes, serviceVars, dispatcherVars, rpcVars, Holds, Handling, Present
  <2>4. (SentMeansHandedOver /\ OkIsKept)'
    BY <2>1 DEF IInv, SentMeansHandedOver, OkIsKept, serviceVars, dispatcherVars, rpcVars,
       Present, HandedOver
  <2> QED
    BY <1>1, <2>2, <2>3, <2>4 DEF Safe
<1>5. CASE UNCHANGED vars
  BY <1>1, <1>5 DEF IInv, vars, tableVars, serviceVars, dispatcherVars, rpcVars, Safe,
     Clocks, Attempts, Routes, SentMeansHandedOver, OkIsKept, Holds, Handling, Present, HandedOver
<1> QED
  BY <1>1, <1>2, <1>3, <1>4, <1>5 DEF Next

LEMMA Invariance == Spec => []IInv
<1>1. Init => IInv
  BY TypeInit, SafeInit DEF IInv, TypeInv, Safe
<1> QED
  BY <1>1, SafeNext, PTL DEF Spec

(* Whatever is lost, fails or crashes, and however many instances share    *)
(* the database, no dispatcher transmits a mail twice and no mail takes    *)
(* both routes (popAndHandleMail, SendMail, SendDryRun).                   *)
THEOREM NoResend == Spec => []NeverResent
<1>1. IInv => NeverResent
  BY DEF IInv, TypeOK, Attempts, Routes, NeverResent
<1> QED
  BY <1>1, Invariance, PTL

(* `sent` in the table is never written for a mail the backend does not    *)
(* have.                                                                   *)
THEOREM SentIsTrue == Spec => []SentMeansHandedOver
<1>1. IInv => SentMeansHandedOver
  BY DEF IInv
<1> QED
  BY <1>1, Invariance, PTL

(* A success answer is never wrong: the mail is stored, or it is out.      *)
THEOREM OkIsTrue == Spec => []OkIsKept
<1>1. IInv => OkIsKept
  BY DEF IInv
<1> QED
  BY <1>1, Invariance, PTL

=============================================================================
