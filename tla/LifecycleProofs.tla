--------------------------- MODULE LifecycleProofs ---------------------------
(***************************************************************************)
(* How the rows of the table change: nothing leaves the table or goes back *)
(* to the queue, and a single instance implements MailLifecycle.           *)
(***************************************************************************)
EXTENDS NotificationsAPIProofs

(* Which rows each statement can change, and to what.                      *)
LEMMA OnlyInsertsAreNew ==
  ASSUME IInv, [Next]_vars
  PROVE  \A m \in Mails : Present(m) =>
            \/ rows'[m].status \in {"processing", "failed", "sent"}
            \/ rows'[m] = rows[m]
<1> DEFINE Kept == \A m \in Mails : Present(m) =>
                     \/ rows'[m].status \in {"processing", "failed", "sent"}
                     \/ rows'[m] = rows[m]
<1>1. CASE UNCHANGED rows
  BY <1>1
<1>2. ASSUME NEW i \in Instances, QueueStep(i) PROVE Kept
  <2> USE DEF IInv, TypeOK, Jobs
  <2>1. CASE DeleteOldMails(i)
    BY <2>1, NothingDeleted DEF DeleteOldMails
  <2>2. CASE SetStatus(i)
    <3>1. NewStatus(i) \in {"sent", "failed"} /\ job[i] \in Mails
      BY <2>2 DEF SetStatus, NewStatus
    <3>2. SetMailStatus(job[i], NewStatus(i))
      BY <2>2 DEF SetStatus
    <3> QED
      BY <3>1, <3>2, SetMailStatusType DEF MailStatus, Present
  <2>3. CASE PopUpdate(i) \/ PopError(i)
    BY <2>3 DEF PopUpdate, PopError, ClaimRow
  <2>4. CASE ~(DeleteOldMails(i) \/ SetStatus(i) \/ PopUpdate(i) \/ PopError(i))
    BY <1>2, <2>4 DEF QueueStep, DispatcherStep, DispatcherFault, DeleterStep, PopRead,
       PopEmpty, TransmitAccepted, TransmitError, TransmitPanic, SetStatusError, NextCheck,
       DispatcherExit, DeleteError, NextDelete, tableVars
  <2> QED
    BY <2>1, <2>2, <2>3, <2>4
<1>3. ASSUME NEW m \in Mails, HandlerStep(m) PROVE Kept
  <2>1. CASE UNCHANGED rows
    BY <2>1
  <2>2. CASE /\ rpc[m] \in {"insert", "record"}
             /\ \E s \in MailStatus : CreateMail(m, s)
    BY <2>2 DEF IInv, TypeOK, Routes, CreateMail, Present
  <2> QED
    BY <1>3, <2>1, <2>2 DEF HandlerStep, Receive, Reject, LogOnly, Accept, RpcStep, RpcFault,
       QueueInsert, QueueInsertError, SendTransmit, SendTransmitError, SendRecord,
       SendRecordError, At, tableVars, MailStatus
<1>4. CASE \E i \in Instances : InstanceStep(i)
  BY <1>1, <1>4 DEF InstanceStep, Shutdown, GracefulStop, Stopped, Crash, PanicExit, End, Start, tableVars
<1> QED
  BY <1>1, <1>2, <1>3, <1>4 DEF Next, ClockStep, Tick, vars, tableVars

(* No statement removes a row or puts it back in the queue, so a row that  *)
(* failed or was sent stays for an administrator: DeleteOldMails and the   *)
(* retry of PopMailForProcessing never find one.                           *)
THEOREM RowsStay == Spec => NeverBackToQueue
<1>1. IInv /\ [Next]_vars =>
        [\A m \in Mails : Present(m) =>
           rows'[m].status \notin {"absent", "submitted"} \/ rows'[m] = rows[m]]_vars
  BY OnlyInsertsAreNew
<1> QED
  BY <1>1, Invariance, PTL DEF Spec, NeverBackToQueue

(* PopMailForProcessing never finds anything but submitted mails: its      *)
(* second alternative, the retry of failed and abandoned mails after the   *)
(* interval, is never true, for no length of the interval and at no time,  *)
(* since processed_at is never later than NOW() (sql/queries/mail.sql).    *)
THEOREM NoRetry == Spec => [](\A m \in Candidates : rows[m].status = "submitted")
<1>1. IInv => \A m \in Candidates : rows[m].status = "submitted"
  BY OnlySubmittedPopped DEF IInv
<1> QED
  BY <1>1, Invariance, PTL

(* For the same reason DeleteOldMails never finds a row to delete, however *)
(* long ago a mail was sent and whatever the interval.                     *)
THEOREM NoExpiry == Spec => [](\A m \in Mails : ~Expired(rows[m], now))
<1>1. IInv => \A m \in Mails : ~Expired(rows[m], now)
  BY NeverLater, IntervalAssumption DEF IInv, Expired
<1> QED
  BY <1>1, Invariance, PTL

-----------------------------------------------------------------------------
(* Checked is preserved: a row or a transmission always comes of a request *)
(* whose handler is past preprocessing.                                    *)
LEMMA CheckedNext ==
  ASSUME IInv, Checked, [Next]_vars
  PROVE  Checked'
<1> USE DEF IInv, TypeOK, Checked
<1>1. CASE UNCHANGED <<rows, fromQueue, fromRpc, rpc>>
  BY <1>1 DEF Present, HandedOver
<1>2. ASSUME NEW i \in Instances, QueueStep(i) PROVE Checked'
  <2>1. UNCHANGED <<rpc, fromRpc>>
    BY <1>2 DEF QueueStep, DispatcherStep, DispatcherFault, DeleterStep, PopRead, PopEmpty,
       PopUpdate, PopError, TransmitAccepted, TransmitError, TransmitPanic, SetStatus,
       SetStatusError, NextCheck, DispatcherExit, DeleteOldMails, DeleteError, NextDelete,
       serviceVars, rpcVars
  <2>2. \A m \in Mails : Present(m)' => Present(m)
    <3>1. CASE DeleteOldMails(i)
      BY <3>1, NothingDeleted DEF DeleteOldMails, Present
    <3>2. CASE SetStatus(i) \/ PopUpdate(i) \/ PopError(i)
      BY <3>2 DEF Jobs, SetStatus, SetMailStatus, PopUpdate, PopError, ClaimRow, Present
    <3>3. CASE UNCHANGED rows
      BY <3>3 DEF Present
    <3> QED
      BY <1>2, <3>1, <3>2, <3>3 DEF QueueStep, DispatcherStep, DispatcherFault, DeleterStep,
         PopRead, PopEmpty, TransmitAccepted, TransmitError, TransmitPanic, SetStatusError,
         NextCheck, DispatcherExit, DeleteError, NextDelete, tableVars
  <2>3. \A m \in Mails : HandedOver(m)' => HandedOver(m) \/ Present(m)
    <3>1. CASE UNCHANGED fromQueue
      BY <2>1, <3>1 DEF HandedOver
    <3>2. CASE pc[i] = "transmit" /\ AcceptFromQueue(i, job[i])
      <4>1. Present(job[i])
        BY <3>2 DEF Jobs, Attempts, Handling, Present
      <4>2. \A m \in Mails : m # job[i] =>
              \A j \in Instances : fromQueue'[j][m] = fromQueue[j][m]
        BY <3>2 DEF AcceptFromQueue
      <4> QED
        BY <2>1, <4>1, <4>2 DEF HandedOver
    <3> QED
      BY <1>2, <3>1, <3>2 DEF QueueStep, DispatcherStep, DispatcherFault, DeleterStep,
         PopRead, PopEmpty, PopUpdate, PopError, TransmitAccepted, TransmitError,
         TransmitPanic, SetStatus, SetStatusError, NextCheck, DispatcherExit,
         DeleteOldMails, DeleteError, NextDelete, serviceVars
  <2> QED
    BY <2>1, <2>2, <2>3
<1>3. ASSUME NEW m \in Mails, HandlerStep(m) PROVE Checked'
  <2>1. /\ Preprocessed(Request[m]) \/ (Reject(m) /\ UNCHANGED <<rows, fromQueue, fromRpc>>)
        /\ \A n \in Mails : n # m =>
             rpc'[n] = rpc[n] /\ rows'[n] = rows[n] /\ fromRpc'[n] = fromRpc[n]
        /\ UNCHANGED fromQueue
    BY <1>3 DEF HandlerStep, Receive, Reject, LogOnly, Accept, RpcStep, RpcFault,
       QueueInsert, QueueInsertError, SendTransmit, SendTransmitError, SendRecord,
       SendRecordError, At, Goto, CreateMail, AcceptFromRpc, tableVars, serviceVars
  <2>2. CASE Preprocessed(Request[m])
    BY <2>1, <2>2 DEF Present, HandedOver
  <2>3. CASE Reject(m) /\ UNCHANGED <<rows, fromQueue, fromRpc>>
    BY <2>3 DEF Reject, Goto, Present, HandedOver
  <2> QED
    BY <2>1, <2>2, <2>3
<1>4. ASSUME NEW i \in Instances, InstanceStep(i) PROVE Checked'
  BY <1>4 DEF InstanceStep, Shutdown, GracefulStop, Stopped, Crash, PanicExit, End, Start, tableVars,
     rpcVars, Present, HandedOver
<1> QED
  BY <1>1, <1>2, <1>3, <1>4
  DEF Next, ClockStep, Tick, vars, tableVars, serviceVars, rpcVars

(* Neither the queue nor a direct send lets out a mail whose request       *)
(* lacked a role, even across instances and restarts                       *)
(* (checkSendPermission).                                                  *)
THEOREM Permitted == Spec => []OnlyPermittedMails
<1>1. Init => Checked
  BY DEF Init, TableInit, ServiceInit, MailServerInit, NoRow, Checked, Present, HandedOver
<1>2. Checked => OnlyPermittedMails
  BY DEF Checked, OnlyPermittedMails, Preprocessed
<1> QED
  BY <1>1, <1>2, CheckedNext, Invariance, PTL DEF Spec

-----------------------------------------------------------------------------
(* Only the dispatcher of a running instance moves, in a step of its own.  *)
LEMMA DispatcherPcSteps ==
  ASSUME TypeOK, NEW i \in Instances, QueueStep(i)
  PROVE  UNCHANGED pc \/ (life[i] # "down" /\ \A j \in Instances : j # i => pc'[j] = pc[j])
  BY DEF TypeOK, QueueStep, DispatcherStep, DispatcherFault, DeleterStep, PopRead, PopEmpty,
     PopUpdate, PopError, TransmitAccepted, TransmitError, TransmitPanic, SetStatus,
     SetStatusError, NextCheck, DispatcherExit, DeleteOldMails, DeleteError, NextDelete,
     Running, Cancelled, Return

(* Undisturbed is preserved.                                               *)
LEMMA UndisturbedNext ==
  ASSUME IInv, Undisturbed, [Next]_vars
  PROVE  Undisturbed'
<1> USE DEF IInv, TypeOK, Undisturbed
<1>1. CASE UNCHANGED vars
  BY <1>1 DEF vars, serviceVars, dispatcherVars, rpcVars, Cancelled
<1>2. ASSUME NEW i \in Instances, InstanceStep(i) PROVE Undisturbed'
  <2>1. LoggingOnly => pc'[i] = "off" /\ \A j \in Instances : j # i => pc'[j] = pc[j]
    BY <1>2 DEF InstanceStep, Shutdown, GracefulStop, Stopped, Crash, PanicExit, End, Start, Reset, Return,
       DispatcherStart, dispatcherVars
  <2>2. \A m \in Mails : rpc'[m] = "panicked" => rpc[m] = "panicked"
    BY <1>2 DEF InstanceStep, Shutdown, GracefulStop, Stopped, Crash, PanicExit, End, Start, rpcVars
  <2>4. \A j \in Instances : life'[j] = "down" => pc'[j] = "off"
    BY <1>2 DEF InstanceStep, Shutdown, GracefulStop, Stopped, Crash, PanicExit, End, Start, Reset, Return,
       dispatcherVars
  <2>3. \/ disruptions' = disruptions + 1
        \/ /\ disruptions' = disruptions
           /\ \A j \in Instances : Cancelled(j)' => Cancelled(j)
    BY <1>2 DEF InstanceStep, Shutdown, GracefulStop, Stopped, Crash, PanicExit, End, Start, Reset, Disruption,
       Cancelled
  <2> QED
    BY <2>1, <2>2, <2>3, <2>4
<1>3. ASSUME NEW i \in Instances, QueueStep(i) PROVE Undisturbed'
  <2>1. ~LoggingOnly \/ UNCHANGED pc
    BY <1>3 DEF QueueStep, DispatcherStep, DispatcherFault, DeleterStep, PopRead, PopEmpty,
       PopUpdate, PopError, TransmitAccepted, TransmitError, TransmitPanic, SetStatus,
       SetStatusError, NextCheck, DispatcherExit, DeleteOldMails, DeleteError, NextDelete
  <2>3. \A j \in Instances : life[j] = "down" => pc'[j] = pc[j]
    <3>1. UNCHANGED pc \/ (life[i] # "down" /\ \A j \in Instances : j # i => pc'[j] = pc[j])
      BY <1>3, DispatcherPcSteps
    <3> QED
      BY <3>1
  <2>2. /\ UNCHANGED <<rpc, life>>
        /\ disruptions' = disruptions \/ disruptions' = disruptions + 1
    BY <1>3 DEF QueueStep, DispatcherStep, DispatcherFault, DeleterStep, PopRead, PopEmpty,
       PopUpdate, PopError, TransmitAccepted, TransmitError, TransmitPanic, SetStatus,
       SetStatusError, NextCheck, DispatcherExit, DeleteOldMails, DeleteError, NextDelete,
       CallFails, Disruption, serviceVars, rpcVars
  <2>4. \A j \in Instances : Cancelled(j)' = Cancelled(j)
    BY <2>2 DEF Cancelled
  <2> QED
    BY <2>1, <2>2, <2>3, <2>4
<1>4. ASSUME NEW m \in Mails, HandlerStep(m) PROVE Undisturbed'
  <2>1. /\ UNCHANGED <<pc, life>>
        /\ disruptions' = disruptions \/ disruptions' = disruptions + 1
    BY <1>4 DEF HandlerStep, Receive, Reject, LogOnly, Accept, RpcStep, RpcFault, QueueInsert,
       QueueInsertError, SendTransmit, SendTransmitError, SendRecord, SendRecordError,
       Disruption, serviceVars, dispatcherVars
  <2>2. \A n \in Mails : rpc'[n] = "panicked" => LoggingOnly \/ rpc[n] = "panicked"
    BY <1>4 DEF HandlerStep, Receive, Reject, LogOnly, Accept, RpcStep, RpcFault, QueueInsert,
       QueueInsertError, SendTransmit, SendTransmitError, SendRecord, SendRecordError, Goto
  <2>3. \A j \in Instances : Cancelled(j)' = Cancelled(j)
    BY <2>1 DEF Cancelled
  <2> QED
    BY <2>1, <2>2, <2>3
<1> QED
  BY <1>1, <1>2, <1>3, <1>4
  DEF Next, ClockStep, serviceVars, dispatcherVars, rpcVars, Cancelled

(* A row under way keeps its dispatcher until that has written the result. *)
LEMMA NoOrphanQueueStep ==
  ASSUME IInv, Undisturbed, NoOrphanWithoutDisruption, NEW i \in Instances, QueueStep(i)
  PROVE  NoOrphanWithoutDisruption'
<1> USE DEF IInv, TypeOK, Jobs, NoOrphanWithoutDisruption
<1> SUFFICES ASSUME disruptions' = 0 PROVE NoOrphanWithoutDisruption'
  OBVIOUS
<1>1. disruptions = 0 /\ ~DispatcherFault(i) /\ ~DeleteError(i)
  <2>1. ~CallFails(i)
    BY DEF CallFails, Disruption, Undisturbed
  <2>2. ~DispatcherFault(i) /\ ~DeleteError(i)
    BY <2>1 DEF DispatcherFault, PopError, TransmitError, SetStatusError, DeleteError
  <2> QED
    BY <2>2 DEF QueueStep, DispatcherStep, DeleterStep, PopRead, PopEmpty, PopUpdate,
       TransmitAccepted, TransmitPanic, SetStatus, NextCheck, DispatcherExit, DeleteOldMails,
       NextDelete, serviceVars
<1>2. CASE PopUpdate(i)
  <2>1. PICK m \in Mails : m = job[i]
    BY <1>2 DEF PopUpdate
  <2>2. CASE Present(job[i])
    <3>1. Handling(i, m)'
      BY <1>2, <2>1, <2>2 DEF PopUpdate, Handling
    <3>2. \A n \in Mails : n # m => rows'[n] = rows[n]
      BY <1>2, <2>1, <2>2 DEF PopUpdate, ClaimRow
    <3>3. \A j \in Instances, n \in Mails : n # m /\ Handling(j, n) => Handling(j, n)'
      BY <1>2, <2>1, <2>2 DEF PopUpdate, Handling
    <3> QED
      BY <1>1, <3>1, <3>2, <3>3
  <2>3. CASE ~Present(job[i])
    <3>1. UNCHANGED rows
      BY <1>2, <2>3 DEF PopUpdate, ClaimRow
    <3>2. \A j \in Instances, n \in Mails : Handling(j, n) => Handling(j, n)'
      BY <1>2, <2>3 DEF PopUpdate, Return, Handling
    <3> QED
      BY <1>1, <3>1, <3>2
  <2> QED
    BY <2>2, <2>3
<1>3. CASE SetStatus(i)
  <2>1. NewStatus(i) \in {"sent", "failed"} /\ job[i] \in Mails
    BY <1>3 DEF SetStatus, NewStatus
  <2>2. /\ rows'[job[i]].status # "processing"
        /\ \A n \in Mails : n # job[i] => rows'[n] = rows[n]
    BY <1>3, <2>1, SetMailStatusType DEF SetStatus, MailStatus
  <2>3. \A j \in Instances, n \in Mails : n # job[i] /\ Handling(j, n) => Handling(j, n)'
    BY <1>3 DEF SetStatus, Return, Handling
  <2> QED
    BY <1>1, <2>1, <2>2, <2>3
<1>4. CASE ~PopUpdate(i) /\ ~SetStatus(i)
  <2>1. UNCHANGED rows
    <3>1. CASE DeleteOldMails(i)
      BY <3>1, NothingDeleted DEF DeleteOldMails
    <3> QED
      BY <1>1, <1>4, <3>1 DEF QueueStep, DispatcherStep, DeleterStep, PopRead, PopEmpty,
         TransmitAccepted, TransmitPanic, NextCheck, DispatcherExit, NextDelete, tableVars
  <2>2. \A j \in Instances, n \in Mails : Handling(j, n) => Handling(j, n)'
    BY <1>1, <1>4 DEF QueueStep, DispatcherStep, DeleterStep, PopRead, PopEmpty,
       TransmitAccepted, TransmitPanic, NextCheck, DispatcherExit, DeleteOldMails, NextDelete,
       Return, Handling
  <2> QED
    BY <1>1, <2>1, <2>2
<1> QED
  BY <1>2, <1>3, <1>4

LEMMA NoOrphanNext ==
  ASSUME IInv, Undisturbed, NoOrphanWithoutDisruption, [Next]_vars
  PROVE  NoOrphanWithoutDisruption'
<1> USE DEF IInv, TypeOK, NoOrphanWithoutDisruption
<1>1. CASE UNCHANGED <<rows, pc, job, disruptions>>
  BY <1>1 DEF Handling
<1>2. ASSUME NEW i \in Instances, InstanceStep(i), disruptions' = 0
      PROVE  NoOrphanWithoutDisruption'
  <2>1. UNCHANGED <<rows, disruptions>> /\ \A m \in Mails : ~Handling(i, m)
    <3>1. CASE PanicExit(i)
      BY <3>1 DEF PanicExit, End, Panicked, ServedBy, Undisturbed, Handling, tableVars
    <3>2. CASE Start(i) \/ Stopped(i)
      BY <1>2, <3>2 DEF Stopped, Start, Undisturbed, Handling, tableVars
    <3>3. ~Shutdown(i) /\ ~Crash(i) /\ ~GracefulStop(i)
      BY <1>2 DEF Shutdown, Crash, Disruption, GracefulStop, Undisturbed, Cancelled
    <3> QED
      BY <1>2, <3>1, <3>2, <3>3 DEF InstanceStep
  <2>2. \A j \in Instances, m \in Mails : Handling(j, m) => Handling(j, m)'
    BY <1>2, <2>1 DEF InstanceStep, Shutdown, GracefulStop, Stopped, Crash, PanicExit, End,
       Start, Reset, Return, Handling, dispatcherVars
  <2> QED
    BY <2>1, <2>2
<1>3. ASSUME NEW m \in Mails, HandlerStep(m), disruptions' = 0
      PROVE  NoOrphanWithoutDisruption'
  <2>1. UNCHANGED <<pc, job>> /\ disruptions = 0
    BY <1>3 DEF HandlerStep, Receive, Reject, LogOnly, Accept, RpcStep, RpcFault, QueueInsert,
       QueueInsertError, SendTransmit, SendTransmitError, SendRecord, SendRecordError,
       Disruption, serviceVars, dispatcherVars
  <2>2. \A n \in Mails : rows'[n] = rows[n] \/ rows'[n].status \in {"submitted", "sent"}
    BY <1>3 DEF HandlerStep, Receive, Reject, LogOnly, Accept, RpcStep, RpcFault,
       QueueInsert, QueueInsertError, SendTransmit, SendTransmitError, SendRecord,
       SendRecordError, CreateMail, tableVars
  <2> QED
    BY <2>1, <2>2 DEF Handling
<1> QED
  BY <1>1, <1>2, <1>3, NoOrphanQueueStep
  DEF Next, ClockStep, Tick, vars, tableVars, serviceVars, dispatcherVars

(* As long as nothing fails, every row in `processing` has a dispatcher at *)
(* work on it, in any number of instances that race for it, through panics *)
(* and restarts too (popAndHandleMail and its deferred function).          *)
THEOREM NoOrphan == Spec => []NoOrphanWithoutDisruption
<1>1. Init => Undisturbed /\ NoOrphanWithoutDisruption
  BY DEF Init, TableInit, NoRow, ServiceInit, DispatcherInit, MailServerInit, DispatcherStart,
     Undisturbed, NoOrphanWithoutDisruption, Cancelled
<1> QED
  BY <1>1, UndisturbedNext, NoOrphanNext, Invariance, PTL DEF Spec

-----------------------------------------------------------------------------
(* Every step of a cancelled instance brings it nearer to its end.         *)
LEMMA CancelledQueueStep ==
  ASSUME TypeOK, Jobs, NEW i \in Instances, Cancelled(i), QueueStep(i)
  PROVE  WindsDown(i)
<1> USE DEF TypeOK
<1>1. UNCHANGED rpc
  BY DEF QueueStep, rpcVars
<1>2. CASE DeleterStep(i) \/ DeleteError(i)
  <2>1. UNCHANGED pc /\ deleter'[i] = (IF deleter[i] = "delete" THEN "wait" ELSE "exited")
        /\ deleter[i] \in {"delete", "wait"}
    BY <1>2 DEF DeleterStep, DeleteOldMails, DeleteError, NextDelete, Cancelled
  <2> QED
    BY <1>1, <2>1 DEF WindsDown, DeleterLeft
<1>3. CASE DispatcherStep(i) \/ DispatcherFault(i)
  <2>1. CASE pc[i] = "setStatus"
    <3>1. UNCHANGED deleter /\ pc' = [pc EXCEPT ![i] = AfterStatus(i)]
      BY <1>3, <2>1 DEF DispatcherStep, DispatcherFault, PopRead, PopEmpty, PopUpdate,
         PopError, TransmitAccepted, TransmitError, TransmitPanic, SetStatus,
         SetStatusError, NextCheck, DispatcherExit, Return, Cancelled
    <3>2. pc'[i] \in {"poll", "wait", "panicked"}
      BY <2>1, <3>1, AfterStatusPc
    <3> QED
      BY <1>1, <2>1, <3>1, <3>2 DEF WindsDown, DispatcherLeft
  <2>2. CASE pc[i] # "setStatus"
    <3>1. /\ UNCHANGED deleter
          /\ \/ pc[i] = "popping" /\ pc'[i] \in {"transmit", "wait"}
             \/ pc[i] = "transmit" /\ pc'[i] = "setStatus"
             \/ pc[i] = "poll" /\ pc'[i] = "wait"
             \/ pc[i] = "wait" /\ pc'[i] = "exited"
      BY <1>3, <2>2 DEF DispatcherStep, DispatcherFault, PopRead, PopEmpty, PopUpdate,
         PopError, TransmitAccepted, TransmitError, TransmitPanic, SetStatus,
         SetStatusError, NextCheck, DispatcherExit, Return, Cancelled
    <3> QED
      BY <1>1, <3>1 DEF WindsDown, DispatcherLeft
  <2> QED
    BY <2>1, <2>2
<1> QED
  BY <1>2, <1>3 DEF QueueStep

(* What other instances and their dispatchers do is no step of this one.   *)
LEMMA OthersStep ==
  ASSUME TypeOK, NEW i \in Instances, NEW j \in Instances, j # i,
         QueueStep(j) \/ InstanceStep(j)
  PROVE  WindsDown(i)
<1>1. pc'[i] = pc[i] /\ deleter'[i] = deleter[i]
  BY DEF TypeOK, InstanceStep, Shutdown, GracefulStop, Stopped, Crash, PanicExit, End, Start, Reset,
     Return, QueueStep, DispatcherStep, DispatcherFault, DeleterStep, PopRead, PopEmpty,
     PopUpdate, PopError, TransmitAccepted, TransmitError, TransmitPanic, SetStatus,
     SetStatusError, NextCheck, DispatcherExit, DeleteOldMails, DeleteError, NextDelete,
     dispatcherVars
<1>2. \A m \in Mails : server[m] = i => rpc'[m] = rpc[m]
  BY DEF TypeOK, InstanceStep, Shutdown, GracefulStop, Stopped, Crash, PanicExit, End, Start, ServedBy,
     QueueStep, rpcVars
<1> QED
  BY <1>1, <1>2 DEF WindsDown

LEMMA CancelledHandlerStep ==
  ASSUME TypeOK, NEW i \in Instances, Cancelled(i), NEW m \in Mails, HandlerStep(m)
  PROVE  WindsDown(i)
<1> USE DEF TypeOK
<1>1. UNCHANGED <<pc, deleter>>
  BY DEF HandlerStep, dispatcherVars
<1>2. \A n \in Mails : n # m => rpc'[n] = rpc[n]
  BY DEF HandlerStep, Receive, Reject, LogOnly, Accept, RpcStep, RpcFault, QueueInsert,
     QueueInsertError, SendTransmit, SendTransmitError, SendRecord, SendRecordError, Goto
<1>3. server[m] = i =>
        \/ rpc[m] \in {"insert", "record"} /\ rpc'[m] \in {"ok", "error", "panicked"}
        \/ rpc[m] = "transmit" /\ rpc'[m] \in {"record", "error"}
        \/ rpc[m] = "none" /\ life[i] = "stopping"
  BY DEF HandlerStep, Receive, Reject, LogOnly, Accept, RpcStep, RpcFault, QueueInsert,
     QueueInsertError, SendTransmit, SendTransmitError, SendRecord, SendRecordError, Goto, At,
     Serving, Cancelled
<1> QED
  BY <1>1, <1>2, <1>3 DEF WindsDown, HandlerLeft

(* Once the context is cancelled the mails in the queue do not keep an     *)
(* instance from ending, and once GracefulStop is called no caller does:   *)
(* whatever step a goroutine takes, it has fewer left (HandleMailQueue,    *)
(* DeleteOldMails, the handlers).                                          *)
THEOREM WindingDown == Spec => ShutdownWindsDown
<1> DEFINE Goal == \A i \in Instances :
                     Cancelled(i) /\ Cancelled(i)' => WindsDown(i)
<1>1. ASSUME IInv, [Next]_vars PROVE Goal
  <2> SUFFICES ASSUME NEW i \in Instances, Cancelled(i), Cancelled(i)'
               PROVE  WindsDown(i)
    OBVIOUS
  <2>1. CASE UNCHANGED <<pc, deleter, rpc>>
    BY <2>1 DEF WindsDown
  <2>2. TypeOK /\ Jobs /\ life \in [Instances -> Life]
    BY <1>1 DEF IInv, TypeOK
  <2>3. ASSUME InstanceStep(i) PROVE UNCHANGED <<pc, deleter, rpc>>
    BY <2>2, <2>3 DEF InstanceStep, Shutdown, GracefulStop, Stopped, Crash, PanicExit, End,
       Start, Reset, Cancelled, dispatcherVars, rpcVars
  <2> QED
    BY <1>1, <2>1, <2>2, <2>3, CancelledQueueStep, OthersStep, CancelledHandlerStep
    DEF Next, ClockStep, vars, dispatcherVars, rpcVars
<1> QED
  BY <1>1, Invariance, PTL DEF Spec, ShutdownWindsDown

-----------------------------------------------------------------------------
(* Alone on the database, nobody touches a row between the pop and the     *)
(* status update but the dispatcher that holds it.                         *)
SingleInstance == \A i, j \in Instances : i = j

Exclusive ==
  \A m \in Mails, i \in Instances :
    /\ Handling(i, m) => rows[m].status = "processing"
    /\ Holds(i, m) /\ pc[i] = "popping" => rows[m].status = "submitted"

Undivided == SingleInstance => Exclusive

Status == [m \in Mails |-> rows[m].status]
ByQueue == [m \in Mails |-> {i \in Instances : fromQueue[i][m] > 0}]
ByRpc == {m \in Mails : fromRpc[m] > 0}

Mapped == <<Status, ByQueue, ByRpc>>

LEMMA StutterMaps ==
  ASSUME UNCHANGED <<rows, fromQueue, fromRpc>>
  PROVE  UNCHANGED Mapped
  BY DEF Mapped, Status, ByQueue, ByRpc

LEMMA StatusMaps ==
  ASSUME TypeOK, TypeOK', NEW m \in Mails, NEW s, UNCHANGED <<fromQueue, fromRpc>>,
         rows'[m].status = s, \A n \in Mails : n # m => rows'[n] = rows[n]
  PROVE  Lifecycle!Become(m, s)
<1>1. UNCHANGED <<ByQueue, ByRpc>>
  BY DEF ByQueue, ByRpc
<1>2. Status' = [Status EXCEPT ![m] = s]
  BY DEF Status, TypeOK
<1> QED
  BY <1>1, <1>2 DEF Lifecycle!Become, Status, ByQueue, ByRpc

(* No dispatcher has sent a mail that nobody has popped.                   *)
LEMMA NewMaps ==
  ASSUME IInv, NEW m \in Mails, rows[m].status = "absent", fromRpc[m] = 0
  PROVE  Lifecycle!New(m)
<1>1. ByQueue[m] = {}
  BY DEF IInv, Attempts, ByQueue
<1> QED
  BY <1>1 DEF Lifecycle!New, Status, ByQueue, ByRpc

(* What a dispatcher may assume of the mail it has popped.                 *)
LEMMA HandlingMaps ==
  ASSUME IInv, Undivided, NEW i \in Instances, NEW m \in Mails, Handling(i, m)
  PROVE  Lifecycle!UnderWay(m) /\ Present(m)
<1> USE DEF IInv, TypeOK, Jobs
<1>1. rows[m].status \in {"processing", "sent", "failed"}
  BY DEF Attempts, Row, MailStatus
<1>2. Lifecycle!Alone => rows[m].status = "processing"
  BY DEF Lifecycle!Alone, Undivided, SingleInstance, Exclusive
<1>3. fromRpc[m] = 0
  <2>1. Holds(i, m)
    BY DEF Holds, Handling
  <2>2. fromRpc[m] \in Nat /\ fromRpc[m] <= 1 /\ fromRpc[m] # 1
    BY <2>1 DEF Routes
  <2> HIDE DEF IInv, TypeOK, Jobs
  <2> QED
    BY <2>2
<1> QED
  BY <1>1, <1>2, <1>3 DEF Lifecycle!UnderWay, Present

(* The statements of a row under way and at rest.                          *)
LEMMA ExclusiveNext ==
  ASSUME SingleInstance, IInv, TypeOK', Exclusive, [Next]_vars
  PROVE  Exclusive'
<1> USE DEF IInv, TypeOK, Jobs, Exclusive, SingleInstance, Holds, Handling
<1>1. CASE UNCHANGED <<rows, pc, job>>
  BY <1>1
<1>2. ASSUME NEW i \in Instances, QueueStep(i) PROVE Exclusive'
  <2> USE DEF Return
  <2>1. CASE PopRead(i)
    BY <2>1, OnlySubmittedPopped DEF PopRead, tableVars
  <2>2. CASE PopUpdate(i)
    BY <2>2 DEF PopUpdate, ClaimRow, Present
  <2>3. CASE TransmitAccepted(i) \/ TransmitError(i) \/ TransmitPanic(i)
    BY <2>3 DEF TransmitAccepted, TransmitError, TransmitPanic, tableVars
  <2>4. CASE DeleteOldMails(i)
    BY <2>4, NothingDeleted DEF DeleteOldMails
  <2>5. CASE DeleteError(i) \/ NextDelete(i)
    BY <2>5 DEF DeleteError, NextDelete, tableVars
  <2>6. CASE pc'[i] \notin {"popping", "transmit", "setStatus"}
    BY <2>6
  <2>7. CASE PopEmpty(i) \/ PopError(i) \/ NextCheck(i) \/ DispatcherExit(i)
    BY <2>6, <2>7 DEF PopEmpty, PopError, NextCheck, DispatcherExit
  <2>8. CASE SetStatus(i) \/ SetStatusError(i)
    <3>1. pc[i] = "setStatus" /\ pc' = [pc EXCEPT ![i] = AfterStatus(i)]
      BY <2>8 DEF SetStatus, SetStatusError
    <3>2. AfterStatus(i) \in {"poll", "wait", "panicked"}
      BY <3>1, AfterStatusPc
    <3>3. pc'[i] = AfterStatus(i)
      BY <3>1
    <3> QED
      BY <2>6, <3>2, <3>3
  <2> QED
    BY <1>2, <2>1, <2>2, <2>3, <2>4, <2>5, <2>7, <2>8
    DEF QueueStep, DispatcherStep, DispatcherFault, DeleterStep
<1>3. ASSUME NEW m \in Mails, HandlerStep(m) PROVE Exclusive'
  <2>1. UNCHANGED <<pc, job>>
    BY <1>3 DEF HandlerStep, dispatcherVars
  <2>2. \A n \in Mails : rows'[n] = rows[n] \/ rows[n].status = "absent"
    BY <1>3 DEF HandlerStep, Receive, Reject, LogOnly, Accept, RpcStep, RpcFault,
       QueueInsert, QueueInsertError, SendTransmit, SendTransmitError, SendRecord,
       SendRecordError, At, CreateMail, tableVars, Routes, Present
  <2> QED
    BY <2>1, <2>2 DEF Attempts
<1>4. ASSUME NEW i \in Instances, InstanceStep(i) PROVE Exclusive'
  BY <1>4 DEF InstanceStep, Shutdown, GracefulStop, Stopped, Crash, PanicExit, End, Start, Reset, Return,
     DispatcherStart, tableVars, dispatcherVars
<1> QED
  BY <1>1, <1>2, <1>3, <1>4 DEF Next, ClockStep, Tick, vars, tableVars, dispatcherVars

LEMMA QueueStepMaps ==
  ASSUME IInv, TypeOK', Undivided, NEW i \in Instances, QueueStep(i)
  PROVE  [Lifecycle!Next]_Mapped
<1> USE DEF IInv, Jobs
<1>1. CASE UNCHANGED <<rows, fromQueue, fromRpc>>
  BY <1>1, StutterMaps
<1>2. CASE DeleteOldMails(i)
  BY <1>1, <1>2, NothingDeleted DEF DeleteOldMails, serviceVars
<1>3. ASSUME NEW m \in Mails, m = job[i], pc[i] = "popping", ClaimRow(m, popAt[i]),
             UNCHANGED <<fromQueue, fromRpc>>
      PROVE  Lifecycle!Next
  <2>1. Present(m) /\ fromRpc[m] = 0
    <3>1. Holds(i, m)
      BY <1>3 DEF Holds
    <3>2. fromRpc[m] \in Nat /\ fromRpc[m] <= 1 /\ fromRpc[m] # 1
      BY <3>1 DEF Routes, TypeOK
    <3> QED
      BY <3>1, <3>2 DEF Attempts, Present
  <2>2. /\ rows'[m].status = "processing"
        /\ \A n \in Mails : n # m => rows'[n] = rows[n]
    BY <1>3, <2>1 DEF ClaimRow, TypeOK
  <2>3. Lifecycle!Become(m, "processing")
    BY <1>3, <2>2, StatusMaps
  <2>4. Lifecycle!Alone => rows[m].status = "submitted"
    BY <1>3 DEF Lifecycle!Alone, Undivided, SingleInstance, Exclusive, Holds
  <2>5. rows[m].status \in {"submitted", "processing", "sent", "failed"}
    BY <2>1 DEF Present, TypeOK, Row, MailStatus
  <2>6. Lifecycle!Claim(m)
    BY <2>1, <2>3, <2>4, <2>5 DEF Lifecycle!Claim, Lifecycle!UnderWay
  <2> QED
    BY <2>6 DEF Lifecycle!Next
<1>4. ASSUME NEW m \in Mails, m = job[i], pc[i] = "transmit", AcceptFromQueue(i, m),
             UNCHANGED <<rows, fromRpc>>
      PROVE  Lifecycle!Next
  <2>1. Lifecycle!UnderWay(m)
    BY <1>4, HandlingMaps DEF Handling
  <2>2. fromQueue[i][m] = 0
    BY <1>4 DEF Attempts, Holds
  <2>3. ByQueue' = [ByQueue EXCEPT ![m] = @ \cup {i}]
    <3>1. ByQueue[m]' = ByQueue[m] \cup {i}
      BY <1>4, <2>2 DEF ByQueue, AcceptFromQueue, TypeOK
    <3>2. \A n \in Mails : n # m => ByQueue[n]' = ByQueue[n]
      BY <1>4 DEF ByQueue, AcceptFromQueue, TypeOK
    <3> QED
      BY <3>1, <3>2 DEF ByQueue
  <2>4. Lifecycle!HandOver(m, i)
    BY <1>4, <2>1, <2>2, <2>3 DEF Lifecycle!HandOver, Status, ByQueue, ByRpc
  <2> QED
    BY <2>4 DEF Lifecycle!Next
<1>5. ASSUME NEW m \in Mails, m = job[i], SetStatus(i) PROVE Lifecycle!Next
  <2>1. Lifecycle!UnderWay(m) /\ Present(m)
    BY <1>5, HandlingMaps DEF SetStatus, Handling
  <2>2. NewStatus(i) = "sent" => i \in ByQueue[m]
    BY <1>5 DEF SetStatus, NewStatus, Attempts, Holds, ByQueue
  <2>3. /\ rows'[m].status = NewStatus(i) /\ NewStatus(i) \in {"sent", "failed"}
        /\ \A n \in Mails : n # m => rows'[n] = rows[n]
        /\ UNCHANGED <<fromQueue, fromRpc>>
    BY <1>5, <2>1, SetMailStatusType
    DEF SetStatus, NewStatus, MailStatus, TypeOK, serviceVars
  <2>4. PICK s : s = NewStatus(i)
    OBVIOUS
  <2>6. Lifecycle!Become(m, s)
    BY <2>3, <2>4, StatusMaps
  <2>5. Lifecycle!MarkSent(m) \/ Lifecycle!MarkFailed(m)
    BY <2>1, <2>2, <2>3, <2>4, <2>6 DEF Lifecycle!MarkSent, Lifecycle!MarkFailed, ByQueue
  <2> QED
    BY <2>5 DEF Lifecycle!Next
<1>6. CASE PopUpdate(i) \/ PopError(i)
  BY <1>1, <1>3, <1>6 DEF PopUpdate, PopError, serviceVars
<1>7. CASE TransmitAccepted(i) \/ TransmitError(i)
  BY <1>1, <1>4, <1>7 DEF TransmitAccepted, TransmitError, tableVars
<1>8. CASE SetStatus(i)
  BY <1>5, <1>8 DEF SetStatus
<1> QED
  BY <1>1, <1>2, <1>6, <1>7, <1>8
  DEF QueueStep, DispatcherStep, DispatcherFault, DeleterStep, PopRead, PopEmpty,
      TransmitPanic, SetStatusError, NextCheck, DispatcherExit, DeleteError, NextDelete,
      tableVars, serviceVars

LEMMA HandlerStepMaps ==
  ASSUME IInv, TypeOK', NEW m \in Mails, HandlerStep(m)
  PROVE  [Lifecycle!Next]_Mapped
<1> USE DEF IInv
<1>1. CASE UNCHANGED <<rows, fromQueue, fromRpc>>
  BY <1>1, StutterMaps
<1>2. ASSUME rpc[m] = "insert", CreateMail(m, "submitted"), UNCHANGED <<fromQueue, fromRpc>>
      PROVE  Lifecycle!Next
  <2>1. Lifecycle!New(m)
    BY <1>2, NewMaps DEF Routes, Present
  <2>2. Lifecycle!Become(m, "submitted")
    BY <1>2, StatusMaps DEF CreateMail, TypeOK
  <2> QED
    BY <2>1, <2>2 DEF Lifecycle!Next, Lifecycle!Submit
<1>3. ASSUME rpc[m] = "transmit", AcceptFromRpc(m), UNCHANGED <<rows, fromQueue>>
      PROVE  Lifecycle!Next
  <2>1. Lifecycle!New(m)
    BY <1>3, NewMaps DEF Routes, Present
  <2>2. ByRpc' = ByRpc \cup {m}
    BY <1>3 DEF AcceptFromRpc, TypeOK, ByRpc
  <2>3. Lifecycle!SendDirectly(m)
    BY <1>3, <2>1, <2>2 DEF Lifecycle!SendDirectly, Status, ByQueue, ByRpc
  <2> QED
    BY <2>3 DEF Lifecycle!Next
<1>4. ASSUME rpc[m] = "record", CreateMail(m, "sent"), UNCHANGED <<fromQueue, fromRpc>>
      PROVE  Lifecycle!Next
  <2>1. rows[m].status = "absent" /\ fromRpc[m] > 0
    BY <1>4 DEF Routes, Present, TypeOK
  <2>2. Lifecycle!Become(m, "sent")
    BY <1>4, StatusMaps DEF CreateMail, TypeOK
  <2> QED
    BY <2>1, <2>2 DEF Lifecycle!Next, Lifecycle!Record
<1> QED
  BY <1>1, <1>2, <1>3, <1>4
  DEF HandlerStep, Receive, Reject, LogOnly, Accept, RpcStep, RpcFault, QueueInsert,
      QueueInsertError, SendTransmit, SendTransmitError, SendRecord, SendRecordError,
      At, tableVars, serviceVars

LEMMA StepMaps ==
  ASSUME IInv, TypeOK', Undivided, [Next]_vars
  PROVE  [Lifecycle!Next]_Mapped
<1>1. CASE UNCHANGED <<rows, fromQueue, fromRpc>>
  BY <1>1, StutterMaps
<1>2. CASE \E i \in Instances : InstanceStep(i)
  BY <1>1, <1>2 DEF InstanceStep, Shutdown, GracefulStop, Stopped, Crash, PanicExit, End, Start, tableVars
<1> QED
  BY <1>1, <1>2, QueueStepMaps, HandlerStepMaps
  DEF Next, ClockStep, Tick, vars, tableVars, serviceVars

LEMMA InitMaps == Init => Lifecycle!Init
<1> SUFFICES ASSUME Init PROVE Lifecycle!Init
  OBVIOUS
<1>1. \A m \in Mails : rows[m].status = "absent"
  BY DEF Init, TableInit, NoRow
<1>2. \A m \in Mails : fromRpc[m] = 0 /\ \A i \in Instances : fromQueue[i][m] = 0
  BY DEF Init, ServiceInit
<1>3. ByRpc = {} /\ \A m \in Mails : {i \in Instances : fromQueue[i][m] > 0} = {}
  BY <1>2 DEF ByRpc
<1> QED
  BY <1>1, <1>3 DEF ByRpc, Lifecycle!Init

(* However many instances share the database, all of the service --        *)
(* handlers, dispatchers, deleters, crashes, shutdowns and restarts -- is  *)
(* MailLifecycle when looked at through the status of the rows and what    *)
(* the backend got from whom.  With one instance, MailLifecycle leaves     *)
(* nothing to a race.                                                      *)
THEOREM ImplementsLifecycle == Spec => FollowsLifecycle
<1>1. Init => Undivided
  BY DEF Init, DispatcherInit, DispatcherStart, Undivided, Exclusive, Holds, Handling
<1>2. IInv /\ IInv' /\ Undivided /\ [Next]_vars => Undivided'
  BY ExclusiveNext DEF IInv, Undivided, SingleInstance
<1>3. IInv /\ IInv' /\ Undivided /\ [Next]_vars => [Lifecycle!Next]_Mapped
  BY StepMaps DEF IInv
<1>4. [Lifecycle!Next]_Mapped => [Lifecycle!Next]_(Lifecycle!lifecycleVars)
  BY DEF Mapped, Status, ByQueue, ByRpc, Lifecycle!lifecycleVars
<1> QED
  BY <1>1, <1>2, <1>3, <1>4, InitMaps, Invariance, PTL
  DEF Spec, FollowsLifecycle, Lifecycle!Spec

=============================================================================
