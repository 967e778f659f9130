------------------------------ MODULE Dispatcher ------------------------------
(***************************************************************************)
(* internal/dispatcher/queuehandler.go: the two goroutines every instance  *)
(* runs beside its gRPC server.  HandleMailQueue empties the queue one     *)
(* mail at a time, DeleteOldMails removes old rows every hour.             *)
(*                                                                         *)
(* A statement that reads and then writes under READ COMMITTED is two      *)
(* steps, since another instance can commit in between: PopRead is the     *)
(* subquery of PopMailForProcessing, PopUpdate its UPDATE.                 *)
(***************************************************************************)
EXTENDS Service

CONSTANTS
  EmptyBodies,   \* mails whose body is read back from the database as nil
  NoMail

ASSUME DispatcherAssumption == EmptyBodies \subseteq Mails /\ NoMail \notin Mails

VARIABLES
  pc,        \* where HandleMailQueue is
  job,       \* the mail of the pop or of popAndHandleMail under way
  popAt,     \* NOW() of the pop under way
  outcome,   \* `status` of popAndHandleMail, or "panic"
  deleter    \* where DeleteOldMails is

DispatcherPc == {"off", "poll", "popping", "transmit", "setStatus", "wait",
                 "panicked", "exited"}
Outcome == {"none", "sent", "failed", "panic"}
DeleterPc == {"off", "delete", "wait", "exited"}

dispatcherVars == <<pc, job, popAt, outcome, deleter>>

(* HandleNotificationsAPI starts neither goroutine in logging-only mode.   *)
DispatcherStart == IF LoggingOnly THEN "off" ELSE "poll"
DeleterStart == IF LoggingOnly THEN "off" ELSE "delete"

DispatcherInit ==
  /\ pc = [i \in Instances |-> DispatcherStart]
  /\ job = [i \in Instances |-> NoMail]
  /\ popAt = [i \in Instances |-> 0]
  /\ outcome = [i \in Instances |-> "none"]
  /\ deleter = [i \in Instances |-> DeleterStart]

(* popAndHandleMail returns and its locals are gone.                       *)
Return(i, next) ==
  /\ pc' = [pc EXCEPT ![i] = next]
  /\ job' = [job EXCEPT ![i] = NoMail]
  /\ popAt' = [popAt EXCEPT ![i] = 0]
  /\ outcome' = [outcome EXCEPT ![i] = "none"]

(* i has the mail m in popAndHandleMail, past the pop.                     *)
Handling(i, m) == pc[i] \in {"transmit", "setStatus"} /\ job[i] = m

-----------------------------------------------------------------------------
PopRead(i) ==
  /\ pc[i] = "poll" /\ life[i] = "up"
  /\ \E m \in Candidates :
       /\ job' = [job EXCEPT ![i] = m]
       /\ popAt' = [popAt EXCEPT ![i] = now]
       /\ pc' = [pc EXCEPT ![i] = "popping"]
  /\ UNCHANGED <<tableVars, serviceVars, outcome, deleter>>

PopEmpty(i) ==
  /\ pc[i] = "poll" /\ life[i] = "up"
  /\ Candidates = {}
  /\ Return(i, "wait")
  /\ UNCHANGED <<tableVars, serviceVars, deleter>>

(* A row that was deleted in between is not returned: the queue looks empty. *)
PopUpdate(i) ==
  /\ pc[i] = "popping" /\ Running(i)
  /\ ClaimRow(job[i], popAt[i])
  /\ IF Present(job[i])
       THEN /\ pc' = [pc EXCEPT ![i] = "transmit"]
            /\ UNCHANGED <<job, popAt, outcome>>
       ELSE Return(i, "wait")
  /\ UNCHANGED <<now, serviceVars, deleter>>

(* The pop returns an error, before the UPDATE or after its commit.        *)
PopError(i) ==
  /\ pc[i] \in {"poll", "popping"} /\ Running(i)
  /\ CallFails(i)
  /\ \/ UNCHANGED rows
     \/ pc[i] = "popping" /\ ClaimRow(job[i], popAt[i])
  /\ Return(i, "wait")
  /\ UNCHANGED <<now, life, fromQueue, fromRpc, deleter>>

-----------------------------------------------------------------------------
TransmitAccepted(i) ==
  /\ pc[i] = "transmit" /\ Running(i)
  /\ job[i] \notin EmptyBodies
  /\ AcceptFromQueue(i, job[i])
  /\ outcome' = [outcome EXCEPT ![i] = "sent"]
  /\ pc' = [pc EXCEPT ![i] = "setStatus"]
  /\ UNCHANGED <<tableVars, life, disruptions, fromRpc, job, popAt, deleter>>

(* DBEntityToMail or TransmitMail returns an error.  The backend may have  *)
(* taken the mail all the same, when only its reply was lost.              *)
TransmitError(i) ==
  /\ pc[i] = "transmit" /\ Running(i)
  /\ CallFails(i)
  /\ \/ UNCHANGED fromQueue
     \/ job[i] \notin EmptyBodies /\ AcceptFromQueue(i, job[i])
  /\ outcome' = [outcome EXCEPT ![i] = "failed"]
  /\ pc' = [pc EXCEPT ![i] = "setStatus"]
  /\ UNCHANGED <<tableVars, life, fromRpc, job, popAt, deleter>>

(* Mutant: a panic leaves popAndHandleMail without a deferred function.    *)
TransmitPanicNoDefer(i) ==
  /\ pc[i] = "transmit" /\ Running(i)
  /\ job[i] \in EmptyBodies
  /\ Return(i, "panicked")
  /\ UNCHANGED <<tableVars, serviceVars, deleter>>

(* ValidateMail calls a method of the nil body.  The deferred function of  *)
(* popAndHandleMail still runs.                                            *)
TransmitPanic(i) ==
  /\ pc[i] = "transmit" /\ Running(i)
  /\ job[i] \in EmptyBodies
  /\ outcome' = [outcome EXCEPT ![i] = "panic"]
  /\ pc' = [pc EXCEPT ![i] = "setStatus"]
  /\ UNCHANGED <<tableVars, serviceVars, job, popAt, deleter>>

-----------------------------------------------------------------------------
(* Mutant: HandleMailQueue returns on an error instead of waiting.         *)
AfterStatusReturn(i) == IF outcome[i] = "sent" THEN "poll" ELSE "exited"

(* After a mail was sent the inner loop goes on at once; after a failure   *)
(* the outer loop waits for the next tick; a panic ends the process.       *)
AfterStatus(i) ==
  CASE outcome[i] = "sent"   -> "poll"
    [] outcome[i] = "failed" -> "wait"
    [] outcome[i] = "panic"  -> "panicked"

(* Mutants: `status` starts as Sent; a failed mail is queued again; the    *)
(* result of the attempt is written as it is.                              *)
NewStatusSent(i) == "sent"
NewStatusRequeue(i) == IF outcome[i] = "sent" THEN "sent" ELSE "submitted"
NewStatusRaw(i) == outcome[i]

(* `status` starts as Failed and is set to Sent at the very end.           *)
NewStatus(i) == IF outcome[i] = "sent" THEN "sent" ELSE "failed"

(* The deferred SetMailStatus.                                             *)
SetStatus(i) ==
  /\ pc[i] = "setStatus" /\ life[i] = "up"
  /\ SetMailStatus(job[i], NewStatus(i))
  /\ Return(i, AfterStatus(i))
  /\ UNCHANGED <<now, serviceVars, deleter>>

(* Its error is assigned to a variable nobody reads: the loop goes on as   *)
(* if the status had been written.                                         *)
SetStatusError(i) ==
  /\ pc[i] = "setStatus" /\ Running(i)
  /\ CallFails(i)
  /\ Return(i, AfterStatus(i))
  /\ UNCHANGED <<tableVars, life, fromQueue, fromRpc, deleter>>

(* The select at the end of the outer loop.                                *)
NextCheck(i) ==
  /\ pc[i] = "wait" /\ life[i] = "up"
  /\ Return(i, "poll")
  /\ UNCHANGED <<tableVars, serviceVars, deleter>>

(* Mutant: the select ignores ctx.Done.                                    *)
DispatcherExitPolls(i) ==
  /\ pc[i] = "wait" /\ Cancelled(i)
  /\ Return(i, "poll")
  /\ UNCHANGED <<tableVars, serviceVars, deleter>>

DispatcherExit(i) ==
  /\ pc[i] = "wait" /\ Cancelled(i)
  /\ Return(i, "exited")
  /\ UNCHANGED <<tableVars, serviceVars, deleter>>

-----------------------------------------------------------------------------
DeleteOldMails(i) ==
  /\ deleter[i] = "delete" /\ life[i] = "up"
  /\ DeleteExpired
  /\ deleter' = [deleter EXCEPT ![i] = "wait"]
  /\ UNCHANGED <<now, serviceVars, pc, job, popAt, outcome>>

DeleteError(i) ==
  /\ deleter[i] = "delete" /\ Running(i)
  /\ CallFails(i)
  /\ deleter' = [deleter EXCEPT ![i] = "wait"]
  /\ UNCHANGED <<tableVars, life, fromQueue, fromRpc, pc, job, popAt, outcome>>

NextDelete(i) ==
  /\ deleter[i] = "wait" /\ Running(i)
  /\ deleter' = [deleter EXCEPT ![i] =
                   IF life[i] = "up" THEN "delete" ELSE "exited"]
  /\ UNCHANGED <<tableVars, serviceVars, pc, job, popAt, outcome>>

-----------------------------------------------------------------------------
(* The steps the Go runtime and a working environment bring about; with    *)
(* the context cancelled, the calls that get it cannot but fail.           *)
DispatcherStep(i) ==
  \/ PopRead(i) \/ PopEmpty(i) \/ PopUpdate(i)
  \/ TransmitAccepted(i) \/ TransmitPanic(i)
  \/ SetStatus(i)
  \/ NextCheck(i) \/ DispatcherExit(i)

DispatcherFault(i) == PopError(i) \/ TransmitError(i) \/ SetStatusError(i)

DeleterStep(i) == DeleteOldMails(i) \/ NextDelete(i)

DispatcherProgress(i) ==
  DispatcherStep(i) \/ (Cancelled(i) /\ DispatcherFault(i))

DeleterProgress(i) ==
  DeleterStep(i) \/ (Cancelled(i) /\ DeleteError(i))
=============================================================================
