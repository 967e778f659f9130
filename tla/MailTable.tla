------------------------------ MODULE MailTable ------------------------------
(***************************************************************************)
(* The table `mails` in PostgreSQL and the statements of                   *)
(* sql/queries/mail.sql, which are all the service ever runs against it.   *)
(*                                                                         *)
(* A row is the pair of columns the statements read: the status and        *)
(* processed_at.  The content columns never change after the insert.  A    *)
(* row is named by its message: every accepted request has a fresh UUID    *)
(* as message id and inserts at most one row.                              *)
(*                                                                         *)
(* `now` is the clock of the database server, in units of half an hour or  *)
(* less; only that it never runs backwards matters.                        *)
(***************************************************************************)
EXTENDS Integers

CONSTANTS
  Mails,          \* the messages, and the primary keys of their rows
  RetryInterval,  \* retryFailedIntervalMicroseconds
  KeepInterval,   \* keepMailsForIntervalDays
  MaxTime         \* bound: the clock stops here

ASSUME IntervalAssumption ==
  RetryInterval \in Nat /\ KeepInterval \in Nat /\ MaxTime \in Nat

VARIABLES rows, now

tableVars == <<rows, now>>

MailStatus == {"submitted", "processing", "failed", "sent"}
Null == -1        \* processed_at IS NULL

NoRow == [status |-> "absent", processedAt |-> Null]
Row == [status: MailStatus \cup {"absent"}, processedAt: Nat \cup {Null}]

Present(m) == rows[m].status # "absent"

TableInit ==
  /\ rows = [m \in Mails |-> NoRow]
  /\ now = 0

-----------------------------------------------------------------------------
(* Mutant: the age of the row instead, NOW() - processed_at > interval.    *)
OlderThan(row, t, interval) ==
  row.processedAt # Null /\ t - row.processedAt > interval

(* `processed_at - NOW() > interval`: NULL makes the comparison unknown,   *)
(* which a WHERE clause treats as false.                                   *)
LaterThan(row, t, interval) ==
  row.processedAt # Null /\ row.processedAt - t > interval

(* The WHERE clause of PopMailForProcessing, in a statement started at t.  *)
Poppable(row, t) ==
  \/ row.status = "submitted"
  \/ row.status \in {"failed", "processing"} /\ LaterThan(row, t, RetryInterval)

(* The rows the subquery of PopMailForProcessing may return: LIMIT 1       *)
(* without ORDER BY, so any of them.                                       *)
Candidates == {m \in Mails : Poppable(rows[m], now)}

(* Its UPDATE.  It joins on the id alone: a row that changed since the     *)
(* subquery read it is updated all the same, a deleted one is not.         *)
ClaimRow(m, t) ==
  rows' = IF Present(m)
            THEN [rows EXCEPT ![m] = [status |-> "processing", processedAt |-> t]]
            ELSE rows

SetMailStatus(m, status) ==
  rows' = IF Present(m) THEN [rows EXCEPT ![m].status = status] ELSE rows

(* processed_at is not among the inserted columns.                         *)
CreateMail(m, status) ==
  rows' = [rows EXCEPT ![m] = [status |-> status, processedAt |-> Null]]

Expired(row, t) == row.status = "sent" /\ LaterThan(row, t, KeepInterval)

DeleteExpired ==
  rows' = [m \in Mails |-> IF Expired(rows[m], now) THEN NoRow ELSE rows[m]]

Tick ==
  /\ now < MaxTime
  /\ now' = now + 1
  /\ UNCHANGED rows
=============================================================================
