------------------------------- MODULE MailRow -------------------------------
(***************************************************************************)
(* internal/database/mail.go: a mail as a row of the table and back.  The  *)
(* row does not say which kind a part is of: that is read off the fields   *)
(* that are not empty.                                                     *)
(***************************************************************************)
EXTENDS Mime

RowNode(n, isRoot) ==
  [type |-> n.type,
   header |-> IF isRoot THEN "none" ELSE n.header,
   text |-> IF n.kind = "text" THEN n.content ELSE Empty,
   data |-> IF n.kind = "binary" THEN n.content ELSE Empty]

MailToDBEntity(m) ==
  [addr |-> m.addr, subject |-> m.subject, extra |-> m.extra,
   body |-> [p \in DOMAIN m.body |-> RowNode(m.body[p], p = <<>>)]]

(* Mutant: data is looked for before text and found where it is empty.     *)
KindDataFirst(r, hasChildren) == IF hasChildren THEN "multipart" ELSE "binary"

Kind(r, hasChildren) ==
  CASE hasChildren -> "multipart"
    [] ~hasChildren /\ r.text.size # "empty" -> "text"
    [] ~hasChildren /\ r.text.size = "empty" /\ r.data.size # "empty" -> "binary"
    [] OTHER -> "nil"

PartFromRow(r, hasChildren) ==
  LET kind == Kind(r, hasChildren)
  IN  [kind |-> kind, type |-> r.type, header |-> r.header,
       content |-> CASE kind = "text" -> r.text
                     [] kind = "binary" -> r.data
                     [] OTHER -> Empty]

DBEntityToMail(row) ==
  [addr |-> row.addr, subject |-> row.subject, extra |-> row.extra,
   body |-> [p \in DOMAIN row.body |-> PartFromRow(row.body[p], HasChildren(row.body, p))]]

(* The column is JSONB, which has no NUL in its strings.                   *)
Storable(row) ==
  \A p \in DOMAIN row.body :
    row.body[p].text.controls # "nul" /\ row.body[p].type.params # "nul"

(* Addresses are stored as they are printed, and parsed again.             *)
Loadable(row) == row.addr # "funny"
=============================================================================
