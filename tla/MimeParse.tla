------------------------------ MODULE MimeParse ------------------------------
(***************************************************************************)
(* pkg/smtpserver/server.go: the body of a mail from the message that came *)
(* over SMTP.  A message (entity) is a tree as in Mime; its nodes have the *)
(* content as its sender means it and the encoding it was sent in.         *)
(***************************************************************************)
EXTENDS Mime

EntityNodeFields ==
  [type: TypeFields, header: HeaderKinds, content: ContentFields,
   encoding: {"identity", "quoted-printable", "base64", "broken"}]

(* decodeText.  The code knows the charset of the label only.              *)
DecodeText(n) ==
  IF Parses(n.type) /\ n.type.charset = "latin-1"
  THEN [n.content EXCEPT !.coding = "utf-8"] ELSE n.content

(* A part without a type, or with one that does not parse, is text.        *)
IsText(n) == n.type.major \in {"text", "html", "none", "bad"}

(* The reader of the parts decodes quoted-printable and hides that it did. *)
Decoded(isRoot) == IF isRoot THEN {"identity"} ELSE {"identity", "quoted-printable"}

ParseFails(n, isRoot) ==
  IF n.type.major = "multipart"
  THEN n.encoding \notin Decoded(isRoot) \/ n.type.boundary = "none"
  ELSE n.encoding = "broken"

ParseText(n) ==
  LET text == DecodeText(n)
  IN  IF ValidUtf8(text)
      THEN [kind |-> "text",
            content |-> IF text.eol = "crlf" THEN [text EXCEPT !.eol = "lf"] ELSE text]
      ELSE [kind |-> "binary", content |-> n.content]

ParseBody(n) ==
  CASE n.type.major = "multipart" -> [kind |-> "multipart", content |-> Empty]
    [] IsText(n) -> ParseText(n)
    [] OTHER -> [kind |-> "binary", content |-> n.content]

DecodeHeader(h) == IF h = "encoded" THEN "utf8" ELSE h

ParsePart(n, isRoot) ==
  [kind |-> ParseBody(n).kind, content |-> ParseBody(n).content, type |-> n.type,
   header |-> IF isRoot THEN "none" ELSE DecodeHeader(n.header)]

(* Without a Mime-Version the body is taken as it is.  Extra headers are   *)
(* collected and left behind.                                              *)
ParseMessage(e) ==
  [addr |-> e.addr, subject |-> DecodeHeader(e.subject), extra |-> "none",
   body |-> IF e.mimeVersion
            THEN [p \in DOMAIN e.body |-> ParsePart(e.body[p], p = <<>>)]
            ELSE [p \in {<<>>} |-> [kind |-> "binary", type |-> e.body[<<>>].type, header |-> "none",
                           content |-> e.body[<<>>].content]]]

(* A head with a NUL in it is not read.                                    *)
MessageParses(e) ==
  /\ \A p \in DOMAIN e.body : e.body[p].type.params # "nul"
  /\ e.mimeVersion => \A p \in DOMAIN e.body : ~ParseFails(e.body[p], p = <<>>)
=============================================================================
