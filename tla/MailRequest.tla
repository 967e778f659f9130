----------------------------- MODULE MailRequest -----------------------------
(***************************************************************************)
(* The Mail message of the API: how the proxy builds it                    *)
(* (internal/smtp-proxy/grpc.go) and how the server makes a mail of it     *)
(* (internal/grpcservers/mailer.go).                                       *)
(*                                                                         *)
(* A request has the tree of its parts, with the body itself as the root,  *)
(* or a simple mail, and then of the tree only the type of the root.  A    *)
(* list that comes over the wire has no nil in it.                         *)
(***************************************************************************)
EXTENDS Mime

NoType == [major |-> "none", lower |-> TRUE, charset |-> "none", boundary |-> "none",
           params |-> "ascii"]
TextPlain == [NoType EXCEPT !.major = "text", !.charset = "utf-8"]
TextHtml == [NoType EXCEPT !.major = "html", !.charset = "utf-8"]
OctetStream == [NoType EXCEPT !.major = "other"]
MultipartMixed == [NoType EXCEPT !.major = "multipart"]   \* and multipart/alternative

(* body_oneof of the root, content_oneof of the parts.                     *)
OneOf == {"content", "bytes", "nested", "unset"}

PartFields == [oneof: OneOf, type: TypeFields, header: HeaderKinds, content: ContentFields]

(* The file name, content id and disposition of an attachment are read by  *)
(* nobody.                                                                 *)
AttachmentFields == [type: TypeFields, content: ContentFields]

(* What is optional is a set, of one element or none.                      *)
SimpleFields == [plain: SUBSET ContentFields, html: SUBSET ContentFields,
                 attachments: Seq(AttachmentFields)]

NoTree == [p \in {<<>>} |-> [oneof |-> "unset", type |-> NoType, header |-> "none",
                             content |-> Empty]]

-----------------------------------------------------------------------------
(* Mutant: every content is sent as a string.                              *)
OneOfKindString(kind) == IF kind = "multipart" THEN "nested" ELSE "content"

OneOfKind(kind) ==
  CASE kind = "text" -> "content" [] kind = "binary" -> "bytes" [] kind = "multipart" -> "nested"

(* buildGrpcRequestFromMail.  Message-ID and Date stay behind.             *)
BuildGrpcRequest(m) ==
  [form |-> "parts", addr |-> m.addr, subject |-> m.subject, extra |-> m.extra,
   simple |-> [plain |-> {}, html |-> {}, attachments |-> <<>>],
   body |-> [p \in DOMAIN m.body |->
               [oneof |-> OneOfKind(m.body[p].kind), type |-> m.body[p].type,
                header |-> m.body[p].header, content |-> m.body[p].content]]]

(* The strings of a request are UTF-8, or the call fails where it is made. *)
Marshals(r) ==
  /\ r.subject # "raw8" /\ r.extra # "raw8"
  /\ \A p \in DOMAIN r.body :
       /\ r.body[p].type.params # "raw8" /\ r.body[p].header # "raw8"
       /\ r.body[p].oneof = "content" => ValidUtf8(r.body[p].content)

-----------------------------------------------------------------------------
(* Mutant: it is not looked whether an address can be read when printed.   *)
TransformsUnchecked(addr) == addr \in {"plain", "funny"}

(* transformAddressFormatsToPlainAddress: no user ids, no address that is  *)
(* spelled with a name, and none that is not read back as it is printed.   *)
Transforms(addr) == addr = "plain"

ExtraHeadersPass(extra) == extra \notin {"badKey", "reserved"}

DefaultType(oneof) ==
  CASE oneof = "content" -> TextPlain
    [] oneof = "bytes" -> OctetStream
    [] oneof = "nested" -> MultipartMixed
    [] OTHER -> NoType

KindOf(oneof) ==
  CASE oneof = "content" -> "text" [] oneof = "bytes" -> "binary"
    [] oneof = "nested" -> "multipart" [] OTHER -> "nil"

TransformPart(n) ==
  [kind |-> KindOf(n.oneof), header |-> n.header, content |-> n.content,
   type |-> IF n.type.major = "none" THEN DefaultType(n.oneof) ELSE n.type]

PartsTransform(r) ==
  /\ r.body[<<>>].type.major # "bad"
  /\ \A p \in DOMAIN r.body : r.body[p].oneof # "unset" /\ r.body[p].header # "badKey"

-----------------------------------------------------------------------------
Leaf(kind, type, c) == [kind |-> kind, type |-> type, header |-> "none", content |-> c]

Multipart == Leaf("multipart", MultipartMixed, Empty)

(* The text of a simple mail: plain, HTML, or the two as alternatives.     *)
SimpleText(s) ==
  LET plain == Leaf("text", TextPlain, CHOOSE c \in s.plain : TRUE)
      html == Leaf("text", TextHtml, CHOOSE c \in s.html : TRUE)
  IN  CASE s.html = {} -> [p \in {<<>>} |-> plain]
        [] s.html # {} /\ s.plain = {} -> [p \in {<<>>} |-> html]
        [] OTHER -> [p \in {<<>>, <<1>>, <<2>>} |->
                       CASE p = <<>> -> Multipart [] p = <<1>> -> plain [] OTHER -> html]

Attachment(a) ==
  Leaf("binary", IF a.type.major = "none" THEN OctetStream ELSE a.type, a.content)

SimpleTree(s) ==
  LET text == SimpleText(s)
      attached == {<<i + 1>> : i \in DOMAIN s.attachments}
      texts == {<<1>> \o p : p \in DOMAIN text}
  IN  IF s.attachments = <<>> THEN text
      ELSE [p \in {<<>>} \cup texts \cup attached |->
              CASE p = <<>> -> Multipart
                [] p \in texts -> text[Tail(p)]
                [] OTHER -> Attachment(s.attachments[p[1] - 1])]

-----------------------------------------------------------------------------
Transformable(r) ==
  /\ Transforms(r.addr) /\ ExtraHeadersPass(r.extra)
  /\ CASE r.form = "simple" -> /\ r.body[<<>>].type.major = "none"
                               /\ r.simple.plain \cup r.simple.html # {}
       [] r.form = "parts" -> PartsTransform(r)

(* The list of headers is checked and stays empty.                         *)
Transformed(r) ==
  [addr |-> r.addr, subject |-> r.subject, extra |-> "none",
   body |-> IF r.form = "simple" THEN SimpleTree(r.simple)
            ELSE [p \in DOMAIN r.body |-> TransformPart(r.body[p])]]

PbMailAccepted(r) == Transformable(r) /\ ValidateMail(Transformed(r))
=============================================================================
