------------------------------ MODULE MailBody ------------------------------
(***************************************************************************)
(* A mail on its way from the client to the mail server, through every     *)
(* form the code gives it: the message sent over SMTP, the mail the proxy  *)
(* parses, the request of the API, the mail the server makes of it, the    *)
(* row it is stored in and the mail read from that, and the message that   *)
(* goes out, which depends on what the mail server supports.               *)
(***************************************************************************)
EXTENDS MimeParse, MailRequest, MailRow

CONSTANTS
  Entities,   \* messages clients send over SMTP
  Requests    \* requests clients make of the API

(* Multipart nodes have no content, others no children, and a type that is *)
(* not there no parameters; without a MIME version there is one part.      *)
(* Labels of text are right where given, and ASCII needs none.             *)
WellFormed(e) ==
  /\ IsTree(e.body, EntityNodeFields)
  /\ e.addr \in {"plain", "funny"}   \* as they come over SMTP
  /\ e.subject \in HeaderKinds
  /\ \A p \in DOMAIN e.body :
       LET n == e.body[p]
       IN  /\ n.content.ascii => n.content.coding = "utf-8"
           /\ ~n.content.ascii /\ n.type.charset # "none" => n.content.coding = n.type.charset
           /\ n.type.major = "none" => n.type = NoType
           /\ HasChildren(e.body, p) => n.type.major = "multipart"
           /\ e.mimeVersion /\ n.type.major = "multipart" => n.content = Empty
  /\ e.mimeVersion \/ (DOMAIN e.body = {<<>>} /\ e.body[<<>>].encoding = "identity")

RequestWellFormed(r) ==
  /\ IsTree(r.body, PartFields) /\ r.body[<<>>].header = "none"
  /\ \A p \in DOMAIN r.body :
       /\ HasChildren(r.body, p) => r.body[p].oneof = "nested"
       /\ r.body[p].oneof = "nested" => r.body[p].content = Empty
       /\ r.body[p].type.major = "none" => r.body[p].type = NoType
  /\ Marshals(r) /\ r.subject \in HeaderKinds
  /\ r.simple \in SimpleFields
  /\ \A i \in DOMAIN r.simple.attachments :
       LET type == r.simple.attachments[i].type
       IN  type.params # "raw8" /\ (type.major = "none" => type = NoType)
  /\ \A c, d \in r.simple.plain : c = d
  /\ \A c, d \in r.simple.html : c = d
  /\ \A c \in r.simple.plain \cup r.simple.html : ValidUtf8(c)

ASSUME MailBodyAssumption ==
  /\ \A e \in Entities : WellFormed(e)
  /\ \A r \in Requests : r.form \in {"parts", "simple"} /\ RequestWellFormed(r)

VARIABLES
  phase,     \* how far the mail is
  route,     \* "smtp" or "grpc"
  entity,    \* the message sent over SMTP
  request,   \* the request of the API
  mail,      \* the mail as the mailer package has it
  row,       \* the row it is stored in
  wire       \* the message that goes out, and whether as 8bit

vars == <<phase, route, entity, request, mail, row, wire>>

None == [body |-> <<>>]

Init ==
  /\ mail = None /\ row = None /\ wire = None
  /\ \/ route = "smtp" /\ phase = "sent" /\ entity \in Entities /\ request = None
     \/ route = "grpc" /\ phase = "requested" /\ entity = None /\ request \in Requests

-----------------------------------------------------------------------------
Is(p) == phase = p
Becomes(p) == phase' = p

(* Data of server.go: parse and validate.                                  *)
Parse ==
  /\ Is("sent") /\ MessageParses(entity)
  /\ LET m == ParseMessage(entity)
     IN  ValidateMail(m) /\ mail' = m
  /\ Becomes("parsed")
  /\ UNCHANGED <<route, entity, request, row, wire>>

Refuse ==
  /\ Is("sent")
  /\ MessageParses(entity) => ~ValidateMail(ParseMessage(entity))
  /\ Becomes("refused")
  /\ UNCHANGED <<route, entity, request, mail, row, wire>>

(* The call of the API.                                                    *)
Ask ==
  /\ Is("parsed") /\ Marshals(BuildGrpcRequest(mail))
  /\ request' = BuildGrpcRequest(mail)
  /\ Becomes("requested")
  /\ UNCHANGED <<route, entity, mail, row, wire>>

AskFails ==
  /\ Is("parsed") /\ ~Marshals(BuildGrpcRequest(mail))
  /\ Becomes("unmarshalled")
  /\ UNCHANGED <<route, entity, request, mail, row, wire>>

(* pbMailToValidatedMail.                                                  *)
Accept ==
  /\ Is("requested") /\ PbMailAccepted(request)
  /\ mail' = Transformed(request)
  /\ Becomes("accepted")
  /\ UNCHANGED <<route, entity, request, row, wire>>

Reject ==
  /\ Is("requested") /\ ~PbMailAccepted(request)
  /\ Becomes("rejected")
  /\ UNCHANGED <<route, entity, request, mail, row, wire>>

-----------------------------------------------------------------------------
(* QueueMail stores the mail, SendMail goes on to Transmit.                *)
Store ==
  /\ Is("accepted") /\ Storable(MailToDBEntity(mail))
  /\ row' = MailToDBEntity(mail)
  /\ Becomes("stored")
  /\ UNCHANGED <<route, entity, request, mail, wire>>

StoreFails ==
  /\ Is("accepted") /\ ~Storable(MailToDBEntity(mail))
  /\ Becomes("unstorable")
  /\ UNCHANGED <<route, entity, request, mail, row, wire>>

Load ==
  /\ Is("stored")
  /\ IF Loadable(row) THEN mail' = DBEntityToMail(row) /\ Becomes("loaded")
                      ELSE mail' = mail /\ Becomes("unloadable")
  /\ UNCHANGED <<route, entity, request, row, wire>>

Ready == phase \in {"accepted", "loaded"}

Transmit(has8BitMimeSupport) ==
  /\ Ready /\ ~Panics(mail.body) /\ ValidateMail(mail)
  /\ wire' = [message |-> GetInternetMessageFormat(mail, has8BitMimeSupport),
              has8Bit |-> has8BitMimeSupport]
  /\ Becomes("out")
  /\ UNCHANGED <<route, entity, request, mail, row>>

TransmitFails ==
  /\ Ready
  /\ Panics(mail.body) \/ ~ValidateMail(mail)
  /\ phase' = IF Panics(mail.body) THEN "panicked" ELSE "invalid"
  /\ UNCHANGED <<route, entity, request, mail, row, wire>>

Over ==
  /\ phase \in {"refused", "unmarshalled", "rejected", "unstorable", "unloadable",
                "out", "panicked", "invalid"}
  /\ UNCHANGED vars

Next ==
  \/ Parse \/ Refuse \/ Ask \/ AskFails \/ Accept \/ Reject
  \/ Store \/ StoreFails \/ Load
  \/ \E has8BitMimeSupport \in BOOLEAN : Transmit(has8BitMimeSupport)
  \/ TransmitFails
  \/ Over

Spec == Init /\ [][Next]_vars

-----------------------------------------------------------------------------
Out == phase = "out"

(* What the client meant to send, part by part.                            *)
Client == IF route = "smtp" THEN entity ELSE request
Meant == Client.body

Parts == wire.message.body   \* that go out

(* part.go:45, encoding.go:49-51: what holds parts or a message of its own *)
(* goes out as it is, in every step from its acceptance on, if its type is *)
(* spelled in lower case.                                                  *)
CompositeUnencoded ==
  Out => \A p \in DOMAIN mail.body :
    Requires7or8Bit(mail.body[p].type) => Parts[p].encoding \in {"7bit", "8bit"}

(* The parts within a multipart, whose heads and contents are its content. *)
Within(p) ==
  {q \in DOMAIN Parts : /\ mail.body[p].kind = "multipart"
                        /\ Len(q) > Len(p) /\ SubSeq(q, 1, Len(p)) = p}

RawHeader(h) == h \in {"utf8", "raw8"}
RawType(type) == type.params \in {"utf8", "raw8", "nul"}
RawHead(n) == RawHeader(n.header) \/ RawType(n.type)

(* Headers of parts and types of leaves go out as they come, against what  *)
(* mail.proto says: HeadersEscaped.                                        *)
Excused(n) == RawHeader(n.header) \/ (n.kind # "multipart" /\ RawType(n.type))

(* encoding.go:53-128, part.go:131, imf.go:51: what is sent as 7bit or     *)
(* 8bit is that, after all the changes of line ends and with all the parts *)
(* in it, and a server without 8bit gets none, in no head that the code    *)
(* makes or escapes either.                                                *)
WireFits ==
  Out =>
    /\ ~RawType(Parts[<<>>].type)
    /\ ~RawHeader(wire.message.subject) /\ ~RawHeader(wire.message.extra)
    /\ \A p \in DOMAIN Parts :
         LET w == Parts[p]
             c == w.content
         IN  /\ w.encoding = "7bit" =>
                  c.ascii /\ \A q \in Within(p) : Parts[q].encoding # "8bit"
             /\ w.encoding = "8bit" => wire.has8Bit /\ ValidUtf8(c)
             /\ w.encoding \in {"7bit", "8bit"} =>
                  /\ c.controls = "none" /\ c.size # "longline" /\ c.eol = "crlf"
                  /\ \A q \in Within(p) : RawHead(Parts[q]) => Excused(mail.body[q])

-----------------------------------------------------------------------------
(* The charset a part names is that of its text.                           *)
Labelled(type, c) == c.ascii \/ c.coding = type.charset

Untyped(m) == m.type.major = "none"

(* The type a part goes out with that came without one.                    *)
TypeByDefault(w, m) ==
  IF route = "grpc"
  THEN w.type.major = (CASE m.oneof = "content" -> "text" [] m.oneof = "bytes" -> "other"
                         [] m.oneof = "nested" -> "multipart")
  ELSE w.type.major = (IF entity.mimeVersion /\ ValidUtf8(m.content) THEN "text" ELSE "other")

(* A type printed anew has a boundary, lower case and escaped parameters.  *)
SameType(sent, type) ==
  /\ sent.major = type.major /\ sent.charset = type.charset
  /\ sent.params \in {type.params, "percent"}

(* What the code takes as bytes, not as text.                              *)
AsBytes(m) ==
  IF route = "grpc" THEN m.oneof = "bytes"
  ELSE ~entity.mimeVersion \/ ~IsText(m) \/ ~ValidUtf8(DecodeText(m))

(* Of bytes that are not sent in base64 the line ends become CRLF, against *)
(* what mail.proto says: BytesKept.                                        *)
SameBytes(w, c) ==
  w.content = IF w.encoding = "base64" THEN c ELSE [c EXCEPT !.eol = "crlf"]

PartsKept ==
  /\ DOMAIN Parts = DOMAIN Meant
  /\ \A p \in DOMAIN Meant :
       LET w == Parts[p]
           m == Meant[p]
       IN  /\ SameText(w.content, m.content)
           /\ AsBytes(m) => SameBytes(w, m.content)
           \* a type is an encoded word if it is that of the mail and not ASCII
           /\ Untyped(m) => TypeByDefault(w, m)
           /\ ~Untyped(m) /\ (p = <<>> => ~RawType(m.type)) => SameType(w.type, m.type)
           \* Latin-1 stays as the label of UTF-8: CharsetAdjusted
           /\ Labelled(m.type, m.content) /\ m.type.charset # "latin-1" =>
                Labelled(w.type, w.content)
           /\ p # <<>> => DecodeHeader(w.header) = DecodeHeader(m.header)

Leaves(t) == {p \in DOMAIN t : ~HasChildren(t, p)}

(* A text is a leaf of its type; the attachments follow the text in order. *)
SimpleKept(s) ==
  LET sent(type, c) == \E p \in Leaves(Parts) :
                         Parts[p].type = type /\ SameText(Parts[p].content, c)
  IN  /\ \A c \in s.plain : sent(TextPlain, c)
      /\ \A c \in s.html : sent(TextHtml, c)
      /\ \A i \in DOMAIN s.attachments :
           LET a == s.attachments[i]
               w == Parts[<<i + 1>>]
           IN  SameBytes(w, a.content) /\ (~Untyped(a) => w.type = a.type)
      /\ Cardinality(Leaves(Parts))
           = Cardinality(s.plain) + Cardinality(s.html) + Len(s.attachments)

(* server.go:380-461, grpc.go, grpcservers/mailer.go and database/mail.go: *)
(* through all the forms a mail takes, each part keeps its place, its text *)
(* or bytes, its type or the default, and its headers but for the escapes. *)
ContentKept ==
  Out =>
    /\ DecodeHeader(wire.message.subject) = DecodeHeader(Client.subject)
    /\ IF route = "grpc" /\ request.form = "simple" THEN SimpleKept(request.simple)
                                                    ELSE PartsKept

-----------------------------------------------------------------------------
HoldsNothing(t) == \E p \in Leaves(t) : t[p].content.size = "empty"

(* grpcservers/mailer.go:175, database/mail.go:92: what the API accepts    *)
(* can be stored, loaded and sent, but for a text or type with a NUL in    *)
(* it, and a part without content, which loads as none and panics.         *)
AcceptedIsSendable ==
  /\ phase \notin {"unloadable", "invalid"}
  /\ phase = "unstorable" =>
       \E p \in DOMAIN mail.body :
         mail.body[p].content.controls = "nul" \/ mail.body[p].type.params = "nul"
  /\ phase = "panicked" => HoldsNothing(Transformed(request).body)

(* server.go:357, grpcservers/mailer.go:14: what the proxy found valid the *)
(* API finds valid, but for an address that is not read as it is printed,  *)
(* and is asked, but for a head in bytes that are not UTF-8.               *)
ApiAcceptsParsed ==
  /\ phase = "rejected" /\ route = "smtp" => mail.addr = "funny"
  /\ phase = "unmarshalled" =>
       \/ mail.subject = "raw8"
       \/ \E p \in DOMAIN mail.body : mail.body[p].header = "raw8" \/ mail.body[p].type.params = "raw8"

-----------------------------------------------------------------------------
(* What mail.proto promises of a request in parts, and the code does not.  *)

SentInParts == Out /\ route = "grpc" /\ request.form = "parts"

(* :65, :129: the charset a text names is adjusted to the one it is in.    *)
CharsetAdjusted ==
  \A p \in DOMAIN Meant :
    Meant[p].oneof = "content" /\ Meant[p].type.major = "text" =>
      Labelled(Parts[p].type, Parts[p].content)

(* :70, :128: a string is sent with a text type only.                      *)
StringsAreText ==
  \A p \in DOMAIN Meant :
    Meant[p].oneof = "content" => Parts[p].type.major \in {"text", "html"}

(* :147: the headers of a part are escaped.                                *)
HeadersEscaped == \A p \in DOMAIN Parts : ~RawHeader(Parts[p].header)

(* :52: extra headers are sent with the mail.                              *)
ExtraHeadersSent == request.extra # "none" => wire.message.extra # "none"

(* :102, :131: bytes are encoded, so that they come out as they went in.   *)
BytesKept ==
  \A p \in DOMAIN Meant :
    Meant[p].oneof = "bytes" => Parts[p].content = Meant[p].content

(* mail.proto promises all of these of every mail.  Of a mail that gives   *)
(* cause for each of them, not even one holds.                             *)
AnyPromiseKept ==
  SentInParts => CharsetAdjusted \/ StringsAreText \/ HeadersEscaped
            \/ ExtraHeadersSent \/ BytesKept
=============================================================================
