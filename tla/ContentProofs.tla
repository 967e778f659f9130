---------------------------- MODULE ContentProofs ----------------------------
(***************************************************************************)
(* Nothing is lost on the way of a mail through its forms: every part that *)
(* a client sent goes out at its place, with its text, its type and its    *)
(* headers, whatever trees there are.  Each conversion is followed on one  *)
(* node; the tree of a simple mail is compared leaf by leaf.               *)
(***************************************************************************)
EXTENDS MailBodyProofs, FiniteSetTheorems

(* Two contents are the same text if they agree but for coding and line    *)
(* ends.                                                                   *)
LEMMA SameTextFields ==
  ASSUME NEW a \in ContentFields, NEW b \in ContentFields,
         a.ascii = b.ascii, a.controls = b.controls, a.size = b.size, a.dense = b.dense
  PROVE  SameText(a, b)
  BY DEF ContentFields, SameText

(* As ContentUpdates, of the fields that are left alone.                   *)
LEMMA ContentKeeps ==
  ASSUME NEW c \in ContentFields
  PROVE  /\ \A e \in {"lf", "crlf"} :
              LET d == [c EXCEPT !.eol = e]
              IN  d \in ContentFields /\ SameText(d, c) /\ d.ascii = c.ascii /\ d.coding = c.coding
         /\ LET d == [c EXCEPT !.coding = "utf-8"]
            IN  d \in ContentFields /\ SameText(d, c) /\ d.ascii = c.ascii
  BY DEF ContentFields, SameText

LEMMA SameTextIsEquivalence ==
  ASSUME NEW a \in ContentFields, NEW b \in ContentFields, NEW c \in ContentFields,
         SameText(a, b), SameText(b, c)
  PROVE  SameText(a, c) /\ SameText(a, a)
<1>1. /\ a.ascii = b.ascii /\ a.controls = b.controls /\ a.size = b.size /\ a.dense = b.dense
      /\ b.ascii = c.ascii /\ b.controls = c.controls /\ b.size = c.size /\ b.dense = c.dense
  BY DEF ContentFields, SameText
<1>. QED
  BY <1>1, SameTextFields

(* part.go:57-88, part.go:140-179: what encoding does to a part.           *)
LEMMA EncodeKeeps ==
  ASSUME NEW n \in NodeFields, n.kind \in {"text", "binary", "multipart"},
         NEW has8Bit \in BOOLEAN, n.kind = "multipart" => n.content = Empty,
         NEW w, w = EncodePart(n, has8Bit)
  PROVE  /\ w.content \in ContentFields /\ SameText(w.content, n.content)
         /\ w.content.ascii = n.content.ascii /\ w.content.coding = n.content.coding
         /\ SameType(w.type, n.type) /\ w.type.charset = n.type.charset
         /\ w.type.major = n.type.major
         /\ n.kind # "multipart" => w.type = n.type
         /\ n.kind # "text" => SameBytes(w, n.content)
         /\ RawType(w.type) => RawType(n.type)
<1>1. n.content \in ContentFields /\ n.type \in TypeFields /\ Empty \in ContentFields
  BY SimpleTypes DEF NodeFields
<1>2. CASE n.kind = "multipart"
  <2>1. /\ w.type = [n.type EXCEPT !.boundary = "valid", !.lower = TRUE,
                                   !.params = IF @ = "ascii" THEN "ascii" ELSE "percent"]
        /\ w.content = n.content
    BY <1>2 DEF EncodePart, EncodeMultipart
  <2>2. SameText(w.content, n.content)
    BY <1>1, <2>1, SameTextFields
  <2>3. /\ SameType(w.type, n.type) /\ w.type.charset = n.type.charset
        /\ w.type.major = n.type.major /\ ~RawType(w.type)
    BY <1>1, <2>1 DEF SameType, RawType, TypeFields
  <2>4. SameBytes(w, n.content)
    BY <1>1, <1>2, <2>1 DEF SameBytes, Empty
  <2>. QED
    BY <1>1, <1>2, <2>1, <2>2, <2>3, <2>4
<1>3. CASE n.kind # "multipart"
  <2>. DEFINE c == Bytes(n)
              encoding == Encoding(c, has8Bit)
  <2>1. w.type = n.type /\ w.encoding = encoding /\ w.content = Sent(c, encoding)
    BY <1>3 DEF EncodePart, EncodeLeaf
  <2>2. c \in ContentFields /\ SameText(c, n.content) /\ c.ascii = n.content.ascii
        /\ c.coding = n.content.coding
    BY <1>1, ContentKeeps, SameTextFields DEF Bytes
  <2>3. n.kind # "text" => SameBytes(w, n.content)
    BY <2>1 DEF SameBytes, Sent, Bytes
  <2>. HIDE DEF c, encoding
  <2>4. w.content \in ContentFields /\ SameText(w.content, c) /\ w.content.ascii = c.ascii
        /\ w.content.coding = c.coding
    BY <2>1, <2>2, ContentKeeps, SameTextFields DEF Sent
  <2>. QED
    BY <1>1, <1>3, <2>1, <2>2, <2>3, <2>4, SameTextIsEquivalence DEF SameType
<1>. QED
  BY <1>2, <1>3

(* What became of a node of the mail the server accepted when it goes out. *)
NodeKept(w, n, isRoot) ==
  /\ w.content \in ContentFields /\ SameText(w.content, n.content)
  /\ w.content.ascii = n.content.ascii /\ w.content.coding = n.content.coding
  /\ n.kind # "text" => SameBytes(w, n.content)
  /\ w.type.charset = n.type.charset
  /\ (isRoot => ~RawType(n.type)) =>
       /\ SameType(w.type, n.type) /\ w.type.major = n.type.major
       /\ n.kind # "multipart" => w.type = n.type
  /\ ~isRoot => w.header = n.header

(* database/mail.go, imf.go: a mail that goes out is the accepted one,     *)
(* part by part, whether it has been stored in between or not.             *)
LEMMA AcceptedKept ==
  ASSUME IInv, Out, NEW t, t = Transformed(request).body
  PROVE  /\ Sound(Transformed(request)) /\ RequestMade /\ PbMailAccepted(request)
         /\ wire.message.subject = EncodedHeader(request.subject)
         /\ DOMAIN Parts = DOMAIN t
         /\ \A p \in DOMAIN t : NodeKept(Parts[p], t[p], p = <<>>)
<1>1. /\ RequestMade /\ PbMailAccepted(request)
      /\ mail \in {Transformed(request), Reloaded(Transformed(request))}
      /\ ~Panics(mail.body)
  BY DEF IInv, Accepted, Ended, Out
<1>2. Sound(Transformed(request))
  BY <1>1, AcceptedSound
<1>3. DOMAIN mail.body = DOMAIN t
  BY <1>1, <1>2, RowRoundTrip
<1>4. DOMAIN Parts = DOMAIN t
  BY <1>3, SentSound DEF GetInternetMessageFormat, Parts
<1>5. ASSUME NEW p \in DOMAIN t PROVE NodeKept(Parts[p], t[p], p = <<>>)
  <2>1. /\ t[p] \in NodeFields /\ (t[p].kind = "multipart" => t[p].content = Empty)
    BY <1>2 DEF Sound
  <2>2. /\ mail.body[p].kind = t[p].kind /\ mail.body[p].type = t[p].type
        /\ mail.body[p].content = t[p].content
        /\ p # <<>> => mail.body[p].header = t[p].header
    <3>1. CASE mail = Transformed(request)
      BY <3>1
    <3>2. CASE mail = Reloaded(Transformed(request))
      <4>1. mail.body[p].kind # "nil"
        BY <1>1, <1>3 DEF Panics
      <4>. QED
        BY <1>2, <3>2, <4>1, RowRoundTrip
    <3>. QED
      BY <1>1, <3>1, <3>2
  <2>. DEFINE w == Parts[p]
              n == mail.body[p]
              part == EncodePart(n, wire.has8Bit)
  <2>3. /\ n \in NodeFields /\ n.kind \in {"text", "binary", "multipart"} /\ wire.has8Bit \in BOOLEAN
        /\ w.encoding = part.encoding /\ w.content = part.content /\ w.header = n.header
        /\ w.type = IF p = <<>> THEN EncodedType(part.type) ELSE part.type
    BY <1>4, PartEncoded
  <2>4. /\ part.content \in ContentFields /\ SameText(part.content, n.content)
        /\ part.content.ascii = n.content.ascii /\ part.content.coding = n.content.coding
        /\ SameType(part.type, n.type) /\ part.type.charset = n.type.charset
        /\ part.type.major = n.type.major
        /\ n.kind # "multipart" => part.type = n.type
        /\ n.kind # "text" => SameBytes(part, n.content)
        /\ RawType(part.type) => RawType(n.type)
    BY <2>1, <2>2, <2>3, EncodeKeeps
  <2>5. part.type \in TypeFields
    <3>1. CASE n.kind = "multipart"
      BY <2>3, <3>1 DEF EncodePart, EncodeMultipart, NodeFields, TypeFields
    <3>2. CASE n.kind # "multipart"
      BY <2>3, <2>4, <3>2 DEF NodeFields
    <3>. QED
      BY <3>1, <3>2
  <2>. HIDE DEF part, n, w
  <2>6. /\ w.type.charset = part.type.charset
        /\ (p = <<>> /\ RawType(part.type)) \/ w.type = part.type
    BY <2>3, <2>5 DEF EncodedType, RawType, TypeFields
  <2>7. n.kind # "text" => SameBytes(w, n.content)
    BY <2>3, <2>4 DEF SameBytes
  <2>8. /\ w.type.charset = n.type.charset
        /\ (p = <<>> => ~RawType(n.type)) =>
             /\ SameType(w.type, n.type) /\ w.type.major = n.type.major
             /\ n.kind # "multipart" => w.type = n.type
    BY <2>4, <2>6
  <2>9. /\ w.content \in ContentFields /\ SameText(w.content, n.content)
        /\ w.content.ascii = n.content.ascii /\ w.content.coding = n.content.coding
        /\ w.header = n.header
    BY <2>3, <2>4
  <2>10. NodeKept(w, n, p = <<>>)
    BY <2>7, <2>8, <2>9 DEF NodeKept
  <2>. QED
    BY <2>2, <2>10 DEF NodeKept, w, n
<1>6. wire.message.subject = EncodedHeader(request.subject)
  <2>1. wire.message.subject = EncodedHeader(mail.subject)
    BY SentSound DEF GetInternetMessageFormat
  <2>2. mail.subject = request.subject
    BY <1>1 DEF Transformed, Reloaded, DBEntityToMail, MailToDBEntity
  <2>. QED
    BY <2>1, <2>2
<1>. QED
  BY <1>1, <1>2, <1>4, <1>5, <1>6

-----------------------------------------------------------------------------
(* What holds of a part m that the client sent and of the node n that the  *)
(* server makes of it; typed is what the type must be if m came with none, *)
(* bytes whether m came as bytes.                                          *)
PartKept(n, m, typed, bytes) ==
  /\ n \in NodeFields /\ SameText(n.content, m.content)
  /\ bytes => n.kind # "text" /\ n.content = m.content
  /\ IF Untyped(m) THEN n.type.major = typed /\ ~RawType(n.type) ELSE n.type = m.type
  /\ Labelled(m.type, m.content) /\ m.type.charset # "latin-1" => Labelled(n.type, n.content)

GrpcTyped(m) ==
  CASE m.oneof = "content" -> "text" [] m.oneof = "bytes" -> "other"
    [] m.oneof = "nested" -> "multipart"

SmtpBytes(e, m) == ~e.mimeVersion \/ ~IsText(m) \/ ~ValidUtf8(DecodeText(m))

SmtpTyped(e, m) == IF e.mimeVersion /\ ValidUtf8(m.content) THEN "text" ELSE "other"

(* grpcservers/mailer.go:175-284: the server takes over a part of a        *)
(* request as it is, and gives it a type if it has none.                   *)
LEMMA TransformKeeps ==
  ASSUME NEW m \in PartFields, m.oneof # "unset", m.type.major = "none" => m.type = NoType
  PROVE  /\ PartKept(TransformPart(m), m, GrpcTyped(m), m.oneof = "bytes")
         /\ TransformPart(m).header = m.header
<1>. DEFINE n == TransformPart(m)
<1>1. n \in NodeFields /\ n.content = m.content /\ n.header = m.header
  BY TransformPartSound
<1>2. m.content \in ContentFields /\ m.type \in TypeFields
      /\ m.oneof \in {"content", "bytes", "nested"}
  BY DEF PartFields, OneOf
<1>3. n.type = IF m.type.major = "none" THEN DefaultType(m.oneof) ELSE m.type
  BY DEF TransformPart
<1>4. SameText(n.content, m.content)
  BY <1>1, <1>2, SameTextFields
<1>. HIDE DEF n
<1>5. IF Untyped(m) THEN n.type.major = GrpcTyped(m) /\ ~RawType(n.type) ELSE n.type = m.type
  BY <1>2, <1>3 DEF Untyped, GrpcTyped, DefaultType, TextPlain, OctetStream, MultipartMixed,
     NoType, RawType
<1>6. Labelled(m.type, m.content) /\ m.type.charset # "latin-1" => Labelled(n.type, n.content)
  BY <1>1, <1>2, <1>3 DEF Labelled, ContentFields, NoType
<1>7. m.oneof = "bytes" => n.kind # "text" /\ n.content = m.content
  BY <1>1 DEF TransformPart, KindOf, n
<1>. QED
  BY <1>1, <1>4, <1>5, <1>6, <1>7 DEF PartKept, n

(* server.go:380-429: what the parser makes of a part of a message.        *)
LEMMA ParseKeeps ==
  ASSUME NEW m \in EntityNodeFields, m.type.major = "none" => m.type = NoType,
         m.type.major = "multipart" => m.content = Empty,
         NEW isRoot \in BOOLEAN, NEW q, q = ParsePart(m, isRoot)
  PROVE  /\ q \in NodeFields /\ SameText(q.content, m.content) /\ q.type = m.type
         /\ Labelled(m.type, m.content) /\ m.type.charset # "latin-1" =>
              Labelled(q.type, q.content)
         /\ Untyped(m) => q.kind = IF ValidUtf8(m.content) THEN "text" ELSE "binary"
         /\ ~IsText(m) \/ ~ValidUtf8(DecodeText(m)) => q.kind # "text" /\ q.content = m.content
         /\ q.header = IF isRoot THEN "none" ELSE DecodeHeader(m.header)
<1>1. m.content \in ContentFields /\ m.type \in TypeFields
  BY DEF EntityNodeFields
<1>2. /\ q \in NodeFields /\ q.type = m.type
      /\ q.kind = ParseBody(m).kind /\ q.content = ParseBody(m).content
      /\ q.header = IF isRoot THEN "none" ELSE DecodeHeader(m.header)
  BY ParsePartSound DEF ParsePart
<1>3. /\ DecodeText(m) \in ContentFields /\ SameText(DecodeText(m), m.content)
      /\ DecodeText(m).ascii = m.content.ascii
      /\ m.type.charset # "latin-1" => DecodeText(m) = m.content
      /\ Untyped(m) => DecodeText(m) = m.content
  BY <1>1, ContentKeeps, SameTextFields DEF DecodeText, Parses, Untyped
<1>4. /\ SameText(ParseText(m).content, m.content)
      /\ ParseText(m).content \in ContentFields
      /\ ParseText(m).content.ascii = m.content.ascii
      /\ m.type.charset # "latin-1" => ParseText(m).content.coding = m.content.coding
      /\ Untyped(m) => ParseText(m).kind = IF ValidUtf8(m.content) THEN "text" ELSE "binary"
      /\ ~ValidUtf8(DecodeText(m)) => ParseText(m) = [kind |-> "binary", content |-> m.content]
  <2>. DEFINE text == DecodeText(m)
  <2>1. CASE ~ValidUtf8(text)
    BY <1>1, <1>3, <2>1, SameTextFields DEF ParseText
  <2>2. CASE ValidUtf8(text)
    <3>1. /\ ParseText(m).content = (IF text.eol = "crlf" THEN [text EXCEPT !.eol = "lf"] ELSE text)
          /\ ParseText(m).kind = "text"
      BY <2>2 DEF ParseText
    <3>. HIDE DEF text
    <3>2. /\ ParseText(m).content \in ContentFields /\ SameText(ParseText(m).content, text)
          /\ ParseText(m).content.ascii = text.ascii
          /\ ParseText(m).content.coding = text.coding
      BY <1>3, <3>1, ContentKeeps, SameTextFields DEF text
    <3>. QED
      BY <1>1, <1>3, <2>2, <3>1, <3>2, SameTextIsEquivalence DEF text
  <2>. QED
    BY <2>1, <2>2
<1>5. CASE m.type.major = "multipart"
  BY <1>1, <1>2, <1>5, SameTextFields DEF ParseBody, IsText, Labelled, Empty, Untyped
<1>6. CASE m.type.major # "multipart" /\ IsText(m)
  BY <1>1, <1>2, <1>4, <1>6 DEF ParseBody, IsText, Labelled
<1>7. CASE m.type.major # "multipart" /\ ~IsText(m)
  BY <1>1, <1>2, <1>7, SameTextFields DEF ParseBody, IsText, Labelled, Untyped
<1>. QED
  BY <1>5, <1>6, <1>7

(* smtp-proxy/grpc.go and grpcservers/mailer.go: a part the parser made,   *)
(* through the request.                                                    *)
LEMMA ProxyKeeps ==
  ASSUME NEW e, WellFormed(e), NEW p \in DOMAIN e.body, NEW m, m = e.body[p],
         NEW n, n = Transformed(BuildGrpcRequest(ParseMessage(e))).body[p]
  PROVE  /\ DOMAIN Transformed(BuildGrpcRequest(ParseMessage(e))).body = DOMAIN e.body
         /\ PartKept(n, m, SmtpTyped(e, m), SmtpBytes(e, m))
         /\ p # <<>> => n.header = DecodeHeader(m.header)
<1>. DEFINE parsed == ParseMessage(e)
            q == parsed.body[p]
            part(x) == [oneof |-> OneOfKind(parsed.body[x].kind), type |-> parsed.body[x].type,
                        header |-> parsed.body[x].header, content |-> parsed.body[x].content]
<1>1. /\ m \in EntityNodeFields /\ (m.type.major = "none" => m.type = NoType)
      /\ e.mimeVersion /\ m.type.major = "multipart" => m.content = Empty
      /\ e.mimeVersion \/ DOMAIN e.body = {<<>>}
  BY DEF WellFormed, IsTree
<1>2. m.content \in ContentFields /\ m.type \in TypeFields
  BY <1>1 DEF EntityNodeFields
<1>3. DOMAIN parsed.body = DOMAIN e.body
  BY <1>1 DEF ParseMessage
<1>4. /\ q \in NodeFields /\ q.kind # "nil"
      /\ SameText(q.content, m.content) /\ q.type = m.type
      /\ Labelled(m.type, m.content) /\ m.type.charset # "latin-1" => Labelled(q.type, q.content)
      /\ Untyped(m) => q.kind = IF SmtpTyped(e, m) = "text" THEN "text" ELSE "binary"
      /\ SmtpBytes(e, m) => q.kind # "text" /\ q.content = m.content
      /\ p # <<>> => q.header = DecodeHeader(m.header)
  <2>1. CASE e.mimeVersion
    <3>1. PICK isRoot \in BOOLEAN : isRoot = (p = <<>>)
      OBVIOUS
    <3>2. q = ParsePart(m, isRoot)
      BY <2>1, <3>1 DEF ParseMessage
    <3>. HIDE DEF q
    <3>3. q.kind # "nil"
      BY <1>1, <3>2, ParsePartSound
    <3>4. /\ q \in NodeFields /\ SameText(q.content, m.content) /\ q.type = m.type
          /\ Labelled(m.type, m.content) /\ m.type.charset # "latin-1" =>
               Labelled(q.type, q.content)
          /\ Untyped(m) => q.kind = IF ValidUtf8(m.content) THEN "text" ELSE "binary"
          /\ ~IsText(m) \/ ~ValidUtf8(DecodeText(m)) => q.kind # "text" /\ q.content = m.content
          /\ q.header = IF isRoot THEN "none" ELSE DecodeHeader(m.header)
      BY <1>1, <2>1, <3>2, ParseKeeps
    <3>. QED
      BY <2>1, <3>1, <3>3, <3>4 DEF SmtpTyped, SmtpBytes
  <2>2. CASE ~e.mimeVersion
    <3>1. /\ p = <<>> /\ q.kind = "binary" /\ q.type = m.type /\ q.content = m.content
      BY <1>1, <2>2 DEF ParseMessage
    <3>2. q \in NodeFields
      BY <1>3, ParsedKinds
    <3>. HIDE DEF q
    <3>. QED
      BY <1>2, <2>2, <3>1, <3>2, SameTextFields DEF SmtpTyped
  <2>. QED
    BY <2>1, <2>2
<1>5. /\ DOMAIN Transformed(BuildGrpcRequest(parsed)).body = DOMAIN parsed.body
      /\ n = TransformPart(part(p))
  <2>1. /\ BuildGrpcRequest(parsed).form = "parts"
        /\ BuildGrpcRequest(parsed).body = [x \in DOMAIN parsed.body |-> part(x)]
    BY DEF BuildGrpcRequest
  <2>. HIDE DEF parsed, part
  <2>2. Transformed(BuildGrpcRequest(parsed)).body = [x \in DOMAIN parsed.body |-> TransformPart(part(x))]
    BY <2>1 DEF Transformed
  <2>. QED
    BY <1>3, <2>2 DEF parsed
<1>6. /\ n.kind = q.kind /\ n.header = q.header /\ n.content = q.content
      /\ n.type = IF q.type.major = "none" THEN DefaultType(OneOfKind(q.kind)) ELSE q.type
  <2>. HIDE DEF parsed
  <2>. QED
    BY <1>4, <1>5, NodeThroughRequest
<1>. HIDE DEF q
<1>7. n.content = q.content /\ SameText(n.content, m.content)
  BY <1>4, <1>6
<1>8. IF Untyped(m) THEN n.type.major = SmtpTyped(e, m) /\ ~RawType(n.type) ELSE n.type = m.type
  BY <1>4, <1>6
  DEF Untyped, SmtpTyped, OneOfKind, DefaultType, TextPlain, OctetStream, NoType, RawType
<1>9. Labelled(m.type, m.content) /\ m.type.charset # "latin-1" => Labelled(n.type, n.content)
  <2>1. CASE Untyped(m)
    BY <1>1, <1>2, <1>4, <1>6, <2>1 DEF Untyped, Labelled, NoType, ContentFields, NodeFields,
       SameText, OneOfKind, DefaultType, TextPlain, OctetStream
  <2>2. CASE ~Untyped(m)
    BY <1>4, <1>6, <2>2 DEF Untyped
  <2>. QED
    BY <2>1, <2>2
<1>10. n \in NodeFields
  <2>1. n.type \in TypeFields
    BY <1>4, <1>6, SimpleTypes DEF NodeFields, OneOfKind, DefaultType
  <2>2. n = [kind |-> n.kind, header |-> n.header, content |-> n.content, type |-> n.type]
    BY <1>5 DEF TransformPart
  <2>. QED
    BY <1>4, <1>6, <2>1, <2>2 DEF NodeFields
<1>. QED
  BY <1>3, <1>4, <1>5, <1>6, <1>7, <1>8, <1>9, <1>10 DEF PartKept

(* The two halves of the way together.                                     *)
Kept(w, m, typed, bytes, isRoot) ==
  /\ SameText(w.content, m.content)
  /\ bytes => SameBytes(w, m.content)
  /\ Untyped(m) => w.type.major = typed
  /\ ~Untyped(m) /\ (isRoot => ~RawType(m.type)) => SameType(w.type, m.type)
  /\ Labelled(m.type, m.content) /\ m.type.charset # "latin-1" => Labelled(w.type, w.content)
  /\ ~isRoot => DecodeHeader(w.header) = DecodeHeader(m.header)

LEMMA KeptThroughout ==
  ASSUME NEW w, NEW n, NEW m, NEW typed, NEW bytes, NEW isRoot,
         NodeKept(w, n, isRoot), PartKept(n, m, typed, bytes), m.content \in ContentFields,
         ~isRoot => DecodeHeader(n.header) = DecodeHeader(m.header)
  PROVE  Kept(w, m, typed, bytes, isRoot)
<1>1. n.content \in ContentFields
  BY DEF PartKept, NodeFields
<1>2. SameText(w.content, m.content)
  BY <1>1, SameTextIsEquivalence DEF NodeKept, PartKept
<1>3. /\ Untyped(m) => w.type.major = typed
      /\ ~Untyped(m) /\ (isRoot => ~RawType(m.type)) => SameType(w.type, m.type)
  BY DEF NodeKept, PartKept
<1>4. Labelled(n.type, n.content) => Labelled(w.type, w.content)
  BY DEF NodeKept, Labelled
<1>5. bytes => SameBytes(w, m.content)
  BY DEF NodeKept, PartKept
<1>6. ~isRoot => DecodeHeader(w.header) = DecodeHeader(m.header)
  BY DEF NodeKept
<1>. QED
  BY <1>2, <1>3, <1>4, <1>5, <1>6 DEF PartKept, Kept

LEMMA PartsKeptHolds ==
  ASSUME IInv, Out, ~(route = "grpc" /\ request.form = "simple")
  PROVE  PartsKept
<1>. DEFINE t == Transformed(request).body
<1>1. /\ RequestMade /\ PbMailAccepted(request) /\ DOMAIN Parts = DOMAIN t
      /\ \A p \in DOMAIN t : NodeKept(Parts[p], t[p], p = <<>>)
  BY AcceptedKept
<1>2. CASE route = "smtp"
  <2>1. /\ request = BuildGrpcRequest(ParseMessage(entity)) /\ WellFormed(entity)
    BY <1>1, <1>2, MailBodyAssumption DEF RequestMade, Received
  <2>2. <<>> \in DOMAIN entity.body
    BY <2>1 DEF WellFormed, IsTree
  <2>3. DOMAIN t = DOMAIN entity.body
    BY <2>1, <2>2, ProxyKeeps
  <2>4. ASSUME NEW p \in DOMAIN entity.body, NEW m, m = entity.body[p], NEW n, n = t[p]
        PROVE  Kept(Parts[p], m, SmtpTyped(entity, m), SmtpBytes(entity, m), p = <<>>)
    <3>1. /\ PartKept(n, m, SmtpTyped(entity, m), SmtpBytes(entity, m))
          /\ p # <<>> => n.header = DecodeHeader(m.header)
      BY <2>1, <2>4, ProxyKeeps
    <3>2. NodeKept(Parts[p], n, p = <<>>)
      BY <1>1, <2>3, <2>4
    <3>3. m.content \in ContentFields
      BY <2>1, <2>4 DEF WellFormed, IsTree, EntityNodeFields
    <3>4. DecodeHeader(DecodeHeader(m.header)) = DecodeHeader(m.header)
      BY DEF DecodeHeader
    <3>. QED
      BY <3>1, <3>2, <3>3, <3>4, KeptThroughout
  <2>5. ASSUME NEW p \in DOMAIN entity.body, NEW m, m = entity.body[p]
        PROVE  /\ Untyped(m) /\ Parts[p].type.major = SmtpTyped(entity, m) => TypeByDefault(Parts[p], m)
               /\ AsBytes(m) => SmtpBytes(entity, m)
    BY <1>2 DEF TypeByDefault, AsBytes, SmtpTyped, SmtpBytes
  <2>. QED
    BY <1>1, <1>2, <2>3, <2>4, <2>5 DEF PartsKept, Meant, Client, Kept
<1>3. CASE route # "smtp"
  <2>1. /\ route = "grpc" /\ request.form = "parts" /\ RequestWellFormed(request)
    BY <1>1, <1>3, MailBodyAssumption DEF RequestMade
  <2>2. /\ t = [p \in DOMAIN request.body |-> TransformPart(request.body[p])]
        /\ \A p \in DOMAIN request.body : request.body[p].oneof # "unset"
    BY <1>1, <2>1 DEF Transformed, PbMailAccepted, Transformable, PartsTransform
  <2>3. DOMAIN t = DOMAIN request.body
    BY <2>2
  <2>4. ASSUME NEW p \in DOMAIN request.body, NEW m, m = request.body[p], NEW n, n = t[p]
        PROVE  Kept(Parts[p], m, GrpcTyped(m), m.oneof = "bytes", p = <<>>)
    <3>1. m \in PartFields /\ m.oneof # "unset" /\ (m.type.major = "none" => m.type = NoType)
      BY <2>1, <2>2, <2>4 DEF RequestWellFormed, IsTree
    <3>2. n = TransformPart(m)
      BY <2>2, <2>4
    <3>3. NodeKept(Parts[p], n, p = <<>>)
      BY <1>1, <2>3, <2>4
    <3>4. PartKept(n, m, GrpcTyped(m), m.oneof = "bytes") /\ n.header = m.header
      BY <3>1, <3>2, TransformKeeps
    <3>5. m.content \in ContentFields
      BY <3>1 DEF PartFields
    <3>. QED
      BY <3>3, <3>4, <3>5, KeptThroughout
  <2>5. ASSUME NEW p \in DOMAIN request.body, NEW m, m = request.body[p]
        PROVE  /\ Untyped(m) /\ Parts[p].type.major = GrpcTyped(m) => TypeByDefault(Parts[p], m)
               /\ AsBytes(m) => m.oneof = "bytes"
    BY <2>1 DEF TypeByDefault, AsBytes, GrpcTyped
  <2>. QED
    BY <1>1, <1>3, <2>3, <2>4, <2>5 DEF PartsKept, Meant, Client, Kept
<1>. QED
  BY <1>2, <1>3

-----------------------------------------------------------------------------
(* grpcservers/mailer.go:60-172: where the texts and the attachments of a  *)
(* simple mail are.                                                        *)
PlainAt(s) == IF s.html = {} THEN <<>> ELSE <<1>>
HtmlAt(s) == IF s.plain = {} THEN <<>> ELSE <<2>>
TextsAt(s) == {PlainAt(s) : c \in s.plain} \cup {HtmlAt(s) : c \in s.html}

Below(s, p) == IF s.attachments = <<>> THEN p ELSE <<1>> \o p
AttachedAt(s) == {<<i + 1>> : i \in DOMAIN s.attachments}

LEMMA TextLeaves ==
  ASSUME NEW s \in SimpleFields, s.plain \cup s.html # {}, NEW t, t = SimpleText(s)
  PROVE  /\ Leaves(t) = TextsAt(s)
         /\ DOMAIN t = TextsAt(s) \cup {<<>>} /\ TextsAt(s) \in {{<<>>}, {<<1>>, <<2>>}}
         /\ s.plain # {} =>
              t[PlainAt(s)] = Leaf("text", TextPlain, CHOOSE c \in s.plain : TRUE)
         /\ s.html # {} =>
              t[HtmlAt(s)] = Leaf("text", TextHtml, CHOOSE c \in s.html : TRUE)
<1>. DEFINE plain == Leaf("text", TextPlain, CHOOSE c \in s.plain : TRUE)
<1>. DEFINE html == Leaf("text", TextHtml, CHOOSE c \in s.html : TRUE)
<1>. DEFINE node(p) == CASE p = <<>> -> Multipart [] p = <<1>> -> plain [] OTHER -> html
<1>1. t = CASE s.html = {} -> [p \in {<<>>} |-> plain]
        [] s.html # {} /\ s.plain = {} -> [p \in {<<>>} |-> html]
        [] OTHER -> [p \in {<<>>, <<1>>, <<2>>} |-> node(p)]
  BY DEF SimpleText
<1>. HIDE DEF plain, html
<1>2. /\ Len(<<>>) = 0 /\ Len(<<1>>) = 1 /\ Len(<<2>>) = 1
      /\ <<>> # <<1>> /\ <<>> # <<2>> /\ <<1>> # <<2>>
  OBVIOUS
<1>3. CASE s.html = {} \/ s.plain = {}
  <2>1. t = [p \in {<<>>} |-> IF s.html = {} THEN plain ELSE html]
    BY <1>1, <1>3
  <2>2. DOMAIN t = {<<>>} /\ t[<<>>] = IF s.html = {} THEN plain ELSE html
    BY <2>1
  <2>3. Leaves(t) = {<<>>}
    BY <1>2, <2>2 DEF Leaves, HasChildren
  <2>4. TextsAt(s) = {<<>>}
    BY <1>3 DEF TextsAt, PlainAt, HtmlAt
  <2>. QED
    BY <1>3, <2>2, <2>3, <2>4 DEF PlainAt, HtmlAt, plain, html
<1>4. CASE s.html # {} /\ s.plain # {}
  <2>1. t = [p \in {<<>>, <<1>>, <<2>>} |-> node(p)]
    BY <1>1, <1>4
  <2>2. node(<<1>>) = plain /\ node(<<2>>) = html
    BY <1>2
  <2>. HIDE DEF node
  <2>3. DOMAIN t = {<<>>, <<1>>, <<2>>} /\ t[<<1>>] = plain /\ t[<<2>>] = html
    BY <2>1, <2>2
  <2>4. SubSeq(<<1>>, 1, Len(<<>>)) = <<>>
    OBVIOUS
  <2>5. HasChildren(t, <<>>)
    BY <1>2, <2>3, <2>4 DEF HasChildren
  <2>6. ~HasChildren(t, <<1>>) /\ ~HasChildren(t, <<2>>)
    BY <1>2, <2>3 DEF HasChildren
  <2>7. Leaves(t) = {<<1>>, <<2>>}
    BY <1>2, <2>3, <2>5, <2>6 DEF Leaves
  <2>8. TextsAt(s) = {<<1>>, <<2>>}
    BY <1>4 DEF TextsAt, PlainAt, HtmlAt
  <2>. QED
    BY <1>4, <2>3, <2>7, <2>8 DEF PlainAt, HtmlAt, plain, html
<1>. QED
  BY <1>3, <1>4

LEMMA BelowPaths ==
  ASSUME NEW s, s.attachments # <<>>
  PROVE  /\ Below(s, <<>>) = <<1>> /\ Below(s, <<1>>) = <<1, 1>> /\ Below(s, <<2>>) = <<1, 2>>
         /\ Tail(<<1>>) = <<>> /\ Tail(<<1, 1>>) = <<1>> /\ Tail(<<1, 2>>) = <<2>>
<1>1. /\ <<1>> \o <<>> = <<1>> /\ <<1>> \o <<1>> = <<1, 1>> /\ <<1>> \o <<2>> = <<1, 2>>
  BY Pair
<1>2. Tail(<<1>>) = <<>> /\ Tail(<<1, 1>>) = <<1>> /\ Tail(<<1, 2>>) = <<2>>
  OBVIOUS
<1>. QED
  BY <1>1, <1>2 DEF Below

(* The leaves of a simple mail are its texts and its attachments.          *)
LEMMA TreeLeaves ==
  ASSUME NEW s \in SimpleFields, s.plain \cup s.html # {}, NEW t, t = SimpleTree(s)
  PROVE  /\ Leaves(t) = {Below(s, p) : p \in TextsAt(s)} \cup AttachedAt(s)
         /\ \A p \in TextsAt(s) :
              t[Below(s, p)] = SimpleText(s)[p] /\ Below(s, p) \notin AttachedAt(s)
         /\ \A i \in DOMAIN s.attachments : t[<<i + 1>>] = Attachment(s.attachments[i])
<1>. DEFINE text == SimpleText(s)
            texts == {<<1>> \o p : p \in DOMAIN text}
            attached == AttachedAt(s)
            node(p) == CASE p = <<>> -> Multipart
                         [] p \in texts -> text[Tail(p)]
                         [] OTHER -> Attachment(s.attachments[p[1] - 1])
            tree == [p \in {<<>>} \cup texts \cup attached |-> node(p)]
<1>1. /\ Leaves(text) = TextsAt(s) /\ DOMAIN text = TextsAt(s) \cup {<<>>}
      /\ TextsAt(s) \in {{<<>>}, {<<1>>, <<2>>}}
  BY TextLeaves
<1>2. t = IF s.attachments = <<>> THEN text ELSE tree
  BY DEF SimpleTree, AttachedAt
<1>3. CASE s.attachments = <<>>
  <2>1. AttachedAt(s) = {}
    BY <1>3 DEF AttachedAt
  <2>2. \A p : Below(s, p) = p
    BY <1>3 DEF Below
  <2>3. {Below(s, p) : p \in TextsAt(s)} = TextsAt(s)
    BY <2>2
  <2>4. t = text /\ DOMAIN s.attachments = {}
    BY <1>2, <1>3
  <2>. HIDE DEF text
  <2>. QED
    BY <1>1, <2>1, <2>2, <2>3, <2>4 DEF text
<1>4. CASE s.attachments # <<>>
  <2>1. t = tree /\ DOMAIN tree = {<<>>} \cup texts \cup attached
    BY <1>2, <1>4
  <2>2. s.attachments \in Seq(AttachmentFields)
    BY DEF SimpleFields
  <2>3. /\ Below(s, <<>>) = <<1>> /\ Below(s, <<1>>) = <<1, 1>> /\ Below(s, <<2>>) = <<1, 2>>
        /\ Tail(<<1>>) = <<>> /\ Tail(<<1, 1>>) = <<1>> /\ Tail(<<1, 2>>) = <<2>>
    BY <1>4, BelowPaths
  <2>4. texts = {Below(s, p) : p \in DOMAIN text}
    BY <1>4 DEF Below
  <2>5. /\ Len(<<>>) = 0 /\ Len(<<1>>) = 1 /\ Len(<<1, 1>>) = 2 /\ Len(<<1, 2>>) = 2
        /\ <<1>>[1] = 1 /\ <<1, 1>> # <<1, 2>>
    OBVIOUS
  <2>6. ASSUME NEW i \in DOMAIN s.attachments
        PROVE  <<i + 1>>[1] - 1 = i /\ Len(<<i + 1>>) = 1 /\ <<i + 1>> # <<1>>
    BY <2>2
  <2>. HIDE DEF text
  <2>7. texts \subseteq {<<1>>, <<1, 1>>, <<1, 2>>} /\ <<1>> \in texts
    BY <1>1, <2>3, <2>4
  <2>8. ASSUME NEW i \in DOMAIN s.attachments
        PROVE  <<i + 1>> \in attached /\ <<i + 1>> \notin texts /\ <<i + 1>> # <<>>
    BY <2>5, <2>6, <2>7 DEF AttachedAt
  <2>9. ASSUME NEW i \in DOMAIN s.attachments
        PROVE  t[<<i + 1>>] = Attachment(s.attachments[i])
    <3>1. node(<<i + 1>>) = Attachment(s.attachments[i])
      BY <2>6, <2>8
    <3>2. tree[<<i + 1>>] = node(<<i + 1>>)
      BY <2>8
    <3>. HIDE DEF node, tree
    <3>. QED
      BY <2>1, <3>1, <3>2
  <2>10. ASSUME NEW p \in DOMAIN text
         PROVE  t[Below(s, p)] = text[p] /\ Below(s, p) \notin attached /\ Below(s, p) \in texts
    <3>1. p \in {<<>>, <<1>>, <<2>>}
      BY <1>1
    <3>2. Below(s, p) \in texts
      <4>. HIDE DEF texts
      <4>. QED
        BY <2>4
    <3>3. Tail(Below(s, p)) = p /\ Below(s, p) # <<>>
      <4>1. <<1>> # <<>> /\ <<1, 1>> # <<>> /\ <<1, 2>> # <<>>
        OBVIOUS
      <4>2. CASE p = <<>>
        BY <2>3, <4>1, <4>2, Zenon
      <4>3. CASE p = <<1>>
        BY <2>3, <4>1, <4>3, Zenon
      <4>4. CASE p = <<2>>
        BY <2>3, <4>1, <4>4, Zenon
      <4>. QED
        BY <3>1, <4>2, <4>3, <4>4
    <3>4. Below(s, p) \notin attached
      BY <2>7, <2>8, <3>2 DEF AttachedAt
    <3>5. node(Below(s, p)) = text[p]
      BY <3>2, <3>3
    <3>6. tree[Below(s, p)] = node(Below(s, p))
      BY <3>2
    <3>. HIDE DEF node, tree
    <3>. QED
      BY <2>1, <3>2, <3>4, <3>5, <3>6
  <2>. HIDE DEF texts, attached, tree, node
  <2>11. ASSUME NEW p \in attached PROVE Len(p) = 1 /\ p # <<1>> /\ p # <<>>
    <3>1. PICK i \in DOMAIN s.attachments : p = <<i + 1>>
      BY DEF attached, AttachedAt
    <3>2. Len(<<i + 1>>) = 1 /\ <<i + 1>> # <<1>>
      BY <2>6
    <3>. QED
      BY <2>5, <3>1, <3>2
  <2>12. HasChildren(t, <<>>)
    <3>1. SubSeq(<<1>>, 1, Len(<<>>)) = <<>>
      OBVIOUS
    <3>. QED
      BY <2>1, <2>5, <2>7, <3>1 DEF HasChildren
  <2>13. ASSUME NEW p \in DOMAIN t, p # <<>>, HasChildren(t, p)
         PROVE  p = <<1>> /\ (<<1, 1>> \in texts \/ <<1, 2>> \in texts)
    <3>1. PICK q \in DOMAIN t : Len(q) = Len(p) + 1 /\ SubSeq(q, 1, Len(p)) = p
      BY <2>13 DEF HasChildren
    <3>2. SubSeq(<<1, 1>>, 1, 1) = <<1>> /\ SubSeq(<<1, 2>>, 1, 1) = <<1>>
      BY Pair
    <3>3. Len(p) \in {1, 2} /\ Len(q) \in {0, 1, 2}
      BY <2>1, <2>5, <2>7, <2>11, <2>13, <3>1
    <3>4. Len(p) = 1 /\ Len(q) = 2
      BY <3>1, <3>3
    <3>5. q \in texts /\ q \in {<<1, 1>>, <<1, 2>>}
      BY <2>1, <2>5, <2>7, <2>11, <3>1, <3>4
    <3>. QED
      BY <3>1, <3>2, <3>4, <3>5
  <2>14. <<1, 1>> \in texts \/ <<1, 2>> \in texts => HasChildren(t, <<1>>)
    <3>1. SubSeq(<<1, 1>>, 1, 1) = <<1>> /\ SubSeq(<<1, 2>>, 1, 1) = <<1>>
      BY Pair
    <3>. QED
      BY <2>1, <2>5, <3>1 DEF HasChildren
  <2>15. Leaves(t) = (texts \cup attached)
                       \ (IF <<1, 1>> \in texts \/ <<1, 2>> \in texts THEN {<<1>>} ELSE {})
    <3>1. <<>> \notin texts /\ <<>> \notin attached
      BY <2>5, <2>7, <2>11
    <3>. QED
      BY <2>1, <2>7, <2>12, <2>13, <2>14, <3>1 DEF Leaves
  <2>16. texts \ (IF <<1, 1>> \in texts \/ <<1, 2>> \in texts THEN {<<1>>} ELSE {})
           = {Below(s, p) : p \in TextsAt(s)}
    <3>1. CASE TextsAt(s) = {<<>>}
      <4>1. texts = {<<1>>}
        BY <1>1, <2>3, <2>4, <3>1
      <4>. QED
        BY <2>3, <2>5, <3>1, <4>1
    <3>2. CASE TextsAt(s) = {<<1>>, <<2>>}
      <4>1. texts = {<<1>>, <<1, 1>>, <<1, 2>>}
        BY <1>1, <2>3, <2>4, <3>2
      <4>2. {Below(s, p) : p \in TextsAt(s)} = {<<1, 1>>, <<1, 2>>}
        BY <2>3, <3>2
      <4>. QED
        BY <2>5, <4>1, <4>2
    <3>. QED
      BY <1>1, <3>1, <3>2
  <2>17. Leaves(t) = {Below(s, p) : p \in TextsAt(s)} \cup attached
    BY <2>11, <2>15, <2>16
  <2>. QED
    BY <1>1, <2>9, <2>10, <2>17 DEF attached, text
<1>. QED
  BY <1>3, <1>4

LEMMA AtMostOne ==
  ASSUME NEW S, \A c, d \in S : c = d, NEW p
  PROVE  /\ S = {} \/ Cardinality(S) = 1
         /\ {p : c \in S} = IF S = {} THEN {} ELSE {p}
<1>1. CASE S # {}
  <2>1. PICK c \in S : TRUE
    BY <1>1
  <2>2. S = {c}
    BY <2>1
  <2>. QED
    BY <2>2, FS_Singleton
<1>. QED
  BY <1>1

LEMMA TwoElements ==
  ASSUME NEW a, NEW b, a # b, NEW S, S = {a, b}
  PROVE  IsFiniteSet(S) /\ Cardinality(S) = 2
<1>. DEFINE A == {a}
<1>1. IsFiniteSet(A) /\ Cardinality(A) = 1 /\ b \notin A /\ S = A \cup {b}
  BY FS_Singleton
<1>. HIDE DEF A
<1>2. IsFiniteSet(A \cup {b}) /\ Cardinality(A \cup {b}) = Cardinality(A) + 1
  BY <1>1, FS_AddElement
<1>. QED
  BY <1>1, <1>2

LEMMA AttachedCount ==
  ASSUME NEW s \in SimpleFields
  PROVE  IsFiniteSet(AttachedAt(s)) /\ Cardinality(AttachedAt(s)) = Len(s.attachments)
<1>. DEFINE n == Len(s.attachments)
            f == [i \in 1..n |-> <<i + 1>>]
<1>1. n \in Nat /\ DOMAIN s.attachments = 1..n
  BY DEF SimpleFields
<1>. HIDE DEF n
<1>2. AttachedAt(s) = {f[i] : i \in 1..n}
  BY <1>1 DEF AttachedAt
<1>3. f \in [1..n -> AttachedAt(s)]
  BY <1>2
<1>4. ASSUME NEW i \in 1..n, NEW j \in 1..n, f[i] = f[j] PROVE i = j
  <2>1. <<i + 1>> = <<j + 1>>
    BY <1>4
  <2>2. <<i + 1>>[1] = i + 1 /\ <<j + 1>>[1] = j + 1
    OBVIOUS
  <2>. QED
    BY <2>1, <2>2
<1>5. \A p \in AttachedAt(s) : \E i \in 1..n : f[i] = p
  BY <1>2
<1>. HIDE DEF f
<1>6. ExistsBijection(1..n, AttachedAt(s))
  <2>1. f \in Bijection(1..n, AttachedAt(s))
    BY <1>3, <1>4, <1>5 DEF Bijection, Injection, Surjection, IsInjective
  <2>. QED
    BY <2>1 DEF ExistsBijection
<1>7. IsFiniteSet(1..n) /\ Cardinality(1..n) = n
  BY <1>1, FS_Interval
<1>. QED
  BY <1>6, <1>7, FS_Bijection DEF n

LEMMA TextsCount ==
  ASSUME NEW s \in SimpleFields, s.plain \cup s.html # {},
         \A c, d \in s.plain : c = d, \A c, d \in s.html : c = d,
         NEW S, S = {Below(s, p) : p \in TextsAt(s)}
  PROVE  IsFiniteSet(S) /\ Cardinality(S) = Cardinality(s.plain) + Cardinality(s.html)
<1>1. /\ s.plain = {} \/ Cardinality(s.plain) = 1
      /\ s.html = {} \/ Cardinality(s.html) = 1
      /\ {PlainAt(s) : c \in s.plain} = IF s.plain = {} THEN {} ELSE {PlainAt(s)}
      /\ {HtmlAt(s) : c \in s.html} = IF s.html = {} THEN {} ELSE {HtmlAt(s)}
      /\ Cardinality({}) = 0
  BY AtMostOne, FS_EmptySet
<1>2. CASE s.plain = {}
  <2>1. TextsAt(s) = {HtmlAt(s)}
    BY <1>1, <1>2 DEF TextsAt
  <2>2. S = {Below(s, HtmlAt(s))}
    BY <2>1
  <2>3. IsFiniteSet(S) /\ Cardinality(S) = 1
    BY <2>2, FS_Singleton
  <2>4. Cardinality(s.plain) = 0 /\ Cardinality(s.html) = 1
    BY <1>1, <1>2
  <2>. QED
    BY <2>3, <2>4
<1>3. CASE s.html = {}
  <2>1. TextsAt(s) = {PlainAt(s)}
    BY <1>1, <1>3 DEF TextsAt
  <2>2. S = {Below(s, PlainAt(s))}
    BY <2>1
  <2>3. IsFiniteSet(S) /\ Cardinality(S) = 1
    BY <2>2, FS_Singleton
  <2>4. Cardinality(s.html) = 0 /\ Cardinality(s.plain) = 1
    BY <1>1, <1>3
  <2>. QED
    BY <2>3, <2>4
<1>4. CASE s.plain # {} /\ s.html # {}
  <2>1. TextsAt(s) = {<<1>>, <<2>>}
    BY <1>1, <1>4 DEF TextsAt, PlainAt, HtmlAt
  <2>2. S = {Below(s, <<1>>), Below(s, <<2>>)}
    BY <2>1
  <2>3. Below(s, <<1>>) # Below(s, <<2>>)
    <3>1. <<1>> # <<2>> /\ <<1, 1>> # <<1, 2>>
      OBVIOUS
    <3>2. CASE s.attachments = <<>>
      BY <3>1, <3>2 DEF Below
    <3>3. CASE s.attachments # <<>>
      BY <3>1, <3>3, BelowPaths
    <3>. QED
      BY <3>2, <3>3
  <2>4. IsFiniteSet(S) /\ Cardinality(S) = 2
    BY <2>2, <2>3, TwoElements
  <2>. QED
    BY <1>1, <1>4, <2>4
<1>. QED
  BY <1>2, <1>3, <1>4

(* A simple mail goes out with its texts and its attachments, and with     *)
(* nothing else.                                                           *)
LEMMA SimpleKeptHolds ==
  ASSUME IInv, Out, route = "grpc", request.form = "simple"
  PROVE  SimpleKept(request.simple)
<1>. DEFINE s == request.simple
            t == SimpleTree(s)
            sent(type, c) == \E p \in Leaves(Parts) :
                               Parts[p].type = type /\ SameText(Parts[p].content, c)
            texts == {Below(s, p) : p \in TextsAt(s)}
<1>1. /\ RequestMade /\ PbMailAccepted(request)
      /\ DOMAIN Parts = DOMAIN t
      /\ \A p \in DOMAIN t : NodeKept(Parts[p], t[p], p = <<>>)
  <2>1. t = Transformed(request).body
    BY DEF Transformed
  <2>. QED
    BY <2>1, AcceptedKept
<1>2. /\ s \in SimpleFields /\ s.plain \cup s.html # {}
      /\ \A c, d \in s.plain : c = d
      /\ \A c, d \in s.html : c = d
  BY <1>1, MailBodyAssumption
  DEF RequestMade, RequestWellFormed, PbMailAccepted, Transformable
<1>3. /\ s.plain \subseteq ContentFields /\ s.html \subseteq ContentFields
      /\ s.attachments \in Seq(AttachmentFields)
  BY <1>2 DEF SimpleFields
<1>. HIDE DEF s
<1>4. /\ Leaves(t) = texts \cup AttachedAt(s)
      /\ \A p \in TextsAt(s) :
           t[Below(s, p)] = SimpleText(s)[p] /\ Below(s, p) \notin AttachedAt(s)
      /\ \A i \in DOMAIN s.attachments : t[<<i + 1>>] = Attachment(s.attachments[i])
  BY <1>2, TreeLeaves
<1>. HIDE DEF t
<1>5. Leaves(Parts) = Leaves(t)
  BY <1>1, NodesSame DEF Leaves
<1>6. ASSUME NEW p \in Leaves(t), NEW kind \in {"text", "binary"}, NEW type,
             NEW c \in ContentFields, t[p] = Leaf(kind, type, c), ~RawType(type)
      PROVE  sent(type, c)
  <2>1. NodeKept(Parts[p], t[p], p = <<>>)
    BY <1>1 DEF Leaves
  <2>2. t[p].kind # "multipart" /\ t[p].type = type /\ t[p].content = c
    BY <1>6 DEF Leaf
  <2>3. Parts[p].type = type /\ SameText(Parts[p].content, c)
    BY <1>6, <2>1, <2>2 DEF NodeKept
  <2>. QED
    BY <1>5, <2>3
<1>. HIDE DEF sent
<1>7. ~RawType(TextPlain) /\ ~RawType(TextHtml)
  BY DEF RawType, TextPlain, TextHtml, NoType
<1>8. ASSUME NEW c \in s.plain PROVE sent(TextPlain, c)
  <2>1. SimpleText(s)[PlainAt(s)] = Leaf("text", TextPlain, CHOOSE x \in s.plain : TRUE)
    BY <1>2, TextLeaves
  <2>2. (CHOOSE x \in s.plain : TRUE) = c
    BY <1>2
  <2>3. PlainAt(s) \in TextsAt(s)
    BY DEF TextsAt
  <2>4. Below(s, PlainAt(s)) \in Leaves(t) /\ t[Below(s, PlainAt(s))] = Leaf("text", TextPlain, c)
    BY <1>4, <2>1, <2>2, <2>3
  <2>. QED
    BY <1>3, <1>6, <1>7, <2>4
<1>9. ASSUME NEW c \in s.html PROVE sent(TextHtml, c)
  <2>1. SimpleText(s)[HtmlAt(s)] = Leaf("text", TextHtml, CHOOSE x \in s.html : TRUE)
    BY <1>2, TextLeaves
  <2>2. (CHOOSE x \in s.html : TRUE) = c
    BY <1>2
  <2>3. HtmlAt(s) \in TextsAt(s)
    BY DEF TextsAt
  <2>4. Below(s, HtmlAt(s)) \in Leaves(t) /\ t[Below(s, HtmlAt(s))] = Leaf("text", TextHtml, c)
    BY <1>4, <2>1, <2>2, <2>3
  <2>. QED
    BY <1>3, <1>6, <1>7, <2>4
<1>10. ASSUME NEW i \in DOMAIN s.attachments, NEW a, a = s.attachments[i],
             NEW w, w = Parts[<<i + 1>>]
      PROVE  SameBytes(w, a.content) /\ (~Untyped(a) => w.type = a.type)
  <2>1. <<i + 1>> \in DOMAIN t /\ <<i + 1>> # <<>>
    BY <1>4 DEF AttachedAt, Leaves
  <2>2. t[<<i + 1>>] = Leaf("binary", IF Untyped(a) THEN OctetStream ELSE a.type, a.content)
    BY <1>4, <1>10 DEF Attachment, Untyped
  <2>3. NodeKept(w, t[<<i + 1>>], <<i + 1>> = <<>>)
    BY <1>1, <1>10, <2>1
  <2>. QED
    BY <2>1, <2>2, <2>3 DEF NodeKept, Leaf
<1>11. Cardinality(Leaves(Parts))
         = Cardinality(s.plain) + Cardinality(s.html) + Len(s.attachments)
  <2>1. IsFiniteSet(texts) /\ Cardinality(texts) = Cardinality(s.plain) + Cardinality(s.html)
    BY <1>2, TextsCount
  <2>2. IsFiniteSet(AttachedAt(s)) /\ Cardinality(AttachedAt(s)) = Len(s.attachments)
    BY <1>2, AttachedCount
  <2>3. texts \cap AttachedAt(s) = {}
    BY <1>4
  <2>4. Cardinality(texts) \in Nat /\ Cardinality(AttachedAt(s)) \in Nat
    BY <2>1, <2>2, FS_CardinalityType
  <2>. HIDE DEF texts
  <2>5. Cardinality(texts \cup AttachedAt(s))
          = Cardinality(texts) + Cardinality(AttachedAt(s)) - Cardinality(texts \cap AttachedAt(s))
    BY <2>1, <2>2, FS_Union
  <2>6. Cardinality(texts \cup AttachedAt(s)) = Cardinality(texts) + Cardinality(AttachedAt(s))
    BY <2>3, <2>4, <2>5, FS_EmptySet
  <2>. QED
    BY <1>4, <1>5, <2>1, <2>2, <2>6
<1>. QED
  BY <1>8, <1>9, <1>10, <1>11 DEF SimpleKept, sent, s

-----------------------------------------------------------------------------
(* server.go:380-461, grpc.go, grpcservers/mailer.go and database/mail.go: *)
(* a mail that goes out has every part that was sent, at its place, with   *)
(* its text or bytes, its type or the default and its headers but for      *)
(* escapes, and a simple mail every text and attachment and no more.       *)
THEOREM ContentKeptHolds == Spec => []ContentKept
<1>1. IInv => ContentKept
  <2>. SUFFICES ASSUME IInv, Out PROVE ContentKept
    BY DEF ContentKept
  <2>1. RequestMade /\ wire.message.subject = EncodedHeader(request.subject)
    BY AcceptedKept
  <2>2. Marshals(request)
    BY <2>1, MailBodyAssumption DEF RequestMade, RequestWellFormed
  <2>3. DecodeHeader(Client.subject) = DecodeHeader(request.subject)
    BY <2>1 DEF RequestMade, Client, BuildGrpcRequest, ParseMessage, DecodeHeader
  <2>4. DecodeHeader(wire.message.subject) = DecodeHeader(request.subject)
    BY <2>1, <2>2 DEF Marshals, EncodedHeader, DecodeHeader
  <2>. QED
    BY <2>3, <2>4, PartsKeptHolds, SimpleKeptHolds DEF ContentKept
<1>. QED
  BY <1>1, Invariance, PTL
=============================================================================
