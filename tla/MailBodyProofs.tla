--------------------------- MODULE MailBodyProofs ---------------------------
(***************************************************************************)
(* Theorems about the way of a mail through its forms (MailBody), for      *)
(* every set of messages and requests, whatever trees they have.           *)
(*                                                                         *)
(* The invariant says of each form of the mail which function of the one   *)
(* before it is; what the properties say of the last form follows from     *)
(* lemmas about these functions.                                           *)
(***************************************************************************)
EXTENDS MailBody, TLAPS, SequenceTheorems

Received ==
  entity \in Entities /\ MessageParses(entity) /\ ValidateMail(ParseMessage(entity))

RequestMade ==
  \/ /\ route = "smtp" /\ Received
     /\ request = BuildGrpcRequest(ParseMessage(entity)) /\ Marshals(request)
  \/ route = "grpc" /\ request \in Requests

Reloaded(m) == DBEntityToMail(MailToDBEntity(m))

Pending ==
  /\ phase \in {"sent", "parsed", "refused"} => route = "smtp"
  /\ phase = "sent" => entity \in Entities
  /\ phase \in {"parsed", "unmarshalled"} =>
       Received /\ mail = ParseMessage(entity) /\ route = "smtp"
  /\ phase = "unmarshalled" => ~Marshals(BuildGrpcRequest(mail))
  /\ phase \in {"requested", "rejected"} =>
       RequestMade /\ (route = "smtp" => mail = ParseMessage(entity))
  /\ phase = "rejected" => ~PbMailAccepted(request)

Accepted ==
  /\ phase \in {"accepted", "stored", "loaded", "unstorable", "unloadable",
                "out", "panicked", "invalid"} => RequestMade /\ PbMailAccepted(request)
  /\ phase \in {"accepted", "stored", "unstorable"} => mail = Transformed(request)
  /\ phase \in {"stored", "unloadable"} => row = MailToDBEntity(Transformed(request))
  /\ phase = "unstorable" => ~Storable(MailToDBEntity(mail))
  /\ phase = "unloadable" => ~Loadable(row)
  /\ phase = "loaded" => mail = Reloaded(Transformed(request))

Ended ==
  /\ phase \in {"out", "panicked", "invalid"} =>
       mail \in {Transformed(request), Reloaded(Transformed(request))}
  /\ phase = "out" =>
       /\ ~Panics(mail.body) /\ ValidateMail(mail) /\ wire.has8Bit \in BOOLEAN
       /\ wire.message = GetInternetMessageFormat(mail, wire.has8Bit)
  /\ phase = "panicked" => Panics(mail.body)
  /\ phase = "invalid" => ~Panics(mail.body) /\ ~ValidateMail(mail)

IInv == Pending /\ Accepted /\ Ended

-----------------------------------------------------------------------------
(* Every form is what the functions make of the one before it.             *)
LEMMA IInvInit == Init => IInv
  BY DEF Init, IInv, Pending, Accepted, Ended, RequestMade

LEMMA IInvNext == IInv /\ [Next]_vars => IInv'
<1>. SUFFICES ASSUME IInv, [Next]_vars PROVE IInv'
  OBVIOUS
<1>. USE DEF IInv, Pending, Accepted, Ended, Is, Becomes
<1>1. CASE Parse
  BY <1>1 DEF Parse, Received
<1>2. CASE Refuse
  BY <1>2 DEF Refuse
<1>3. CASE Ask \/ AskFails
  BY <1>3 DEF Ask, AskFails, RequestMade, Received
<1>4. CASE Accept
  BY <1>4 DEF Accept, RequestMade, Received
<1>5. CASE Reject
  BY <1>5 DEF Reject, RequestMade, Received
<1>6. CASE Store
  BY <1>6 DEF Store, RequestMade, Received
<1>7. CASE StoreFails
  BY <1>7 DEF StoreFails, RequestMade, Received
<1>8. CASE Load
  BY <1>8 DEF Load, RequestMade, Received, Reloaded
<1>9. CASE \E has8BitMimeSupport \in BOOLEAN : Transmit(has8BitMimeSupport)
  BY <1>9 DEF Transmit, Ready, RequestMade, Received
<1>10. CASE TransmitFails
  BY <1>10 DEF TransmitFails, Ready, RequestMade, Received
<1>11. CASE Over \/ UNCHANGED vars
  BY <1>11 DEF Over, vars, RequestMade, Received
<1>. QED
  BY <1>1, <1>2, <1>3, <1>4, <1>5, <1>6, <1>7, <1>8, <1>9, <1>10, <1>11 DEF Next

LEMMA Invariance == Spec => []IInv
<1>1. Init => IInv
  BY IInvInit
<1>2. IInv /\ [Next]_vars => IInv'
  BY IInvNext
<1>. QED
  BY <1>1, <1>2, PTL DEF Spec
-----------------------------------------------------------------------------
(* What the server makes of what it accepts.                               *)
Sound(m) ==
  /\ m.body = [p \in DOMAIN m.body |-> m.body[p]] /\ <<>> \in DOMAIN m.body
  /\ \A p \in DOMAIN m.body :
       /\ m.body[p] \in NodeFields /\ m.body[p].kind # "nil"
       /\ HasChildren(m.body, p) => m.body[p].kind = "multipart"
       /\ m.body[p].kind = "multipart" => m.body[p].content = Empty

(* A request in the form of parts: of a client, or of the proxy.           *)
PartsSound(r) ==
  /\ r.body = [p \in DOMAIN r.body |-> r.body[p]] /\ <<>> \in DOMAIN r.body
  /\ \A p \in DOMAIN r.body :
       /\ r.body[p] \in PartFields
       /\ HasChildren(r.body, p) => r.body[p].oneof = "nested"
       /\ r.body[p].oneof = "nested" => r.body[p].content = Empty

LEMMA SimpleTypes ==
  /\ Empty \in ContentFields
  /\ NoType \in TypeFields /\ TextPlain \in TypeFields /\ TextHtml \in TypeFields
  /\ OctetStream \in TypeFields /\ MultipartMixed \in TypeFields
  BY DEF Empty, ContentFields, TypeFields, NoType, TextPlain, TextHtml, OctetStream,
         MultipartMixed

LEMMA ContentUpdates ==
  ASSUME NEW c \in ContentFields, NEW e \in {"lf", "crlf"}
  PROVE  /\ [c EXCEPT !.eol = e] \in ContentFields
         /\ [c EXCEPT !.eol = e].eol = e
         /\ [c EXCEPT !.eol = e].ascii = c.ascii
         /\ [c EXCEPT !.eol = e].controls = c.controls
         /\ [c EXCEPT !.eol = e].size = c.size
         /\ [c EXCEPT !.eol = e].coding = c.coding
         /\ [c EXCEPT !.coding = "utf-8"] \in ContentFields
  BY DEF ContentFields

LEMMA NodesSame ==
  ASSUME NEW t, NEW u, DOMAIN t = DOMAIN u, NEW p
  PROVE  HasChildren(t, p) <=> HasChildren(u, p)
  BY DEF HasChildren

(* server.go:403-461.                                                      *)
LEMMA ParsePartSound ==
  ASSUME NEW n \in EntityNodeFields, NEW isRoot \in BOOLEAN
  PROVE  /\ ParsePart(n, isRoot) \in NodeFields
         /\ ParsePart(n, isRoot).kind # "nil"
         /\ ParsePart(n, isRoot).type = n.type
         /\ n.type.major = "multipart" <=> ParsePart(n, isRoot).kind = "multipart"
         /\ n.type.major = "multipart" => ParsePart(n, isRoot).content = Empty
<1>1. /\ n.content \in ContentFields /\ n.type \in TypeFields /\ n.header \in HeaderKinds
      /\ Empty \in ContentFields
  BY SimpleTypes DEF EntityNodeFields
<1>2. DecodeText(n) \in ContentFields
  BY <1>1, ContentUpdates DEF DecodeText
<1>3. ParseText(n).kind \in {"text", "binary"} /\ ParseText(n).content \in ContentFields
  BY <1>1, <1>2, ContentUpdates DEF ParseText
<1>4. /\ ParseBody(n).kind \in {"text", "binary", "multipart"}
      /\ ParseBody(n).content \in ContentFields
      /\ n.type.major = "multipart" <=> ParseBody(n).kind = "multipart"
      /\ n.type.major = "multipart" => ParseBody(n).content = Empty
  <2>1. CASE n.type.major = "multipart"
    BY <1>1, <2>1 DEF ParseBody, IsText
  <2>2. CASE n.type.major # "multipart" /\ IsText(n)
    BY <1>3, <2>2 DEF ParseBody, IsText
  <2>3. CASE n.type.major # "multipart" /\ ~IsText(n)
    BY <1>1, <2>3 DEF ParseBody, IsText
  <2>. QED
    BY <2>1, <2>2, <2>3
<1>5. DecodeHeader(n.header) \in HeaderKinds /\ "none" \in HeaderKinds
  BY <1>1 DEF DecodeHeader, HeaderKinds
<1>. QED
  BY <1>1, <1>4, <1>5 DEF ParsePart, NodeFields

(* grpcservers/mailer.go:175-284.                                          *)
LEMMA TransformPartSound ==
  ASSUME NEW n \in PartFields, n.oneof # "unset"
  PROVE  /\ TransformPart(n) \in NodeFields
         /\ TransformPart(n).kind # "nil"
         /\ TransformPart(n).content = n.content
         /\ TransformPart(n).header = n.header
         /\ n.oneof = "nested" <=> TransformPart(n).kind = "multipart"
<1>1. KindOf(n.oneof) \in {"text", "binary", "multipart"}
      /\ (n.oneof = "nested" <=> KindOf(n.oneof) = "multipart")
  BY DEF PartFields, OneOf, KindOf
<1>2. DefaultType(n.oneof) \in TypeFields
  BY SimpleTypes DEF PartFields, OneOf, DefaultType
<1>. QED
  BY <1>1, <1>2 DEF TransformPart, PartFields, NodeFields

LEMMA PartsAccepted ==
  ASSUME NEW r, r.form = "parts", PartsSound(r), PbMailAccepted(r)
  PROVE  Sound(Transformed(r))
<1>. DEFINE body == [p \in DOMAIN r.body |-> TransformPart(r.body[p])]
<1>1. Transformed(r).body = body
  BY DEF Transformed
<1>2. ASSUME NEW p \in DOMAIN r.body PROVE r.body[p].oneof # "unset"
  BY DEF PbMailAccepted, Transformable, PartsTransform
<1>3. ASSUME NEW p \in DOMAIN body
      PROVE  /\ body[p] \in NodeFields /\ body[p].kind # "nil"
             /\ HasChildren(body, p) => body[p].kind = "multipart"
             /\ body[p].kind = "multipart" => body[p].content = Empty
  <2>1. p \in DOMAIN r.body /\ body[p] = TransformPart(r.body[p])
    OBVIOUS
  <2>2. HasChildren(body, p) <=> HasChildren(r.body, p)
    BY NodesSame
  <2>. QED
    BY <2>1, <2>2, <1>2, TransformPartSound DEF PartsSound
<1>. QED
  BY <1>1, <1>3 DEF Sound, PartsSound
LEMMA ParsedSound ==
  ASSUME NEW e, WellFormed(e)
  PROVE  Sound(ParseMessage(e))
<1>. DEFINE t == e.body
<1>1. /\ t = [p \in DOMAIN t |-> t[p]] /\ <<>> \in DOMAIN t
      /\ \A p \in DOMAIN t :
           t[p] \in EntityNodeFields /\ (HasChildren(t, p) => t[p].type.major = "multipart")
  BY DEF WellFormed, IsTree
<1>2. CASE e.mimeVersion
  <2>. DEFINE body == [p \in DOMAIN t |-> ParsePart(t[p], p = <<>>)]
  <2>1. ParseMessage(e).body = body
    BY <1>2 DEF ParseMessage
  <2>2. ASSUME NEW p \in DOMAIN body
        PROVE  /\ body[p] \in NodeFields /\ body[p].kind # "nil"
               /\ HasChildren(body, p) => body[p].kind = "multipart"
               /\ body[p].kind = "multipart" => body[p].content = Empty
    <3>1. p \in DOMAIN t /\ body[p] = ParsePart(t[p], p = <<>>)
      OBVIOUS
    <3>2. HasChildren(body, p) <=> HasChildren(t, p)
      BY NodesSame
    <3>3. t[p] \in EntityNodeFields /\ (p = <<>>) \in BOOLEAN
      BY <1>1, <3>1
    <3>. HIDE DEF body
    <3>. QED
      BY <1>1, <3>1, <3>2, <3>3, ParsePartSound
  <2>. QED
    BY <1>1, <2>1, <2>2 DEF Sound
<1>3. CASE ~e.mimeVersion
  <2>. DEFINE n == [kind |-> "binary", type |-> t[<<>>].type, header |-> "none",
                    content |-> t[<<>>].content]
              body == [p \in {<<>>} |-> n]
  <2>1. ParseMessage(e).body = body
    BY <1>3 DEF ParseMessage
  <2>2. n \in NodeFields
    BY <1>1 DEF EntityNodeFields, NodeFields, HeaderKinds
  <2>3. ~HasChildren(body, <<>>)
    <3>1. DOMAIN body = {<<>>}
      OBVIOUS
    <3>2. Len(<<>>) = 0
      OBVIOUS
    <3>. QED
      BY <3>1, <3>2 DEF HasChildren
  <2>. QED
    BY <2>1, <2>2, <2>3 DEF Sound
<1>. QED
  BY <1>2, <1>3 DEF WellFormed

(* smtp-proxy/grpc.go:34-109.                                              *)
LEMMA BuildSound ==
  ASSUME NEW m, Sound(m)
  PROVE  PartsSound(BuildGrpcRequest(m))
<1>. DEFINE part(n) == [oneof |-> OneOfKind(n.kind), type |-> n.type, header |-> n.header,
                        content |-> n.content]
            body == [p \in DOMAIN m.body |-> part(m.body[p])]
<1>1. BuildGrpcRequest(m).body = body
  BY DEF BuildGrpcRequest
<1>2. ASSUME NEW n \in NodeFields, n.kind # "nil"
      PROVE  /\ part(n) \in PartFields
             /\ n.kind = "multipart" <=> part(n).oneof = "nested"
  <2>1. /\ OneOfKind(n.kind) \in {"content", "bytes", "nested"}
        /\ n.kind = "multipart" <=> OneOfKind(n.kind) = "nested"
    BY <1>2 DEF NodeFields, OneOfKind
  <2>. QED
    BY <2>1 DEF NodeFields, PartFields, OneOf
<1>3. ASSUME NEW p \in DOMAIN body
      PROVE  /\ body[p] \in PartFields
             /\ HasChildren(body, p) => body[p].oneof = "nested"
             /\ body[p].oneof = "nested" => body[p].content = Empty
  <2>1. p \in DOMAIN m.body /\ body[p] = part(m.body[p])
    OBVIOUS
  <2>2. HasChildren(body, p) <=> HasChildren(m.body, p)
    BY NodesSame
  <2>3. body[p].content = m.body[p].content
    BY <2>1
  <2>. QED
    BY <1>2, <2>1, <2>2, <2>3 DEF Sound
<1>4. body = [p \in DOMAIN body |-> body[p]] /\ <<>> \in DOMAIN body
  BY DEF Sound
<1>. HIDE DEF body
<1>. QED
  BY <1>1, <1>3, <1>4 DEF PartsSound
-----------------------------------------------------------------------------
(* grpcservers/mailer.go:60-172, simple mails.                             *)
LEMMA LeafSound ==
  ASSUME NEW kind \in {"text", "binary", "multipart"}, NEW type \in TypeFields,
         NEW c \in ContentFields
  PROVE  /\ Leaf(kind, type, c) \in NodeFields
         /\ Leaf(kind, type, c).kind = kind /\ Leaf(kind, type, c).content = c
  BY DEF Leaf, NodeFields, HeaderKinds

(* The paths there are in a simple mail.                                   *)
LEMMA Pair ==
  ASSUME NEW i \in Nat, NEW j \in Nat
  PROVE  /\ <<i>> \o <<j>> = <<i, j>> /\ <<i>> \o <<>> = <<i>>
         /\ SubSeq(<<i, j>>, 1, 1) = <<i>>
<1>1. /\ <<i>> \in Seq(Nat) /\ Len(<<i>>) = 1 /\ <<i>>[1] = i
      /\ <<j>> \in Seq(Nat) /\ Len(<<j>>) = 1 /\ <<j>>[1] = j
      /\ <<i, j>> \in Seq(Nat) /\ Len(<<i, j>>) = 2 /\ <<i, j>>[1] = i /\ <<i, j>>[2] = j
  OBVIOUS
<1>2. /\ <<i>> \o <<j>> \in Seq(Nat) /\ Len(<<i>> \o <<j>>) = 2
      /\ (<<i>> \o <<j>>)[1] = i /\ (<<i>> \o <<j>>)[2] = j
  BY <1>1
<1>3. <<i>> \o <<j>> = <<i, j>>
  <2>1. \A k \in 1..2 : k = 1 \/ k = 2
    OBVIOUS
  <2>2. \A k \in 1..2 : (<<i>> \o <<j>>)[k] = <<i, j>>[k]
    BY <1>1, <1>2, <2>1
  <2>. QED
    BY <1>1, <1>2, <2>2, SeqEqual
<1>4. /\ SubSeq(<<i, j>>, 1, 1) \in Seq(Nat) /\ Len(SubSeq(<<i, j>>, 1, 1)) = 1
      /\ SubSeq(<<i, j>>, 1, 1)[1] = i
  BY <1>1
<1>5. SubSeq(<<i, j>>, 1, 1) = <<i>>
  <2>1. \A k \in 1..1 : k = 1
    OBVIOUS
  <2>2. \A k \in 1..1 : SubSeq(<<i, j>>, 1, 1)[k] = <<i>>[k]
    BY <1>1, <1>4, <2>1
  <2>. QED
    BY <1>1, <1>4, <2>2, SeqEqual
<1>6. <<i>> \o <<>> = <<i>>
  BY <1>1, ConcatEmptySeq
<1>. QED
  BY <1>3, <1>5, <1>6

(* The paths of a text are the root and at most two below it.              *)
LEMMA SimpleTextSound ==
  ASSUME NEW s \in SimpleFields, s.plain \cup s.html # {}
  PROVE  /\ DOMAIN SimpleText(s) \in {{<<>>}, {<<>>, <<1>>, <<2>>}}
         /\ SimpleText(s) = [p \in DOMAIN SimpleText(s) |-> SimpleText(s)[p]]
         /\ \A p \in DOMAIN SimpleText(s) :
              /\ SimpleText(s)[p] \in NodeFields /\ SimpleText(s)[p].kind # "nil"
              /\ SimpleText(s)[p].kind = "multipart" <=> DOMAIN SimpleText(s) # {<<>>} /\ p = <<>>
              /\ SimpleText(s)[p].kind = "multipart" => SimpleText(s)[p].content = Empty
<1>. DEFINE plain == Leaf("text", TextPlain, CHOOSE c \in s.plain : TRUE)
<1>. DEFINE html == Leaf("text", TextHtml, CHOOSE c \in s.html : TRUE)
<1>1. s.plain \subseteq ContentFields /\ s.html \subseteq ContentFields
  BY DEF SimpleFields
<1>2. ASSUME s.plain # {} PROVE plain \in NodeFields /\ plain.kind = "text"
  <2>1. (CHOOSE c \in s.plain : TRUE) \in ContentFields
    BY <1>1, <1>2
  <2>. QED
    BY <2>1, SimpleTypes, LeafSound
<1>3. ASSUME s.html # {} PROVE html \in NodeFields /\ html.kind = "text"
  <2>1. (CHOOSE c \in s.html : TRUE) \in ContentFields
    BY <1>1, <1>3
  <2>. QED
    BY <2>1, SimpleTypes, LeafSound
<1>4. Multipart \in NodeFields /\ Multipart.kind = "multipart" /\ Multipart.content = Empty
  BY SimpleTypes, LeafSound DEF Multipart
<1>. HIDE DEF plain, html
<1>5. SimpleText(s) = CASE s.html = {} -> [p \in {<<>>} |-> plain]
        [] s.html # {} /\ s.plain = {} -> [p \in {<<>>} |-> html]
        [] OTHER -> [p \in {<<>>, <<1>>, <<2>>} |->
                       CASE p = <<>> -> Multipart [] p = <<1>> -> plain [] OTHER -> html]
  BY DEF SimpleText, plain, html
<1>6. CASE s.html = {}
  BY <1>2, <1>5, <1>6
<1>7. CASE s.html # {} /\ s.plain = {}
  BY <1>3, <1>5, <1>7
<1>8. CASE s.html # {} /\ s.plain # {}
  <2>. DEFINE node(p) == CASE p = <<>> -> Multipart [] p = <<1>> -> plain [] OTHER -> html
  <2>1. SimpleText(s) = [p \in {<<>>, <<1>>, <<2>>} |-> node(p)]
    BY <1>5, <1>8
  <2>2. <<>> # <<1>> /\ <<>> # <<2>> /\ <<1>> # <<2>>
    OBVIOUS
  <2>3. node(<<>>) = Multipart /\ node(<<1>>) = plain /\ node(<<2>>) = html
    BY <2>2
  <2>. HIDE DEF node
  <2>4. /\ DOMAIN SimpleText(s) = {<<>>, <<1>>, <<2>>} /\ DOMAIN SimpleText(s) # {<<>>}
        /\ SimpleText(s) = [p \in DOMAIN SimpleText(s) |-> SimpleText(s)[p]]
    BY <2>1, <2>2
  <2>5. \A p \in DOMAIN SimpleText(s) :
          SimpleText(s)[p] = node(p) /\ (p = <<>> \/ p = <<1>> \/ p = <<2>>)
    BY <2>1, <2>4
  <2>. QED
    BY <1>2, <1>3, <1>4, <1>8, <2>2, <2>3, <2>4, <2>5
<1>. QED
  BY <1>6, <1>7, <1>8
LEMMA AttachmentSound ==
  ASSUME NEW a \in AttachmentFields
  PROVE  Attachment(a) \in NodeFields /\ Attachment(a).kind = "binary"
<1>1. a.type \in TypeFields /\ a.content \in ContentFields
  BY DEF AttachmentFields
<1>2. (IF a.type.major = "none" THEN OctetStream ELSE a.type) \in TypeFields
  BY <1>1, SimpleTypes
<1>. QED
  BY <1>1, <1>2, LeafSound DEF Attachment

LEMMA SimpleTreeSound ==
  ASSUME NEW s \in SimpleFields, s.plain \cup s.html # {},
         NEW t, t = SimpleTree(s)
  PROVE  /\ t = [p \in DOMAIN t |-> t[p]] /\ <<>> \in DOMAIN t
         /\ \A p \in DOMAIN t :
              /\ t[p] \in NodeFields /\ t[p].kind # "nil"
              /\ HasChildren(t, p) => t[p].kind = "multipart"
              /\ t[p].kind = "multipart" => t[p].content = Empty
<1>. DEFINE text == SimpleText(s)
            attached == {<<i + 1>> : i \in DOMAIN s.attachments}
            texts == {<<1>> \o p : p \in DOMAIN text}
            node(p) == CASE p = <<>> -> Multipart
                         [] p \in texts -> text[Tail(p)]
                         [] OTHER -> Attachment(s.attachments[p[1] - 1])
            tree == [p \in {<<>>} \cup texts \cup attached |-> node(p)]
<1>1. /\ DOMAIN text \in {{<<>>}, {<<>>, <<1>>, <<2>>}}
      /\ \A p \in DOMAIN text :
           /\ text[p] \in NodeFields /\ text[p].kind # "nil"
           /\ text[p].kind = "multipart" <=> DOMAIN text # {<<>>} /\ p = <<>>
           /\ text[p].kind = "multipart" => text[p].content = Empty
  BY SimpleTextSound
<1>2. /\ Multipart \in NodeFields /\ Multipart.kind = "multipart" /\ Multipart.content = Empty
  BY SimpleTypes, LeafSound DEF Multipart
<1>3. t = IF s.attachments = <<>> THEN text ELSE tree
  BY DEF SimpleTree
<1>4. text = [p \in DOMAIN text |-> text[p]]
  BY SimpleTextSound
<1>5. CASE s.attachments = <<>>
  <2>1. ASSUME NEW p \in DOMAIN text, HasChildren(text, p)
        PROVE  p = <<>> /\ DOMAIN text # {<<>>}
    <3>1. PICK q \in DOMAIN text : Len(q) = Len(p) + 1
      BY <2>1 DEF HasChildren
    <3>2. Len(<<>>) = 0 /\ Len(<<1>>) = 1 /\ Len(<<2>>) = 1
      OBVIOUS
    <3>. QED
      BY <1>1, <3>1, <3>2
  <2>. HIDE DEF text
  <2>. QED
    BY <1>1, <1>3, <1>4, <1>5, <2>1
<1>6. CASE s.attachments # <<>>
  <2>1. t = tree
    BY <1>3, <1>6
  <2>2. s.attachments \in Seq(AttachmentFields)
    BY DEF SimpleFields
  <2>3. /\ <<1>> \o <<>> = <<1>> /\ <<1>> \o <<1>> = <<1, 1>> /\ <<1>> \o <<2>> = <<1, 2>>
    BY Pair
  <2>4. texts = IF DOMAIN text = {<<>>} THEN {<<1>>} ELSE {<<1>>, <<1, 1>>, <<1, 2>>}
    BY <1>1, <2>3
  <2>5. ASSUME NEW p \in texts
        PROVE  /\ tree[p] = text[Tail(p)] /\ Tail(p) \in DOMAIN text
               /\ p = <<1>> <=> Tail(p) = <<>>
    <3>1. Tail(<<1>>) = <<>> /\ Tail(<<1, 1>>) = <<1>> /\ Tail(<<1, 2>>) = <<2>>
      OBVIOUS
    <3>2. p \in {<<1>>, <<1, 1>>, <<1, 2>>} /\ p # <<>>
      <4>. HIDE DEF texts
      <4>1. p \in {<<1>>, <<1, 1>>, <<1, 2>>}
        BY <2>4
      <4>2. <<1>> # <<>> /\ <<1, 1>> # <<>> /\ <<1, 2>> # <<>>
        OBVIOUS
      <4>. QED
        BY <4>1, <4>2
    <3>3. node(p) = text[Tail(p)]
      BY <3>2
    <3>4. tree[p] = node(p)
      OBVIOUS
    <3>. HIDE DEF tree, texts, text, node
    <3>5. p = <<1>> <=> Tail(p) = <<>>
      <4>1. <<1>> # <<>> /\ <<2>> # <<>> /\ <<1>> # <<1, 1>> /\ <<1>> # <<1, 2>>
        OBVIOUS
      <4>. QED
        BY <3>1, <3>2, <4>1
    <3>6. Tail(p) \in DOMAIN text
      <4>1. CASE DOMAIN text = {<<>>}
        BY <2>4, <3>1, <4>1
      <4>2. CASE DOMAIN text = {<<>>, <<1>>, <<2>>}
        BY <3>1, <3>2, <4>2
      <4>. QED
        BY <1>1, <4>1, <4>2
    <3>. QED
      BY <3>3, <3>4, <3>5, <3>6
  <2>6. ASSUME NEW p \in attached
        PROVE  /\ p \notin texts /\ Len(p) = 1 /\ p # <<1>> /\ p \in Seq(Nat)
               /\ tree[p] \in NodeFields /\ tree[p].kind = "binary"
    <3>1. PICK i \in DOMAIN s.attachments : p = <<i + 1>>
      OBVIOUS
    <3>2. i \in Nat /\ i >= 1 /\ p[1] - 1 = i /\ Len(p) = 1 /\ p \in Seq(Nat)
      BY <2>2, <3>1
    <3>3. p # <<1>> /\ p # <<1, 1>> /\ p # <<1, 2>> /\ p # <<>>
      <4>1. Len(<<1, 1>>) = 2 /\ Len(<<1, 2>>) = 2 /\ Len(<<>>) = 0 /\ <<1>>[1] = 1
        OBVIOUS
      <4>. QED
        BY <3>1, <3>2, <4>1
    <3>4. p \notin texts
      BY <2>4, <3>3
    <3>5. node(p) = Attachment(s.attachments[i])
      BY <3>2, <3>3, <3>4
    <3>6. tree[p] = node(p)
      OBVIOUS
    <3>7. s.attachments[i] \in AttachmentFields
      BY <2>2
    <3>. QED
      BY <3>2, <3>3, <3>4, <3>5, <3>6, <3>7, AttachmentSound
  <2>7. tree[<<>>] = Multipart /\ <<>> \in DOMAIN tree
    BY DEF node
  <2>8. DOMAIN tree = {<<>>} \cup texts \cup attached
    OBVIOUS
  <2>9. ASSUME NEW p \in DOMAIN tree, p # <<>>, HasChildren(tree, p)
        PROVE  p = <<1>> /\ DOMAIN text # {<<>>}
    <3>1. PICK q \in DOMAIN tree : Len(q) = Len(p) + 1 /\ SubSeq(q, 1, Len(p)) = p
      BY <2>9 DEF HasChildren
    <3>2. /\ Len(<<>>) = 0 /\ Len(<<1>>) = 1 /\ Len(<<1, 1>>) = 2 /\ Len(<<1, 2>>) = 2
      OBVIOUS
    <3>3. SubSeq(<<1, 1>>, 1, 1) = <<1>> /\ SubSeq(<<1, 2>>, 1, 1) = <<1>>
      BY Pair
    <3>. HIDE DEF tree, texts, attached
    <3>4. Len(p) \in {1, 2} /\ Len(q) \in {0, 1, 2}
      BY <2>4, <2>6, <2>8, <2>9, <3>1, <3>2
    <3>5. Len(p) = 1 /\ Len(q) = 2
      BY <3>1, <3>4
    <3>6. q \in {<<1, 1>>, <<1, 2>>} /\ DOMAIN text # {<<>>}
      <4>. HIDE DEF text
      <4>1. q \in texts /\ Len(q) = 2
        BY <2>6, <2>8, <3>2, <3>5
      <4>. QED
        BY <2>4, <3>2, <4>1
    <3>. QED
      BY <3>1, <3>3, <3>5, <3>6
  <2>. HIDE DEF texts, attached, text, node
  <2>10. tree = [p \in DOMAIN tree |-> tree[p]]
    OBVIOUS
  <2>. HIDE DEF tree
  <2>11. ASSUME NEW p \in DOMAIN tree
         PROVE  /\ tree[p] \in NodeFields /\ tree[p].kind # "nil"
                /\ HasChildren(tree, p) => tree[p].kind = "multipart"
                /\ tree[p].kind = "multipart" => tree[p].content = Empty
    <3>1. CASE p = <<>>
      BY <1>2, <2>7, <3>1
    <3>2. CASE p \in texts /\ p # <<>>
      BY <1>1, <2>5, <2>9, <3>2
    <3>3. CASE p \in attached /\ p # <<>>
      BY <2>6, <2>9, <3>3
    <3>. QED
      BY <2>8, <3>1, <3>2, <3>3
  <2>. QED
    BY <2>1, <2>7, <2>10, <2>11
<1>. QED
  BY <1>5, <1>6
-----------------------------------------------------------------------------
(* Whatever the server accepts is sound, and has an address that is read   *)
(* back as it is printed.                                                  *)
LEMMA AcceptedSound ==
  ASSUME RequestMade, PbMailAccepted(request)
  PROVE  /\ Sound(Transformed(request)) /\ ValidateMail(Transformed(request))
         /\ Transformed(request).addr = "plain"
<1>1. ValidateMail(Transformed(request)) /\ Transformable(request)
  BY DEF PbMailAccepted
<1>2. Transformed(request).addr = "plain"
  BY <1>1 DEF Transformable, Transforms, Transformed
<1>3. CASE route = "smtp" /\ Received /\ request = BuildGrpcRequest(ParseMessage(entity))
  <2>1. WellFormed(entity)
    BY <1>3, MailBodyAssumption DEF Received
  <2>2. PartsSound(request)
    BY <1>3, <2>1, ParsedSound, BuildSound
  <2>3. request.form = "parts"
    BY <1>3 DEF BuildGrpcRequest
  <2>. QED
    BY <1>1, <1>2, <2>2, <2>3, PartsAccepted
<1>4. CASE request \in Requests /\ request.form = "parts"
  <2>1. PartsSound(request)
    BY <1>4, MailBodyAssumption DEF RequestWellFormed, IsTree, PartsSound
  <2>. QED
    BY <1>1, <1>2, <1>4, <2>1, PartsAccepted
<1>5. CASE request \in Requests /\ request.form = "simple"
  <2>1. request.simple \in SimpleFields
    BY <1>5, MailBodyAssumption DEF RequestWellFormed
  <2>2. request.simple.plain \cup request.simple.html # {}
    BY <1>1, <1>5 DEF Transformable
  <2>3. Transformed(request).body = SimpleTree(request.simple)
    BY <1>5 DEF Transformed
  <2>4. Sound(Transformed(request))
    BY <2>1, <2>2, <2>3, SimpleTreeSound DEF Sound
  <2>. QED
    BY <1>1, <1>2, <2>4
<1>6. request \in Requests => request.form \in {"parts", "simple"}
  BY MailBodyAssumption
<1>. QED
  BY <1>3, <1>4, <1>5, <1>6 DEF RequestMade

-----------------------------------------------------------------------------
(* database/mail.go:61-95: a part comes back from its row as it was, but   *)
(* for the headers of the root, unless it holds nothing: then as none.     *)
LEMMA NodeRoundTrip ==
  ASSUME NEW n \in NodeFields, n.kind # "nil", NEW isRoot \in BOOLEAN,
         NEW hasChildren \in BOOLEAN,
         hasChildren => n.kind = "multipart", n.kind = "multipart" => n.content = Empty,
         NEW back, back = PartFromRow(RowNode(n, isRoot), hasChildren)
  PROVE  /\ back \in NodeFields
         /\ back.kind = "nil" <=> ~hasChildren /\ n.content.size = "empty"
         /\ back.kind # "nil" =>
              /\ back.kind = n.kind /\ back.type = n.type /\ back.content = n.content
              /\ back.header = IF isRoot THEN "none" ELSE n.header
<1>. DEFINE r == RowNode(n, isRoot)
<1>1. /\ n.kind \in {"text", "binary", "multipart"} /\ n.content \in ContentFields
      /\ n.type \in TypeFields /\ n.header \in HeaderKinds
  BY DEF NodeFields
<1>2. Empty \in ContentFields /\ Empty.size = "empty"
  BY SimpleTypes DEF Empty
<1>3. /\ r.type = n.type /\ r.header = (IF isRoot THEN "none" ELSE n.header)
      /\ r.text = (IF n.kind = "text" THEN n.content ELSE Empty)
      /\ r.data = (IF n.kind = "binary" THEN n.content ELSE Empty)
  BY DEF RowNode
<1>. HIDE DEF r
<1>4. Kind(r, hasChildren) = IF hasChildren \/ n.content.size # "empty" THEN n.kind ELSE "nil"
  <2>1. CASE n.kind = "text"
    BY <1>2, <1>3, <2>1 DEF Kind
  <2>2. CASE n.kind = "binary"
    BY <1>2, <1>3, <2>2 DEF Kind
  <2>3. CASE n.kind = "multipart"
    BY <1>2, <1>3, <2>3 DEF Kind
  <2>. QED
    BY <1>1, <2>1, <2>2, <2>3
<1>5. back = [kind |-> Kind(r, hasChildren), type |-> r.type, header |-> r.header,
              content |-> CASE Kind(r, hasChildren) = "text" -> r.text
                            [] Kind(r, hasChildren) = "binary" -> r.data
                            [] OTHER -> Empty]
  BY DEF PartFromRow, r
<1>6. CASE hasChildren \/ n.content.size # "empty"
  <2>1. back.kind = n.kind /\ back.kind # "nil" /\ back.type = n.type /\ back.header = r.header
    BY <1>4, <1>5, <1>6, <1>3
  <2>2. back.content = n.content
    <3>1. CASE n.kind = "text"
      BY <1>3, <1>4, <1>5, <1>6, <3>1
    <3>2. CASE n.kind = "binary"
      BY <1>3, <1>4, <1>5, <1>6, <3>2
    <3>3. CASE n.kind = "multipart"
      BY <1>3, <1>4, <1>5, <1>6, <3>3
    <3>. QED
      BY <1>1, <3>1, <3>2, <3>3
  <2>3. back \in NodeFields
    BY <1>1, <1>3, <1>5, <2>1, <2>2 DEF NodeFields, HeaderKinds
  <2>. QED
    BY <1>3, <1>6, <2>1, <2>2, <2>3
<1>7. CASE ~hasChildren /\ n.content.size = "empty"
  BY <1>1, <1>2, <1>3, <1>4, <1>5, <1>7 DEF NodeFields, HeaderKinds
<1>. QED
  BY <1>6, <1>7
LEMMA RowRoundTrip ==
  ASSUME NEW m, Sound(m)
  PROVE  /\ DOMAIN Reloaded(m).body = DOMAIN m.body
         /\ \A p \in DOMAIN m.body :
              LET n == m.body[p]
                  back == Reloaded(m).body[p]
              IN  /\ back \in NodeFields
                  /\ back.kind = "nil" <=> ~HasChildren(m.body, p) /\ n.content.size = "empty"
                  /\ back.kind # "nil" =>
                       /\ back.kind = n.kind /\ back.type = n.type /\ back.content = n.content
                       /\ back.header = IF p = <<>> THEN "none" ELSE n.header
<1>. DEFINE rows == [p \in DOMAIN m.body |-> RowNode(m.body[p], p = <<>>)]
            body == [p \in DOMAIN rows |-> PartFromRow(rows[p], HasChildren(rows, p))]
<1>1. Reloaded(m).body = body
  <2>1. MailToDBEntity(m).body = rows
    BY DEF MailToDBEntity
  <2>. HIDE DEF rows
  <2>. QED
    BY <2>1 DEF Reloaded, DBEntityToMail
<1>2. DOMAIN body = DOMAIN m.body
  OBVIOUS
<1>3. ASSUME NEW p \in DOMAIN m.body
      PROVE  body[p] = PartFromRow(RowNode(m.body[p], p = <<>>), HasChildren(m.body, p))
  <2>1. DOMAIN rows = DOMAIN m.body /\ rows[p] = RowNode(m.body[p], p = <<>>)
    OBVIOUS
  <2>. HIDE DEF rows
  <2>2. HasChildren(rows, p) <=> HasChildren(m.body, p)
    BY <2>1, NodesSame
  <2>3. HasChildren(rows, p) = HasChildren(m.body, p)
    BY <2>2 DEF HasChildren
  <2>. QED
    BY <2>1, <2>3
<1>. HIDE DEF body, rows
<1>4. ASSUME NEW p \in DOMAIN m.body
      PROVE  LET n == m.body[p]
                 back == body[p]
             IN  /\ back \in NodeFields
                 /\ back.kind = "nil" <=> ~HasChildren(m.body, p) /\ n.content.size = "empty"
                 /\ back.kind # "nil" =>
                      /\ back.kind = n.kind /\ back.type = n.type /\ back.content = n.content
                      /\ back.header = IF p = <<>> THEN "none" ELSE n.header
  <2>1. /\ m.body[p] \in NodeFields /\ m.body[p].kind # "nil"
        /\ HasChildren(m.body, p) => m.body[p].kind = "multipart"
        /\ m.body[p].kind = "multipart" => m.body[p].content = Empty
    BY DEF Sound
  <2>2. PICK hasChildren \in BOOLEAN : hasChildren = HasChildren(m.body, p)
    BY DEF HasChildren
  <2>3. PICK isRoot \in BOOLEAN : isRoot = (p = <<>>)
    OBVIOUS
  <2>4. body[p] = PartFromRow(RowNode(m.body[p], isRoot), hasChildren)
    BY <1>3, <2>2, <2>3
  <2>5. hasChildren => m.body[p].kind = "multipart"
    BY <2>1, <2>2
  <2>6. /\ body[p] \in NodeFields
        /\ body[p].kind = "nil" <=> ~hasChildren /\ m.body[p].content.size = "empty"
        /\ body[p].kind # "nil" =>
             /\ body[p].kind = m.body[p].kind /\ body[p].type = m.body[p].type
             /\ body[p].content = m.body[p].content
             /\ body[p].header = IF isRoot THEN "none" ELSE m.body[p].header
    BY <2>1, <2>4, <2>5, NodeRoundTrip
  <2>. QED
    BY <2>2, <2>3, <2>6
<1>. QED
  BY <1>1, <1>2, <1>4

(* What is loaded is as valid as what was stored.                          *)
LEMMA ReloadedValid ==
  ASSUME NEW m, Sound(m), ValidateMail(m), ~Panics(Reloaded(m).body)
  PROVE  ValidateMail(Reloaded(m))
<1>. DEFINE back == Reloaded(m).body
<1>1. /\ DOMAIN back = DOMAIN m.body /\ <<>> \in DOMAIN m.body
      /\ \A p \in DOMAIN m.body :
           /\ back[p].kind = m.body[p].kind /\ back[p].type = m.body[p].type
           /\ back[p].content = m.body[p].content
           /\ p # <<>> => back[p].header = m.body[p].header
  BY RowRoundTrip DEF Panics, Sound
<1>2. Reloaded(m).extra = m.extra /\ Reloaded(m).subject = m.subject
  BY DEF Reloaded, DBEntityToMail, MailToDBEntity
<1>. HIDE DEF back
<1>3. ValidRoot(back[<<>>])
  BY <1>1 DEF ValidateMail, ValidTree, ValidRoot, ValidMultipart, ValidPart
<1>4. ASSUME NEW p \in DOMAIN back \ {<<>>} PROVE ValidChild(back[p])
  BY <1>1 DEF ValidateMail, ValidTree, ValidChild, ValidMultipart, ValidPart
<1>. QED
  BY <1>2, <1>3, <1>4 DEF ValidateMail, ValidTree, back

LEMMA UnstorableHasNul ==
  ASSUME NEW m, Sound(m), ~Storable(MailToDBEntity(m))
  PROVE  \E p \in DOMAIN m.body :
           m.body[p].content.controls = "nul" \/ m.body[p].type.params = "nul"
<1>. DEFINE rows == [p \in DOMAIN m.body |-> RowNode(m.body[p], p = <<>>)]
<1>1. MailToDBEntity(m).body = rows
  BY DEF MailToDBEntity
<1>2. PICK p \in DOMAIN m.body : rows[p].text.controls = "nul" \/ rows[p].type.params = "nul"
  BY <1>1 DEF Storable
<1>3. rows[p] = RowNode(m.body[p], p = <<>>)
  OBVIOUS
<1>. QED
  BY <1>2, <1>3 DEF RowNode, Empty

LEMMA PanicHoldsNothing ==
  ASSUME NEW m, Sound(m), Panics(Reloaded(m).body)
  PROVE  HoldsNothing(m.body)
  BY RowRoundTrip DEF Panics, HoldsNothing, Leaves
(* What goes out is typed and valid: what was accepted or what was loaded. *)
LEMMA SentSound ==
  ASSUME IInv, Out
  PROVE  /\ <<>> \in DOMAIN mail.body
         /\ ValidTree(mail.body) /\ wire.has8Bit \in BOOLEAN
         /\ wire.message = GetInternetMessageFormat(mail, wire.has8Bit)
         /\ \A p \in DOMAIN mail.body :
              mail.body[p] \in NodeFields /\ mail.body[p].kind # "nil"
<1>1. /\ RequestMade /\ PbMailAccepted(request)
      /\ mail \in {Transformed(request), Reloaded(Transformed(request))}
      /\ ~Panics(mail.body) /\ ValidateMail(mail) /\ wire.has8Bit \in BOOLEAN
      /\ wire.message = GetInternetMessageFormat(mail, wire.has8Bit)
  BY DEF IInv, Accepted, Ended, Out
<1>2. Sound(Transformed(request))
  BY <1>1, AcceptedSound
<1>3. ASSUME NEW p \in DOMAIN mail.body PROVE mail.body[p] \in NodeFields
  <2>1. CASE mail = Transformed(request)
    BY <1>2, <2>1 DEF Sound
  <2>2. CASE mail = Reloaded(Transformed(request))
    BY <1>2, <2>2, RowRoundTrip
  <2>. QED
    BY <1>1, <2>1, <2>2
<1>4. <<>> \in DOMAIN mail.body
  BY <1>1, <1>2, RowRoundTrip DEF Sound
<1>. QED
  BY <1>1, <1>3, <1>4 DEF Panics, ValidateMail

(* part.go:160-179, encoding.go:89-128, on one part.                       *)
LEMMA Encoded7or8 ==
  ASSUME NEW n \in NodeFields, n.kind \in {"text", "binary"}, NEW has8Bit \in BOOLEAN,
         NEW w, w = EncodeLeaf(n, has8Bit)
  PROVE  /\ w.type = n.type
         /\ w.encoding \in {"7bit", "8bit", "quoted-printable", "base64"}
         /\ w.encoding = "7bit" => Acceptable7Bit(Bytes(n))
         /\ w.encoding = "8bit" => Acceptable8Bit(Bytes(n)) /\ has8Bit
         /\ Acceptable7Bit(n.content) => w.encoding = "7bit"
         /\ w.encoding \in {"7bit", "8bit"} =>
              /\ w.content.eol = "crlf" /\ w.content.size = n.content.size
              /\ w.content.controls = n.content.controls
              /\ w.content.ascii = n.content.ascii /\ w.content.coding = n.content.coding
<1>. DEFINE c == Bytes(n)
            encoding == Encoding(c, has8Bit)
<1>1. n.content \in ContentFields
  BY DEF NodeFields
<1>2. /\ c \in ContentFields /\ c.size = n.content.size /\ c.controls = n.content.controls
      /\ c.ascii = n.content.ascii /\ c.coding = n.content.coding
      /\ n.content.eol = "crlf" => c.eol = "crlf"
  BY <1>1, ContentUpdates DEF Bytes
<1>. HIDE DEF c
<1>3. /\ encoding \in {"7bit", "8bit", "quoted-printable", "base64"}
      /\ encoding = "7bit" => Acceptable7Bit(c)
      /\ encoding = "8bit" => Acceptable8Bit(c) /\ has8Bit
      /\ Acceptable7Bit(c) => encoding = "7bit"
  BY DEF Encoding, Acceptable7Bit, Acceptable8Bit, ValidUtf8, FitsLines
<1>. HIDE DEF encoding
<1>4. /\ w.type = n.type /\ w.encoding = encoding /\ w.content = Sent(c, encoding)
  BY DEF EncodeLeaf, encoding, c
<1>5. Acceptable7Bit(n.content) => Acceptable7Bit(c)
  BY <1>2 DEF Acceptable7Bit, Acceptable8Bit, ValidUtf8, FitsLines
<1>6. encoding # "base64" =>
        /\ w.content.eol = "crlf" /\ w.content.size = c.size
        /\ w.content.controls = c.controls
        /\ w.content.ascii = c.ascii /\ w.content.coding = c.coding
  BY <1>2, <1>4, ContentUpdates DEF Sent
<1>. QED
  BY <1>2, <1>3, <1>4, <1>5, <1>6 DEF c

LEMMA EncodedMultipart ==
  ASSUME NEW n \in NodeFields, NEW has8Bit \in BOOLEAN, NEW w, w = EncodeMultipart(n, has8Bit)
  PROVE  /\ w.content = Empty /\ w.encoding = IF has8Bit THEN "8bit" ELSE "7bit"
         /\ w.type.params \in {"ascii", "percent"}
<1>1. n.type \in TypeFields
  BY DEF NodeFields
<1>2. w.type = [n.type EXCEPT !.boundary = "valid", !.lower = TRUE,
                              !.params = IF @ = "ascii" THEN "ascii" ELSE "percent"]
  BY DEF EncodeMultipart
<1>3. w.type.params \in {"ascii", "percent"}
  BY <1>1, <1>2 DEF TypeFields
<1>. QED
  BY <1>3 DEF EncodeMultipart

(* imf.go:32-55: the root differs from what its part is encoded to in the  *)
(* escape of its type.                                                     *)
LEMMA PartEncoded ==
  ASSUME IInv, Out, NEW p \in DOMAIN Parts,
         NEW part, part = EncodePart(mail.body[p], wire.has8Bit)
  PROVE  /\ p \in DOMAIN mail.body
         /\ mail.body[p] \in NodeFields /\ mail.body[p].kind \in {"text", "binary", "multipart"}
         /\ ValidPart(mail.body[p]) /\ wire.has8Bit \in BOOLEAN
         /\ Parts[p].encoding = part.encoding /\ Parts[p].content = part.content
         /\ Parts[p].header = mail.body[p].header
         /\ Parts[p].type = IF p = <<>> THEN EncodedType(part.type) ELSE part.type
<1>1. /\ ValidTree(mail.body) /\ wire.has8Bit \in BOOLEAN
      /\ wire.message = GetInternetMessageFormat(mail, wire.has8Bit)
      /\ \A q \in DOMAIN mail.body :
           mail.body[q] \in NodeFields /\ mail.body[q].kind # "nil"
  BY SentSound
<1>2. /\ p \in DOMAIN mail.body
      /\ Parts[p] = IF p = <<>> THEN [part EXCEPT !.type = EncodedType(@)] ELSE part
  BY <1>1 DEF GetInternetMessageFormat, Parts
<1>3. mail.body[p].kind \in {"text", "binary", "multipart"}
  BY <1>1, <1>2 DEF NodeFields
<1>4. ValidPart(mail.body[p])
  <2>1. CASE p = <<>>
    BY <1>1, <2>1 DEF ValidTree, ValidRoot
  <2>2. CASE p # <<>>
    BY <1>1, <1>2, <2>2 DEF ValidTree, ValidChild
  <2>. QED
    BY <2>1, <2>2
<1>5. /\ Parts[p].encoding = part.encoding /\ Parts[p].content = part.content
      /\ Parts[p].header = mail.body[p].header
      /\ Parts[p].type = IF p = <<>> THEN EncodedType(part.type) ELSE part.type
  <2>1. part = [type |-> part.type, header |-> mail.body[p].header,
                encoding |-> part.encoding, content |-> part.content]
    BY DEF EncodePart, EncodeLeaf, EncodeMultipart
  <2>. QED
    BY <1>2, <2>1
<1>. QED
  BY <1>1, <1>2, <1>3, <1>4, <1>5

-----------------------------------------------------------------------------
(* part.go:45, encoding.go:49-51: in every message that goes out, a        *)
(* multipart and an embedded message are 7bit or 8bit.                     *)
THEOREM CompositeUnencodedHolds == Spec => []CompositeUnencoded
<1>1. IInv => CompositeUnencoded
  <2>. SUFFICES ASSUME IInv, Out, NEW p \in DOMAIN mail.body,
                       Requires7or8Bit(mail.body[p].type)
                PROVE  Parts[p].encoding \in {"7bit", "8bit"}
    BY DEF CompositeUnencoded
  <2>1. DOMAIN Parts = DOMAIN mail.body
    BY SentSound DEF GetInternetMessageFormat, Parts
  <2>2. CASE mail.body[p].kind = "multipart"
    BY <2>1, <2>2, PartEncoded, EncodedMultipart DEF EncodePart
  <2>3. CASE mail.body[p].kind # "multipart"
    <3>. DEFINE n == mail.body[p]
    <3>1. /\ n \in NodeFields /\ n.kind \in {"text", "binary"}
          /\ ValidPart(n) /\ wire.has8Bit \in BOOLEAN
          /\ Parts[p].encoding = EncodeLeaf(n, wire.has8Bit).encoding
      BY <2>1, <2>3, PartEncoded DEF EncodePart
    <3>2. Acceptable7Bit(n.content)
      BY <3>1 DEF ValidPart
    <3>. QED
      BY <3>1, <3>2, Encoded7or8
  <2>. QED
    BY <2>2, <2>3
<1>. QED
  BY <1>1, Invariance, PTL

(* encoding.go:53-128, on one part.                                        *)
LEMMA ContentFits ==
  ASSUME IInv, Out, NEW p \in DOMAIN Parts, NEW w, w = Parts[p]
  PROVE  /\ w.encoding = "7bit" => w.content.ascii
         /\ w.encoding = "8bit" => wire.has8Bit /\ ValidUtf8(w.content)
         /\ w.encoding \in {"7bit", "8bit"} =>
              /\ w.content.controls = "none" /\ w.content.size # "longline"
              /\ w.content.eol = "crlf"
         /\ w.encoding = "7bit" /\ mail.body[p].kind = "multipart" => ~wire.has8Bit
<1>. DEFINE n == mail.body[p]
<1>1. CASE n.kind = "multipart"
  BY <1>1, PartEncoded, EncodedMultipart DEF EncodePart, Empty, ValidUtf8
<1>2. CASE n.kind # "multipart"
  <2>. DEFINE leaf == EncodeLeaf(n, wire.has8Bit)
  <2>1. /\ n \in NodeFields /\ n.kind \in {"text", "binary"} /\ wire.has8Bit \in BOOLEAN
        /\ w.encoding = leaf.encoding /\ w.content = leaf.content
    BY <1>2, PartEncoded DEF EncodePart
  <2>2. /\ Bytes(n).size = n.content.size /\ Bytes(n).controls = n.content.controls
        /\ Bytes(n).ascii = n.content.ascii /\ Bytes(n).coding = n.content.coding
    BY <2>1, ContentUpdates DEF Bytes, NodeFields
  <2>3. /\ leaf.encoding = "7bit" => Acceptable7Bit(Bytes(n))
        /\ leaf.encoding = "8bit" => Acceptable8Bit(Bytes(n)) /\ wire.has8Bit
        /\ leaf.encoding \in {"7bit", "8bit"} =>
             /\ leaf.content.eol = "crlf" /\ leaf.content.size = n.content.size
             /\ leaf.content.controls = n.content.controls
             /\ leaf.content.ascii = n.content.ascii /\ leaf.content.coding = n.content.coding
    BY <2>1, Encoded7or8
  <2>. HIDE DEF n, leaf
  <2>. QED
    BY <1>2, <2>1, <2>2, <2>3 DEF n, Acceptable7Bit, Acceptable8Bit, ValidUtf8, FitsLines
<1>. QED
  BY <1>1, <1>2

(* part.go:131-179, imf.go:51: no head is raw that was not so in the mail, *)
(* and the type of the root never is.                                      *)
LEMMA HeadFits ==
  ASSUME IInv, Out, NEW p \in DOMAIN Parts
  PROVE  /\ RawHead(Parts[p]) => Excused(mail.body[p])
         /\ p = <<>> => ~RawType(Parts[p].type)
<1>. DEFINE n == mail.body[p]
            part == EncodePart(n, wire.has8Bit)
<1>1. /\ n \in NodeFields /\ n.kind \in {"text", "binary", "multipart"} /\ wire.has8Bit \in BOOLEAN
      /\ Parts[p].header = n.header
      /\ Parts[p].type = IF p = <<>> THEN EncodedType(part.type) ELSE part.type
  BY PartEncoded
<1>2. /\ n.kind # "multipart" => part.type = n.type
      /\ n.kind = "multipart" => ~RawType(part.type)
  <2>1. CASE n.kind = "multipart"
    BY <1>1, <2>1, EncodedMultipart DEF EncodePart, RawType
  <2>2. CASE n.kind # "multipart"
    BY <2>2 DEF EncodePart, EncodeLeaf
  <2>. QED
    BY <2>1, <2>2
<1>. HIDE DEF part, n
<1>3. n.type \in TypeFields /\ (n.kind = "multipart" \/ part.type \in TypeFields)
  BY <1>1, <1>2 DEF NodeFields
<1>4. ~RawType(EncodedType(part.type))
  BY <1>2, <1>3 DEF EncodedType, RawType, TypeFields
<1>. QED
  BY <1>1, <1>2, <1>4 DEF RawHead, Excused, n

(* encoding.go:53-128, part.go:131: what is labelled 7bit or 8bit fits in  *)
(* it, with all the parts in it, and 8bit is never sent to a server that   *)
(* does not take it.                                                       *)
THEOREM WireFitsHolds == Spec => []WireFits
<1>1. IInv => WireFits
  <2>. SUFFICES ASSUME IInv, Out PROVE WireFits
    BY DEF WireFits
  <2>1. <<>> \in DOMAIN Parts /\ DOMAIN Parts = DOMAIN mail.body
    BY SentSound DEF GetInternetMessageFormat, Parts
  <2>2. ~RawType(Parts[<<>>].type)
    BY <2>1, HeadFits
  <2>3. ~RawHeader(wire.message.subject) /\ ~RawHeader(wire.message.extra)
    BY SentSound DEF GetInternetMessageFormat, EncodedHeader, RawHeader
  <2>4. ASSUME NEW p \in DOMAIN Parts, NEW q \in Within(p),
               Parts[p].encoding \in {"7bit", "8bit"}
        PROVE  /\ Parts[p].encoding = "7bit" => Parts[q].encoding # "8bit"
               /\ RawHead(Parts[q]) => Excused(mail.body[q])
    <3>1. q \in DOMAIN Parts /\ mail.body[p].kind = "multipart"
      BY <2>1, <2>4 DEF Within
    <3>. QED
      BY <2>4, <3>1, ContentFits, HeadFits
  <2>5. ASSUME NEW p \in DOMAIN Parts, NEW w, w = Parts[p]
        PROVE  /\ w.encoding = "7bit" =>
                    w.content.ascii /\ \A q \in Within(p) : Parts[q].encoding # "8bit"
               /\ w.encoding = "8bit" => wire.has8Bit /\ ValidUtf8(w.content)
               /\ w.encoding \in {"7bit", "8bit"} =>
                    /\ w.content.controls = "none" /\ w.content.size # "longline"
                    /\ w.content.eol = "crlf"
                    /\ \A q \in Within(p) : RawHead(Parts[q]) => Excused(mail.body[q])
    BY <2>4, <2>5, ContentFits
  <2>. QED
    BY <2>2, <2>3, <2>5 DEF WireFits
<1>. QED
  BY <1>1, Invariance, PTL

(* grpcservers/mailer.go:14-56, database/mail.go:97-217: a mail the server *)
(* accepts is stored, loaded and found valid again; the two exceptions are *)
(* a NUL in a text and a part that holds nothing.                          *)
THEOREM AcceptedIsSendableHolds == Spec => []AcceptedIsSendable
<1>1. IInv => AcceptedIsSendable
  <2>. SUFFICES ASSUME IInv PROVE AcceptedIsSendable
    OBVIOUS
  <2>. DEFINE m == Transformed(request)
  <2>1. ASSUME phase \in {"unstorable", "unloadable", "panicked", "invalid"}
        PROVE  Sound(m) /\ ValidateMail(m) /\ m.addr = "plain"
    BY <2>1, AcceptedSound DEF IInv, Accepted
  <2>2. phase # "unloadable"
    <3>1. SUFFICES ASSUME phase = "unloadable" PROVE FALSE
      OBVIOUS
    <3>2. row = MailToDBEntity(m) /\ ~Loadable(row)
      BY <3>1 DEF IInv, Accepted
    <3>. QED
      BY <2>1, <3>1, <3>2 DEF Loadable, MailToDBEntity
  <2>3. phase # "invalid"
    <3>1. SUFFICES ASSUME phase = "invalid" PROVE FALSE
      OBVIOUS
    <3>2. mail \in {m, Reloaded(m)} /\ ~Panics(mail.body) /\ ~ValidateMail(mail)
      BY <3>1 DEF IInv, Ended
    <3>. QED
      BY <2>1, <3>1, <3>2, ReloadedValid
  <2>4. ASSUME phase = "unstorable"
        PROVE  \E p \in DOMAIN mail.body :
                 mail.body[p].content.controls = "nul" \/ mail.body[p].type.params = "nul"
    <3>1. mail = m /\ ~Storable(MailToDBEntity(m))
      BY <2>4 DEF IInv, Accepted
    <3>. QED
      BY <2>1, <2>4, <3>1, UnstorableHasNul
  <2>5. ASSUME phase = "panicked" PROVE HoldsNothing(m.body)
    <3>1. mail \in {m, Reloaded(m)} /\ Panics(mail.body)
      BY <2>5 DEF IInv, Ended
    <3>2. ~Panics(m.body)
      BY <2>1, <2>5 DEF Sound, Panics
    <3>. QED
      BY <2>1, <2>5, <3>1, <3>2, PanicHoldsNothing
  <2>. QED
    BY <2>2, <2>3, <2>4, <2>5 DEF AcceptedIsSendable
<1>. QED
  BY <1>1, Invariance, PTL

-----------------------------------------------------------------------------
(* A node the parser made and found valid, through the request.            *)
LEMMA NodeThroughRequest ==
  ASSUME NEW n \in NodeFields, n.kind # "nil",
         NEW part, part = [oneof |-> OneOfKind(n.kind), type |-> n.type,
                           header |-> n.header, content |-> n.content],
         NEW back, back = TransformPart(part)
  PROVE  /\ part.oneof # "unset"
         /\ back.kind = n.kind /\ back.header = n.header /\ back.content = n.content
         /\ back.type = IF n.type.major = "none" THEN DefaultType(part.oneof) ELSE n.type
<1>1. n.kind \in {"text", "binary", "multipart"}
  BY DEF NodeFields
<1>2. OneOfKind(n.kind) # "unset" /\ KindOf(OneOfKind(n.kind)) = n.kind
  <2>1. CASE n.kind = "text"
    BY <2>1 DEF OneOfKind, KindOf
  <2>2. CASE n.kind = "binary"
    BY <2>2 DEF OneOfKind, KindOf
  <2>3. CASE n.kind = "multipart"
    BY <2>3 DEF OneOfKind, KindOf
  <2>. QED
    BY <1>1, <2>1, <2>2, <2>3
<1>. QED
  BY <1>2 DEF TransformPart

LEMMA ParsedKinds ==
  ASSUME NEW e, WellFormed(e), NEW p \in DOMAIN ParseMessage(e).body
  PROVE  LET n == ParseMessage(e).body[p]
         IN  /\ n \in NodeFields /\ n.kind # "nil"
             /\ n.kind = "multipart" => n.type.major = "multipart"
             /\ p = <<>> => n.header = "none"
<1>. DEFINE t == e.body
<1>1. ParseMessage(e).body[p] \in NodeFields /\ ParseMessage(e).body[p].kind # "nil"
  BY ParsedSound DEF Sound
<1>2. CASE e.mimeVersion
  <2>1. p \in DOMAIN t /\ ParseMessage(e).body[p] = ParsePart(t[p], p = <<>>)
    BY <1>2 DEF ParseMessage
  <2>2. t[p] \in EntityNodeFields
    BY <2>1 DEF WellFormed, IsTree
  <2>3. PICK isRoot \in BOOLEAN : isRoot = (p = <<>>)
    OBVIOUS
  <2>4. ParseMessage(e).body[p] = ParsePart(t[p], isRoot)
    BY <2>1, <2>3
  <2>. QED
    BY <1>1, <2>1, <2>2, <2>4, ParsePartSound DEF ParsePart
<1>3. CASE ~e.mimeVersion
  BY <1>1, <1>3 DEF ParseMessage
<1>. QED
  BY <1>2, <1>3 DEF WellFormed

LEMMA ProxyRequestAccepted ==
  ASSUME NEW e, WellFormed(e), ValidateMail(ParseMessage(e)), e.addr = "plain"
  PROVE  PbMailAccepted(BuildGrpcRequest(ParseMessage(e)))
<1>. DEFINE m == ParseMessage(e)
            r == BuildGrpcRequest(m)
            part(p) == [oneof |-> OneOfKind(m.body[p].kind), type |-> m.body[p].type,
                        header |-> m.body[p].header, content |-> m.body[p].content]
            back == Transformed(r)
<1>1. /\ r.form = "parts" /\ r.addr = "plain" /\ r.extra = m.extra
      /\ r.body = [p \in DOMAIN m.body |-> part(p)]
  BY DEF BuildGrpcRequest, ParseMessage
<1>2. /\ back.extra = "none" /\ back.subject = m.subject
      /\ back.body = [p \in DOMAIN r.body |-> TransformPart(r.body[p])]
  BY <1>1 DEF Transformed, BuildGrpcRequest
<1>3. /\ m.subject # "control" /\ m.extra \notin {"control", "badKey", "reserved"} /\ <<>> \in DOMAIN m.body
      /\ ValidRoot(m.body[<<>>])
      /\ \A p \in DOMAIN m.body \ {<<>>} : ValidChild(m.body[p])
  BY ParsedSound DEF ValidateMail, ValidTree, Sound
<1>. HIDE DEF r, back
<1>4. DOMAIN r.body = DOMAIN m.body /\ DOMAIN back.body = DOMAIN m.body
  BY <1>1, <1>2
<1>5. ASSUME NEW p \in DOMAIN m.body
      PROVE  /\ r.body[p].oneof = OneOfKind(m.body[p].kind) /\ r.body[p].oneof # "unset"
             /\ r.body[p].header = m.body[p].header /\ r.body[p].type = m.body[p].type
             /\ back.body[p].kind = m.body[p].kind /\ back.body[p].header = m.body[p].header
             /\ back.body[p].content = m.body[p].content
             /\ back.body[p].type = IF m.body[p].type.major = "none"
                                    THEN DefaultType(r.body[p].oneof) ELSE m.body[p].type
             /\ m.body[p] \in NodeFields /\ m.body[p].kind # "nil"
             /\ m.body[p].kind = "multipart" => m.body[p].type.major = "multipart"
             /\ p = <<>> => m.body[p].header = "none"
  <2>1. /\ m.body[p] \in NodeFields /\ m.body[p].kind # "nil"
        /\ m.body[p].kind = "multipart" => m.body[p].type.major = "multipart"
        /\ p = <<>> => m.body[p].header = "none"
    BY ParsedKinds
  <2>2. r.body[p] = part(p) /\ back.body[p] = TransformPart(part(p))
    BY <1>1, <1>2
  <2>. HIDE DEF m
  <2>. QED
    BY <2>1, <2>2, NodeThroughRequest
<1>6. ASSUME NEW p \in DOMAIN m.body, p # <<>> PROVE ValidChild(back.body[p])
  BY <1>3, <1>5, <1>6 DEF ValidChild, ValidMultipart, ValidPart, Parses
<1>7. ValidRoot(back.body[<<>>])
  <2>1. CASE m.body[<<>>].type.major # "none"
    BY <1>3, <1>5, <2>1 DEF ValidRoot, ValidMultipart, ValidPart, Parses
  <2>2. CASE m.body[<<>>].type.major = "none"
    <3>. HIDE DEF m
    <3>1. m.body[<<>>].kind \in {"text", "binary"}
      BY <1>3, <1>5, <2>2 DEF NodeFields
    <3>2. back.body[<<>>].type \in {TextPlain, OctetStream}
      BY <1>3, <1>5, <2>2, <3>1 DEF OneOfKind, DefaultType
    <3>3. back.body[<<>>].type.major \in {"text", "other"}
      BY <3>2 DEF TextPlain, OctetStream, NoType
    <3>. QED
      BY <1>3, <1>5, <3>1, <3>3 DEF ValidRoot, ValidMultipart, ValidPart, Parses, Requires7or8Bit
  <2>. QED
    BY <2>1, <2>2
<1>8. ValidateMail(back)
  BY <1>2, <1>4, <1>6, <1>7 DEF ValidateMail, ValidTree
<1>9. PartsTransform(r)
  <2>1. r.body[<<>>].type.major # "bad"
    BY <1>3, <1>5 DEF ValidRoot, Parses
  <2>2. ASSUME NEW p \in DOMAIN r.body
        PROVE  r.body[p].oneof # "unset" /\ r.body[p].header # "badKey"
    <3>1. CASE p = <<>>
      BY <1>3, <1>4, <1>5, <3>1
    <3>2. CASE p # <<>>
      BY <1>3, <1>4, <1>5, <3>2 DEF ValidChild
    <3>. QED
      BY <3>1, <3>2
  <2>. QED
    BY <2>1, <2>2 DEF PartsTransform
<1>10. Transformable(r)
  BY <1>1, <1>3, <1>9 DEF Transformable, Transforms, ExtraHeadersPass
<1>11. PbMailAccepted(r)
  BY <1>8, <1>10 DEF PbMailAccepted, back
<1>. QED
  BY <1>11 DEF r

(* smtp-proxy/grpc.go:49: a text is UTF-8, so only a head can be in other  *)
(* bytes.                                                                  *)
LEMMA UnmarshalledHead ==
  ASSUME NEW m, Sound(m), ValidateMail(m), m.extra = "none",
         ~Marshals(BuildGrpcRequest(m)), m.subject # "raw8"
  PROVE  \E p \in DOMAIN m.body : m.body[p].header = "raw8" \/ m.body[p].type.params = "raw8"
<1>. DEFINE part(n) == [oneof |-> OneOfKind(n.kind), type |-> n.type, header |-> n.header,
                        content |-> n.content]
            r == BuildGrpcRequest(m)
<1>1. /\ r.body = [p \in DOMAIN m.body |-> part(m.body[p])]
      /\ r.subject = m.subject /\ r.extra = m.extra
  BY DEF BuildGrpcRequest
<1>. HIDE DEF r
<1>2. PICK p \in DOMAIN r.body :
        \/ r.body[p].type.params = "raw8" \/ r.body[p].header = "raw8"
        \/ r.body[p].oneof = "content" /\ ~ValidUtf8(r.body[p].content)
  BY <1>1 DEF Marshals, r
<1>3. /\ p \in DOMAIN m.body /\ r.body[p] = part(m.body[p])
      /\ m.body[p] \in NodeFields /\ m.body[p].kind # "nil"
  BY <1>1, <1>2 DEF Sound
<1>4. ValidPart(m.body[p])
  BY <1>3 DEF ValidateMail, ValidTree, ValidRoot, ValidChild
<1>5. m.body[p].kind \in {"text", "binary", "multipart"}
  BY <1>3 DEF NodeFields
<1>6. OneOfKind(m.body[p].kind) = "content" => m.body[p].kind = "text"
  BY <1>5 DEF OneOfKind
<1>. QED
  BY <1>2, <1>3, <1>4, <1>6 DEF ValidPart

(* smtpserver/server.go:357, grpcservers/mailer.go:14-56: what the proxy   *)
(* found valid is accepted by the server, but for an address that is not   *)
(* read back as it is printed, and asked of it, but for a head in bytes    *)
(* that are not UTF-8.                                                     *)
THEOREM ApiAcceptsParsedHolds == Spec => []ApiAcceptsParsed
<1>1. IInv => ApiAcceptsParsed
  <2>. SUFFICES ASSUME IInv PROVE ApiAcceptsParsed
    OBVIOUS
  <2>1. ASSUME phase = "rejected", route = "smtp" PROVE mail.addr = "funny"
    <3>1. /\ Received /\ request = BuildGrpcRequest(ParseMessage(entity))
          /\ mail = ParseMessage(entity) /\ ~PbMailAccepted(request)
      BY <2>1 DEF IInv, Pending, RequestMade
    <3>2. WellFormed(entity) /\ ValidateMail(ParseMessage(entity))
      BY <3>1, MailBodyAssumption DEF Received
    <3>3. entity.addr # "plain"
      BY <3>1, <3>2, ProxyRequestAccepted
    <3>4. entity.addr = "funny"
      BY <3>2, <3>3 DEF WellFormed
    <3>. QED
      BY <3>1, <3>4 DEF ParseMessage
  <2>2. ASSUME phase = "unmarshalled", mail.subject # "raw8"
        PROVE  \E p \in DOMAIN mail.body :
                 mail.body[p].header = "raw8" \/ mail.body[p].type.params = "raw8"
    <3>1. Received /\ mail = ParseMessage(entity) /\ ~Marshals(BuildGrpcRequest(mail))
      BY <2>2 DEF IInv, Pending
    <3>2. Sound(mail) /\ ValidateMail(mail)
      BY <3>1, MailBodyAssumption, ParsedSound DEF Received
    <3>3. mail.extra = "none"
      BY <3>1 DEF ParseMessage
    <3>. QED
      BY <2>2, <3>1, <3>2, <3>3, UnmarshalledHead
  <2>. QED
    BY <2>1, <2>2 DEF ApiAcceptsParsed
<1>. QED
  BY <1>1, Invariance, PTL
=============================================================================
