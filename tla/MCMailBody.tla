----------------------------- MODULE MCMailBody -----------------------------
(* Small trees, with every content, type and header of interest.           *)
EXTENDS MailBody

Line == [Empty EXCEPT !.size = "line", !.eol = "lf"]

SomeContents ==
  {Empty, Line,
   [Line EXCEPT !.ascii = FALSE],
   [Line EXCEPT !.ascii = FALSE, !.coding = "latin-1", !.dense = FALSE],
   [Line EXCEPT !.size = "lines"], [Line EXCEPT !.size = "lines", !.eol = "cr"],
   [Line EXCEPT !.size = "lines", !.eol = "crlf", !.ascii = FALSE, !.dense = FALSE],
   [Line EXCEPT !.size = "longline"],
   [Line EXCEPT !.controls = "some"], [Line EXCEPT !.controls = "nul", !.dense = FALSE]}

Latin == [TextPlain EXCEPT !.charset = "latin-1"]
Message == [NoType EXCEPT !.major = "message"]

Named(type, params) == [type EXCEPT !.params = params]

LeafTypes == {NoType, [NoType EXCEPT !.major = "bad"], TextPlain, Latin, OctetStream,
              Message, [Message EXCEPT !.lower = FALSE]}

NamedTypes == {Named(type, params) : type \in {TextPlain, Message}, params \in {"utf8", "raw8", "nul"}}

Bounded == [MultipartMixed EXCEPT !.boundary = "valid"]
MultipartTypes == {[MultipartMixed EXCEPT !.boundary = b] : b \in {"none", "valid", "invalid"}}
                  \cup {Named(Bounded, params) : params \in {"utf8", "raw8"}}

(* The parts of a body: one, one in another, or a list and a part in it.   *)
One(n) == [p \in {<<>>} |-> n]
Two(n, m) == [p \in {<<>>, <<1>>} |-> IF p = <<>> THEN n ELSE m]
Four(n, m, l) == [p \in {<<>>, <<1>>, <<2>>, <<1, 1>>} |->
                    CASE p = <<>> -> n [] p = <<1>> -> n [] p = <<2>> -> m [] OTHER -> l]

-----------------------------------------------------------------------------
EntityNode(type, c, encoding, header) ==
  [type |-> type, content |-> c, encoding |-> encoding, header |-> header]

EntityLeaves == {EntityNode(type, c, "identity", "none") : type \in LeafTypes, c \in SomeContents}
Encoded == {EntityNode(TextPlain, Line, encoding, "none") : encoding \in {"quoted-printable", "base64", "broken"}}
Headed == {EntityNode(TextPlain, Line, "identity", h) : h \in HeaderKinds}
          \cup {EntityNode(type, Line, "identity", "none") : type \in NamedTypes}
Roots == {EntityNode(type, Empty, encoding, "none") :
            type \in MultipartTypes, encoding \in {"identity", "quoted-printable", "base64"}}
Root == EntityNode(Bounded, Empty, "identity", "none")

Bodies ==
  {One(n) : n \in EntityLeaves \cup Encoded \cup Roots \cup {m \in Headed : m.header = "none"}}
  \cup {Two(Root, n) : n \in EntityLeaves \cup Encoded \cup Headed}
  \cup {Two(n, EntityNode(TextPlain, Line, "identity", "none")) : n \in Roots}
  \cup {Four(Root, n, EntityNode(Latin, Line, "identity", "ascii")) : n \in Roots}
  \cup {Four(Root, n, m) : n \in EntityLeaves, m \in {EntityNode(Latin, Line, "identity", "ascii")}}

Entity(body, mimeVersion, addr, subject) ==
  [body |-> body, mimeVersion |-> mimeVersion, addr |-> addr, subject |-> subject]

SomeEntities ==
  LET all == {Entity(body, mimeVersion, "plain", "none") : body \in Bodies, mimeVersion \in BOOLEAN}
             \cup {Entity(One(EntityNode(TextPlain, Line, "identity", "none")), TRUE, addr, subject) :
                     addr \in {"plain", "funny"},
                     subject \in {"none", "ascii", "encoded", "utf8", "raw8", "control"}}
  IN  {e \in all : WellFormed(e)}

-----------------------------------------------------------------------------
PartNode(oneof, type, c, header) ==
  [oneof |-> oneof, type |-> type, content |-> c, header |-> header]

PartLeaves == {PartNode(oneof, type, c, "none") :
                 oneof \in {"content", "bytes", "unset"}, type \in LeafTypes, c \in SomeContents}
NamedLeaves == {PartNode(oneof, type, Line, "none") : oneof \in {"content", "bytes"}, type \in NamedTypes}
PartRoots == {PartNode("nested", type, Empty, "none") : type \in MultipartTypes \cup {NoType, TextPlain}}
PartRoot == PartNode("nested", NoType, Empty, "none")

PartTrees ==
  {One(n) : n \in PartLeaves \cup PartRoots \cup NamedLeaves}
  \cup {Two(PartRoot, n) : n \in PartLeaves \cup PartRoots \cup NamedLeaves}
  \cup {Two(PartRoot, PartNode("content", TextPlain, Line, h)) : h \in HeaderKinds}
  \cup {Four(n, m, PartNode("bytes", NoType, Line, "utf8")) : n \in PartRoots, m \in PartLeaves}

NoSimple == [plain |-> {}, html |-> {}, attachments |-> <<>>]

Request(form, body, simple, addr, subject, extra) ==
  [form |-> form, body |-> body, simple |-> simple, addr |-> addr, subject |-> subject,
   extra |-> extra]

Texts == {{}, {Line}, {[Line EXCEPT !.ascii = FALSE]}}
Attached(type, c) == [type |-> type, content |-> c]

Attachments ==
  {Attached(type, c) : type \in {NoType, OctetStream, Message}, c \in SomeContents}
  \cup {Attached(type, Line) : type \in NamedTypes}

Simples == [plain: Texts, html: Texts,
            attachments: {<<>>} \cup {<<a>> : a \in Attachments}
                         \cup {<<Attached(NoType, Line), a>> : a \in Attachments}]

(* A text with a wrong charset and a header, a string that is no text, and *)
(* bytes with the line ends of Unix.                                       *)
Mislabelled ==
  [p \in {<<>>, <<1>>, <<2>>, <<3>>} |->
     CASE p = <<>> -> PartRoot
       [] p = <<1>> -> PartNode("content", Latin, [Line EXCEPT !.ascii = FALSE], "utf8")
       [] p = <<2>> -> PartNode("content", OctetStream, Line, "none")
       [] OTHER -> PartNode("bytes", OctetStream, Line, "none")]

SomeRequests ==
  LET all == {Request("parts", body, NoSimple, "plain", "none", "none") : body \in PartTrees}
             \cup {Request("parts", Mislabelled, NoSimple, "plain", "none", "ascii")}
             \cup {Request("simple", NoTree, s, "plain", "none", "none") : s \in Simples}
             \cup {Request("simple", [NoTree EXCEPT ![<<>>].type = TextPlain], s, "plain", "none", "none") :
                     s \in {t \in Simples : t.attachments = <<>>}}
             \cup {Request("parts", One(PartNode("content", NoType, Line, "none")), NoSimple, addr, subject, extra) :
                     addr \in {"plain", "funny", "display", "userId", "none"},
                     subject \in {"ascii", "utf8", "control"},
                     extra \in {"none", "ascii", "utf8", "control", "badKey", "reserved"}}
  IN  {r \in all : RequestWellFormed(r)}
=============================================================================
