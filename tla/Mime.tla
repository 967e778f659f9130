-------------------------------- MODULE Mime --------------------------------
(***************************************************************************)
(* pkg/mailer: the body of a mail, its validation and its encoding.        *)
(*                                                                         *)
(* A body is a tree: a function from paths, the root being <<>> and the    *)
(* i-th child of p being Append(p, i), to nodes.  Every conversion of the  *)
(* code goes through the tree node by node, so each is a function of the   *)
(* node alone.  Of a content only what the code tells apart is kept: two   *)
(* contents are the same text if they differ in coding and line ends only. *)
(***************************************************************************)
EXTENDS Integers, Sequences, FiniteSets

ContentFields ==
  [ascii: BOOLEAN,
   controls: {"none", "some", "nul"},   \* besides tab and line ends; NUL among them
   size: {"empty", "line", "lines", "longline"},   \* over 998 bytes from "lines" on
   dense: BOOLEAN,                      \* quoted-printable takes no more than base64
   coding: {"utf-8", "latin-1"},
   eol: {"lf", "cr", "crlf"}]

Empty == [ascii |-> TRUE, controls |-> "none", size |-> "empty", dense |-> TRUE,
          coding |-> "utf-8", eol |-> "crlf"]

(* A media type as it is spelled: none at all, one that does not parse, or *)
(* one with its parameters, of which a name may be in ASCII, escaped       *)
(* ("percent"), in UTF-8, in other bytes, or have a NUL in it.             *)
TypeFields ==
  [major: {"text", "html", "multipart", "message", "other", "none", "bad"},
   lower: BOOLEAN,
   charset: {"none", "utf-8", "latin-1"},
   boundary: {"none", "valid", "invalid"},
   params: {"ascii", "percent", "utf8", "raw8", "nul"}]

(* A header: none, one of ASCII, of encoded words, of UTF-8, of other      *)
(* bytes, one with a control character, a malformed key, or a Content-Type *)
(* or, of the mail itself, another reserved one.                           *)
HeaderKinds ==
  {"none", "ascii", "encoded", "utf8", "raw8", "control", "badKey", "type"}

NodeFields ==
  [kind: {"text", "binary", "multipart", "nil"},
   type: TypeFields, header: HeaderKinds, content: ContentFields]

SameText(a, b) == [a EXCEPT !.coding = b.coding, !.eol = b.eol] = b

(* A tree whose nodes are in N.                                            *)
IsTree(t, N) ==
  /\ t = [p \in DOMAIN t |-> t[p]] /\ <<>> \in DOMAIN t
  /\ \A p \in DOMAIN t : t[p] \in N

HasChildren(t, p) ==
  \E q \in DOMAIN t : Len(q) = Len(p) + 1 /\ SubSeq(q, 1, Len(p)) = p

-----------------------------------------------------------------------------
Parses(type) == type.major \notin {"none", "bad"}

(* The prefix is looked for as the type is spelled.                        *)
Requires7or8Bit(type) == type.major \in {"message", "multipart"} /\ type.lower

ValidUtf8(c) == c.ascii \/ c.coding = "utf-8"

(* Lines are told apart at CRLF only.                                      *)
FitsLines(c) == c.size # "longline" /\ (c.size = "lines" => c.eol = "crlf")

Acceptable8Bit(c) == ValidUtf8(c) /\ c.controls = "none" /\ FitsLines(c)
Acceptable7Bit(c) == Acceptable8Bit(c) /\ c.ascii

(* Mutant: composite types are not looked at.                              *)
ValidPartAnyType(n) == n.kind = "text" => ValidUtf8(n.content)

ValidPart(n) ==
  /\ n.kind \in {"text", "binary"} /\ Requires7or8Bit(n.type) => Acceptable7Bit(n.content)
  /\ n.kind = "text" => ValidUtf8(n.content)

ValidMultipart(n) ==
  n.kind = "multipart" => n.type.major = "multipart" /\ n.type.boundary # "invalid"

ValidChild(n) ==
  /\ Parses(n.type) /\ ValidMultipart(n) /\ ValidPart(n)
  /\ n.header \notin {"control", "badKey", "type"}

(* A root without a type is let through.                                   *)
ValidRoot(n) ==
  /\ n.type.major # "none" => Parses(n.type) /\ ValidMultipart(n)
  /\ ValidPart(n)

ValidTree(t) ==
  /\ ValidRoot(t[<<>>])
  /\ \A p \in DOMAIN t \ {<<>>} : ValidChild(t[p])

(* Of its other headers a mail has one kind or none.                       *)
ValidateMail(m) ==
  /\ m.subject # "control" /\ m.extra \notin {"control", "badKey", "reserved"}
  /\ ValidTree(m.body)

(* The validation of a part that is not there.                             *)
Panics(t) == \E p \in DOMAIN t : t[p].kind = "nil"

-----------------------------------------------------------------------------
(* Text is sent with CRLF.                                                 *)
Bytes(n) == IF n.kind = "text" THEN [n.content EXCEPT !.eol = "crlf"] ELSE n.content

(* Mutant: what the server supports is not asked for.                      *)
EncodingAlways8Bit(c, has8BitMimeSupport) ==
  CASE Acceptable8Bit(c) -> IF c.ascii THEN "7bit" ELSE "8bit"
    [] OTHER -> IF c.dense THEN "quoted-printable" ELSE "base64"

Encoding(c, has8BitMimeSupport) ==
  CASE Acceptable7Bit(c) -> "7bit"
    [] Acceptable8Bit(c) /\ ~Acceptable7Bit(c) /\ has8BitMimeSupport -> "8bit"
    [] OTHER -> IF c.dense THEN "quoted-printable" ELSE "base64"

(* All line ends of the message become CRLF, and the writer of quoted-     *)
(* printable turns those it encodes; only base64 hides them.               *)
Sent(c, encoding) == IF encoding = "base64" THEN c ELSE [c EXCEPT !.eol = "crlf"]

EncodeLeaf(n, has8BitMimeSupport) ==
  LET encoding == Encoding(Bytes(n), has8BitMimeSupport)
  IN  [type |-> n.type, header |-> n.header, encoding |-> encoding,
       content |-> Sent(Bytes(n), encoding)]

(* A missing boundary is made, and the type printed anew: the headers and  *)
(* types of other parts go out as they are.                                *)
EncodeMultipart(n, has8BitMimeSupport) ==
  [type |-> [n.type EXCEPT !.boundary = "valid", !.lower = TRUE,
                           !.params = IF @ = "ascii" THEN "ascii" ELSE "percent"],
   header |-> n.header,
   encoding |-> IF has8BitMimeSupport THEN "8bit" ELSE "7bit", content |-> Empty]

EncodePart(n, has8BitMimeSupport) ==
  IF n.kind = "multipart" THEN EncodeMultipart(n, has8BitMimeSupport)
                          ELSE EncodeLeaf(n, has8BitMimeSupport)

(* encodedHeaderVal of a type.  One of encoded words is none that parses.  *)
EncodedType(type) ==
  IF type.params \in {"ascii", "percent"} THEN type
  ELSE [type EXCEPT !.major = "bad", !.params = "ascii"]

(* And of another header.                                                  *)
EncodedHeader(h) == IF h \in {"utf8", "raw8"} THEN "encoded" ELSE h

GetInternetMessageFormat(m, has8BitMimeSupport) ==
  [subject |-> EncodedHeader(m.subject), extra |-> EncodedHeader(m.extra),
   body |-> [p \in DOMAIN m.body |->
               LET part == EncodePart(m.body[p], has8BitMimeSupport)
               IN  IF p = <<>> THEN [part EXCEPT !.type = EncodedType(@)] ELSE part]]
=============================================================================
