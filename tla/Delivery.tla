------------------------------ MODULE Delivery ------------------------------
(***************************************************************************)
(* One payload on its way through the exporter: the bytes that a publisher *)
(* puts on the wire, the dialect that ServeHTTP sees in them, its reply,   *)
(* the events that the parser of the dialect finds, and their records.     *)
(* Composes Wire and Payload in the order of ServeHTTP and enqueue.        *)
(*                                                                         *)
(* A document is its text, whether encoding/xml reads what its declaration *)
(* says, the name of its root element, the action of its Args (OneFS) and  *)
(* its event elements.  A publication is an event of the array together    *)
(* with how its publisher writes it down.                                  *)
(***************************************************************************)
EXTENDS Payload

CONSTANTS
  Documents,     \* what publishers send
  Fragile        \* bound: the documents whose every truncation is tried

Encodings == {"utf8", "utf16le", "utf16leMark", "utf16be", "utf16beMark"}

VARIABLES
  doc, enc,      \* the document, and how its publisher encodes it
  body,          \* the bytes that arrive
  decoded,       \* the result of DecodeBody
  dialect,
  reply,         \* name and bytes of the reply
  counted,       \* what the peer's handshake was counted as
  parsed,        \* the result of the parser
  records,       \* the Windows events given to the queue
  pc

vars == <<doc, enc, body, decoded, dialect, reply, counted, parsed, records, pc>>

(* A time that no publication has. *)
ReceiveTime == Time(Word, 0)

----------------------------------------------------------------------------
(* Publishers                                                              *)

BigEndian(b) == [i \in DOMAIN b |-> IF i % 2 = 1 THEN b[i + 1] ELSE b[i - 1]]

Encode(e, text) ==
  CASE e = "utf8"        -> UTF8(text)
    [] e = "utf16le"     -> EncodeUTF16LE(text)
    [] e = "utf16leMark" -> <<255, 254>> \o EncodeUTF16LE(text)
    [] e = "utf16be"     -> BigEndian(EncodeUTF16LE(text))
    [] e = "utf16beMark" -> <<254, 255>> \o BigEndian(EncodeUTF16LE(text))

(* The number n in a base, with or without 0x. *)
Number(prefix, n, base) ==
  LET digits[m \in 0..n] ==
        IF m < base THEN <<m>> ELSE Append(digits[m \div base], m % base)
  IN  [prefix |-> prefix, digits |-> digits[n]]

NoNumber == [prefix |-> FALSE, digits |-> <<>>]

(* The attribute of an empty text is empty, which is no name. *)
Base64(text, good) == [set |-> text # <<>>, good |-> good, raw |-> EncodeUTF16LE(text)]

Plain(text) == \A i \in DOMAIN text : text[i] < 128

(* What Dell CEE writes for a path that its document cannot represent. *)
Lossy == <<Backslash, Question>>

StampCEE(p) ==
  CASE p.stamp = "seconds" -> Number(FALSE, p.second, 10)
    [] p.stamp = "packed"  -> Number(TRUE, p.second * Word + p.low, 16)
    [] p.stamp = "zero"    -> Number(TRUE, 0, 16)
    [] p.stamp = "none"    -> NoNumber
    [] p.stamp = "long"    -> Number(TRUE, MaxUint64 + 1, 16)

(* <Event> of Dell CEE *)
CeeEvent(p) ==
  [event |-> Number(p.prefix, p.code, 16), timeStamp |-> StampCEE(p),
   path |-> UTF8(IF Plain(p.path) THEN p.path ELSE Lossy),
   encodedPath |-> IF Plain(p.path) THEN NoName ELSE Base64(p.path, p.good),
   encodingType |-> p.scheme, userSid |-> p.sid, userId |-> p.uid,
   protocol |-> Number(FALSE, p.protocol, 10), server |-> p.server]

(* <NFSEventArgs> of OneFS, with name and protocol of its <Args> *)
OneFSEvent(p) ==
  [eventType |-> p.code, name |-> Base64(p.path, p.good), userSid |-> p.sid,
   protocol |-> Number(FALSE, p.protocol, 10), serverName |-> Base64(p.server, TRUE),
   timeStamp |-> CASE p.stamp = "seconds" -> p.second
                   [] p.stamp = "long" -> MaxInt64 + 1
                   [] p.stamp = "none" -> Invalid,
   timeStampMicroSeconds |-> p.low, bytesWritten |-> p.written]

(* <CEEEvent> of VCAPS *)
VcapsEvent(p) ==
  [EventType |-> p.name, FilePath |-> UTF8(p.path), UserSID |-> p.sid,
   Timestamp |-> [layout |-> p.stamp, sec |-> p.second], BytesWritten |-> p.written]

Element(p) ==
  CASE p.from = "cee" -> CeeEvent(p) [] p.from = "onefs" -> OneFSEvent(p)
    [] p.from = "vcaps" -> VcapsEvent(p)

(* The end of the root element; what follows it is white space. *)
RootEnd(text) == Max({i \in DOMAIN text : text[i] = GT})

(* xml.Unmarshal into a struct for this root: the document, if it came whole.  A
   declaration of an encoding other than UTF-8 is refused, without a CharsetReader,
   and so is one of a version other than 1.0. *)
Unmarshal(root) ==
  IF /\ doc.root = root /\ doc.declaration # "refused"
     /\ IsPrefix(UTF8(SubSeq(doc.text, 1, RootEnd(doc.text))), decoded.bytes)
    THEN [ok |-> TRUE, action |-> doc.action,
          items |-> [i \in DOMAIN doc.events |-> Element(doc.events[i])]]
    ELSE [ok |-> FALSE, action |-> "", items |-> <<>>]

----------------------------------------------------------------------------
(* What publishers send                                                    *)

(* Code points, of which XML has neither zero nor surrogates. *)
IsText(text) ==
  /\ text \in Seq(Nat)
  /\ \A i \in DOMAIN text :
       0 < text[i] /\ text[i] < 1114112 /\ ~High(text[i]) /\ ~Low(text[i])

(* Text in UTF-16 without a byte order mark is known by its first character. *)
Guessable(text) == IsText(text) /\ (text # <<>> => text[1] < 256)

(* VCAPS has a vocabulary of its own, and user ids are Dell CEE's. *)
IsPublication(p) ==
  /\ Guessable(p.path) /\ IsText(p.server) /\ p.second \in 1..MaxUint32
  /\ \/ /\ p.from = "cee" /\ p.code \in 0..MaxUint64 /\ p.low \in 0..MaxUint32
        /\ p.stamp \in {"seconds", "packed", "zero", "none", "long"}
        /\ p.scheme \in {"", "base64", "base64utf16", "utf16", "rot13"} /\ p.good \in BOOLEAN
     \/ /\ p.from = "onefs" /\ p.stamp \in {"seconds", "none", "long"} /\ p.uid = <<>>
        /\ Guessable(p.server)
     \/ /\ p.from = "vcaps" /\ p.stamp \in tsFormats \cup {"none"} /\ p.uid = <<>>
        /\ p.name \notin {"DELETE", "WRITE_DAC", "CloseHandle"}

Publisher(root) ==
  CASE root = "CheckEventRequest" -> "cee" [] root = "CheckFileRequest" -> "onefs"
    [] root \in {"EventBatch", "CEEEvent"} -> "vcaps"
    [] root \in {"RegisterRequest", "HeartBeatRequest", "Other"} -> "none"

AllBlank(text, from, to) == \A i \in from..to : text[i] \in Blank

(* From "<?" to the first "?>". *)
IsDeclaration(text, from, to) ==
  /\ from + 3 <= to /\ text[from] = LT /\ text[from + 1] = Question
  /\ \A i \in (from + 1)..(to - 1) : (text[i] = Question /\ text[i + 1] = GT) <=> i = to - 1

IsProlog(text, n) ==
  \/ AllBlank(text, 1, n)
  \/ \E i, j \in 1..n :
       AllBlank(text, 1, i - 1) /\ IsDeclaration(text, i, j) /\ AllBlank(text, j + 1, n)

NameEnd == {GT, Slash} \cup Blank

(* The root element from n to m.  A handshake is one empty element. *)
IsRoot(d, n, m) ==
  /\ d.text[n] = LT /\ d.text[n + 1] # Question /\ d.text[m] = GT
  /\ IF d.root = "Other"
       THEN d.text[n + 2] \notin NameEnd \/ \A r \in Named : d.text[n + 1] # Root(r)
       ELSE d.text[n + 1] = Root(d.root) /\ d.text[n + 2] \in NameEnd
  /\ d.root \in {"RegisterRequest", "HeartBeatRequest"} =>
       \A i \in (n + 2)..(m - 1) : d.text[i] # GT

IsDocument(d) ==
  /\ IsText(d.text) /\ d.root \in Named \cup {"EventBatch", "CEEEvent", "Other"}
  /\ \E n, m \in DOMAIN d.text :
       /\ n + 2 <= m /\ \A i \in 1..(n + 2) : d.text[i] < 128
       /\ IsProlog(d.text, n - 1) /\ IsRoot(d, n, m) /\ AllBlank(d.text, m + 1, Len(d.text))
       /\ d.declaration \in IF AllBlank(d.text, 1, n - 1) THEN {"none"} ELSE {"read", "refused"}
  /\ Len(d.events) \in Nat /\ DOMAIN d.events = 1..Len(d.events)
  /\ \A i \in DOMAIN d.events : IsPublication(d.events[i]) /\ d.events[i].from = Publisher(d.root)
  /\ d.root = "CheckFileRequest" => Len(d.events) <= 1
  /\ d.root = "CEEEvent" => Len(d.events) = 1

ASSUME DeliveryAssumption == \A d \in Documents : IsDocument(d)

----------------------------------------------------------------------------
Init ==
  /\ doc \in Documents /\ enc \in Encodings
  /\ body = <<>> /\ decoded = DecodeError /\ dialect = "Unknown"
  /\ reply = [name |-> "none", bytes |-> <<>>] /\ counted = "nothing"
  /\ parsed = ParseError /\ records = <<>> /\ pc = "send"

Send ==
  /\ pc = "send"
  /\ body' = Encode(enc, doc.text)
  /\ pc' = "classify"
  /\ UNCHANGED <<doc, enc, decoded, dialect, reply, counted, parsed, records>>

SendTruncated ==
  /\ pc = "send" /\ doc \in Fragile
  /\ \E n \in 0..(Len(Encode(enc, doc.text)) - 1) : body' = SubSeq(Encode(enc, doc.text), 1, n)
  /\ pc' = "classify"
  /\ UNCHANGED <<doc, enc, decoded, dialect, reply, counted, parsed, records>>

(* respond: the reply is one letter in a tag, or hbStatus=0 as h=0. *)
ReplyText(name) ==
  CASE name = "registerReply"      -> <<LT, 82, Slash, GT>>
    [] name = "checkFileResponse"  -> <<LT, 70, Slash, GT>>
    [] name = "checkEventResponse" -> <<LT, 69, Slash, GT>>
    [] name = "heartbeatReply"     -> <<104, 61, 48>>

Respond(name) ==
  reply' = [name  |-> name,
            bytes |-> IF IsUTF16(body) THEN EncodeUTF16LE(ReplyText(name))
                                       ELSE UTF8(ReplyText(name))]

(* Classify; a body that does not decode is answered and forgotten. *)
Classify ==
  /\ pc = "classify"
  /\ decoded' = DecodeBody(body)
  /\ IF decoded'.ok
       THEN dialect' = ClassifyDecoded(decoded'.bytes) /\ pc' = "dispatch" /\ UNCHANGED reply
       ELSE dialect' = "Unknown" /\ pc' = "done" /\ Respond("checkEventResponse")
  /\ UNCHANGED <<doc, enc, body, counted, parsed, records>>

AtDialect(d) == pc = "dispatch" /\ dialect = d

RegisterRequest ==
  /\ AtDialect("RegisterRequest")
  /\ counted' = "registration" /\ Respond("registerReply") /\ pc' = "done"
  /\ UNCHANGED <<doc, enc, body, decoded, dialect, parsed, records>>

HeartBeatRequest ==
  /\ AtDialect("HeartBeatRequest")
  /\ counted' = "heartbeat" /\ Respond("heartbeatReply") /\ pc' = "done"
  /\ UNCHANGED <<doc, enc, body, decoded, dialect, parsed, records>>

(* checkFileActionDecoded: no action if the document cannot be read. *)
CheckFileAction == Unmarshal("CheckFileRequest").action

OneFSHeartbeatAction == "9"

CheckFileHeartbeat ==
  /\ AtDialect("CheckFileRequest") /\ CheckFileAction = OneFSHeartbeatAction
  /\ counted' = "heartbeat" /\ Respond("checkFileResponse") /\ pc' = "done"
  /\ UNCHANGED <<doc, enc, body, decoded, dialect, parsed, records>>

CheckFileEvent ==
  /\ AtDialect("CheckFileRequest") /\ CheckFileAction # OneFSHeartbeatAction
  /\ Respond("checkFileResponse")
  /\ parsed' = ParseOneFSEvent(Unmarshal("CheckFileRequest"), ReceiveTime)
  /\ pc' = IF parsed'.ok THEN "enqueue" ELSE "done"
  /\ UNCHANGED <<doc, enc, body, decoded, dialect, counted, records>>

CheckEventRequest ==
  /\ AtDialect("CheckEventRequest")
  /\ Respond("checkEventResponse")
  /\ parsed' = ParseCheckEventRequest(Unmarshal("CheckEventRequest"), ReceiveTime)
  /\ pc' = IF parsed'.ok THEN "enqueue" ELSE "done"
  /\ UNCHANGED <<doc, enc, body, decoded, dialect, counted, records>>

(* No other dialect: parsed as VCAPS, and answered with an empty body. *)
Events ==
  /\ AtDialect("Unknown")
  /\ parsed' = ParseDecoded(Unmarshal("EventBatch"), Unmarshal("CEEEvent"), ReceiveTime)
  /\ pc' = IF parsed'.ok THEN "enqueue" ELSE "done"
  /\ UNCHANGED <<doc, enc, body, decoded, dialect, reply, counted, records>>

(* The loop of enqueue. *)
Enqueue ==
  /\ pc = "enqueue"
  /\ records' = [i \in DOMAIN parsed.events |-> Map(parsed.events[i])]
  /\ pc' = "done"
  /\ UNCHANGED <<doc, enc, body, decoded, dialect, reply, counted, parsed>>

Next ==
  \/ Send \/ SendTruncated \/ Classify
  \/ RegisterRequest \/ HeartBeatRequest \/ CheckFileHeartbeat
  \/ CheckFileEvent \/ CheckEventRequest \/ Events \/ Enqueue

Spec == Init /\ [][Next]_vars
=============================================================================
