--------------------------- MODULE DeliveryProps ---------------------------
(***************************************************************************)
(* What becomes of a payload has to be what its publisher meant by it.     *)
(***************************************************************************)
EXTENDS Delivery

Before(n)  == SubSeq(doc.text, 1, n)
Complete   == Len(body) >= Len(Encode(enc, Before(RootEnd(doc.text))))
Whole      == body = Encode(enc, doc.text)

(* A surrogate pair was cut in two: its first half is not readable. *)
SplitPair ==
  \E n \in DOMAIN doc.text :
    /\ doc.text[n] > 65535 /\ Len(body) = Len(Encode(enc, Before(n))) - 2
    /\ decoded.bytes = UTF8(Append(Before(n - 1), Replacement))

(* What DecodeBody returns is the part of the document that arrived, no more and
   no less, in every encoding: half a character at the end is an error and not
   something to leave out.  And decoding is done once: the result, decoded again,
   is itself (utf16.go, DecodeBody and decodeUTF16Pairs). *)
DecodedIsWhatArrived ==
  pc \notin {"send", "classify"} /\ decoded.ok =>
    /\ \/ \E n \in 0..Len(doc.text) :
            body = Encode(enc, Before(n)) /\ decoded.bytes = UTF8(Before(n))
       \/ decoded.bytes = body /\ (enc = "utf8" \/ Len(body) <= 1)
       \/ enc # "utf8" /\ SplitPair
    /\ DecodeBody(decoded.bytes) = decoded

(* "Better to reject the payload than to invent one that was never sent": of a
   payload cut anywhere before the end of its root element nothing is counted as
   a handshake and no event is made (classify.go, rootIs; the parsers). *)
TruncatedMakesNothing ==
  pc = "done" /\ ~Complete => counted = "nothing" /\ records = <<>>

(* A OneFS heartbeat whose action can be read. *)
OneFSHeartbeat ==
  /\ doc.root = "CheckFileRequest" /\ doc.action = OneFSHeartbeatAction
  /\ doc.declaration # "refused"

Expected ==
  [name    |-> CASE doc.root = "RegisterRequest"   -> "registerReply"
                 [] doc.root = "HeartBeatRequest"  -> "heartbeatReply"
                 [] doc.root = "CheckEventRequest" -> "checkEventResponse"
                 [] doc.root = "CheckFileRequest"  -> "checkFileResponse"
                 [] doc.root \notin Named -> "none",
   counted |-> IF doc.root = "RegisterRequest" THEN "registration"
               ELSE IF doc.root = "HeartBeatRequest" \/ OneFSHeartbeat
                 THEN "heartbeat" ELSE "nothing"]

(* A whole payload gets the reply of its own dialect and no other, whatever its
   encoding, its declaration and the words in it, and a publisher that writes
   UTF-8 or little-endian UTF-16 can read that reply in its own encoding.  It is
   counted as the handshake it is, with one exception: behind a declaration that
   encoding/xml refuses the action of a OneFS heartbeat cannot be read, and the
   heartbeat, though answered, is not counted (classify.go, server.go, respond).
   A OneFS heartbeat counts as a heartbeat: so do the code (server.go:437) and the
   comment of RecordPeerHeartbeat (metrics.go:373-375), while that of
   RecordPeerRegistration (metrics.go:355-357) still calls it a registration.    *)
AnsweredAsAsked ==
  pc = "done" /\ Whole =>
    /\ reply.name = Expected.name /\ counted = Expected.counted
    /\ reply.name # "none" =>
         /\ enc = "utf8" => reply.bytes = Encode("utf8", ReplyText(reply.name))
         /\ enc \in {"utf16le", "utf16leMark"} =>
              reply.bytes = Encode("utf16le", ReplyText(reply.name))

----------------------------------------------------------------------------
(* The record of an event against the publication it was made from.        *)

Sent(i) == doc.events[i]

(* Only OneFS sends microseconds, and only less than a second of them. *)
Micros(p) == IF p.from = "onefs" /\ p.low \in 0..(MicrosPerSecond - 1) THEN p.low ELSE 0

(* The time of a record is the second of the event, in whichever form it came and
   up to the last second a word can hold, and never one before it or after it:
   neither the remainder of a packed stamp nor microseconds out of range move it.
   Only an event without a usable stamp has the time it was received. *)
RecordTimeIsEventTime ==
  \A i \in DOMAIN records :
    records[i].TimeCreated =
      IF Sent(i).stamp \in {"seconds", "packed"} \cup tsFormats
        THEN Time(Sent(i).second, Micros(Sent(i))) ELSE ReceiveTime

Undecoded(p) == p.from = "cee" /\ ~Plain(p.path) /\ (p.scheme = "rot13" \/ ~p.good)

(* A server as Dell CEE names it, and what a record may say of it. *)
IsTrimmed(server, text) ==
  \E m \in 1..(Len(text) + 1), n \in 0..Len(text) :
    /\ server = UTF8(SubSeq(text, m, n))
    /\ \A i \in 1..(m - 1) : text[i] \in White
    /\ \A i \in (n + 1)..Len(text) : text[i] \in White
    /\ m <= n => text[m] \notin White /\ text[n] \notin White

ServerIsSent(p, server) ==
  CASE p.from = "cee"   -> IsTrimmed(server, p.server)
    [] p.from = "onefs" -> server = UTF8(p.server)
    [] p.from = "vcaps" -> server = <<>>

Actor(p) == IF p.sid # <<>> THEN p.sid
            ELSE IF p.uid # <<>> THEN <<"S-1-22-1">> \o p.uid ELSE <<>>

(* Every event of a payload that parsed has its record, in its place, with its own
   object and its own actor: the real path whenever the publisher sent it, the
   lossy one in its stead and never an undecoded one, and a user id of 0 is a user.
   Its server, which labels it in the metrics, is the whole name that was sent, of
   which Dell CEE's alone loses the white space at its ends and nothing else; and
   no event of OneFS is without an object (checkevent.go, onefs.go, parser.go). *)
RecordsNameObjectAndActor ==
  pc = "done" /\ parsed.ok =>
    /\ Len(records) = Len(doc.events)
    /\ \A i \in DOMAIN records :
         /\ records[i].ObjectName = UTF8(IF Undecoded(Sent(i)) THEN Lossy ELSE Sent(i).path)
         /\ records[i].SubjectUserSID = Actor(Sent(i))
         /\ ServerIsSent(Sent(i), parsed.events[i].Server)
         /\ Sent(i).from = "onefs" => records[i].ObjectName # <<>>

(* The parallel tables of the mapper agree: the id, the mask and the description of
   a record assert the same access, and the two that assert none have no mask. *)
Consistent(r) ==
  /\ (r.EventID = 4660) = (r.AccessMask = "0x10000")
  /\ (r.EventID = 4670) = (r.AccessMask \in {"0x40000", "0x80000"})
  /\ (r.AccessMask = "0x10000") = (r.Accesses = Cepp("DELETE"))
  /\ (r.AccessMask = "0x40000") = (r.Accesses = Cepp("WRITE_DAC"))
  /\ (r.EventID = 4658) = (r.Accesses = Cepp("CloseHandle"))
  /\ r.EventID = 4658 => r.AccessMask = "0x0"

(* A record says what kind of event it was: a code that OneFS was measured to send
   means the same from either publisher and in either notation, one that has no
   meaning keeps its number and asserts no access, and the tables agree. *)
RecordKindIsEventKind ==
  \A i \in DOMAIN records :
    LET r == records[i]
        p == Sent(i)
    IN  /\ Consistent(r)
        /\ p.from # "vcaps" /\ p.code \in Codes(onefsEventType)
             => r.CEPAEventType = Cepp(Lookup(onefsEventType, p.code))
        /\ r.CEPAEventType.code # Invalid
             => r.CEPAEventType.code = p.code /\ r.EventID = 4663 /\ r.AccessMask = "0x0"
=============================================================================
