----------------------------- MODULE MCDelivery -----------------------------
(* Small instances of payloads for model checking. *)
EXTENDS DeliveryProps

Document(root, text, action, events) ==
  [root |-> root, text |-> text, action |-> action, events |-> events, declaration |-> "none"]

(* The same document behind a declaration. *)
Declared(d, declaration) ==
  [d EXCEPT !.text = <<LT, Question, Question, GT, 10>> \o @, !.declaration = declaration]

(* Letters: R, H, F, E, B, C for the root elements, X continues a name. *)
Smile == 128512
Open(n)  == <<LT, Root(n), GT>>
Shut(n)  == <<LT, Slash, Root(n), GT>>

Publication ==
  [from |-> "cee", code |-> 32, prefix |-> TRUE, name |-> "", stamp |-> "seconds", second |-> 7,
   low |-> 0, path |-> <<Backslash, 97>>, scheme |-> "base64", good |-> TRUE,
   sid |-> <<"S-1-5-21-7">>, uid |-> <<>>, protocol |-> 1, server |-> <<110, 20013>>,
   written |-> 0]

OneFS == [Publication EXCEPT !.from = "onefs", !.low = 3]
Vcaps == [Publication EXCEPT !.from = "vcaps", !.name = "FILE_READ_DIR", !.stamp = "RFC3339"]

(* Handshakes in the forms publishers write them, and names that go on. *)
Skeletons ==
  {Document("RegisterRequest", <<LT, 82, 32, Slash, GT>>, "", <<>>),
   Declared(Document("RegisterRequest", <<LT, 82, Slash, GT, 10>>, "", <<>>), "read"),
   Document("RegisterRequest", <<32, LT, 82, 32, 97, 61, 34, Smile, 34, 32, Slash, GT>>, "", <<>>),
   Document("Other", <<LT, 82, 88, Slash, GT>>, "", <<>>),
   Document("HeartBeatRequest", <<LT, 72, Slash, GT>>, "", <<>>),
   Document("CheckFileRequest", Open("CheckFileRequest") \o Shut("CheckFileRequest"), "9", <<>>),
   Document("CheckFileRequest", Open("CheckFileRequest") \o <<82>> \o Shut("CheckFileRequest"),
            "11", <<OneFS>>),
   Document("CheckEventRequest", Open("CheckEventRequest") \o <<Smile>> \o
            Shut("CheckEventRequest"), "", <<Publication, [Publication EXCEPT !.code = 8]>>),
   Document("EventBatch", Open("EventBatch") \o <<82>> \o Shut("EventBatch"), "", <<Vcaps, Vcaps>>),
   Document("CEEEvent", Open("CEEEvent") \o Shut("CEEEvent"), "", <<Vcaps>>)}

Kinds ==
  {[Publication EXCEPT !.from = f, !.code = c, !.prefix = x] :
     f \in {"cee", "onefs"}, x \in BOOLEAN, c \in {2^i : i \in 0..21} \cup {3, 33}}

(* The first second, those around the sign bit of a word, and the last one. *)
Seconds == {1, Word \div 2 - 1, Word \div 2, Word - 1}

Stamps ==
  {[Publication EXCEPT !.stamp = s, !.second = t, !.low = l] :
     s \in {"seconds", "packed", "zero", "none", "long"}, t \in Seconds,
     l \in {0, 1, Word - 1}}
  \cup {[OneFS EXCEPT !.stamp = s, !.second = t, !.low = u] :
     s \in {"seconds", "none", "long"}, t \in Seconds,
     u \in {Invalid, 0, MicrosPerSecond - 1, MicrosPerSecond, MaxInt64 + 1}}
  \cup {[Vcaps EXCEPT !.stamp = s, !.second = t] :
     s \in tsFormats \cup {"none"}, t \in Seconds}

Names ==
  {[Publication EXCEPT !.from = f, !.path = p, !.scheme = s, !.good = g, !.sid = a, !.uid = u] :
     f \in {"cee", "onefs"},
     p \in {<<Backslash, 97>>, <<Backslash, 20013>>, <<Backslash, Smile, Slash>>},
     s \in {"", "base64", "rot13"}, g \in BOOLEAN,
     a \in {<<>>, <<"S-1-5-21-7">>}, u \in {<<>>, <<"0">>}}

(* OneFS has no uid of its own: its SID is that of the user id. *)
Carried == {p \in Names : p.from = "onefs" => p.uid = <<>>}

Vocabulary == {[Vcaps EXCEPT !.name = n] : n \in {"", "DELETE_DIRECTORY", "NOT_A_TYPE"}}

Payload1(p) ==
  CASE p.from = "cee"   -> Document("CheckEventRequest", Open("CheckEventRequest") \o
                                    Shut("CheckEventRequest"), "", <<p>>)
    [] p.from = "onefs" -> Document("CheckFileRequest", Open("CheckFileRequest") \o
                                    Shut("CheckFileRequest"), "11", <<p>>)
    [] p.from = "vcaps" -> Document("CEEEvent", Open("CEEEvent") \o Shut("CEEEvent"), "", <<p>>)

(* Payloads without an event: a notice of Dell CEE, an SMB event of OneFS. *)
Empty ==
  {Document("CheckEventRequest", Open("CheckEventRequest") \o Shut("CheckEventRequest"), "", <<>>),
   Document("CheckFileRequest", Open("CheckFileRequest") \o Shut("CheckFileRequest"), "11", <<>>),
   Document("EventBatch", Open("EventBatch") \o Shut("EventBatch"), "", <<>>)}

(* Servers with white space at the ends, of ASCII and beyond, or of nothing else. *)
Servers ==
  {[Publication EXCEPT !.server = s] :
     s \in {<<>>, <<32>>, <<160, 10>>, <<32, 110, 32, 20013, 9>>, <<8195, 110, 133>>, <<20013>>}}
  \cup {[OneFS EXCEPT !.server = s] : s \in {<<>>, <<32>>, <<32, 110, 160>>}}

(* OneFS events without a path are dropped; those of the others are not. *)
Pathless == {[q EXCEPT !.path = <<>>] : q \in {Publication, OneFS, Vcaps}}

(* Declarations that encoding/xml reads, and those that it refuses. *)
Declarations ==
  {Declared(d, x) : d \in {s \in Skeletons \cup Empty : s.declaration = "none"},
                    x \in {"read", "refused"}}

MCDocuments ==
  Skeletons \cup Empty \cup Declarations \cup
  {Payload1(p) : p \in Kinds \cup Stamps \cup Carried \cup Vocabulary \cup Servers \cup Pathless}
=============================================================================
