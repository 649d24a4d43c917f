-------------------------------- MODULE Wire --------------------------------
(***************************************************************************)
(* Bytes of a CEPA payload: the transcoding of pkg/parser/utf16.go and the *)
(* root element that pkg/parser/classify.go reads from the result.         *)
(*                                                                         *)
(* A body is a sequence of bytes, a text one of code points; a Go string   *)
(* is the bytes of its text in UTF-8.  The name of an element is one       *)
(* letter, "<?" stands for "<?xml", and white space is that of ASCII.      *)
(*                                                                         *)
(* A definition marked FAULT is a mistake that the definition after it     *)
(* could have had, kept to show which property notices.                    *)
(***************************************************************************)
EXTENDS Integers, Sequences, FiniteSets, SequencesExt

Blank == {9, 10, 13, 32}
Slash == 47
LT == 60
GT == 62
Question == 63
Backslash == 92

(* The code point that stands for what cannot be decoded. *)
Replacement == 65533

----------------------------------------------------------------------------
(* unicode/utf8 and unicode/utf16, of the standard library                 *)

AppendRune(r) ==
  IF r < 128 THEN <<r>>
  ELSE IF r < 2048 THEN <<192 + r \div 64, 128 + (r % 64)>>
  ELSE IF r < 65536 THEN <<224 + r \div 4096, 128 + ((r \div 64) % 64), 128 + (r % 64)>>
  ELSE <<240 + r \div 262144, 128 + ((r \div 4096) % 64), 128 + ((r \div 64) % 64), 128 + (r % 64)>>

UTF8(text) == FlattenSeq([i \in DOMAIN text |-> AppendRune(text[i])])

High(u) == 55296 <= u /\ u < 56320
Low(u)  == 56320 <= u /\ u < 57344

PairAt(units, i) ==
  i \in 1..(Len(units) - 1) /\ High(units[i]) /\ Low(units[i + 1])

(* utf16.Decode: half a surrogate pair becomes the replacement character. *)
Runes(units) ==
  FlattenSeq([i \in DOMAIN units |->
    IF PairAt(units, i) THEN <<65536 + (units[i] - 55296) * 1024 + (units[i + 1] - 56320)>>
    ELSE IF PairAt(units, i - 1) THEN <<>>
    ELSE <<IF High(units[i]) \/ Low(units[i]) THEN Replacement ELSE units[i]>>])

(* utf16.Encode *)
Units(text) ==
  FlattenSeq([i \in DOMAIN text |->
    IF text[i] < 65536 THEN <<text[i]>>
    ELSE <<55296 + (text[i] - 65536) \div 1024, 56320 + ((text[i] - 65536) % 1024)>>])

----------------------------------------------------------------------------
(* utf16.go                                                                *)

Decoded(b)  == [ok |-> TRUE, bytes |-> b]
DecodeError == [ok |-> FALSE, bytes |-> <<>>]

Pairs(b, littleEndian) ==
  [i \in 1..(Len(b) \div 2) |->
     IF littleEndian THEN b[2 * i - 1] + 256 * b[2 * i] ELSE 256 * b[2 * i - 1] + b[2 * i]]

(* FAULT: an odd byte at the end is discarded. *)
DecodePairsDropsOdd(b, littleEndian) == Decoded(UTF8(Runes(Pairs(b, littleEndian))))

(* decodeUTF16Pairs: an odd byte at the end is an error. *)
DecodeUTF16Pairs(b, littleEndian) ==
  IF Len(b) % 2 # 0 THEN DecodeError ELSE Decoded(UTF8(Runes(Pairs(b, littleEndian))))

StartsWith(b, first, second) == Len(b) >= 2 /\ b[1] = first /\ b[2] = second

(* The first character is below 256: the other byte of its unit is zero. *)
ZeroIsSecond(b) == Len(b) >= 2 /\ b[1] # 0 /\ b[2] = 0
ZeroIsFirst(b)  == Len(b) >= 2 /\ b[1] = 0 /\ b[2] # 0

(* DecodeBody: a byte order mark, or a zero byte next to the first character. *)
DecodeBody(b) ==
  IF StartsWith(b, 255, 254) THEN DecodeUTF16Pairs(SubSeq(b, 3, Len(b)), TRUE)
  ELSE IF StartsWith(b, 254, 255) THEN DecodeUTF16Pairs(SubSeq(b, 3, Len(b)), FALSE)
  ELSE IF ZeroIsSecond(b) THEN DecodeUTF16Pairs(b, TRUE)
  ELSE IF ZeroIsFirst(b) THEN DecodeUTF16Pairs(b, FALSE)
  ELSE Decoded(b)

(* FAULT: only a byte order mark is taken for UTF-16. *)
IsUTF16ByMark(b) == StartsWith(b, 255, 254) \/ StartsWith(b, 254, 255)

IsUTF16(b) ==
  \/ StartsWith(b, 255, 254) \/ StartsWith(b, 254, 255) \/ ZeroIsSecond(b) \/ ZeroIsFirst(b)

(* EncodeUTF16LE, of a text: no byte order mark. *)
EncodeUTF16LE(text) ==
  LET units == Units(text)
  IN  [i \in 1..(2 * Len(units)) |->
         IF i % 2 = 1 THEN units[(i + 1) \div 2] % 256 ELSE units[i \div 2] \div 256]

----------------------------------------------------------------------------
(* classify.go                                                             *)

(* What is left of a sequence without what is white at its ends. *)
Trim(s, white) ==
  LET solid == {i \in DOMAIN s : s[i] \notin white}
  IN  IF solid = {} THEN <<>> ELSE SubSeq(s, Min(solid), Max(solid))

(* bytes.TrimSpace *)
TrimSpace(b) == Trim(b, Blank)

(* The document without its XML declaration, if that is complete. *)
SkipDeclaration(b) ==
  LET ends == {i \in 1..(Len(b) - 1) : b[i] = Question /\ b[i + 1] = GT}
  IN  IF IsPrefix(<<LT, Question>>, b) /\ ends # {}
        THEN TrimSpace(SubSeq(b, Min(ends) + 2, Len(b)))
        ELSE b

(* FAULT: the start tag need not be closed. *)
RootIsUnclosed(b, name) ==
  LET doc == SkipDeclaration(TrimSpace(b)) IN
  /\ IsPrefix(<<LT, name>>, doc) /\ Len(doc) > 2
  /\ doc[3] \in {GT, Slash} \cup Blank

(* rootIs: the name ends where the element's name does, and its tag is closed. *)
RootIs(b, name) ==
  LET doc == SkipDeclaration(TrimSpace(b)) IN
  /\ IsPrefix(<<LT, name>>, doc) /\ Len(doc) > 2
  /\ doc[3] \in {GT, Slash} \cup Blank
  /\ Contains(SubSeq(doc, 3, Len(doc)), GT)

Root(dialect) ==
  CASE dialect = "RegisterRequest"   -> 82 [] dialect = "HeartBeatRequest"  -> 72
    [] dialect = "CheckFileRequest"  -> 70 [] dialect = "CheckEventRequest" -> 69
    [] dialect = "EventBatch"        -> 66 [] dialect = "CEEEvent"          -> 67

Named == {"RegisterRequest", "HeartBeatRequest", "CheckFileRequest", "CheckEventRequest"}

(* classifyDecoded.  At most one name can be that of the root. *)
ClassifyDecoded(b) ==
  IF \E d \in Named : RootIs(b, Root(d))
    THEN CHOOSE d \in Named : RootIs(b, Root(d))
    ELSE "Unknown"
=============================================================================
