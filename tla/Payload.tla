------------------------------ MODULE Payload ------------------------------
(***************************************************************************)
(* From the attributes of an event element to the Windows event that is    *)
(* queued: pkg/parser/checkevent.go (Dell CEE), onefs.go (OneFS) and       *)
(* parser.go (VCAPS), and pkg/mapper.                                      *)
(*                                                                         *)
(* The attribute of a number is its digits, with or without 0x, or its     *)
(* value where only decimal is read.  A word has Word values: 2^32 in the  *)
(* code.  An attribute in base64 is the bytes it stands for.  The four I/O *)
(* counters are one, and fields that are only copied are left out.         *)
(*                                                                         *)
(* A definition marked FAULT is a mistake that the definition after it     *)
(* could have had, kept to show which property notices.                    *)
(***************************************************************************)
EXTENDS Wire

CONSTANTS
  Word,              \* the number of values of 32 bits; 64 bits are two words
  MicrosPerSecond    \* 1_000_000 in the code

ASSUME PayloadAssumption ==
  /\ Word \in Nat /\ Word > 1
  /\ MicrosPerSecond \in 1..Word

MaxUint32 == Word - 1
MaxUint64 == Word * Word - 1
MaxInt64  == (Word * Word) \div 2 - 1

(* What does not parse; also the attribute that is missing or no number. *)
Invalid == -1

Time(s, us) == [sec |-> s, us |-> us]

----------------------------------------------------------------------------
(* Numbers                                                                 *)

(* strconv.ParseUint in 64 bits; a number too long for TLC's own is invalid. *)
ParseUint(digits, base) ==
  LET upTo[i \in 0..Len(digits)] ==
        IF i = 0 THEN 0
        ELSE IF upTo[i - 1] = Invalid \/ digits[i] >= base THEN Invalid
        ELSE IF upTo[i - 1] > (MaxUint64 - digits[i]) \div base THEN Invalid
        ELSE upTo[i - 1] * base + digits[i]
  IN  IF digits = <<>> THEN Invalid ELSE upTo[Len(digits)]

ParseCEENum(raw, unprefixedBase) ==
  ParseUint(raw.digits, IF raw.prefix THEN 16 ELSE unprefixedBase)

(* strconv.ParseInt: the attribute's value, if it has one within 64 bits. *)
ParseInt(raw) == IF raw \in 0..MaxInt64 THEN raw ELSE Invalid

(* parseInt64, which ignores the error: out of range is the largest number. *)
ParseInt64(raw) == IF raw > MaxInt64 THEN MaxInt64 ELSE IF raw < 0 THEN 0 ELSE raw

----------------------------------------------------------------------------
(* Time stamps                                                             *)

(* FAULT: what exceeds a signed number is refused before it is unpacked. *)
CeeTimestampRefusesFirst(raw, fallback) ==
  LET n == ParseCEENum(raw, 10) IN
  IF n \in {Invalid, 0} \/ n > MaxInt64 THEN fallback
  ELSE Time(IF n > MaxUint32 THEN n \div Word ELSE n, 0)

(* ceeTimestamp: seconds, or a number whose upper half is the seconds. *)
CeeTimestamp(raw, fallback) ==
  LET n == ParseCEENum(raw, 10) IN
  IF n \in {Invalid, 0} THEN fallback
  ELSE Time(IF n > MaxUint32 THEN n \div Word ELSE n, 0)

(* time.Unix, which carries microseconds over into the seconds. *)
Unix(s, us) == Time(s + us \div MicrosPerSecond, us % MicrosPerSecond)

(* onefsTimestamp *)
OnefsTimestamp(sec, usec, fallback) ==
  LET s  == ParseInt(sec)
      us == ParseInt(usec)
  IN  IF s \in {Invalid, 0} THEN fallback
      ELSE Unix(s, IF us \in 0..(MicrosPerSecond - 1) THEN us ELSE 0)

tsFormats == {"RFC3339Nano", "RFC3339", "T", "space", "compact"}

(* parseTimestamp: the first layout that reads it, or none does. *)
ParseTimestamp(raw, fallback) ==
  IF raw.layout \in tsFormats THEN Time(raw.sec, 0) ELSE fallback

----------------------------------------------------------------------------
(* Types of events                                                         *)

Cepp(name)           == [name |-> name, code |-> Invalid]
Unmapped(prefix, n)  == [name |-> prefix, code |-> n]

(* A table is a set of pairs, one for each code that has a name. *)
Codes(table)     == {entry[1] : entry \in table}
Lookup(table, n) == (CHOOSE entry \in table : entry[1] = n)[2]

ceeEventType ==
  {<<1, "OPEN_FILE_NOACCESS">>, <<2, "OPEN_FILE_READ">>, <<4, "OPEN_FILE_WRITE">>,
   <<8, "CREATE_FILE">>, <<16, "CREATE_DIRECTORY">>, <<32, "DELETE_FILE">>,
   <<64, "DELETE_DIRECTORY">>, <<128, "CLOSE_MODIFIED">>, <<256, "CLOSE_UNMODIFIED">>,
   <<512, "RENAME_FILE">>, <<1024, "RENAME_DIRECTORY">>, <<2048, "SETACL_FILE">>,
   <<4096, "SETACL_DIRECTORY">>, <<8192, "OPEN_DIRECTORY">>, <<16384, "CLOSE_DIRECTORY">>,
   <<32768, "FILE_READ">>, <<65536, "FILE_WRITE">>, <<131072, "SETSEC_FILE">>,
   <<262144, "SETSEC_DIRECTORY">>, <<524288, "OPEN_FILE_READ">>,
   <<1048576, "OPEN_FILE_WRITE">>}

CeeName(n) ==
  IF n \in Codes(ceeEventType) THEN Cepp(Lookup(ceeEventType, n))
                               ELSE Unmapped("CEE_UNMAPPED", n)

(* FAULT: a code without 0x is read as decimal. *)
CeeEventTypeNameDecimal(raw) == CeeName(ParseCEENum(raw, 10))

(* ceeEventTypeName: hexadecimal either way; Invalid is a label of its own. *)
CeeEventTypeName(raw) == CeeName(ParseCEENum(raw, 16))

onefsEventType ==
  {<<8, "CREATE_FILE">>, <<32, "DELETE_FILE">>, <<128, "CLOSE_MODIFIED">>,
   <<256, "CLOSE_UNMODIFIED">>, <<512, "RENAME_FILE">>, <<2048, "SETACL_FILE">>}

OnefsEventTypeName(raw) ==
  IF raw \in Codes(onefsEventType) THEN Cepp(Lookup(onefsEventType, raw))
                                   ELSE Unmapped("ONEFS_UNMAPPED", ParseInt(raw))

----------------------------------------------------------------------------
(* Names and actors                                                        *)

NoName == [set |-> FALSE, good |-> FALSE, raw |-> <<>>]

(* decodeBase64UTF16: the encoding of what base64 yields is guessed. *)
DecodeBase64UTF16(name) ==
  IF name.set /\ name.good THEN DecodeBody(name.raw) ELSE DecodeError

DecodeCEEEncoded(name, encodingType) ==
  IF encodingType \in {"", "base64", "base64utf16", "utf16"}
    THEN DecodeBase64UTF16(name) ELSE DecodeError

(* ceeEventPath: the plain attribute serves if the encoded one does not. *)
CeeEventPath(e) ==
  LET p == DecodeCEEEncoded(e.encodedPath, e.encodingType)
  IN  IF e.encodedPath.set /\ p.ok /\ p.bytes # <<>> THEN p.bytes ELSE e.path

(* FAULT: user 0 is taken for no user. *)
CeeUserSIDNotRoot(e) ==
  IF e.userSid # <<>> THEN e.userSid
  ELSE IF e.userId \notin {<<>>, <<"0">>} THEN <<"S-1-22-1">> \o e.userId ELSE <<>>

(* ceeUserSID; a SID is the sequence of its parts, empty if there is none. *)
CeeUserSID(e) ==
  IF e.userSid # <<>> THEN e.userSid
  ELSE IF e.userId # <<>> THEN <<"S-1-22-1">> \o e.userId ELSE <<>>

ceeProtocolNames == {<<0, "CIFS">>, <<1, "NFS">>, <<2, "FTP">>, <<3, "Unknown">>}

CeeProtocolName(raw) ==
  LET n == ParseCEENum(raw, 10)
  IN  IF n \in Codes(ceeProtocolNames) THEN Lookup(ceeProtocolNames, n) ELSE "Unknown"

----------------------------------------------------------------------------
(* One event element to one CEPAEvent                                      *)

(* unicode.IsSpace *)
White == Blank \cup {11, 12, 133, 160, 5760, 8232, 8233, 8239, 8287, 12288} \cup 8192..8202

(* The server attribute is a text here, since strings.TrimSpace looks at runes. *)
ConvertCheckEvent(e, fallback) ==
  [EventType |-> CeeEventTypeName(e.event), FilePath |-> CeeEventPath(e),
   UserSID |-> CeeUserSID(e), Protocol |-> CeeProtocolName(e.protocol),
   Server |-> UTF8(Trim(e.server, White)),
   Timestamp |-> CeeTimestamp(e.timeStamp, fallback), BytesWritten |-> 0]

ConvertOneFS(e, fallback) ==
  LET server == DecodeBase64UTF16(e.serverName) IN
  [EventType |-> OnefsEventTypeName(e.eventType),
   FilePath |-> DecodeBase64UTF16(e.name).bytes,
   UserSID |-> e.userSid, Protocol |-> CeeProtocolName(e.protocol),
   Server |-> IF server.ok THEN server.bytes ELSE <<>>,
   Timestamp |-> OnefsTimestamp(e.timeStamp, e.timeStampMicroSeconds, fallback),
   BytesWritten |-> ParseInt64(e.bytesWritten)]

(* convert: VCAPS carries neither protocol nor server. *)
Convert(e, fallback) ==
  [EventType |-> Cepp(e.EventType), FilePath |-> e.FilePath, UserSID |-> e.UserSID,
   Protocol |-> "Unknown", Server |-> <<>>,
   Timestamp |-> ParseTimestamp(e.Timestamp, fallback),
   BytesWritten |-> ParseInt64(e.BytesWritten)]

ParseError == [ok |-> FALSE, events |-> <<>>]
Parsed(events) == [ok |-> TRUE, events |-> events]

(* The parsers of the three dialects.  x is what xml.Unmarshal yields: an error,
   or the event elements in the document; OneFS has none or one. *)
ParseCheckEventRequest(x, fallback) ==
  IF ~x.ok \/ x.items = <<>> THEN ParseError
  ELSE Parsed([i \in DOMAIN x.items |-> ConvertCheckEvent(x.items[i], fallback)])

ParseOneFSEvent(x, fallback) ==
  IF ~x.ok \/ x.items = <<>> THEN ParseError
  ELSE IF ~DecodeBase64UTF16(x.items[1].name).ok THEN ParseError
  ELSE Parsed(<<ConvertOneFS(x.items[1], fallback)>>)

ParseDecoded(batch, single, fallback) ==
  IF batch.ok /\ batch.items # <<>>
    THEN Parsed([i \in DOMAIN batch.items |-> Convert(batch.items[i], fallback)])
  ELSE IF single.ok /\ single.items[1].EventType # ""
    THEN Parsed(<<Convert(single.items[1], fallback)>>)
  ELSE ParseError

----------------------------------------------------------------------------
(* pkg/mapper                                                              *)

Deletes  == {"DELETE_FILE", "DELETE_DIRECTORY"}
SetsACL  == {"SETACL_FILE", "SETACL_DIRECTORY"}
SetsSec  == {"SETSEC_FILE", "SETSEC_DIRECTORY"}
Closes   == {"CLOSE_UNMODIFIED", "CLOSE_DIRECTORY"}
Reads    == {"FILE_READ", "FILE_READ_DIR", "OPEN_FILE_READ", "OPEN_DIRECTORY"}
Writes   == {"CREATE_FILE", "FILE_WRITE", "CLOSE_MODIFIED", "RENAME_FILE", "RENAME_DIRECTORY",
             "OPEN_FILE_WRITE"}

(* cepaToEventID; 4663 is also the default. *)
EventID(name) ==
  IF name \in Deletes THEN 4660
  ELSE IF name \in Closes THEN 4658
  ELSE IF name \in SetsACL \cup SetsSec THEN 4670
  ELSE 4663

(* accessMaskFor; 0x0 for closes, an open without access, and by default. *)
AccessMask(name) ==
  IF name \in Reads THEN "0x1"
  ELSE IF name \in Writes THEN "0x2"
  ELSE IF name = "CREATE_DIRECTORY" THEN "0x4"
  ELSE IF name \in Deletes THEN "0x10000"
  ELSE IF name \in SetsACL THEN "0x40000"
  ELSE IF name \in SetsSec THEN "0x80000"
  ELSE "0x0"

(* accessDescFor; by default the type itself. *)
Accesses(type) ==
  IF type.name \in Reads THEN Cepp("ReadData")
  ELSE IF type.name \in Writes THEN Cepp("WriteData")
  ELSE IF type.name = "CREATE_DIRECTORY" THEN Cepp("AppendData")
  ELSE IF type.name \in Deletes THEN Cepp("DELETE")
  ELSE IF type.name \in SetsACL THEN Cepp("WRITE_DAC")
  ELSE IF type.name \in SetsSec THEN Cepp("WRITE_OWNER")
  ELSE IF type.name \in Closes THEN Cepp("CloseHandle")
  ELSE IF type.name = "OPEN_FILE_NOACCESS" THEN Cepp("no access")
  ELSE type

ObjectType(path) ==
  IF path # <<>> /\ path[Len(path)] = Slash THEN "Directory" ELSE "File"

Map(e) ==
  [EventID |-> EventID(e.EventType.name), TimeCreated |-> e.Timestamp,
   SubjectUserSID |-> e.UserSID, ObjectType |-> ObjectType(e.FilePath),
   ObjectName |-> e.FilePath, AccessMask |-> AccessMask(e.EventType.name),
   Accesses |-> Accesses(e.EventType), BytesWritten |-> e.BytesWritten,
   CEPAEventType |-> e.EventType]
=============================================================================
