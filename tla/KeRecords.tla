----------------------------- MODULE KeRecords ------------------------------
(***************************************************************************)
(* NTS-KE records: how they are written, read and processed                *)
(* (nts_ke/records).  A record is its first 16-bit word, the 16-bit codes   *)
(* of its body, and the number of bytes (0 or 1) left over after them.     *)
(***************************************************************************)
EXTENDS Integers, Sequences

HEADER_SIZE == 4

EndOfMessage == 0
NextProtocol == 1
Error == 2
Warning == 3
AeadAlgorithm == 4
NewCookie == 5
Server == 6
Port == 7

Ntpv4 == 0
AeadAesSivCmac256 == 15
Dummy == 65535

\* Whatever the bytes of a record are, they are one of these.
Record == [word : 0 .. 2^16 - 1, codes : Seq(0 .. 2^16 - 1), odd : {0, 1}]

serialize(critical, type, codes) ==
  [word |-> (IF critical THEN 2^15 ELSE 0) + type, codes |-> codes, odd |-> 0]

Size(r) == HEADER_SIZE + 2 * Len(r.codes) + r.odd

Critical(r) == r.word \div 2^15 = 1

\* bytes[0] & 0x7 leaves 11 bits of the word.
RecordType(r) == r.word % 2^11

All(codes, S) == \A i \in DOMAIN codes : codes[i] \in S

OneCode(r) == r.odd = 0 /\ Len(r.codes) = 1

Ascii == {c \in 0 .. 2^16 - 1 : c \div 2^8 < 2^7 /\ c % 2^8 < 2^7}

\* Does from_bytes of the record's type accept its body?
from_bytes(r) ==
  CASE RecordType(r) = EndOfMessage -> Size(r) = HEADER_SIZE
    [] RecordType(r) = NextProtocol -> r.odd = 0 /\ All(r.codes, {Ntpv4})
    [] RecordType(r) = Error -> OneCode(r) /\ All(r.codes, {0, 1})
    [] RecordType(r) = Warning -> OneCode(r) /\ All(r.codes, {Dummy})
    [] RecordType(r) = AeadAlgorithm ->
         r.odd = 0 /\ All(r.codes, {AeadAesSivCmac256})
    [] RecordType(r) = NewCookie -> TRUE
    [] RecordType(r) = Server -> All(r.codes, Ascii)
    [] RecordType(r) = Port -> OneCode(r)

\* deserialize, and the way both of its callers treat its errors: an unknown
\* record that is not critical is skipped, any other error is fatal.
deserialize(r) ==
  IF RecordType(r) \in EndOfMessage .. Port
  THEN IF from_bytes(r) THEN "record" ELSE "fatal"
  ELSE IF Critical(r) THEN "fatal" ELSE "skip"

\* ReceivedNtsKeRecordState; failed when the caller has given up.
NoRecords ==
  [finished |-> FALSE, failed |-> FALSE, next_protocols |-> <<>>,
   aead_scheme |-> <<>>, cookies |-> <<>>, next_server |-> <<>>,
   next_port |-> <<>>]

process_record(st, r) ==
  CASE RecordType(r) = EndOfMessage -> [st EXCEPT !.finished = TRUE]
    [] RecordType(r) = NextProtocol -> [st EXCEPT !.next_protocols = r.codes]
    [] RecordType(r) = Error -> [st EXCEPT !.failed = TRUE]
    [] RecordType(r) = Warning -> st
    [] RecordType(r) = AeadAlgorithm -> [st EXCEPT !.aead_scheme = r.codes]
    [] RecordType(r) = NewCookie -> [st EXCEPT !.cookies = Append(@, r.codes)]
    [] RecordType(r) = Server -> [st EXCEPT !.next_server = r.codes]
    [] RecordType(r) = Port -> [st EXCEPT !.next_port = r.codes]

\* One turn of the loop that server and client have in common.
Step(st, r) ==
  CASE deserialize(r) = "record" -> process_record(st, r)
    [] deserialize(r) = "skip" -> st
    [] deserialize(r) = "fatal" -> [st EXCEPT !.failed = TRUE]

Decided(st) == st.finished \/ st.failed

\* The loop over a sequence of records: it stops at the end or at an error.
Turn(st, r) == IF Decided(st) THEN st ELSE Step(st, r)

Loop(st, records) ==
  LET after[i \in 0 .. Len(records)] ==
        IF i = 0 THEN st ELSE Turn(after[i - 1], records[i])
  IN after[Len(records)]

\* The request of run_nts_ke_client.
ClientRequest ==
  << serialize(TRUE, NextProtocol, <<Ntpv4>>),
     serialize(TRUE, AeadAlgorithm, <<AeadAesSivCmac256>>),
     serialize(TRUE, EndOfMessage, <<>>) >>

\* Mutant: the message ends before the port.
EarlyEndResponse(cookie, port) ==
  << serialize(TRUE, NextProtocol, <<Ntpv4>>),
     serialize(TRUE, AeadAlgorithm, <<AeadAesSivCmac256>>) >>
  \o [i \in 1 .. 8 |-> serialize(FALSE, NewCookie, cookie)]
  \o << serialize(TRUE, EndOfMessage, <<>>),
        serialize(TRUE, Port, <<port>>) >>

\* response() of the NTS-KE server, with eight copies of a cookie.
Response(cookie, port) ==
  << serialize(TRUE, NextProtocol, <<Ntpv4>>),
     serialize(TRUE, AeadAlgorithm, <<AeadAesSivCmac256>>) >>
  \o [i \in 1 .. 8 |-> serialize(FALSE, NewCookie, cookie)]
  \o << serialize(TRUE, Port, <<port>>),
        serialize(TRUE, EndOfMessage, <<>>) >>

=============================================================================
