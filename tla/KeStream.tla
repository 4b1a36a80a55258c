------------------------------ MODULE KeStream ------------------------------
(***************************************************************************)
(* One connection of the NTS-KE server: read_ready, which takes the        *)
(* records of a request out of a TLS stream that arrives in pieces of any  *)
(* size (nts_ke/server/connection.rs).                                     *)
(***************************************************************************)
EXTENDS KeRecords, FiniteSetsExt

CONSTANTS
  Requests,     \* sequences of records a client may send
  Cookie,       \* the codes of a cookie
  NextPort      \* next_port of the configuration

ASSUME StreamAssumption ==
  /\ NextPort \in 0 .. 2^16 - 1
  /\ Cookie \in Seq(0 .. 2^16 - 1)
  /\ Requests \subseteq Seq(Record)

VARIABLES
  request,      \* what this client sends
  delivered,    \* how many of its bytes have come out of the TLS session
  buffer,       \* length of ntske_buffer
  parsed,       \* how many of its records have been taken out of the buffer
  ke,           \* ntske_state
  state,        \* KeServerConnState
  reply         \* the records of the response, one response after the other

vars == <<request, delivered, buffer, parsed, ke, state, reply>>

Init ==
  /\ request \in Requests
  /\ delivered = 0
  /\ buffer = 0
  /\ parsed = 0
  /\ ke = NoRecords
  /\ state = "Connected"
  /\ reply = <<>>

\* Offsets of the ends of the records.
Ends(records) ==
  LET end[j \in 0 .. Len(records)] ==
        IF j = 0 THEN 0 ELSE end[j - 1] + Size(records[j])
  IN end

End(i) == Ends(request)[i]

\* Records that the first n bytes contain entirely.
Complete(n) == Max({i \in 0 .. Len(request) : End(i) <= n})

-----------------------------------------------------------------------------
\* A read that yields no plaintext.
ReadHandshake ==
  /\ state \in {"Connected", "TlsHandshaking"}
  /\ state' = "TlsHandshaking"
  /\ UNCHANGED <<request, delivered, buffer, parsed, ke, reply>>

\* The first record at which the loop over the first n bytes stops, if any.
Stops(n) ==
  {i \in parsed + 1 .. Complete(n) :
     Decided(Loop(ke, SubSeq(request, parsed + 1, i)))}

\* Mutant: what has been read stays in the buffer.
KeepingExtract(n) ==
  LET stop == Stops(delivered + n) IN
  /\ delivered' = delivered + n
  /\ buffer' = buffer + n
  /\ parsed' = IF ke.finished THEN parsed
               ELSE IF stop = {} THEN Complete(delivered + n) ELSE Min(stop)
  /\ ke' = Loop(ke, SubSeq(request, parsed + 1, parsed'))

\* Mutant: the rest is appended to the buffer instead of replacing it.
AppendingExtract(n) ==
  LET stop == Stops(delivered + n) IN
  /\ delivered' = delivered + n
  /\ parsed' = IF ke.finished THEN parsed
               ELSE IF stop = {} THEN Complete(delivered + n) ELSE Min(stop)
  /\ ke' = Loop(ke, SubSeq(request, parsed + 1, parsed'))
  /\ buffer' = buffer + n + (delivered + n - End(parsed'))

\* Mutant: a record is taken as soon as its header is there.
HastyExtract(n) ==
  /\ delivered' = delivered + n
  /\ parsed' = Max({parsed} \cup {i \in 1 .. Len(request) :
                      End(i - 1) + HEADER_SIZE <= delivered + n})
  /\ ke' = Loop(ke, SubSeq(request, parsed + 1, parsed'))
  /\ buffer' = 0

\* n more bytes go into the buffer and records are taken out of it, until a
\* record is incomplete, the message ends, or a record is refused.  Only in
\* the first case is what has been read taken off the buffer.
Extract(n) ==
  LET stop == Stops(delivered + n) IN
  /\ delivered' = delivered + n
  /\ \/ /\ ke.finished
        /\ buffer' = buffer + n
        /\ UNCHANGED <<parsed, ke>>
     \/ /\ ~ke.finished
        /\ parsed' = IF stop = {} THEN Complete(delivered + n) ELSE Min(stop)
        /\ ke' = Loop(ke, SubSeq(request, parsed + 1, parsed'))
        /\ buffer' = IF stop = {} THEN (delivered + n) - End(parsed')
                                  ELSE buffer + n

Readable == state \in {"TlsHandshaking", "Opened", "ResponseSent"}

\* Mutant: nothing makes sure that the response is not sent yet.
RepeatingReadPlaintext(n) ==
  /\ Readable
  /\ Extract(n)
  /\ state' = IF ke'.failed THEN "Closed"
              ELSE IF ke'.finished THEN "ResponseSent" ELSE "Opened"
  /\ reply' = IF ~ke'.failed /\ ke'.finished
              THEN reply \o Response(Cookie, NextPort) ELSE reply
  /\ UNCHANGED request

\* read_ready with n bytes of plaintext.
ReadPlaintext(n) ==
  /\ Readable
  /\ Extract(n)
  /\ \/ /\ ke'.failed
        /\ state' = "Closed"
        /\ UNCHANGED reply
     \/ /\ ~ke'.failed
        /\ ke'.finished
        /\ state # "ResponseSent"
        /\ state' = "ResponseSent"
        /\ reply' = reply \o Response(Cookie, NextPort)
     \/ /\ ~ke'.failed
        /\ ke'.finished
        /\ state = "ResponseSent"
        /\ UNCHANGED <<state, reply>>
     \/ /\ ~ke'.failed
        /\ ~ke'.finished
        /\ state' = "Opened"
        /\ UNCHANGED reply
  /\ UNCHANGED request

\* The TLS session refuses what follows n bytes of plaintext: the connection
\* is shut down first, but the plaintext is still looked at.
ReadTlsError(n) ==
  /\ Readable
  /\ \/ n > 0 /\ Extract(n)
     \/ n = 0 /\ UNCHANGED <<delivered, buffer, parsed, ke>>
  /\ state' = "Closed"
  /\ UNCHANGED <<request, reply>>

\* The read fails, the stream ends, or the client's close_notify arrives, for
\* which read_to_end drops the plaintext that precedes it.
ReadEnd ==
  /\ state # "Closed"
  /\ state' = "Closed"
  /\ UNCHANGED <<request, delivered, buffer, parsed, ke, reply>>

Next ==
  \/ ReadHandshake
  \/ \E n \in 1 .. End(Len(request)) - delivered : ReadPlaintext(n)
  \/ \E n \in 0 .. End(Len(request)) - delivered : ReadTlsError(n)
  \/ ReadEnd

Spec == Init /\ [][Next]_vars

-----------------------------------------------------------------------------
(* What a request means, whatever the pieces it arrives in.                *)

\* The records before the first that ends the message or is refused.
Deciding(r) ==
  \/ deserialize(r) = "fatal"
  \/ deserialize(r) = "record" /\ RecordType(r) \in {EndOfMessage, Error}

Decision(n) == {i \in 1 .. Complete(n) : Deciding(request[i])}

Effective(n, type) ==
  {i \in 1 .. Complete(n) :
     /\ \A j \in Decision(n) : i < j
     /\ deserialize(request[i]) = "record"
     /\ RecordType(request[i]) = type}

LastCodes(n, type) ==
  IF Effective(n, type) = {} THEN <<>>
                             ELSE request[Max(Effective(n, type))].codes

Finished(n) ==
  /\ Decision(n) # {}
  /\ LET r == request[Min(Decision(n))]
     IN deserialize(r) = "record" /\ RecordType(r) = EndOfMessage

\* Every variable keeps its type.
TypeOK ==
  /\ request \in Requests
  /\ delivered \in 0 .. End(Len(request))
  /\ buffer \in 0 .. delivered
  /\ parsed \in 0 .. Len(request)
  /\ ke.finished \in BOOLEAN /\ ke.failed \in BOOLEAN
  /\ state \in
       {"Connected", "TlsHandshaking", "Opened", "ResponseSent", "Closed"}

\* What read_ready has made of a request depends on the bytes it has got and
\* not on how they were cut: the negotiated values are those of the last
\* record of each type before the one that decides the exchange.
ChunkingIrrelevant ==
  /\ ke.finished = Finished(delivered)
  /\ ke.failed = (Decision(delivered) # {} /\ ~Finished(delivered))
  /\ ke.next_protocols = LastCodes(delivered, NextProtocol)
  /\ ke.aead_scheme = LastCodes(delivered, AeadAlgorithm)
  /\ ke.next_server = LastCodes(delivered, Server)
  /\ ke.next_port = LastCodes(delivered, Port)
  /\ Len(ke.cookies) = Cardinality(Effective(delivered, NewCookie))

\* The response goes out when, and only when, the End of Message is complete,
\* and once; no read on a closed connection adds to it.
AnsweredOnce ==
  /\ state = "ResponseSent" => ke.finished
  /\ state = "Opened" => ~ke.finished
  /\ reply \in {<<>>, Response(Cookie, NextPort)}
  /\ state = "ResponseSent" => reply # <<>>

\* Until the message ends the buffer holds less than one record, the one that
\* starts where the last one ended.
BufferIsOneRecord ==
  state = "Opened" =>
    /\ buffer = delivered - End(parsed)
    /\ parsed < Len(request) => buffer < Size(request[parsed + 1])

\* The client's loop makes of a response what the server put into it.
ClientUnderstands ==
  reply # <<>> =>
    Loop(NoRecords, reply) =
      [NoRecords EXCEPT
         !.finished = TRUE,
         !.next_protocols = <<Ntpv4>>,
         !.aead_scheme = <<AeadAesSivCmac256>>,
         !.cookies = [i \in 1 .. 8 |-> Cookie],
         !.next_port = <<NextPort>>]

\* "The following 15 bits are the record type number" (deserialize): only a
\* record of type 0 ends a message.
OnlyType0Ends ==
  ke.finished => \E i \in 1 .. parsed : request[i].word % 2^15 = 0

=============================================================================
