---------------------------- MODULE NtpExchange -----------------------------
(***************************************************************************)
(* ntp/client.rs against ntp/server/server.rs: the measured client asks for*)
(* the time with the cookie of its key exchange, over a network that loses,*)
(* duplicates, delays and reorders, while another client, of any           *)
(* implementation, sends the server one query of its own.                  *)
(***************************************************************************)
EXTENDS NtpServer

CONSTANTS
  OtherClient,
  OtherIds,         \* names of the queries the other client may send
  OtherWire(_),     \* and their datagrams
  StartTimes,       \* of the client's clock
  MeasThread,       \* the threads whose addresses the clients use
  OtherThread,
  TIMEOUT,          \* read timeout of the client (10 s)
  MaxTicks          \* bound: seconds a behaviour lasts

VARIABLES
  client,           \* run_nts_ntp_client: [pc, n, t1, cookie, result, error]
  other,            \* has the other client sent its query?
  start             \* the client's clock at the beginning

vars == <<now, serverVars, client, other, start>>

ASSUME BoundsAssumption == MaxSends \in Nat /\ MaxTicks \in Nat

\* "Safe absent time machines" (ntp_timestamp): both clocks are past 1900.
ASSUME StartAssumption == \A s \in StartTimes : s \in Nat /\ s + Skew >= 0

ASSUME ClientsAssumption == MeasClient # OtherClient

\* The datagram of a query: an exchange of the measured client is identified by
\* its number and the state of its cookie.
QueryWire(id) ==
  IF id[1] = "exchange" THEN NtsQuery(id[2], id[3]) ELSE OtherWire(id)

\* What the clients send.
Exchanges == {"exchange"} \X (1 .. MaxSends) \X {"good", "missing"}

Queries == [id : Exchanges \cup OtherIds, src : {MeasClient, OtherClient},
            to : {MeasThread, OtherThread}, sent : Nat, copies : 1 .. MaxSends]

Results == [twice : Int, delay : Int, sent : Int]

ASSUME NoneAssumption == None \notin Queries /\ None \notin Results

\* The other client sends whatever it likes.
ASSUME WireAssumption ==
  /\ \A id \in Exchanges \cup OtherIds : Wire(id) = QueryWire(id)
  /\ \A id \in OtherIds : id[1] # "exchange" /\ IsDatagram(OtherWire(id))

\* A query of the client fits the buffer, which has 1280 bytes.
ASSUME BufferAssumption == BUF_SIZE \in Nat /\ BUF_SIZE >= NtsQuery(0, "good").bytes

\* socket.send: the network loses the query, delivers it or delivers it twice.
Send(id, src, t) ==
  /\ sends < MaxSends
  /\ \/ sends' = sends + 1 /\ UNCHANGED queries
     \/ \E copies \in 1 .. MaxSends - sends :
          /\ sends' = sends + copies
          /\ queries' = queries \cup {[id |-> id, src |-> src, to |-> t,
                                       sent |-> now, copies |-> copies]}
  /\ UNCHANGED <<now, answers, thread, CLIENT_ADDR, samples, overlapped,
                 servstate, upstream, start>>

Ask ==
  /\ client.pc = "idle"
  /\ client' = [client EXCEPT !.pc = "recv", !.n = @ + 1, !.t1 = now]
  /\ Send(<<"exchange", client.n + 1, client.cookie>>, MeasClient, MeasThread)
  /\ UNCHANGED other

AskOther ==
  /\ ~other
  /\ other' = TRUE
  /\ \E id \in OtherIds : Send(id, OtherClient, OtherThread)
  /\ UNCHANGED client

\* Mutant: the way back is subtracted.
SwappedTimeDiff(header, sent) ==
  [twice |-> (timestamp_to_float(header.receive) - client.t1)
             - (timestamp_to_float(header.transmit) - now),
   delay |-> now - client.t1, sent |-> sent]

TimeDiff(header, sent) ==
  [twice |-> (timestamp_to_float(header.receive) - client.t1)
             + (timestamp_to_float(header.transmit) - now),
   delay |-> now - client.t1, sent |-> sent]

\* What the client makes of a datagram: an error, a panic of the parser or on
\* auth_exts[0], or the time.
Verdict(w) ==
  LET received == parse_nts_packet(w, <<Keys, "s2c">>) IN
  IF received = Panic THEN "panic"
  ELSE IF IsErr(received) THEN "Err"
  ELSE IF received.auth_exts = <<>> THEN "panic"
  ELSE IF received.auth_exts[1].body # [uid |-> client.n] THEN "InvalidUid"
  ELSE "Ok"

\* recv_from returns one datagram: any that was ever sent to the client, whose
\* port may be one it used before.
Receive ==
  /\ client.pc = "recv"
  /\ \E a \in answers :
       /\ a.q.src = MeasClient
       /\ client' =
            [client EXCEPT
               !.pc = "idle",
               !.error = Verdict(a.wire),
               !.result = IF Verdict(a.wire) = "Ok"
                          THEN TimeDiff(a.wire.head, a.tx + Skew) ELSE @]
  /\ UNCHANGED <<now, serverVars, other, start>>

\* The read timeout, at the latest, or before it an error of the socket.
ReadTimeout ==
  /\ client.pc = "recv"
  /\ client' = [client EXCEPT !.pc = "idle", !.error = "Err"]
  /\ UNCHANGED <<now, serverVars, other, start>>

Tick ==
  /\ now < start + MaxTicks
  /\ client.pc = "recv" => now < client.t1 + TIMEOUT
  /\ now' = now + 1
  /\ UNCHANGED <<serverVars, client, other, start>>

Init ==
  /\ start \in StartTimes
  /\ now = start
  /\ ServerInit
  /\ client \in [pc : {"idle"}, n : {0}, t1 : {start},
                 cookie : {"good", "missing"},
                 result : {None}, error : {"none"}]
  /\ other = FALSE

Next ==
  \/ Tick
  \/ Ask
  \/ AskOther
  \/ Receive
  \/ ReadTimeout
  \/ ServerStep /\ UNCHANGED <<now, client, other, start>>

Spec == Init /\ [][Next]_vars

-----------------------------------------------------------------------------
\* The threads are at a place of their code, a datagram that was read as often
\* as it was delivered is gone, and only the two files are written.
TypeOK ==
  /\ now \in start .. start + MaxTicks
  /\ \A q \in queries : q.src \in {MeasClient, OtherClient} /\ q.copies \in 1 .. MaxSends
  /\ \A t \in Threads :
       thread[t].pc \in {"recvmsg", "assign", "response", "nts", "dead"}
  /\ samples \subseteq {"ntp", "nts"} \X {MeasClient, OtherClient}
  /\ client.pc \in {"idle", "recv"}
  /\ client.error \in {"none", "Ok", "Err", "InvalidUid", "panic"}
  /\ upstream.pc \in {"none", "send", "recv", "dead"}

\* "Avoid amplification" (nts_response): an answer is longer than what was read
\* of its query only if parse_extensions filled up with zeros the unique
\* identifier that the kiss of death returns, or if the query was sealed with a
\* nonce shorter than the server's own.
LongerNeedsCutUidOrShortNonce ==
  \A a \in answers :
    LET w == Raw(a.q)
        UidCut(i) == w.exts[i].type = UniqueIdentifier /\ ~Whole(w, i)
    IN a.wire.bytes > a.bytes =>
         IF a.wire.head.refid = NTSN
         THEN \E i \in Present(w) : UidCut(i)
         ELSE w.exts[FirstAuth(w)].body.nonce_len < NONCE_LEN

\* The two parsers of one query: parse_nts_packet trusts the length fields and
\* serialize_extensions panics on a length that is not a multiple of 4, but
\* parse_ntp_packet has refused most such queries before.  A thread ends only
\* on a query whose authenticator claims to be longer than the datagram.
PanicNeedsOverlongAuthenticator ==
  [][ \A t \in Threads :
        thread'[t].pc = "dead" /\ thread[t].pc # "dead" =>
          LET w == Raw(thread[t].q) IN
          Auths(w) # {} /\ w.exts[FirstAuth(w)].len > w.bytes ]_vars


\* With a cookie the server can open, the client gets the time from every
\* answer to its pending query, and never panics; without one, from none.
ClientUnderstandsServer ==
  \A a \in answers :
    (a.q.src = MeasClient /\ a.q.id[2] = client.n) =>
      Verdict(a.wire) = IF client.cookie = "good" THEN "Ok" ELSE "Err"

\* The static mut CLIENT_ADDR: another client's query is recorded as the
\* measured client's only if two threads handled two clients at a time.
MisrecordNeedsOverlap ==
  (\E file \in {"ntp", "nts"} : <<file, OtherClient>> \in samples) => overlapped

\* refresh_servstate never empties its socket: a late answer makes every later
\* one late.  The state it adopts is behind by at most one query for each read
\* error so far.
LagBoundedByErrors ==
  servstate.lag <= upstream.errors

\* The answers with a time that were made for the measured client.
Served ==
  {[n |-> a.q.id[2], rx |-> a.rx, tx |-> a.tx] : a \in
     {b \in answers : b.q.src = MeasClient /\ b.wire.head.refid # NTSN}}

Transfer == INSTANCE TimeTransfer
  WITH n <- client.n, pending <- (client.pc = "recv"), t1 <- client.t1,
       served <- Served, result <- client.result

\* run_nts_ntp_client and response() implement a time transfer: whatever the
\* network delivers late, twice or out of order, a time that the client takes
\* was stamped by the server for this very exchange, after it began and before
\* it ended, and each exchange takes one.
ImplementsTransfer == Transfer!Spec

\* The offset the client computes is wrong by at most half the time the
\* exchange took, plus half an era for each timestamp that has wrapped.
OffsetErrorBounded == Transfer!OffsetErrorBounded

\* "Compute the current dispersion to within 1 ULP" (fix_dispersion): what the
\* header of an answer made now would say.
DispersionWithin1Ulp ==
  LET exact == DispersionUnits(servstate.disp, now + Skew - servstate.taken)
                 \div 3125
  IN fix_dispersion(servstate.disp, now + Skew, servstate.taken)
       \in exact - 1 .. exact + 1

=============================================================================
