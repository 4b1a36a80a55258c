----------------------------- MODULE NtpServer ------------------------------
(***************************************************************************)
(* ntp/server/server.rs: the listening threads that answer NTP and NTS     *)
(* queries, the server state they describe in their headers, and the       *)
(* thread that refreshes it from an upstream server.                       *)
(*                                                                         *)
(* The cookie keys are those of module NtsService, the answers those of    *)
(* module NtpMessages.  Datagrams in flight are sets: they are lost,       *)
(* duplicated and reordered.  The counters and the log are left out.       *)
(***************************************************************************)
EXTENDS NtpMessages

CONSTANTS
  Threads,       \* one listening thread for each address of the config
  MeasClient,    \* the client whose queries are to be measured
  BUF_SIZE,      \* bytes of a query that are received
  Dispersions,   \* what the upstream server reports
  MaxSends,      \* bound: queries sent, by the clients and upstream, copies
                 \* included
  None,
  Wire(_)        \* the datagram of a query

VARIABLES
  now,           \* client's clock, in seconds since 1900
  queries,       \* queries in flight: [id, src, to, sent, copies]
  answers,       \* answers sent so far: [wire, q, rx, tx, bytes]
  thread,        \* where each listening thread is, and with which query
  CLIENT_ADDR,   \* the static mut they all write
  samples,       \* <<file, client>>: whose handling was recorded where
  overlapped,    \* did two threads ever handle two clients at a time?
  servstate,     \* ServerState, and from which upstream answer it comes
  upstream,      \* the refresher, its socket and the upstream server
  sends          \* queries sent so far

threadVars == <<queries, answers, thread, CLIENT_ADDR, samples, overlapped>>
serverVars == <<threadVars, servstate, upstream, sends>>

-----------------------------------------------------------------------------
create_header(query_packet, received, transmit) ==
  [leap |-> servstate.leap, version |-> 4, mode |-> Server,
   stratum |-> servstate.stratum,
   dispersion |-> fix_dispersion(servstate.disp, transmit, servstate.taken),
   refid |-> servstate.refid, origin |-> query_packet.header.transmit,
   receive |-> ntp_timestamp(received), transmit |-> ntp_timestamp(transmit)]

\* A thread at pc, with a query it received at rx, the time t_system at which
\* it turned to it, and a header for its answer.
At(pc, q, rx, t_system, header) ==
  [pc |-> pc, q |-> q, rx |-> rx, t_system |-> t_system, header |-> header]

Idle == At("recvmsg", None, 0, 0, None)

Raw(q) == Cut(Wire(q.id), BUF_SIZE)

Overlap(th) ==
  \E t, u \in Threads : /\ th[t].q # None /\ th[u].q # None
                        /\ th[t].q.src # th[u].q.src

SetThread(t, state) ==
  /\ thread' = [thread EXCEPT ![t] = state]
  /\ overlapped' = (overlapped \/ Overlap(thread'))

\* What a thread sees in CLIENT_ADDR: anything, while another assigns it.
Measured(t) ==
  IF \E u \in Threads \ {t} : thread[u].pc = "assign"
  THEN BOOLEAN ELSE {CLIENT_ADDR = MeasClient}

Record(file, t, measured) ==
  samples' = IF measured THEN samples \cup {<<file, thread[t].q.src>>} ELSE samples

\* sendmsg; a panic in response() ends the thread.
Reply(t, w) ==
  IF w = Panic
  THEN /\ SetThread(t, At("dead", None, 0, 0, None))
       /\ UNCHANGED answers
  ELSE /\ SetThread(t, Idle)
       /\ answers' = answers \cup {[wire |-> w, q |-> thread[t].q, tx |-> now,
                                    rx |-> thread[t].rx,
                                    bytes |-> Raw(thread[t].q).bytes]}

\* Mutant: MSG_PEEK, the last copy stays in the socket.
PeekingRecvMsg(t) ==
  /\ thread[t].pc = "recvmsg"
  /\ \E q \in queries :
       /\ q.to = t
       /\ \E rx \in q.sent .. now :
            SetThread(t, At("assign", q, rx, 0, None))
       /\ queries' = (queries \ {q}) \cup {[q EXCEPT !.copies = @ - 1]}
  /\ UNCHANGED <<answers, CLIENT_ADDR, samples, servstate, upstream, sends>>

\* recvmsg: the kernel stamped the query when it arrived, not when it is read.
RecvMsg(t) ==
  /\ thread[t].pc = "recvmsg"
  /\ \E q \in queries :
       /\ q.to = t
       /\ \E rx \in q.sent .. now :
            SetThread(t, At("assign", q, rx, 0, None))
       /\ queries' = (queries \ {q})
                     \cup {r \in {[q EXCEPT !.copies = @ - 1]} : r.copies > 0}
  /\ UNCHANGED <<answers, CLIENT_ADDR, samples, servstate, upstream, sends>>

\* Mutant: only the first client's address is kept.
OnceAssignAddr(t) ==
  /\ thread[t].pc = "assign"
  /\ CLIENT_ADDR' = IF CLIENT_ADDR = None THEN thread[t].q.src ELSE CLIENT_ADDR
  /\ SetThread(t, At("response", thread[t].q, thread[t].rx, now, None))
  /\ UNCHANGED <<queries, answers, samples, servstate, upstream, sends>>

AssignAddr(t) ==
  /\ thread[t].pc = "assign"
  /\ CLIENT_ADDR' = thread[t].q.src
  /\ SetThread(t, At("response", thread[t].q, thread[t].rx, now, None))
  /\ UNCHANGED <<queries, answers, samples, servstate, upstream, sends>>

Packet(t) == parse_ntp_packet(Raw(thread[t].q))

\* response(), up to the first measurement.
DropMangled(t) ==
  /\ thread[t].pc = "response"
  /\ Mangled(Packet(t))
  /\ SetThread(t, Idle)
  /\ UNCHANGED <<queries, answers, CLIENT_ADDR, samples, servstate, upstream, sends>>

MakeHeader(t) ==
  /\ thread[t].pc = "response"
  /\ ~Mangled(Packet(t))
  /\ \E measured \in Measured(t) : Record("ntp", t, measured)
  /\ LET header == create_header(Packet(t), thread[t].rx + Skew,
                                 thread[t].t_system + Skew) IN
     IF is_nts_packet(Packet(t))
     THEN /\ SetThread(t, At("nts", thread[t].q, thread[t].rx, 0, header))
          /\ UNCHANGED answers
     ELSE Reply(t, [head |-> serialize_header(header), exts |-> <<>>,
                    bytes |-> HEADER_SIZE])
  /\ UNCHANGED <<queries, CLIENT_ADDR, servstate, upstream, sends>>

\* response(), the cookie could not be used.
RefuseCookie(t) ==
  /\ thread[t].pc = "nts"
  /\ CookieStatus(extract_extension(Packet(t), NTSCookie)) # "good"
  /\ Reply(t, serialize_ntp_packet(kiss_of_death(Packet(t))))
  /\ UNCHANGED <<queries, CLIENT_ADDR, samples, servstate, upstream, sends>>

\* response(), from process_nts to the second measurement.
AnswerNts(t) ==
  LET cookie == extract_extension(Packet(t), NTSCookie)
      res == process_nts(thread[t].header, cookie.body.keys,
                         Raw(thread[t].q), now + Skew) IN
  /\ thread[t].pc = "nts"
  /\ CookieStatus(cookie) = "good"
  /\ Reply(t, res)
  /\ IF res = Panic THEN UNCHANGED samples
     ELSE \E measured \in Measured(t) : Record("nts", t, measured)
  /\ UNCHANGED <<queries, CLIENT_ADDR, servstate, upstream, sends>>

-----------------------------------------------------------------------------
\* Mutant: every round sends two queries.
BurstRefreshSend ==
  /\ upstream.pc = "send"
  /\ sends < MaxSends
  /\ sends' = sends + 1
  /\ upstream' = [upstream EXCEPT !.pc = "recv", !.sent = @ + 2]
  /\ UNCHANGED <<threadVars, servstate>>

\* refresh_servstate: one query and at most one answer a round.
RefreshSend ==
  /\ upstream.pc = "send"
  /\ sends < MaxSends
  /\ sends' = sends + 1
  /\ upstream' = [upstream EXCEPT !.pc = "recv", !.sent = @ + 1]
  /\ UNCHANGED <<threadVars, servstate>>

\* connect or send fails: expect() ends the thread, the state stays as it is.
RefreshPanics ==
  /\ upstream.pc = "send"
  /\ upstream' = [upstream EXCEPT !.pc = "dead"]
  /\ UNCHANGED <<threadVars, servstate, sends>>

\* The upstream server's answers come over the loopback interface, in order,
\* at any time or never; some do not parse.
UpstreamAnswer ==
  /\ \E k \in upstream.handled + 1 .. upstream.sent, d \in Dispersions,
        parses \in BOOLEAN :
       upstream' = [upstream EXCEPT
                      !.handled = k,
                      !.inbox = Append(@, [k |-> k, parses |-> parses, disp |-> d,
                                           leap |-> NoLeap, stratum |-> 2,
                                           refid |-> "upstream"])]
  /\ UNCHANGED <<threadVars, servstate, sends>>

\* Nothing in the answer is checked: neither its mode nor its origin.
Adopted(a) ==
  [leap |-> a.leap, stratum |-> a.stratum, disp |-> a.disp, refid |-> a.refid,
   taken |-> now + Skew, k |-> a.k, lag |-> upstream.sent - a.k]

RefreshRecv ==
  /\ upstream.pc = "recv"
  /\ upstream.inbox # <<>>
  /\ upstream' = [upstream EXCEPT !.pc = "send", !.inbox = Tail(@)]
  /\ servstate' = IF Head(upstream.inbox).parses
                  THEN Adopted(Head(upstream.inbox)) ELSE servstate
  /\ UNCHANGED <<threadVars, sends>>

\* The read timeout, or a refused connection.
RefreshReadError ==
  /\ upstream.pc = "recv"
  /\ upstream.inbox = <<>>
  /\ upstream' = [upstream EXCEPT !.pc = "send", !.errors = @ + 1]
  /\ UNCHANGED <<threadVars, servstate, sends>>

-----------------------------------------------------------------------------
\* start_ntp_server, with and without an upstream server in the config.
StartState(configured) ==
  [leap |-> IF configured THEN UnknownLeap ELSE NoLeap,
   stratum |-> IF configured THEN 16 ELSE 1,
   disp |-> 10, refid |-> "none", taken |-> now + Skew, k |-> 0, lag |-> 0]

ServerInit ==
  /\ queries = {}
  /\ answers = {}
  /\ thread = [t \in Threads |-> Idle]
  /\ CLIENT_ADDR = None
  /\ samples = {}
  /\ overlapped = FALSE
  /\ sends = 0
  /\ \E configured \in BOOLEAN :
       /\ servstate = StartState(configured)
       /\ upstream = [pc |-> IF configured THEN "send" ELSE "none", sent |-> 0,
                      handled |-> 0, inbox |-> <<>>, errors |-> 0]

ServerStep ==
  \/ \E t \in Threads : \/ RecvMsg(t) \/ AssignAddr(t) \/ DropMangled(t)
                        \/ MakeHeader(t) \/ RefuseCookie(t) \/ AnswerNts(t)
  \/ RefreshSend
  \/ RefreshPanics
  \/ UpstreamAnswer
  \/ RefreshRecv
  \/ RefreshReadError

=============================================================================
