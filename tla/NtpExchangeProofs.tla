------------------------- MODULE NtpExchangeProofs -------------------------
(***************************************************************************)
(* The NTP exchange, for every number of threads, every skew, era and      *)
(* bound, and every datagram of the other client: the refresher's lag, the *)
(* error of the offset, the invariant of queries, threads and answers, the *)
(* attribution of measurements, and the refinement of TimeTransfer.        *)
(***************************************************************************)
EXTENDS NtpExchange, NtpMessagesProofs

\* Answers read so far: one a round, but for the rounds that ended in an error
\* and the round that is not over.
Rounds == upstream.sent - upstream.errors - (IF upstream.pc = "recv" THEN 1 ELSE 0)

\* What the upstream server answers to the k-th query of the refresher.
UpstreamAnswers == [k : Nat, parses : BOOLEAN, disp : Dispersions,
                    leap : {NoLeap}, stratum : {2}, refid : {"upstream"}]

\* The state of the refresher.
UpstreamTypes ==
  /\ upstream \in [pc : {"none", "send", "recv", "dead"}, sent : Nat, handled : Nat,
                   inbox : Seq(UpstreamAnswers), errors : Nat]
  /\ servstate.lag \in Int

\* The i-th answer in the socket is to the i-th query after those already read
\* about, or to a later one.
InboxInOrder ==
  /\ \A i \in 1 .. Len(upstream.inbox) : upstream.inbox[i].k >= Rounds + i
  /\ upstream.handled >= Rounds + Len(upstream.inbox)

\* The inductive invariant of the refresher.
RefreshInv == UpstreamTypes /\ InboxInOrder /\ LagBoundedByErrors

\* No query was sent and no error met: the starting state is not behind.
LEMMA RefreshInit == Init => RefreshInv
<1> SUFFICES ASSUME Init PROVE RefreshInv
  BY Zenon
<1>1. PICK configured \in BOOLEAN :
        /\ servstate = StartState(configured)
        /\ upstream = [pc |-> IF configured THEN "send" ELSE "none", sent |-> 0,
                       handled |-> 0, inbox |-> <<>>, errors |-> 0]
  BY Zenon DEF Init, ServerInit
<1>2. servstate.lag = 0
  BY <1>1, Zenon DEF StartState
<1>3. /\ upstream.pc \in {"none", "send"} /\ upstream.sent = 0
      /\ upstream.handled = 0 /\ upstream.inbox = <<>> /\ upstream.errors = 0
  BY <1>1, Zenon
<1>4. UpstreamTypes
  <2>1. <<>> \in Seq(UpstreamAnswers)
    OBVIOUS
  <2> QED BY <1>1, <1>2, <2>1 DEF UpstreamTypes
<1>5. Rounds = 0
  <2>1. upstream.pc # "recv"
    BY <1>3, Zenon
  <2>2. Rounds = 0 - 0 - 0
    BY <1>3, <2>1, Zenon DEF Rounds
  <2> QED BY <2>2
<1>6. InboxInOrder
  BY <1>3, <1>5 DEF InboxInOrder
<1> QED BY <1>2, <1>3, <1>4, <1>6 DEF RefreshInv, LagBoundedByErrors

\* All other steps leave the refresher alone.
LEMMA OthersUnchanged ==
  ASSUME RefreshInv, UNCHANGED <<upstream, servstate>>
  PROVE  RefreshInv'
BY Zenon DEF RefreshInv, UpstreamTypes, InboxInOrder, LagBoundedByErrors, Rounds

\* A round begins; no answer is read.
LEMMA SendStep ==
  ASSUME RefreshInv, RefreshSend
  PROVE  RefreshInv'
<1>1. /\ upstream' = [upstream EXCEPT !.pc = "recv", !.sent = @ + 1]
      /\ upstream.pc = "send" /\ servstate' = servstate
  BY Zenon DEF RefreshSend
<1>2. UpstreamTypes'
  <2>1. upstream.sent + 1 \in Nat
    BY DEF RefreshInv, UpstreamTypes
  <2>2. upstream' \in [pc : {"none", "send", "recv", "dead"}, sent : Nat, handled : Nat,
                       inbox : Seq(UpstreamAnswers), errors : Nat]
    BY <1>1, <2>1, Zenon DEF RefreshInv, UpstreamTypes
  <2> QED BY <1>1, <2>2, Zenon DEF RefreshInv, UpstreamTypes
<1>3. Rounds' = Rounds
  BY <1>1 DEF RefreshInv, UpstreamTypes, Rounds
<1>4. /\ upstream'.inbox = upstream.inbox /\ upstream'.handled = upstream.handled
      /\ upstream'.errors = upstream.errors
  BY <1>1, Zenon DEF RefreshInv, UpstreamTypes
<1>5. InboxInOrder'
  BY <1>3, <1>4, Zenon DEF RefreshInv, InboxInOrder
<1> QED BY <1>1, <1>2, <1>4, <1>5, Zenon DEF RefreshInv, LagBoundedByErrors

\* A failing send ends the thread between two rounds.
LEMMA PanicStep ==
  ASSUME RefreshInv, RefreshPanics
  PROVE  RefreshInv'
<1>1. /\ upstream' = [upstream EXCEPT !.pc = "dead"]
      /\ upstream.pc = "send" /\ servstate' = servstate
  BY Zenon DEF RefreshPanics
<1>2. UpstreamTypes'
  BY <1>1, Zenon DEF RefreshInv, UpstreamTypes
<1>3. Rounds' = Rounds
  BY <1>1, Zenon DEF RefreshInv, UpstreamTypes, Rounds
<1>4. /\ upstream'.inbox = upstream.inbox /\ upstream'.handled = upstream.handled
      /\ upstream'.errors = upstream.errors
  BY <1>1, Zenon DEF RefreshInv, UpstreamTypes
<1>5. InboxInOrder'
  BY <1>3, <1>4, Zenon DEF RefreshInv, InboxInOrder
<1> QED BY <1>1, <1>2, <1>4, <1>5, Zenon DEF RefreshInv, LagBoundedByErrors

\* A round that ends in a read error allows one more query of lag.
LEMMA ErrorStep ==
  ASSUME RefreshInv, RefreshReadError
  PROVE  RefreshInv'
<1>1. /\ upstream' = [upstream EXCEPT !.pc = "send", !.errors = @ + 1]
      /\ upstream.pc = "recv" /\ servstate' = servstate
  BY Zenon DEF RefreshReadError
<1>2. UpstreamTypes'
  <2>1. upstream.errors + 1 \in Nat
    BY DEF RefreshInv, UpstreamTypes
  <2>2. upstream' \in [pc : {"none", "send", "recv", "dead"}, sent : Nat, handled : Nat,
                       inbox : Seq(UpstreamAnswers), errors : Nat]
    BY <1>1, <2>1, Zenon DEF RefreshInv, UpstreamTypes
  <2> QED BY <1>1, <2>2, Zenon DEF RefreshInv, UpstreamTypes
<1>3. Rounds' = Rounds
  BY <1>1 DEF RefreshInv, UpstreamTypes, Rounds
<1>4. /\ upstream'.inbox = upstream.inbox /\ upstream'.handled = upstream.handled
      /\ upstream'.errors = upstream.errors + 1
  BY <1>1, Zenon DEF RefreshInv, UpstreamTypes
<1>5. InboxInOrder'
  BY <1>3, <1>4, Zenon DEF RefreshInv, InboxInOrder
<1>6. LagBoundedByErrors'
  BY <1>1, <1>4 DEF RefreshInv, LagBoundedByErrors, UpstreamTypes
<1> QED BY <1>2, <1>5, <1>6, Zenon DEF RefreshInv

\* Answers arrive in the order of their queries.
LEMMA AnswerStep ==
  ASSUME RefreshInv, UpstreamAnswer
  PROVE  RefreshInv'
<1>1. PICK k \in upstream.handled + 1 .. upstream.sent, d \in Dispersions,
           parses \in BOOLEAN :
        upstream' = [upstream EXCEPT
                       !.handled = k,
                       !.inbox = Append(@, [k |-> k, parses |-> parses, disp |-> d,
                                            leap |-> NoLeap, stratum |-> 2,
                                            refid |-> "upstream"])]
  BY Zenon DEF UpstreamAnswer
<1> DEFINE a == [k |-> k, parses |-> parses, disp |-> d, leap |-> NoLeap,
                 stratum |-> 2, refid |-> "upstream"]
<1>2. servstate' = servstate
  BY Zenon DEF UpstreamAnswer
<1>3. k \in Nat /\ k > upstream.handled
  BY <1>1 DEF RefreshInv, UpstreamTypes
<1>4. a \in UpstreamAnswers /\ a.k = k
  BY <1>3, Zenon DEF UpstreamAnswers
<1>5. upstream.inbox \in Seq(UpstreamAnswers)
  BY Zenon DEF RefreshInv, UpstreamTypes
<1>6. /\ upstream'.inbox = Append(upstream.inbox, a)
      /\ upstream'.handled = k /\ upstream'.errors = upstream.errors
      /\ upstream'.sent = upstream.sent /\ upstream'.pc = upstream.pc
  BY <1>1, Zenon DEF RefreshInv, UpstreamTypes
<1> HIDE DEF a
<1>7. Append(upstream.inbox, a) \in Seq(UpstreamAnswers)
  BY <1>4, <1>5
<1>8. UpstreamTypes'
  BY <1>1, <1>2, <1>3, <1>7, Zenon DEF RefreshInv, UpstreamTypes, a
<1>9. Rounds' = Rounds /\ Rounds \in Int
  BY <1>6 DEF RefreshInv, UpstreamTypes, Rounds
<1>10. upstream.handled \in Nat /\ upstream.handled >= Rounds + Len(upstream.inbox)
  BY Zenon DEF RefreshInv, UpstreamTypes, InboxInOrder
<1>11. InboxInOrder'
  <2>1. Len(upstream'.inbox) = Len(upstream.inbox) + 1
    BY <1>4, <1>5, <1>6
  <2>2. upstream'.handled >= Rounds' + Len(upstream'.inbox)
    BY <1>3, <1>5, <1>6, <1>9, <1>10, <2>1
  <2>3. ASSUME NEW i \in 1 .. Len(upstream'.inbox)
        PROVE  upstream'.inbox[i].k >= Rounds' + i
    <3>1. CASE i = Len(upstream.inbox) + 1
      <4>1. upstream'.inbox[i] = a
        BY <1>4, <1>5, <1>6, <3>1
      <4> QED BY <1>3, <1>4, <1>5, <1>9, <1>10, <3>1, <4>1
    <3>2. CASE i \in 1 .. Len(upstream.inbox)
      <4>1. upstream'.inbox[i] = upstream.inbox[i]
        BY <1>4, <1>5, <1>6, <3>2
      <4> QED BY <1>9, <3>2, <4>1, Zenon DEF RefreshInv, InboxInOrder
    <3> QED BY <1>5, <2>1, <2>3, <3>1, <3>2
  <2> QED BY <2>2, <2>3, Zenon DEF InboxInOrder
<1>12. LagBoundedByErrors'
  BY <1>2, <1>6, Zenon DEF RefreshInv, LagBoundedByErrors
<1> QED BY <1>8, <1>11, <1>12, Zenon DEF RefreshInv

\* The first answer in the socket is adopted, or does not parse.
LEMMA RecvStep ==
  ASSUME RefreshInv, RefreshRecv
  PROVE  RefreshInv'
<1>1. /\ upstream.pc = "recv" /\ upstream.inbox # <<>>
      /\ upstream' = [upstream EXCEPT !.pc = "send", !.inbox = Tail(@)]
      /\ servstate' = IF Head(upstream.inbox).parses
                      THEN Adopted(Head(upstream.inbox)) ELSE servstate
  BY Zenon DEF RefreshRecv
<1>2. upstream.inbox \in Seq(UpstreamAnswers)
  BY Zenon DEF RefreshInv, UpstreamTypes
<1>3. /\ upstream'.inbox = Tail(upstream.inbox)
      /\ upstream'.handled = upstream.handled
      /\ upstream'.errors = upstream.errors /\ upstream'.sent = upstream.sent
      /\ upstream'.pc = "send"
  BY <1>1, Zenon DEF RefreshInv, UpstreamTypes
<1>4. /\ Tail(upstream.inbox) \in Seq(UpstreamAnswers)
      /\ Head(upstream.inbox) \in UpstreamAnswers
      /\ Head(upstream.inbox) = upstream.inbox[1]
      /\ Len(Tail(upstream.inbox)) = Len(upstream.inbox) - 1
      /\ Len(upstream.inbox) \in Nat /\ Len(upstream.inbox) >= 1
      /\ \A i \in 1 .. Len(upstream.inbox) - 1 :
           Tail(upstream.inbox)[i] = upstream.inbox[i + 1]
  BY <1>1, <1>2
<1>5. /\ upstream.sent \in Nat /\ upstream.errors \in Nat
      /\ upstream.handled \in Nat
  BY Zenon DEF RefreshInv, UpstreamTypes
<1>6. /\ Rounds = upstream.sent - upstream.errors - 1
      /\ Rounds' = Rounds + 1
  BY <1>1, <1>3, <1>5 DEF Rounds
<1>7. upstream.inbox[1].k \in Nat /\ upstream.inbox[1].k >= Rounds + 1
  BY <1>4 DEF RefreshInv, InboxInOrder, UpstreamAnswers
<1>8. servstate'.lag \in Int /\ servstate'.lag <= upstream'.errors
  <2>1. CASE Head(upstream.inbox).parses
    <3>1. servstate'.lag = upstream.sent - upstream.inbox[1].k
      BY <1>1, <1>4, <2>1, Zenon DEF Adopted
    <3> QED BY <1>3, <1>5, <1>6, <1>7, <3>1
  <2>2. CASE ~Head(upstream.inbox).parses
    BY <1>1, <1>3, <2>2, Zenon DEF RefreshInv, UpstreamTypes, LagBoundedByErrors
  <2> QED BY <2>1, <2>2, Zenon
<1>9. UpstreamTypes'
  BY <1>1, <1>4, <1>8, Zenon DEF RefreshInv, UpstreamTypes
<1>10. InboxInOrder'
  <2>1. upstream'.handled >= Rounds' + Len(upstream'.inbox)
    BY <1>3, <1>4, <1>5, <1>6 DEF RefreshInv, InboxInOrder
  <2>2. ASSUME NEW i \in 1 .. Len(upstream'.inbox)
        PROVE  upstream'.inbox[i].k >= Rounds' + i
    <3>1. i + 1 \in 1 .. Len(upstream.inbox)
      BY <1>3, <1>4, <2>2
    <3>2. upstream.inbox[i + 1].k >= Rounds + (i + 1)
      BY <3>1, Zenon DEF RefreshInv, InboxInOrder
    <3>3. upstream'.inbox[i] = upstream.inbox[i + 1]
      BY <1>3, <1>4, <2>2, Zenon
    <3> QED BY <1>5, <1>6, <3>2, <3>3
  <2> QED BY <2>1, <2>2, Zenon DEF InboxInOrder
<1> QED BY <1>8, <1>9, <1>10, Zenon DEF RefreshInv, LagBoundedByErrors

\* Every step keeps the invariant.
LEMMA RefreshNext == RefreshInv /\ [Next]_vars => RefreshInv'
<1> SUFFICES ASSUME RefreshInv, [Next]_vars PROVE RefreshInv'
  BY Zenon
<1> HIDE DEF RefreshInv
<1>1. CASE RefreshSend
  BY <1>1, SendStep, Zenon
<1>2. CASE UpstreamAnswer
  BY <1>2, AnswerStep, Zenon
<1>3. CASE RefreshRecv
  BY <1>3, RecvStep, Zenon
<1>4. CASE RefreshReadError
  BY <1>4, ErrorStep, Zenon
<1>5. ASSUME NEW t \in Threads,
             RecvMsg(t) \/ AssignAddr(t) \/ DropMangled(t) \/ MakeHeader(t)
               \/ RefuseCookie(t) \/ AnswerNts(t)
      PROVE  RefreshInv'
  <2>1. UNCHANGED <<upstream, servstate>>
    BY <1>5, Zenon DEF RecvMsg, AssignAddr, DropMangled, MakeHeader, RefuseCookie, AnswerNts
  <2> QED BY <2>1, OthersUnchanged, Zenon
<1>7. CASE RefreshPanics
  BY <1>7, PanicStep, Zenon
<1>6. CASE Tick \/ Ask \/ AskOther \/ Receive \/ ReadTimeout \/ UNCHANGED vars
  <2>1. UNCHANGED <<upstream, servstate>>
    BY <1>6, Zenon DEF Tick, Ask, AskOther, Send, Receive, ReadTimeout, vars, serverVars
  <2> QED BY <2>1, OthersUnchanged, Zenon
<1> QED BY <1>1, <1>2, <1>3, <1>4, <1>5, <1>6, <1>7, Zenon DEF Next, ServerStep

\* refresh_servstate: however late, lost or unreadable the upstream answers are,
\* the state adopted is behind by at most one query for each read error.
THEOREM LagAlwaysBounded == Spec => []LagBoundedByErrors
<1>1. RefreshInv => LagBoundedByErrors
  BY Zenon DEF RefreshInv
<1> QED BY RefreshInit, RefreshNext, <1>1, PTL DEF Spec

-----------------------------------------------------------------------------
(* The time transfer of module TimeTransfer, in the variables of the       *)
(* exchange: its error is bounded by its duration, for every skew, era,    *)
(* number of exchanges and order of answers.                               *)
\* What holds of the clock, the pending query and the answers to it.
TransferInv ==
  /\ now \in Nat /\ client.n \in Nat /\ client.t1 \in Nat
  /\ client.t1 <= now
  /\ client.t1 + Skew >= 0
  /\ \A a \in Served :
       /\ a.n \in Nat /\ a.n <= client.n
       /\ a.rx \in Int /\ a.tx \in Int
       /\ a.n = client.n => client.t1 <= a.rx /\ a.rx <= a.tx /\ a.tx <= now

\* The inductive invariant of the time transfer.
OffsetInv == TransferInv /\ Transfer!OffsetErrorBounded

\* A timestamp loses as many eras as its time is past the first.
LEMMA StampLoses ==
  ASSUME NEW t \in Nat
  PROVE  /\ t \div Era \in Nat
         /\ Transfer!Stamp(t) \in Nat
         /\ t = Transfer!Stamp(t) + (t \div Era) * Era
BY EraAssumption, Z3 DEF Transfer!Stamp

\* A later time is in the same or in a later era.
LEMMA ErasGrow ==
  ASSUME NEW s \in Nat, NEW t \in Nat, s <= t
  PROVE  s \div Era <= t \div Era
<1> DEFINE p == s \div Era  q == t \div Era
<1>1. p \in Nat /\ q \in Nat /\ Transfer!Stamp(s) \in Nat /\ Transfer!Stamp(t) \in Nat
  BY StampLoses, Zenon
<1>2. s = Transfer!Stamp(s) + p * Era /\ t = Transfer!Stamp(t) + q * Era
  BY StampLoses, Zenon
<1>3. Transfer!Stamp(t) < Era
  BY EraAssumption, Z3 DEF Transfer!Stamp
<1>4. ASSUME p >= q + 1 PROVE FALSE
  <2> HIDE DEF p, q
  <2>1. p * Era >= (q + 1) * Era
    BY <1>1, <1>4, EraAssumption, Z3
  <2>2. (q + 1) * Era = q * Era + Era
    BY <1>1, EraAssumption, Z3
  <2> QED BY <1>1, <1>2, <1>3, <2>1, <2>2, EraAssumption, Z3
<1> HIDE DEF p, q
<1>5. p <= q
  BY <1>1, <1>4
<1> QED BY <1>5, Zenon DEF p, q

\* No offset has been computed yet.
LEMMA OffsetInit == Transfer!Init => OffsetInv
<1> SUFFICES ASSUME Transfer!Init PROVE OffsetInv
  BY Zenon
<1>1. TransferInv
  BY SkewAssumption DEF Transfer!Init, TransferInv
<1>2. Transfer!OffsetErrorBounded
  BY Zenon DEF Transfer!Init, Transfer!OffsetErrorBounded
<1> QED BY <1>1, <1>2, Zenon DEF OffsetInv

\* The step that computes an offset.
LEMMA AcceptBounded ==
  ASSUME TransferInv, NEW a \in Served, Transfer!Accept(a)
  PROVE  Transfer!OffsetErrorBounded'
<1> DEFINE r == a.rx + Skew  x == a.tx + Skew
           lost == (r \div Era) + (x \div Era)
<1>1. /\ a.rx \in Int /\ a.tx \in Int /\ now \in Nat /\ client.t1 \in Nat
      /\ client.t1 <= a.rx /\ a.rx <= a.tx /\ a.tx <= now /\ client.t1 + Skew >= 0
  BY Zenon DEF TransferInv, Transfer!Accept
<1>2. r \in Nat /\ x \in Nat /\ r <= x
  BY <1>1, SkewAssumption
<1>3. /\ r \div Era \in Nat /\ x \div Era \in Nat
      /\ Transfer!Stamp(r) \in Nat /\ Transfer!Stamp(x) \in Nat
      /\ r = Transfer!Stamp(r) + (r \div Era) * Era
      /\ x = Transfer!Stamp(x) + (x \div Era) * Era
  BY <1>2, StampLoses, Zenon
<1>4. r \div Era <= x \div Era
  BY <1>2, ErasGrow, Zenon
<1>5. lost \in 0 .. 2 * (x \div Era)
  BY <1>3, <1>4
<1>6. /\ client'.result.twice = (Transfer!Stamp(r) - client.t1) + (Transfer!Stamp(x) - now)
      /\ client'.result.delay = now - client.t1
      /\ client'.result.sent = x
  BY DEF Transfer!Accept, Transfer!TwiceOffset
<1>7. lost * Era = (r \div Era) * Era + (x \div Era) * Era
  BY <1>3, EraAssumption, Z3
<1>8. client'.result.twice - 2 * Skew + lost * Era = (a.rx - client.t1) + (a.tx - now)
  <2> DEFINE u == (r \div Era) * Era  v == (x \div Era) * Era
  <2>1. u \in Int /\ v \in Int
    BY <1>3, EraAssumption
  <2>2. lost * Era = u + v /\ r = Transfer!Stamp(r) + u /\ x = Transfer!Stamp(x) + v
    BY <1>3, <1>7, Zenon
  <2>3. lost * Era \in Int
    BY <2>1, <2>2
  <2>4. client'.result.twice = ((r - u) - client.t1) + ((x - v) - now)
    <3> HIDE DEF u, v
    <3> QED BY <1>2, <1>3, <1>6, <2>1, <2>2
  <2>5. client'.result.twice = 2 * Skew + (a.rx - client.t1) + (a.tx - now) - (u + v)
    <3> HIDE DEF u, v
    <3> QED BY <1>1, <2>1, <2>4, SkewAssumption
  <2> HIDE DEF u, v, lost
  <2> QED BY <1>1, <2>1, <2>2, <2>3, <2>5, SkewAssumption
<1>9. /\ -client'.result.delay <= (a.rx - client.t1) + (a.tx - now)
      /\ (a.rx - client.t1) + (a.tx - now) <= client'.result.delay
  BY <1>1, <1>6
<1>10. \E k \in 0 .. 2 * (client'.result.sent \div Era) :
         /\ -client'.result.delay <= client'.result.twice - 2 * Skew + k * Era
         /\ client'.result.twice - 2 * Skew + k * Era <= client'.result.delay
  <2> HIDE DEF lost
  <2>1. lost \in 0 .. 2 * (client'.result.sent \div Era)
    BY <1>5, <1>6, Zenon
  <2> WITNESS lost \in 0 .. 2 * (client'.result.sent \div Era)
  <2> QED BY <1>8, <1>9, Zenon
<1> QED BY <1>10, Zenon DEF Transfer!OffsetErrorBounded

\* Only an accepted answer changes the offset; the other steps keep the times
\* in order.
LEMMA OffsetNext == OffsetInv /\ [Transfer!Next]_(Transfer!vars) => OffsetInv'
<1> SUFFICES ASSUME OffsetInv, [Transfer!Next]_(Transfer!vars) PROVE OffsetInv'
  BY Zenon
<1>1. CASE Transfer!Tick
  BY <1>1, SkewAssumption DEF Transfer!Tick, OffsetInv, TransferInv, Transfer!OffsetErrorBounded
<1>2. CASE Transfer!Ask
  BY <1>2, SkewAssumption DEF Transfer!Ask, OffsetInv, TransferInv, Transfer!OffsetErrorBounded
<1>3. CASE Transfer!Serve
  BY <1>3, SkewAssumption DEF Transfer!Serve, OffsetInv, TransferInv, Transfer!OffsetErrorBounded
<1>4. ASSUME NEW a \in Served, Transfer!Accept(a) PROVE OffsetInv'
  <2>1. Transfer!OffsetErrorBounded'
    BY <1>4, AcceptBounded, Zenon DEF OffsetInv
  <2>2. TransferInv'
    BY <1>4, Zenon DEF Transfer!Accept, OffsetInv, TransferInv
  <2> QED BY <2>1, <2>2, Zenon DEF OffsetInv
<1>5. CASE Transfer!Fail
  BY <1>5, Zenon DEF Transfer!Fail, OffsetInv, TransferInv, Transfer!OffsetErrorBounded
<1>6. CASE UNCHANGED Transfer!vars
  BY <1>6, Zenon DEF Transfer!vars, OffsetInv, TransferInv, Transfer!OffsetErrorBounded
<1> QED BY <1>1, <1>2, <1>3, <1>4, <1>5, <1>6, Zenon DEF Transfer!Next

\* run_nts_ntp_client: whatever implements a time transfer never returns an
\* offset that is wrong by more than half the round trip, plus half an era for
\* each era a timestamp has lost.
THEOREM OffsetAlwaysBounded == ImplementsTransfer => []OffsetErrorBounded
<1>1. OffsetInv => OffsetErrorBounded
  BY Zenon DEF OffsetInv, OffsetErrorBounded
<1> QED BY OffsetInit, OffsetNext, <1>1, PTL DEF ImplementsTransfer, Transfer!Spec

-----------------------------------------------------------------------------
(* Who sent what, and when: the invariant of the exchange.                 *)

\* A query is the measured client's, of this exchange or an earlier one, or one
\* of the other client's.
Sent(q, at, cl) ==
  /\ q \in Queries /\ q.sent <= at
  /\ \/ /\ q.src = MeasClient /\ q.to = MeasThread
        /\ q.id \in Exchanges /\ q.id[3] = cl.cookie /\ q.id[2] <= cl.n
        /\ q.id[2] = cl.n => cl.t1 <= q.sent
     \/ q.src = OtherClient /\ q.to = OtherThread /\ q.id \in OtherIds

\* A thread waits or has panicked, or handles a query that was sent to it and that it stamped
\* after it was sent; once it has a header, the query parses and the header
\* says when it came.
Handled(th, t, at, cl) ==
  \/ th.pc \in {"recvmsg", "dead"} /\ th.q = None
  \/ /\ th.pc \in {"assign", "response", "nts"}
     /\ Sent(th.q, at, cl) /\ th.q.to = t /\ th.rx \in th.q.sent .. at
     /\ th.pc = "nts" =>
          /\ ~IsErr(parse_ntp_packet(Raw(th.q)))
          /\ th.header.receive = ntp_timestamp(th.rx + Skew)
          /\ th.header.refid # NTSN

\* The client opens the answer, finds the identifier of query m and the times
\* at which the server received it and answered.
Genuine(w, m, rx, tx) ==
  /\ ~IsErr(parse_nts_packet(w, <<Keys, "s2c">>))
  /\ parse_nts_packet(w, <<Keys, "s2c">>).auth_exts = <<UidExt(m)>>
  /\ w.head.refid # NTSN
  /\ w.head.receive = ntp_timestamp(rx + Skew)
  /\ w.head.transmit = ntp_timestamp(tx + Skew)

\* An answer was made between the sending of its query and now; the measured
\* client's answers are genuine, or useless to it if its cookie is.
Given(a, at, cl) ==
  /\ Sent(a.q, at, cl) /\ a.rx \in a.q.sent .. at /\ a.tx \in a.rx .. at
  /\ a.q.src = MeasClient =>
       IF cl.cookie = "good"
       THEN Genuine(a.wire, a.q.id[2], a.rx, a.tx)
       ELSE parse_nts_packet(a.wire, <<Keys, "s2c">>) = Err

\* The states of the measured client.
Clients ==
  [pc : {"idle", "recv"}, n : Nat, t1 : Nat, cookie : {"good", "missing"},
   result : Results \cup {None},
   error : {"none", "Ok", "Err", "InvalidUid", "panic"}]

\* The clock, the bound on sends and the measured client.
ClientInv ==
  /\ start \in StartTimes /\ now \in start .. start + MaxTicks
  /\ sends \in 0 .. MaxSends
  /\ client \in Clients
  /\ client.n <= sends /\ start <= client.t1 /\ client.t1 <= now

\* The inductive invariant of the exchange.
ExchangeInv ==
  /\ ClientInv
  /\ \A q \in queries : Sent(q, now, client)
  /\ thread = [t \in Threads |-> thread[t]]
  /\ \A t \in Threads : Handled(thread[t], t, now, client)
  /\ \A a \in answers : Given(a, now, client)
  /\ servstate.refid # NTSN

\* As long as no two clients were handled at a time, CLIENT_ADDR is the client
\* of every thread that has assigned it.
AddressInv ==
  /\ samples \subseteq {"ntp", "nts"} \X {MeasClient, OtherClient}
  /\ ~overlapped =>
       /\ ~Overlap(thread)
       /\ \A t \in Threads :
            thread[t].pc \in {"response", "nts"} => CLIENT_ADDR = thread[t].q.src
       /\ \A file \in {"ntp", "nts"} : <<file, OtherClient>> \notin samples

\* The clock and the client move on: the time does not go back, and another
\* exchange has the next number.
Later(at, cl, at2, cl2) ==
  /\ at \in Nat /\ at2 \in Nat /\ at <= at2
  /\ cl.n \in Nat /\ cl2.n \in Nat
  /\ cl2.cookie = cl.cookie
  /\ (cl2.n = cl.n /\ cl2.t1 = cl.t1) \/ cl2.n = cl.n + 1

\* What was sent, handled or answered stays so.
LEMMA SentStays ==
  ASSUME NEW at, NEW cl, NEW at2, NEW cl2, Later(at, cl, at2, cl2),
         NEW q, Sent(q, at, cl)
  PROVE  Sent(q, at2, cl2)
<1>1. q \in Queries /\ q.sent \in Nat /\ q.sent <= at2
  BY DEF Sent, Later, Queries
<1>2. CASE q.src = OtherClient /\ q.to = OtherThread /\ q.id \in OtherIds
  BY <1>1, <1>2, Zenon DEF Sent
<1>3. CASE /\ q.src = MeasClient /\ q.to = MeasThread
           /\ q.id \in Exchanges /\ q.id[3] = cl.cookie /\ q.id[2] <= cl.n
           /\ q.id[2] = cl.n => cl.t1 <= q.sent
  <2>1. q.id[2] \in Nat
    BY <1>3 DEF Exchanges
  <2>2. q.id[2] <= cl2.n /\ (q.id[2] = cl2.n => cl2.t1 <= q.sent)
    BY <1>3, <2>1 DEF Later
  <2> QED BY <1>1, <1>3, <2>2, Zenon DEF Sent, Later
<1> QED BY <1>2, <1>3, Zenon DEF Sent

\* What a thread handles stays a query that was sent to it.
LEMMA HandledStays ==
  ASSUME NEW at, NEW cl, NEW at2, NEW cl2, Later(at, cl, at2, cl2),
         NEW th, NEW t, Handled(th, t, at, cl)
  PROVE  Handled(th, t, at2, cl2)
<1>1. CASE th.pc \in {"recvmsg", "dead"} /\ th.q = None
  BY <1>1, Zenon DEF Handled
<1>2. CASE ~(th.pc \in {"recvmsg", "dead"} /\ th.q = None)
  <2>1. /\ Sent(th.q, at, cl) /\ th.rx \in th.q.sent .. at
    BY <1>2, Zenon DEF Handled
  <2>2. Sent(th.q, at2, cl2)
    BY <2>1, SentStays, Zenon
  <2>3. th.rx \in th.q.sent .. at2
    BY <2>1 DEF Later, Sent, Queries
  <2> QED BY <1>2, <2>2, <2>3, Zenon DEF Handled
<1> QED BY <1>1, <1>2, Zenon

\* An answer stays one to a query that was sent before it.
LEMMA GivenStays ==
  ASSUME NEW at, NEW cl, NEW at2, NEW cl2, Later(at, cl, at2, cl2),
         NEW a, Given(a, at, cl)
  PROVE  Given(a, at2, cl2)
<1>1. Sent(a.q, at, cl) /\ a.rx \in a.q.sent .. at /\ a.tx \in a.rx .. at
  BY Zenon DEF Given
<1>2. Sent(a.q, at2, cl2)
  BY <1>1, SentStays, Zenon
<1>3. a.rx \in a.q.sent .. at2 /\ a.tx \in a.rx .. at2
  BY <1>1 DEF Later, Sent, Queries
<1>4. cl2.cookie = cl.cookie
  BY Zenon DEF Later
<1> QED BY <1>2, <1>3, <1>4, Zenon DEF Given

\* What a thread reads of a query is a datagram, and all of it if it is the
\* measured client's.
LEMMA RawIs ==
  ASSUME NEW q \in Queries
  PROVE  /\ IsDatagram(Raw(q))
         /\ q.id \in Exchanges => Raw(q) = NtsQuery(q.id[2], q.id[3])
<1>1. q.id \in Exchanges \cup OtherIds /\ Wire(q.id) = QueryWire(q.id)
  BY WireAssumption, Zenon DEF Queries
<1>2. BUF_SIZE \in Nat
  BY BufferAssumption, Zenon
<1>3. CASE q.id \in Exchanges
  <2> DEFINE w == NtsQuery(q.id[2], q.id[3])
  <2>1. q.id[1] = "exchange"
    BY <1>3, Zenon DEF Exchanges
  <2>2. Wire(q.id) = w
    BY <1>1, <2>1, Zenon DEF QueryWire
  <2>3. w.bytes = 228 /\ IsDatagram(w)
    BY QueryParsed
  <2>4. NtsQuery(0, "good").bytes = 228
    BY QueryParsed
  <2>5. \E head, exts : w = [head |-> head, exts |-> exts, bytes |-> 228]
    BY QueryIs, Zenon
  <2> HIDE DEF w
  <2>6. Cut(w, BUF_SIZE) = w
    BY <1>2, <2>3, <2>4, <2>5, BufferAssumption DEF Cut
  <2> QED BY <2>2, <2>3, <2>6, Zenon DEF Raw, w
<1>4. CASE q.id \in OtherIds
  <2>1. q.id[1] # "exchange" /\ IsDatagram(OtherWire(q.id))
    BY <1>4, WireAssumption, Zenon
  <2>2. q.id \notin Exchanges
    BY <2>1, Zenon DEF Exchanges
  <2>3. Wire(q.id) = OtherWire(q.id)
    BY <1>1, <2>1, Zenon DEF QueryWire
  <2>4. IsDatagram(Cut(OtherWire(q.id), BUF_SIZE))
    BY <1>2, <2>1, CutKeeps, Zenon
  <2> QED BY <2>2, <2>3, <2>4, Zenon DEF Raw
<1> QED BY <1>1, <1>3, <1>4, Zenon

-----------------------------------------------------------------------------
\* Nothing has been sent.
LEMMA ExchangeInit == Init => ExchangeInv
<1> SUFFICES ASSUME Init PROVE ExchangeInv
  BY Zenon
<1>1. ClientInv
  BY StartAssumption, BoundsAssumption DEF Init, ServerInit, ClientInv, Clients
<1>2. thread = [t \in Threads |-> Idle] /\ queries = {} /\ answers = {}
  BY Zenon DEF Init, ServerInit
<1>3. \A t \in Threads : Handled(thread[t], t, now, client)
  BY <1>2, Zenon DEF Handled, Idle, At
<1>4. servstate.refid # NTSN
  BY DEF Init, ServerInit, StartState, NTSN
<1> QED BY <1>1, <1>2, <1>3, <1>4, Zenon DEF ExchangeInv

\* Time and the client go on; queries are sent, and nothing else happens.
LEMMA ClientStep ==
  ASSUME ExchangeInv, ClientInv', Later(now, client, now', client'),
         \A q \in queries' \ queries : Sent(q, now', client'),
         UNCHANGED <<answers, thread, servstate>>
  PROVE  ExchangeInv'
<1>1. ASSUME NEW q \in queries' PROVE Sent(q, now', client')
  BY <1>1, SentStays, Zenon DEF ExchangeInv
<1>2. ASSUME NEW t \in Threads PROVE Handled(thread[t], t, now', client')
  BY HandledStays, Zenon DEF ExchangeInv
<1>3. ASSUME NEW a \in answers PROVE Given(a, now', client')
  BY GivenStays, Zenon DEF ExchangeInv
<1> QED BY <1>1, <1>2, <1>3, Zenon DEF ExchangeInv

\* Time passes.
LEMMA TickStep ==
  ASSUME ExchangeInv, Tick
  PROVE  ExchangeInv'
<1>1. ClientInv'
  BY StartAssumption, BoundsAssumption DEF ExchangeInv, ClientInv, Tick, serverVars, Clients
<1>2. Later(now, client, now', client')
  BY StartAssumption DEF ExchangeInv, ClientInv, Tick, Clients, Later
<1> QED BY <1>1, <1>2, ClientStep, Zenon DEF Tick, serverVars, threadVars

\* Whether it is lost, delivered or delivered twice.
LEMMA SendKeeps ==
  ASSUME NEW id, NEW src, NEW t, Send(id, src, t), sends \in 0 .. MaxSends, now \in Nat
  PROVE  /\ sends' \in sends + 1 .. MaxSends
         /\ \A q \in queries' \ queries :
              /\ q.id = id /\ q.src = src /\ q.to = t /\ q.sent = now
              /\ q = [id |-> id, src |-> src, to |-> t, sent |-> now, copies |-> q.copies]
              /\ q.copies \in 1 .. MaxSends
         /\ UNCHANGED <<now, start, answers, thread, CLIENT_ADDR, samples, overlapped,
                        servstate, upstream>>
<1>1. CASE sends' = sends + 1 /\ UNCHANGED queries
  BY <1>1, BoundsAssumption DEF Send
<1>2. ASSUME NEW copies \in 1 .. MaxSends - sends,
             sends' = sends + copies,
             queries' = queries \cup {[id |-> id, src |-> src, to |-> t,
                                       sent |-> now, copies |-> copies]}
      PROVE  /\ sends' \in sends + 1 .. MaxSends
             /\ \A q \in queries' \ queries :
                  /\ q.id = id /\ q.src = src /\ q.to = t /\ q.sent = now
                  /\ q = [id |-> id, src |-> src, to |-> t, sent |-> now, copies |-> q.copies]
                  /\ q.copies \in 1 .. MaxSends
  <2>1. copies \in 1 .. MaxSends /\ sends' \in sends + 1 .. MaxSends
    BY <1>2, BoundsAssumption
  <2> QED BY <1>2, <2>1
<1> QED BY <1>1, <1>2, Zenon DEF Send

\* The measured client sends the query of its next exchange.
LEMMA AskStep ==
  ASSUME ExchangeInv, Ask
  PROVE  ExchangeInv'
<1>0. /\ client \in Clients /\ sends \in 0 .. MaxSends /\ now \in Nat /\ start \in Nat
      /\ start <= now /\ client.n <= sends
  BY StartAssumption DEF ExchangeInv, ClientInv
<1> DEFINE id == <<"exchange", client.n + 1, client.cookie>>
<1>1. Send(id, MeasClient, MeasThread)
      /\ client' = [client EXCEPT !.pc = "recv", !.n = @ + 1, !.t1 = now]
  BY Zenon DEF Ask
<1>2. /\ client'.n = client.n + 1 /\ client'.t1 = now /\ client'.cookie = client.cookie
      /\ client' \in Clients
  <2>1. client.n + 1 \in Nat
    BY <1>0 DEF Clients
  <2> QED BY <1>0, <1>1, <2>1, Zenon DEF Clients
<1>3. /\ sends' \in sends + 1 .. MaxSends
      /\ \A q \in queries' \ queries :
           /\ q.id = id /\ q.src = MeasClient /\ q.to = MeasThread /\ q.sent = now
           /\ q = [id |-> id, src |-> MeasClient, to |-> MeasThread, sent |-> now,
                   copies |-> q.copies]
           /\ q.copies \in 1 .. MaxSends
      /\ UNCHANGED <<now, start, answers, thread, servstate>>
  BY <1>0, <1>1, SendKeeps, Zenon
<1>4. ClientInv'
  <2>1. client.n \in Nat
    BY <1>0, Zenon DEF Clients
  <2>2. client'.n <= sends' /\ sends' \in 0 .. MaxSends
    BY <1>0, <1>2, <1>3, <2>1, BoundsAssumption
  <2>3. start' \in StartTimes /\ now' \in start' .. start' + MaxTicks
    BY <1>3, Zenon DEF ExchangeInv, ClientInv
  <2> QED BY <1>0, <1>2, <1>3, <2>2, <2>3 DEF ClientInv
<1>5. Later(now, client, now', client')
  BY <1>0, <1>2, <1>3 DEF Later, Clients
<1>6. id \in Exchanges /\ id[2] = client.n + 1 /\ id[3] = client.cookie
  <2>1. client.n + 1 \in 1 .. MaxSends
    BY <1>0, <1>3, BoundsAssumption DEF Clients
  <2>2. client.cookie \in {"good", "missing"}
    BY <1>0, Zenon DEF Clients
  <2> QED BY <2>1, <2>2, Zenon DEF Exchanges
<1> HIDE DEF id
<1>7. ASSUME NEW q \in queries' \ queries PROVE Sent(q, now', client')
  <2>1. q \in Queries
    BY <1>0, <1>3, <1>6, <1>7 DEF Queries
  <2> QED BY <1>0, <1>2, <1>3, <1>6, <1>7, <2>1 DEF Sent, Clients
<1> QED BY <1>3, <1>4, <1>5, <1>7, ClientStep, Zenon

\* The other client sends a datagram of its own making.
LEMMA AskOtherStep ==
  ASSUME ExchangeInv, AskOther
  PROVE  ExchangeInv'
<1>0. /\ client \in Clients /\ sends \in 0 .. MaxSends /\ now \in Nat
  BY StartAssumption DEF ExchangeInv, ClientInv
<1>1. PICK id \in OtherIds : Send(id, OtherClient, OtherThread)
  BY Zenon DEF AskOther
<1>2. client' = client
  BY Zenon DEF AskOther
<1>3. /\ sends' \in sends + 1 .. MaxSends
      /\ \A q \in queries' \ queries :
           /\ q.id = id /\ q.src = OtherClient /\ q.to = OtherThread /\ q.sent = now
           /\ q = [id |-> id, src |-> OtherClient, to |-> OtherThread, sent |-> now,
                   copies |-> q.copies]
           /\ q.copies \in 1 .. MaxSends
      /\ UNCHANGED <<now, start, answers, thread, servstate>>
  BY <1>0, <1>1, SendKeeps, Zenon
<1>4. ClientInv'
  BY <1>0, <1>2, <1>3, BoundsAssumption DEF ExchangeInv, ClientInv, Clients
<1>5. Later(now, client, now', client')
  BY <1>0, <1>2, <1>3 DEF Later, Clients
<1>6. ASSUME NEW q \in queries' \ queries PROVE Sent(q, now', client')
  <2>1. q \in Queries
    BY <1>0, <1>1, <1>3, <1>6 DEF Queries
  <2> QED BY <1>0, <1>1, <1>3, <1>6, <2>1 DEF Sent
<1> QED BY <1>3, <1>4, <1>5, <1>6, ClientStep, Zenon

\* A refusal is an error, and not a panic.
LEMMA IsErrErr == IsErr(Err) /\ IsErr(Panic) /\ Err # Panic
BY DEF IsErr, Err, Panic

\* An answer whose time the client takes is to its last query, and genuine.
LEMMA TimeTaken ==
  ASSUME ExchangeInv, NEW a \in answers, a.q.src = MeasClient, Verdict(a.wire) = "Ok"
  PROVE  /\ a.q.id[2] = client.n
         /\ a.wire.head.refid # NTSN
         /\ a.rx \in Nat /\ a.tx \in Nat
         /\ client.t1 <= a.rx /\ a.rx <= a.tx /\ a.tx <= now
         /\ TimeDiff(a.wire.head, a.tx + Skew)
              = [twice |-> (((a.rx + Skew) % Era) - client.t1) + (((a.tx + Skew) % Era) - now),
                 delay |-> now - client.t1, sent |-> a.tx + Skew]
         /\ TimeDiff(a.wire.head, a.tx + Skew) \in Results
<1> DEFINE received == parse_nts_packet(a.wire, <<Keys, "s2c">>)
<1>1. ~IsErr(received) /\ received.auth_exts[1].body = [uid |-> client.n]
  BY Zenon DEF Verdict
<1>2. Given(a, now, client)
  BY Zenon DEF ExchangeInv
<1>3. Genuine(a.wire, a.q.id[2], a.rx, a.tx)
  BY <1>1, <1>2, IsErrErr, Zenon DEF Given
<1>4. a.q.id[2] = client.n
  <2>1. received.auth_exts = <<UidExt(a.q.id[2])>>
    BY <1>3, Zenon DEF Genuine
  <2>2. received.auth_exts[1].body = [uid |-> a.q.id[2]]
    BY <2>1 DEF UidExt, Ext
  <2>3. [uid |-> a.q.id[2]].uid = [uid |-> client.n].uid
    BY <1>1, <2>2, Zenon
  <2> QED BY <2>3, Zenon
<1>5. /\ client.t1 \in Nat /\ now \in Nat /\ client.t1 + Skew >= 0
  <2>1. /\ client.t1 \in Nat /\ now \in Nat /\ start \in Nat /\ start + Skew >= 0
        /\ start <= client.t1
    BY StartAssumption DEF ExchangeInv, ClientInv, Clients
  <2> QED BY <2>1, SkewAssumption
<1>6. /\ Sent(a.q, now, client) /\ a.rx \in a.q.sent .. now /\ a.tx \in a.rx .. now
  BY <1>2, Zenon DEF Given
<1>7. a.q.sent \in Nat /\ client.t1 <= a.q.sent
  <2>1. a.q.src # OtherClient
    BY ClientsAssumption, Zenon
  <2> QED BY <1>4, <1>6, <2>1, Zenon DEF Sent, Queries
<1>8. /\ a.rx \in Nat /\ a.tx \in Nat
      /\ client.t1 <= a.rx /\ a.rx <= a.tx /\ a.tx <= now
  BY <1>5, <1>6, <1>7
<1>9. a.rx + Skew \in Nat /\ a.tx + Skew \in Nat
  BY <1>5, <1>8, SkewAssumption
<1>10. /\ timestamp_to_float(a.wire.head.receive) = (a.rx + Skew) % Era
       /\ timestamp_to_float(a.wire.head.transmit) = (a.tx + Skew) % Era
  BY <1>3, <1>9, StampRead, Zenon DEF Genuine
<1>11. (a.rx + Skew) % Era \in Int /\ (a.tx + Skew) % Era \in Int
  BY <1>9, EraAssumption
<1>12. TimeDiff(a.wire.head, a.tx + Skew)
         = [twice |-> (((a.rx + Skew) % Era) - client.t1) + (((a.tx + Skew) % Era) - now),
            delay |-> now - client.t1, sent |-> a.tx + Skew]
  BY <1>10, Zenon DEF TimeDiff
<1>13. TimeDiff(a.wire.head, a.tx + Skew) \in Results
  <2> DEFINE twice == (((a.rx + Skew) % Era) - client.t1) + (((a.tx + Skew) % Era) - now)
             delay == now - client.t1
             sent == a.tx + Skew
  <2>1. twice \in Int /\ delay \in Int /\ sent \in Int
    BY <1>5, <1>9, <1>11
  <2>2. TimeDiff(a.wire.head, a.tx + Skew) = [twice |-> twice, delay |-> delay, sent |-> sent]
    BY <1>12, Zenon
  <2> HIDE DEF twice, delay, sent
  <2> QED BY <2>1, <2>2 DEF Results
<1> QED BY <1>3, <1>4, <1>8, <1>12, <1>13, Zenon DEF Genuine

\* The measured client takes an answer, or gives up.
LEMMA ReceiveStep ==
  ASSUME ExchangeInv, Receive \/ ReadTimeout
  PROVE  ExchangeInv'
<1>0. client \in Clients /\ now \in Nat
  BY StartAssumption DEF ExchangeInv, ClientInv
<1>1. UNCHANGED <<now, start, sends, queries, answers, thread, servstate>>
  BY Zenon DEF Receive, ReadTimeout, serverVars, threadVars
<1>2. /\ client' \in Clients /\ client'.n = client.n /\ client'.t1 = client.t1
      /\ client'.cookie = client.cookie
  <2>1. CASE ReadTimeout
    BY <1>0, <2>1, Zenon DEF ReadTimeout, Clients
  <2>2. CASE Receive
    <3>1. PICK a \in answers :
            /\ a.q.src = MeasClient
            /\ client' =
                 [client EXCEPT
                    !.pc = "idle",
                    !.error = Verdict(a.wire),
                    !.result = IF Verdict(a.wire) = "Ok"
                               THEN TimeDiff(a.wire.head, a.tx + Skew) ELSE @]
      BY <2>2, Zenon DEF Receive
    <3> DEFINE verdict == Verdict(a.wire)  diff == TimeDiff(a.wire.head, a.tx + Skew)
    <3>2. verdict \in {"Ok", "Err", "InvalidUid", "panic"}
      BY Zenon DEF Verdict
    <3>3. verdict = "Ok" => diff \in Results
      BY <3>1, TimeTaken, Zenon
    <3>4. client' = [client EXCEPT !.pc = "idle", !.error = verdict,
                                   !.result = IF verdict = "Ok" THEN diff ELSE @]
      BY <3>1, Zenon
    <3> HIDE DEF verdict, diff
    <3> QED BY <1>0, <3>2, <3>3, <3>4, Zenon DEF Clients
  <2> QED BY <2>1, <2>2, Zenon
<1>3. ClientInv'
  BY <1>1, <1>2, Zenon DEF ExchangeInv, ClientInv
<1>4. Later(now, client, now', client')
  BY <1>0, <1>1, <1>2 DEF Later, Clients
<1> QED BY <1>1, <1>3, <1>4, ClientStep, Zenon

\* A step of one thread.
LEMMA ThreadStep ==
  ASSUME ExchangeInv, NEW t \in Threads, NEW th,
         thread' = [thread EXCEPT ![t] = th], Handled(th, t, now, client),
         \A q \in queries' \ queries : Sent(q, now, client),
         \A a \in answers' \ answers : Given(a, now, client),
         UNCHANGED <<now, start, sends, client, servstate>>
  PROVE  ExchangeInv'
<1>1. ClientInv'
  BY Zenon DEF ExchangeInv, ClientInv
<1>2. /\ thread' = [u \in Threads |-> thread'[u]]
      /\ thread'[t] = th /\ \A u \in Threads \ {t} : thread'[u] = thread[u]
  BY Zenon DEF ExchangeInv
<1>3. ASSUME NEW u \in Threads PROVE Handled(thread'[u], u, now, client)
  BY <1>2, Zenon DEF ExchangeInv
<1> QED BY <1>1, <1>2, <1>3, Zenon DEF ExchangeInv

\* A thread that neither waits nor has panicked has a query that was sent to it.
LEMMA Busy ==
  ASSUME ExchangeInv, NEW t \in Threads, thread[t].pc \notin {"recvmsg", "dead"}
  PROVE  /\ thread[t].pc \in {"assign", "response", "nts"}
         /\ thread[t].q \in Queries /\ Sent(thread[t].q, now, client)
         /\ thread[t].q.to = t /\ thread[t].rx \in thread[t].q.sent .. now
         /\ thread[t].pc = "nts" =>
              /\ ~IsErr(Packet(t))
              /\ thread[t].header.receive = ntp_timestamp(thread[t].rx + Skew)
              /\ thread[t].header.refid # NTSN
<1>1. Handled(thread[t], t, now, client)
  BY Zenon DEF ExchangeInv
<1> QED BY <1>1, Zenon DEF Handled, Sent, Packet

\* A thread takes a query from its socket and stamps it.
LEMMA RecvMsgStep ==
  ASSUME ExchangeInv, NEW t \in Threads, RecvMsg(t), UNCHANGED <<now, client, start>>
  PROVE  ExchangeInv'
<1>1. PICK q \in queries : \E rx \in q.sent .. now :
        /\ q.to = t /\ SetThread(t, At("assign", q, rx, 0, None))
        /\ queries' = (queries \ {q})
                      \cup {r \in {[q EXCEPT !.copies = @ - 1]} : r.copies > 0}
  BY Zenon DEF RecvMsg
<1>2. PICK rx \in q.sent .. now :
        /\ q.to = t /\ SetThread(t, At("assign", q, rx, 0, None))
        /\ queries' = (queries \ {q})
                      \cup {r \in {[q EXCEPT !.copies = @ - 1]} : r.copies > 0}
  BY <1>1, Zenon
<1>3. Sent(q, now, client) /\ q \in Queries
  BY Zenon DEF ExchangeInv, Sent
<1> DEFINE th == At("assign", q, rx, 0, None)
<1>4. thread' = [thread EXCEPT ![t] = th]
  BY <1>2, Zenon DEF SetThread
<1>5. Handled(th, t, now, client)
  BY <1>2, <1>3, Zenon DEF Handled, At
<1>6. ASSUME NEW r \in queries' \ queries PROVE Sent(r, now, client)
  <2>1. r = [q EXCEPT !.copies = @ - 1] /\ r.copies > 0
    BY <1>2, <1>6, Zenon
  <2>2. /\ r.id = q.id /\ r.src = q.src /\ r.to = q.to /\ r.sent = q.sent
        /\ r.copies = q.copies - 1
    BY <1>3, <2>1, Zenon DEF Queries
  <2>3. q.copies - 1 \in 1 .. MaxSends
    BY <1>3, <2>1, <2>2, BoundsAssumption DEF Queries
  <2>4. r \in Queries
    BY <1>3, <2>1, <2>3, Zenon DEF Queries
  <2> QED BY <1>3, <2>2, <2>4, Zenon DEF Sent
<1>7. UNCHANGED <<answers, servstate, sends>>
  BY Zenon DEF RecvMsg
<1> HIDE DEF th
<1> QED BY <1>4, <1>5, <1>6, <1>7, ThreadStep, Zenon

\* A thread assigns CLIENT_ADDR.
LEMMA AssignAddrStep ==
  ASSUME ExchangeInv, NEW t \in Threads, AssignAddr(t), UNCHANGED <<now, client, start>>
  PROVE  ExchangeInv'
<1> DEFINE th == At("response", thread[t].q, thread[t].rx, now, None)
<1>1. thread' = [thread EXCEPT ![t] = th]
  BY Zenon DEF AssignAddr, SetThread
<1>2. thread[t].pc \notin {"recvmsg", "dead"}
  BY Zenon DEF AssignAddr
<1>3. Handled(th, t, now, client)
  BY <1>2, Busy, Zenon DEF Handled, At
<1>4. UNCHANGED <<queries, answers, servstate, sends>>
  BY Zenon DEF AssignAddr
<1> HIDE DEF th
<1> QED BY <1>1, <1>3, <1>4, ThreadStep, Zenon

\* A thread that waits again, or has panicked.
LEMMA IdleIsHandled ==
  ASSUME NEW t
  PROVE  /\ Handled(Idle, t, now, client)
         /\ Handled(At("dead", None, 0, 0, None), t, now, client)
BY Zenon DEF Handled, Idle, At

\* A datagram that does not parse is dropped.
LEMMA DropMangledStep ==
  ASSUME ExchangeInv, NEW t \in Threads, DropMangled(t), UNCHANGED <<now, client, start>>
  PROVE  ExchangeInv'
<1>1. thread' = [thread EXCEPT ![t] = Idle]
  BY Zenon DEF DropMangled, SetThread
<1>2. UNCHANGED <<queries, answers, servstate, sends>>
  BY Zenon DEF DropMangled
<1> QED BY <1>1, <1>2, IdleIsHandled, ThreadStep, Zenon

\* An answer is sent, if the client can do with it what it should.
LEMMA ReplyStep ==
  ASSUME ExchangeInv, NEW t \in Threads, NEW w, w # Panic, Reply(t, w),
         thread[t].pc \notin {"recvmsg", "dead"},
         thread[t].q.src = MeasClient =>
           IF client.cookie = "good"
           THEN Genuine(w, thread[t].q.id[2], thread[t].rx, now)
           ELSE parse_nts_packet(w, <<Keys, "s2c">>) = Err,
         UNCHANGED <<now, start, sends, client, servstate, queries>>
  PROVE  ExchangeInv'
<1> DEFINE a == [wire |-> w, q |-> thread[t].q, tx |-> now, rx |-> thread[t].rx,
                 bytes |-> Raw(thread[t].q).bytes]
<1>1. thread' = [thread EXCEPT ![t] = Idle] /\ answers' = answers \cup {a}
  BY Zenon DEF Reply, SetThread
<1>2. /\ a.wire = w /\ a.q = thread[t].q /\ a.tx = now /\ a.rx = thread[t].rx
  BY Zenon
<1> HIDE DEF a
<1>3. /\ Sent(a.q, now, client) /\ a.rx \in a.q.sent .. now
  BY <1>2, Busy, Zenon
<1>4. a.tx \in a.rx .. now
  <2>1. a.q.sent \in Nat /\ now \in Nat
    BY <1>3, StartAssumption DEF Sent, Queries, ExchangeInv, ClientInv
  <2> QED BY <1>2, <1>3, <2>1
<1>5. Given(a, now, client)
  BY <1>2, <1>3, <1>4, Zenon DEF Given
<1>6. \A b \in answers' \ answers : Given(b, now, client)
  BY <1>1, <1>5, Zenon
<1> QED BY <1>1, <1>6, IdleIsHandled, ThreadStep, Zenon

\* A query of the measured client as the threads see it.
LEMMA MeasuredPacket ==
  ASSUME ExchangeInv, NEW t \in Threads, thread[t].pc \notin {"recvmsg", "dead"},
         thread[t].q.src = MeasClient
  PROVE  /\ Raw(thread[t].q) = NtsQuery(thread[t].q.id[2], client.cookie)
         /\ Packet(t) = parse_ntp_packet(NtsQuery(thread[t].q.id[2], client.cookie))
         /\ is_nts_packet(Packet(t))
         /\ extract_extension(Packet(t), NTSCookie) = CookieExt(client.cookie, Keys)
         /\ client.cookie \in {"good", "missing"}
<1> DEFINE q == thread[t].q
<1>1. q \in Queries /\ Sent(q, now, client)
  BY Busy, Zenon
<1>2. q.id \in Exchanges /\ q.id[3] = client.cookie
  BY <1>1, ClientsAssumption, Zenon DEF Sent
<1>3. Raw(q) = NtsQuery(q.id[2], client.cookie)
  BY <1>1, <1>2, RawIs, Zenon
<1> HIDE DEF q
<1>4. LET w == NtsQuery(q.id[2], client.cookie) IN
      /\ is_nts_packet(parse_ntp_packet(w))
      /\ extract_extension(parse_ntp_packet(w), NTSCookie) = CookieExt(client.cookie, Keys)
  BY QueryParsed
<1>5. client.cookie \in {"good", "missing"}
  BY Zenon DEF ExchangeInv, ClientInv, Clients
<1> QED BY <1>3, <1>4, <1>5, Zenon DEF Packet, q

\* A thread makes the header of its answer, or answers a plain NTP query with it.
LEMMA MakeHeaderStep ==
  ASSUME ExchangeInv, NEW t \in Threads, MakeHeader(t), UNCHANGED <<now, client, start>>
  PROVE  ExchangeInv'
<1> DEFINE header == create_header(Packet(t), thread[t].rx + Skew, thread[t].t_system + Skew)
           th == At("nts", thread[t].q, thread[t].rx, 0, header)
           w == [head |-> serialize_header(header), exts |-> <<>>, bytes |-> HEADER_SIZE]
<1>1. /\ thread[t].pc \notin {"recvmsg", "dead"} /\ ~Mangled(Packet(t))
      /\ UNCHANGED <<queries, servstate, sends>>
  BY Zenon DEF MakeHeader
<1>2. CASE is_nts_packet(Packet(t))
  <2>1. thread' = [thread EXCEPT ![t] = th] /\ UNCHANGED answers
    BY <1>2, Zenon DEF MakeHeader, SetThread
  <2>2. /\ header.receive = ntp_timestamp(thread[t].rx + Skew)
        /\ header.refid # NTSN
    BY Zenon DEF create_header, ExchangeInv
  <2>3. ~IsErr(Packet(t))
    BY <1>1, Zenon DEF Mangled
  <2> HIDE DEF header
  <2>4. /\ th.pc = "nts" /\ th.q = thread[t].q /\ th.rx = thread[t].rx /\ th.header = header
    BY Zenon DEF At
  <2> HIDE DEF th
  <2>5. Handled(th, t, now, client)
    BY <1>1, <2>2, <2>3, <2>4, Busy, Zenon DEF Handled, Packet
  <2> QED BY <1>1, <2>1, <2>5, ThreadStep, Zenon
<1>3. CASE ~is_nts_packet(Packet(t))
  <2>1. Reply(t, w)
    BY <1>3, Zenon DEF MakeHeader
  <2>2. w # Panic
    <3>1. "head" \in DOMAIN w /\ "head" \notin DOMAIN Panic
      BY Zenon DEF Panic
    <3> QED BY <3>1, Zenon
  <2> HIDE DEF w
  <2>3. thread[t].q.src # MeasClient
    BY <1>1, <1>3, MeasuredPacket, Zenon
  <2> QED BY <1>1, <2>1, <2>2, <2>3, ReplyStep, Zenon
<1> QED BY <1>2, <1>3, Zenon

\* A cookie that does not open is answered with a kiss of death.
LEMMA RefuseCookieStep ==
  ASSUME ExchangeInv, NEW t \in Threads, RefuseCookie(t), UNCHANGED <<now, client, start>>
  PROVE  ExchangeInv'
<1> DEFINE w == serialize_ntp_packet(kiss_of_death(Packet(t)))
<1>1. /\ thread[t].pc = "nts" /\ Reply(t, w)
      /\ CookieStatus(extract_extension(Packet(t), NTSCookie)) # "good"
      /\ UNCHANGED <<queries, servstate, sends>>
  BY Zenon DEF RefuseCookie
<1>2. thread[t].pc \notin {"recvmsg", "dead"}
  BY <1>1, Zenon
<1>3. w # Panic
  <2>1. thread[t].q \in Queries /\ ~IsErr(Packet(t))
    BY <1>1, <1>2, Busy, Zenon
  <2>2. IsDatagram(Raw(thread[t].q))
    BY <2>1, RawIs, Zenon
  <2> QED BY <2>1, <2>2, KissSurvives, Zenon DEF Packet
<1>4. ASSUME thread[t].q.src = MeasClient
      PROVE  client.cookie # "good" /\ parse_nts_packet(w, <<Keys, "s2c">>) = Err
  <2>1. /\ Packet(t) = parse_ntp_packet(NtsQuery(thread[t].q.id[2], client.cookie))
        /\ extract_extension(Packet(t), NTSCookie) = CookieExt(client.cookie, Keys)
    BY <1>2, <1>4, MeasuredPacket, Zenon
  <2>2. client.cookie # "good"
    BY <1>1, <2>1, StatusIs, Zenon
  <2> QED BY <2>1, <2>2, QueryRefused, Zenon
<1> HIDE DEF w
<1> QED BY <1>1, <1>2, <1>3, <1>4, ReplyStep, Zenon

\* A cookie that opens: process_nts answers, or panics.
LEMMA AnswerNtsStep ==
  ASSUME ExchangeInv, NEW t \in Threads, AnswerNts(t), UNCHANGED <<now, client, start>>
  PROVE  ExchangeInv'
<1> DEFINE cookie == extract_extension(Packet(t), NTSCookie)
           w == process_nts(thread[t].header, cookie.body.keys, Raw(thread[t].q), now + Skew)
<1>1. /\ thread[t].pc = "nts" /\ Reply(t, w) /\ CookieStatus(cookie) = "good"
      /\ UNCHANGED <<queries, servstate, sends>>
  BY Zenon DEF AnswerNts
<1>2. thread[t].pc \notin {"recvmsg", "dead"}
  BY <1>1, Zenon
<1>3. CASE w = Panic
  <2>1. thread' = [thread EXCEPT ![t] = At("dead", None, 0, 0, None)] /\ UNCHANGED answers
    BY <1>1, <1>3, Zenon DEF Reply, SetThread
  <2> QED BY <1>1, <2>1, IdleIsHandled, ThreadStep, Zenon
<1>4. ASSUME thread[t].q.src = MeasClient
      PROVE  /\ client.cookie = "good"
             /\ Genuine(w, thread[t].q.id[2], thread[t].rx, now)
  <2> DEFINE m == thread[t].q.id[2]
             header == thread[t].header
  <2>1. /\ Raw(thread[t].q) = NtsQuery(m, client.cookie)
        /\ cookie = CookieExt(client.cookie, Keys)
    BY <1>2, <1>4, MeasuredPacket, Zenon
  <2>2. client.cookie = "good" /\ cookie.body.keys = Keys
    BY <1>1, <2>1, StatusIs, Zenon
  <2>3. w = process_nts(header, Keys, NtsQuery(m, "good"), now + Skew)
    BY <2>1, <2>2, Zenon
  <2>4. /\ header.receive = ntp_timestamp(thread[t].rx + Skew)
        /\ header.refid # NTSN
    BY <1>1, <1>2, Busy, Zenon
  <2> HIDE DEF w, m, header
  <2>5. /\ w.head = serialize_header(Restamped(header, now + Skew))
        /\ ~IsErr(parse_nts_packet(w, <<Keys, "s2c">>))
        /\ parse_nts_packet(w, <<Keys, "s2c">>).auth_exts = <<UidExt(m)>>
    BY <2>3, QueryAnswered, Zenon
  <2>6. /\ w.head.refid = header.refid /\ w.head.receive = header.receive
        /\ w.head.transmit = ntp_timestamp(now + Skew)
    BY <2>5, StampsKept
  <2> QED BY <2>2, <2>4, <2>5, <2>6, Zenon DEF Genuine, m
<1> HIDE DEF w
<1>5. CASE w # Panic
  BY <1>1, <1>2, <1>4, <1>5, ReplyStep, Zenon
<1> QED BY <1>3, <1>5, Zenon

\* The refresher leaves the clients and the threads alone.
LEMMA RefreshStep ==
  ASSUME ExchangeInv, RefreshInv, UNCHANGED <<now, client, start>>,
         RefreshSend \/ RefreshPanics \/ UpstreamAnswer \/ RefreshRecv \/ RefreshReadError
  PROVE  ExchangeInv'
<1>1. /\ UNCHANGED <<queries, answers, thread>>
      /\ sends' = sends \/ (sends < MaxSends /\ sends' = sends + 1)
  BY Zenon DEF RefreshSend, RefreshPanics, UpstreamAnswer, RefreshRecv, RefreshReadError, threadVars
<1>2. servstate'.refid # NTSN
  <2>1. CASE RefreshRecv
    <3>1. /\ upstream.inbox \in Seq(UpstreamAnswers) /\ upstream.inbox # <<>>
      BY <2>1, Zenon DEF RefreshInv, UpstreamTypes, RefreshRecv
    <3>2. Head(upstream.inbox) \in UpstreamAnswers
      BY <3>1
    <3>3. Head(upstream.inbox).refid # NTSN
      BY <3>2, Zenon DEF UpstreamAnswers, NTSN
    <3>4. servstate' = servstate \/ servstate'.refid = Head(upstream.inbox).refid
      BY <2>1, Zenon DEF RefreshRecv, Adopted
    <3> QED BY <3>3, <3>4, Zenon DEF ExchangeInv
  <2>2. CASE ~RefreshRecv
    <3>1. servstate' = servstate
      BY <2>2, Zenon DEF RefreshSend, RefreshPanics, UpstreamAnswer, RefreshReadError
    <3> QED BY <3>1, Zenon DEF ExchangeInv
  <2> QED BY <2>1, <2>2, Zenon
<1>3. ClientInv'
  <2>1. sends \in 0 .. MaxSends /\ client \in Clients /\ client.n <= sends
    BY Zenon DEF ExchangeInv, ClientInv
  <2>2. sends' \in 0 .. MaxSends /\ client.n <= sends'
    BY <1>1, <2>1, BoundsAssumption DEF Clients
  <2> QED BY <2>2, Zenon DEF ExchangeInv, ClientInv
<1> QED BY <1>1, <1>2, <1>3, Zenon DEF ExchangeInv

\* Every step keeps the invariant.
LEMMA ExchangeNext == ExchangeInv /\ RefreshInv /\ [Next]_vars => ExchangeInv'
<1> SUFFICES ASSUME ExchangeInv, RefreshInv, [Next]_vars PROVE ExchangeInv'
  BY Zenon
<1>1. CASE Tick
  BY <1>1, TickStep, Zenon
<1>2. CASE Ask
  BY <1>2, AskStep, Zenon
<1>3. CASE AskOther
  BY <1>3, AskOtherStep, Zenon
<1>4. CASE Receive \/ ReadTimeout
  BY <1>4, ReceiveStep, Zenon
<1>5. CASE ServerStep /\ UNCHANGED <<now, client, other, start>>
  <2>1. UNCHANGED <<now, client, start>>
    BY <1>5, Zenon
  <2>2. ASSUME NEW t \in Threads,
               RecvMsg(t) \/ AssignAddr(t) \/ DropMangled(t) \/ MakeHeader(t)
                 \/ RefuseCookie(t) \/ AnswerNts(t)
        PROVE  ExchangeInv'
    BY <2>1, <2>2, RecvMsgStep, AssignAddrStep, DropMangledStep, MakeHeaderStep,
       RefuseCookieStep, AnswerNtsStep, Zenon
  <2>3. CASE RefreshSend \/ RefreshPanics \/ UpstreamAnswer \/ RefreshRecv \/ RefreshReadError
    BY <2>1, <2>3, RefreshStep, Zenon
  <2> QED BY <1>5, <2>2, <2>3, Zenon DEF ServerStep
<1>6. CASE UNCHANGED vars
  BY <1>6, Zenon DEF vars, serverVars, threadVars, ExchangeInv, ClientInv
<1> QED BY <1>1, <1>2, <1>3, <1>4, <1>5, <1>6, Zenon DEF Next

-----------------------------------------------------------------------------
(* Whose handling is recorded.                                             *)

\* Two threads never handle the other client's query at a time: a thread that
\* misreads CLIENT_ADDR while it is assigned is with another client than the
\* thread that assigns it.
LEMMA MisreadOverlaps ==
  ASSUME ExchangeInv, AddressInv, ~overlapped, NEW t \in Threads,
         thread[t].pc \in {"response", "nts"}, TRUE \in Measured(t)
  PROVE  thread[t].q.src # OtherClient
<1> SUFFICES ASSUME thread[t].q.src = OtherClient PROVE FALSE
  BY Zenon
<1>1. CLIENT_ADDR = OtherClient
  BY Zenon DEF AddressInv
<1>2. PICK u \in Threads \ {t} : thread[u].pc = "assign"
  BY <1>1, ClientsAssumption, Zenon DEF Measured
<1>3. /\ thread[t].q \in Queries /\ Sent(thread[t].q, now, client) /\ thread[t].q.to = t
      /\ thread[u].q \in Queries /\ Sent(thread[u].q, now, client) /\ thread[u].q.to = u
  BY <1>2, Busy, Zenon
<1>4. thread[t].q # None /\ thread[u].q # None
  BY <1>3, NoneAssumption, Zenon
<1>5. thread[u].q.src = OtherClient
  BY <1>2, <1>4, Zenon DEF AddressInv, Overlap
<1>6. thread[t].q.to = OtherThread /\ thread[u].q.to = OtherThread
  BY <1>3, <1>5, ClientsAssumption, Zenon DEF Sent
<1> QED BY <1>2, <1>3, <1>6, Zenon

\* A step of one thread that leaves CLIENT_ADDR alone, and records its query
\* only if it takes it for the measured client's.
LEMMA RecordStep ==
  ASSUME ExchangeInv, AddressInv, NEW t \in Threads, NEW th, SetThread(t, th),
         UNCHANGED CLIENT_ADDR, th.pc # "response",
         th.pc = "nts" => thread[t].pc = "response" /\ th.q = thread[t].q,
         \/ UNCHANGED samples
         \/ /\ thread[t].pc \in {"response", "nts"}
            /\ \E file \in {"ntp", "nts"}, measured \in Measured(t) : Record(file, t, measured)
  PROVE  AddressInv'
<1>1. /\ thread' = [thread EXCEPT ![t] = th]
      /\ overlapped' = (overlapped \/ Overlap(thread'))
  BY Zenon DEF SetThread
<1>2. /\ thread'[t] = th /\ \A u \in Threads \ {t} : thread'[u] = thread[u]
  BY <1>1, Zenon DEF ExchangeInv
<1>3. \/ samples' = samples
      \/ /\ thread[t].pc \in {"response", "nts"} /\ TRUE \in Measured(t)
         /\ \E file \in {"ntp", "nts"} : samples' = samples \cup {<<file, thread[t].q.src>>}
  <2>1. ASSUME thread[t].pc \in {"response", "nts"},
               NEW file \in {"ntp", "nts"}, NEW measured \in Measured(t),
               Record(file, t, measured), samples' # samples
        PROVE  TRUE \in Measured(t) /\ samples' = samples \cup {<<file, thread[t].q.src>>}
    <3>1. measured \in BOOLEAN
      BY Zenon DEF Measured
    <3> QED BY <2>1, <3>1, Zenon DEF Record
  <2> QED BY <2>1, Zenon
<1>4. samples' \subseteq {"ntp", "nts"} \X {MeasClient, OtherClient}
  <2>1. thread[t].pc \notin {"recvmsg", "dead"} => thread[t].q.src \in {MeasClient, OtherClient}
    BY Busy, Zenon DEF Queries
  <2>2. ASSUME NEW file \in {"ntp", "nts"}, thread[t].pc \in {"response", "nts"},
               samples' = samples \cup {<<file, thread[t].q.src>>}
        PROVE  samples' \subseteq {"ntp", "nts"} \X {MeasClient, OtherClient}
    <3>1. <<file, thread[t].q.src>> \in {"ntp", "nts"} \X {MeasClient, OtherClient}
      BY <2>1, <2>2, Zenon
    <3> QED BY <2>2, <3>1, Zenon DEF AddressInv
  <2> QED BY <1>3, <2>2, Zenon DEF AddressInv
<1>5. ASSUME ~overlapped'
      PROVE  /\ ~Overlap(thread')
             /\ \A u \in Threads :
                  thread'[u].pc \in {"response", "nts"} => CLIENT_ADDR' = thread'[u].q.src
             /\ \A file \in {"ntp", "nts"} : <<file, OtherClient>> \notin samples'
  <2>1. ~overlapped /\ ~Overlap(thread')
    BY <1>1, <1>5, Zenon
  <2>2. ASSUME NEW u \in Threads, thread'[u].pc \in {"response", "nts"}
        PROVE  CLIENT_ADDR' = thread'[u].q.src
    BY <1>2, <2>1, <2>2, Zenon DEF AddressInv
  <2>3. ASSUME NEW file \in {"ntp", "nts"} PROVE <<file, OtherClient>> \notin samples'
    <3>1. <<file, OtherClient>> \notin samples
      BY <2>1, Zenon DEF AddressInv
    <3>2. ASSUME thread[t].pc \in {"response", "nts"}, TRUE \in Measured(t), NEW f,
                 samples' = samples \cup {<<f, thread[t].q.src>>}
          PROVE  <<file, OtherClient>> \notin samples'
      <4>1. thread[t].q.src # OtherClient
        BY <2>1, <3>2, MisreadOverlaps, Zenon
      <4>2. <<file, OtherClient>> # <<f, thread[t].q.src>>
        BY <4>1, Zenon
      <4> QED BY <3>1, <3>2, <4>2, Zenon
    <3> QED BY <1>3, <3>1, <3>2, Zenon
  <2> QED BY <2>1, <2>2, <2>3, Zenon
<1> QED BY <1>4, <1>5, Zenon DEF AddressInv

\* Whoever assigns CLIENT_ADDR is the only client, or two are handled at a time.
LEMMA AssignStep ==
  ASSUME ExchangeInv, AddressInv, NEW t \in Threads, AssignAddr(t)
  PROVE  AddressInv'
<1> DEFINE th == At("response", thread[t].q, thread[t].rx, now, None)
<1>1. /\ thread' = [thread EXCEPT ![t] = th] /\ thread[t].pc \notin {"recvmsg", "dead"}
      /\ overlapped' = (overlapped \/ Overlap(thread'))
      /\ CLIENT_ADDR' = thread[t].q.src /\ samples' = samples
  BY Zenon DEF AssignAddr, SetThread
<1>2. th.q = thread[t].q /\ th.pc = "response"
  BY Zenon DEF At
<1> HIDE DEF th
<1>3. /\ thread'[t] = th /\ \A u \in Threads \ {t} : thread'[u] = thread[u]
  BY <1>1, Zenon DEF ExchangeInv
<1>4. ASSUME ~overlapped', NEW u \in Threads, thread'[u].pc \in {"response", "nts"}
      PROVE  CLIENT_ADDR' = thread'[u].q.src
  <2>1. CASE u = t
    BY <1>1, <1>2, <1>3, <2>1, Zenon
  <2>2. CASE u # t
    <3>1. thread[u].pc \in {"response", "nts"} /\ thread'[u].q = thread[u].q
      BY <1>3, <1>4, <2>2, Zenon
    <3>2. thread'[u].q \in Queries /\ thread'[t].q \in Queries
      BY <1>1, <1>2, <1>3, <3>1, Busy, Zenon
    <3>3. thread'[u].q # None /\ thread'[t].q # None
      BY <3>2, NoneAssumption, Zenon
    <3>4. ~Overlap(thread')
      BY <1>1, <1>4, Zenon
    <3>5. thread'[u].q.src = thread'[t].q.src
      BY <3>3, <3>4, Zenon DEF Overlap
    <3> QED BY <1>1, <1>2, <1>3, <3>5, Zenon
  <2> QED BY <2>1, <2>2, Zenon
<1> QED BY <1>1, <1>4, Zenon DEF AddressInv

\* Every step keeps the invariant.
LEMMA AddressNext == AddressInv /\ ExchangeInv /\ [Next]_vars => AddressInv'
<1> SUFFICES ASSUME AddressInv, ExchangeInv, [Next]_vars PROVE AddressInv'
  BY Zenon
<1>1. ASSUME NEW t \in Threads, RecvMsg(t) PROVE AddressInv'
  <2>1. PICK q, rx : SetThread(t, At("assign", q, rx, 0, None))
    BY <1>1, Zenon DEF RecvMsg
  <2>2. At("assign", q, rx, 0, None).pc = "assign"
    BY Zenon DEF At
  <2>3. UNCHANGED <<CLIENT_ADDR, samples>>
    BY <1>1, Zenon DEF RecvMsg
  <2> QED BY <2>1, <2>2, <2>3, RecordStep, Zenon
<1>2. ASSUME NEW t \in Threads, AssignAddr(t) PROVE AddressInv'
  BY <1>2, AssignStep, Zenon
<1>3. Idle.pc = "recvmsg" /\ At("dead", None, 0, 0, None).pc = "dead"
  BY Zenon DEF Idle, At
<1>4. ASSUME NEW t \in Threads, DropMangled(t) PROVE AddressInv'
  <2>1. SetThread(t, Idle) /\ UNCHANGED <<CLIENT_ADDR, samples>>
    BY <1>4, Zenon DEF DropMangled
  <2> QED BY <1>3, <2>1, RecordStep, Zenon
<1>5. ASSUME NEW t \in Threads, NEW w, Reply(t, w)
      PROVE  SetThread(t, Idle) \/ SetThread(t, At("dead", None, 0, 0, None))
  BY <1>5, Zenon DEF Reply
<1>6. ASSUME NEW t \in Threads, MakeHeader(t) PROVE AddressInv'
  <2> DEFINE header == create_header(Packet(t), thread[t].rx + Skew, thread[t].t_system + Skew)
             th == At("nts", thread[t].q, thread[t].rx, 0, header)
  <2>1. /\ thread[t].pc = "response" /\ UNCHANGED CLIENT_ADDR
        /\ \E measured \in Measured(t) : Record("ntp", t, measured)
    BY <1>6, Zenon DEF MakeHeader
  <2>2. SetThread(t, th) \/ SetThread(t, Idle) \/ SetThread(t, At("dead", None, 0, 0, None))
    BY <1>5, <1>6, Zenon DEF MakeHeader
  <2>3. th.pc = "nts" /\ th.q = thread[t].q
    BY Zenon DEF At
  <2> HIDE DEF th
  <2> QED BY <1>3, <2>1, <2>2, <2>3, RecordStep, Zenon
<1>7. ASSUME NEW t \in Threads, RefuseCookie(t) PROVE AddressInv'
  <2>1. UNCHANGED <<CLIENT_ADDR, samples>>
    BY <1>7, Zenon DEF RefuseCookie
  <2>2. SetThread(t, Idle) \/ SetThread(t, At("dead", None, 0, 0, None))
    BY <1>5, <1>7, Zenon DEF RefuseCookie
  <2> QED BY <1>3, <2>1, <2>2, RecordStep, Zenon
<1>8. ASSUME NEW t \in Threads, AnswerNts(t) PROVE AddressInv'
  <2>1. /\ thread[t].pc = "nts" /\ UNCHANGED CLIENT_ADDR
        /\ \/ UNCHANGED samples
           \/ \E measured \in Measured(t) : Record("nts", t, measured)
    BY <1>8, Zenon DEF AnswerNts
  <2>2. SetThread(t, Idle) \/ SetThread(t, At("dead", None, 0, 0, None))
    BY <1>5, <1>8, Zenon DEF AnswerNts
  <2> QED BY <1>3, <2>1, <2>2, RecordStep, Zenon
<1>9. ASSUME UNCHANGED <<thread, CLIENT_ADDR, samples, overlapped>> PROVE AddressInv'
  BY <1>9, Zenon DEF AddressInv, Overlap
<1>10. CASE Tick \/ Ask \/ AskOther \/ Receive \/ ReadTimeout \/ UNCHANGED vars
  <2>1. UNCHANGED <<thread, CLIENT_ADDR, samples, overlapped>>
    BY <1>10, Zenon DEF Tick, Ask, AskOther, Send, Receive, ReadTimeout, vars, serverVars, threadVars
  <2> QED BY <1>9, <2>1, Zenon
<1>11. CASE RefreshSend \/ RefreshPanics \/ UpstreamAnswer \/ RefreshRecv \/ RefreshReadError
  <2>1. UNCHANGED <<thread, CLIENT_ADDR, samples, overlapped>>
    BY <1>11, Zenon DEF RefreshSend, RefreshPanics, UpstreamAnswer, RefreshRecv, RefreshReadError, threadVars
  <2> QED BY <1>9, <2>1, Zenon
<1> QED BY <1>1, <1>2, <1>4, <1>6, <1>7, <1>8, <1>10, <1>11, Zenon DEF Next, ServerStep

-----------------------------------------------------------------------------
(* The exchange is a time transfer, step by step.                          *)

\* Nothing was asked and nothing served.
LEMMA TransferInit == Init => Transfer!Init
<1> SUFFICES ASSUME Init PROVE Transfer!Init
  BY Zenon
<1>1. now \in Nat /\ now + Skew >= 0
  BY StartAssumption, Zenon DEF Init
<1>2. /\ client.n = 0 /\ client.pc = "idle" /\ client.t1 = now /\ client.result = None
      /\ answers = {}
  BY Zenon DEF Init, ServerInit
<1>3. Served = {}
  BY <1>2, Zenon DEF Served
<1> QED BY <1>1, <1>2, <1>3, Zenon DEF Transfer!Init

\* What the time transfer sees of a step that answers nobody.
LEMMA Unseen ==
  ASSUME UNCHANGED <<now, client, answers>>
  PROVE  UNCHANGED Transfer!vars
<1>1. Served' = Served
  BY Zenon DEF Served
<1> QED BY <1>1, Zenon DEF Transfer!vars

\* An answer to the measured client is made after its query was sent, and
\* before now; an answer to another client is not seen.
LEMMA ReplyServes ==
  ASSUME ExchangeInv, NEW t \in Threads, NEW w, Reply(t, w),
         thread[t].pc \notin {"recvmsg", "dead"}, UNCHANGED <<now, client>>
  PROVE  Transfer!Serve \/ UNCHANGED Transfer!vars
<1> DEFINE q == thread[t].q
           a == [wire |-> w, q |-> q, tx |-> now, rx |-> thread[t].rx,
                 bytes |-> Raw(q).bytes]
           Timed(b) == b.q.src = MeasClient /\ b.wire.head.refid # NTSN
           Of(b) == [n |-> b.q.id[2], rx |-> b.rx, tx |-> b.tx]
<1>1. Served = {Of(b) : b \in {b \in answers : Timed(b)}}
  BY Zenon DEF Served
<1>2. Served' = {Of(b) : b \in {b \in answers' : Timed(b)}}
  BY Zenon DEF Served
<1>3. a.q = q /\ a.tx = now /\ a.rx = thread[t].rx
  BY Zenon
<1>4. answers' = answers \/ answers' = answers \cup {a}
  BY Zenon DEF Reply
<1>5. CASE answers' = answers
  BY <1>5, Unseen, Zenon
<1> HIDE DEF a
<1>6. CASE answers' = answers \cup {a} /\ ~Timed(a)
  <2>1. {b \in answers' : Timed(b)} = {b \in answers : Timed(b)}
    BY <1>6, Zenon
  <2>2. Served' = Served
    BY <1>1, <1>2, <2>1, Zenon
  <2> QED BY <2>2, Zenon DEF Transfer!vars
<1>7. CASE answers' = answers \cup {a} /\ Timed(a)
  <2> DEFINE s == Of(a)
  <2>1. Served' = Served \cup {s}
    <3>1. {b \in answers' : Timed(b)} = {b \in answers : Timed(b)} \cup {a}
      BY <1>7, Zenon
    <3> HIDE DEF Timed, Of
    <3> QED BY <1>1, <1>2, <3>1, Zenon
  <2>2. /\ Sent(q, now, client) /\ q \in Queries /\ thread[t].rx \in q.sent .. now
    BY Busy, Zenon
  <2>3. q.src = MeasClient
    BY <1>3, <1>7, Zenon
  <2>4. /\ q.id \in Exchanges /\ q.id[2] <= client.n /\ q.sent \in Nat
        /\ q.id[2] = client.n => client.t1 <= q.sent
    BY <2>2, <2>3, ClientsAssumption, Zenon DEF Sent, Queries
  <2>5. q.id[2] \in 1 .. MaxSends
    BY <2>4, Zenon DEF Exchanges
  <2>6. now \in Nat /\ client.n \in Nat /\ client.t1 \in Nat
    BY StartAssumption DEF ExchangeInv, ClientInv, Clients
  <2>7. s.n = q.id[2] /\ s.rx = thread[t].rx /\ s.tx = now
    BY <1>3, Zenon
  <2> HIDE DEF s, q
  <2>8. /\ s.n \in 1 .. client.n /\ s.rx \in Int /\ s.tx \in Int
        /\ s.n = client.n => client.t1 <= s.rx /\ s.rx <= s.tx /\ s.tx <= now
    BY <2>2, <2>4, <2>5, <2>6, <2>7, BoundsAssumption
  <2>9. s \in Served'
    BY <2>1, Zenon
  <2>10. Transfer!Serve
    <3>1. \E b \in Served' :
            /\ Served' = Served \cup {b}
            /\ b.n \in 1 .. client.n
            /\ b.rx \in Int /\ b.tx \in Int
            /\ b.n = client.n => client.t1 <= b.rx /\ b.rx <= b.tx /\ b.tx <= now
      BY <2>1, <2>8, <2>9, Zenon
    <3> QED BY <3>1, Zenon DEF Transfer!Serve
  <2> QED BY <2>10, Zenon
<1> QED BY <1>4, <1>5, <1>6, <1>7, Zenon

\* The client takes a time that was served for its last query, or none.
LEMMA ReceiveAccepts ==
  ASSUME ExchangeInv, Receive
  PROVE  (\E s \in Served : Transfer!Accept(s)) \/ Transfer!Fail
<1>1. PICK a \in answers :
        /\ a.q.src = MeasClient
        /\ client' =
             [client EXCEPT
                !.pc = "idle",
                !.error = Verdict(a.wire),
                !.result = IF Verdict(a.wire) = "Ok"
                           THEN TimeDiff(a.wire.head, a.tx + Skew) ELSE @]
  BY Zenon DEF Receive
<1>2. client.pc = "recv" /\ UNCHANGED <<now, answers>> /\ client \in Clients
  BY Zenon DEF Receive, serverVars, threadVars, ExchangeInv, ClientInv
<1>3. Served' = Served
  BY <1>2, Zenon DEF Served
<1> DEFINE verdict == Verdict(a.wire)  diff == TimeDiff(a.wire.head, a.tx + Skew)
<1>4. /\ client'.pc = "idle" /\ client'.n = client.n /\ client'.t1 = client.t1
      /\ client'.result = IF verdict = "Ok" THEN diff ELSE client.result
  <2>1. client' = [client EXCEPT !.pc = "idle", !.error = verdict,
                                 !.result = IF verdict = "Ok" THEN diff ELSE @]
    BY <1>1, Zenon
  <2> HIDE DEF verdict, diff
  <2> QED BY <1>2, <2>1, Zenon DEF Clients
<1>5. (client.pc = "recv") /\ (client'.pc = "recv") = FALSE
  BY <1>2, <1>4, Zenon
<1>6. CASE verdict # "Ok"
  <2>1. client'.result = client.result
    BY <1>4, <1>6, Zenon
  <2> QED BY <1>2, <1>3, <1>4, <1>5, <2>1, Zenon DEF Transfer!Fail
<1>7. CASE verdict = "Ok"
  <2> DEFINE s == [n |-> a.q.id[2], rx |-> a.rx, tx |-> a.tx]
  <2>1. /\ a.q.id[2] = client.n /\ a.wire.head.refid # NTSN
        /\ diff = [twice |-> (((a.rx + Skew) % Era) - client.t1) + (((a.tx + Skew) % Era) - now),
                   delay |-> now - client.t1, sent |-> a.tx + Skew]
    BY <1>1, <1>7, TimeTaken, Zenon
  <2>2. s \in Served
    BY <1>1, <2>1, Zenon DEF Served
  <2>3. s.n = client.n /\ s.rx = a.rx /\ s.tx = a.tx
    BY <2>1, Zenon
  <2> HIDE DEF s
  <2>4. client'.result = [twice |-> Transfer!TwiceOffset(s), delay |-> now - client.t1,
                          sent |-> s.tx + Skew]
    BY <1>4, <1>7, <2>1, <2>3, Zenon DEF Transfer!TwiceOffset, Transfer!Stamp
  <2>5. Transfer!Accept(s)
    BY <1>2, <1>3, <1>4, <1>5, <2>3, <2>4, Zenon DEF Transfer!Accept
  <2> QED BY <2>2, <2>5, Zenon
<1> QED BY <1>6, <1>7, Zenon

\* Every step is a step of the time transfer, or is not seen by it.
LEMMA TransferNext == ExchangeInv /\ [Next]_vars => [Transfer!Next]_(Transfer!vars)
<1> SUFFICES ASSUME ExchangeInv, [Next]_vars PROVE Transfer!Next \/ UNCHANGED Transfer!vars
  BY Zenon
<1>0. client \in Clients
  BY Zenon DEF ExchangeInv, ClientInv
<1>1. CASE Tick
  <2>1. now' = now + 1 /\ UNCHANGED <<client, answers>>
    BY <1>1, Zenon DEF Tick, serverVars, threadVars
  <2>2. Served' = Served
    BY <2>1, Zenon DEF Served
  <2>3. Transfer!Tick
    BY <2>1, <2>2, Zenon DEF Transfer!Tick
  <2> QED BY <2>3, Zenon DEF Transfer!Next
<1>2. CASE Ask
  <2>1. /\ client' = [client EXCEPT !.pc = "recv", !.n = @ + 1, !.t1 = now]
        /\ client.pc = "idle" /\ UNCHANGED <<now, answers>>
    BY <1>2, Zenon DEF Ask, Send
  <2>2. /\ client'.pc = "recv" /\ client'.n = client.n + 1 /\ client'.t1 = now
        /\ client'.result = client.result
    BY <1>0, <2>1, Zenon DEF Clients
  <2>3. Served' = Served
    BY <2>1, Zenon DEF Served
  <2>4. ~(client.pc = "recv") /\ (client'.pc = "recv") = TRUE
    BY <2>1, <2>2, Zenon
  <2>5. Transfer!Ask
    BY <2>1, <2>2, <2>3, <2>4, Zenon DEF Transfer!Ask
  <2> QED BY <2>5, Zenon DEF Transfer!Next
<1>3. CASE AskOther
  <2>1. UNCHANGED <<now, client, answers>>
    BY <1>3, Zenon DEF AskOther, Send
  <2> QED BY <2>1, Unseen, Zenon
<1>4. CASE Receive
  BY <1>4, ReceiveAccepts, Zenon DEF Transfer!Next
<1>5. CASE ReadTimeout
  <2>1. /\ client' = [client EXCEPT !.pc = "idle", !.error = "Err"]
        /\ client.pc = "recv" /\ UNCHANGED <<now, answers>>
    BY <1>5, Zenon DEF ReadTimeout, serverVars, threadVars
  <2>2. /\ client'.pc = "idle" /\ client'.n = client.n /\ client'.t1 = client.t1
        /\ client'.result = client.result
    BY <1>0, <2>1, Zenon DEF Clients
  <2>3. Served' = Served
    BY <2>1, Zenon DEF Served
  <2>4. (client.pc = "recv") /\ (client'.pc = "recv") = FALSE
    BY <2>1, <2>2, Zenon
  <2>5. Transfer!Fail
    BY <2>1, <2>2, <2>3, <2>4, Zenon DEF Transfer!Fail
  <2> QED BY <2>5, Zenon DEF Transfer!Next
<1>6. CASE ServerStep /\ UNCHANGED <<now, client, other, start>>
  <2>1. UNCHANGED <<now, client>>
    BY <1>6, Zenon
  <2>2. ASSUME NEW t \in Threads, NEW w, Reply(t, w), thread[t].pc \notin {"recvmsg", "dead"}
        PROVE  Transfer!Next \/ UNCHANGED Transfer!vars
    BY <2>1, <2>2, ReplyServes, Zenon DEF Transfer!Next
  <2>3. ASSUME UNCHANGED answers PROVE Transfer!Next \/ UNCHANGED Transfer!vars
    BY <2>1, <2>3, Unseen, Zenon
  <2>4. ASSUME NEW t \in Threads, MakeHeader(t) \/ RefuseCookie(t) \/ AnswerNts(t)
        PROVE  UNCHANGED answers \/ \E w : Reply(t, w) /\ thread[t].pc \notin {"recvmsg", "dead"}
    BY <2>4, Zenon DEF MakeHeader, RefuseCookie, AnswerNts
  <2>5. ASSUME NEW t \in Threads, RecvMsg(t) \/ AssignAddr(t) \/ DropMangled(t)
        PROVE  UNCHANGED answers
    BY <2>5, Zenon DEF RecvMsg, AssignAddr, DropMangled
  <2>6. CASE RefreshSend \/ RefreshPanics \/ UpstreamAnswer \/ RefreshRecv \/ RefreshReadError
    <3>1. UNCHANGED answers
      BY <2>6, Zenon DEF RefreshSend, RefreshPanics, UpstreamAnswer, RefreshRecv,
         RefreshReadError, threadVars
    <3> QED BY <2>3, <3>1, Zenon
  <2> QED BY <1>6, <2>2, <2>3, <2>4, <2>5, <2>6, Zenon DEF ServerStep
<1>7. CASE UNCHANGED vars
  <2>1. UNCHANGED <<now, client, answers>>
    BY <1>7, Zenon DEF vars, serverVars, threadVars
  <2> QED BY <2>1, Unseen, Zenon
<1> QED BY <1>1, <1>2, <1>3, <1>4, <1>5, <1>6, <1>7, Zenon DEF Next

-----------------------------------------------------------------------------
(* Which datagrams a listening thread dies of.                             *)

\* A thread that dies had a datagram with an authenticator too long for it.
OnlyOverlongPanics ==
  \A t \in Threads :
    thread'[t].pc = "dead" /\ thread[t].pc # "dead" =>
      LET w == Raw(thread[t].q) IN
      Auths(w) # {} /\ w.exts[FirstAuth(w)].len > w.bytes

\* A thread dies in a step of its own.
LEMMA OwnStep ==
  ASSUME ExchangeInv, NEW t \in Threads, NEW u \in Threads, NEW th, SetThread(u, th),
         thread'[t].pc = "dead", thread[t].pc # "dead"
  PROVE  u = t /\ th.pc = "dead"
<1>1. thread' = [thread EXCEPT ![u] = th]
  BY Zenon DEF SetThread
<1>2. thread'[u] = th /\ \A v \in Threads \ {u} : thread'[v] = thread[v]
  BY <1>1, Zenon DEF ExchangeInv
<1> QED BY <1>2, Zenon

\* Where a thread dies is where it would answer, and the answer panics.
LEMMA DiesReplying ==
  ASSUME ExchangeInv, NEW t \in Threads, NEW u \in Threads, NEW w, Reply(u, w),
         thread'[t].pc = "dead", thread[t].pc # "dead"
  PROVE  u = t /\ w = Panic
<1>1. Idle.pc # "dead"
  BY Zenon DEF Idle, At
<1>2. CASE w = Panic
  BY <1>2, OwnStep, Zenon DEF Reply
<1>3. CASE w # Panic
  <2>1. SetThread(u, Idle)
    BY <1>3, Zenon DEF Reply
  <2> QED BY <1>1, <2>1, OwnStep, Zenon
<1> QED BY <1>2, <1>3, Zenon

\* The plain answer, the kiss of death and process_nts, one by one.
LEMMA DeadStep == ExchangeInv /\ [Next]_vars => OnlyOverlongPanics
<1> SUFFICES ASSUME ExchangeInv, [Next]_vars,
                    NEW t \in Threads, thread'[t].pc = "dead", thread[t].pc # "dead"
             PROVE  LET w == Raw(thread[t].q) IN
                    Auths(w) # {} /\ w.exts[FirstAuth(w)].len > w.bytes
  BY DEF OnlyOverlongPanics
<1>1. ASSUME NEW u \in Threads, RecvMsg(u) \/ AssignAddr(u) \/ DropMangled(u) PROVE FALSE
  <2>1. \/ \E q, rx : SetThread(u, At("assign", q, rx, 0, None))
        \/ SetThread(u, At("response", thread[u].q, thread[u].rx, now, None))
        \/ SetThread(u, Idle)
    BY <1>1, Zenon DEF RecvMsg, AssignAddr, DropMangled
  <2>2. \A q, rx, at : /\ At("assign", q, rx, at, None).pc # "dead"
                       /\ At("response", q, rx, at, None).pc # "dead"
    BY Zenon DEF At
  <2>3. Idle.pc # "dead"
    BY Zenon DEF Idle, At
  <2>4. ASSUME NEW th, th.pc # "dead" PROVE ~SetThread(u, th)
    BY <2>4, OwnStep, Zenon
  <2> QED BY <2>1, <2>2, <2>3, <2>4, Zenon
<1>2. ASSUME NEW u \in Threads, MakeHeader(u) PROVE FALSE
  <2> DEFINE header == create_header(Packet(u), thread[u].rx + Skew, thread[u].t_system + Skew)
             th == At("nts", thread[u].q, thread[u].rx, 0, header)
             w == [head |-> serialize_header(header), exts |-> <<>>, bytes |-> HEADER_SIZE]
  <2>1. SetThread(u, th) \/ Reply(u, w)
    BY <1>2, Zenon DEF MakeHeader
  <2>2. w # Panic
    <3>1. "head" \in DOMAIN w /\ "head" \notin DOMAIN Panic
      BY Zenon DEF Panic
    <3> QED BY <3>1, Zenon
  <2>3. th.pc # "dead"
    BY Zenon DEF At
  <2> HIDE DEF w, th
  <2> QED BY <2>1, <2>2, <2>3, OwnStep, DiesReplying, Zenon
<1>3. ASSUME NEW u \in Threads, thread[u].pc = "nts"
      PROVE  IsDatagram(Raw(thread[u].q)) /\ ~IsErr(Packet(u))
  <2>1. thread[u].q \in Queries /\ ~IsErr(Packet(u))
    BY <1>3, Busy, Zenon
  <2> QED BY <2>1, RawIs, Zenon
<1>4. ASSUME NEW u \in Threads, RefuseCookie(u) PROVE FALSE
  <2> DEFINE w == serialize_ntp_packet(kiss_of_death(Packet(u)))
  <2>1. thread[u].pc = "nts" /\ Reply(u, w)
    BY <1>4, Zenon DEF RefuseCookie
  <2>2. w # Panic
    BY <1>3, <2>1, KissSurvives, Zenon DEF Packet
  <2> HIDE DEF w
  <2> QED BY <2>1, <2>2, DiesReplying, Zenon
<1>5. ASSUME NEW u \in Threads, AnswerNts(u)
      PROVE  LET w == Raw(thread[t].q) IN
             Auths(w) # {} /\ w.exts[FirstAuth(w)].len > w.bytes
  <2> DEFINE cookie == extract_extension(Packet(u), NTSCookie)
             res == process_nts(thread[u].header, cookie.body.keys, Raw(thread[u].q), now + Skew)
  <2>1. thread[u].pc = "nts" /\ Reply(u, res)
    BY <1>5, Zenon DEF AnswerNts
  <2>2. u = t /\ res = Panic
    BY <2>1, DiesReplying, Zenon
  <2> QED BY <1>3, <2>1, <2>2, NtsSurvives, Zenon DEF Packet
<1>6. CASE ~\E u \in Threads : \/ RecvMsg(u) \/ AssignAddr(u) \/ DropMangled(u)
                              \/ MakeHeader(u) \/ RefuseCookie(u) \/ AnswerNts(u)
  <2>1. UNCHANGED thread
    BY <1>6, Zenon DEF Next, ServerStep, Tick, Ask, AskOther, Send, Receive, ReadTimeout,
       RefreshSend, RefreshPanics, UpstreamAnswer, RefreshRecv, RefreshReadError,
       vars, serverVars, threadVars
  <2> QED BY <2>1, Zenon
<1> QED BY <1>1, <1>2, <1>4, <1>5, <1>6, Zenon

-----------------------------------------------------------------------------
\* What the invariants say of a state.
LEMMA ExchangeFacts ==
  ASSUME ExchangeInv, RefreshInv, AddressInv
  PROVE  TypeOK /\ ClientUnderstandsServer /\ MisrecordNeedsOverlap
<1>1. \A t \in Threads : thread[t].pc \in {"recvmsg", "assign", "response", "nts", "dead"}
  BY Busy, Zenon
<1>3. MisrecordNeedsOverlap
  BY Zenon DEF MisrecordNeedsOverlap, AddressInv
<1>4. TypeOK
  <2>1. now \in start .. start + MaxTicks
    BY Zenon DEF ExchangeInv, ClientInv
  <2>2. \A q \in queries : q.src \in {MeasClient, OtherClient} /\ q.copies \in 1 .. MaxSends
    BY Zenon DEF ExchangeInv, Sent, Queries
  <2>3. samples \subseteq {"ntp", "nts"} \X {MeasClient, OtherClient}
    BY Zenon DEF AddressInv
  <2>4. client.pc \in {"idle", "recv"}
        /\ client.error \in {"none", "Ok", "Err", "InvalidUid", "panic"}
    BY Zenon DEF ExchangeInv, ClientInv, Clients
  <2>5. upstream.pc \in {"none", "send", "recv", "dead"}
    BY Zenon DEF RefreshInv, UpstreamTypes
  <2> QED BY <1>1, <2>1, <2>2, <2>3, <2>4, <2>5, Zenon DEF TypeOK
<1>5. ASSUME NEW a \in answers, a.q.src = MeasClient, a.q.id[2] = client.n
      PROVE  Verdict(a.wire) = IF client.cookie = "good" THEN "Ok" ELSE "Err"
  <2> DEFINE received == parse_nts_packet(a.wire, <<Keys, "s2c">>)
  <2>1. Given(a, now, client)
    BY Zenon DEF ExchangeInv
  <2>2. CASE client.cookie = "good"
    <3>1. ~IsErr(received) /\ received.auth_exts = <<UidExt(client.n)>>
      BY <1>5, <2>1, <2>2, Zenon DEF Given, Genuine
    <3>2. /\ received.auth_exts # <<>>
          /\ received.auth_exts[1].body = [uid |-> client.n]
      <4>1. /\ <<UidExt(client.n)>> # <<>>
            /\ <<UidExt(client.n)>>[1].body = [uid |-> client.n]
        BY ONLY TRUE DEF UidExt, Ext
      <4> QED BY ONLY <3>1, <4>1, Zenon
    <3> QED BY <2>2, <3>1, <3>2, IsErrErr, Zenon DEF Verdict
  <2>3. CASE client.cookie # "good"
    <3>1. received = Err
      BY <1>5, <2>1, <2>3, Zenon DEF Given
    <3> QED BY <2>3, <3>1, IsErrErr, Zenon DEF Verdict
  <2> QED BY <2>2, <2>3, Zenon
<1>6. ClientUnderstandsServer
  BY <1>5, Zenon DEF ClientUnderstandsServer
<1> QED BY <1>3, <1>4, <1>6, Zenon

\* No address is assigned before the first query.
LEMMA AddressInit == Init => AddressInv
BY DEF Init, ServerInit, AddressInv, Overlap, Idle, At

\* Together they are inductive.
LEMMA ExchangeInvariant == Spec => [](ExchangeInv /\ RefreshInv /\ AddressInv)
BY ExchangeInit, RefreshInit, AddressInit, ExchangeNext, RefreshNext, AddressNext, PTL DEF Spec

\* response(): whatever datagrams the other client sends, however they are cut,
\* delayed or duplicated, a listening thread panics on none but one whose first
\* authenticator says it is longer than the whole datagram: the first parser
\* has refused everything else that would make the second one or the writer.
THEOREM PanicsNeedOverlong == Spec => PanicNeedsOverlongAuthenticator
BY ExchangeInvariant, DeadStep, PTL DEF Spec, PanicNeedsOverlongAuthenticator, OnlyOverlongPanics

\* The places of the threads, of the client and of the refresher.
THEOREM ExchangeTypes == Spec => []TypeOK
<1>1. ExchangeInv /\ RefreshInv /\ AddressInv => TypeOK
  BY ExchangeFacts, Zenon
<1> QED BY ExchangeInvariant, <1>1, PTL

\* run_nts_ntp_client: with a cookie the server can open, every answer to the
\* pending query gives the client the time; without one, none does.
THEOREM ClientAlwaysUnderstands == Spec => []ClientUnderstandsServer
<1>1. ExchangeInv /\ RefreshInv /\ AddressInv => ClientUnderstandsServer
  BY ExchangeFacts, Zenon
<1> QED BY ExchangeInvariant, <1>1, PTL

\* CLIENT_ADDR: for any number of threads, another client's query is recorded
\* as the measured client's only after two clients were handled at a time.
THEOREM MisrecordAlwaysNeedsOverlap == Spec => []MisrecordNeedsOverlap
<1>1. ExchangeInv /\ RefreshInv /\ AddressInv => MisrecordNeedsOverlap
  BY ExchangeFacts, Zenon
<1> QED BY ExchangeInvariant, <1>1, PTL

\* run_nts_ntp_client and response() implement the time transfer.
THEOREM ExchangeImplementsTransfer == Spec => ImplementsTransfer
BY ExchangeInvariant, TransferInit, TransferNext, PTL DEF Spec, ImplementsTransfer, Transfer!Spec

\* The offset the client computes is never wrong by more than half the time the
\* exchange took, plus half an era for each timestamp that has wrapped.
THEOREM OffsetNeverFurtherOff == Spec => []OffsetErrorBounded
BY ExchangeImplementsTransfer, OffsetAlwaysBounded, PTL

=============================================================================
