-------------------------- MODULE KeListenerProofs --------------------------
(***************************************************************************)
(* The listener of the NTS-KE server for any number of clients: its        *)
(* inductive invariant, one lemma for each step of the clients, the clock, *)
(* poll(), accept() and a connection's events; what the listener owes each *)
(* client, what takes it down, and when connections expire.                *)
(***************************************************************************)
EXTENDS KeListener, TLAPS

\* What the server has sent on a connection, or has ready for it, against what
\* it still has to read: the hello comes first, the rest last, and each makes
\* one flight due.
SockOK(s, out) ==
  /\ s.flights + out <= 2
  /\ s.flights + out = 2 => s.in = <<>> /\ s.phase = 3
  /\ s.phase = 0 => s.in = <<>> /\ s.flights + out = 0
  /\ \A i \in 1 .. Len(s.in) :
       /\ s.in[i] = "hello" => i = 1 /\ s.flights + out = 0
       /\ s.in[i] = "rest" => i = Len(s.in) /\ s.phase = 3 /\ s.flights + out <= 1

SockInv ==
  /\ \A c \in Clients : SockOK(sock[c], 0)
  /\ \A t \in Live : SockOK(sock[conns[t].client], conns[t].out)

\* The kernel queues a client once, and hands it out once.
BacklogInv ==
  /\ backlog \in Seq(Clients)
  /\ \A i \in 1 .. Len(backlog) :
       sock[backlog[i]].phase > 0 /\ born[backlog[i]] = -1
  /\ \A i, j \in 1 .. Len(backlog) : backlog[i] = backlog[j] => i = j

\* A client has one connection at most, from the moment it is accepted.
LiveInv ==
  /\ \A c \in Clients :
       /\ sock[c].phase = 0 => born[c] = -1
       /\ born[c] = -1 => sock[c].flights = 0
  /\ \A t \in Live : conns[t].state # "Closed" /\ born[conns[t].client] # -1
  /\ \A t, u \in Live : conns[t].client = conns[u].client => t = u

\* A batch has one event for a token; a connection that is ready for writing
\* has not been sent everything.
EventsInv ==
  /\ events \subseteq [token : Tokens \cup {LISTENER_MIO_TOKEN},
                       read : BOOLEAN, write : BOOLEAN]
  /\ \A e, f \in events : e.token = f.token => e = f
  /\ \A e \in events :
       e.write /\ e.token \in Live => sock[conns[e.token].client].flights < 2

Inv ==
  /\ TypeOK
  /\ SockInv
  /\ BacklogInv
  /\ LiveInv
  /\ EventsInv
  /\ PanicNeedsEarlyLeaver

-----------------------------------------------------------------------------
(* Clients.                                                                *)

\* The index of an element before and after the first n were removed.
LEMMA Shift ==
  ASSUME NEW l \in Nat, NEW n \in 0 .. l, NEW m, m = l - n, NEW i \in 1 .. m
  PROVE  /\ n + i \in 1 .. l
         /\ i \in 1 .. l - n
         /\ n < l
         /\ n + i = l => i = m
OBVIOUS

\* What is left of a sequence without its first n elements.
LEMMA Suffix ==
  ASSUME NEW S, NEW q \in Seq(S), NEW n \in 0 .. Len(q)
  PROVE  LET r == SubSeq(q, n + 1, Len(q)) IN
         /\ r \in Seq(S)
         /\ Len(r) = Len(q) - n
         /\ \A i \in 1 .. Len(q) - n : r[i] = q[n + i]
         /\ n = 0 => r = q
<1> DEFINE r == SubSeq(q, n + 1, Len(q))
<1>1. Len(q) \in Nat /\ \A i \in n + 1 .. Len(q) : q[i] \in S
  OBVIOUS
<1>2. /\ r \in Seq(S)
      /\ Len(r) = IF n + 1 <= Len(q) THEN Len(q) - (n + 1) + 1 ELSE 0
      /\ \A i \in 1 .. Len(q) - (n + 1) + 1 : r[i] = q[(n + 1) + i - 1]
  BY <1>1
<1> HIDE DEF r
<1>3. Len(q) - (n + 1) + 1 = Len(q) - n
  BY <1>1
<1>4. Len(r) = Len(q) - n
  <2>1. CASE n = Len(q)
    <3>1. ~(n + 1 <= Len(q)) /\ Len(q) - n = 0
      BY <1>1, <2>1
    <3> QED BY <1>2, <3>1, Zenon
  <2>2. CASE n # Len(q)
    <3>1. n + 1 <= Len(q)
      BY <1>1, <2>2
    <3> QED BY <1>2, <1>3, <3>1, Zenon
  <2> QED BY <2>1, <2>2, Zenon
<1>5. \A i \in 1 .. Len(q) - n : (n + 1) + i - 1 = n + i
  BY <1>1
<1>6. \A i \in 1 .. Len(q) - n : r[i] = q[n + i]
  BY <1>2, <1>3, <1>5, Zenon
<1>7. n = 0 => r = q
  BY <1>1 DEF r
<1> QED BY <1>2, <1>4, <1>6, <1>7, Zenon DEF r

\* A sequence with nothing in it.
LEMMA NothingIn ==
  ASSUME NEW S, NEW q \in Seq(S), Len(q) = 0
  PROVE  q = <<>>
OBVIOUS

\* What one sequence after another holds.
LEMMA Joined ==
  ASSUME NEW S, NEW a \in Seq(S), NEW b \in Seq(S)
  PROVE  /\ a \o b \in Seq(S) /\ Len(a \o b) = Len(a) + Len(b)
         /\ \A i \in 1 .. Len(a) + Len(b) :
              (a \o b)[i] = IF i <= Len(a) THEN a[i] ELSE b[i - Len(a)]
OBVIOUS

\* A client's step, seen from the server: more to read, nothing taken back.
LEMMA SockStep ==
  ASSUME Inv, UNCHANGED <<now, serverVars>>, NEW c \in Clients, NEW s \in Sockets,
         sock' = [sock EXCEPT ![c] = s], s.flights = sock[c].flights,
         s.phase >= sock[c].phase, sock[c].fin => s.fin, sock[c].reset => s.reset,
         \A out \in 0 .. 2 : SockOK(sock[c], out) => SockOK(s, out),
         BacklogInv'
  PROVE  Inv'
<1>1. /\ sock \in [Clients -> Sockets] /\ sock' \in [Clients -> Sockets]
      /\ sock'[c] = s
      /\ \A d \in Clients : d # c => sock'[d] = sock[d]
      /\ \A d \in Clients : sock'[d].flights = sock[d].flights
  BY Zenon DEF Inv, TypeOK
<1>2. Live' = Live /\ \A t \in Live : conns[t] \in Connections
  BY Zenon DEF serverVars, Live, Inv, TypeOK
<1>3. TypeOK'
  BY <1>1, Zenon DEF Inv, TypeOK, serverVars, BacklogInv
<1>4. SockInv'
  <2>1. ASSUME NEW d \in Clients, NEW out \in 0 .. 2, SockOK(sock[d], out)
        PROVE  SockOK(sock'[d], out)
    BY <1>1, <2>1, Zenon
  <2>2. \A d \in Clients : SockOK(sock'[d], 0)
    BY <2>1 DEF Inv, SockInv
  <2>3. \A t \in Live : SockOK(sock'[conns[t].client], conns[t].out)
    BY <1>2, <2>1, Zenon DEF Inv, SockInv, Connections
  <2> QED BY <1>2, <2>2, <2>3, Zenon DEF SockInv, serverVars
<1>5. LiveInv'
  <2>1. \A d \in Clients : sock'[d].phase = 0 => sock[d].phase = 0
    BY <1>1, SMTT(30) DEF Sockets
  <2> QED BY <1>1, <1>2, <2>1 DEF Inv, LiveInv, serverVars
<1>6. EventsInv'
  BY <1>1, <1>2, Zenon DEF Inv, EventsInv, serverVars, Connections
<1>7. PanicNeedsEarlyLeaver'
  BY <1>1, Zenon DEF Inv, PanicNeedsEarlyLeaver, serverVars
<1> QED BY <1>3, <1>4, <1>5, <1>6, <1>7, Zenon DEF Inv

\* One more item to read leaves what is due alone.
LEMMA ArriveOK ==
  ASSUME NEW s \in Sockets, NEW x \in Items, NEW p \in 1 .. 3, s.phase < p,
         x = "hello" => s.phase = 0,
         x = "rest" => p = 3 /\ s.flights >= 1
  PROVE  LET r == Arrive(s, x, p) IN
         /\ r \in Sockets /\ r.flights = s.flights /\ r.phase = p
         /\ r.fin = s.fin /\ r.reset = s.reset
         /\ \A out \in 0 .. 2 : SockOK(s, out) => SockOK(r, out)
<1> DEFINE r == Arrive(s, x, p)
<1>1. /\ s.in \in Seq(Items) /\ s.flights \in 0 .. 2 /\ s.phase \in 0 .. 2
      /\ r.in = Append(s.in, x) /\ r.flights = s.flights /\ r.phase = p
      /\ r.fin = s.fin /\ r.reset = s.reset
  BY DEF Sockets, Arrive
<1>2. /\ r.in \in Seq(Items) /\ Len(s.in) \in Nat /\ Len(r.in) = Len(s.in) + 1
      /\ \A i \in 1 .. Len(s.in) : r.in[i] = s.in[i]
      /\ r.in[Len(s.in) + 1] = x
  BY <1>1
<1>3. r \in Sockets
  <2> DEFINE q == [s EXCEPT !.in = Append(s.in, x)]
  <2>1. q \in Sockets
    BY <1>1, <1>2, Zenon DEF Sockets
  <2> HIDE DEF q
  <2>2. [q EXCEPT !.phase = p] \in Sockets
    BY <2>1 DEF Sockets
  <2> QED BY <2>2, Zenon DEF q, Arrive
<1>4. ASSUME NEW out \in 0 .. 2, SockOK(s, out) PROVE SockOK(r, out)
  <2>1. s.flights + out <= 1 /\ (x = "hello" => s.in = <<>> /\ s.flights + out = 0)
    BY <1>1, <1>4 DEF SockOK
  <2>2. x = "hello" => Len(s.in) = 0
    BY <2>1, Zenon
  <2>3. ASSUME NEW i \in 1 .. Len(r.in)
        PROVE  /\ r.in[i] = "hello" => i = 1 /\ s.flights + out = 0
               /\ r.in[i] = "rest" => i = Len(r.in) /\ p = 3
    <3>1. CASE i \in 1 .. Len(s.in)
      BY <1>1, <1>2, <1>4, <3>1 DEF SockOK
    <3>2. CASE i = Len(s.in) + 1
      BY <1>2, <2>1, <2>2, <3>2
    <3> QED BY <1>2, <3>1, <3>2
  <2> HIDE DEF r
  <2> QED BY <1>1, <2>1, <2>3 DEF SockOK
<1> QED BY <1>1, <1>3, <1>4, Zenon

\* The steps of the clients and of the kernel on their behalf.
LEMMA ClientInv ==
  ASSUME Inv, NEW c \in Clients,
         Connect(c) \/ Send(c) \/ SendBad(c) \/ Close(c) \/ Abort(c)
  PROVE  Inv'
<1>1. /\ sock \in [Clients -> Sockets] /\ sock[c] \in Sockets
      /\ sock[c].phase \in 0 .. 3
      /\ backlog \in Seq(Clients) /\ Len(backlog) \in Nat
      /\ DOMAIN backlog = 1 .. Len(backlog)
      /\ \A i \in 1 .. Len(backlog) : backlog[i] \in Clients
  BY DEF Inv, TypeOK, Sockets
<1>2. ASSUME NEW s \in Sockets, sock' = [sock EXCEPT ![c] = s],
             s.phase >= sock[c].phase, UNCHANGED <<backlog, serverVars>>
      PROVE  BacklogInv'
  <2>1. \A d \in Clients : sock[d].phase > 0 => sock'[d].phase > 0
    BY <1>1, <1>2 DEF Sockets
  <2> QED BY <1>1, <1>2, <2>1, Zenon DEF Inv, BacklogInv, serverVars
<1>3. CASE Connect(c)
  <2> DEFINE s == Arrive(sock[c], "hello", 1)
  <2>1. /\ sock[c].phase = 0 /\ sock' = [sock EXCEPT ![c] = s]
        /\ backlog' = Append(backlog, c) /\ UNCHANGED <<now, serverVars>>
    BY <1>3, Zenon DEF Connect
  <2>2. /\ s \in Sockets /\ s.flights = sock[c].flights /\ s.phase = 1
        /\ s.fin = sock[c].fin /\ s.reset = sock[c].reset
        /\ \A out \in 0 .. 2 : SockOK(sock[c], out) => SockOK(s, out)
    BY <1>1, <2>1, ArriveOK DEF Items
  <2> HIDE DEF s
  <2>3. /\ backlog' \in Seq(Clients) /\ Len(backlog') = Len(backlog) + 1
        /\ \A i \in 1 .. Len(backlog) : backlog'[i] = backlog[i]
        /\ backlog'[Len(backlog) + 1] = c
    BY <1>1, <2>1
  <2>4. \A i \in 1 .. Len(backlog) : backlog[i] # c
    BY <2>1 DEF Inv, BacklogInv
  <2>5. /\ born[c] = -1 /\ sock'[c].phase = 1 /\ born' = born
        /\ \A d \in Clients : d # c => sock'[d] = sock[d]
    BY <1>1, <2>1, <2>2, Zenon DEF Inv, LiveInv, serverVars
  <2>6. BacklogInv'
    BY <1>1, <2>3, <2>4, <2>5 DEF Inv, BacklogInv
  <2>7. s.phase >= sock[c].phase
    BY <2>1, <2>2
  <2>8. (sock[c].fin => s.fin) /\ (sock[c].reset => s.reset)
    BY <2>2, Zenon
  <2> QED BY <2>1, <2>2, <2>6, <2>7, <2>8, SockStep, Zenon
<1>4. ASSUME NEW x \in Items \ {"hello"}, NEW p \in 1 .. 3, sock[c].phase < p,
             x = "rest" => p = 3 /\ sock[c].flights >= 1,
             sock' = [sock EXCEPT ![c] = Arrive(sock[c], x, p)],
             UNCHANGED <<now, backlog, serverVars>>
      PROVE  Inv'
  <2> DEFINE s == Arrive(sock[c], x, p)
  <2>1. /\ s \in Sockets /\ s.flights = sock[c].flights /\ s.phase = p
        /\ s.fin = sock[c].fin /\ s.reset = sock[c].reset
        /\ \A out \in 0 .. 2 : SockOK(sock[c], out) => SockOK(s, out)
    BY <1>1, <1>4, ArriveOK, Zenon
  <2>2. sock' = [sock EXCEPT ![c] = s]
    BY <1>4, Zenon
  <2> HIDE DEF s
  <2>3. s.phase >= sock[c].phase
    BY <1>1, <1>4, <2>1
  <2>4. BacklogInv'
    BY <1>2, <1>4, <2>1, <2>2, <2>3, Zenon
  <2> QED BY <1>4, <2>1, <2>2, <2>3, <2>4, SockStep, Zenon
<1>5. CASE Send(c)
  <2>1. CASE sock[c].phase = 1
    <3>1. sock' = [sock EXCEPT ![c] = Arrive(sock[c], "part", 2)]
      BY <1>5, <2>1 DEF Send
    <3>2. "part" \in Items \ {"hello"} /\ 2 \in 1 .. 3 /\ "part" # "rest"
          /\ sock[c].phase < 2
      BY <2>1 DEF Items
    <3>3. UNCHANGED <<now, backlog, serverVars>>
      BY <1>5, Zenon DEF Send
    <3> QED BY <1>4, <3>1, <3>2, <3>3, Zenon
  <2>2. CASE sock[c].phase = 2
    <3>1. sock' = [sock EXCEPT ![c] = Arrive(sock[c], "rest", 3)]
      BY <1>5, <2>2 DEF Send
    <3>2. "rest" \in Items \ {"hello"} /\ 3 \in 1 .. 3 /\ sock[c].phase < 3
      BY <2>2 DEF Items
    <3>3. sock[c].flights >= 1 /\ UNCHANGED <<now, backlog, serverVars>>
      BY <1>5, Zenon DEF Send
    <3> QED BY <1>4, <3>1, <3>2, <3>3, Zenon
  <2> QED BY <1>5, <2>1, <2>2, Zenon DEF Send
<1>6. CASE SendBad(c)
  <2>1. /\ sock' = [sock EXCEPT ![c] = Arrive(sock[c], "bad", 3)]
        /\ UNCHANGED <<now, backlog, serverVars>>
    BY <1>6, Zenon DEF SendBad
  <2>2. "bad" \in Items \ {"hello"} /\ 3 \in 1 .. 3 /\ sock[c].phase < 3
        /\ "bad" # "rest"
    BY <1>6 DEF Items, SendBad
  <2> QED BY <1>4, <2>1, <2>2, Zenon
<1>7. ASSUME NEW s \in Sockets, sock' = [sock EXCEPT ![c] = s],
             s.flights = sock[c].flights, s.phase = sock[c].phase, s.in = sock[c].in,
             sock[c].fin => s.fin, sock[c].reset => s.reset,
             UNCHANGED <<now, serverVars>>
      PROVE  /\ BacklogInv' => Inv'
             /\ UNCHANGED backlog => Inv'
  <2>1. \A out \in 0 .. 2 : SockOK(sock[c], out) => SockOK(s, out)
    BY <1>7 DEF SockOK
  <2>2. s.phase >= sock[c].phase
    BY <1>1, <1>7
  <2>3. BacklogInv' => Inv'
    BY <1>7, <2>1, <2>2, SockStep, Zenon
  <2>4. UNCHANGED backlog => BacklogInv'
    BY <1>2, <1>7, <2>2, Zenon
  <2> QED BY <2>3, <2>4, Zenon
<1>8. CASE Close(c)
  <2> DEFINE s == [sock[c] EXCEPT !.fin = TRUE]
  <2>1. sock' = [sock EXCEPT ![c] = s] /\ UNCHANGED <<now, backlog, serverVars>>
    BY <1>1, <1>8, Zenon DEF Close
  <2>2. /\ s \in Sockets /\ s.flights = sock[c].flights /\ s.phase = sock[c].phase
        /\ s.in = sock[c].in /\ s.fin /\ s.reset = sock[c].reset
    BY <1>1, Zenon DEF Sockets
  <2> HIDE DEF s
  <2> QED BY <1>7, <2>1, <2>2, Zenon
<1>9. CASE Abort(c)
  <2> DEFINE s == [sock[c] EXCEPT !.reset = TRUE]
  <2>1. sock' = [sock EXCEPT ![c] = s] /\ UNCHANGED <<now, serverVars>>
    BY <1>1, <1>9, Zenon DEF Abort
  <2>2. /\ s \in Sockets /\ s.flights = sock[c].flights /\ s.phase = sock[c].phase
        /\ s.in = sock[c].in /\ s.fin = sock[c].fin /\ s.reset
    BY <1>1, Zenon DEF Sockets
  <2> HIDE DEF s
  <2>3. (BacklogInv' => Inv') /\ (UNCHANGED backlog => Inv')
    BY <1>7, <2>1, <2>2, Zenon
  <2>4. ASSUME NEW k \in 1 .. Len(backlog),
               backlog' = SubSeq(backlog, 1, k - 1) \o SubSeq(backlog, k + 1, Len(backlog))
        PROVE  BacklogInv'
    <3> DEFINE from(i) == IF i < k THEN i ELSE i + 1
    <3>1. /\ backlog' \in Seq(Clients) /\ Len(backlog') = Len(backlog) - 1
          /\ \A i \in 1 .. Len(backlog') : backlog'[i] = backlog[from(i)]
      <4> DEFINE a == SubSeq(backlog, 1, k - 1)
                 b == SubSeq(backlog, k + 1, Len(backlog))
      <4>1. /\ a \in Seq(Clients) /\ Len(a) = k - 1
            /\ \A i \in 1 .. k - 1 : a[i] = backlog[i]
        BY <1>1
      <4>2. /\ b \in Seq(Clients) /\ Len(b) = Len(backlog) - k
            /\ \A i \in 1 .. Len(backlog) - k : b[i] = backlog[k + i]
        <5>1. k \in 0 .. Len(backlog)
          OBVIOUS
        <5> QED BY <1>1, <5>1, Suffix, Zenon
      <4>3. backlog' = a \o b
        BY <2>4, Zenon
      <4> HIDE DEF a, b
      <4>4. /\ a \o b \in Seq(Clients) /\ Len(a \o b) = Len(a) + Len(b)
            /\ \A i \in 1 .. Len(a) + Len(b) :
                 (a \o b)[i] = IF i <= Len(a) THEN a[i] ELSE b[i - Len(a)]
        BY <4>1, <4>2, Joined, Zenon
      <4>5. ASSUME NEW i \in 1 .. Len(backlog')
            PROVE  backlog'[i] = backlog[from(i)]
        <5>1. CASE i < k
          BY <1>1, <4>1, <4>2, <4>3, <4>4, <5>1
        <5>2. CASE i >= k
          <6>1. i - (k - 1) \in 1 .. Len(backlog) - k /\ ~(i <= k - 1)
            BY <1>1, <4>1, <4>2, <4>3, <4>4, <5>2
          <6>2. backlog'[i] = b[i - (k - 1)]
            BY <4>1, <4>2, <4>3, <4>4, <6>1, Zenon
          <6>3. b[i - (k - 1)] = backlog[k + (i - (k - 1))]
            BY <4>2, <6>1, Zenon
          <6>4. k + (i - (k - 1)) = i + 1 /\ from(i) = i + 1
            BY <1>1, <5>2, <6>1
          <6> QED BY <6>2, <6>3, <6>4, Zenon
        <5>3. i < k \/ i >= k
          OBVIOUS
        <5> QED BY <5>1, <5>2, <5>3, Zenon
      <4>6. Len(a) + Len(b) = Len(backlog) - 1
        BY <1>1, <4>1, <4>2
      <4> QED BY <4>3, <4>4, <4>5, <4>6, Zenon
    <3>2. \A i \in 1 .. Len(backlog') : from(i) \in 1 .. Len(backlog)
      BY <1>1, <3>1
    <3>3. \A i, j \in 1 .. Len(backlog') : from(i) = from(j) => i = j
      BY <1>1, <3>1
    <3>4. \A d \in Clients : sock[d].phase > 0 => sock'[d].phase > 0
      BY <1>1, <2>1, <2>2, Zenon
    <3> HIDE DEF from
    <3> QED BY <1>1, <2>1, <3>1, <3>2, <3>3, <3>4 DEF Inv, BacklogInv, serverVars
  <2> QED BY <1>1, <1>9, <2>3, <2>4, Zenon DEF Abort
<1> QED BY <1>3, <1>5, <1>6, <1>8, <1>9, Zenon

-----------------------------------------------------------------------------
(* The listener.                                                           *)

\* A step after which every connection in the table is an old one.
LEMMA ShrinkStep ==
  ASSUME Inv, TypeOK', BacklogInv', PanicNeedsEarlyLeaver', born' = born,
         events' \subseteq events,
         \A t \in Tokens : conns'[t] = None \/ conns'[t] = conns[t],
         \A c \in Clients : /\ sock'[c].flights = sock[c].flights
                            /\ sock'[c].in = sock[c].in
                            /\ sock'[c].phase = sock[c].phase
  PROVE  Inv'
<1>1. /\ Live' \subseteq Live
      /\ \A t \in Live' : conns'[t] = conns[t] /\ conns[t].client \in Clients
  BY Zenon DEF Live, Inv, TypeOK, Connections
<1>2. \A out : \A c \in Clients : SockOK(sock[c], out) => SockOK(sock'[c], out)
  BY DEF SockOK
<1>3. SockInv'
  BY <1>1, <1>2, Zenon DEF Inv, SockInv
<1>4. LiveInv'
  BY <1>1 DEF Inv, LiveInv
<1>5. EventsInv'
  BY <1>1 DEF Inv, EventsInv
<1> QED BY <1>3, <1>4, <1>5, Zenon DEF Inv

\* What close_expired_connections leaves behind.
LEMMA ExpireType ==
  ASSUME Inv
  PROVE  /\ Unexpired \in [Tokens -> Connections \cup {None}]
         /\ \A t \in Tokens : Unexpired[t] = None \/ Unexpired[t] = conns[t]
         /\ EndedByTimer \in [Clients -> {"no", "timer", "self", "register"}]
BY Zenon DEF Inv, TypeOK, Unexpired, EndedByTimer

\* The steps that accept no connection and serve none.
LEMMA IdleInv ==
  ASSUME Inv,
         \/ Tick
         \/ \E e \in events : \/ ExpiryDies(e) \/ AcceptDies(e) \/ RegisterDies(e)
                              \/ AcceptWouldBlock(e) \/ Stale(e)
  PROVE  Inv'
<1>1. CASE Tick
  <2>1. TypeOK'
    BY <1>1, ListenerAssumption DEF Tick, Inv, TypeOK, clientVars, serverVars
  <2>2. BacklogInv' /\ PanicNeedsEarlyLeaver'
    BY <1>1, Zenon DEF Tick, Inv, BacklogInv, PanicNeedsEarlyLeaver, clientVars, serverVars
  <2> QED BY <1>1, <2>1, <2>2, ShrinkStep, Zenon DEF Tick, clientVars, serverVars
<1>2. ASSUME NEW e \in events, Die, events' = events \ {e},
             \E c \in Clients : sock[c].reset \/ (sock[c].fin /\ sock[c].flights < 2)
      PROVE  Inv'
  <2>1. TypeOK'
    BY <1>2, Zenon DEF Die, Inv, TypeOK, clientVars
  <2>2. BacklogInv' /\ PanicNeedsEarlyLeaver'
    BY <1>2, Zenon DEF Die, Inv, BacklogInv, PanicNeedsEarlyLeaver, clientVars
  <2> QED BY <1>2, <2>1, <2>2, ShrinkStep, Zenon DEF Die, clientVars
<1>3. ASSUME NEW e \in events, ExpiryDies(e) PROVE Inv'
  <2>1. PICK t \in Live : sock[conns[t].client].reset
    BY <1>3, Zenon DEF ExpiryDies, ExpiryPanics, ShutdownPanics, Expired
  <2>2. conns[t].client \in Clients
    BY Zenon DEF Inv, TypeOK, Live, Connections
  <2> QED BY <1>2, <1>3, <2>1, <2>2, Zenon DEF ExpiryDies, TakeEvent
<1>4. ASSUME NEW e \in events, AcceptDies(e) PROVE Inv'
  <2>1. Head(backlog) \in Clients
    BY <1>4 DEF AcceptDies, Inv, TypeOK
  <2> QED BY <1>2, <1>4, <2>1, Zenon DEF AcceptDies, TakeListenerEvent, TakeEvent
<1>5. ASSUME NEW e \in events, running, events' = events \ {e}, OnlyExpire,
             UNCHANGED <<clientVars, registered, errors>>
      PROVE  Inv'
  <2>1. TypeOK'
    BY <1>5, ExpireType, Zenon DEF OnlyExpire, Inv, TypeOK, clientVars
  <2>2. BacklogInv' /\ PanicNeedsEarlyLeaver'
    BY <1>5, Zenon DEF OnlyExpire, Inv, BacklogInv, PanicNeedsEarlyLeaver, clientVars
  <2> QED BY <1>5, <2>1, <2>2, ShrinkStep, ExpireType, Zenon DEF OnlyExpire, clientVars
<1>6. ASSUME NEW e \in events, AcceptWouldBlock(e) \/ Stale(e) PROVE Inv'
  BY <1>5, <1>6, Zenon DEF AcceptWouldBlock, Stale, TakeListenerEvent, TakeConnEvent, TakeEvent
<1>7. ASSUME NEW e \in events, RegisterDies(e) PROVE Inv'
  <2>1. Head(backlog) \in Clients
    BY <1>7 DEF RegisterDies, Inv, TypeOK
  <2>2. errors' \in 0 .. MaxErrors
    BY <1>7, ListenerAssumption DEF RegisterDies, Inv, TypeOK
  <2>3. /\ ended' \in [Clients -> {"no", "timer", "self", "register"}]
        /\ ended'[Head(backlog)] = "register"
    BY <1>7, <2>1, Zenon DEF RegisterDies, Inv, TypeOK
  <2>4. TypeOK'
    BY <1>7, <2>2, <2>3, Zenon DEF RegisterDies, Inv, TypeOK, clientVars
  <2>5. BacklogInv' /\ PanicNeedsEarlyLeaver'
    BY <1>7, <2>1, <2>3, Zenon DEF RegisterDies, Inv, BacklogInv, PanicNeedsEarlyLeaver, clientVars
  <2> QED BY <1>7, <2>4, <2>5, ShrinkStep, Zenon DEF RegisterDies, TakeListenerEvent, TakeEvent,
        clientVars
<1> QED BY <1>1, <1>3, <1>4, <1>6, <1>7, Zenon

\* Binding the address anew resets the connections that were still queued.
LEMMA AcceptFailsInv ==
  ASSUME Inv, NEW e \in events, AcceptFails(e)
  PROVE  Inv'
<1>1. /\ running /\ events' = events \ {e} /\ errors < MaxErrors
      /\ errors' = errors + 1 /\ OnlyExpire
  BY Zenon DEF AcceptFails, TakeListenerEvent, TakeEvent
<1>2. /\ errors' \in 0 .. MaxErrors /\ sock \in [Clients -> Sockets]
  BY <1>1, ListenerAssumption DEF Inv, TypeOK
<1>3. /\ sock' \in [Clients -> Sockets] /\ backlog' \in Seq(Clients)
      /\ registered' \in BOOLEAN
      /\ \A c \in Clients : /\ sock'[c].flights = sock[c].flights
                            /\ sock'[c].in = sock[c].in
                            /\ sock'[c].phase = sock[c].phase
      /\ backlog' = backlog \/ backlog' = <<>>
  <2>1. CASE UNCHANGED <<clientVars, registered>>
    BY <2>1, Zenon DEF clientVars, Inv, TypeOK
  <2>2. CASE /\ backlog' = <<>> /\ registered' \in BOOLEAN
             /\ sock' = [c \in Clients |->
                  [sock[c] EXCEPT !.reset =
                     @ \/ \E i \in DOMAIN backlog : backlog[i] = c]]
    <3>1. ASSUME NEW c \in Clients, NEW b \in BOOLEAN, NEW s \in Sockets
          PROVE  /\ [s EXCEPT !.reset = b] \in Sockets
                 /\ [s EXCEPT !.reset = b].flights = s.flights
                 /\ [s EXCEPT !.reset = b].in = s.in
                 /\ [s EXCEPT !.reset = b].phase = s.phase
      BY Zenon DEF Sockets
    <3>2. ASSUME NEW c \in Clients
          PROVE  /\ sock'[c] \in Sockets /\ sock'[c].flights = sock[c].flights
                 /\ sock'[c].in = sock[c].in /\ sock'[c].phase = sock[c].phase
      <4>1. PICK b \in BOOLEAN : sock'[c] = [sock[c] EXCEPT !.reset = b]
        BY <2>2, Zenon
      <4> QED BY <1>2, <3>1, <4>1
    <3> QED BY <2>2, <3>2
  <2> QED BY <2>1, <2>2, Zenon DEF AcceptFails
<1>4. TypeOK'
  BY <1>1, <1>2, <1>3, ExpireType, Zenon DEF OnlyExpire, Inv, TypeOK
<1>5. BacklogInv'
  <2>1. CASE backlog' = <<>>
    BY <1>3, <2>1 DEF BacklogInv
  <2>2. CASE backlog' = backlog
    <3>1. \A i \in 1 .. Len(backlog) : backlog[i] \in Clients
      BY DEF Inv, TypeOK
    <3> QED BY <1>1, <1>3, <2>2, <3>1, ZenonT(60) DEF OnlyExpire, Inv, BacklogInv
  <2> QED BY <1>3, <2>1, <2>2, Zenon
<1>6. PanicNeedsEarlyLeaver'
  BY <1>1, Zenon DEF OnlyExpire, PanicNeedsEarlyLeaver
<1> QED BY <1>1, <1>3, <1>4, <1>5, <1>6, ShrinkStep, ExpireType, Zenon DEF OnlyExpire

\* Who has something to write has not sent everything.
LEMMA FlightDue ==
  ASSUME NEW s \in Sockets, NEW out \in 0 .. 2, out > 0, SockOK(s, out)
  PROVE  s.flights < 2
BY DEF SockOK, Sockets

\* A batch is made of what is ready, token by token.
LEMMA PollInv ==
  ASSUME Inv, Poll
  PROVE  Inv'
<1>1. /\ events' = ConnEvents \cup ListenerEvents
      /\ UNCHANGED <<now, clientVars, conns, deadlines, nextToken, registered,
                     errors, running, clientAddr, recorded, born, ended, accepted>>
  BY Zenon DEF Poll
<1>2. /\ TypeOK' /\ SockInv' /\ BacklogInv' /\ LiveInv' /\ PanicNeedsEarlyLeaver'
      /\ Live' = Live
  BY <1>1, Zenon DEF Inv, TypeOK, SockInv, BacklogInv, LiveInv, PanicNeedsEarlyLeaver, Live,
              clientVars
<1>3. LISTENER_MIO_TOKEN \notin Tokens /\ Live \subseteq Tokens
  BY ListenerAssumption DEF LISTENER_MIO_TOKEN, Tokens, CONNECTION_MIO_TOKEN_ID_MIN, Live
<1>4. ASSUME NEW e \in events'
      PROVE  /\ e \in [token : Tokens \cup {LISTENER_MIO_TOKEN},
                       read : BOOLEAN, write : BOOLEAN]
             /\ \/ /\ e.token = LISTENER_MIO_TOKEN /\ e.read = TRUE /\ e.write = FALSE
                \/ /\ e.token \in Live
                   /\ e.read = Readable(sock[conns[e.token].client])
                   /\ e.write = (conns[e.token].out > 0)
  BY <1>1, <1>3, Zenon DEF ConnEvents, ListenerEvents
<1>5. \A e, f \in events' : e.token = f.token => e = f
  <2> SUFFICES ASSUME NEW e \in events', NEW f \in events', e.token = f.token
               PROVE  e = f
    BY Zenon
  <2>1. e.read = f.read /\ e.write = f.write
    BY <1>3, <1>4, Zenon
  <2>2. /\ e \in [token : Tokens \cup {LISTENER_MIO_TOKEN}, read : BOOLEAN, write : BOOLEAN]
        /\ f \in [token : Tokens \cup {LISTENER_MIO_TOKEN}, read : BOOLEAN, write : BOOLEAN]
    BY <1>4, Zenon
  <2> QED BY ONLY <2>1, <2>2, e.token = f.token
<1>6. ASSUME NEW e \in events', e.write, e.token \in Live
      PROVE  sock[conns[e.token].client].flights < 2
  <2>1. conns[e.token].out > 0
    BY <1>3, <1>4, <1>6, Zenon
  <2>2. /\ SockOK(sock[conns[e.token].client], conns[e.token].out)
        /\ conns[e.token] \in Connections /\ sock[conns[e.token].client] \in Sockets
    <3>1. conns[e.token] \in Connections
      BY <1>6, Zenon DEF Inv, TypeOK, Live
    <3>2. sock[conns[e.token].client] \in Sockets
      BY <3>1, Zenon DEF Inv, TypeOK, Connections
    <3> QED BY <1>6, <3>1, <3>2, Zenon DEF Inv, SockInv
  <2>3. conns[e.token].out \in 0 .. 2
    BY <2>2, Zenon DEF Connections
  <2> QED BY ONLY <2>1, <2>2, <2>3, FlightDue, Zenon
<1>7. EventsInv'
  BY <1>1, <1>2, <1>4, <1>5, <1>6, Zenon DEF EventsInv, clientVars
<1> QED BY <1>2, <1>7, Zenon DEF Inv

\* The client that accept() returns has waited in the queue, once.
LEMMA NextClient ==
  ASSUME Inv, backlog # <<>>
  PROVE  /\ Head(backlog) \in Clients
         /\ born[Head(backlog)] = -1
         /\ sock[Head(backlog)].flights = 0
         /\ sock[Head(backlog)].phase > 0
         /\ \A t \in Live : conns[t].client # Head(backlog)
         /\ Tail(backlog) \in Seq(Clients)
         /\ Len(Tail(backlog)) = Len(backlog) - 1
         /\ \A i \in 1 .. Len(Tail(backlog)) :
              Tail(backlog)[i] = backlog[i + 1] /\ Tail(backlog)[i] # Head(backlog)
<1>1. /\ backlog \in Seq(Clients) /\ Len(backlog) \in Nat \ {0}
      /\ Head(backlog) = backlog[1]
  BY DEF Inv, TypeOK
<1>2. /\ Head(backlog) \in Clients /\ Tail(backlog) \in Seq(Clients)
      /\ Len(Tail(backlog)) = Len(backlog) - 1
      /\ \A i \in 1 .. Len(Tail(backlog)) : Tail(backlog)[i] = backlog[i + 1]
  BY <1>1
<1>3. /\ sock[backlog[1]].phase > 0 /\ born[backlog[1]] = -1
      /\ \A i, j \in 1 .. Len(backlog) : backlog[i] = backlog[j] => i = j
  BY <1>1 DEF Inv, BacklogInv
<1>4. \A i \in 1 .. Len(Tail(backlog)) : backlog[i + 1] # backlog[1]
  BY <1>1, <1>2, <1>3
<1>5. \A t \in Live : conns[t].client # backlog[1]
  BY <1>3, Zenon DEF Inv, LiveInv
<1> QED BY <1>1, <1>2, <1>3, <1>4, <1>5, Zenon DEF Inv, LiveInv

\* A new connection owes its client nothing and is in no batch.
LEMMA AcceptInv ==
  ASSUME Inv, NEW e \in events, Accept(e)
  PROVE  Inv'
<1> DEFINE c == Head(backlog)
           conn == [client |-> c, state |-> "Connected", out |-> 0]
<1>1. /\ running /\ events' = events \ {e} /\ backlog # <<>>
      /\ clientAddr' = c /\ conns' = [Unexpired EXCEPT ![nextToken] = conn]
      /\ born' = [born EXCEPT ![c] = now] /\ ended' = EndedByTimer
      /\ deadlines' = (deadlines \ Overdue) \cup {NewDeadline}
      /\ nextToken' = increment_next_conn_token_id(nextToken)
      /\ backlog' = Tail(backlog) /\ accepted' = accepted + 1
      /\ UNCHANGED <<now, sock, registered, errors, running, recorded>>
  BY Zenon DEF Accept, TakeListenerEvent, TakeEvent
<1>2. /\ c \in Clients /\ conn \in Connections /\ now \in Nat /\ nextToken \in Tokens
      /\ conn.client = c /\ conn.out = 0 /\ conn.state = "Connected"
      /\ sock \in [Clients -> Sockets] /\ born \in [Clients -> Int]
  BY <1>1, NextClient, ListenerAssumption DEF Connections, ConnStates, Inv, TypeOK
<1>3. TypeOK'
  <2>1. conns' \in [Tokens -> Connections \cup {None}]
    BY <1>1, <1>2, ExpireType, Zenon
  <2>2. \A d \in deadlines' : d.at \in Nat /\ d.token \in Tokens
    BY <1>1, <1>2, ListenerAssumption, SMTT(30) DEF Inv, TypeOK, NewDeadline
  <2>3. nextToken' \in Tokens
    BY <1>1, <1>2, ListenerAssumption
       DEF increment_next_conn_token_id, Tokens, CONNECTION_MIO_TOKEN_ID_MIN
  <2>4. backlog' \in Seq(Clients) /\ born' \in [Clients -> Int]
    BY <1>1, <1>2, NextClient
  <2> HIDE DEF c, conn
  <2> QED BY <1>1, <1>2, <2>1, <2>2, <2>3, <2>4, ExpireType DEF Inv, TypeOK
<1>4. /\ born'[c] = now /\ \A d \in Clients : d # c => born'[d] = born[d]
      /\ \A t \in Live' : \/ t = nextToken /\ conns'[t] = conn
                          \/ t # nextToken /\ t \in Live /\ conns'[t] = conns[t]
      /\ nextToken \in Tokens
  <2> HIDE DEF conn, c
  <2> QED BY <1>1, <1>2, ExpireType, Zenon DEF Live
<1>5. /\ \A t \in Live : conns[t].client # c
      /\ sock[c].flights = 0 /\ sock[c].phase > 0
      /\ \A t \in Live : conns[t].client \in Clients
  BY <1>1, NextClient, Zenon DEF Inv, TypeOK, Live, Connections
<1> HIDE DEF conn
<1>6. SockInv'
  BY <1>1, <1>2, <1>4, Zenon DEF Inv, SockInv
<1>7. BacklogInv'
  <2>1. \A i \in 1 .. Len(backlog') :
          /\ backlog'[i] = backlog[i + 1] /\ backlog'[i] # c
          /\ i + 1 \in 1 .. Len(backlog) /\ backlog'[i] \in Clients
    <3>1. /\ Tail(backlog) \in Seq(Clients) /\ Len(backlog) \in Nat
          /\ Len(Tail(backlog)) = Len(backlog) - 1
      BY <1>1, NextClient DEF Inv, TypeOK
    <3>2. \A i \in 1 .. Len(Tail(backlog)) : Tail(backlog)[i] \in Clients
      BY <3>1
    <3>3. \A i \in 1 .. Len(Tail(backlog)) : i + 1 \in 1 .. Len(backlog)
      BY <3>1
    <3> QED BY <1>1, <3>2, <3>3, NextClient, Zenon
  <2>2. \A i \in 1 .. Len(backlog') :
          sock[backlog'[i]].phase > 0 /\ born'[backlog'[i]] = -1
    BY <1>4, <2>1 DEF Inv, BacklogInv
  <2>3. ASSUME NEW i \in 1 .. Len(backlog'), NEW j \in 1 .. Len(backlog'),
               backlog'[i] = backlog'[j]
        PROVE  i = j
    <3>1. /\ i + 1 \in 1 .. Len(backlog) /\ j + 1 \in 1 .. Len(backlog)
          /\ backlog[i + 1] = backlog[j + 1]
      BY <2>1, <2>3, Zenon
    <3>2. \A k, l \in 1 .. Len(backlog) : backlog[k] = backlog[l] => k = l
      BY Zenon DEF Inv, BacklogInv
    <3>3. i + 1 = j + 1
      BY ONLY <3>1, <3>2, Zenon
    <3> QED BY <3>3
  <2> QED BY <1>1, <2>2, <2>3, NextClient, Zenon DEF BacklogInv
<1>8. LiveInv'
  <2>1. now # -1
    <3>1. now \in Nat
      BY <1>2, Zenon
    <3> QED BY ONLY <3>1
  <2>2. ASSUME NEW d \in Clients
        PROVE  /\ sock'[d].phase = 0 => born'[d] = -1
               /\ born'[d] = -1 => sock'[d].flights = 0
    <3>1. d # c => /\ sock[d].phase = 0 => born[d] = -1
                   /\ born[d] = -1 => sock[d].flights = 0
      BY Zenon DEF Inv, LiveInv
    <3> HIDE DEF c
    <3> QED BY ONLY <1>1, <1>4, <1>5, <2>1, <3>1, d \in Clients
  <2>3. \A t \in Live' : conns'[t].state # "Closed" /\ born'[conns'[t].client] # -1
    BY <1>2, <1>4, <1>5, <2>1 DEF Inv, LiveInv
  <2>4. \A t, u \in Live' : conns'[t].client = conns'[u].client => t = u
    BY <1>2, <1>4, <1>5 DEF Inv, LiveInv
  <2> QED BY <2>2, <2>3, <2>4, Zenon DEF LiveInv
<1>9. EventsInv'
  <2>1. ASSUME NEW f \in events', f.write, f.token \in Live'
        PROVE  sock'[conns'[f.token].client].flights < 2
    <3>1. CASE conns'[f.token] = conn
      BY <1>1, <1>2, <1>5, <3>1
    <3>2. CASE f.token \in Live /\ conns'[f.token] = conns[f.token]
      BY <1>1, <2>1, <3>2, Zenon DEF Inv, EventsInv
    <3> QED BY <1>4, <2>1, <3>1, <3>2, Zenon
  <2>2. events' \subseteq events
    BY <1>1, Zenon
  <2> QED BY <2>1, <2>2, Zenon DEF Inv, EventsInv
<1>10. PanicNeedsEarlyLeaver'
  BY <1>1, Zenon DEF PanicNeedsEarlyLeaver
<1> QED BY <1>3, <1>6, <1>7, <1>8, <1>9, <1>10, Zenon DEF Inv

-----------------------------------------------------------------------------
(* A connection is served.                                                 *)

\* SockOK counts flights, wherever they are.
LEMMA SockOKSum ==
  ASSUME NEW s \in Sockets, NEW r \in Sockets, NEW m \in 0 .. 2, NEW n \in 0 .. 2,
         SockOK(s, m), r.in = s.in, r.phase = s.phase,
         r.flights + n <= s.flights + m
  PROVE  SockOK(r, n)
<1>1. s.flights \in 0 .. 2 /\ r.flights \in 0 .. 2
  BY Zenon DEF Sockets
<1> QED BY <1>1 DEF SockOK

\* What was read is the beginning of what had arrived, or an error.
LEMMA ReadsAre ==
  ASSUME NEW s \in Sockets, NEW data \in Reads(s)
  PROVE  \/ data = ReadError
         \/ \E n \in 0 .. Len(s.in) :
              /\ n > 0 \/ s.in = <<>>
              /\ data # ReadError /\ Len(data) = n /\ DOMAIN data = 1 .. n
              /\ \A i \in 1 .. n : data[i] = s.in[i]
<1>1. s.in \in Seq(Items) /\ Len(s.in) \in Nat
      /\ \A i \in 1 .. Len(s.in) : s.in[i] \in Items
  BY DEF Sockets
<1>2. SUFFICES ASSUME data # ReadError
               PROVE  \E n \in 0 .. Len(s.in) :
                        /\ n > 0 \/ s.in = <<>>
                        /\ Len(data) = n /\ DOMAIN data = 1 .. n
                        /\ \A i \in 1 .. n : data[i] = s.in[i]
  BY Zenon
<1>3. PICK n \in 0 .. Len(s.in) : (n > 0 \/ s.in = <<>>) /\ data = SubSeq(s.in, 1, n)
  BY <1>2, Zenon DEF Reads
<1>4. /\ data \in Seq(Items) /\ Len(data) = n
      /\ \A i \in 1 .. n : data[i] = s.in[i]
  BY <1>1, <1>3
<1> QED BY <1>3, <1>4

\* read_ready makes a flight due for the hello and one for the rest.
LEMMA ReadReadyOK ==
  ASSUME NEW s \in Sockets, NEW conn \in Connections, SockOK(s, conn.out),
         NEW data \in Reads(s), NEW r \in Seq(Items),
         r = SubSeq(s.in, (IF data # ReadError THEN Len(data) ELSE 0) + 1, Len(s.in))
  PROVE  /\ ReadReady(conn, data) \in Connections
         /\ ReadReady(conn, data).client = conn.client
         /\ \A u \in Sockets :
              u.in = r /\ u.flights = s.flights /\ u.phase = s.phase
                => SockOK(u, ReadReady(conn, data).out)
<1> DEFINE has(x) == \E i \in DOMAIN data : data[i] = x
           closes == data = <<>> \/ has("error") \/ has("bad")
           answers == ~closes /\ Answered(conn, data)
           new == conn.out + (IF has("hello") THEN 1 ELSE 0) + (IF answers THEN 1 ELSE 0)
<1>1. /\ s.in \in Seq(Items) /\ Len(s.in) \in Nat
      /\ \A i \in 1 .. Len(s.in) : s.in[i] \in Items
      /\ s.flights \in 0 .. 2 /\ s.phase \in 0 .. 3 /\ conn.out \in 0 .. 2
  BY DEF Sockets, Connections
<1>2. /\ new \in 0 .. 2
      /\ \A u \in Sockets :
           u.in = r /\ u.flights = s.flights /\ u.phase = s.phase => SockOK(u, new)
  <2>1. CASE data = ReadError
    <3>1. ~has("hello") /\ closes
      BY <2>1 DEF ReadError
    <3>2. new = conn.out
      BY <1>1, <3>1
    <3>3. r = s.in
      BY <1>1, <2>1
    <3> HIDE DEF new
    <3> QED BY <1>1, <3>2, <3>3, Zenon DEF SockOK
  <2>2. ASSUME NEW n \in 0 .. Len(s.in), n > 0 \/ s.in = <<>>, data # ReadError,
               Len(data) = n, DOMAIN data = 1 .. n,
               \A i \in 1 .. n : data[i] = s.in[i]
        PROVE  /\ new \in 0 .. 2
               /\ \A u \in Sockets :
                    u.in = r /\ u.flights = s.flights /\ u.phase = s.phase
                      => SockOK(u, new)
    <3>1. /\ Len(r) = Len(s.in) - n
          /\ \A i \in 1 .. Len(s.in) - n : r[i] = s.in[n + i]
      BY <1>1, <2>2, Suffix
    <3>2. has("hello") => s.flights + conn.out = 0
      <4> SUFFICES ASSUME has("hello")
                   PROVE  s.flights + conn.out = 0
        BY Zenon
      <4>1. PICK i \in 1 .. n : s.in[i] = "hello"
        BY <2>2, Zenon
      <4>2. i \in 1 .. Len(s.in)
        BY <1>1
      <4> QED BY <4>1, <4>2, Zenon DEF SockOK
    <3>3. answers => s.flights + conn.out <= 1 /\ s.phase = 3 /\ n = Len(s.in)
      <4> SUFFICES ASSUME answers
                   PROVE  s.flights + conn.out <= 1 /\ s.phase = 3 /\ n = Len(s.in)
        BY Zenon
      <4>1. PICK i \in 1 .. n : s.in[i] = "rest"
        BY <2>2, Zenon DEF Answered
      <4>2. i \in 1 .. Len(s.in)
        BY <1>1
      <4>3. i = Len(s.in) /\ s.phase = 3 /\ s.flights + conn.out <= 1
        BY <4>1, <4>2, Zenon DEF SockOK
      <4> QED BY <1>1, <4>1, <4>3
    <3>4. /\ s.flights + conn.out <= 2
          /\ s.flights + conn.out = 2 => s.in = <<>> /\ s.phase = 3
          /\ s.phase = 0 => s.in = <<>> /\ s.flights + conn.out = 0
      BY Zenon DEF SockOK
    <3>5. /\ new \in Nat
          /\ ~answers => /\ new <= conn.out + 1
                         /\ ~has("hello") => new = conn.out
          /\ answers => /\ new <= conn.out + 2
                        /\ ~has("hello") => new = conn.out + 1
      BY <1>1
    <3>6. s.in = <<>> => ~has("hello") /\ n = 0 /\ n = Len(s.in)
      BY <1>1, <2>2
    <3> HIDE DEF new, answers, has
    <3>7. /\ s.flights + new <= 2 /\ new \in 0 .. 2
          /\ s.flights + new = 2 => n = Len(s.in) /\ s.phase = 3
          /\ s.phase = 0 => n = Len(s.in) /\ s.flights + new = 0
      BY <1>1, <3>2, <3>3, <3>4, <3>5, <3>6
    <3>8. n = Len(s.in) => r = <<>>
      <4>1. n = Len(s.in) => Len(r) = 0
        BY <1>1, <3>1
      <4> QED BY <4>1, NothingIn, Zenon
    <3>9. ASSUME NEW i \in 1 .. Len(r)
          PROVE  /\ r[i] # "hello"
                 /\ r[i] = "rest" => i = Len(r) /\ s.phase = 3 /\ s.flights + new <= 1
      <4>1. /\ n + i \in 1 .. Len(s.in) /\ i \in 1 .. Len(s.in) - n /\ n < Len(s.in)
            /\ n + i = Len(s.in) => i = Len(r)
        <5> DEFINE l == Len(s.in)
                   m == Len(r)
        <5>1. l \in Nat /\ n \in 0 .. l /\ m = l - n /\ i \in 1 .. m
          BY <1>1, <3>1, Zenon
        <5> HIDE DEF l, m
        <5>2. n + i \in 1 .. l /\ i \in 1 .. l - n /\ n < l /\ (n + i = l => i = m)
          BY <5>1, Shift, Zenon
        <5> QED BY <5>2, Zenon DEF l, m
      <4>2. n > 0 /\ n + i # 1 /\ r[i] = s.in[n + i]
        BY <1>1, <2>2, <3>1, <4>1
      <4>3. /\ s.in[n + i] = "hello" => n + i = 1
            /\ s.in[n + i] = "rest" =>
                 n + i = Len(s.in) /\ s.phase = 3 /\ s.flights + conn.out <= 1
        BY <4>1, Zenon DEF SockOK
      <4>4. s.flights + conn.out <= 1 => s.flights + new <= 1
        BY <1>1, <3>2, <3>3, <3>5, <4>1
      <4> QED BY <4>1, <4>2, <4>3, <4>4, Zenon
    <3> QED BY <3>7, <3>8, <3>9, ZenonT(60) DEF SockOK
  <2> QED BY <2>1, <2>2, ReadsAre, Zenon
<1>3. /\ ReadReady(conn, data) \in Connections
      /\ ReadReady(conn, data).client = conn.client
      /\ ReadReady(conn, data).out = new
  <2> DEFINE to(st, out) == [conn EXCEPT !.state = st, !.out = out]
  <2>1. PICK state \in ConnStates : ReadReady(conn, data) = to(state, new)
    BY Zenon DEF ReadReady, Connections, ConnStates
  <2>2. ASSUME NEW st \in ConnStates, NEW out \in 0 .. 2
        PROVE  /\ to(st, out) \in Connections
               /\ to(st, out).client = conn.client /\ to(st, out).out = out
    BY Zenon DEF Connections
  <2>3. new \in 0 .. 2
    BY <1>2, Zenon
  <2> HIDE DEF new, to
  <2> QED BY <2>1, <2>2, <2>3, Zenon
<1> QED BY <1>2, <1>3, Zenon

\* The socket of a connection that was served.
LEMMA ServedOK ==
  ASSUME NEW s \in Sockets, NEW n \in 0 .. Len(s.in), NEW k \in 0 .. 2,
         s.flights + k <= 2
  PROVE  LET u == Served(s, n, k) IN
         /\ u \in Sockets
         /\ u.in = SubSeq(s.in, n + 1, Len(s.in))
         /\ u.flights = s.flights + k
         /\ u.phase = s.phase
<1> DEFINE r == SubSeq(s.in, n + 1, Len(s.in))
           f == s.flights + k
<1>1. r \in Seq(Items)
  <2>1. s.in \in Seq(Items)
    BY Zenon DEF Sockets
  <2> QED BY <2>1, Suffix, Zenon
<1>2. f \in 0 .. 2
  BY DEF Sockets
<1>3. Served(s, n, k) = [s EXCEPT !.in = r, !.flights = f]
  BY Zenon DEF Served
<1> HIDE DEF r, f
<1> DEFINE v == [s EXCEPT !.in = r]
<1>4. v \in Sockets /\ v.in = r /\ v.phase = s.phase
  BY <1>1, Zenon DEF Sockets
<1>5. Served(s, n, k) = [v EXCEPT !.flights = f]
  BY <1>3, Zenon DEF Sockets
<1> HIDE DEF v
<1>6. /\ [v EXCEPT !.flights = f] \in Sockets
      /\ [v EXCEPT !.flights = f].in = v.in
      /\ [v EXCEPT !.flights = f].flights = f
      /\ [v EXCEPT !.flights = f].phase = v.phase
  BY <1>2, <1>4, Zenon DEF Sockets
<1> QED BY <1>4, <1>5, <1>6, Zenon DEF r, f

\* Serving one connection, seen from all the others.
LEMMA ServeStep ==
  ASSUME Inv, TypeOK', running, running' = running, born' = born,
         backlog' = backlog, NEW e \in events, events' = events \ {e},
         NEW t \in Live, e.token = t, NEW u \in Sockets, NEW last,
         conns' = [Unexpired EXCEPT ![t] = last],
         sock' = [sock EXCEPT ![conns[t].client] = u],
         u.phase = sock[conns[t].client].phase,
         SockOK(u, 0),
         last # None => /\ last.client = conns[t].client
                        /\ last.state # "Closed"
                        /\ SockOK(u, last.out)
  PROVE  Inv'
<1> DEFINE c == conns[t].client
<1>1. /\ c \in Clients /\ t \in Tokens /\ conns[t] \in Connections
      /\ \A v \in Live : conns[v].client \in Clients
  BY Zenon DEF Inv, TypeOK, Live, Connections
<1>2. sock'[c] = u /\ \A d \in Clients : d # c => sock'[d] = sock[d]
  BY <1>1, Zenon DEF Inv, TypeOK
<1>3. conns'[t] = last /\ \A v \in Tokens : v # t => conns'[v] = None \/ conns'[v] = conns[v]
  BY <1>1, ExpireType, Zenon
<1>4. /\ Live' \subseteq Live
      /\ t \in Live' => last # None
      /\ \A v \in Live' : conns'[v].client = conns[v].client
      /\ \A v \in Live' : v # t => conns'[v] = conns[v] /\ conns[v].client # c
  <2>1. Live' \subseteq Live /\ (t \in Live' => last # None)
    BY <1>3, Zenon DEF Live
  <2>2. \A v \in Live' : v # t => conns'[v] = conns[v]
    BY <1>3, Zenon DEF Live
  <2> QED BY <1>3, <2>1, <2>2, Zenon DEF Inv, LiveInv
<1>5. SockInv'
  <2>1. \A d \in Clients : SockOK(sock'[d], 0)
    BY <1>2, Zenon DEF Inv, SockInv
  <2>2. ASSUME NEW v \in Live' PROVE SockOK(sock'[conns'[v].client], conns'[v].out)
    <3>1. CASE v = t
      BY <1>2, <1>3, <1>4, <3>1
    <3>2. CASE v # t
      BY <1>1, <1>2, <1>4, <3>2 DEF Inv, SockInv
    <3> QED BY <3>1, <3>2, Zenon
  <2> QED BY <2>1, <2>2, Zenon DEF SockInv
<1>6. BacklogInv'
  <2>1. \A d \in Clients : sock'[d].phase = sock[d].phase
    BY <1>2, Zenon
  <2>2. \A i \in 1 .. Len(backlog) : backlog[i] \in Clients
    BY DEF Inv, BacklogInv
  <2> QED BY <2>1, <2>2 DEF Inv, BacklogInv
<1>7. LiveInv'
  <2>1. \A d \in Clients : sock'[d].phase = sock[d].phase
    BY <1>2, Zenon
  <2>2. born[c] # -1
    BY Zenon DEF Inv, LiveInv
  <2>3. \A d \in Clients : born[d] = -1 => sock'[d].flights = 0
    BY <1>2, <2>2, ZenonT(60) DEF Inv, LiveInv
  <2>4. \A v \in Live' : conns'[v].state # "Closed"
    <3>1. \A v \in Live : conns[v].state # "Closed"
      BY Zenon DEF Inv, LiveInv
    <3>2. t \in Live' => conns'[t].state # "Closed"
      BY <1>3, <1>4, Zenon
    <3> QED BY <1>4, <3>1, <3>2, Zenon
  <2>5. LiveInv /\ born' = born
    BY Zenon DEF Inv
  <2>6. \A d \in Clients : sock'[d].phase = 0 => born'[d] = -1
    BY ONLY <2>1, <2>5, Zenon DEF LiveInv
  <2>7. \A v \in Live' : born'[conns'[v].client] # -1
    BY ONLY <1>4, <2>5, Zenon DEF LiveInv
  <2>8. \A v, w \in Live' : conns'[v].client = conns'[w].client => v = w
    <3>1. \A v, w \in Live : conns[v].client = conns[w].client => v = w
      BY ONLY <2>5, Zenon DEF LiveInv
    <3>2. \A v \in Live' : v \in Live /\ conns'[v].client = conns[v].client
      BY ONLY <1>4, Zenon
    <3> QED BY ONLY <3>1, <3>2, Zenon
  <2> QED BY ONLY <2>3, <2>4, <2>5, <2>6, <2>7, <2>8, Zenon DEF LiveInv
<1>8. EventsInv'
  <2>1. \A f \in events' : f \in events /\ f.token # t
    BY Zenon DEF Inv, EventsInv
  <2>2. \A f \in events' :
          f.write /\ f.token \in Live' => sock'[conns'[f.token].client].flights < 2
    <3>1. EventsInv
      BY Zenon DEF Inv
    <3>2. ASSUME NEW f \in events', f.write, f.token \in Live'
          PROVE  sock'[conns'[f.token].client].flights < 2
      <4>1. f \in events /\ f.token # t /\ f.token \in Live
        BY ONLY <1>4, <2>1, <3>2, Zenon
      <4>2. sock[conns[f.token].client].flights < 2
        BY ONLY <3>1, <3>2, <4>1, Zenon DEF EventsInv
      <4>3. /\ conns'[f.token] = conns[f.token] /\ conns[f.token].client # c
            /\ conns[f.token].client \in Clients
        BY ONLY <1>1, <1>4, <3>2, <4>1, Zenon
      <4>4. sock'[conns[f.token].client] = sock[conns[f.token].client]
        BY ONLY <1>2, <4>3, Zenon
      <4> QED BY ONLY <4>2, <4>3, <4>4, Zenon
    <3> QED BY <3>2, Zenon
  <2> QED BY <2>1, <2>2, Zenon DEF Inv, EventsInv
<1>9. PanicNeedsEarlyLeaver'
  BY Zenon DEF PanicNeedsEarlyLeaver
<1> QED BY <1>5, <1>6, <1>7, <1>8, <1>9, Zenon DEF Inv

\* A connection that reading has shut down a second time, or that cannot be
\* written to, belongs to a client that aborted or did not wait.
LEMMA PanicLeaves ==
  ASSUME NEW s \in Sockets, NEW out \in 0 .. 2, SockOK(s, out),
         NEW read \in BOOLEAN, NEW write \in BOOLEAN, write => s.flights < 2,
         NEW data \in (IF read THEN Reads(s) ELSE {<<>>}),
         \/ s.reset
         \/ write /\ s.fin
         \/ read /\ s.fin /\ \E i \in DOMAIN data : data[i] = "bad"
  PROVE  s.reset \/ (s.fin /\ s.flights < 2)
<1>1. SUFFICES ASSUME read, s.fin, \E i \in DOMAIN data : data[i] = "bad"
               PROVE  s.flights < 2
  BY Zenon
<1>2. data \in Reads(s) /\ data # ReadError
  BY <1>1 DEF ReadError
<1>3. PICK n \in 0 .. Len(s.in) : (n > 0 \/ s.in = <<>>) /\ DOMAIN data = 1 .. n
  BY <1>2, ReadsAre
<1>4. s.in # <<>>
  BY <1>1, <1>3
<1> QED BY <1>4 DEF SockOK, Sockets

\* The steps of serving connection old: it is read, if there is an event to
\* read, and written, unless that fails; so much is read and so much written.
AfterRead(read, old, data) == IF read THEN ReadReady(old, data) ELSE old

AfterWrite(write, fails, conn) ==
  IF fails THEN [conn EXCEPT !.state = "Closed"]
  ELSE IF write THEN [conn EXCEPT !.out = 0] ELSE conn

ItemsRead(read, data) == IF read /\ data # ReadError THEN Len(data) ELSE 0

FlightsWritten(write, fails, conn) == IF write /\ ~fails THEN conn.out ELSE 0

\* The socket u and what is left of connection old fit together.
WellServed(s, old, u, left) ==
  /\ u \in Sockets
  /\ u.phase = s.phase
  /\ SockOK(u, 0)
  /\ left # None =>
       /\ left \in Connections
       /\ left.client = old.client
       /\ left.state # "Closed"
       /\ SockOK(u, left.out)

\* What reading and writing make of a socket and its connection.
LEMMA ServeOK ==
  ASSUME NEW s \in Sockets, NEW old \in Connections, SockOK(s, old.out),
         NEW read \in BOOLEAN, NEW write \in BOOLEAN, NEW fails \in BOOLEAN,
         NEW data \in (IF read THEN Reads(s) ELSE {<<>>})
  PROVE  WellServed(s, old,
           Served(s, ItemsRead(read, data),
                     FlightsWritten(write, fails, AfterRead(read, old, data))),
           Removed(AfterWrite(write, fails, AfterRead(read, old, data))))
<1> DEFINE conn == AfterRead(read, old, data)
           last == AfterWrite(write, fails, conn)
           n == ItemsRead(read, data)
           k == FlightsWritten(write, fails, conn)
           r == SubSeq(s.in, n + 1, Len(s.in))
<1>1. n \in 0 .. Len(s.in) /\ r \in Seq(Items) /\ (n = 0 => r = s.in)
  <2>1. s.in \in Seq(Items) /\ Len(s.in) \in Nat
    BY DEF Sockets
  <2>2. ASSUME read, data # ReadError PROVE Len(data) \in 0 .. Len(s.in)
    BY <2>2, ReadsAre
  <2>3. n \in 0 .. Len(s.in)
    BY <2>1, <2>2 DEF ItemsRead
  <2> QED BY <2>1, <2>3, Suffix, Zenon
<1> HIDE DEF r
<1>2. /\ conn \in Connections /\ conn.client = old.client
      /\ \A v \in Sockets : v.in = r /\ v.flights = s.flights /\ v.phase = s.phase
                              => SockOK(v, conn.out)
  <2>1. CASE read
    <3>1. data \in Reads(s) /\ n = IF data # ReadError THEN Len(data) ELSE 0
      BY <2>1, Zenon DEF ItemsRead
    <3>2. r = SubSeq(s.in, (IF data # ReadError THEN Len(data) ELSE 0) + 1, Len(s.in))
      BY <3>1, Zenon DEF r
    <3>3. conn = ReadReady(old, data)
      BY <2>1, Zenon DEF AfterRead
    <3> QED BY <1>1, <3>1, <3>2, <3>3, ReadReadyOK, ZenonT(60)
  <2>2. CASE ~read
    BY <1>1, <2>2, Zenon DEF SockOK, AfterRead, ItemsRead
  <2> QED BY <2>1, <2>2, Zenon
<1> DEFINE q == [s EXCEPT !.in = r]
<1>3. /\ q \in Sockets /\ q.in = r /\ q.flights = s.flights /\ q.phase = s.phase
  BY <1>1, Zenon DEF Sockets
<1> HIDE DEF q
<1>4. SockOK(q, conn.out)
  BY <1>2, <1>3, Zenon
<1>5. /\ s.flights \in 0 .. 2 /\ conn.out \in 0 .. 2 /\ s.flights + conn.out <= 2
      /\ k \in 0 .. 2 /\ k <= conn.out
  <2>1. s.flights \in 0 .. 2 /\ conn.out \in 0 .. 2 /\ s.flights + conn.out <= 2
    BY <1>2, <1>3, <1>4, Zenon DEF SockOK, Sockets, Connections
  <2> QED BY <2>1 DEF FlightsWritten
<1> HIDE DEF n, k, last, conn
<1> DEFINE u == Served(s, n, k)
<1>6. u \in Sockets /\ u.in = r /\ u.flights = s.flights + k /\ u.phase = s.phase
  <2>1. s.flights + k <= 2
    BY <1>5
  <2> QED BY ONLY <1>1, <1>5, <2>1, s \in Sockets, ServedOK, Zenon DEF r
<1> HIDE DEF u
<1>7. ASSUME NEW out \in 0 .. 2, out <= conn.out - k PROVE SockOK(u, out)
  <2>1. u.flights + out <= q.flights + conn.out
    BY <1>3, <1>5, <1>6, <1>7
  <2> QED BY <1>3, <1>4, <1>5, <1>6, <1>7, <2>1, SockOKSum, Zenon
<1>8. SockOK(u, 0)
  BY <1>5, <1>7
<1> DEFINE closed == [conn EXCEPT !.state = "Closed"]
           flushed == [conn EXCEPT !.out = 0]
<1>9. /\ closed.state = "Closed"
      /\ flushed \in Connections /\ flushed.client = old.client /\ flushed.out = 0
  BY <1>2 DEF Connections
<1>10. last = IF fails THEN closed ELSE IF write THEN flushed ELSE conn
  BY Zenon DEF last, AfterWrite
<1> HIDE DEF closed, flushed
<1>11. Removed(last) # None => Removed(last) = last /\ last.state # "Closed" /\ ~fails
  BY ONLY <1>9, <1>10, Zenon DEF Removed
<1>12. ~fails => last \in Connections /\ last.client = old.client
                 /\ last.out \in 0 .. 2 /\ last.out <= conn.out - k
  BY <1>2, <1>5, <1>9, <1>10 DEF k, FlightsWritten
<1> QED BY <1>6, <1>7, <1>8, <1>11, <1>12, Zenon DEF u, n, k, last, conn, WellServed

\* What serving client c may come to, given what was read and made of it.
Outcome(e, c, s, data, shut, fails) ==
  LET conn == AfterRead(e.read, conns[e.token], data)
      last == AfterWrite(e.write, fails, conn)
  IN
  /\ shut => e.read
  /\ fails => e.write /\ (shut \/ s.reset)
  /\ \/ /\ \/ /\ shut
              /\ ShutdownPanics(s, \/ conns[e.token].state = "Closed"
                                   \/ \E i \in DOMAIN data : data[i] = "bad")
           \/ fails /\ ShutdownPanics(s, shut)
        /\ Die
     \/ /\ conns' = [Unexpired EXCEPT ![e.token] = Removed(last)]
        /\ ended' = [EndedByTimer EXCEPT
                       ![c] = IF last.state = "Closed" THEN "self" ELSE @]
        /\ sock' = [sock EXCEPT ![c] = Served(s, ItemsRead(e.read, data),
                                              FlightsWritten(e.write, fails, conn))]
        /\ recorded' = recorded \cup {c} \/ recorded' = recorded
        /\ deadlines' = deadlines \ Overdue
        /\ UNCHANGED <<now, backlog, nextToken, registered, errors, running,
                       clientAddr, born, accepted>>

\* The step may close connections and serve some that have not expired, but
\* accepts none.
OpensNone ==
  \/ UNCHANGED <<conns, deadlines, nextToken, born, accepted>>
  \/ /\ \A t \in Live' : Unexpired[t] # None /\ conns'[t].client = conns[t].client
     /\ deadlines' = deadlines \ Overdue
     /\ UNCHANGED <<nextToken, born, accepted>>

\* A connection is served: what it was sent and is owed is in keeping with what
\* was read, and its two shutdowns fail only for a client that left early.
LEMMA ReadyInv ==
  ASSUME Inv, NEW e \in events, Ready(e)
  PROVE  Inv' /\ OpensNone
<1>1. /\ running /\ events' = events \ {e} /\ Unexpired[e.token] # None
      /\ e.token # LISTENER_MIO_TOKEN
  BY Zenon DEF Ready, TakeConnEvent, TakeEvent
<1>2. /\ e.token \in Tokens /\ e.token \in Live
      /\ e.read \in BOOLEAN /\ e.write \in BOOLEAN
      /\ conns[e.token] \in Connections /\ conns[e.token].client \in Clients
      /\ conns[e.token].out \in 0 .. 2
  <2>1. e.token \in Tokens /\ e.read \in BOOLEAN /\ e.write \in BOOLEAN
    BY <1>1, Zenon DEF Inv, EventsInv
  <2>2. e.token \in Live /\ conns[e.token] \in Connections
    BY <1>1, <2>1, ExpireType, Zenon DEF Live, Inv, TypeOK
  <2> QED BY <2>1, <2>2, Zenon DEF Connections
<1>3. PICK c \in Clients, s \in Sockets :
        /\ c = conns[e.token].client /\ s = sock[c]
        /\ SockOK(s, conns[e.token].out) /\ conns[e.token].state # "Closed"
        /\ e.write => s.flights < 2
  BY <1>2, Zenon DEF Inv, TypeOK, SockInv, LiveInv, EventsInv
<1>4. PICK data \in (IF e.read THEN Reads(s) ELSE {<<>>}),
           shut \in BOOLEAN, fails \in BOOLEAN : Outcome(e, c, s, data, shut, fails)
  <2>1. PICK data \in (IF e.read THEN Reads(sock[conns[e.token].client]) ELSE {<<>>}) :
          LET shut == e.read /\ AfterRead(e.read, conns[e.token], data).state = "Closed"
              fails == e.write /\ (shut \/ sock[conns[e.token].client].reset)
          IN  Outcome(e, conns[e.token].client, sock[conns[e.token].client],
                      data, shut, fails)
    BY ZenonT(60) DEF Ready, Outcome, AfterRead, AfterWrite, ItemsRead, FlightsWritten
  <2> QED BY ONLY <1>3, <2>1, Zenon
<1>5. CASE Die
  <2>1. s.reset \/ (s.fin /\ s.flights < 2)
    <3>1. \/ s.reset \/ (e.write /\ s.fin)
          \/ e.read /\ s.fin /\ \E i \in DOMAIN data : data[i] = "bad"
      BY ONLY <1>1, <1>3, <1>4, <1>5, Zenon DEF Outcome, ShutdownPanics, Die
    <3> QED BY ONLY <1>2, <1>3, <3>1, s \in Sockets,
                data \in IF e.read THEN Reads(s) ELSE {<<>>}, PanicLeaves, Zenon
  <2>2. TypeOK' /\ BacklogInv'
    BY <1>5, Zenon DEF Die, Inv, TypeOK, BacklogInv, clientVars
  <2>3. PanicNeedsEarlyLeaver'
    BY <1>3, <1>5, <2>1, Zenon DEF Die, PanicNeedsEarlyLeaver, clientVars
  <2>4. Inv'
    BY <1>1, <1>5, <2>2, <2>3, ShrinkStep, Zenon DEF Die, clientVars
  <2> QED BY <1>5, <2>4, Zenon DEF Die, OpensNone
<1>6. CASE ~Die
  <2> DEFINE conn == AfterRead(e.read, conns[e.token], data)
             last == AfterWrite(e.write, fails, conn)
             n == ItemsRead(e.read, data)
             k == FlightsWritten(e.write, fails, conn)
  <2>1. WellServed(s, conns[e.token], Served(s, n, k), Removed(last))
    BY ONLY <1>2, <1>3, s \in Sockets, fails \in BOOLEAN,
            data \in IF e.read THEN Reads(s) ELSE {<<>>}, ServeOK, ZenonT(60)
  <2>2. /\ conns' = [Unexpired EXCEPT ![e.token] = Removed(last)]
        /\ sock' = [sock EXCEPT ![c] = Served(s, n, k)]
        /\ ended' = [EndedByTimer EXCEPT
                       ![c] = IF last.state = "Closed" THEN "self" ELSE @]
        /\ recorded' = recorded \cup {c} \/ recorded' = recorded
        /\ deadlines' = deadlines \ Overdue
        /\ UNCHANGED <<now, backlog, nextToken, registered, errors, running,
                       clientAddr, born, accepted>>
    BY <1>4, <1>6, Zenon DEF Outcome
  <2> HIDE DEF conn, last, n, k
  <2>3. ended' \in [Clients -> {"no", "timer", "self", "register"}]
    BY <1>3, <2>2, ExpireType, Zenon
  <2>4. TypeOK'
    <3>1. conns' \in [Tokens -> Connections \cup {None}]
      BY <1>2, <2>1, <2>2, ExpireType, Zenon DEF WellServed
    <3>2. sock' \in [Clients -> Sockets]
      BY <2>1, <2>2, Zenon DEF Inv, TypeOK, WellServed
    <3> QED BY <2>2, <2>3, <3>1, <3>2, Zenon DEF Inv, TypeOK
  <2>5. Inv'
    BY ONLY <1>1, <1>2, <1>3, <2>1, <2>2, <2>4, Inv, e \in events, ServeStep, Zenon
       DEF WellServed
  <2>6. ASSUME NEW t \in Live' PROVE Unexpired[t] # None /\ conns'[t].client = conns[t].client
    <3>1. t \in Tokens /\ conns'[t] # None
      BY <2>6 DEF Live
    <3>2. Unexpired \in [Tokens -> Connections \cup {None}]
          /\ (Unexpired[t] = None \/ Unexpired[t] = conns[t])
      BY <3>1, ExpireType, Zenon
    <3>3. conns'[t] = IF t = e.token THEN Removed(last) ELSE Unexpired[t]
      BY <2>2, <3>1, <3>2, Zenon
    <3> QED BY <1>1, <2>1, <3>1, <3>2, <3>3, Zenon DEF WellServed
  <2> QED BY <2>2, <2>5, <2>6, Zenon DEF OpensNone
<1> QED BY <1>5, <1>6, Zenon

\* The socket of a client that has not connected.
LEMMA FreshSocket ==
  ASSUME NEW q \in Seq(Items)
  PROVE  [in |-> q, flights |-> 0, fin |-> FALSE, reset |-> FALSE, phase |-> 0]
           \in Sockets
BY DEF Sockets

\* Nothing has happened yet.
LEMMA InitInv == Init => Inv
<1> SUFFICES ASSUME Init PROVE Inv
  OBVIOUS
<1>1. Live = {}
  BY DEF Init, Live
<1>2. TypeOK
  <2>1. [in |-> <<>>, flights |-> 0, fin |-> FALSE, reset |-> FALSE, phase |-> 0]
          \in Sockets
    <3>1. <<>> \in Seq(Items)
      OBVIOUS
    <3> QED BY ONLY <3>1, FreshSocket, Zenon
  <2>2. <<>> \in Seq(Clients)
    OBVIOUS
  <2> QED BY <2>1, <2>2, ListenerAssumption
          DEF Init, TypeOK, Tokens, CONNECTION_MIO_TOKEN_ID_MIN
<1>3. Len(<<>>) = 0
  OBVIOUS
<1>4. SockInv /\ BacklogInv /\ LiveInv
  BY <1>1, <1>3 DEF Init, SockInv, SockOK, BacklogInv, LiveInv
<1>5. EventsInv /\ PanicNeedsEarlyLeaver
  BY DEF Init, EventsInv, PanicNeedsEarlyLeaver
<1> QED BY <1>2, <1>4, <1>5 DEF Inv

\* Every step of the listener and of its clients keeps the invariant.
LEMMA NextInv == Inv /\ [Next]_vars => Inv'
<1> SUFFICES ASSUME Inv, [Next]_vars PROVE Inv'
  OBVIOUS
<1>1. CASE UNCHANGED vars
  BY <1>1, ShrinkStep, Zenon DEF vars, clientVars, serverVars, Inv, TypeOK, BacklogInv,
     PanicNeedsEarlyLeaver
<1>2. CASE Client
  BY <1>2, ClientInv DEF Client
<1>3. CASE Poll
  BY <1>3, PollInv
<1>4. CASE Tick
  BY <1>4, IdleInv
<1>5. CASE Handle
  <2>1. PICK e \in events :
          \/ ExpiryDies(e) \/ Accept(e) \/ AcceptDies(e) \/ RegisterDies(e)
          \/ AcceptWouldBlock(e) \/ AcceptFails(e) \/ Ready(e) \/ Stale(e)
    BY <1>5 DEF Handle
  <2> QED BY <2>1, IdleInv, AcceptInv, AcceptFailsInv, ReadyInv, Zenon
<1> QED BY <1>1, <1>2, <1>3, <1>4, <1>5 DEF Next

\* The listener keeps its state in order whatever its clients do, and sends
\* none of them more than its handshake and one response (listen, ready).
THEOREM ListenerTypeCorrect == Spec => []TypeOK
<1>1. Inv => TypeOK
  BY DEF Inv
<1> QED BY <1>1, InitInv, NextInv, PTL DEF Spec

\* The unwraps of shutdown() and peer_addr() are never reached with an error
\* while every client waits for its answer: a dead listener has had a client
\* that aborted or left early, or a connection that poll did not take.
THEOREM OnlyEarlyLeaversPanic == Spec => []PanicNeedsEarlyLeaver
<1>1. Inv => PanicNeedsEarlyLeaver
  BY DEF Inv
<1> QED BY <1>1, InitInv, NextInv, PTL DEF Spec

-----------------------------------------------------------------------------
(* Deadlines.  Tokens start again from the first when they are used up, so *)
(* all of this is about the first TokenMax connections: CONNECTION_MIO_    *)
(* TOKEN_ID_MAX is the largest number of a machine word.                   *)

\* Tokens are handed out in order, and none is in use before its turn.
TokenInv ==
  accepted <= TokenMax =>
    /\ accepted < TokenMax => nextToken = accepted + 1
    /\ \A t \in Live : t <= accepted
    /\ \A d \in deadlines : d.token <= accepted
    /\ DeadlinesMatch

\* The steps of the listener, but for accepting a connection.
LEMMA HandleOpensNone ==
  ASSUME Inv, NEW e \in events,
         \/ ExpiryDies(e) \/ AcceptDies(e) \/ RegisterDies(e) \/ AcceptWouldBlock(e)
         \/ AcceptFails(e) \/ Stale(e)
  PROVE  OpensNone
<1>1. CASE Die
  BY <1>1, Zenon DEF Die, OpensNone
<1>2. CASE OnlyExpire
  <2>1. \A t \in Live' : Unexpired[t] # None /\ conns'[t] = conns[t]
    BY <1>2, ExpireType, Zenon DEF OnlyExpire, Live
  <2> QED BY <1>2, <2>1, Zenon DEF OnlyExpire, OpensNone
<1>3. CASE RegisterDies(e)
  BY <1>3, Zenon DEF RegisterDies, OpensNone
<1> QED BY <1>1, <1>2, <1>3, Zenon DEF ExpiryDies, AcceptDies, AcceptWouldBlock, AcceptFails, Stale

\* A connection that has not expired has no deadline that is overdue.
LEMMA UnexpiredInTime ==
  ASSUME Inv, NEW t \in Tokens, Unexpired[t] # None
  PROVE  /\ t \in Live
         /\ \A d \in deadlines : d.token = t => d \notin Overdue
BY DEF Unexpired, Expired, Live

\* A step that opens no connection leaves every live one with its deadline.
LEMMA TokenKeep ==
  ASSUME Inv, TokenInv, OpensNone
  PROVE  TokenInv'
<1>1. CASE UNCHANGED <<conns, deadlines, nextToken, born, accepted>>
  BY <1>1 DEF TokenInv, DeadlinesMatch, Live
<1>2. CASE /\ \A t \in Live' : Unexpired[t] # None /\ conns'[t].client = conns[t].client
           /\ deadlines' = deadlines \ Overdue
           /\ UNCHANGED <<nextToken, born, accepted>>
  <2> SUFFICES ASSUME accepted <= TokenMax
               PROVE  /\ accepted < TokenMax => nextToken = accepted + 1
                      /\ \A t \in Live' : t <= accepted
                      /\ \A d \in deadlines' : d.token <= accepted
                      /\ DeadlinesMatch'
    BY <1>2 DEF TokenInv
  <2>1. \A t \in Live' : t \in Live /\ \A d \in deadlines : d.token = t => d \notin Overdue
    BY <1>2, UnexpiredInTime DEF Live
  <2>2. ASSUME NEW t \in Live'
        PROVE  {d \in deadlines' : d.token = t}
                 = {[at |-> born'[conns'[t].client] + Timeout, token |-> t]}
    <3>1. {d \in deadlines' : d.token = t} = {d \in deadlines : d.token = t}
      BY <1>2, <2>1
    <3>2. {d \in deadlines : d.token = t}
            = {[at |-> born[conns[t].client] + Timeout, token |-> t]}
      BY <2>1 DEF TokenInv, DeadlinesMatch
    <3> QED BY <1>2, <3>1, <3>2
  <2>3. DeadlinesMatch'
    BY <2>2 DEF DeadlinesMatch
  <2> QED BY <1>2, <2>1, <2>3 DEF TokenInv
<1> QED BY <1>1, <1>2, Zenon DEF OpensNone

\* The token of a new connection is that of no other, and no deadline has it.
LEMMA TokenAccept ==
  ASSUME Inv, TokenInv, NEW e \in events, Accept(e), accepted < TokenMax
  PROVE  /\ TokenInv'
         /\ \A t \in Live : t # nextToken
<1> DEFINE c == Head(backlog)
<1>1. /\ backlog # <<>> /\ born' = [born EXCEPT ![c] = now]
      /\ deadlines' = (deadlines \ Overdue) \cup {NewDeadline}
      /\ nextToken' = increment_next_conn_token_id(nextToken)
      /\ conns' = [Unexpired EXCEPT ![nextToken] =
                     [client |-> c, state |-> "Connected", out |-> 0]]
      /\ accepted' = accepted + 1 /\ now' = now
  BY Zenon DEF Accept
<1>2. /\ c \in Clients /\ \A t \in Live : conns[t].client # c
      /\ \A t \in Live : conns[t].client \in Clients
      /\ born \in [Clients -> Int] /\ nextToken \in Tokens
      /\ accepted \in Nat /\ TokenMax \in Nat
  BY <1>1, NextClient, ListenerAssumption, Zenon DEF Inv, TypeOK, Live, Connections
<1> HIDE DEF c
<1>3. /\ nextToken = accepted + 1
      /\ \A t \in Live : t <= accepted /\ t # nextToken
      /\ \A d \in deadlines : d.token <= accepted /\ d.token # nextToken
      /\ DeadlinesMatch
  <2>1. accepted <= TokenMax /\ ~(accepted + 1 <= accepted)
    BY <1>2
  <2> QED BY <1>2, <2>1 DEF TokenInv
<1>4. accepted' < TokenMax => nextToken' = accepted' + 1
  BY <1>1, <1>2, <1>3 DEF increment_next_conn_token_id
<1>5. /\ NewDeadline.token = nextToken
      /\ \A t \in Live' : \/ t = nextToken /\ conns'[t].client = c
                          \/ /\ t # nextToken /\ t \in Live /\ conns'[t] = conns[t]
                             /\ \A d \in deadlines : d.token = t => d \notin Overdue
  <2>1. ASSUME NEW t \in Live', t # nextToken
        PROVE  Unexpired[t] # None /\ conns'[t] = conns[t] /\ t \in Tokens
    BY <1>1, <2>1, ExpireType, Zenon DEF Live
  <2>2. conns'[nextToken].client = c
    BY <1>1, <1>2, ExpireType
  <2> QED BY <2>1, <2>2, UnexpiredInTime, Zenon DEF NewDeadline
<1>6. born'[c] = now /\ \A d \in Clients : d # c => born'[d] = born[d]
  BY <1>1, <1>2
<1>7. DeadlinesMatch'
  <2>1. ASSUME NEW t \in Live', t # nextToken
        PROVE  {d \in deadlines' : d.token = t}
                 = {[at |-> born'[conns'[t].client] + Timeout, token |-> t]}
    <3>1. {d \in deadlines' : d.token = t} = {d \in deadlines : d.token = t}
      BY <1>1, <1>5, <2>1
    <3>2. {d \in deadlines : d.token = t}
            = {[at |-> born[conns[t].client] + Timeout, token |-> t]}
      BY <1>3, <1>5, <2>1 DEF DeadlinesMatch
    <3>3. born'[conns'[t].client] = born[conns[t].client]
      BY <1>2, <1>5, <1>6, <2>1
    <3> QED BY <3>1, <3>2, <3>3
  <2>2. {d \in deadlines' : d.token = nextToken}
          = {[at |-> now + Timeout, token |-> nextToken]}
    BY <1>1, <1>3, <1>5 DEF NewDeadline
  <2> QED BY <1>5, <1>6, <2>1, <2>2 DEF DeadlinesMatch
<1>8. /\ \A t \in Live' : t <= accepted'
      /\ \A d \in deadlines' : d.token <= accepted'
  <2>1. \A d \in deadlines : d.token \in Int
    BY DEF Inv, TypeOK, Tokens, CONNECTION_MIO_TOKEN_ID_MIN
  <2>2. \A t \in Live : t \in Int
    BY DEF Live, Tokens, CONNECTION_MIO_TOKEN_ID_MIN
  <2>3. nextToken = accepted' /\ accepted \in Nat /\ accepted' = accepted + 1
    BY <1>1, <1>2, <1>3
  <2>4. ASSUME NEW t \in Live' PROVE t <= accepted'
    <3>1. CASE t = nextToken
      BY ONLY <2>3, <3>1
    <3>2. CASE t # nextToken
      <4>1. t \in Int /\ t <= accepted
        BY <1>3, <1>5, <2>2, <3>2, Zenon
      <4> QED BY ONLY <2>3, <4>1
    <3> QED BY <3>1, <3>2, Zenon
  <2>5. ASSUME NEW d \in deadlines' PROVE d.token <= accepted'
    <3>1. CASE d.token = nextToken
      BY ONLY <2>3, <3>1
    <3>2. CASE d.token # nextToken
      <4>1. d.token \in Int /\ d.token <= accepted
        BY <1>1, <1>3, <1>5, <2>1, <3>2, Zenon
      <4> QED BY ONLY <2>3, <4>1
    <3> QED BY <3>1, <3>2, Zenon
  <2> QED BY <2>4, <2>5, Zenon
<1> QED BY <1>3, <1>4, <1>7, <1>8 DEF TokenInv

\* Every step opens no connection, or is the accepting of one.
LEMMA StepKinds ==
  ASSUME Inv, [Next]_vars
  PROVE  OpensNone \/ \E e \in events : Accept(e)
<1>1. CASE UNCHANGED vars
  BY <1>1 DEF vars, serverVars, OpensNone
<1>2. CASE Client
  BY <1>2 DEF Client, Connect, Send, SendBad, Close, Abort, serverVars, OpensNone
<1>3. CASE Poll
  BY <1>3 DEF Poll, OpensNone
<1>4. CASE Tick
  BY <1>4 DEF Tick, serverVars, OpensNone
<1>5. CASE Handle
  <2>1. PICK e \in events :
          \/ ExpiryDies(e) \/ Accept(e) \/ AcceptDies(e) \/ RegisterDies(e)
          \/ AcceptWouldBlock(e) \/ AcceptFails(e) \/ Ready(e) \/ Stale(e)
    BY <1>5 DEF Handle
  <2> QED BY <2>1, HandleOpensNone, ReadyInv, Zenon
<1> QED BY <1>1, <1>2, <1>3, <1>4, <1>5 DEF Next

\* While the tokens last, every step keeps them in order.
LEMMA TokenNext == Inv /\ TokenInv /\ [Next]_vars => TokenInv'
<1> SUFFICES ASSUME Inv, TokenInv, [Next]_vars PROVE TokenInv'
  OBVIOUS
<1>1. CASE OpensNone
  BY <1>1, TokenKeep
<1>2. ASSUME NEW e \in events, Accept(e) PROVE TokenInv'
  <2>1. accepted' = accepted + 1 /\ accepted \in Nat /\ TokenMax \in Nat
    BY <1>2, ListenerAssumption, Zenon DEF Accept, Inv, TypeOK
  <2>2. CASE accepted < TokenMax
    BY <1>2, <2>2, TokenAccept
  <2>3. CASE ~(accepted < TokenMax)
    BY <2>1, <2>3 DEF TokenInv
  <2> QED BY <2>2, <2>3
<1> QED BY <1>1, <1>2, StepKinds

\* No token has been handed out.
LEMMA TokenInit == Init => TokenInv
BY DEF Init, TokenInv, DeadlinesMatch, Live, CONNECTION_MIO_TOKEN_ID_MIN

\* A step on a connection comes before its deadline, as long as the token of
\* the step's new connection, if it opens one, is a fresh one.
LEMMA ServedInTime ==
  ASSUME Inv, TokenInv, [Next]_vars, accepted <= TokenMax, accepted' <= TokenMax,
         NEW t \in Live, conns'[t] # None, conns'[t] # conns[t]
  PROVE  now <= born[conns[t].client] + Timeout
<1>1. DeadlinesMatch /\ t \in Tokens
  BY DEF TokenInv, Live
<1>2. [at |-> born[conns[t].client] + Timeout, token |-> t] \in deadlines
  BY <1>1, Zenon DEF DeadlinesMatch
<1>3. now \in Int /\ born[conns[t].client] + Timeout \in Int
  BY ListenerAssumption DEF Inv, TypeOK, Live, Connections
<1>4. ASSUME Unexpired[t] # None PROVE now <= born[conns[t].client] + Timeout
  <2>1. [at |-> born[conns[t].client] + Timeout, token |-> t] \notin Overdue
    BY <1>1, <1>2, <1>4, UnexpiredInTime
  <2> QED BY <1>2, <1>3, <2>1 DEF Overdue
<1>5. CASE OpensNone
  BY <1>1, <1>4, <1>5 DEF OpensNone, Live
<1>6. ASSUME NEW e \in events, Accept(e) PROVE now <= born[conns[t].client] + Timeout
  <2>1. accepted' = accepted + 1 /\ accepted \in Nat /\ TokenMax \in Nat
        /\ \E c : conns' = [Unexpired EXCEPT ![nextToken] = c]
    BY <1>6, ListenerAssumption, Zenon DEF Accept, Inv, TypeOK
  <2>2. accepted < TokenMax
    BY <2>1
  <2>3. t # nextToken
    BY <1>6, <2>2, TokenAccept, Zenon
  <2>4. Unexpired[t] # None
    BY <1>1, <2>1, <2>3, ExpireType
  <2> QED BY <1>4, <2>4
<1> QED BY <1>5, <1>6, StepKinds

\* Until the tokens have gone round once, every live connection has exactly
\* one deadline, its own: accept pushes it with the token it inserts the
\* connection under, and check_timeouts takes both away together.
THEOREM DeadlinesAlwaysMatch ==
  Spec => [](accepted <= TokenMax => DeadlinesMatch)
<1>1. TokenInv => (accepted <= TokenMax => DeadlinesMatch)
  BY DEF TokenInv
<1> QED BY <1>1, InitInv, NextInv, TokenInit, TokenNext, PTL DEF Spec

\* Until the tokens have gone round once, the listener neither reads from nor
\* writes to a connection after its deadline, although it looks at the
\* deadlines only when an event comes in.
THEOREM NeverServedLate ==
  Spec /\ [](accepted <= TokenMax) => NoServiceAfterDeadline
<1> DEFINE InTime ==
      \A t \in Live :
        conns'[t] # None /\ conns'[t] # conns[t] =>
          now <= born[conns[t].client] + Timeout
<1>1. Inv /\ TokenInv /\ [Next]_vars /\ accepted <= TokenMax /\ (accepted <= TokenMax)'
        => [InTime]_vars
  <2>1. TokenMax' = TokenMax
    OBVIOUS
  <2> QED BY <2>1, ServedInTime
<1>2. NoServiceAfterDeadline <=> [][InTime]_vars
  BY DEF NoServiceAfterDeadline
<1> HIDE DEF InTime
<1> QED BY <1>1, <1>2, InitInv, NextInv, TokenInit, TokenNext, PTL DEF Spec
====
