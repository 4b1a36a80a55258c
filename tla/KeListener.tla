----------------------------- MODULE KeListener -----------------------------
(***************************************************************************)
(* One listener of the NTS-KE server: the poll loop, the table of          *)
(* connections, their deadlines, and the life of a connection              *)
(* (nts_ke/server/listener.rs, nts_ke/server/connection.rs).               *)
(*                                                                         *)
(* A batch of events is what was ready when poll() returned; clients and   *)
(* the clock go on while it is worked off.  What a client sends is cut     *)
(* down to "hello" (its side of the handshake), "part" (an incomplete      *)
(* request), "rest" (its end, with the End of Message record) and "bad"    *)
(* (anything for which read_ready shuts the connection down); how records  *)
(* come out of bytes is the subject of KeStream.                           *)
(***************************************************************************)
EXTENDS Integers, Sequences

CONSTANTS
  Clients,      \* connection attempts
  Measured,     \* those that come from meas_client_ip
  TokenMax,     \* CONNECTION_MIO_TOKEN_ID_MAX
  Timeout,      \* conn_timeout in seconds, which SystemTime can hold
  None,         \* no connection
  Rude,         \* those that may leave or send garbage at any moment
  MaxErrors,    \* bound: failing system calls of accept()
  MaxTime       \* bound: last reading of the system clock

LISTENER_MIO_TOKEN == 0
CONNECTION_MIO_TOKEN_ID_MIN == 1
Tokens == CONNECTION_MIO_TOKEN_ID_MIN .. TokenMax

ASSUME ListenerAssumption ==
  /\ Measured \subseteq Clients
  /\ TokenMax \in Nat \ {0}
  /\ Timeout \in Nat
  /\ Rude \subseteq Clients
  /\ MaxErrors \in Nat
  /\ MaxTime \in Nat

VARIABLES
  now,          \* SystemTime::now()
  backlog,      \* connections the kernel has not handed out yet
  sock,         \* sock[c]: the kernel's side of the connection of c
  conns,        \* the HashMap from tokens to connections
  deadlines,    \* the heap of deadlines
  nextToken,    \* next_conn_token_id
  events,       \* what is left of the batch
  registered,   \* is the listening socket registered with poll?
  errors,       \* failed system calls of accept() so far
  running,      \* has the thread of the listener not panicked?
  clientAddr,   \* CLIENT_ADDR, or None
  recorded,     \* clients whose exchange was written to SERVER_KE_S
  born,         \* history: when the connection of c was accepted, or -1
  ended,        \* history: why the listener dropped the connection of c
  accepted      \* history: how many connections were accepted so far

clientVars == <<backlog, sock>>
serverVars == <<conns, deadlines, nextToken, events, registered, errors,
                running, clientAddr, recorded, born, ended, accepted>>
vars == <<now, clientVars, serverVars>>

Items == {"hello", "part", "rest", "bad"}
ConnStates ==
  {"Connected", "TlsHandshaking", "Opened", "ResponseSent", "Closed"}

\* flights: what the server has sent so far, its handshake and its response.
\* fin, reset: has the client closed or aborted its side?
Sockets ==
  [in : Seq(Items), flights : 0 .. 2, fin : BOOLEAN, reset : BOOLEAN,
   phase : 0 .. 3]

\* out: flights the TLS session has ready but has not written yet.
Connections == [client : Clients, state : ConnStates, out : 0 .. 2]

ASSUME NoneAssumption ==
  None \notin Connections \cup Clients

Init ==
  /\ now = 0
  /\ backlog = <<>>
  /\ sock = [c \in Clients |-> [in |-> <<>>, flights |-> 0, fin |-> FALSE,
                                reset |-> FALSE, phase |-> 0]]
  /\ conns = [t \in Tokens |-> None]
  /\ deadlines = {}
  /\ nextToken = CONNECTION_MIO_TOKEN_ID_MIN
  /\ events = {}
  /\ registered = TRUE
  /\ errors = 0
  /\ running = TRUE
  /\ clientAddr = None
  /\ recorded = {}
  /\ born = [c \in Clients |-> -1]
  /\ ended = [c \in Clients |-> "no"]
  /\ accepted = 0

-----------------------------------------------------------------------------
(* Clients and the kernel (external).                                      *)

\* An item has arrived, and the client is in phase p.
Arrive(s, item, p) == [s EXCEPT !.in = Append(s.in, item), !.phase = p]

Connect(c) ==
  /\ sock[c].phase = 0
  /\ sock' = [sock EXCEPT ![c] = Arrive(sock[c], "hello", 1)]
  /\ backlog' = Append(backlog, c)
  /\ UNCHANGED <<now, serverVars>>

\* A client that has the server's handshake sends its request, in two parts.
Send(c) ==
  /\ sock[c].phase \in {1, 2}
  /\ sock[c].flights >= 1
  /\ ~sock[c].fin /\ ~sock[c].reset
  /\ LET item == IF sock[c].phase = 1 THEN "part" ELSE "rest" IN
       sock' = [sock EXCEPT ![c] = Arrive(sock[c], item, sock[c].phase + 1)]
  /\ UNCHANGED <<now, backlog, serverVars>>

SendBad(c) ==
  /\ c \in Rude
  /\ sock[c].phase \in {1, 2}
  /\ ~sock[c].fin /\ ~sock[c].reset
  /\ sock' = [sock EXCEPT ![c] = Arrive(sock[c], "bad", 3)]
  /\ UNCHANGED <<now, backlog, serverVars>>

\* A polite client closes when it has the response, or when the server has
\* dropped it.
Close(c) ==
  /\ sock[c].phase > 0
  /\ ~sock[c].fin /\ ~sock[c].reset
  /\ c \in Rude \/ sock[c].flights = 2 \/ ended[c] # "no"
  /\ sock' = [sock EXCEPT ![c].fin = TRUE]
  /\ UNCHANGED <<now, backlog, serverVars>>

\* The kernel hands out a connection that was aborted in its queue or not.
Abort(c) ==
  /\ c \in Rude
  /\ sock[c].phase > 0
  /\ ~sock[c].reset
  /\ sock' = [sock EXCEPT ![c].reset = TRUE]
  /\ \/ \E i \in DOMAIN backlog :
          /\ backlog[i] = c
          /\ backlog' = SubSeq(backlog, 1, i - 1)
                          \o SubSeq(backlog, i + 1, Len(backlog))
     \/ UNCHANGED backlog
  /\ UNCHANGED <<now, serverVars>>

Tick ==
  /\ now < MaxTime
  /\ now' = now + 1
  /\ UNCHANGED <<clientVars, serverVars>>

-----------------------------------------------------------------------------
(* poll() and the expiry of connections.                                   *)

Live == {t \in Tokens : conns[t] # None}

Readable(s) == s.in # <<>> \/ s.fin \/ s.reset

\* Mutant: a connection is registered for writing during the handshake only.
HandshakeConnEvents ==
  {e \in [token : Live, read : BOOLEAN, write : BOOLEAN] :
     /\ e.read = Readable(sock[conns[e.token].client])
     /\ e.write = (/\ conns[e.token].out > 0
                   /\ conns[e.token].state = "TlsHandshaking")
     /\ e.read \/ e.write}

\* Level-triggered readiness, of what interest() has registered.
ConnEvents ==
  {e \in [token : Live, read : BOOLEAN, write : BOOLEAN] :
     /\ e.read = Readable(sock[conns[e.token].client])
     /\ e.write = (conns[e.token].out > 0)
     /\ e.read \/ e.write}

ListenerEvents ==
  {e \in [token : {LISTENER_MIO_TOKEN}, read : {TRUE}, write : {FALSE}] :
     registered /\ backlog # <<>>}

\* poll() blocks, without a timeout, until something is ready.  The batch is
\* worked off in any order.
Poll ==
  /\ running
  /\ events = {}
  /\ events' = ConnEvents \cup ListenerEvents
  /\ events' # {}
  /\ UNCHANGED <<now, clientVars, conns, deadlines, nextToken, registered,
                 errors, running, clientAddr, recorded, born, ended, accepted>>

\* Mutant: one deadline is popped per event.
FirstOverdue ==
  {d \in deadlines :
     /\ d.at < now
     /\ \A f \in deadlines :
          d.at < f.at \/ (d.at = f.at /\ d.token <= f.token)}

\* close_expired_connections: the deadlines it pops ...
Overdue == {d \in deadlines : d.at < now}

\* ... the connections it closes with them, and what it leaves behind.
Expired == {t \in Live : \E d \in Overdue : d.token = t}

Unexpired == [t \in Tokens |-> IF t \in Expired THEN None ELSE conns[t]]

EndedByTimer ==
  [c \in Clients |->
     IF \E t \in Expired : conns[t].client = c THEN "timer" ELSE ended[c]]

\* shutdown() unwraps the result of shutdown(2), which fails when the socket
\* was reset and, if it was shut down before, when the client had closed too.
ShutdownPanics(s, again) == s.reset \/ (again /\ s.fin)

Die ==
  /\ running' = FALSE
  /\ UNCHANGED <<now, clientVars, conns, deadlines, nextToken, registered,
                 errors, clientAddr, recorded, born, ended, accepted>>

\* The beginning of the handling of an event.
TakeEvent(e) ==
  /\ running
  /\ e \in events
  /\ events' = events \ {e}

ExpiryPanics ==
  \E t \in Expired : ShutdownPanics(sock[conns[t].client], FALSE)

ExpiryDies(e) ==
  /\ TakeEvent(e)
  /\ ExpiryPanics
  /\ Die

-----------------------------------------------------------------------------
(* accept().                                                               *)

\* Mutant: the token is not wrapped.
UnwrappedIncrement(t) == t + 1

increment_next_conn_token_id(t) ==
  IF t + 1 > TokenMax THEN CONNECTION_MIO_TOKEN_ID_MIN ELSE t + 1

\* Mutant: the token is incremented before the deadline is pushed.
LateNewDeadline ==
  [at |-> now + Timeout, token |-> increment_next_conn_token_id(nextToken)]

NewDeadline == [at |-> now + Timeout, token |-> nextToken]

TakeListenerEvent(e) ==
  /\ TakeEvent(e)
  /\ e.token = LISTENER_MIO_TOKEN
  /\ ~ExpiryPanics

Accept(e) ==
  /\ TakeListenerEvent(e)
  /\ backlog # <<>>
  /\ LET c == Head(backlog) IN
       /\ ~sock[c].reset
       /\ clientAddr' = c
       /\ conns' = [Unexpired EXCEPT ![nextToken] =
                      [client |-> c, state |-> "Connected", out |-> 0]]
       /\ born' = [born EXCEPT ![c] = now]
  /\ accepted' = accepted + 1
  /\ deadlines' = (deadlines \ Overdue)
                    \cup {NewDeadline}
  /\ nextToken' = increment_next_conn_token_id(nextToken)
  /\ backlog' = Tail(backlog)
  /\ ended' = EndedByTimer
  /\ UNCHANGED <<now, sock, registered, errors, running, recorded>>

\* The address of a connection that was reset cannot be had: KeServerConn::new
\* panics.
AcceptDies(e) ==
  /\ TakeListenerEvent(e)
  /\ backlog # <<>>
  /\ sock[Head(backlog)].reset
  /\ Die

\* So does accept() when poll does not take the connection.
RegisterDies(e) ==
  /\ TakeListenerEvent(e)
  /\ backlog # <<>>
  /\ ~sock[Head(backlog)].reset
  /\ errors < MaxErrors
  /\ errors' = errors + 1
  /\ ended' = [ended EXCEPT ![Head(backlog)] = "register"]
  /\ running' = FALSE
  /\ UNCHANGED <<now, clientVars, conns, deadlines, nextToken, registered,
                 clientAddr, recorded, born, accepted>>

\* The handling of an event that only closes expired connections.
OnlyExpire ==
  /\ conns' = Unexpired
  /\ deadlines' = deadlines \ Overdue
  /\ ended' = EndedByTimer
  /\ UNCHANGED <<now, nextToken, running, clientAddr, recorded, born, accepted>>

AcceptWouldBlock(e) ==
  /\ TakeListenerEvent(e)
  /\ backlog = <<>>
  /\ OnlyExpire
  /\ UNCHANGED <<clientVars, registered, errors>>

\* accept(2) fails: the address is bound anew, which may fail; the old socket
\* and its backlog go when it does not; the new one may stay unregistered.
AcceptFails(e) ==
  /\ TakeListenerEvent(e)
  /\ errors < MaxErrors
  /\ errors' = errors + 1
  /\ OnlyExpire
  /\ \/ UNCHANGED <<clientVars, registered>>
     \/ /\ backlog' = <<>>
        /\ sock' = [c \in Clients |->
             [sock[c] EXCEPT !.reset =
                @ \/ \E i \in DOMAIN backlog : backlog[i] = c]]
        /\ registered' \in BOOLEAN

-----------------------------------------------------------------------------
(* A connection is ready.                                                  *)

\* What read_tls may return: an error, or a prefix of what has arrived, which
\* is empty at the end of file.
ReadError == <<"error">>

Reads(s) ==
  {SubSeq(s.in, 1, n) :
     n \in {m \in 0 .. Len(s.in) : m > 0 \/ (s.in = <<>> /\ ~s.reset)}}
  \cup {r \in {ReadError} : s.reset}

\* read_ready, for a connection and what was read.
Answered(conn, data) ==
  /\ conn.state \in {"Connected", "TlsHandshaking", "Opened"}
  /\ \E i \in DOMAIN data : data[i] = "rest"

ReadReady(conn, data) ==
  LET has(x) == \E i \in DOMAIN data : data[i] = x
      closes == data = <<>> \/ has("error") \/ has("bad")
      state == IF conn.state = "Connected" THEN "TlsHandshaking"
                                           ELSE conn.state
      opened == IF state = "TlsHandshaking" /\ has("part") THEN "Opened"
                                                           ELSE state
  IN
  [conn EXCEPT
     !.state = IF closes THEN "Closed"
               ELSE IF Answered(conn, data) THEN "ResponseSent" ELSE opened,
     !.out = @ + (IF has("hello") THEN 1 ELSE 0)
               + (IF ~closes /\ Answered(conn, data) THEN 1 ELSE 0)]

\* Mutant: a closed connection stays in the table.
KeptRemoved(conn) == conn

Removed(conn) == IF conn.state = "Closed" THEN None ELSE conn

TakeConnEvent(e) ==
  /\ TakeEvent(e)
  /\ e.token # LISTENER_MIO_TOKEN
  /\ ~ExpiryPanics

\* The socket after so many items were read and so many flights written.
Served(s, items, flights) ==
  [s EXCEPT !.in = SubSeq(s.in, items + 1, Len(s.in)),
            !.flights = s.flights + flights]

\* ready(): read, then write, then leave the table if closed.  Reading may shut
\* a connection down twice, for a TLS error and for what came before it.
\* Writing to a connection that was reset, or that reading has just shut down,
\* fails, and shuts it down (again).
Ready(e) ==
  /\ TakeConnEvent(e)
  /\ Unexpired[e.token] # None
  /\ \E data \in IF e.read THEN Reads(sock[conns[e.token].client])
                           ELSE {<<>>} :
       LET old == conns[e.token]
           c == old.client
           conn == IF e.read THEN ReadReady(old, data) ELSE old
           shut == e.read /\ conn.state = "Closed"
           twice == \/ old.state = "Closed"
                    \/ \E i \in DOMAIN data : data[i] = "bad"
           fails == e.write /\ (shut \/ sock[c].reset)
           answered == e.read /\ ~shut /\ Answered(old, data)
           last == IF fails THEN [conn EXCEPT !.state = "Closed"]
                   ELSE IF e.write THEN [conn EXCEPT !.out = 0] ELSE conn
       IN
       \/ /\ \/ shut /\ ShutdownPanics(sock[c], twice)
             \/ fails /\ ShutdownPanics(sock[c], shut)
          /\ Die
       \/ /\ ~sock[c].reset \/ ~(shut \/ fails)
          /\ conns' = [Unexpired EXCEPT ![e.token] = Removed(last)]
          /\ ended' = [EndedByTimer EXCEPT
                         ![c] = IF last.state = "Closed" THEN "self" ELSE @]
          /\ sock' = [sock EXCEPT ![c] =
               Served(sock[c],
                      IF e.read /\ data # ReadError THEN Len(data) ELSE 0,
                      IF e.write /\ ~fails THEN conn.out ELSE 0)]
          /\ recorded' = IF answered /\ clientAddr \in Measured
                         THEN recorded \cup {c} ELSE recorded
          /\ deadlines' = deadlines \ Overdue
          /\ UNCHANGED <<now, backlog, nextToken, registered, errors, running,
                         clientAddr, born, accepted>>

\* The connection of the event has just expired: the event is ignored.
Stale(e) ==
  /\ TakeConnEvent(e)
  /\ Unexpired[e.token] = None
  /\ OnlyExpire
  /\ UNCHANGED <<clientVars, registered, errors>>

-----------------------------------------------------------------------------
Handle ==
  \E e \in events :
    \/ ExpiryDies(e)
    \/ Accept(e)
    \/ AcceptDies(e)
    \/ RegisterDies(e)
    \/ AcceptWouldBlock(e)
    \/ AcceptFails(e)
    \/ Ready(e)
    \/ Stale(e)

Client ==
  \E c \in Clients : Connect(c) \/ Send(c) \/ SendBad(c) \/ Close(c) \/ Abort(c)

Next == Tick \/ Client \/ Poll \/ Handle

\* The thread of the listener is scheduled; nothing is asked of the clients.
Spec == Init /\ [][Next]_vars /\ WF_vars(Poll \/ Handle)

-----------------------------------------------------------------------------
\* Every variable keeps its type; no connection gets more than a handshake and
\* one response.
TypeOK ==
  /\ now \in 0 .. MaxTime
  /\ backlog \in Seq(Clients)
  /\ sock \in [Clients -> Sockets]
  /\ conns \in [Tokens -> Connections \cup {None}]
  /\ \A d \in deadlines : d.at \in Nat /\ d.token \in Tokens
  /\ nextToken \in Tokens
  /\ registered \in BOOLEAN
  /\ errors \in 0 .. MaxErrors
  /\ running \in BOOLEAN
  /\ clientAddr \in Clients \cup {None}
  /\ recorded \subseteq Clients
  /\ born \in [Clients -> Int]
  /\ ended \in [Clients -> {"no", "timer", "self", "register"}]
  /\ accepted \in Nat

\* Every connection in the table is due to expire Timeout seconds after it was
\* accepted, and at no other time: the heap holds that deadline for its token
\* and no deadline of an earlier connection.
DeadlinesMatch ==
  \A t \in Live :
    {d \in deadlines : d.token = t}
      = {[at |-> born[conns[t].client] + Timeout, token |-> t]}

\* Nothing is read from or written to a connection whose deadline has passed,
\* although connections expire only when some event comes in.
NoServiceAfterDeadline ==
  [][ \A t \in Live :
        conns'[t] # None /\ conns'[t] # conns[t] =>
          now <= born[conns[t].client] + Timeout ]_vars

\* The unwraps of shutdown() and peer_addr() take the listener down only when
\* a client aborted its connection or closed it without waiting for the answer;
\* the unwrap of register() needs no client.
PanicNeedsEarlyLeaver ==
  ~running =>
    \E c \in Clients : \/ sock[c].reset
                       \/ sock[c].fin /\ sock[c].flights < 2
                       \/ ended[c] = "register"

\* A client whose whole request has been sent gets the response, unless the
\* connection is dropped, it leaves, or the listener can no longer accept.
AnsweredOrDropped ==
  \A c \in Clients :
    sock[c].phase = 3 ~>
      \/ sock[c].flights = 2
      \/ ended[c] # "no"
      \/ sock[c].fin
      \/ sock[c].reset
      \/ ~running
      \/ ~registered

\* "only write measurements related to the measurement client" (response).
OnlyMeasuredRecorded ==
  recorded \subseteq Measured

=============================================================================
