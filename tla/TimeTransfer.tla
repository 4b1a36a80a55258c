---------------------------- MODULE TimeTransfer ----------------------------
(***************************************************************************)
(* What an authenticated time exchange promises, whatever the network      *)
(* does: a client asks, a server whose clock is Skew seconds ahead stamps  *)
(* the query and the answer, the client takes the answer to its last query *)
(* or none, and computes the offset of the two clocks from four times.     *)
(***************************************************************************)
EXTENDS Clocks

CONSTANT None   \* no result

VARIABLES
  now,        \* the client's clock, in seconds since 1900
  n,          \* number of the last query
  pending,    \* does the client wait for its answer?
  t1,         \* when that query was sent
  served,     \* the answers made so far
  result      \* what the client made of the last answer it took

vars == <<now, n, pending, t1, served, result>>

\* ntp_timestamp and timestamp_to_float: the seconds, shifted into and out of
\* the upper half of 64 bits.
Stamp(t) == t % Era

\* The server's clock is past 1900 ("Safe absent time machines").
Init ==
  /\ now \in Nat
  /\ now + Skew >= 0
  /\ n = 0
  /\ pending = FALSE
  /\ t1 = now
  /\ served = {}
  /\ result = None

Tick ==
  /\ now' = now + 1
  /\ UNCHANGED <<n, pending, t1, served, result>>

Ask ==
  /\ ~pending
  /\ n' = n + 1
  /\ pending' = TRUE
  /\ t1' = now
  /\ UNCHANGED <<now, served, result>>

\* An answer to the last query is received after the query was sent and sent
\* after it was received; nothing is known of answers to earlier queries.
Serve ==
  /\ \E a \in served' :
       /\ served' = served \cup {a}
       /\ a.n \in 1 .. n
       /\ a.rx \in Int /\ a.tx \in Int
       /\ a.n = n => t1 <= a.rx /\ a.rx <= a.tx /\ a.tx <= now
  /\ UNCHANGED <<now, n, pending, t1, result>>

\* Twice the offset: (T2 - T1) + (T3 - T4).
TwiceOffset(a) ==
  (Stamp(a.rx + Skew) - t1) + (Stamp(a.tx + Skew) - now)

Accept(a) ==
  /\ pending
  /\ a.n = n
  /\ pending' = FALSE
  /\ result' = [twice |-> TwiceOffset(a), delay |-> now - t1,
                sent |-> a.tx + Skew]
  /\ UNCHANGED <<now, n, t1, served>>

\* A timeout, a kiss of death or an answer to another query.
Fail ==
  /\ pending
  /\ pending' = FALSE
  /\ UNCHANGED <<now, n, t1, served, result>>

Next ==
  \/ Tick
  \/ Ask
  \/ Serve
  \/ \E a \in served : Accept(a)
  \/ Fail

Spec == Init /\ [][Next]_vars

-----------------------------------------------------------------------------
\* The computed offset is wrong by at most half the time the exchange took, up
\* to a multiple of half an era: exactly so until the timestamps wrap (2036),
\* and by as many eras as the two timestamps have lost afterwards.
OffsetErrorBounded ==
  result # None =>
    \E lost \in 0 .. 2 * (result.sent \div Era) :
      LET error == result.twice - 2 * Skew + lost * Era
      IN -result.delay <= error /\ error <= result.delay

=============================================================================
