--------------------------- MODULE KeStreamProofs ---------------------------
(***************************************************************************)
(* What read_ready makes of a request, for every request, whatever the     *)
(* pieces it arrives in.                                                   *)
(***************************************************************************)
EXTENDS KeStream, FiniteSetTheorems, WellFoundedInduction, TLAPS

\* Every set of naturals has a least element.
LEMMA Least ==
  ASSUME NEW T, T \subseteq Nat, T # {}
  PROVE  \E x \in T : \A y \in T : x <= y
<1>1. IsWellFoundedOn(OpToRel(<, Nat), Nat)
  BY NatLessThanWellFounded, Zenon
<1>2. PICK x \in T : \A y \in T : ~(<<y, x>> \in OpToRel(<, Nat))
  BY <1>1, WFMin, Zenon
<1>3. \A y \in T : ~(y < x)
  BY <1>2, Zenon DEF OpToRel
<1> QED BY <1>3

\* What holds of 0, and of i if it holds of i - 1, holds up to n.
LEMMA Induction ==
  ASSUME NEW n \in Nat, NEW P, 0 \in P, \A i \in 1 .. n : i - 1 \in P => i \in P
  PROVE  0 .. n \subseteq P
<1> DEFINE T == {i \in 0 .. n : i \notin P}
<1> SUFFICES ASSUME T # {} PROVE FALSE
  BY Zenon
<1>1. T \subseteq Nat
  OBVIOUS
<1>2. PICK k \in T : \A j \in T : k <= j
  <2> HIDE DEF T
  <2> QED BY <1>1, Least, Zenon
<1>3. k \in 1 .. n /\ k - 1 \in 0 .. n /\ ~(k <= k - 1)
  BY <1>2
<1> QED BY <1>2, <1>3, Zenon

\* f goes from base to base + n by steps.
Computes(f, n, base, step) ==
  f[0] = base /\ \A i \in 1 .. n : f[i] = step[<<i, f[i - 1]>>]

\* A function on 0 .. n can be defined from each value to the next.
LEMMA Recursion ==
  ASSUME NEW n \in Nat, NEW S, NEW base \in S, NEW step \in [(1 .. n) \X S -> S]
  PROVE  \E f \in [0 .. n -> S] :
           Computes(f, n, base, step)
<1> DEFINE Good(k, f) == f[0] = base /\ \A i \in 1 .. k : f[i] = step[<<i, f[i - 1]>>]
<1> DEFINE P == {k \in 0 .. n : \E f \in [0 .. k -> S] : Good(k, f)}
<1>1. 0 \in P
  <2> DEFINE g == [i \in 0 .. 0 |-> base]
  <2>1. Good(0, g) /\ g \in [0 .. 0 -> S] /\ 0 \in 0 .. n
    OBVIOUS
  <2> HIDE DEF g, Good
  <2> QED BY <2>1, Zenon
<1>2. ASSUME NEW k \in 1 .. n, k - 1 \in P
      PROVE  k \in P
  <2>1. PICK f \in [0 .. k - 1 -> S] : Good(k - 1, f)
    BY <1>2, Zenon
  <2> DEFINE g == [i \in 0 .. k |-> IF i = k THEN step[<<k, f[k - 1]>>] ELSE f[i]]
  <2>2. g \in [0 .. k -> S]
    BY <2>1
  <2>3. /\ g[k] = step[<<k, f[k - 1]>>]
        /\ \A i \in 0 .. k - 1 : g[i] = f[i]
    OBVIOUS
  <2>4. k \in 0 .. n
    OBVIOUS
  <2> HIDE DEF g
  <2>5. Good(k, g)
    <3>1. g[0] = base
      BY <2>1, <2>3
    <3>2. ASSUME NEW i \in 1 .. k PROVE g[i] = step[<<i, g[i - 1]>>]
      <4>1. g[i - 1] = f[i - 1]
        BY <2>3
      <4>2. CASE i = k
        BY <4>1, <4>2, <2>3, Zenon
      <4>3. CASE i # k
        <5>1. i \in 1 .. k - 1 /\ i \in 0 .. k - 1
          BY <4>3
        <5> QED BY <5>1, <4>1, <2>1, <2>3, Zenon
      <4> QED BY <4>2, <4>3, Zenon
    <3> QED BY <3>1, <3>2, Zenon
  <2> HIDE DEF Good
  <2> QED BY <2>2, <2>4, <2>5, Zenon
<1>3. n \in P
  <2> HIDE DEF P
  <2> QED BY <1>1, <1>2, Induction
<1> QED BY <1>3, Zenon DEF Computes

-----------------------------------------------------------------------------
(* The records.                                                            *)

Codes == Seq(0 .. 2^16 - 1)

KeState ==
  [finished : BOOLEAN, failed : BOOLEAN, next_protocols : Codes,
   aead_scheme : Codes, cookies : Seq(Codes), next_server : Codes,
   next_port : Codes]

\* A record's body is a sequence of codes.
LEMMA RecordIs ==
  ASSUME NEW r \in Record
  PROVE  r.codes \in Codes /\ r.odd \in {0, 1} /\ Len(r.codes) \in Nat
<1>1. r.codes \in Codes /\ r.odd \in {0, 1}
  BY Zenon DEF Record, Codes
<1>2. ASSUME NEW S, NEW s \in Seq(S) PROVE Len(s) \in Nat
  OBVIOUS
<1> QED BY <1>1, <1>2, Zenon DEF Codes

\* A record that deserialize accepts and whose type is this one.
Has(r, type) == deserialize(r) = "record" /\ RecordType(r) = type

\* Nothing has been received yet.
LEMMA NoRecordsType == NoRecords \in KeState /\ ~Decided(NoRecords)
<1>1. <<>> \in Codes /\ <<>> \in Seq(Codes)
  BY DEF Codes
<1> HIDE DEF Codes
<1> QED BY <1>1, Zenon DEF NoRecords, KeState, Decided

\* deserialize has three results, and the records that it accepts have one of
\* the eight types that it knows.
LEMMA DeserializeIs ==
  ASSUME NEW r \in Record
  PROVE  /\ deserialize(r) \in {"record", "skip", "fatal"}
         /\ deserialize(r) = "record" =>
              \/ RecordType(r) = EndOfMessage
              \/ RecordType(r) = NextProtocol
              \/ RecordType(r) = Error
              \/ RecordType(r) = Warning
              \/ RecordType(r) = AeadAlgorithm
              \/ RecordType(r) = NewCookie
              \/ RecordType(r) = Server
              \/ RecordType(r) = Port
<1>1. deserialize(r) = "record" => RecordType(r) \in EndOfMessage .. Port
  BY Zenon DEF deserialize
<1>2. RecordType(r) \in EndOfMessage .. Port =>
        RecordType(r) \in {0, 1, 2, 3, 4, 5, 6, 7}
  BY DEF EndOfMessage, Port
<1>3. deserialize(r) \in {"record", "skip", "fatal"}
  BY Zenon DEF deserialize
<1> QED BY <1>1, <1>2, <1>3, Zenon
    DEF EndOfMessage, NextProtocol, Error, Warning, AeadAlgorithm, NewCookie, Server, Port

\* What one turn changes: the field of the record's type and no other.
Changes(st, r, new) ==
  /\ new \in KeState
  /\ (new.finished <=> Has(r, EndOfMessage))
  /\ (new.failed <=> (deserialize(r) = "fatal" \/ Has(r, Error)))
  /\ new.next_protocols = IF Has(r, NextProtocol) THEN r.codes ELSE st.next_protocols
  /\ new.aead_scheme = IF Has(r, AeadAlgorithm) THEN r.codes ELSE st.aead_scheme
  /\ new.cookies = IF Has(r, NewCookie) THEN Append(st.cookies, r.codes) ELSE st.cookies
  /\ new.next_server = IF Has(r, Server) THEN r.codes ELSE st.next_server
  /\ new.next_port = IF Has(r, Port) THEN r.codes ELSE st.next_port

\* process_record, and the callers' treatment of deserialize's errors.
LEMMA StepIs ==
  ASSUME NEW st \in KeState, NEW r \in Record, ~Decided(st)
  PROVE  Changes(st, r, Step(st, r))
<1>1. r.codes \in Codes /\ ~st.finished /\ ~st.failed /\ st.cookies \in Seq(Codes)
  BY RecordIs, Zenon DEF Decided, KeState
<1>2. Append(st.cookies, r.codes) \in Seq(Codes)
  BY <1>1
<1>3. CASE deserialize(r) = "skip"
  <2>1. Step(st, r) = st
    BY <1>3, Zenon DEF Step
  <2>2. \A type : ~Has(r, type)
    BY <1>3, Zenon DEF Has
  <2> QED BY <2>1, <2>2, <1>1, <1>3, Zenon DEF Changes, KeState
<1>4. CASE deserialize(r) = "fatal"
  <2>1. Step(st, r) = [st EXCEPT !.failed = TRUE]
    BY <1>4, Zenon DEF Step
  <2>2. \A type : ~Has(r, type)
    BY <1>4, Zenon DEF Has
  <2> QED BY <2>1, <2>2, <1>1, <1>4, Zenon DEF Changes, KeState
<1>5. CASE deserialize(r) = "record"
  <2>1. Step(st, r) = process_record(st, r)
    BY <1>5, Zenon DEF Step
  <2>2. ~(deserialize(r) = "fatal")
    BY <1>5, Zenon
  <2>3. CASE RecordType(r) = EndOfMessage
    <3>1. process_record(st, r) = [st EXCEPT !.finished = TRUE]
      BY <2>3 DEF process_record, EndOfMessage, NextProtocol, Error, Warning, AeadAlgorithm, NewCookie, Server, Port
    <3>2. /\ Has(r, EndOfMessage)
          /\ ~Has(r, NextProtocol)
          /\ ~Has(r, Error)
          /\ ~Has(r, Warning)
          /\ ~Has(r, AeadAlgorithm)
          /\ ~Has(r, NewCookie)
          /\ ~Has(r, Server)
          /\ ~Has(r, Port)
      BY <2>3, <1>5 DEF Has, EndOfMessage, NextProtocol, Error, Warning, AeadAlgorithm, NewCookie, Server, Port
    <3> QED BY <3>1, <3>2, <2>1, <2>2, <1>1, <1>2, Zenon DEF Changes, KeState
  <2>4. CASE RecordType(r) = NextProtocol
    <3>1. process_record(st, r) = [st EXCEPT !.next_protocols = r.codes]
      BY <2>4 DEF process_record, EndOfMessage, NextProtocol, Error, Warning, AeadAlgorithm, NewCookie, Server, Port
    <3>2. /\ Has(r, NextProtocol)
          /\ ~Has(r, EndOfMessage)
          /\ ~Has(r, Error)
          /\ ~Has(r, Warning)
          /\ ~Has(r, AeadAlgorithm)
          /\ ~Has(r, NewCookie)
          /\ ~Has(r, Server)
          /\ ~Has(r, Port)
      BY <2>4, <1>5 DEF Has, EndOfMessage, NextProtocol, Error, Warning, AeadAlgorithm, NewCookie, Server, Port
    <3> QED BY <3>1, <3>2, <2>1, <2>2, <1>1, <1>2, Zenon DEF Changes, KeState
  <2>5. CASE RecordType(r) = Error
    <3>1. process_record(st, r) = [st EXCEPT !.failed = TRUE]
      BY <2>5 DEF process_record, EndOfMessage, NextProtocol, Error, Warning, AeadAlgorithm, NewCookie, Server, Port
    <3>2. /\ Has(r, Error)
          /\ ~Has(r, EndOfMessage)
          /\ ~Has(r, NextProtocol)
          /\ ~Has(r, Warning)
          /\ ~Has(r, AeadAlgorithm)
          /\ ~Has(r, NewCookie)
          /\ ~Has(r, Server)
          /\ ~Has(r, Port)
      BY <2>5, <1>5 DEF Has, EndOfMessage, NextProtocol, Error, Warning, AeadAlgorithm, NewCookie, Server, Port
    <3> QED BY <3>1, <3>2, <2>1, <2>2, <1>1, <1>2, Zenon DEF Changes, KeState
  <2>6. CASE RecordType(r) = Warning
    <3>1. process_record(st, r) = st
      BY <2>6 DEF process_record, EndOfMessage, NextProtocol, Error, Warning, AeadAlgorithm, NewCookie, Server, Port
    <3>2. /\ Has(r, Warning)
          /\ ~Has(r, EndOfMessage)
          /\ ~Has(r, NextProtocol)
          /\ ~Has(r, Error)
          /\ ~Has(r, AeadAlgorithm)
          /\ ~Has(r, NewCookie)
          /\ ~Has(r, Server)
          /\ ~Has(r, Port)
      BY <2>6, <1>5 DEF Has, EndOfMessage, NextProtocol, Error, Warning, AeadAlgorithm, NewCookie, Server, Port
    <3> QED BY <3>1, <3>2, <2>1, <2>2, <1>1, <1>2, Zenon DEF Changes, KeState
  <2>7. CASE RecordType(r) = AeadAlgorithm
    <3>1. process_record(st, r) = [st EXCEPT !.aead_scheme = r.codes]
      BY <2>7 DEF process_record, EndOfMessage, NextProtocol, Error, Warning, AeadAlgorithm, NewCookie, Server, Port
    <3>2. /\ Has(r, AeadAlgorithm)
          /\ ~Has(r, EndOfMessage)
          /\ ~Has(r, NextProtocol)
          /\ ~Has(r, Error)
          /\ ~Has(r, Warning)
          /\ ~Has(r, NewCookie)
          /\ ~Has(r, Server)
          /\ ~Has(r, Port)
      BY <2>7, <1>5 DEF Has, EndOfMessage, NextProtocol, Error, Warning, AeadAlgorithm, NewCookie, Server, Port
    <3> QED BY <3>1, <3>2, <2>1, <2>2, <1>1, <1>2, Zenon DEF Changes, KeState
  <2>8. CASE RecordType(r) = NewCookie
    <3>1. process_record(st, r) = [st EXCEPT !.cookies = Append(st.cookies, r.codes)]
      BY <2>8 DEF process_record, EndOfMessage, NextProtocol, Error, Warning, AeadAlgorithm, NewCookie, Server, Port
    <3>2. /\ Has(r, NewCookie)
          /\ ~Has(r, EndOfMessage)
          /\ ~Has(r, NextProtocol)
          /\ ~Has(r, Error)
          /\ ~Has(r, Warning)
          /\ ~Has(r, AeadAlgorithm)
          /\ ~Has(r, Server)
          /\ ~Has(r, Port)
      BY <2>8, <1>5 DEF Has, EndOfMessage, NextProtocol, Error, Warning, AeadAlgorithm, NewCookie, Server, Port
    <3> QED BY <3>1, <3>2, <2>1, <2>2, <1>1, <1>2, Zenon DEF Changes, KeState
  <2>9. CASE RecordType(r) = Server
    <3>1. process_record(st, r) = [st EXCEPT !.next_server = r.codes]
      BY <2>9 DEF process_record, EndOfMessage, NextProtocol, Error, Warning, AeadAlgorithm, NewCookie, Server, Port
    <3>2. /\ Has(r, Server)
          /\ ~Has(r, EndOfMessage)
          /\ ~Has(r, NextProtocol)
          /\ ~Has(r, Error)
          /\ ~Has(r, Warning)
          /\ ~Has(r, AeadAlgorithm)
          /\ ~Has(r, NewCookie)
          /\ ~Has(r, Port)
      BY <2>9, <1>5 DEF Has, EndOfMessage, NextProtocol, Error, Warning, AeadAlgorithm, NewCookie, Server, Port
    <3> QED BY <3>1, <3>2, <2>1, <2>2, <1>1, <1>2, Zenon DEF Changes, KeState
  <2>10. CASE RecordType(r) = Port
    <3>1. process_record(st, r) = [st EXCEPT !.next_port = r.codes]
      BY <2>10 DEF process_record, EndOfMessage, NextProtocol, Error, Warning, AeadAlgorithm, NewCookie, Server, Port
    <3>2. /\ Has(r, Port)
          /\ ~Has(r, EndOfMessage)
          /\ ~Has(r, NextProtocol)
          /\ ~Has(r, Error)
          /\ ~Has(r, Warning)
          /\ ~Has(r, AeadAlgorithm)
          /\ ~Has(r, NewCookie)
          /\ ~Has(r, Server)
      BY <2>10, <1>5 DEF Has, EndOfMessage, NextProtocol, Error, Warning, AeadAlgorithm, NewCookie, Server, Port
    <3> QED BY <3>1, <3>2, <2>1, <2>2, <1>1, <1>2, Zenon DEF Changes, KeState
  <2> QED BY <2>3, <2>4, <2>5, <2>6, <2>7, <2>8, <2>9, <2>10, <1>5, DeserializeIs, Zenon
<1> QED BY <1>3, <1>4, <1>5, DeserializeIs, Zenon

\* A turn keeps the type of the state, and changes nothing once it is decided.
LEMMA TurnIs ==
  ASSUME NEW st \in KeState, NEW r \in Record
  PROVE  /\ Turn(st, r) \in KeState
         /\ Decided(st) => Turn(st, r) = st
         /\ ~Decided(st) => Changes(st, r, Turn(st, r))
<1>1. CASE Decided(st)
  BY <1>1, Zenon DEF Turn
<1>2. CASE ~Decided(st)
  <2>1. Turn(st, r) = Step(st, r)
    BY <1>2, Zenon DEF Turn
  <2>2. Changes(st, r, Step(st, r))
    BY <1>2, StepIs, Zenon
  <2> QED BY <1>2, <2>1, <2>2, Zenon DEF Changes
<1> QED BY <1>1, <1>2, Zenon

\* f goes from st over the records, one turn after the other.
Turns(f, st, rs) ==
  f[0] = st /\ \A i \in 1 .. Len(rs) : f[i] = Turn(f[i - 1], rs[i])

\* Two functions that do that are the same.
LEMMA TurnsUnique ==
  ASSUME NEW st, NEW rs, Len(rs) \in Nat, NEW f, NEW g,
         Turns(f, st, rs), Turns(g, st, rs)
  PROVE  f[Len(rs)] = g[Len(rs)]
<1> DEFINE n == Len(rs)
           P == {i \in 0 .. n : f[i] = g[i]}
<1>1. 0 \in P
  BY DEF Turns
<1>2. ASSUME NEW i \in 1 .. n, i - 1 \in P PROVE i \in P
  <2>1. f[i - 1] = g[i - 1] /\ i \in 0 .. n
    BY <1>2
  <2>2. f[i] = Turn(f[i - 1], rs[i]) /\ g[i] = Turn(g[i - 1], rs[i])
    BY Zenon DEF Turns
  <2> QED BY <2>1, <2>2, Zenon
<1> HIDE DEF P, n
<1>3. n \in Nat
  BY Zenon DEF n
<1>4. 0 .. n \subseteq P
  BY <1>1, <1>2, <1>3, Induction, Zenon
<1> QED BY <1>3, <1>4 DEF P, n

\* Loop goes over its records in turns.
LEMMA LoopIs ==
  ASSUME NEW st \in KeState, NEW rs \in Seq(Record)
  PROVE  \E f \in [0 .. Len(rs) -> KeState] :
           Turns(f, st, rs) /\ Loop(st, rs) = f[Len(rs)]
<1>1. PICK n \in Nat : n = Len(rs) /\ DOMAIN rs = 1 .. n
  OBVIOUS
<1>2. PICK step : step = [x \in (1 .. n) \X KeState |-> Turn(x[2], rs[x[1]])]
  BY Zenon
<1>3. step \in [(1 .. n) \X KeState -> KeState]
  <2>1. ASSUME NEW x \in (1 .. n) \X KeState PROVE Turn(x[2], rs[x[1]]) \in KeState
    <3>1. x[2] \in KeState /\ rs[x[1]] \in Record
      BY <1>1
    <3> QED BY <3>1, TurnIs, Zenon
  <2> QED BY <1>2, <2>1, Zenon
<1>4. PICK f \in [0 .. n -> KeState] : Computes(f, n, st, step)
  BY <1>3, Recursion, Zenon
<1>5. \A i \in 1 .. n : f[i] = Turn(f[i - 1], rs[i])
  <2> TAKE i \in 1 .. n
  <2>1. <<i, f[i - 1]>> \in (1 .. n) \X KeState
    BY <1>4
  <2>2. step[<<i, f[i - 1]>>] = Turn(f[i - 1], rs[i])
    BY <2>1, <1>2, Zenon
  <2> QED BY <2>2, <1>4, Zenon DEF Computes
<1> DEFINE Pass(g) == [i \in 0 .. n |-> IF i = 0 THEN st ELSE Turn(g[i - 1], rs[i])]
<1>6. f = Pass(f)
  BY <1>4, <1>5 DEF Computes
<1> DEFINE after == CHOOSE g : g = Pass(g)
<1>7. after = Pass(after)
  BY <1>6, Zenon
<1>8. Loop(st, rs) = after[n]
  BY <1>1, Zenon DEF Loop
<1> HIDE DEF after
<1>9. Turns(after, st, rs) /\ Turns(f, st, rs)
  <2>1. after[0] = st /\ \A i \in 1 .. n : after[i] = Turn(after[i - 1], rs[i])
    BY <1>7
  <2> QED BY <2>1, <1>1, <1>4, <1>5, Zenon DEF Turns, Computes
<1>10. after[n] = f[n]
  BY <1>1, <1>9, TurnsUnique, Zenon
<1> QED BY <1>1, <1>4, <1>8, <1>9, <1>10, Zenon


-----------------------------------------------------------------------------
(* A request, record by record.                                            *)

\* The state after the first k records of q.
After(q, k) == Loop(NoRecords, SubSeq(q, 1, k))

\* The records from p + 1 to m.
LEMMA Piece ==
  ASSUME NEW q \in Seq(Record), NEW p \in 0 .. Len(q), NEW m \in p .. Len(q)
  PROVE  /\ SubSeq(q, p + 1, m) \in Seq(Record)
         /\ Len(SubSeq(q, p + 1, m)) = m - p
         /\ \A i \in 1 .. m - p : SubSeq(q, p + 1, m)[i] = q[p + i]
<1>1. SubSeq(q, p + 1, m) \in Seq(Record)
  OBVIOUS
<1>2. Len(SubSeq(q, p + 1, m)) = m - p
  OBVIOUS
<1>3. \A i \in 1 .. m - p : SubSeq(q, p + 1, m)[i] = q[p + i]
  OBVIOUS
<1> QED BY <1>1, <1>2, <1>3, Zenon

\* The loop over the records from p on takes one more turn for one more record.
LEMMA LoopExtends ==
  ASSUME NEW st \in KeState, NEW q \in Seq(Record),
         NEW p \in 0 .. Len(q), NEW m \in p + 1 .. Len(q)
  PROVE  /\ Loop(st, SubSeq(q, p + 1, m - 1)) \in KeState
         /\ Loop(st, SubSeq(q, p + 1, m)) =
              Turn(Loop(st, SubSeq(q, p + 1, m - 1)), q[m])
<1> DEFINE rs == SubSeq(q, p + 1, m)
           ss == SubSeq(q, p + 1, m - 1)
<1>1. /\ rs \in Seq(Record)
      /\ Len(rs) = m - p
      /\ \A i \in 1 .. m - p : rs[i] = q[p + i]
  <2>1. m \in p .. Len(q)
    OBVIOUS
  <2> QED BY <2>1, Piece, Zenon
<1>2. /\ ss \in Seq(Record)
      /\ Len(ss) = (m - 1) - p
      /\ \A i \in 1 .. (m - 1) - p : ss[i] = q[p + i]
  <2>1. m - 1 \in p .. Len(q)
    OBVIOUS
  <2> QED BY <2>1, Piece, Zenon
<1> HIDE DEF rs, ss
<1>3. PICK f \in [0 .. Len(rs) -> KeState] :
         Turns(f, st, rs) /\ Loop(st, rs) = f[Len(rs)]
  BY <1>1, LoopIs, Zenon
<1>4. PICK g \in [0 .. Len(ss) -> KeState] :
         Turns(g, st, ss) /\ Loop(st, ss) = g[Len(ss)]
  BY <1>2, LoopIs, Zenon
<1>5. PICK n \in Nat : n = m - 1 - p
  OBVIOUS
<1>6. Turns(f, st, ss)
  <2>1. \A i \in 1 .. n : ss[i] = rs[i] /\ i \in 1 .. Len(rs)
    BY <1>1, <1>2, <1>5
  <2> QED BY <2>1, <1>2, <1>3, <1>5, Zenon DEF Turns
<1>7. f[n] = g[n]
  <2>1. Len(ss) = n
    BY <1>2, <1>5, Zenon
  <2> QED BY <2>1, <1>4, <1>6, TurnsUnique, Zenon
<1>8. f[Len(rs)] = Turn(f[n], q[m]) /\ g[n] \in KeState
  <2>1. Len(rs) \in 1 .. Len(rs) /\ Len(rs) - 1 = n /\ rs[Len(rs)] = q[m]
    BY <1>1, <1>5
  <2>2. n \in 0 .. Len(ss)
    BY <1>2, <1>5
  <2> QED BY <2>1, <2>2, <1>3, <1>4, Zenon DEF Turns
<1>9. Loop(st, ss) = g[n]
  BY <1>4, <1>2, <1>5, Zenon
<1> QED BY <1>3, <1>7, <1>8, <1>9, Zenon DEF rs, ss

\* Over no record the loop does nothing.
LEMMA LoopEmpty ==
  ASSUME NEW st \in KeState, NEW q \in Seq(Record), NEW p \in 0 .. Len(q)
  PROVE  Loop(st, SubSeq(q, p + 1, p)) = st
<1> DEFINE rs == SubSeq(q, p + 1, p)
<1>1. rs \in Seq(Record) /\ Len(rs) = 0
  <2>1. p \in p .. Len(q) /\ p - p = 0
    OBVIOUS
  <2> QED BY <2>1, Piece, Zenon
<1> HIDE DEF rs
<1>2. PICK f \in [0 .. Len(rs) -> KeState] :
         Turns(f, st, rs) /\ Loop(st, rs) = f[Len(rs)]
  BY <1>1, LoopIs, Zenon
<1> QED BY <1>1, <1>2, Zenon DEF Turns, rs

\* After is the state record by record.
LEMMA AfterIs ==
  ASSUME NEW q \in Seq(Record)
  PROVE  /\ After(q, 0) = NoRecords
         /\ \A k \in 1 .. Len(q) : After(q, k) = Turn(After(q, k - 1), q[k])
         /\ \A k \in 0 .. Len(q) : After(q, k) \in KeState
<1>1. 0 \in 0 .. Len(q) /\ 0 + 1 = 1
  OBVIOUS
<1>2. After(q, 0) = NoRecords
  BY <1>1, LoopEmpty, NoRecordsType, Zenon DEF After
<1>3. ASSUME NEW k \in 1 .. Len(q)
      PROVE  /\ After(q, k) = Turn(After(q, k - 1), q[k])
             /\ After(q, k - 1) \in KeState
             /\ After(q, k) \in KeState
  <2>1. k \in 0 + 1 .. Len(q) /\ q[k] \in Record
    OBVIOUS
  <2>2. /\ After(q, k) = Turn(After(q, k - 1), q[k])
        /\ After(q, k - 1) \in KeState
    <3>1. /\ Loop(NoRecords, SubSeq(q, 0 + 1, k - 1)) \in KeState
          /\ Loop(NoRecords, SubSeq(q, 0 + 1, k)) =
               Turn(Loop(NoRecords, SubSeq(q, 0 + 1, k - 1)), q[k])
      BY <1>1, <2>1, LoopExtends, NoRecordsType, Zenon
    <3> QED BY <3>1, <1>1, Zenon DEF After
  <2> QED BY <2>1, <2>2, TurnIs, Zenon
<1>4. \A k \in 0 .. Len(q) : k = 0 \/ k \in 1 .. Len(q)
  OBVIOUS
<1> QED BY <1>2, <1>3, <1>4, NoRecordsType, Zenon

\* A loop that goes on where another one stopped ends where one loop over all
\* the records ends: this is why the cuts do not matter.
LEMMA LoopOn ==
  ASSUME NEW q \in Seq(Record), NEW p \in 0 .. Len(q), NEW m \in p .. Len(q)
  PROVE  Loop(After(q, p), SubSeq(q, p + 1, m)) = After(q, m)
<1> DEFINE st == After(q, p)
           n == m - p
           P == {i \in 0 .. n : Loop(st, SubSeq(q, p + 1, p + i)) = After(q, p + i)}
<1>1. n \in Nat /\ p + 0 = p /\ p + n = m
  OBVIOUS
<1>2. st \in KeState
  BY AfterIs, Zenon
<1>3. 0 \in P
  <2>1. Loop(st, SubSeq(q, p + 1, p)) = st
    BY <1>2, LoopEmpty, Zenon
  <2>2. 0 \in 0 .. n
    BY <1>1
  <2> QED BY <2>1, <2>2, <1>1, Zenon
<1>4. ASSUME NEW i \in 1 .. n, i - 1 \in P PROVE i \in P
  <2>1. /\ p + i \in p + 1 .. Len(q)
        /\ p + i \in 1 .. Len(q)
        /\ i \in 0 .. n
        /\ p + (i - 1) = (p + i) - 1
    OBVIOUS
  <2>2. Loop(st, SubSeq(q, p + 1, (p + i) - 1)) = After(q, (p + i) - 1)
    BY <1>4, <2>1, Zenon
  <2>3. Loop(st, SubSeq(q, p + 1, p + i)) =
          Turn(Loop(st, SubSeq(q, p + 1, (p + i) - 1)), q[p + i])
    BY <1>2, <2>1, LoopExtends, Zenon
  <2>4. After(q, p + i) = Turn(After(q, (p + i) - 1), q[p + i])
    BY <2>1, AfterIs, Zenon
  <2> QED BY <2>1, <2>2, <2>3, <2>4, Zenon
<1>5. n \in P
  <2> HIDE DEF P, n
  <2>1. 0 .. n \subseteq P
    BY <1>1, <1>3, <1>4, Induction, Zenon
  <2>2. n \in 0 .. n
    BY <1>1
  <2> QED BY <2>1, <2>2, Zenon
<1> QED BY <1>1, <1>5, Zenon


\* The largest and the least element of a set of naturals with a bound.
LEMMA Extremes ==
  ASSUME NEW n \in Nat, NEW T, T \subseteq 0 .. n, T # {}
  PROVE  /\ Max(T) \in T /\ \A y \in T : y <= Max(T)
         /\ Min(T) \in T /\ \A y \in T : Min(T) <= y
<1>1. \E x \in T : \A y \in T : x <= y
  <2>1. T \subseteq Nat
    OBVIOUS
  <2> QED BY <2>1, Least, Zenon
<1>2. \E x \in T : \A y \in T : x >= y
  <2> DEFINE U == {n - x : x \in T}
  <2>1. U \subseteq Nat /\ U # {}
    <3>1. \A x \in T : n - x \in Nat
      OBVIOUS
    <3> QED BY <3>1, Zenon
  <2>2. PICK u \in U : \A v \in U : u <= v
    <3> HIDE DEF U
    <3> QED BY <2>1, Least, Zenon
  <2>3. PICK x \in T : u = n - x
    BY <2>2, Zenon
  <2>4. ASSUME NEW y \in T PROVE x >= y
    <3>1. n - x <= n - y
      BY <2>2, <2>3, Zenon
    <3>2. x \in Nat /\ y \in Nat
      OBVIOUS
    <3> QED BY <3>1, <3>2
  <2> QED BY <2>4, Zenon
<1>3. Max(T) \in T /\ \A y \in T : Max(T) >= y
  BY <1>2, Zenon DEF Max
<1>4. Min(T) \in T /\ \A y \in T : Min(T) <= y
  BY <1>1, Zenon DEF Min
<1>5. ASSUME NEW y \in T PROVE y <= Max(T)
  <2>1. Max(T) >= y /\ Max(T) \in 0 .. n /\ y \in 0 .. n
    BY <1>3, Zenon
  <2> QED BY <2>1, Zenon
<1> QED BY <1>3, <1>4, <1>5, Zenon

\* A record is at least its header.
LEMMA SizeIs ==
  ASSUME NEW r \in Record
  PROVE  Size(r) \in Nat /\ Size(r) >= HEADER_SIZE
BY RecordIs DEF Size, HEADER_SIZE

\* Ends adds up the sizes.
LEMMA EndsAre ==
  ASSUME NEW q \in Seq(Record)
  PROVE  /\ Ends(q) \in [0 .. Len(q) -> Nat]
         /\ Ends(q)[0] = 0
         /\ \A i \in 1 .. Len(q) : Ends(q)[i] = Ends(q)[i - 1] + Size(q[i])
<1>1. PICK n \in Nat : n = Len(q) /\ DOMAIN q = 1 .. n
  OBVIOUS
<1>2. PICK step : step = [x \in (1 .. n) \X Nat |-> x[2] + Size(q[x[1]])]
  BY Zenon
<1>3. step \in [(1 .. n) \X Nat -> Nat]
  <2>1. \A i \in 1 .. n : Size(q[i]) \in Nat
    BY <1>1, SizeIs
  <2> QED BY <1>2, <2>1
<1>4. PICK f \in [0 .. n -> Nat] : Computes(f, n, 0, step)
  <2>1. 0 \in Nat
    BY Zenon
  <2> QED BY <2>1, <1>3, Recursion, Zenon
<1>5. \A i \in 1 .. n : f[i] = f[i - 1] + Size(q[i])
  <2> TAKE i \in 1 .. n
  <2>1. <<i, f[i - 1]>> \in (1 .. n) \X Nat
    BY <1>4
  <2>2. step[<<i, f[i - 1]>>] = f[i - 1] + Size(q[i])
    BY <2>1, <1>2, Zenon
  <2> QED BY <2>2, <1>4, Zenon DEF Computes
<1> DEFINE Pass(g) == [j \in 0 .. n |-> IF j = 0 THEN 0 ELSE g[j - 1] + Size(q[j])]
<1>6. f = Pass(f)
  BY <1>4, <1>5 DEF Computes
<1> DEFINE end == CHOOSE g : g = Pass(g)
<1>7. end = Pass(end)
  BY <1>6, Zenon
<1>8. Ends(q) = end
  BY <1>1, Zenon DEF Ends
<1> HIDE DEF end
<1>9. end[0] = 0 /\ \A i \in 1 .. n : end[i] = end[i - 1] + Size(q[i])
  BY <1>7
<1>10. end = f
  <2> DEFINE P == {i \in 0 .. n : end[i] = f[i]}
  <2>1. 0 \in P
    BY <1>4, <1>9 DEF Computes
  <2>2. ASSUME NEW i \in 1 .. n, i - 1 \in P PROVE i \in P
    <3>1. end[i - 1] = f[i - 1] /\ i \in 0 .. n
      BY <2>2
    <3> QED BY <3>1, <1>5, <1>9, Zenon
  <2>3. 0 .. n \subseteq P
    <3> HIDE DEF P
    <3> QED BY <2>1, <2>2, Induction, Zenon
  <2>4. \A i \in 0 .. n : end[i] = f[i]
    BY <2>3, Zenon
  <2>5. end = [i \in 0 .. n |-> end[i]] /\ f = [i \in 0 .. n |-> f[i]]
    BY <1>4, <1>7, Zenon
  <2> QED BY <2>4, <2>5, Zenon
<1> QED BY <1>1, <1>4, <1>8, <1>9, <1>10, Zenon

\* Complete for a given request.
Whole(q, n) == Max({i \in 0 .. Len(q) : Ends(q)[i] <= n})

\* The records that n bytes contain are a prefix, and the next one is not
\* among them.
LEMMA WholeIs ==
  ASSUME NEW q \in Seq(Record), NEW n \in Nat
  PROVE  /\ Whole(q, n) \in 0 .. Len(q)
         /\ Ends(q)[Whole(q, n)] <= n
         /\ \A i \in 0 .. Len(q) : Ends(q)[i] <= n => i <= Whole(q, n)
<1> DEFINE T == {i \in 0 .. Len(q) : Ends(q)[i] <= n}
<1>1. Len(q) \in Nat /\ T \subseteq 0 .. Len(q)
  OBVIOUS
<1>2. 0 \in T
  BY EndsAre
<1>3. Max(T) \in T /\ \A y \in T : y <= Max(T)
  <2> HIDE DEF T
  <2> QED BY <1>1, <1>2, Extremes, Zenon
<1> QED BY <1>3, Zenon DEF Whole

\* More bytes contain more records.
LEMMA WholeGrows ==
  ASSUME NEW q \in Seq(Record), NEW n \in Nat, NEW m \in Nat, n <= m
  PROVE  Whole(q, n) <= Whole(q, m)
<1>1. /\ Whole(q, n) \in 0 .. Len(q)
      /\ Ends(q)[Whole(q, n)] <= n
      /\ \A i \in 0 .. Len(q) : Ends(q)[i] <= m => i <= Whole(q, m)
  BY WholeIs, Zenon
<1>2. Ends(q)[Whole(q, n)] \in Nat
  BY <1>1, EndsAre, Zenon
<1>3. Ends(q)[Whole(q, n)] <= m
  BY <1>1, <1>2
<1> QED BY <1>1, <1>3, Zenon


-----------------------------------------------------------------------------
(* What a request means.                                                   *)

\* Which of the first k records have this type, and the body of the last one.
Typed(q, k, type) == {i \in 1 .. k : Has(q[i], type)}

LastBody(q, k, type) ==
  IF Typed(q, k, type) = {} THEN <<>> ELSE q[Max(Typed(q, k, type))].codes

\* One more record is the last of its type.
LEMMA TypedGrows ==
  ASSUME NEW q \in Seq(Record), NEW k \in 1 .. Len(q), NEW type
  PROVE  /\ Typed(q, k, type) =
              IF Has(q[k], type) THEN Typed(q, k - 1, type) \cup {k}
                                 ELSE Typed(q, k - 1, type)
         /\ LastBody(q, k, type) =
              IF Has(q[k], type) THEN q[k].codes ELSE LastBody(q, k - 1, type)
         /\ IsFiniteSet(Typed(q, k - 1, type))
         /\ k \notin Typed(q, k - 1, type)
<1>1. Typed(q, k, type) =
        IF Has(q[k], type) THEN Typed(q, k - 1, type) \cup {k}
                           ELSE Typed(q, k - 1, type)
  <2>1. ASSUME NEW i PROVE i \in 1 .. k <=> i \in 1 .. k - 1 \/ i = k
    OBVIOUS
  <2> QED BY <2>1, Zenon DEF Typed
<1>2. IsFiniteSet(Typed(q, k - 1, type))
  <2>1. IsFiniteSet(1 .. k - 1)
    BY FS_Interval
  <2>2. Typed(q, k - 1, type) \in SUBSET (1 .. k - 1)
    BY Zenon DEF Typed
  <2> QED BY <2>1, <2>2, FS_Subset, Zenon
<1>3. k \notin Typed(q, k - 1, type)
  <2>1. k \notin 1 .. k - 1
    OBVIOUS
  <2> QED BY <2>1, Zenon DEF Typed
<1>4. CASE Has(q[k], type)
  <2>1. Typed(q, k, type) = Typed(q, k - 1, type) \cup {k}
    BY <1>1, <1>4, Zenon
  <2>2. Typed(q, k, type) \subseteq 0 .. k /\ k \in Nat
    BY DEF Typed
  <2>3. /\ Max(Typed(q, k, type)) \in Typed(q, k, type)
        /\ \A y \in Typed(q, k, type) : y <= Max(Typed(q, k, type))
    BY <2>1, <2>2, Extremes, Zenon
  <2>4. Max(Typed(q, k, type)) = k
    <3>1. k \in Typed(q, k, type)
      BY <2>1, Zenon
    <3>2. k <= Max(Typed(q, k, type)) /\ Max(Typed(q, k, type)) \in 0 .. k
      BY <3>1, <2>2, <2>3, Zenon
    <3> QED BY <3>2
  <2>5. LastBody(q, k, type) = q[k].codes
    BY <2>1, <2>4, Zenon DEF LastBody
  <2> QED BY <2>5, <1>1, <1>2, <1>3, <1>4, Zenon
<1>5. CASE ~Has(q[k], type)
  <2>1. Typed(q, k, type) = Typed(q, k - 1, type)
    BY <1>1, <1>5, Zenon
  <2>2. LastBody(q, k, type) = LastBody(q, k - 1, type)
    BY <2>1, Zenon DEF LastBody
  <2> QED BY <2>2, <1>1, <1>2, <1>3, <1>5, Zenon
<1> QED BY <1>4, <1>5, Zenon

\* What the state after k records holds.
Holds(q, k, st) ==
  /\ st.next_protocols = LastBody(q, k, NextProtocol)
  /\ st.aead_scheme = LastBody(q, k, AeadAlgorithm)
  /\ st.next_server = LastBody(q, k, Server)
  /\ st.next_port = LastBody(q, k, Port)
  /\ Len(st.cookies) = Cardinality(Typed(q, k, NewCookie))

\* No record, no value.
LEMMA HoldsNothing ==
  ASSUME NEW q
  PROVE  Holds(q, 0, NoRecords)
<1>1. \A type : Typed(q, 0, type) = {}
  BY DEF Typed
<1>2. \A type : LastBody(q, 0, type) = <<>>
  BY <1>1, Zenon DEF LastBody
<1>3. Cardinality(Typed(q, 0, NewCookie)) = 0
  BY <1>1, FS_EmptySet, Zenon
<1> QED BY <1>2, <1>3, Zenon DEF Holds, NoRecords

\* A turn on a state that is not decided keeps that.
LEMMA HoldsStep ==
  ASSUME NEW q \in Seq(Record), NEW k \in 1 .. Len(q),
         NEW st \in KeState, NEW new, Holds(q, k - 1, st), Changes(st, q[k], new)
  PROVE  Holds(q, k, new)
<1>1. \A type : LastBody(q, k, type) =
        IF Has(q[k], type) THEN q[k].codes ELSE LastBody(q, k - 1, type)
  BY TypedGrows, Zenon
<1>2. /\ new.next_protocols = LastBody(q, k, NextProtocol)
      /\ new.aead_scheme = LastBody(q, k, AeadAlgorithm)
      /\ new.next_server = LastBody(q, k, Server)
      /\ new.next_port = LastBody(q, k, Port)
  BY <1>1, Zenon DEF Holds, Changes
<1>3. Len(new.cookies) = Cardinality(Typed(q, k, NewCookie))
  <2> DEFINE S == Typed(q, k - 1, NewCookie)
  <2>1. /\ Typed(q, k, NewCookie) = IF Has(q[k], NewCookie) THEN S \cup {k} ELSE S
        /\ IsFiniteSet(S)
        /\ k \notin S
    BY TypedGrows, Zenon
  <2>2. Len(st.cookies) = Cardinality(S)
    BY Zenon DEF Holds
  <2> HIDE DEF S
  <2>3. CASE Has(q[k], NewCookie)
    <3>1. new.cookies = Append(st.cookies, q[k].codes)
      BY <2>3, Zenon DEF Changes
    <3>2. st.cookies \in Seq(Codes) /\ q[k].codes \in Codes
      <4>1. q[k] \in Record
        OBVIOUS
      <4> QED BY <4>1, RecordIs, Zenon DEF KeState
    <3>3. Len(new.cookies) = Len(st.cookies) + 1
      BY <3>1, <3>2
    <3>4. Cardinality(S \cup {k}) = Cardinality(S) + 1
      BY <2>1, FS_AddElement, Zenon
    <3> QED BY <2>1, <2>2, <2>3, <3>3, <3>4, Zenon
  <2>4. CASE ~Has(q[k], NewCookie)
    BY <2>1, <2>2, <2>4, Zenon DEF Changes
  <2> QED BY <2>3, <2>4, Zenon
<1> QED BY <1>2, <1>3, Zenon DEF Holds


\* A record decides the exchange exactly if Deciding says so.
LEMMA ChangesDecide ==
  ASSUME NEW st, NEW r, NEW new, Changes(st, r, new)
  PROVE  /\ Decided(new) <=> Deciding(r)
         /\ new.finished <=> Has(r, EndOfMessage)
         /\ new.failed <=> Deciding(r) /\ ~Has(r, EndOfMessage)
         /\ new.finished \in BOOLEAN /\ new.failed \in BOOLEAN
<1>1. /\ new.finished <=> Has(r, EndOfMessage)
      /\ new.failed <=> (deserialize(r) = "fatal" \/ Has(r, Error))
      /\ new \in KeState
  BY Zenon DEF Changes
<1>2. Deciding(r) <=> deserialize(r) = "fatal" \/ Has(r, EndOfMessage) \/ Has(r, Error)
  BY Zenon DEF Deciding, Has
<1>3. ~(Has(r, EndOfMessage) /\ (deserialize(r) = "fatal" \/ Has(r, Error)))
  BY DEF Has, EndOfMessage, Error
<1>4. new.finished \in BOOLEAN /\ new.failed \in BOOLEAN
  BY <1>1, Zenon DEF KeState
<1> QED BY <1>1, <1>2, <1>3, <1>4, Zenon DEF Decided

\* As long as no record has decided the exchange, every record has been
\* processed and the state holds what the records say.
LEMMA Processed ==
  ASSUME NEW q \in Seq(Record), NEW k \in 0 .. Len(q),
         \A j \in 0 .. k - 1 : ~Decided(After(q, j))
  PROVE  /\ \A i \in 1 .. k : Changes(After(q, i - 1), q[i], After(q, i))
         /\ Holds(q, k, After(q, k))
<1> DEFINE P == {i \in 0 .. k : Holds(q, i, After(q, i))}
<1>1. ASSUME NEW i \in 1 .. k PROVE Changes(After(q, i - 1), q[i], After(q, i))
  <2>1. /\ i \in 1 .. Len(q)
        /\ i - 1 \in 0 .. Len(q)
        /\ i - 1 \in 0 .. k - 1
        /\ q[i] \in Record
    OBVIOUS
  <2>2. ~Decided(After(q, i - 1))
    BY <2>1, Zenon
  <2>3. After(q, i - 1) \in KeState /\ After(q, i) = Turn(After(q, i - 1), q[i])
    BY <2>1, AfterIs, Zenon
  <2> QED BY <2>1, <2>2, <2>3, TurnIs, Zenon
<1>2. 0 \in P
  <2>1. 0 \in 0 .. k
    OBVIOUS
  <2> QED BY <2>1, HoldsNothing, AfterIs, Zenon
<1>3. ASSUME NEW i \in 1 .. k, i - 1 \in P PROVE i \in P
  <2>1. i \in 1 .. Len(q) /\ i \in 0 .. k /\ i - 1 \in 0 .. Len(q)
    OBVIOUS
  <2>2. Holds(q, i - 1, After(q, i - 1)) /\ After(q, i - 1) \in KeState
    BY <1>3, <2>1, AfterIs, Zenon
  <2> QED BY <1>1, <2>1, <2>2, HoldsStep, Zenon
<1>4. k \in P
  <2> HIDE DEF P
  <2>1. k \in Nat /\ k \in 0 .. k
    OBVIOUS
  <2>2. 0 .. k \subseteq P
    BY <2>1, <1>2, <1>3, Induction, Zenon
  <2> QED BY <2>1, <2>2, Zenon
<1> QED BY <1>1, <1>4, Zenon

\* The types whose records carry a value.
Values == {NextProtocol, AeadAlgorithm, NewCookie, Server, Port}

\* A record that carries a value does not decide the exchange.
LEMMA ValuesDoNotDecide ==
  ASSUME NEW r, NEW type \in Values, Has(r, type)
  PROVE  ~Deciding(r)
<1>1. type # EndOfMessage /\ type # Error
  BY DEF Values, NextProtocol, AeadAlgorithm, NewCookie, Server, Port, EndOfMessage, Error
<1>2. deserialize(r) # "fatal" /\ RecordType(r) = type
  BY Zenon DEF Has
<1> QED BY <1>1, <1>2, Zenon DEF Deciding

\* The records that read_ready has taken: all that are complete, or those up
\* to the first that decides the exchange.
Taken(q, n, k, st) ==
  /\ k \in 0 .. Whole(q, n)
  /\ st = After(q, k)
  /\ \A j \in 0 .. k - 1 : ~Decided(After(q, j))
  /\ ~Decided(st) => k = Whole(q, n)

\* The first k of the w complete records are the ones that count, and the one
\* that decides, if any of the deciding ones is among them, is the last.
Meant(q, k, st, w, deciding) ==
  /\ k \in 0 .. Len(q)
  /\ Decided(st) =>
       /\ k \in deciding /\ Min(deciding) = k
       /\ st.finished <=> Has(q[k], EndOfMessage)
       /\ st.failed <=> ~Has(q[k], EndOfMessage)
  /\ ~Decided(st) => deciding = {}
  /\ Holds(q, k, st)
  /\ \A type \in Values :
       Typed(q, k, type) =
         {i \in 1 .. w : (\A j \in deciding : i < j) /\ Has(q[i], type)}

\* This is so of the records that read_ready has taken.
LEMMA TakenMeans ==
  ASSUME NEW q \in Seq(Record), NEW n \in Nat, NEW k, NEW st, Taken(q, n, k, st),
         NEW D, D = {i \in 1 .. Whole(q, n) : Deciding(q[i])}
  PROVE  Meant(q, k, st, Whole(q, n), D)
<1> DEFINE m == Whole(q, n)
<1>1. m \in 0 .. Len(q) /\ k \in 0 .. m /\ st = After(q, k)
  BY WholeIs, Zenon DEF Taken
<1> HIDE DEF m
<1>2. k \in 0 .. Len(q) /\ k <= m
  BY <1>1
<1>3. /\ \A i \in 1 .. k : Changes(After(q, i - 1), q[i], After(q, i))
      /\ Holds(q, k, st)
  BY <1>1, <1>2, Processed, Zenon DEF Taken
<1>4. ASSUME NEW i \in 1 .. k - 1 PROVE ~Deciding(q[i])
  <2>1. i \in 1 .. k /\ i \in 0 .. k - 1
    BY <1>1
  <2> QED BY <2>1, <1>3, ChangesDecide, Zenon DEF Taken
<1>5. D = {i \in 1 .. m : Deciding(q[i])}
  BY Zenon DEF m
<1>6. CASE Decided(st)
  <2>1. k # 0
    BY <1>1, <1>6, NoRecordsType, AfterIs, Zenon
  <2>2. k \in 1 .. k /\ k \in 1 .. m
    BY <2>1, <1>1
  <2>3. /\ Deciding(q[k])
        /\ st.finished <=> Has(q[k], EndOfMessage)
        /\ st.failed <=> ~Has(q[k], EndOfMessage)
    BY <2>2, <1>1, <1>3, <1>6, ChangesDecide, Zenon
  <2>4. k \in D
    BY <2>2, <2>3, <1>5, Zenon
  <2>5. ASSUME NEW j \in D PROVE k <= j
    <3>1. j \in 1 .. m /\ j \notin 1 .. k - 1
      BY <1>4, <1>5, Zenon
    <3> QED BY <3>1, <1>1
  <2>6. Min(D) = k
    <3>1. D \subseteq 0 .. m /\ m \in Nat
      BY <1>1, <1>5
    <3>2. Min(D) \in D /\ \A y \in D : Min(D) <= y
      BY <3>1, <2>4, Extremes, Zenon
    <3>3. Min(D) \in 0 .. m /\ Min(D) <= k /\ k <= Min(D)
      BY <3>1, <3>2, <2>4, <2>5, Zenon
    <3> QED BY <3>3, <1>1
  <2>7. ASSUME NEW type \in Values
        PROVE  Typed(q, k, type) = {i \in 1 .. m : (\A j \in D : i < j) /\ Has(q[i], type)}
    <3>1. ASSUME NEW i \in 1 .. k, Has(q[i], type) PROVE i \in 1 .. m /\ \A j \in D : i < j
      <4>1. i # k
        BY <3>1, <2>3, ValuesDoNotDecide, Zenon
      <4>2. ASSUME NEW j \in D PROVE i < j
        <5>1. k <= j /\ j \in 1 .. m
          BY <2>5, <1>5, Zenon
        <5> QED BY <5>1, <4>1, <1>1
      <4>3. i \in 1 .. m
        BY <1>1
      <4> QED BY <4>2, <4>3, Zenon
    <3>2. ASSUME NEW i \in 1 .. m, \A j \in D : i < j PROVE i \in 1 .. k
      <4>1. i < k
        BY <3>2, <2>4, Zenon
      <4> QED BY <4>1, <1>1
    <3> QED BY <3>1, <3>2, Zenon DEF Typed
  <2> QED BY <2>3, <2>4, <2>6, <2>7, <1>2, <1>3, <1>6, Zenon DEF m, Meant
<1>7. CASE ~Decided(st)
  <2>1. k = m
    BY <1>7, Zenon DEF Taken, m
  <2>2. ASSUME NEW i \in 1 .. m PROVE ~Deciding(q[i])
    <3>1. CASE i = k
      BY <3>1, <2>1, <1>1, <1>3, <1>7, ChangesDecide, Zenon
    <3>2. CASE i # k
      <4>1. i \in 1 .. k - 1
        BY <3>2, <2>1, <1>1
      <4> QED BY <4>1, <1>4, Zenon
    <3> QED BY <3>1, <3>2, Zenon
  <2>3. D = {}
    BY <2>2, <1>5, Zenon
  <2>4. \A type \in Values :
          Typed(q, k, type) = {i \in 1 .. m : (\A j \in D : i < j) /\ Has(q[i], type)}
    BY <2>1, <2>3, Zenon DEF Typed
  <2> QED BY <2>3, <2>4, <1>2, <1>3, <1>7, Zenon DEF m, Meant
<1> QED BY <1>6, <1>7, Zenon


\* Where the loop over the records from k on stops, among the first m.
StopsIn(q, k, st, m) == {i \in k + 1 .. m : Decided(Loop(st, SubSeq(q, k + 1, i)))}

\* A decided exchange stays as it is.
LEMMA TakenStays ==
  ASSUME NEW q \in Seq(Record), NEW n \in Nat, NEW m \in Nat, n <= m,
         NEW k, NEW st, Taken(q, n, k, st), Decided(st)
  PROVE  Taken(q, m, k, st)
<1>1. Whole(q, n) <= Whole(q, m) /\ Whole(q, n) \in 0 .. Len(q) /\ Whole(q, m) \in 0 .. Len(q)
  BY WholeGrows, WholeIs, Zenon
<1>2. k \in 0 .. Whole(q, m)
  BY <1>1 DEF Taken
<1> QED BY <1>2, Zenon DEF Taken

\* With more bytes, the loop goes on where it had stopped and takes what is
\* to be taken of all the bytes.
LEMMA TakenGoesOn ==
  ASSUME NEW q \in Seq(Record), NEW n \in Nat, NEW m \in Nat, n <= m,
         NEW k, NEW st, Taken(q, n, k, st), ~Decided(st),
         NEW stop, stop = StopsIn(q, k, st, Whole(q, m)),
         NEW l, l = IF stop = {} THEN Whole(q, m) ELSE Min(stop),
         NEW new, new = Loop(st, SubSeq(q, k + 1, l))
  PROVE  Taken(q, m, l, new) /\ (stop = {} <=> ~Decided(new))
<1> DEFINE w == Whole(q, m)
<1>1. w \in 0 .. Len(q) /\ k \in 0 .. w /\ k \in 0 .. Len(q)
  <2>1. Whole(q, n) <= Whole(q, m) /\ Whole(q, n) \in 0 .. Len(q) /\ Whole(q, m) \in 0 .. Len(q)
    BY WholeGrows, WholeIs, Zenon
  <2> QED BY <2>1 DEF Taken
<1>2. ASSUME NEW i \in k .. w PROVE Loop(st, SubSeq(q, k + 1, i)) = After(q, i)
  <2>1. i \in k .. Len(q)
    BY <1>1
  <2> QED BY <2>1, <1>1, LoopOn, Zenon DEF Taken
<1> HIDE DEF w
<1>3. stop = {i \in k + 1 .. w : Decided(After(q, i))}
  <2>1. stop = {i \in k + 1 .. w : Decided(Loop(st, SubSeq(q, k + 1, i)))}
    BY Zenon DEF StopsIn, w
  <2>2. \A i \in k + 1 .. w : i \in k .. w
    BY <1>1
  <2> QED BY <2>1, <2>2, <1>2, Zenon
<1>4. ASSUME NEW j \in 0 .. k PROVE ~Decided(After(q, j))
  <2>1. j = k \/ j \in 0 .. k - 1
    BY <1>1
  <2> QED BY <2>1, Zenon DEF Taken
<1>5. CASE stop = {}
  <2>1. l = w /\ l \in k .. w /\ l \in 0 .. w
    BY <1>5, <1>1 DEF w
  <2>2. new = After(q, l)
    BY <2>1, <1>2, Zenon
  <2>3. ASSUME NEW j \in 0 .. w PROVE ~Decided(After(q, j))
    <3>1. j \in 0 .. k \/ j \in k + 1 .. w
      BY <1>1
    <3> QED BY <3>1, <1>3, <1>4, <1>5, Zenon
  <2>4. \A j \in 0 .. l - 1 : j \in 0 .. w
    BY <2>1
  <2>5. Taken(q, m, l, new)
    BY <2>1, <2>2, <2>3, <2>4, Zenon DEF Taken, w
  <2> QED BY <2>1, <2>2, <2>3, <2>5, <1>5, Zenon
<1>6. CASE stop # {}
  <2>1. w \in Nat /\ stop \subseteq 0 .. w
    BY <1>1, <1>3
  <2>2. l \in stop /\ \A y \in stop : l <= y
    BY <2>1, <1>6, Extremes, Zenon
  <2>3. l \in k + 1 .. w
    BY <2>2, <1>3, Zenon
  <2>4. l \in k .. w /\ l \in 0 .. w
    BY <2>3, <1>1
  <2>5. new = After(q, l) /\ Decided(new)
    BY <2>2, <2>4, <1>2, <1>3, Zenon
  <2>6. ASSUME NEW j \in 0 .. l - 1 PROVE ~Decided(After(q, j))
    <3>1. ~(l <= j) /\ (j \in 0 .. k \/ j \in k + 1 .. w)
      BY <2>3, <1>1
    <3>2. j \notin stop
      BY <3>1, <2>2, Zenon
    <3> QED BY <3>1, <3>2, <1>3, <1>4, Zenon
  <2>7. Taken(q, m, l, new)
    BY <2>4, <2>5, <2>6, Zenon DEF Taken, w
  <2> QED BY <2>5, <2>7, <1>6, Zenon
<1> QED BY <1>5, <1>6, Zenon

-----------------------------------------------------------------------------
(* The connection.                                                         *)

\* Why the properties hold: read_ready has taken the records that the bytes it
\* has got contain, up to the one that decides; until then the buffer holds
\* what follows them, and the response has gone out if the message has ended.
StreamInv ==
  /\ request \in Requests
  /\ delivered \in 0 .. Ends(request)[Len(request)]
  /\ buffer \in 0 .. delivered
  /\ Taken(request, delivered, parsed, ke)
  /\ state \in {"Connected", "TlsHandshaking", "Opened", "ResponseSent", "Closed"}
  /\ ke.failed => state = "Closed"
  /\ state \in {"Connected", "TlsHandshaking", "Opened"} =>
       /\ ~ke.finished
       /\ buffer = delivered - Ends(request)[parsed]
       /\ reply = <<>>
  /\ state = "ResponseSent" => ke.finished /\ reply = Response(Cookie, NextPort)
  /\ reply \in {<<>>, Response(Cookie, NextPort)}


\* A request is a sequence of records.
LEMMA RequestIs ==
  ASSUME StreamInv
  PROVE  /\ request \in Seq(Record)
         /\ Len(request) \in 0 .. Len(request)
         /\ Ends(request)[Len(request)] \in Nat
<1>1. request \in Seq(Record)
  BY StreamAssumption, Zenon DEF StreamInv
<1>2. Len(request) \in 0 .. Len(request)
  BY <1>1
<1> QED BY <1>1, <1>2, EndsAre, Zenon

\* A new connection has received nothing.
LEMMA InitStream == Init => StreamInv
<1> SUFFICES ASSUME Init PROVE StreamInv
  BY Zenon
<1>1. request \in Requests /\ request \in Seq(Record)
  BY StreamAssumption, Zenon DEF Init
<1>2. Len(request) \in 0 .. Len(request) /\ 0 \in 0 .. Len(request)
  BY <1>1
<1>3. Ends(request)[Len(request)] \in Nat /\ Ends(request)[0] = 0
  BY <1>1, <1>2, EndsAre, Zenon
<1>4. Whole(request, 0) = 0
  <2> DEFINE w == Whole(request, 0)
  <2>1. w \in 0 .. Len(request) /\ Ends(request)[w] <= 0
    BY <1>1, WholeIs, Zenon
  <2>2. ASSUME w # 0 PROVE FALSE
    <3> HIDE DEF w
    <3>1. w \in 1 .. Len(request) /\ w - 1 \in 0 .. Len(request) /\ request[w] \in Record
      BY <2>1, <2>2, <1>1
    <3>2. Ends(request)[w] = Ends(request)[w - 1] + Size(request[w])
      BY <3>1, <1>1, EndsAre, Zenon
    <3>3. Ends(request)[w - 1] \in Nat
      BY <3>1, <1>1, EndsAre, Zenon
    <3>4. Size(request[w]) \in Nat /\ Size(request[w]) >= HEADER_SIZE
      BY <3>1, SizeIs, Zenon
    <3> QED BY <2>1, <3>2, <3>3, <3>4 DEF HEADER_SIZE
  <2> QED BY <2>2, Zenon
<1>5. Taken(request, 0, 0, NoRecords)
  <2>1. 0 \in 0 .. 0 /\ \A j \in 0 .. 0 - 1 : FALSE
    OBVIOUS
  <2> QED BY <2>1, <1>1, <1>4, AfterIs, Zenon DEF Taken
<1>6. ~NoRecords.failed /\ ~NoRecords.finished
  BY NoRecordsType, Zenon DEF Decided
<1> QED BY <1>1, <1>3, <1>5, <1>6 DEF Init, StreamInv

\* What a read takes out of the buffer, whatever the connection's state then is.
LEMMA ExtractKeeps ==
  ASSUME StreamInv, state # "Closed",
         NEW n \in 1 .. End(Len(request)) - delivered, Extract(n)
  PROVE  /\ delivered' \in 0 .. Ends(request)[Len(request)]
         /\ buffer' \in 0 .. delivered'
         /\ Taken(request, delivered', parsed', ke')
         /\ ~Decided(ke') => buffer' = delivered' - Ends(request)[parsed']
         /\ ke.finished => ke' = ke
<1> DEFINE q == request
           m == delivered + n
<1>1. /\ q \in Seq(Record)
      /\ Ends(q)[Len(q)] \in Nat
      /\ delivered \in 0 .. Ends(q)[Len(q)]
      /\ buffer \in 0 .. delivered
      /\ Taken(q, delivered, parsed, ke)
      /\ ~ke.failed
  BY RequestIs, Zenon DEF StreamInv
<1>2. n \in 1 .. Ends(q)[Len(q)] - delivered /\ delivered' = m
  BY Zenon DEF End, Extract
<1>3. delivered \in Nat /\ m \in Nat /\ delivered <= m /\ m \in 0 .. Ends(q)[Len(q)]
  BY <1>1, <1>2
<1>4. buffer + n \in 0 .. m
  BY <1>1, <1>2, <1>3
<1>5. CASE ke.finished
  <2>1. buffer' = buffer + n /\ parsed' = parsed /\ ke' = ke
    BY <1>5, Zenon DEF Extract
  <2>2. Decided(ke)
    BY <1>5, Zenon DEF Decided
  <2>3. Taken(q, m, parsed, ke)
    BY <2>2, <1>1, <1>3, TakenStays, Zenon
  <2> QED BY <2>1, <2>2, <2>3, <1>2, <1>3, <1>4, <1>5, Zenon
<1>6. CASE ~ke.finished
  <2> DEFINE stop == StopsIn(q, parsed, ke, Whole(q, m))
  <2>1. Complete(m) = Whole(q, m)
    BY Zenon DEF Complete, End, Whole
  <2>2. Stops(m) = stop
    BY <2>1, Zenon DEF Stops, StopsIn
  <2> HIDE DEF stop
  <2>3. /\ parsed' = IF stop = {} THEN Whole(q, m) ELSE Min(stop)
        /\ ke' = Loop(ke, SubSeq(q, parsed + 1, parsed'))
        /\ buffer' = IF stop = {} THEN m - Ends(q)[parsed'] ELSE buffer + n
    BY <1>6, <2>1, <2>2, Zenon DEF Extract, End
  <2>4. ~Decided(ke)
    BY <1>1, <1>6, Zenon DEF Decided
  <2>5. Taken(q, m, parsed', ke') /\ (stop = {} <=> ~Decided(ke'))
    <3> HIDE DEF q, m
    <3>1. stop = StopsIn(q, parsed, ke, Whole(q, m))
      BY Zenon DEF stop
    <3> QED BY <1>1, <1>3, <2>3, <2>4, <3>1, TakenGoesOn
  <2>6. buffer' \in 0 .. m
    <3>1. CASE stop = {}
      <4>1. parsed' = Whole(q, m)
        BY <2>3, <3>1, Zenon
      <4>2. Whole(q, m) \in 0 .. Len(q) /\ Ends(q)[Whole(q, m)] <= m
        BY <1>1, <1>3, WholeIs, Zenon
      <4>3. Ends(q)[Whole(q, m)] \in Nat
        BY <4>2, <1>1, EndsAre, Zenon
      <4>4. buffer' = m - Ends(q)[Whole(q, m)]
        BY <2>3, <3>1, <4>1, Zenon
      <4> QED BY ONLY <4>2, <4>3, <4>4, <1>3
    <3>2. CASE stop # {}
      BY <2>3, <3>2, <1>4, Zenon
    <3> QED BY <3>1, <3>2, Zenon
  <2>7. ~Decided(ke') => buffer' = m - Ends(q)[parsed']
    BY <2>3, <2>5, Zenon
  <2> QED BY <2>5, <2>6, <2>7, <1>2, <1>3, <1>6, Zenon
<1> QED BY <1>5, <1>6, Zenon


\* The records of a response.
LEMMA ResponseIs ==
  LET r == Response(Cookie, NextPort) IN
  /\ r \in Seq(Record)
  /\ Len(r) = 12
  /\ r[1] = serialize(TRUE, NextProtocol, <<Ntpv4>>)
  /\ r[2] = serialize(TRUE, AeadAlgorithm, <<AeadAesSivCmac256>>)
  /\ \A i \in 3 .. 10 : r[i] = serialize(FALSE, NewCookie, Cookie)
  /\ r[11] = serialize(TRUE, Port, <<NextPort>>)
  /\ r[12] = serialize(TRUE, EndOfMessage, <<>>)
<1> DEFINE a == serialize(TRUE, NextProtocol, <<Ntpv4>>)
           b == serialize(TRUE, AeadAlgorithm, <<AeadAesSivCmac256>>)
           c == serialize(FALSE, NewCookie, Cookie)
           d == serialize(TRUE, Port, <<NextPort>>)
           e == serialize(TRUE, EndOfMessage, <<>>)
<1>1. a \in Record /\ b \in Record /\ c \in Record /\ d \in Record /\ e \in Record
  <2>1. <<Ntpv4>> \in Codes /\ <<AeadAesSivCmac256>> \in Codes /\ Cookie \in Codes
          /\ <<NextPort>> \in Codes /\ <<>> \in Codes
    <3>1. ASSUME NEW S, NEW x \in S PROVE <<x>> \in Seq(S) /\ <<>> \in Seq(S)
      OBVIOUS
    <3>2. Ntpv4 \in 0 .. 2^16 - 1 /\ AeadAesSivCmac256 \in 0 .. 2^16 - 1
      BY DEF Ntpv4, AeadAesSivCmac256
    <3> QED BY <3>1, <3>2, StreamAssumption, Zenon DEF Codes
  <2>2. ASSUME NEW codes \in Codes, NEW critical \in BOOLEAN, NEW type \in 0 .. 7
        PROVE  serialize(critical, type, codes) \in Record
    <3>1. (IF critical THEN 2^15 ELSE 0) + type \in 0 .. 2^16 - 1
      OBVIOUS
    <3> QED BY <3>1, Zenon DEF serialize, Record, Codes
  <2>3. /\ NextProtocol \in 0 .. 7 /\ AeadAlgorithm \in 0 .. 7 /\ NewCookie \in 0 .. 7
        /\ Port \in 0 .. 7 /\ EndOfMessage \in 0 .. 7
    BY DEF NextProtocol, AeadAlgorithm, NewCookie, Port, EndOfMessage
  <2> QED BY <2>1, <2>2, <2>3, Zenon
<1>2. Response(Cookie, NextPort) = (<<a, b>> \o [i \in 1 .. 8 |-> c]) \o <<d, e>>
  BY Zenon DEF Response
<1> HIDE DEF a, b, c, d, e
<1>3. PICK s \in Seq(Record) : s = [i \in 1 .. 8 |-> c] /\ Len(s) = 8 /\ \A i \in 1 .. 8 : s[i] = c
  <2> DEFINE v == [i \in 1 .. 8 |-> c]
  <2>1. v \in Seq(Record) /\ \A i \in 1 .. 8 : v[i] = c
    BY <1>1
  <2>2. Len(v) = 8
    OBVIOUS
  <2> QED BY <2>1, <2>2, Zenon
<1>4. PICK t \in Seq(Record) : t = <<a, b>> \o s /\ Len(t) = 10
        /\ t[1] = a /\ t[2] = b /\ \A i \in 3 .. 10 : t[i] = c
  <2>1. PICK v \in Seq(Record) : v = <<a, b>> /\ Len(v) = 2 /\ v[1] = a /\ v[2] = b
    <3>1. <<a, b>> \in Seq(Record) /\ Len(<<a, b>>) = 2
      BY <1>1
    <3>2. <<a, b>>[1] = a /\ <<a, b>>[2] = b
      BY Zenon
    <3> QED BY <3>1, <3>2, Zenon
  <2>2. v \o s \in Seq(Record) /\ Len(v \o s) = 10
    BY <2>1, <1>3
  <2>3. (v \o s)[1] = a /\ (v \o s)[2] = b
    BY <2>1, <1>3
  <2>4. ASSUME NEW i \in 3 .. 10 PROVE (v \o s)[i] = c
    <3>1. i - 2 \in 1 .. 8 /\ i \in 1 .. Len(v) + Len(s) /\ ~(i <= Len(v))
      BY <2>1, <1>3
    <3>2. (v \o s)[i] = s[i - 2]
      BY <3>1, <2>1, <1>3
    <3> QED BY <3>1, <3>2, <1>3, Zenon
  <2> QED BY <2>1, <2>2, <2>3, <2>4, Zenon
<1>5. PICK u \in Seq(Record) : u = t \o <<d, e>> /\ Len(u) = 12
        /\ (\A i \in 1 .. 10 : u[i] = t[i]) /\ u[11] = d /\ u[12] = e
  <2>1. PICK v \in Seq(Record) : v = <<d, e>> /\ Len(v) = 2 /\ v[1] = d /\ v[2] = e
    <3>1. <<d, e>> \in Seq(Record) /\ Len(<<d, e>>) = 2
      BY <1>1
    <3>2. <<d, e>>[1] = d /\ <<d, e>>[2] = e
      BY Zenon
    <3> QED BY <3>1, <3>2, Zenon
  <2>2. t \o v \in Seq(Record) /\ Len(t \o v) = 12
    BY <2>1, <1>4
  <2>3. (t \o v)[11] = d /\ (t \o v)[12] = e
    BY <2>1, <1>4
  <2>4. \A i \in 1 .. 10 : (t \o v)[i] = t[i]
    BY <2>1, <1>4
  <2> QED BY <2>1, <2>2, <2>3, <2>4, Zenon
<1>6. /\ u \in Seq(Record) /\ Len(u) = 12 /\ u[1] = a /\ u[2] = b
      /\ (\A i \in 3 .. 10 : u[i] = c) /\ u[11] = d /\ u[12] = e
  BY <1>4, <1>5
<1>7. Response(Cookie, NextPort) = u
  BY <1>2, <1>3, <1>4, <1>5, Zenon
<1> QED BY <1>6, <1>7, Zenon DEF a, b, c, d, e


\* A record is accepted with the type it was written with.
LEMMA SerializedHas ==
  /\ Has(serialize(TRUE, NextProtocol, <<Ntpv4>>), NextProtocol)
  /\ Has(serialize(TRUE, AeadAlgorithm, <<AeadAesSivCmac256>>), AeadAlgorithm)
  /\ Has(serialize(FALSE, NewCookie, Cookie), NewCookie)
  /\ Has(serialize(TRUE, Port, <<NextPort>>), Port)
  /\ Has(serialize(TRUE, EndOfMessage, <<>>), EndOfMessage)
<1>0. /\ NextProtocol \in 0 .. 7 /\ AeadAlgorithm \in 0 .. 7 /\ NewCookie \in 0 .. 7
      /\ Port \in 0 .. 7 /\ EndOfMessage \in 0 .. 7
  BY DEF NextProtocol, AeadAlgorithm, NewCookie, Port, EndOfMessage
<1>1. ASSUME NEW critical \in BOOLEAN, NEW type \in 0 .. 7, NEW codes
      PROVE  /\ RecordType(serialize(critical, type, codes)) = type
             /\ serialize(critical, type, codes).codes = codes
             /\ serialize(critical, type, codes).odd = 0
  <2>1. ((IF critical THEN 2^15 ELSE 0) + type) % 2^11 = type
    OBVIOUS
  <2> QED BY <2>1, Zenon DEF serialize, RecordType
<1>2. ASSUME NEW r, NEW type \in 0 .. 7, RecordType(r) = type, from_bytes(r)
      PROVE  Has(r, type)
  BY <1>2, Zenon DEF Has, deserialize, EndOfMessage, Port
<1>3. Has(serialize(TRUE, NextProtocol, <<Ntpv4>>), NextProtocol)
  <2> DEFINE r == serialize(TRUE, NextProtocol, <<Ntpv4>>)
  <2>1. RecordType(r) = NextProtocol /\ r.odd = 0 /\ r.codes = <<Ntpv4>>
    BY <1>0, <1>1, Zenon
  <2> HIDE DEF r
  <2>2. All(r.codes, {Ntpv4})
    BY <2>1 DEF All
  <2>3. from_bytes(r)
    BY <2>1, <2>2 DEF from_bytes, EndOfMessage, NextProtocol, Error, Warning, AeadAlgorithm, NewCookie, Server, Port
  <2> QED BY <1>0, <1>2, <2>1, <2>3, Zenon DEF r
<1>4. Has(serialize(TRUE, AeadAlgorithm, <<AeadAesSivCmac256>>), AeadAlgorithm)
  <2> DEFINE r == serialize(TRUE, AeadAlgorithm, <<AeadAesSivCmac256>>)
  <2>1. RecordType(r) = AeadAlgorithm /\ r.odd = 0 /\ r.codes = <<AeadAesSivCmac256>>
    BY <1>0, <1>1, Zenon
  <2> HIDE DEF r
  <2>2. All(r.codes, {AeadAesSivCmac256})
    BY <2>1 DEF All
  <2>3. from_bytes(r)
    BY <2>1, <2>2 DEF from_bytes, EndOfMessage, NextProtocol, Error, Warning, AeadAlgorithm, NewCookie, Server, Port
  <2> QED BY <1>0, <1>2, <2>1, <2>3, Zenon DEF r
<1>5. Has(serialize(FALSE, NewCookie, Cookie), NewCookie)
  <2> DEFINE r == serialize(FALSE, NewCookie, Cookie)
  <2>1. RecordType(r) = NewCookie
    BY <1>0, <1>1, Zenon
  <2> HIDE DEF r
  <2>2. from_bytes(r)
    BY <2>1 DEF from_bytes, EndOfMessage, NextProtocol, Error, Warning, AeadAlgorithm, NewCookie, Server, Port
  <2> QED BY <1>0, <1>2, <2>1, <2>2, Zenon DEF r
<1>6. Has(serialize(TRUE, Port, <<NextPort>>), Port)
  <2> DEFINE r == serialize(TRUE, Port, <<NextPort>>)
  <2>1. RecordType(r) = Port /\ r.odd = 0 /\ r.codes = <<NextPort>>
    BY <1>0, <1>1, Zenon
  <2> HIDE DEF r
  <2>2. OneCode(r)
    BY <2>1, Zenon DEF OneCode
  <2>3. from_bytes(r)
    BY <2>1, <2>2 DEF from_bytes, EndOfMessage, NextProtocol, Error, Warning, AeadAlgorithm, NewCookie, Server, Port
  <2> QED BY <1>0, <1>2, <2>1, <2>3, Zenon DEF r
<1>7. Has(serialize(TRUE, EndOfMessage, <<>>), EndOfMessage)
  <2> DEFINE r == serialize(TRUE, EndOfMessage, <<>>)
  <2>1. RecordType(r) = EndOfMessage /\ r.odd = 0 /\ r.codes = <<>>
    BY <1>0, <1>1, Zenon
  <2> HIDE DEF r
  <2>2. Size(r) = HEADER_SIZE
    BY <2>1 DEF Size, HEADER_SIZE
  <2>3. from_bytes(r)
    BY <2>1, <2>2 DEF from_bytes, EndOfMessage, NextProtocol, Error, Warning, AeadAlgorithm, NewCookie, Server, Port
  <2> QED BY <1>0, <1>2, <2>1, <2>3, Zenon DEF r
<1> QED BY <1>3, <1>4, <1>5, <1>6, <1>7, Zenon


\* So many cookies are among the first i records of a response.
Copies(i) == IF i < 3 THEN 0 ELSE IF i > 10 THEN 8 ELSE i - 2

\* What a client has made of the first i records of a response.
Reading(i, st) ==
  /\ st \in KeState
  /\ ~st.failed
  /\ st.finished <=> i = 12
  /\ st.next_protocols = IF i < 1 THEN <<>> ELSE <<Ntpv4>>
  /\ st.aead_scheme = IF i < 2 THEN <<>> ELSE <<AeadAesSivCmac256>>
  /\ st.cookies = [j \in 1 .. Copies(i) |-> Cookie]
  /\ st.next_server = <<>>
  /\ st.next_port = IF i < 11 THEN <<>> ELSE <<NextPort>>

\* One more copy of a cookie.
LEMMA OneMoreCopy ==
  ASSUME NEW n \in Nat, NEW c
  PROVE  /\ [j \in 1 .. 0 |-> c] = <<>>
         /\ Append([j \in 1 .. n |-> c], c) = [j \in 1 .. n + 1 |-> c]
<1>1. [j \in 1 .. 0 |-> c] = <<>>
  OBVIOUS
<1>2. Append([j \in 1 .. n |-> c], c) = [j \in 1 .. n + 1 |-> c]
  <2> DEFINE s == [j \in 1 .. n |-> c]
             t == [j \in 1 .. n + 1 |-> c]
  <2>1. s \in Seq({c}) /\ Len(s) = n /\ \A j \in 1 .. n : s[j] = c
    OBVIOUS
  <2>2. t \in Seq({c}) /\ Len(t) = n + 1 /\ \A j \in 1 .. n + 1 : t[j] = c
    OBVIOUS
  <2> HIDE DEF s, t
  <2>3. Append(s, c) \in Seq({c}) /\ Len(Append(s, c)) = n + 1
    BY <2>1
  <2>4. \A j \in 1 .. n + 1 : Append(s, c)[j] = c
    BY <2>1
  <2>5. Append(s, c) = t
    BY <2>2, <2>3, <2>4
  <2> QED BY <2>5, Zenon DEF s, t
<1> QED BY <1>1, <1>2, Zenon

\* A record has one type.
LEMMA OneType ==
  ASSUME NEW r, NEW type, Has(r, type)
  PROVE  /\ deserialize(r) # "fatal"
         /\ \A other : Has(r, other) => other = type
BY Zenon DEF Has

\* One record more.
LEMMA ReadingStep ==
  ASSUME NEW i \in 1 .. 12, NEW st, NEW new, Reading(i - 1, st),
         Changes(st, Response(Cookie, NextPort)[i], new)
  PROVE  Reading(i, new)
<1> DEFINE r == Response(Cookie, NextPort)[i]
<1>1. /\ r = Response(Cookie, NextPort)[i]
      /\ new \in KeState
      /\ (new.finished <=> Has(r, EndOfMessage))
      /\ (new.failed <=> deserialize(r) = "fatal" \/ Has(r, Error))
      /\ new.next_protocols = IF Has(r, NextProtocol) THEN r.codes ELSE st.next_protocols
      /\ new.aead_scheme = IF Has(r, AeadAlgorithm) THEN r.codes ELSE st.aead_scheme
      /\ new.cookies = IF Has(r, NewCookie) THEN Append(st.cookies, r.codes) ELSE st.cookies
      /\ new.next_server = IF Has(r, Server) THEN r.codes ELSE st.next_server
      /\ new.next_port = IF Has(r, Port) THEN r.codes ELSE st.next_port
  BY Zenon DEF Changes
<1> HIDE DEF r
<1>2. \A critical, type, codes : serialize(critical, type, codes).codes = codes
  BY Zenon DEF serialize
<1> USE DEF EndOfMessage, NextProtocol, Error, AeadAlgorithm, NewCookie, Server, Port
<1>3. CASE i = 1
  <2>1. r = serialize(TRUE, NextProtocol, <<Ntpv4>>)
    BY <1>1, <1>3, ResponseIs, Zenon
  <2>2. Has(r, NextProtocol) /\ r.codes = <<Ntpv4>>
    BY <2>1, <1>2, SerializedHas, Zenon
  <2>3. deserialize(r) # "fatal" /\ \A other : Has(r, other) => other = NextProtocol
    BY <2>2, OneType, Zenon
  <2>4. Copies(i) = 0 /\ Copies(i - 1) = 0
    BY <1>3 DEF Copies
  <2> QED BY <1>1, <1>3, <2>2, <2>3, <2>4 DEF Reading
<1>4. CASE i = 2
  <2>1. r = serialize(TRUE, AeadAlgorithm, <<AeadAesSivCmac256>>)
    BY <1>1, <1>4, ResponseIs, Zenon
  <2>2. Has(r, AeadAlgorithm) /\ r.codes = <<AeadAesSivCmac256>>
    BY <2>1, <1>2, SerializedHas, Zenon
  <2>3. deserialize(r) # "fatal" /\ \A other : Has(r, other) => other = AeadAlgorithm
    BY <2>2, OneType, Zenon
  <2>4. Copies(i) = 0 /\ Copies(i - 1) = 0
    BY <1>4 DEF Copies
  <2> QED BY <1>1, <1>4, <2>2, <2>3, <2>4 DEF Reading
<1>5. CASE i \in 3 .. 10
  <2>1. r = serialize(FALSE, NewCookie, Cookie)
    BY <1>1, <1>5, ResponseIs, Zenon
  <2>2. Has(r, NewCookie) /\ r.codes = Cookie
    BY <2>1, <1>2, SerializedHas, Zenon
  <2>3. deserialize(r) # "fatal" /\ \A other : Has(r, other) => other = NewCookie
    BY <2>2, OneType, Zenon
  <2>4. Copies(i - 1) \in Nat /\ Copies(i) = Copies(i - 1) + 1
    BY <1>5 DEF Copies
  <2>5. Append([j \in 1 .. Copies(i - 1) |-> Cookie], Cookie) = [j \in 1 .. Copies(i) |-> Cookie]
    <3>1. PICK n \in Nat : n = Copies(i - 1)
      BY <2>4, Zenon
    <3>2. Append([j \in 1 .. n |-> Cookie], Cookie) = [j \in 1 .. n + 1 |-> Cookie]
      BY OneMoreCopy, Zenon
    <3>3. Copies(i) = n + 1
      BY <3>1, <2>4, Zenon
    <3> QED BY <3>1, <3>2, <3>3, Zenon
  <2>6. new.cookies = [j \in 1 .. Copies(i) |-> Cookie]
    BY <1>1, <2>2, <2>5, Zenon DEF Reading
  <2>7. /\ ~new.finished /\ ~new.failed
        /\ new.next_protocols = st.next_protocols
        /\ new.aead_scheme = st.aead_scheme
        /\ new.next_server = st.next_server
        /\ new.next_port = st.next_port
    BY <1>1, <2>3
  <2>8. /\ st.next_protocols = <<Ntpv4>>
        /\ st.aead_scheme = <<AeadAesSivCmac256>>
        /\ st.next_server = <<>>
        /\ st.next_port = <<>>
    BY <1>5 DEF Reading
  <2>9. ~(i < 1) /\ ~(i < 2) /\ i < 11 /\ i # 12
    BY <1>5
  <2> QED BY <1>1, <2>6, <2>7, <2>8, <2>9, Zenon DEF Reading
<1>6. CASE i = 11
  <2>1. r = serialize(TRUE, Port, <<NextPort>>)
    BY <1>1, <1>6, ResponseIs, Zenon
  <2>2. Has(r, Port) /\ r.codes = <<NextPort>>
    BY <2>1, <1>2, SerializedHas, Zenon
  <2>3. deserialize(r) # "fatal" /\ \A other : Has(r, other) => other = Port
    BY <2>2, OneType, Zenon
  <2>4. Copies(i) = 8 /\ Copies(i - 1) = 8
    BY <1>6 DEF Copies
  <2>5. /\ ~new.finished /\ ~new.failed
        /\ new.next_protocols = st.next_protocols
        /\ new.aead_scheme = st.aead_scheme
        /\ new.cookies = st.cookies
        /\ new.next_server = st.next_server
        /\ new.next_port = <<NextPort>>
    BY <1>1, <2>2, <2>3
  <2>6. /\ st.next_protocols = <<Ntpv4>>
        /\ st.aead_scheme = <<AeadAesSivCmac256>>
        /\ st.cookies = [j \in 1 .. Copies(i) |-> Cookie]
        /\ st.next_server = <<>>
    BY <1>6, <2>4 DEF Reading
  <2>7. ~(i < 1) /\ ~(i < 2) /\ ~(i < 11) /\ i # 12
    BY <1>6
  <2> QED BY <1>1, <2>5, <2>6, <2>7, Zenon DEF Reading
<1>7. CASE i = 12
  <2>1. r = serialize(TRUE, EndOfMessage, <<>>)
    BY <1>1, <1>7, ResponseIs, Zenon
  <2>2. Has(r, EndOfMessage)
    BY <2>1, SerializedHas, Zenon
  <2>3. deserialize(r) # "fatal" /\ \A other : Has(r, other) => other = EndOfMessage
    BY <2>2, OneType, Zenon
  <2>4. Copies(i) = 8 /\ Copies(i - 1) = 8
    BY <1>7 DEF Copies
  <2>5. /\ new.finished /\ ~new.failed
        /\ new.next_protocols = st.next_protocols
        /\ new.aead_scheme = st.aead_scheme
        /\ new.cookies = st.cookies
        /\ new.next_server = st.next_server
        /\ new.next_port = st.next_port
    BY <1>1, <2>2, <2>3
  <2>6. /\ st.next_protocols = <<Ntpv4>>
        /\ st.aead_scheme = <<AeadAesSivCmac256>>
        /\ st.cookies = [j \in 1 .. Copies(i) |-> Cookie]
        /\ st.next_server = <<>>
        /\ st.next_port = <<NextPort>>
    BY <1>7, <2>4 DEF Reading
  <2>7. ~(i < 1) /\ ~(i < 2) /\ ~(i < 11)
    BY <1>7
  <2> QED BY <1>1, <1>7, <2>5, <2>6, <2>7, Zenon DEF Reading
<1>8. i = 1 \/ i = 2 \/ i \in 3 .. 10 \/ i = 11 \/ i = 12
  OBVIOUS
<1> QED BY <1>3, <1>4, <1>5, <1>6, <1>7, <1>8, Zenon


\* NoRecords with all but two of its fields filled in.
LEMMA Filled ==
  ASSUME NEW protocols, NEW scheme, NEW cookies, NEW port
  PROVE  [NoRecords EXCEPT
            !.finished = TRUE, !.next_protocols = protocols, !.aead_scheme = scheme,
            !.cookies = cookies, !.next_port = port] =
         [finished |-> TRUE, failed |-> FALSE, next_protocols |-> protocols,
          aead_scheme |-> scheme, cookies |-> cookies, next_server |-> <<>>,
          next_port |-> port]
<1> DEFINE st == [NoRecords EXCEPT
                    !.finished = TRUE, !.next_protocols = protocols,
                    !.aead_scheme = scheme, !.cookies = cookies, !.next_port = port]
<1>1. st \in [finished : {TRUE}, failed : {FALSE}, next_protocols : {protocols},
              aead_scheme : {scheme}, cookies : {cookies}, next_server : {<<>>},
              next_port : {port}]
  BY Zenon DEF NoRecords
<1> HIDE DEF st
<1>2. st = [finished |-> st.finished, failed |-> st.failed,
            next_protocols |-> st.next_protocols, aead_scheme |-> st.aead_scheme,
            cookies |-> st.cookies, next_server |-> st.next_server,
            next_port |-> st.next_port]
  BY <1>1, Zenon
<1>3. /\ st.finished = TRUE /\ st.failed = FALSE /\ st.next_protocols = protocols
      /\ st.aead_scheme = scheme /\ st.cookies = cookies /\ st.next_server = <<>>
      /\ st.next_port = port
  BY <1>1, Zenon
<1>4. st = [finished |-> TRUE, failed |-> FALSE, next_protocols |-> protocols,
            aead_scheme |-> scheme, cookies |-> cookies, next_server |-> <<>>,
            next_port |-> port]
  BY <1>2, <1>3, Zenon
<1> QED BY <1>4, Zenon DEF st

\* The client's loop makes of a response what response() has put into it.
LEMMA ResponseUnderstood ==
  Loop(NoRecords, Response(Cookie, NextPort)) =
    [NoRecords EXCEPT
       !.finished = TRUE,
       !.next_protocols = <<Ntpv4>>,
       !.aead_scheme = <<AeadAesSivCmac256>>,
       !.cookies = [i \in 1 .. 8 |-> Cookie],
       !.next_port = <<NextPort>>]
<1> DEFINE q == Response(Cookie, NextPort)
           P == {i \in 0 .. 12 : Reading(i, After(q, i))}
<1>1. q \in Seq(Record) /\ Len(q) = 12
  BY ResponseIs, Zenon
<1> HIDE DEF q
<1>2. 0 \in P
  <2>1. Copies(0) = 0 /\ 0 \in Nat
    BY DEF Copies
  <2>2. [j \in 1 .. Copies(0) |-> Cookie] = <<>>
    BY <2>1, OneMoreCopy, Zenon
  <2>3. Reading(0, NoRecords)
    BY <2>2, NoRecordsType DEF Reading, NoRecords
  <2>4. 0 \in 0 .. 12
    OBVIOUS
  <2> QED BY <2>3, <2>4, <1>1, AfterIs, Zenon
<1>3. ASSUME NEW i \in 1 .. 12, i - 1 \in P PROVE i \in P
  <2>1. i \in 0 .. 12 /\ i - 1 # 12 /\ i \in 1 .. Len(q) /\ q[i] \in Record
    BY <1>1
  <2>2. Reading(i - 1, After(q, i - 1))
    BY <1>3, Zenon
  <2>3. After(q, i - 1) \in KeState /\ ~Decided(After(q, i - 1))
    BY <2>1, <2>2, Zenon DEF Reading, Decided
  <2>4. Changes(After(q, i - 1), q[i], After(q, i))
    BY <2>1, <2>3, <1>1, AfterIs, TurnIs, Zenon
  <2>5. Reading(i, After(q, i))
    BY <2>2, <2>4, ReadingStep, Zenon DEF q
  <2> QED BY <2>1, <2>5, Zenon
<1>4. Reading(12, After(q, 12))
  <2> HIDE DEF P
  <2>1. 12 \in Nat /\ 12 \in 0 .. 12
    OBVIOUS
  <2>2. 0 .. 12 \subseteq P
    BY <2>1, <1>2, <1>3, Induction, Zenon
  <2> QED BY <2>1, <2>2, Zenon DEF P
<1>5. After(q, 12) = Loop(NoRecords, q)
  <2>1. SubSeq(q, 1, 12) = q
    BY <1>1
  <2> QED BY <2>1, Zenon DEF After
<1> DEFINE st == After(q, 12)
<1>6. /\ st \in KeState /\ st.finished /\ ~st.failed
      /\ st.next_protocols = <<Ntpv4>>
      /\ st.aead_scheme = <<AeadAesSivCmac256>>
      /\ st.cookies = [j \in 1 .. 8 |-> Cookie]
      /\ st.next_server = <<>>
      /\ st.next_port = <<NextPort>>
  <2>1. ~(12 < 1) /\ ~(12 < 2) /\ ~(12 < 11) /\ Copies(12) = 8
    BY DEF Copies
  <2> QED BY <2>1, <1>4, Zenon DEF Reading
<1> HIDE DEF st
<1>7. st.finished = TRUE /\ st.failed = FALSE
  BY <1>6, Zenon DEF KeState
<1>8. st = [NoRecords EXCEPT
       !.finished = TRUE,
       !.next_protocols = <<Ntpv4>>,
       !.aead_scheme = <<AeadAesSivCmac256>>,
       !.cookies = [i \in 1 .. 8 |-> Cookie],
       !.next_port = <<NextPort>>]
  <2>1. st = [finished |-> st.finished, failed |-> st.failed,
              next_protocols |-> st.next_protocols, aead_scheme |-> st.aead_scheme,
              cookies |-> st.cookies, next_server |-> st.next_server,
              next_port |-> st.next_port]
    BY <1>6, Zenon DEF KeState
  <2>2. st = [finished |-> TRUE, failed |-> FALSE, next_protocols |-> <<Ntpv4>>,
              aead_scheme |-> <<AeadAesSivCmac256>>,
              cookies |-> [j \in 1 .. 8 |-> Cookie], next_server |-> <<>>,
              next_port |-> <<NextPort>>]
    BY <1>6, <1>7, <2>1, Zenon
  <2> DEFINE cs == [i \in 1 .. 8 |-> Cookie]
  <2>3. [NoRecords EXCEPT
            !.finished = TRUE, !.next_protocols = <<Ntpv4>>,
            !.aead_scheme = <<AeadAesSivCmac256>>, !.cookies = cs,
            !.next_port = <<NextPort>>] =
         [finished |-> TRUE, failed |-> FALSE, next_protocols |-> <<Ntpv4>>,
          aead_scheme |-> <<AeadAesSivCmac256>>, cookies |-> cs,
          next_server |-> <<>>, next_port |-> <<NextPort>>]
    <3> HIDE DEF cs
    <3> QED BY Filled, ZenonT(60)
  <2> QED BY <2>2, <2>3, Zenon
<1> QED BY <1>5, <1>8, Zenon DEF st, q

-----------------------------------------------------------------------------
(* The theorems.                                                           *)

\* Every step of the connection keeps the invariant.
LEMMA NextStream == StreamInv /\ [Next]_vars => StreamInv'
<1> SUFFICES ASSUME StreamInv, [Next]_vars PROVE StreamInv'
  BY Zenon
<1>1. CASE ReadHandshake
  BY <1>1, Zenon DEF ReadHandshake, StreamInv
<1>2. ASSUME NEW n \in 1 .. End(Len(request)) - delivered, ReadPlaintext(n)
      PROVE  StreamInv'
  <2>1. state \in {"TlsHandshaking", "Opened", "ResponseSent"} /\ Extract(n) /\ request' = request
    BY <1>2, Zenon DEF ReadPlaintext, Readable
  <2>2. state # "Closed"
    BY <2>1, Zenon
  <2>3. /\ delivered' \in 0 .. Ends(request)[Len(request)]
        /\ buffer' \in 0 .. delivered'
        /\ Taken(request, delivered', parsed', ke')
        /\ ~Decided(ke') => buffer' = delivered' - Ends(request)[parsed']
        /\ ke.finished => ke' = ke
    BY <2>1, <2>2, ExtractKeeps, Zenon
  <2>4. /\ request' \in Requests
        /\ delivered' \in 0 .. Ends(request')[Len(request')]
        /\ buffer' \in 0 .. delivered'
        /\ Taken(request', delivered', parsed', ke')
    BY <2>1, <2>3, Zenon DEF StreamInv
  <2>5. CASE ke'.failed
    <3>1. state' = "Closed" /\ reply' = reply
      BY <1>2, <2>5, Zenon DEF ReadPlaintext
    <3>2. reply' \in {<<>>, Response(Cookie, NextPort)}
      BY <3>1, Zenon DEF StreamInv
    <3> QED BY <2>4, <3>1, <3>2, Zenon DEF StreamInv
  <2>6. CASE ~ke'.failed /\ ke'.finished
    <3>1. CASE state # "ResponseSent"
      <4>1. state' = "ResponseSent" /\ reply' = reply \o Response(Cookie, NextPort)
        BY <1>2, <2>6, <3>1, Zenon DEF ReadPlaintext
      <4>2. reply = <<>>
        BY <2>1, <3>1, Zenon DEF StreamInv
      <4>3. <<>> \o Response(Cookie, NextPort) = Response(Cookie, NextPort)
        <5>1. Response(Cookie, NextPort) \in Seq(Record)
          BY ResponseIs, Zenon
        <5> QED BY <5>1
      <4>4. reply' = Response(Cookie, NextPort)
        BY <4>1, <4>2, <4>3, Zenon
      <4> QED BY <2>4, <2>6, <4>1, <4>4, Zenon DEF StreamInv
    <3>2. CASE state = "ResponseSent"
      <4>1. state' = state /\ reply' = reply
        BY <1>2, <2>6, <3>2, Zenon DEF ReadPlaintext
      <4> QED BY <2>4, <2>6, <3>2, <4>1, Zenon DEF StreamInv
    <3> QED BY <3>1, <3>2, Zenon
  <2>7. CASE ~ke'.failed /\ ~ke'.finished
    <3>1. state' = "Opened" /\ reply' = reply
      BY <1>2, <2>7, Zenon DEF ReadPlaintext
    <3>2. state # "ResponseSent"
      BY <2>3, <2>7, Zenon DEF StreamInv
    <3>3. reply = <<>>
      BY <2>1, <3>2, Zenon DEF StreamInv
    <3>4. buffer' = delivered' - Ends(request')[parsed']
      BY <2>1, <2>3, <2>7, Zenon DEF Decided
    <3> QED BY <2>4, <2>7, <3>1, <3>3, <3>4, Zenon DEF StreamInv
  <2> QED BY <2>5, <2>6, <2>7, Zenon
<1>3. ASSUME NEW n \in 0 .. End(Len(request)) - delivered, ReadTlsError(n)
      PROVE  StreamInv'
  <2>1. /\ state # "Closed" /\ state' = "Closed"
        /\ request' = request /\ reply' = reply
        /\ reply' \in {<<>>, Response(Cookie, NextPort)}
    BY <1>3, Zenon DEF ReadTlsError, Readable, StreamInv
  <2>2. CASE n = 0 /\ UNCHANGED <<delivered, buffer, parsed, ke>>
    BY <2>1, <2>2, Zenon DEF StreamInv
  <2>3. CASE n > 0 /\ Extract(n)
    <3>1. n \in 1 .. End(Len(request)) - delivered
      <4>1. End(Len(request)) - delivered \in Int
        BY RequestIs DEF StreamInv, End
      <4> QED BY <4>1, <2>3
    <3>2. /\ delivered' \in 0 .. Ends(request)[Len(request)]
          /\ buffer' \in 0 .. delivered'
          /\ Taken(request, delivered', parsed', ke')
      BY <2>1, <2>3, <3>1, ExtractKeeps, Zenon
    <3> QED BY <2>1, <3>2, Zenon DEF StreamInv
  <2> QED BY <1>3, <2>2, <2>3, Zenon DEF ReadTlsError
<1>4. CASE ReadEnd
  BY <1>4, Zenon DEF ReadEnd, StreamInv
<1>5. CASE UNCHANGED vars
  BY <1>5, Zenon DEF vars, StreamInv
<1> QED BY <1>1, <1>2, <1>3, <1>4, <1>5, Zenon DEF Next


\* StreamInv is an invariant of the connection.
LEMMA StreamInvariant == Spec => []StreamInv
<1>1. Init => StreamInv
  BY InitStream, Zenon
<1>2. StreamInv /\ [Next]_vars => StreamInv'
  BY NextStream, Zenon
<1> QED BY <1>1, <1>2, PTL DEF Spec

\* Every variable of the connection keeps its type.
THEOREM StreamTypes == Spec => []TypeOK
<1>1. StreamInv => TypeOK
  <2> SUFFICES ASSUME StreamInv PROVE TypeOK
    BY Zenon
  <2>1. /\ request \in Seq(Record)
        /\ delivered \in Nat
        /\ parsed \in 0 .. Whole(request, delivered)
        /\ ke = After(request, parsed)
    BY RequestIs DEF StreamInv, Taken
  <2>2. parsed \in 0 .. Len(request)
    <3>1. Whole(request, delivered) \in 0 .. Len(request)
      BY <2>1, WholeIs, Zenon
    <3> QED BY <2>1, <3>1
  <2>3. ke \in KeState
    BY <2>1, <2>2, AfterIs, Zenon
  <2>4. ke.finished \in BOOLEAN /\ ke.failed \in BOOLEAN
    BY <2>3, Zenon DEF KeState
  <2> QED BY <2>2, <2>4, Zenon DEF StreamInv, TypeOK, End
<1> QED BY <1>1, StreamInvariant, PTL

\* For every request and every way of cutting it: what read_ready has made of
\* the bytes it has got is what one look at all of them would make of them.
THEOREM CutsNeverMatter == Spec => []ChunkingIrrelevant
<1>1. StreamInv => ChunkingIrrelevant
  <2> SUFFICES ASSUME StreamInv PROVE ChunkingIrrelevant
    BY Zenon
  <2> DEFINE q == request
             w == Whole(q, delivered)
             D == {i \in 1 .. w : Deciding(q[i])}
  <2>1. q \in Seq(Record) /\ delivered \in Nat /\ Taken(q, delivered, parsed, ke)
    BY RequestIs DEF StreamInv
  <2>2. Complete(delivered) = w
    BY Zenon DEF Complete, End, Whole
  <2>3. Decision(delivered) = D
    BY <2>2, Zenon DEF Decision
  <2> HIDE DEF q
  <2>4. /\ parsed \in 0 .. Len(q)
        /\ Decided(ke) => parsed \in D /\ Min(D) = parsed
                            /\ (ke.finished <=> Has(q[parsed], EndOfMessage))
                            /\ (ke.failed <=> ~Has(q[parsed], EndOfMessage))
        /\ ~Decided(ke) => D = {}
        /\ Holds(q, parsed, ke)
        /\ \A type \in Values :
             Typed(q, parsed, type) =
               {i \in 1 .. w : (\A j \in D : i < j) /\ Has(q[i], type)}
    <3>1. D = {i \in 1 .. Whole(q, delivered) : Deciding(q[i])} /\ w = Whole(q, delivered)
      BY Zenon
    <3> HIDE DEF D, w
    <3>2. Meant(q, parsed, ke, Whole(q, delivered), D)
      BY <2>1, <3>1, TakenMeans, Zenon
    <3> QED BY <3>1, <3>2, Zenon DEF Meant
  <2>5. ke.finished \in BOOLEAN /\ ke.failed \in BOOLEAN
    <3>1. ke \in KeState
      BY <2>1, <2>4, AfterIs, Zenon DEF Taken
    <3> QED BY <3>1, Zenon DEF KeState
  <2> HIDE DEF D, w
  <2>6. Finished(delivered) <=> D # {} /\ Has(q[Min(D)], EndOfMessage)
    BY <2>3, Zenon DEF Finished, Has, q
  <2>7. ke.finished <=> Finished(delivered)
    BY <2>4, <2>6, Zenon DEF Decided
  <2>8. ke.failed <=> Decision(delivered) # {} /\ ~Finished(delivered)
    BY <2>3, <2>4, <2>6, Zenon DEF Decided
  <2>9. ASSUME NEW type \in Values
        PROVE  /\ Effective(delivered, type) = Typed(q, parsed, type)
               /\ LastCodes(delivered, type) = LastBody(q, parsed, type)
    <3>1. Effective(delivered, type) =
            {i \in 1 .. w : (\A j \in D : i < j) /\ Has(q[i], type)}
      BY <2>2, <2>3, Zenon DEF Effective, Has, q
    <3>2. Effective(delivered, type) = Typed(q, parsed, type)
      BY <2>4, <3>1, Zenon
    <3> QED BY <3>2, Zenon DEF LastCodes, LastBody, q
  <2>10. /\ NextProtocol \in Values /\ AeadAlgorithm \in Values /\ NewCookie \in Values
         /\ Server \in Values /\ Port \in Values
    BY Zenon DEF Values
  <2>11. /\ ke.finished = Finished(delivered)
         /\ ke.failed = (Decision(delivered) # {} /\ ~Finished(delivered))
    <3>1. Finished(delivered) \in BOOLEAN
      BY Zenon DEF Finished
    <3> QED BY <2>5, <2>7, <2>8, <3>1, Zenon
  <2> QED BY <2>4, <2>9, <2>10, <2>11, Zenon DEF ChunkingIrrelevant, Holds
<1> QED BY <1>1, StreamInvariant, PTL

\* The response is sent once, when the message has ended, and never before.
THEOREM AnsweredAtMostOnce == Spec => []AnsweredOnce
<1>1. StreamInv => AnsweredOnce
  <2>1. Response(Cookie, NextPort) # <<>>
    <3>1. Len(Response(Cookie, NextPort)) = 12
      BY ResponseIs, Zenon
    <3>2. Len(<<>>) = 0
      BY Zenon
    <3> QED BY <3>1, <3>2
  <2> QED BY <2>1, Zenon DEF StreamInv, AnsweredOnce
<1> QED BY <1>1, StreamInvariant, PTL

\* Until the message ends, the buffer holds the beginning of one record.
THEOREM BufferAlwaysOneRecord == Spec => []BufferIsOneRecord
<1>1. StreamInv => BufferIsOneRecord
  <2> SUFFICES ASSUME StreamInv, state = "Opened"
               PROVE  /\ buffer = delivered - End(parsed)
                      /\ parsed < Len(request) => buffer < Size(request[parsed + 1])
    BY Zenon DEF BufferIsOneRecord
  <2>1. /\ request \in Seq(Record)
        /\ delivered \in Nat
        /\ parsed \in 0 .. Whole(request, delivered)
        /\ ~Decided(ke)
        /\ buffer = delivered - Ends(request)[parsed]
    BY RequestIs DEF StreamInv, Taken, Decided
  <2>2. parsed = Whole(request, delivered)
    BY <2>1, Zenon DEF StreamInv, Taken
  <2>3. /\ parsed \in 0 .. Len(request)
        /\ \A i \in 0 .. Len(request) : Ends(request)[i] <= delivered => i <= parsed
    BY <2>1, <2>2, WholeIs, Zenon
  <2>4. ASSUME parsed < Len(request)
        PROVE  buffer < Size(request[parsed + 1])
    <3>1. /\ parsed + 1 \in 1 .. Len(request) /\ parsed + 1 \in 0 .. Len(request)
          /\ (parsed + 1) - 1 = parsed /\ ~(parsed + 1 <= parsed)
          /\ request[parsed + 1] \in Record
      BY <2>1, <2>3, <2>4
    <3>2. ~(Ends(request)[parsed + 1] <= delivered)
      BY <2>3, <3>1, Zenon
    <3>3. Ends(request)[parsed + 1] = Ends(request)[parsed] + Size(request[parsed + 1])
      BY <2>1, <3>1, EndsAre, Zenon
    <3>4. Ends(request)[parsed] \in Nat
      BY <2>1, <2>3, EndsAre, Zenon
    <3>5. Size(request[parsed + 1]) \in Nat
      BY <3>1, SizeIs, Zenon
    <3> QED BY ONLY <2>1, <3>2, <3>3, <3>4, <3>5
  <2> QED BY <2>1, <2>4, Zenon DEF End
<1> QED BY <1>1, StreamInvariant, PTL

\* Whatever the request, the cookie and the port: a client makes of the
\* response what the server meant.
THEOREM ResponseAlwaysUnderstood == Spec => []ClientUnderstands
<1>1. StreamInv => ClientUnderstands
  BY ResponseUnderstood, Zenon DEF StreamInv, ClientUnderstands
<1> QED BY <1>1, StreamInvariant, PTL

=============================================================================
