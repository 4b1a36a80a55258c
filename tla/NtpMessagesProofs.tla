------------------------- MODULE NtpMessagesProofs --------------------------
(***************************************************************************)
(* What the parsers, the writers and the answers of NtpPackets and         *)
(* NtpMessages do with every datagram: the second parser of response()     *)
(* finds what the first one found and does not panic, and a client opens   *)
(* the answer to its own query.                                            *)
(***************************************************************************)
EXTENDS NtpMessages, WellFoundedInduction, TLAPS

\* Every set of naturals has a least element.
LEMMA Least ==
  ASSUME NEW T, T \subseteq Nat, T # {}
  PROVE  \E x \in T : \A y \in T : x <= y
<1>1. IsWellFoundedOn(OpToRel(<, Nat), Nat)
  BY NatLessThanWellFounded, Zenon
<1>2. PICK x \in T : \A y \in T : ~(<<y, x>> \in OpToRel(<, Nat))
  BY <1>1, WFMin, Zenon
<1>3. \A y \in T : ~(y < x)
  BY <1>2, Zenon DEF OpToRel
<1> QED BY <1>3

\* What holds of 0, and of i if it holds of i - 1, holds up to n.
LEMMA Induction ==
  ASSUME NEW n \in Nat, NEW P, 0 \in P, \A i \in 1 .. n : i - 1 \in P => i \in P
  PROVE  0 .. n \subseteq P
<1> DEFINE T == {i \in 0 .. n : i \notin P}
<1> SUFFICES ASSUME T # {} PROVE FALSE
  OBVIOUS
<1>1. T \subseteq Nat
  OBVIOUS
<1>2. PICK k \in T : \A j \in T : k <= j
  <2> HIDE DEF T
  <2> QED BY <1>1, Least, Zenon
<1>3. k \in 1 .. n /\ k - 1 \in 0 .. n /\ ~(k <= k - 1)
  BY <1>2
<1> QED BY <1>2, <1>3

\* f goes from base to base + n by steps.
Computes(f, n, base, step) ==
  f[0] = base /\ \A i \in 1 .. n : f[i] = step[<<i, f[i - 1]>>]

\* A function on 0 .. n can be defined from each value to the next.
LEMMA Recursion ==
  ASSUME NEW n \in Nat, NEW S, NEW base \in S, NEW step \in [(1 .. n) \X S -> S]
  PROVE  \E f \in [0 .. n -> S] :
           Computes(f, n, base, step)
<1> DEFINE Good(k, f) == f[0] = base /\ \A i \in 1 .. k : f[i] = step[<<i, f[i - 1]>>]
<1> DEFINE P == {k \in 0 .. n : \E f \in [0 .. k -> S] : Good(k, f)}
<1>1. 0 \in P
  <2> DEFINE g == [i \in 0 .. 0 |-> base]
  <2>1. Good(0, g) /\ g \in [0 .. 0 -> S] /\ 0 \in 0 .. n
    OBVIOUS
  <2> HIDE DEF g, Good
  <2> QED BY <2>1, Zenon
<1>2. ASSUME NEW k \in 1 .. n, k - 1 \in P
      PROVE  k \in P
  <2>1. PICK f \in [0 .. k - 1 -> S] : Good(k - 1, f)
    BY <1>2
  <2> DEFINE g == [i \in 0 .. k |-> IF i = k THEN step[<<k, f[k - 1]>>] ELSE f[i]]
  <2>2. g \in [0 .. k -> S]
    BY <2>1
  <2>3. /\ g[k] = step[<<k, f[k - 1]>>]
        /\ \A i \in 0 .. k - 1 : g[i] = f[i]
    OBVIOUS
  <2>4. k \in 0 .. n
    OBVIOUS
  <2> HIDE DEF g
  <2>5. Good(k, g)
    <3>1. g[0] = base
      BY <2>1, <2>3
    <3>2. ASSUME NEW i \in 1 .. k PROVE g[i] = step[<<i, g[i - 1]>>]
      <4>1. g[i - 1] = f[i - 1]
        BY <2>3
      <4>2. CASE i = k
        BY <4>1, <4>2, <2>3
      <4>3. CASE i # k
        <5>1. i \in 1 .. k - 1 /\ i \in 0 .. k - 1
          BY <4>3
        <5> QED BY <5>1, <4>1, <2>1, <2>3
      <4> QED BY <4>2, <4>3
    <3> QED BY <3>1, <3>2
  <2> HIDE DEF Good
  <2> QED BY <2>2, <2>4, <2>5, Zenon
<1>3. n \in P
  <2> HIDE DEF P
  <2> QED BY <1>1, <1>2, Induction
<1> QED BY <1>3 DEF Computes

\* Offsets adds up the lengths.
LEMMA OffsetsAre ==
  ASSUME NEW s, s \in Seq({s[i] : i \in DOMAIN s}), \A i \in DOMAIN s : s[i].len \in Nat
  PROVE  /\ Offsets(s) \in [0 .. Len(s) -> Nat]
         /\ Offsets(s)[0] = 0
         /\ \A i \in 1 .. Len(s) : Offsets(s)[i] = s[i].len + Offsets(s)[i - 1]
<1>1. PICK n \in Nat : n = Len(s) /\ DOMAIN s = 1 .. n
  OBVIOUS
<1>2. PICK step : step = [x \in (1 .. n) \X Nat |-> s[x[1]].len + x[2]]
  BY Zenon
<1>3. step \in [(1 .. n) \X Nat -> Nat]
  BY <1>1, <1>2
<1>4. PICK f \in [0 .. n -> Nat] :
         Computes(f, n, 0, step)
  <2>1. 0 \in Nat
    OBVIOUS
  <2> QED BY <2>1, <1>1, <1>3, Recursion, Zenon
<1>5. \A i \in 1 .. n : f[i] = s[i].len + f[i - 1]
  <2> TAKE i \in 1 .. n
  <2>1. f[i - 1] \in Nat
    BY <1>4
  <2>2. <<i, f[i - 1]>> \in (1 .. n) \X Nat
    BY <2>1
  <2>3. step[<<i, f[i - 1]>>] = s[i].len + f[i - 1]
    BY <2>2, <1>2
  <2> QED BY <2>3, <1>4 DEF Computes
<1>6. f = [i \in 0 .. n |-> IF i = 0 THEN 0 ELSE s[i].len + f[i - 1]]
  BY <1>4, <1>5 DEF Computes
<1> DEFINE upto == CHOOSE g : g = [i \in 0 .. n |-> IF i = 0 THEN 0 ELSE s[i].len + g[i - 1]]
<1>7. upto = [i \in 0 .. n |-> IF i = 0 THEN 0 ELSE s[i].len + upto[i - 1]]
  BY <1>6, Zenon
<1>8. Offsets(s) = upto
  BY <1>1 DEF Offsets
<1> HIDE DEF upto
<1>9. DOMAIN upto = 0 .. n /\ upto[0] = 0 /\ \A i \in 1 .. n : upto[i] = s[i].len + upto[i - 1]
  BY <1>7
<1>10. \A i \in 0 .. n : upto[i] \in Nat
  <2> DEFINE P == {i \in 0 .. n : upto[i] \in Nat}
  <2>1. 0 \in P
    BY <1>9
  <2>2. ASSUME NEW i \in 1 .. n, i - 1 \in P PROVE i \in P
    <3>1. upto[i - 1] \in Nat /\ i \in 0 .. n
      BY <2>2
    <3>2. upto[i] = s[i].len + upto[i - 1] /\ s[i].len \in Nat
      BY <1>9, <1>1
    <3>3. upto[i] \in Nat
      BY ONLY <3>1, <3>2
    <3> QED BY <3>1, <3>3
  <2> HIDE DEF P
  <2>3. 0 .. n \subseteq P
    BY <2>1, <2>2, <1>1, Induction, Zenon
  <2> QED BY <2>3 DEF P
<1>11. upto \in [0 .. n -> Nat]
  BY <1>7, <1>10
<1> QED BY <1>8, <1>9, <1>11, <1>1

\* The elements of s at the indices in I.
FieldsAt(s, I) == {s[i] : i \in I \cap DOMAIN s}

\* f[i] are those of the first i fields whose index is in I.
Selects(f, s, I) ==
  /\ f[0] = <<>>
  /\ \A i \in 1 .. Len(s) :
       f[i] = IF i \in I THEN Append(f[i - 1], s[i]) ELSE f[i - 1]
  /\ Selected(s, I) = f[Len(s)]

\* Selected goes through the fields and keeps those with an index in I.
LEMMA SelectedIs ==
  ASSUME NEW s, s \in Seq({s[i] : i \in DOMAIN s}), NEW I
  PROVE  \E f \in [0 .. Len(s) -> Seq(FieldsAt(s, I))] : Selects(f, s, I)
<1>1. PICK n \in Nat : n = Len(s) /\ DOMAIN s = 1 .. n
  OBVIOUS
<1>2. PICK E : E = {s[i] : i \in I \cap DOMAIN s}
  BY Zenon
<1>3. PICK step : step = [x \in (1 .. n) \X Seq(E) |->
                            IF x[1] \in I THEN Append(x[2], s[x[1]]) ELSE x[2]]
  BY Zenon
<1>4. step \in [(1 .. n) \X Seq(E) -> Seq(E)]
  <2>1. \A i \in 1 .. n : i \in I => s[i] \in E
    BY <1>1, <1>2
  <2>2. ASSUME NEW x \in (1 .. n) \X Seq(E)
        PROVE  (IF x[1] \in I THEN Append(x[2], s[x[1]]) ELSE x[2]) \in Seq(E)
    BY <2>1
  <2> QED BY <1>3, <2>2
<1>5. PICK f \in [0 .. n -> Seq(E)] : Computes(f, n, <<>>, step)
  <2>1. <<>> \in Seq(E)
    OBVIOUS
  <2> QED BY <2>1, <1>1, <1>4, Recursion, Zenon
<1> DEFINE Pass(g) == [i \in 0 .. n |->
             IF i = 0 THEN <<>>
             ELSE IF i \in I THEN Append(g[i - 1], s[i]) ELSE g[i - 1]]
<1>6. \A i \in 1 .. n : f[i] = IF i \in I THEN Append(f[i - 1], s[i]) ELSE f[i - 1]
  <2> TAKE i \in 1 .. n
  <2>1. <<i, f[i - 1]>> \in (1 .. n) \X Seq(E)
    BY <1>5
  <2>2. step[<<i, f[i - 1]>>] = IF i \in I THEN Append(f[i - 1], s[i]) ELSE f[i - 1]
    BY <2>1, <1>3
  <2> QED BY <2>2, <1>5 DEF Computes
<1>7. f = Pass(f)
  <2>1. ASSUME NEW i \in 0 .. n PROVE Pass(f)[i] = f[i]
    <3>1. Pass(f)[i] = IF i = 0 THEN <<>>
                       ELSE IF i \in I THEN Append(f[i - 1], s[i]) ELSE f[i - 1]
      BY Zenon
    <3>2. CASE i = 0
      BY <3>1, <3>2, <1>5, Zenon DEF Computes
    <3>3. CASE i # 0
      <4>1. i \in 1 .. n
        BY <3>3, <1>1
      <4> QED BY <3>1, <3>3, <4>1, <1>6, Zenon
    <3> QED BY <3>2, <3>3
  <2>2. f = [i \in 0 .. n |-> f[i]] /\ Pass(f) = [i \in 0 .. n |-> Pass(f)[i]]
    BY <1>5
  <2> HIDE DEF Pass
  <2> QED BY <2>1, <2>2
<1> DEFINE upto == CHOOSE g : g = Pass(g)
<1>8. upto = Pass(upto)
  BY <1>7, Zenon
<1>9. Selected(s, I) = upto[n]
  BY <1>1 DEF Selected
<1> HIDE DEF upto
<1>10. \A i \in 0 .. n : upto[i] = f[i]
  <2> DEFINE P == {i \in 0 .. n : upto[i] = f[i]}
  <2>1. 0 \in P
    BY <1>7, <1>8
  <2>2. ASSUME NEW i \in 1 .. n, i - 1 \in P PROVE i \in P
    <3>1. upto[i - 1] = f[i - 1] /\ i \in 0 .. n
      BY <2>2
    <3>2. upto[i] = Pass(upto)[i] /\ f[i] = Pass(f)[i]
      BY <1>7, <1>8, Zenon
    <3>3. Pass(upto)[i] = Pass(f)[i]
      BY <3>1
    <3> QED BY <3>1, <3>2, <3>3, Zenon
  <2> HIDE DEF P
  <2>3. 0 .. n \subseteq P
    BY <2>1, <2>2, <1>1, Induction, Zenon
  <2> QED BY <2>3 DEF P
<1>11. f[0] = <<>> /\ Selected(s, I) = f[n]
  BY <1>5, <1>9, <1>10, <1>1 DEF Computes
<1>12. Selects(f, s, I)
  BY <1>1, <1>6, <1>11, Zenon DEF Selects
<1> QED BY <1>1, <1>2, <1>5, <1>12, Zenon DEF FieldsAt

\* A function that does not go down from one number to the next never does.
LEMMA Grows ==
  ASSUME NEW n \in Nat, NEW f \in [0 .. n -> Nat],
         \A k \in 1 .. n : f[k - 1] <= f[k],
         NEW i \in 0 .. n, NEW j \in i .. n
  PROVE  f[i] <= f[j]
<1> DEFINE P == {k \in 0 .. n : k >= i => f[i] <= f[k]}
<1>1. 0 \in P
  OBVIOUS
<1>2. ASSUME NEW k \in 1 .. n, k - 1 \in P PROVE k \in P
  <2>1. f[k] \in Nat /\ f[k - 1] \in Nat /\ f[i] \in Nat /\ f[k - 1] <= f[k]
    OBVIOUS
  <2>2. k - 1 >= i => f[i] <= f[k - 1]
    BY <1>2
  <2>3. k >= i => k - 1 >= i \/ k = i
    OBVIOUS
  <2>4. k >= i => f[i] <= f[k]
    BY <2>1, <2>2, <2>3
  <2> QED BY <2>4
<1> HIDE DEF P
<1>3. 0 .. n \subseteq P
  BY <1>1, <1>2, Induction, Zenon
<1>4. j \in P /\ j >= i
  BY <1>3
<1> QED BY <1>4 DEF P

\* Offsets grow.
LEMMA OffsetsGrow ==
  ASSUME NEW s, s \in Seq({s[i] : i \in DOMAIN s}), \A i \in DOMAIN s : s[i].len \in Nat,
         NEW i \in 0 .. Len(s), NEW j \in i .. Len(s)
  PROVE  Offsets(s)[i] <= Offsets(s)[j]
<1> DEFINE n == Len(s)  f == Offsets(s)
<1>1. n \in Nat /\ DOMAIN s = 1 .. n
  OBVIOUS
<1>2. f \in [0 .. n -> Nat] /\ \A k \in 1 .. n : f[k] = s[k].len + f[k - 1]
  BY OffsetsAre, Zenon
<1>3. i \in 0 .. n /\ j \in i .. n
  OBVIOUS
<1> HIDE DEF n, f
<1>4. ASSUME NEW k \in 1 .. n PROVE f[k - 1] <= f[k]
  <2>1. k \in DOMAIN s /\ k - 1 \in 0 .. n
    BY <1>1
  <2>2. f[k - 1] \in Nat /\ s[k].len \in Nat /\ f[k] = s[k].len + f[k - 1]
    BY <1>2, <2>1, Zenon
  <2> QED BY ONLY <2>2
<1>5. f[i] <= f[j]
  BY <1>1, <1>2, <1>3, <1>4, Grows, Zenon
<1> QED BY <1>5 DEF f

-----------------------------------------------------------------------------
(* No datagram makes response() panic.                                     *)

\* The fields that arrived are the first ones.
LEMMA PresentFirst ==
  ASSUME NEW w, IsDatagram(w), NEW j \in Present(w), NEW i \in 1 .. j
  PROVE  i \in Present(w)
<1>1. PICK n \in Nat : n = Len(w.exts) /\ DOMAIN w.exts = 1 .. n
  BY DEF IsDatagram
<1>2. j \in 1 .. n /\ i \in 1 .. n /\ i - 1 \in 0 .. n /\ j - 1 \in i - 1 .. n
  BY <1>1 DEF Present
<1>3. Offsets(w.exts)[i - 1] <= Offsets(w.exts)[j - 1]
  BY <1>1, <1>2, OffsetsGrow, Zenon DEF IsDatagram
<1>4. Offsets(w.exts)[i - 1] \in Nat /\ Offsets(w.exts)[j - 1] \in Nat
  <2>1. Offsets(w.exts) \in [0 .. n -> Nat]
    BY <1>1, OffsetsAre, Zenon DEF IsDatagram
  <2> QED BY <2>1, <1>2
<1>5. HEADER_SIZE + Offsets(w.exts)[j - 1] + 4 <= w.bytes
  BY DEF Present, StartOf
<1>6. HEADER_SIZE + Offsets(w.exts)[i - 1] + 4 <= w.bytes
  <2>1. w.bytes \in Nat
    BY DEF IsDatagram
  <2> QED BY ONLY <1>3, <1>4, <1>5, <2>1 DEF HEADER_SIZE
<1> QED BY <1>1, <1>2, <1>6 DEF Present, StartOf

\* parse_ntp_packet only lets whole words through.
LEMMA ParsedAreWords ==
  ASSUME NEW w, ~IsErr(parse_ntp_packet(w))
  PROVE  /\ \A i \in Present(w) : w.exts[i].len % 4 = 0 /\ ~(w.exts[i].len < 4)
         /\ parse_ntp_packet(w).exts = [i \in Present(w) |-> ReadExt(w, i)]
         /\ ~(w.bytes < HEADER_SIZE)
<1>1. IsErr(Err)
  BY DEF IsErr, Err
<1>2. /\ ~IsErr(parse_packet_header(w))
      /\ ~IsErr(parse_extensions(w))
      /\ parse_ntp_packet(w).exts = parse_extensions(w).exts
  BY <1>1 DEF parse_ntp_packet
<1>3. ~(w.bytes < HEADER_SIZE)
  BY <1>1, <1>2 DEF parse_packet_header
<1>4. ~ \E i \in Present(w) : BadLength(w.exts[i])
  BY <1>1, <1>2 DEF parse_extensions
<1>5. parse_extensions(w).exts = [i \in Present(w) |-> ReadExt(w, i)]
  BY <1>4 DEF parse_extensions
<1> QED BY <1>2, <1>3, <1>4, <1>5 DEF BadLength

\* A field keeps its type and its length, however much of it arrived.
LEMMA ReadKeeps ==
  ASSUME NEW w, NEW i
  PROVE  ReadExt(w, i).type = w.exts[i].type /\ ReadExt(w, i).len = w.exts[i].len
BY DEF ReadExt, Ext

\* extract_extension returns a field of that kind if there is one.
LEMMA ExtractFinds ==
  ASSUME NEW p, NEW kind, DOMAIN p.exts \subseteq Nat, has_extension(p, kind)
  PROVE  \E i \in DOMAIN p.exts :
           /\ extract_extension(p, kind) = p.exts[i]
           /\ p.exts[i].type = kind
           /\ \A j \in DOMAIN p.exts : p.exts[j].type = kind => i <= j
<1>1. PICK found : found = {i \in DOMAIN p.exts : p.exts[i].type = kind}
  BY Zenon
<1>2. found # {} /\ found \subseteq Nat
  BY <1>1 DEF has_extension
<1>3. \E i \in found : \A j \in found : i <= j
  BY <1>2, Least, Zenon
<1> DEFINE k == CHOOSE i \in found : \A j \in found : i <= j
<1>4. k \in found /\ \A j \in found : k <= j
  BY <1>3, Zenon
<1>5. extract_extension(p, kind) = p.exts[k]
  BY <1>1 DEF extract_extension
<1> HIDE DEF k
<1> QED BY <1>1, <1>4, <1>5

\* A packet of whole words is written.
LEMMA WordsAreWritten ==
  ASSUME NEW p, \A i \in DOMAIN p.exts : p.exts[i].len % 4 = 0
  PROVE  /\ serialize_ntp_packet(p) # Panic
         /\ ~IsErr(serialize_ntp_packet(p))
         /\ serialize_ntp_packet(p) =
              [head |-> serialize_header(p.header), exts |-> p.exts,
               bytes |-> HEADER_SIZE + Lengths(p.exts)]
<1>1. serialize_ntp_packet(p) =
        [head |-> serialize_header(p.header), exts |-> p.exts,
         bytes |-> HEADER_SIZE + Lengths(p.exts)]
  BY DEF serialize_ntp_packet
<1>2. ~IsErr(serialize_ntp_packet(p))
  BY <1>1 DEF IsErr
<1>3. IsErr(Panic)
  BY DEF IsErr, Panic
<1> QED BY <1>1, <1>2, <1>3

\* kiss_of_death: the identifier it returns has been checked.
LEMMA KissSurvives ==
  ASSUME NEW w, IsDatagram(w), ~IsErr(parse_ntp_packet(w))
  PROVE  serialize_ntp_packet(kiss_of_death(parse_ntp_packet(w))) # Panic
<1> DEFINE p == parse_ntp_packet(w)
<1>1. Present(w) \subseteq Nat
  <2>1. DOMAIN w.exts \subseteq Nat
    BY DEF IsDatagram
  <2> QED BY <2>1 DEF Present
<1> HIDE DEF p
<1>2. DOMAIN p.exts = Present(w) /\ \A i \in Present(w) : p.exts[i].len % 4 = 0
  <2>1. p.exts = [i \in Present(w) |-> ReadExt(w, i)]
    BY ParsedAreWords, Zenon DEF p
  <2>2. \A i \in Present(w) : w.exts[i].len % 4 = 0
    BY ParsedAreWords, Zenon
  <2>3. \A i \in Present(w) : ReadExt(w, i).len = w.exts[i].len
    BY ReadKeeps, Zenon
  <2> QED BY <2>1, <2>2, <2>3
<1>3. \A i \in DOMAIN kiss_of_death(p).exts : kiss_of_death(p).exts[i].len % 4 = 0
  <2>1. CASE has_extension(p, UniqueIdentifier)
    <3>1. kiss_of_death(p).exts = <<extract_extension(p, UniqueIdentifier)>>
      BY <2>1 DEF kiss_of_death
    <3>2. extract_extension(p, UniqueIdentifier).len % 4 = 0
      BY <2>1, <1>1, <1>2, ExtractFinds
    <3> QED BY <3>1, <3>2
  <2>2. CASE ~has_extension(p, UniqueIdentifier)
    BY <2>2 DEF kiss_of_death
  <2> QED BY <2>1, <2>2
<1> QED BY <1>3, WordsAreWritten DEF p

\* The first authenticator is one, and no other comes before it.
LEMMA FirstAuthIs ==
  ASSUME NEW w, Present(w) \subseteq Nat, Auths(w) # {}
  PROVE  FirstAuth(w) \in Auths(w) /\ \A j \in Auths(w) : FirstAuth(w) <= j
<1>1. Auths(w) \subseteq Nat
  BY DEF Auths
<1>2. \E i \in Auths(w) : \A j \in Auths(w) : i <= j
  BY <1>1, Least
<1> QED BY <1>2, Zenon DEF FirstAuth

\* What parse_nts_packet returns: the fields before the first authenticator.  It
\* panics only on the length of that authenticator.
LEMMA NtsParsed ==
  ASSUME NEW w, NEW key, Present(w) \subseteq Nat
  PROVE  LET query == parse_nts_packet(w, key) IN
         /\ query = Panic =>
              /\ Auths(w) # {}
              /\ w.exts[FirstAuth(w)].len < 4 \/ w.exts[FirstAuth(w)].len > w.bytes
         /\ ~IsErr(query) =>
              \E a \in Present(w) :
                query.auth_exts = [i \in 1 .. a - 1 |-> ReadExt(w, i)]
<1> DEFINE query == parse_nts_packet(w, key)
           a == FirstAuth(w)
           plain == parse_decrypt_auth_ext(AssociatedData(w, a), ReadAuth(w, a), key)
           parsed == [header |-> parse_packet_header(w),
                      auth_exts |-> [i \in 1 .. a - 1 |-> ReadExt(w, i)],
                      auth_enc_exts |-> plain.exts]
<1>1. IsErr(Err) /\ IsErr(Panic) /\ Err # Panic
  BY DEF IsErr, Err, Panic
<1>2. query = IF w.bytes < HEADER_SIZE THEN Err
              ELSE IF Auths(w) = {} THEN Err
              ELSE IF \E i \in 1 .. a - 1 : w.exts[i].len < 4 THEN Err
              ELSE IF w.exts[a].len < 4 \/ w.exts[a].len > w.bytes THEN Panic
              ELSE IF IsErr(plain) THEN Err
              ELSE IF \E i \in DOMAIN plain.exts : BadLength(plain.exts[i]) THEN Err
              ELSE parsed
  BY Zenon DEF parse_nts_packet
<1>3. Auths(w) # {} => a \in Present(w)
  BY FirstAuthIs, Zenon DEF Auths
<1>4. parsed # Panic /\ parsed.auth_exts = [i \in 1 .. a - 1 |-> ReadExt(w, i)]
  <2>1. ~IsErr(parsed) /\ parsed.auth_exts = [i \in 1 .. a - 1 |-> ReadExt(w, i)]
    BY DEF IsErr
  <2> HIDE DEF parsed
  <2> QED BY <2>1, <1>1
<1> HIDE DEF parsed, plain, a, query
<1>5. query = Panic => Auths(w) # {} /\ (w.exts[a].len < 4 \/ w.exts[a].len > w.bytes)
  BY <1>1, <1>2, <1>4, Zenon
<1>6. ~IsErr(query) => Auths(w) # {} /\ query = parsed
  BY <1>1, <1>2, Zenon
<1> QED BY <1>3, <1>4, <1>5, <1>6, Zenon DEF query, a

\* Cut does not change what a datagram holds.
LEMMA CutKeeps ==
  ASSUME NEW w, IsDatagram(w), NEW n \in Nat
  PROVE  IsDatagram(Cut(w, n))
BY DEF IsDatagram, Cut

\* process_nts: every field it writes has been checked by parse_ntp_packet, so
\* that only an authenticator longer than the datagram makes it panic.
LEMMA NtsSurvives ==
  ASSUME NEW w, IsDatagram(w), ~IsErr(parse_ntp_packet(w)),
         NEW header, NEW keys, NEW at, process_nts(header, keys, w, at) = Panic
  PROVE  Auths(w) # {} /\ w.exts[FirstAuth(w)].len > w.bytes
<1> DEFINE query == parse_nts_packet(w, <<keys, "c2s">>)
           reply == nts_response(query, header, keys, at)
<1>1. Present(w) \subseteq Nat
  <2>1. DOMAIN w.exts \subseteq Nat
    BY DEF IsDatagram
  <2> QED BY <2>1 DEF Present
<1>2. \A i \in Present(w) : w.exts[i].len % 4 = 0 /\ ~(w.exts[i].len < 4)
  BY ParsedAreWords, Zenon
<1>3. ASSUME query = Panic
      PROVE  Auths(w) # {} /\ w.exts[FirstAuth(w)].len > w.bytes
  <2>1. Auths(w) # {}
        /\ (w.exts[FirstAuth(w)].len < 4 \/ w.exts[FirstAuth(w)].len > w.bytes)
    BY <1>1, <1>3, NtsParsed, Zenon
  <2>2. FirstAuth(w) \in Present(w)
    BY <1>1, <2>1, FirstAuthIs, Zenon DEF Auths
  <2> QED BY <1>2, <2>1, <2>2, Zenon
<1>4. ASSUME ~IsErr(query)
      PROVE  serialize_nts_packet(reply, <<keys, "s2c">>) # Panic
  <2>1. PICK a \in Present(w) : query.auth_exts = [i \in 1 .. a - 1 |-> ReadExt(w, i)]
    BY <1>1, <1>4, NtsParsed, Zenon
  <2> HIDE DEF query
  <2>2. PICK s : s = query.auth_exts
    OBVIOUS
  <2>3. \A i \in 1 .. a - 1 : s[i].len % 4 = 0
    BY <2>1, <2>2, <1>1, <1>2, PresentFirst, ReadKeeps
  <2>4. s \in Seq({s[i] : i \in DOMAIN s}) /\ DOMAIN s = 1 .. a - 1
    BY <2>1, <2>2, <1>1
  <2>5. PICK I : I = {i \in DOMAIN s : s[i].type = UniqueIdentifier}
    BY Zenon
  <2>6. Selected(s, I) \in Seq(FieldsAt(s, I))
    <3>1. PICK f \in [0 .. Len(s) -> Seq(FieldsAt(s, I))] : Selects(f, s, I)
      BY <2>4, SelectedIs, Zenon
    <3>2. Len(s) \in 0 .. Len(s)
      BY <2>4
    <3> QED BY <3>1, <3>2, Zenon DEF Selects
  <2>7. reply.auth_exts = Selected(s, I)
    BY <2>2, <2>5 DEF nts_response, Echoed
  <2>8. \A i \in DOMAIN reply.auth_exts : reply.auth_exts[i].len % 4 = 0
    BY <2>3, <2>4, <2>6, <2>7 DEF FieldsAt
  <2> HIDE DEF reply
  <2>9. ~IsErr(serialize_ntp_packet([header |-> reply.header, exts |-> reply.auth_exts]))
    BY <2>8, WordsAreWritten
  <2>10. ~IsErr(serialize_nts_packet(reply, <<keys, "s2c">>))
    BY <2>9 DEF serialize_nts_packet, IsErr
  <2> QED BY <2>10 DEF IsErr, Panic
<1> HIDE DEF query, reply
<1>5. process_nts(header, keys, w, at) =
        IF query = Panic THEN Panic
        ELSE IF IsErr(query)
             THEN serialize_ntp_packet(kiss_of_death(parse_ntp_packet(w)))
             ELSE serialize_nts_packet(reply, <<keys, "s2c">>)
  BY DEF process_nts, query, reply
<1> QED BY <1>3, <1>4, <1>5, KissSurvives, Zenon

-----------------------------------------------------------------------------
(* The exchange of the measured client, byte by byte.                      *)

\* Sequences of a few fields.
LEMMA AppendIs ==
  ASSUME NEW S, NEW s \in Seq(S), NEW z \in S
  PROVE  /\ Append(s, z) \in Seq(S) /\ Len(Append(s, z)) = Len(s) + 1
         /\ \A i \in 1 .. Len(s) : Append(s, z)[i] = s[i]
         /\ Append(s, z)[Len(s) + 1] = z
OBVIOUS

\* The first fields.
LEMMA SubSeqIs ==
  ASSUME NEW S, NEW s \in Seq(S), NEW n \in 0 .. Len(s)
  PROVE  /\ SubSeq(s, 1, n) \in Seq(S) /\ Len(SubSeq(s, 1, n)) = n
         /\ \A i \in 1 .. n : SubSeq(s, 1, n)[i] = s[i]
OBVIOUS

\* An authenticator after two fields, and after one.
LEMMA AppendPair == ASSUME NEW x, NEW y, NEW z PROVE Append(<<x, y>>, z) = <<x, y, z>>
<1> DEFINE s == <<x, y>>
           S == {x, y, z}
           r == Append(s, z)
<1>1. s \in Seq(S) /\ Len(s) = 2 /\ s[1] = x /\ s[2] = y /\ z \in S
  OBVIOUS
<1> HIDE DEF s, S
<1>2. r \in Seq(S) /\ Len(r) = 3 /\ r[1] = x /\ r[2] = y /\ r[3] = z
  <2>1. /\ r \in Seq(S) /\ Len(r) = Len(s) + 1
        /\ \A i \in 1 .. Len(s) : r[i] = s[i]
        /\ r[Len(s) + 1] = z
    BY <1>1, AppendIs, ZenonT(60)
  <2> HIDE DEF r
  <2>2. Len(s) + 1 = 3 /\ 1 \in 1 .. Len(s) /\ 2 \in 1 .. Len(s)
    BY <1>1
  <2> QED BY <1>1, <2>1, <2>2, Zenon
<1> HIDE DEF r
<1>3. DOMAIN r = 1 .. 3 /\ r = [i \in 1 .. 3 |-> r[i]]
  BY <1>2
<1>4. r = <<x, y, z>>
  BY <1>2, <1>3
<1> QED BY <1>4 DEF r, s

\* The same after one field.
LEMMA AppendOne == ASSUME NEW x, NEW y PROVE Append(<<x>>, y) = <<x, y>>
<1> DEFINE s == <<x>>
           S == {x, y}
           r == Append(s, y)
<1>1. s \in Seq(S) /\ Len(s) = 1 /\ s[1] = x /\ y \in S
  OBVIOUS
<1> HIDE DEF s, S
<1>2. r \in Seq(S) /\ Len(r) = 2 /\ r[1] = x /\ r[2] = y
  <2>1. /\ r \in Seq(S) /\ Len(r) = Len(s) + 1
        /\ \A i \in 1 .. Len(s) : r[i] = s[i]
        /\ r[Len(s) + 1] = y
    BY <1>1, AppendIs, ZenonT(60)
  <2> HIDE DEF r
  <2>2. Len(s) + 1 = 2 /\ 1 \in 1 .. Len(s)
    BY <1>1
  <2> QED BY <1>1, <2>1, <2>2, Zenon
<1> HIDE DEF r
<1>3. DOMAIN r = 1 .. 2 /\ r = [i \in 1 .. 2 |-> r[i]]
  BY <1>2
<1>4. r = <<x, y>>
  BY <1>2, <1>3
<1> QED BY <1>4 DEF r, s

\* The fields that an authenticator covers.
LEMMA SubSeqPair == ASSUME NEW x, NEW y, NEW z PROVE SubSeq(<<x, y, z>>, 1, 2) = <<x, y>>
<1> DEFINE s == <<x, y, z>>
           S == {x, y, z}
           r == SubSeq(s, 1, 2)
<1>1. s \in Seq(S) /\ Len(s) = 3 /\ s[1] = x /\ s[2] = y
  OBVIOUS
<1> HIDE DEF s, S
<1>2. r \in Seq(S) /\ Len(r) = 2 /\ r[1] = x /\ r[2] = y
  <2>1. 2 \in 0 .. Len(s) /\ 1 \in 1 .. 2 /\ 2 \in 1 .. 2
    BY <1>1
  <2> QED BY <1>1, <2>1, SubSeqIs, Zenon
<1> HIDE DEF r
<1>3. DOMAIN r = 1 .. 2 /\ r = [i \in 1 .. 2 |-> r[i]]
  BY <1>2
<1>4. r = <<x, y>>
  BY <1>2, <1>3
<1> QED BY <1>4 DEF r, s

\* The same for one field.
LEMMA SubSeqOne == ASSUME NEW x, NEW y PROVE SubSeq(<<x, y>>, 1, 1) = <<x>>
<1> DEFINE s == <<x, y>>
           S == {x, y}
           r == SubSeq(s, 1, 1)
<1>1. s \in Seq(S) /\ Len(s) = 2 /\ s[1] = x
  OBVIOUS
<1> HIDE DEF s, S
<1>2. r \in Seq(S) /\ Len(r) = 1 /\ r[1] = x
  <2>1. 1 \in 0 .. Len(s) /\ 1 \in 1 .. 1
    BY <1>1
  <2> QED BY <1>1, <2>1, SubSeqIs, Zenon
<1> HIDE DEF r
<1>3. DOMAIN r = 1 .. 1 /\ r = [i \in 1 .. 1 |-> r[i]]
  BY <1>2
<1>4. r = <<x>>
  BY <1>2, <1>3
<1> QED BY <1>4 DEF r, s

\* The lengths of up to three fields.
LEMMA OffsetsOfFew ==
  ASSUME NEW x, NEW y, NEW z, x.len \in Nat, y.len \in Nat, z.len \in Nat
  PROVE  /\ Lengths(<<>>) = 0
         /\ Offsets(<<x>>)[0] = 0 /\ Lengths(<<x>>) = x.len
         /\ Offsets(<<x, y>>)[0] = 0 /\ Offsets(<<x, y>>)[1] = x.len
         /\ Lengths(<<x, y>>) = x.len + y.len
         /\ Offsets(<<x, y, z>>)[0] = 0 /\ Offsets(<<x, y, z>>)[1] = x.len
         /\ Offsets(<<x, y, z>>)[2] = x.len + y.len
<1>1. ASSUME NEW s, NEW n \in 0 .. 3, s \in Seq({s[i] : i \in DOMAIN s}), Len(s) = n,
             \A i \in 1 .. n : s[i].len \in Nat
      PROVE  /\ Offsets(s)[0] = 0
             /\ \A i \in 1 .. n : Offsets(s)[i] = s[i].len + Offsets(s)[i - 1]
             /\ Lengths(s) = Offsets(s)[n]
  <2>1. DOMAIN s = 1 .. n
    BY <1>1
  <2> QED BY <1>1, <2>1, OffsetsAre, Zenon DEF Lengths
<1>2. Lengths(<<>>) = 0
  <2> DEFINE s == <<>>
  <2>1. s \in Seq({s[i] : i \in DOMAIN s}) /\ Len(s) = 0
    OBVIOUS
  <2> HIDE DEF s
  <2>2. \A i \in 1 .. 0 : s[i].len \in Nat
    OBVIOUS
  <2>3. 0 \in 0 .. 3
    OBVIOUS
  <2>4. Offsets(s)[0] = 0 /\ Lengths(s) = Offsets(s)[0]
    BY <2>1, <2>2, <2>3, <1>1, Zenon
  <2> QED BY <2>4 DEF s
<1>3. Offsets(<<x>>)[0] = 0 /\ Lengths(<<x>>) = x.len
  <2> DEFINE s == <<x>>
  <2>1. s \in Seq({s[i] : i \in DOMAIN s}) /\ Len(s) = 1 /\ s[1] = x
    OBVIOUS
  <2> HIDE DEF s
  <2>2. \A i \in 1 .. 1 : s[i].len \in Nat
    BY <2>1
  <2>3. Offsets(s)[0] = 0 /\ Offsets(s)[1] = s[1].len + Offsets(s)[0] /\ Lengths(s) = Offsets(s)[1]
    BY <2>1, <2>2, <1>1
  <2> QED BY <2>1, <2>3 DEF s
<1>4. /\ Offsets(<<x, y>>)[0] = 0 /\ Offsets(<<x, y>>)[1] = x.len
      /\ Lengths(<<x, y>>) = x.len + y.len
  <2> DEFINE s == <<x, y>>
  <2>1. s \in Seq({s[i] : i \in DOMAIN s}) /\ Len(s) = 2 /\ s[1] = x /\ s[2] = y
    OBVIOUS
  <2> HIDE DEF s
  <2>2. \A i \in 1 .. 2 : s[i].len \in Nat
    BY <2>1
  <2>3. /\ Offsets(s)[0] = 0 /\ Offsets(s)[1] = s[1].len + Offsets(s)[0]
        /\ Offsets(s)[2] = s[2].len + Offsets(s)[1] /\ Lengths(s) = Offsets(s)[2]
    BY <2>1, <2>2, <1>1
  <2> QED BY <2>1, <2>3 DEF s
<1>5. /\ Offsets(<<x, y, z>>)[0] = 0 /\ Offsets(<<x, y, z>>)[1] = x.len
      /\ Offsets(<<x, y, z>>)[2] = x.len + y.len
  <2> DEFINE s == <<x, y, z>>
  <2>1. /\ s \in Seq({s[i] : i \in DOMAIN s}) /\ Len(s) = 3
        /\ s[1] = x /\ s[2] = y /\ s[3] = z
    OBVIOUS
  <2> HIDE DEF s
  <2>2. \A i \in 1 .. 3 : s[i].len \in Nat
    BY <2>1
  <2>3. /\ Offsets(s)[0] = 0 /\ Offsets(s)[1] = s[1].len + Offsets(s)[0]
        /\ Offsets(s)[2] = s[2].len + Offsets(s)[1]
    BY <2>1, <2>2, <1>1
  <2> QED BY <2>1, <2>3 DEF s
<1> QED BY <1>2, <1>3, <1>4, <1>5

\* The fields of a query, and the authenticator of a packet.
UidExt(m) == Ext(UniqueIdentifier, 36, [uid |-> m])

AuthExt(head, clear, cipher_len, plain, key) ==
  Ext(NTSAuthenticator, 24 + Padded(cipher_len),
      [key |-> key, ad |-> <<head, clear>>, plain |-> plain,
       nonce_len |-> NONCE_LEN, cipher_len |-> cipher_len])

\* serialize_nts_packet puts the authenticator behind what serialize_ntp_packet
\* writes.
Writes(p, head, n) ==
  LET written == serialize_ntp_packet([header |-> p.header, exts |-> p.auth_exts])
  IN  ~IsErr(written) /\ written.head = head /\ written.bytes = n

Seals(p, key, head, n) ==
  LET cipher_len == Lengths(p.auth_enc_exts) + 16
  IN  serialize_nts_packet(p, key)
        = [head |-> head,
           exts |-> Append(p.auth_exts,
                      AuthExt(head, p.auth_exts, cipher_len, p.auth_enc_exts, key)),
           bytes |-> n + (24 + Padded(cipher_len))]

LEMMA SealedIs ==
  ASSUME NEW p, NEW key, NEW head, NEW n, Writes(p, head, n),
         Padded(Lengths(p.auth_enc_exts) + 16) \in Nat
  PROVE  Seals(p, key, head, n)
<1> DEFINE cipher_len == Lengths(p.auth_enc_exts) + 16
<1>1. 4 + 4 + NONCE_LEN + Padded(cipher_len) = 24 + Padded(cipher_len)
  BY DEF NONCE_LEN
<1>2. cipher_len = Lengths(p.auth_enc_exts) + TAG_LEN
  BY Zenon DEF TAG_LEN
<1> QED BY <1>1, <1>2, Zenon DEF serialize_nts_packet, AuthExt, Writes, Seals

\* NtsQuery as it is on the wire.
LEMMA QueryIs ==
  ASSUME NEW m, NEW c
  PROVE  LET head == serialize_header(ClientHeader)
             clear == <<UidExt(m), CookieExt(c, Keys)>> IN
         NtsQuery(m, c) =
           [head |-> head,
            exts |-> <<UidExt(m), CookieExt(c, Keys),
                       AuthExt(head, clear, 16, <<>>, <<Keys, "c2s">>)>>,
            bytes |-> 228]
<1> DEFINE head == serialize_header(ClientHeader)
           clear == <<UidExt(m), CookieExt(c, Keys)>>
           p == [header |-> ClientHeader, auth_exts |-> clear, auth_enc_exts |-> <<>>]
           packet == [header |-> ClientHeader, exts |-> clear]
<1>1. UidExt(m).len = 36 /\ CookieExt(c, Keys).len = 104
  BY DEF UidExt, CookieExt, Ext, COOKIE_SIZE
<1>2. Lengths(clear) = 140 /\ Lengths(<<>>) = 0
  <2>1. ASSUME NEW x, NEW y, x.len \in Nat, y.len \in Nat
        PROVE  Lengths(<<x, y>>) = x.len + y.len /\ Lengths(<<>>) = 0
    BY <2>1, OffsetsOfFew, Zenon
  <2> QED BY <1>1, <2>1
<1>3. \A i \in DOMAIN packet.exts : packet.exts[i].len % 4 = 0
  BY <1>1
<1>4. ~IsErr(serialize_ntp_packet(packet))
      /\ serialize_ntp_packet(packet) = [head |-> head, exts |-> clear, bytes |-> 188]
  BY <1>2, <1>3, WordsAreWritten DEF HEADER_SIZE
<1>5. NtsQuery(m, c) = serialize_nts_packet(p, <<Keys, "c2s">>)
  BY DEF NtsQuery, UidExt
<1>6. Padded(16) = 16
  BY DEF Padded
<1> HIDE DEF head
<1>7. serialize_nts_packet(p, <<Keys, "c2s">>) =
        [head |-> head,
         exts |-> Append(clear, AuthExt(head, clear, 16, <<>>, <<Keys, "c2s">>)),
         bytes |-> 228]
  BY <1>2, <1>4, <1>6, SMTT(30) DEF serialize_nts_packet, AuthExt, TAG_LEN, NONCE_LEN
<1> QED BY <1>5, <1>7, AppendPair DEF head

\* What is on the wire of three fields that arrived completely.
LEMMA AllArrived ==
  ASSUME NEW w, NEW x, NEW y, NEW z, w.exts = <<x, y, z>>,
         x.len \in Nat \ (0 .. 3), y.len \in Nat \ (0 .. 3), z.len \in Nat \ (0 .. 3),
         w.bytes = 48 + x.len + y.len + z.len
  PROVE  /\ Present(w) = 1 .. 3
         /\ \A i \in 1 .. 3 : ReadExt(w, i) = w.exts[i] /\ Whole(w, i)
<1>1. /\ Offsets(w.exts)[0] = 0 /\ Offsets(w.exts)[1] = x.len
      /\ Offsets(w.exts)[2] = x.len + y.len
  <2>1. x.len \in Nat /\ y.len \in Nat /\ z.len \in Nat
    OBVIOUS
  <2>2. /\ Offsets(<<x, y, z>>)[0] = 0 /\ Offsets(<<x, y, z>>)[1] = x.len
        /\ Offsets(<<x, y, z>>)[2] = x.len + y.len
    BY ONLY <2>1, OffsetsOfFew, ZenonT(60)
  <2> QED BY <2>2
<1>2. StartOf(w, 1) = 48 /\ StartOf(w, 2) = 48 + x.len /\ StartOf(w, 3) = 48 + x.len + y.len
  BY <1>1 DEF StartOf, HEADER_SIZE
<1>3. DOMAIN w.exts = 1 .. 3 /\ w.exts[1] = x /\ w.exts[2] = y /\ w.exts[3] = z
  OBVIOUS
<1>4. ASSUME NEW i \in 1 .. 3
      PROVE  StartOf(w, i) + 4 <= w.bytes /\ ReadExt(w, i) = w.exts[i] /\ Whole(w, i)
  <2>1. CASE i = 1
    BY <2>1, <1>2, <1>3 DEF ReadExt, Whole
  <2>2. CASE i = 2
    BY <2>2, <1>2, <1>3 DEF ReadExt, Whole
  <2>3. CASE i = 3
    BY <2>3, <1>2, <1>3 DEF ReadExt, Whole
  <2> QED BY <2>1, <2>2, <2>3
<1>5. Present(w) = 1 .. 3
  BY <1>3, <1>4 DEF Present
<1> QED BY <1>4, <1>5

\* The same for two fields.
LEMMA BothArrived ==
  ASSUME NEW w, NEW x, NEW y, w.exts = <<x, y>>,
         x.len \in Nat \ (0 .. 3), y.len \in Nat \ (0 .. 3),
         w.bytes = 48 + x.len + y.len
  PROVE  /\ Present(w) = 1 .. 2
         /\ \A i \in 1 .. 2 : ReadExt(w, i) = w.exts[i] /\ Whole(w, i)
<1>1. Offsets(w.exts)[0] = 0 /\ Offsets(w.exts)[1] = x.len
  <2>1. x.len \in Nat /\ y.len \in Nat
    OBVIOUS
  <2>2. Offsets(<<x, y>>)[0] = 0 /\ Offsets(<<x, y>>)[1] = x.len
    BY <2>1, OffsetsOfFew, Zenon
  <2> QED BY <2>2
<1>2. StartOf(w, 1) = 48 /\ StartOf(w, 2) = 48 + x.len
  BY <1>1 DEF StartOf, HEADER_SIZE
<1>3. DOMAIN w.exts = 1 .. 2 /\ w.exts[1] = x /\ w.exts[2] = y
  OBVIOUS
<1>4. ASSUME NEW i \in 1 .. 2
      PROVE  StartOf(w, i) + 4 <= w.bytes /\ ReadExt(w, i) = w.exts[i] /\ Whole(w, i)
  <2>1. CASE i = 1
    BY <2>1, <1>2, <1>3 DEF ReadExt, Whole
  <2>2. CASE i = 2
    BY <2>2, <1>2, <1>3 DEF ReadExt, Whole
  <2> QED BY <2>1, <2>2
<1>5. Present(w) = 1 .. 2
  BY <1>3, <1>4 DEF Present
<1> QED BY <1>4, <1>5

\* A datagram that arrived completely, n fields and then their authenticator.
IsSealed(w, n, cipher_len, plain, key) ==
  /\ n \in Nat /\ cipher_len \in Nat
  /\ Present(w) = 1 .. n + 1
  /\ \A i \in 1 .. n + 1 : ReadExt(w, i) = w.exts[i] /\ ~(w.exts[i].len < 4)
  /\ \A i \in 1 .. n : w.exts[i].type # NTSAuthenticator
  /\ w.exts[n + 1] = AuthExt(w.head, SubSeq(w.exts, 1, n), cipher_len, plain, key)
  /\ ~(w.bytes < HEADER_SIZE)
  /\ Whole(w, n + 1) /\ ~(w.exts[n + 1].len > w.bytes)
  /\ \A i \in DOMAIN plain : ~BadLength(plain[i])

\* The first n extension fields of a datagram.
FirstFields(w, n) == [i \in 1 .. n |-> w.exts[i]]

\* An authenticator after the fields it covers opens.
LEMMA Authentic ==
  ASSUME NEW w, NEW n, NEW cipher_len, NEW plain, NEW key,
         IsSealed(w, n, cipher_len, plain, key)
  PROVE  /\ ~IsErr(parse_nts_packet(w, key))
         /\ parse_nts_packet(w, key).auth_exts = FirstFields(w, n)
<1> USE DEF IsSealed
<1> DEFINE a == FirstAuth(w)
           ext == w.exts[n + 1]
           open == parse_decrypt_auth_ext(AssociatedData(w, a), ReadAuth(w, a), key)
<1>1. ext.type = NTSAuthenticator /\ ext.len = 24 + Padded(cipher_len)
      /\ ext.body = [key |-> key, ad |-> <<w.head, SubSeq(w.exts, 1, n)>>, plain |-> plain,
                     nonce_len |-> NONCE_LEN, cipher_len |-> cipher_len]
  BY DEF AuthExt, Ext
<1>2. Auths(w) = {n + 1}
  BY <1>1 DEF Auths
<1>3. a = n + 1
  BY <1>2 DEF FirstAuth
<1> HIDE DEF a
<1>4. ReadAuth(w, a) = ext /\ a - 1 = n
  <2>1. ReadExt(w, a) = ext
    BY <1>3
  <2>2. ReadAuth(w, a) = ext
    BY <1>3, <2>1, Zenon DEF ReadAuth
  <2> QED BY <1>3, <2>2
<1>5. Padded(cipher_len) \in Nat /\ Padded(NONCE_LEN) = 16
  BY DEF Padded, NONCE_LEN
<1>6. AssociatedData(w, a) = <<w.head, SubSeq(w.exts, 1, n)>>
  BY <1>3, <1>4, Zenon DEF AssociatedData
<1>7. Opens(ext.body, <<w.head, SubSeq(w.exts, 1, n)>>, key)
  BY <1>1 DEF Opens
<1>8. open = [exts |-> plain]
  <2>1. ext.body.nonce_len = NONCE_LEN /\ ext.body.cipher_len = cipher_len
        /\ ext.body.plain = plain
    BY <1>1
  <2>2. ~(ext.len - 4 < 4)
        /\ ~(Padded(ext.body.nonce_len) + Padded(ext.body.cipher_len) + 4 > ext.len - 4)
    BY <2>1, <1>1, <1>5
  <2> HIDE DEF ext
  <2> QED BY <1>4, <1>6, <1>7, <2>1, <2>2, Zenon DEF parse_decrypt_auth_ext
<1>9. ~IsErr(open) /\ open.exts = plain
  BY <1>8 DEF IsErr
<1> HIDE DEF open
<1>10. parse_nts_packet(w, key) =
        [header |-> parse_packet_header(w),
         auth_exts |-> [i \in 1 .. a - 1 |-> ReadExt(w, i)],
         auth_enc_exts |-> open.exts]
  <2>1. Auths(w) # {} /\ ~(w.bytes < HEADER_SIZE)
    BY <1>2
  <2>2. ~ \E i \in 1 .. a - 1 : w.exts[i].len < 4
    BY <1>4
  <2>3. ~(w.exts[a].len < 4 \/ w.exts[a].len > w.bytes)
    BY <1>3
  <2>4. ~ \E i \in DOMAIN open.exts : BadLength(open.exts[i])
    BY <1>9, Zenon
  <2> QED BY ONLY <1>9, <2>1, <2>2, <2>3, <2>4, Zenon DEF parse_nts_packet, a, open
<1>11. [i \in 1 .. a - 1 |-> ReadExt(w, i)] = [i \in 1 .. n |-> w.exts[i]]
  BY <1>4
<1> QED BY <1>10, <1>11 DEF IsErr, FirstFields

\* A query of the client: it passes every check of response(), and its first
\* cookie is the client's.
LEMMA QueryParsed ==
  ASSUME NEW m, NEW c
  PROVE  LET w == NtsQuery(m, c) IN
         /\ IsDatagram(w) /\ w.bytes = 228
         /\ ~IsErr(parse_ntp_packet(w))
         /\ ~Mangled(parse_ntp_packet(w))
         /\ is_nts_packet(parse_ntp_packet(w))
         /\ extract_extension(parse_ntp_packet(w), NTSCookie) = CookieExt(c, Keys)
         /\ extract_extension(parse_ntp_packet(w), UniqueIdentifier) = UidExt(m)
         /\ ~IsErr(parse_nts_packet(w, <<Keys, "c2s">>))
         /\ parse_nts_packet(w, <<Keys, "c2s">>).auth_exts
              = <<UidExt(m), CookieExt(c, Keys)>>
<1> DEFINE w == NtsQuery(m, c)
           p == parse_ntp_packet(w)
           head == serialize_header(ClientHeader)
           x == UidExt(m)
           y == CookieExt(c, Keys)
           z == AuthExt(head, <<x, y>>, 16, <<>>, <<Keys, "c2s">>)
<1>1. w.head = head /\ w.exts = <<x, y, z>> /\ w.bytes = 228
  BY QueryIs
<1>2. x.len = 36 /\ y.len = 104 /\ z.len = 40
  BY DEF UidExt, CookieExt, AuthExt, Ext, COOKIE_SIZE, Padded
<1>3. x.type = UniqueIdentifier /\ y.type = NTSCookie /\ z.type = NTSAuthenticator
  BY DEF UidExt, CookieExt, AuthExt, Ext
<1>4. head.first = 35
  BY DEF serialize_header, ClientHeader, create_first, NoLeap, Client
<1> HIDE DEF w, x, y, z, head
<1>5. DOMAIN w.exts = 1 .. 3 /\ w.exts[1] = x /\ w.exts[2] = y /\ w.exts[3] = z
  BY <1>1
<1>6. Present(w) = 1 .. 3 /\ \A i \in 1 .. 3 : ReadExt(w, i) = w.exts[i] /\ Whole(w, i)
  <2>1. /\ x.len \in Nat \ (0 .. 3) /\ y.len \in Nat \ (0 .. 3) /\ z.len \in Nat \ (0 .. 3)
        /\ w.bytes = 48 + x.len + y.len + z.len
    BY <1>1, <1>2
  <2> QED BY <1>1, <2>1, AllArrived
<1>7. \A i \in 1 .. 3 : w.exts[i].len % 4 = 0 /\ ~(w.exts[i].len < 4) /\ w.exts[i].len \in Nat
  BY <1>2, <1>5
<1>8. IsDatagram(w)
  BY <1>1, <1>5, <1>7 DEF IsDatagram
<1>9. p = [header |-> parse_packet_header(w), exts |-> [i \in 1 .. 3 |-> w.exts[i]]]
  <2>1. ~(w.bytes < HEADER_SIZE) /\ ~IsErr(parse_packet_header(w))
    BY <1>1 DEF parse_packet_header, IsErr, HEADER_SIZE
  <2>2. parse_extensions(w) = [exts |-> [i \in 1 .. 3 |-> w.exts[i]]]
    <3>1. ~ \E i \in Present(w) : BadLength(w.exts[i])
      BY <1>6, <1>7 DEF BadLength
    <3>2. [i \in Present(w) |-> ReadExt(w, i)] = [i \in 1 .. 3 |-> w.exts[i]]
      BY <1>6
    <3> QED BY <3>1, <3>2 DEF parse_extensions
  <2>3. ~IsErr(parse_extensions(w))
    BY <2>2 DEF IsErr
  <2> QED BY <2>1, <2>2, <2>3 DEF parse_ntp_packet
<1> HIDE DEF p
<1>10. ~IsErr(p) /\ DOMAIN p.exts = 1 .. 3 /\ p.exts[1] = x /\ p.exts[2] = y /\ p.exts[3] = z
  BY <1>5, <1>9 DEF IsErr
<1>11. ~Mangled(p)
  <2>1. p.header.mode = parse_mode(35)
    BY <1>1, <1>4, <1>9 DEF parse_packet_header, HEADER_SIZE
  <2>2. parse_mode(35) = Client
    BY DEF parse_mode, Client
  <2> QED BY <1>10, <2>1, <2>2 DEF Mangled
<1>12. /\ has_extension(p, NTSCookie) /\ has_extension(p, NTSAuthenticator)
       /\ has_extension(p, UniqueIdentifier)
  BY <1>3, <1>10 DEF has_extension
<1>13. extract_extension(p, NTSCookie) = y /\ extract_extension(p, UniqueIdentifier) = x
  <2>1. NTSCookie # UniqueIdentifier /\ NTSCookie # NTSAuthenticator
        /\ UniqueIdentifier # NTSAuthenticator
    BY DEF NTSCookie, UniqueIdentifier, NTSAuthenticator
  <2>2. DOMAIN p.exts \subseteq Nat
    BY <1>10
  <2>3. PICK i \in 1 .. 3 : extract_extension(p, NTSCookie) = p.exts[i]
                            /\ p.exts[i].type = NTSCookie
    BY <1>10, <1>12, <2>2, ExtractFinds
  <2>4. PICK j \in 1 .. 3 : extract_extension(p, UniqueIdentifier) = p.exts[j]
                            /\ p.exts[j].type = UniqueIdentifier
    BY <1>10, <1>12, <2>2, ExtractFinds
  <2> QED BY <1>3, <1>10, <2>1, <2>3, <2>4
<1>14. /\ ~IsErr(parse_nts_packet(w, <<Keys, "c2s">>))
       /\ parse_nts_packet(w, <<Keys, "c2s">>).auth_exts = <<x, y>>
  <2>1. SubSeq(w.exts, 1, 2) = <<x, y>>
    BY <1>1, SubSeqPair
  <2>2. w.exts[2 + 1] = AuthExt(w.head, SubSeq(w.exts, 1, 2), 16, <<>>, <<Keys, "c2s">>)
    <3>1. w.exts[2 + 1] = z
      BY <1>5
    <3> QED BY <3>1, <1>1, <2>1, Zenon DEF z
  <2>3. \A i \in 1 .. 2 : w.exts[i].type # NTSAuthenticator
    BY <1>3, <1>5 DEF NTSCookie, UniqueIdentifier, NTSAuthenticator
  <2>4. /\ ~IsErr(parse_nts_packet(w, <<Keys, "c2s">>))
        /\ parse_nts_packet(w, <<Keys, "c2s">>).auth_exts = FirstFields(w, 2)
    <3>1. Present(w) = 1 .. 2 + 1 /\ 2 \in Nat /\ 16 \in Nat /\ ~(w.bytes < HEADER_SIZE)
      BY <1>1, <1>6 DEF HEADER_SIZE
    <3>2. \A i \in 1 .. 2 + 1 : ReadExt(w, i) = w.exts[i] /\ ~(w.exts[i].len < 4)
      BY <1>6, <1>7
    <3>3. Whole(w, 2 + 1) /\ ~(w.exts[2 + 1].len > w.bytes)
      BY <1>1, <1>2, <1>5, <1>6
    <3>4. \A i \in DOMAIN <<>> : ~BadLength(<<>>[i])
      OBVIOUS
    <3>5. IsSealed(w, 2, 16, <<>>, <<Keys, "c2s">>)
      BY <3>1, <3>2, <3>3, <3>4, <2>2, <2>3, Zenon DEF IsSealed
    <3> QED BY ONLY <3>5, Authentic
  <2>5. FirstFields(w, 2) = <<x, y>>
    BY <1>5 DEF FirstFields
  <2> QED BY <2>4, <2>5
<1> QED BY <1>1, <1>8, <1>10, <1>11, <1>12, <1>13, <1>14, Zenon DEF is_nts_packet, w, p, x, y

\* nts_response: the one identifier of the query comes back.
LEMMA UidEchoed ==
  ASSUME NEW x, NEW y, x.type = UniqueIdentifier, y.type # UniqueIdentifier
  PROVE  Echoed(<<x, y>>) = <<x>>
<1> DEFINE s == <<x, y>>
           I == {i \in DOMAIN s : s[i].type = UniqueIdentifier}
<1>1. /\ s \in Seq({s[i] : i \in DOMAIN s}) /\ Len(s) = 2
      /\ s[1] = x /\ s[2] = y /\ DOMAIN s = 1 .. 2
  OBVIOUS
<1> HIDE DEF s
<1>2. 1 \in I /\ 2 \notin I
  BY <1>1
<1> HIDE DEF I
<1>3. PICK f \in [0 .. Len(s) -> Seq(FieldsAt(s, I))] : Selects(f, s, I)
  BY <1>1, SelectedIs, Zenon
<1>4. /\ f[0] = <<>>
      /\ f[1] = IF 1 \in I THEN Append(f[1 - 1], s[1]) ELSE f[1 - 1]
      /\ f[2] = IF 2 \in I THEN Append(f[2 - 1], s[2]) ELSE f[2 - 1]
      /\ Selected(s, I) = f[2]
  BY <1>1, <1>3 DEF Selects
<1>5. Selected(s, I) = Append(<<>>, x)
  <2>1. 1 - 1 = 0 /\ 2 - 1 = 1
    OBVIOUS
  <2> QED BY <2>1, <1>1, <1>2, <1>4, Zenon
<1>6. Append(<<>>, x) = <<x>>
  <2> DEFINE r == Append(<<>>, x)
  <2>1. <<>> \in Seq({x}) /\ x \in {x} /\ Len(<<>>) = 0
    OBVIOUS
  <2>2. r \in Seq({x}) /\ Len(r) = Len(<<>>) + 1 /\ r[Len(<<>>) + 1] = x
    BY <2>1, AppendIs, ZenonT(60)
  <2>3. Len(r) = 1 /\ r[1] = x
    BY <2>1, <2>2
  <2> HIDE DEF r
  <2>4. DOMAIN r = 1 .. 1 /\ r = [i \in 1 .. 1 |-> r[i]]
    BY <2>2, <2>3
  <2>5. r = <<x>>
    BY <2>3, <2>4
  <2> QED BY <2>5 DEF r
<1> QED BY <1>5, <1>6 DEF Echoed, s, I

\* The cookies of an answer have a length.
LEMMA CookiesHaveLength ==
  ASSUME NEW n \in Nat, NEW keys
  PROVE  Lengths(Cookies(n, keys)) \in Nat
<1> DEFINE s == Cookies(n, keys)
<1>1. s \in Seq({s[i] : i \in DOMAIN s}) /\ DOMAIN s = 1 .. n /\ Len(s) = n
  BY DEF Cookies
<1>2. \A i \in DOMAIN s : s[i].len \in Nat
  BY DEF Cookies, CookieExt, Ext, COOKIE_SIZE
<1> HIDE DEF s
<1>3. Offsets(s) \in [0 .. Len(s) -> Nat]
  BY <1>1, <1>2, OffsetsAre, Zenon
<1>4. Len(s) \in 0 .. Len(s)
  BY <1>1
<1> QED BY <1>3, <1>4, Zenon DEF Lengths, s

\* process_nts: the client opens the answer and finds its identifier, and the
\* header is the one made before, with the time of sending.
LEMMA QueryAnswered ==
  ASSUME NEW m, NEW header, NEW at
  PROVE  LET r == process_nts(header, Keys, NtsQuery(m, "good"), at) IN
         /\ r.head = serialize_header(Restamped(header, at))
         /\ ~IsErr(parse_nts_packet(r, <<Keys, "s2c">>))
         /\ parse_nts_packet(r, <<Keys, "s2c">>).auth_exts = <<UidExt(m)>>
<1> DEFINE w == NtsQuery(m, "good")
           query == parse_nts_packet(w, <<Keys, "c2s">>)
           reply == nts_response(query, header, Keys, at)
           key == <<Keys, "s2c">>
           x == UidExt(m)
           y == CookieExt("good", Keys)
           head == serialize_header(Restamped(header, at))
           plain == reply.auth_enc_exts
           cipher_len == Lengths(plain) + 16
           auth == AuthExt(head, <<x>>, cipher_len, plain, key)
           r == process_nts(header, Keys, w, at)
<1>1. ~IsErr(query) /\ query.auth_exts = <<x, y>>
  BY QueryParsed
<1>2. x.type = UniqueIdentifier /\ x.len = 36 /\ y.type = NTSCookie
  BY DEF UidExt, CookieExt, Ext
<1> HIDE DEF w, query
<1>3. reply.header = Restamped(header, at) /\ reply.auth_exts = <<x>>
  <2>1. reply.auth_exts = Echoed(<<x, y>>)
    BY <1>1 DEF nts_response
  <2>2. y.type # UniqueIdentifier
    BY <1>2 DEF NTSCookie, UniqueIdentifier
  <2> HIDE DEF x, y
  <2>3. Echoed(<<x, y>>) = <<x>>
    BY <1>2, <2>2, UidEchoed, Zenon
  <2> QED BY <2>1, <2>3 DEF nts_response
<1>4. Lengths(plain) \in Nat /\ \A i \in DOMAIN plain : ~BadLength(plain[i])
  <2> DEFINE s == <<x, y>>
             I == {i \in DOMAIN s : s[i].type = NTSCookiePlaceholder
                                    /\ s[i].len - 4 >= COOKIE_SIZE}
  <2>1. plain = Cookies(1 + Len(Selected(s, I)), Keys)
    BY <1>1 DEF nts_response, Placeholders
  <2> HIDE DEF x, y
  <2>2. s \in Seq({s[i] : i \in DOMAIN s}) /\ Len(s) \in 0 .. Len(s)
    OBVIOUS
  <2> HIDE DEF s, I
  <2>3. PICK f \in [0 .. Len(s) -> Seq(FieldsAt(s, I))] : Selects(f, s, I)
    BY <2>2, SelectedIs, Zenon
  <2>4. Selected(s, I) \in Seq(FieldsAt(s, I))
    BY <2>2, <2>3, Zenon DEF Selects
  <2>5. 1 + Len(Selected(s, I)) \in Nat
    BY <2>4
  <2>6. \A i \in DOMAIN plain : plain[i].len = 104
    BY <2>1, <2>5 DEF Cookies, CookieExt, Ext, COOKIE_SIZE
  <2>7. \A i \in DOMAIN plain : ~BadLength(plain[i])
    BY <2>6 DEF BadLength
  <2> QED BY <2>1, <2>5, <2>7, CookiesHaveLength, Zenon
<1>5. cipher_len \in Nat /\ Padded(cipher_len) \in Nat
  BY <1>4 DEF Padded
<1>6. auth.type = NTSAuthenticator /\ auth.len = 24 + Padded(cipher_len)
  BY DEF AuthExt, Ext
<1> HIDE DEF x, y, plain
<1>7. serialize_nts_packet(reply, key)
        = [head |-> head, exts |-> <<x, auth>>, bytes |-> 84 + auth.len]
  <2> DEFINE packet == [header |-> reply.header, exts |-> reply.auth_exts]
  <2>0. x.len \in Nat
    BY <1>2
  <2>1. Lengths(<<x>>) = 36
    BY <1>2, <2>0, OffsetsOfFew, Zenon
  <2>2. \A i \in DOMAIN packet.exts : packet.exts[i].len % 4 = 0
    BY <1>2, <1>3
  <2>3. ~IsErr(serialize_ntp_packet(packet))
        /\ serialize_ntp_packet(packet) = [head |-> head, exts |-> <<x>>, bytes |-> 84]
    <3>1. packet.header = Restamped(header, at) /\ packet.exts = <<x>>
      BY <1>3, Zenon
    <3> HIDE DEF packet
    <3>2. /\ ~IsErr(serialize_ntp_packet(packet))
          /\ serialize_ntp_packet(packet) =
               [head |-> serialize_header(packet.header), exts |-> packet.exts,
                bytes |-> HEADER_SIZE + Lengths(packet.exts)]
      BY <2>2, WordsAreWritten, Zenon
    <3>3. HEADER_SIZE + 36 = 84
      BY DEF HEADER_SIZE
    <3>4. serialize_header(packet.header) = head /\ HEADER_SIZE + Lengths(packet.exts) = 84
      BY <2>1, <3>1, <3>3, Zenon
    <3> QED BY <3>1, <3>2, <3>4, Zenon
  <2> HIDE DEF head
  <2>4. serialize_nts_packet(reply, key)
          = [head |-> head, exts |-> Append(<<x>>, auth), bytes |-> 84 + auth.len]
    <3>1. Writes(reply, head, 84)
      <4> DEFINE written == serialize_ntp_packet(packet)
      <4>1. ~IsErr(written) /\ written = [head |-> head, exts |-> <<x>>, bytes |-> 84]
        BY <2>3, Zenon
      <4>2. written = serialize_ntp_packet([header |-> reply.header, exts |-> reply.auth_exts])
        BY Zenon
      <4> HIDE DEF written, packet, reply
      <4>3. written.head = head /\ written.bytes = 84
        BY ONLY <4>1
      <4> QED BY ONLY <4>1, <4>2, <4>3, Zenon DEF Writes
    <3>2. cipher_len = Lengths(reply.auth_enc_exts) + 16 /\ plain = reply.auth_enc_exts
      BY Zenon DEF plain
    <3> HIDE DEF packet, reply, key, cipher_len
    <3>3. Seals(reply, key, head, 84)
      BY <1>5, <3>1, <3>2, SealedIs, Zenon
    <3>4. serialize_nts_packet(reply, key)
            = [head |-> head,
               exts |-> Append(reply.auth_exts,
                          AuthExt(head, reply.auth_exts, cipher_len, plain, key)),
               bytes |-> 84 + (24 + Padded(cipher_len))]
      BY <3>2, <3>3, Zenon DEF Seals
    <3> QED BY <1>3, <1>6, <3>4, Zenon
  <2> QED BY <2>4, AppendOne
<1>8. r = serialize_nts_packet(reply, key)
  <2>1. query # Panic
    BY <1>1 DEF IsErr, Panic
  <2> QED BY <1>1, <2>1, Zenon DEF process_nts, query
<1> HIDE DEF r, auth, head, reply, cipher_len, key
<1>9. r.head = head /\ r.exts = <<x, auth>> /\ r.bytes = 84 + auth.len
  BY <1>7, <1>8
<1>10. DOMAIN r.exts = 1 .. 2 /\ r.exts[1] = x /\ r.exts[2] = auth
  BY <1>9
<1>11. Present(r) = 1 .. 2 /\ \A i \in 1 .. 2 : ReadExt(r, i) = r.exts[i] /\ Whole(r, i)
  <2>1. /\ x.len \in Nat \ (0 .. 3) /\ auth.len \in Nat \ (0 .. 3)
        /\ r.bytes = 48 + x.len + auth.len
    BY <1>2, <1>5, <1>6, <1>9
  <2> QED BY ONLY <1>9, <2>1, BothArrived
<1>12. IsSealed(r, 1, cipher_len, plain, key)
  <2>1. SubSeq(r.exts, 1, 1) = <<x>>
    BY <1>9, SubSeqOne
  <2>2. 1 \in Nat /\ 1 + 1 = 2 /\ ~(r.bytes < HEADER_SIZE)
    BY <1>5, <1>6, <1>9 DEF HEADER_SIZE
  <2>3. \A i \in 1 .. 2 : ~(r.exts[i].len < 4)
    BY <1>2, <1>5, <1>6, <1>10
  <2>4. \A i \in 1 .. 1 : r.exts[i].type # NTSAuthenticator
    BY <1>2, <1>10 DEF UniqueIdentifier, NTSAuthenticator
  <2>5. r.exts[2] = AuthExt(r.head, SubSeq(r.exts, 1, 1), cipher_len, plain, key)
    BY <1>9, <1>10, <2>1, Zenon DEF auth
  <2>6. Whole(r, 2) /\ ~(r.exts[2].len > r.bytes)
    BY <1>5, <1>6, <1>9, <1>10, <1>11
  <2> QED BY <1>4, <1>5, <1>11, <2>2, <2>3, <2>4, <2>5, <2>6, Zenon DEF IsSealed
<1>13. /\ ~IsErr(parse_nts_packet(r, key))
       /\ parse_nts_packet(r, key).auth_exts = FirstFields(r, 1)
  BY ONLY <1>12, Authentic
<1>14. FirstFields(r, 1) = <<x>>
  BY <1>10 DEF FirstFields
<1> QED BY <1>9, <1>13, <1>14 DEF r, head, key, x, w

\* kiss_of_death: the client has no use for the answer to a query whose cookie
\* the server could not open: nothing in it is authenticated.
LEMMA QueryRefused ==
  ASSUME NEW m, NEW c
  PROVE  LET r == serialize_ntp_packet(kiss_of_death(parse_ntp_packet(NtsQuery(m, c)))) IN
         /\ r.head.refid = NTSN
         /\ parse_nts_packet(r, <<Keys, "s2c">>) = Err
<1> DEFINE p == parse_ntp_packet(NtsQuery(m, c))
           kiss == kiss_of_death(p)
           r == serialize_ntp_packet(kiss)
           x == UidExt(m)
<1>1. is_nts_packet(p) /\ extract_extension(p, UniqueIdentifier) = x
  BY QueryParsed, Zenon
<1> HIDE DEF p
<1>2. x.type = UniqueIdentifier /\ x.len = 36
  BY DEF UidExt, Ext
<1>3. kiss.exts = <<x>> /\ kiss.header.refid = NTSN
  BY <1>1 DEF kiss_of_death, is_nts_packet
<1> HIDE DEF kiss, x
<1>4. r = [head |-> serialize_header(kiss.header), exts |-> kiss.exts,
           bytes |-> HEADER_SIZE + Lengths(kiss.exts)]
  <2>1. \A i \in DOMAIN kiss.exts : kiss.exts[i].len % 4 = 0
    BY <1>2, <1>3
  <2> QED BY <2>1, WordsAreWritten, Zenon
<1> HIDE DEF r
<1>5. r.head.refid = NTSN /\ r.exts = <<x>>
  BY <1>3, <1>4 DEF serialize_header
<1>6. Present(r) \subseteq {1}
  BY <1>5 DEF Present
<1>7. \A i \in Present(r) : r.exts[i].type # NTSAuthenticator /\ ~(r.exts[i].len < 4)
  BY <1>2, <1>5, <1>6 DEF UniqueIdentifier, NTSAuthenticator
<1>8. Auths(r) = {}
  BY <1>7 DEF Auths
<1>9. parse_nts_packet(r, <<Keys, "s2c">>) = Err
  BY <1>8, Zenon DEF parse_nts_packet
<1> QED BY <1>5, <1>9, Zenon DEF r, kiss, p

\* The length and the contents of the cookie of the measured client.
LEMMA StatusIs ==
  ASSUME NEW c
  PROVE  CookieStatus(CookieExt(c, Keys)) = c /\ CookieExt(c, Keys).body.keys = Keys
BY DEF CookieStatus, CookieExt, Ext, COOKIE_SIZE

\* The reply carries the reference id and the receive time of its header, and
\* the time at which it was made.
LEMMA StampsKept ==
  ASSUME NEW header, NEW at
  PROVE  LET head == serialize_header(Restamped(header, at)) IN
         /\ head.refid = header.refid
         /\ head.receive = header.receive
         /\ head.transmit = ntp_timestamp(at)
<1> DEFINE r == Restamped(header, at)
<1>1. /\ r.refid = header.refid /\ r.receive = header.receive
      /\ r.transmit = ntp_timestamp(at)
  BY DEF Restamped
<1> HIDE DEF r
<1>2. LET head == serialize_header(r) IN
      head.refid = r.refid /\ head.receive = r.receive /\ head.transmit = r.transmit
  BY DEF serialize_header
<1> QED BY <1>1, <1>2 DEF r

\* ntp_timestamp and timestamp_to_float: the seconds of the era.
LEMMA StampRead ==
  ASSUME NEW t \in Nat
  PROVE  timestamp_to_float(ntp_timestamp(t)) = t % Era
<1> DEFINE r == t % Era  q == t \div Era
<1>1. r \in Nat /\ q \in Nat /\ r < Era /\ t = q * Era + r
  BY EraAssumption, Z3
<1> HIDE DEF r, q
<1>2. t * Era = q * (Era * Era) + r * Era
  BY <1>1, EraAssumption, Z3
<1>3. r * Era \in Nat /\ r * Era < Era * Era /\ Era * Era \in Nat \ {0}
  BY <1>1, EraAssumption, Z3
<1>4. ASSUME NEW a \in Nat, NEW b \in Nat, NEW c \in Nat, NEW d \in Nat \ {0}, c < d, a = b * d + c
      PROVE  a % d = c /\ a \div d = b
  BY <1>4, Z3
<1>5. (t * Era) % (Era * Era) = r * Era
  <2> DEFINE a == t * Era  c == r * Era  d == Era * Era
  <2>1. a \in Nat /\ c \in Nat /\ d \in Nat \ {0} /\ c < d /\ a = q * d + c /\ q \in Nat
    BY <1>1, <1>2, <1>3, EraAssumption
  <2> HIDE DEF a, c, d
  <2>2. a % d = c
    BY <1>4, <2>1
  <2> QED BY <2>2 DEF a, c, d
<1>6. (r * Era) \div Era = r
  <2>1. r * Era = r * Era + 0 /\ 0 < Era
    BY <1>1, EraAssumption
  <2> QED BY <1>1, <1>3, <1>4, <2>1, EraAssumption
<1> QED BY <1>5, <1>6 DEF timestamp_to_float, ntp_timestamp, r

=============================================================================
