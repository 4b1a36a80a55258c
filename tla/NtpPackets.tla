----------------------------- MODULE NtpPackets -----------------------------
(***************************************************************************)
(* ntp/protocol.rs: NTP and NTS packets on the wire.                       *)
(*                                                                         *)
(* A datagram is [head, exts, bytes]: the header as it is packed, the      *)
(* extension fields that were written, each [type, len, body] with len the *)
(* value of its length field, and the number of bytes that arrived.  A     *)
(* receive buffer that is too small cuts bytes, not exts; the parsers see  *)
(* what the remaining bytes hold.  A body is a record: [uid], [cookie,     *)
(* keys], the authenticator [key, ad, plain, nonce_len, cipher_len], or    *)
(* zeros.  An extension type is its wire code, of which wire_type and      *)
(* type_from_wire are two spellings.  Poll, precision, root delay and      *)
(* reference timestamp are copied and never looked at: they are left out.  *)
(***************************************************************************)
EXTENDS Integers, Sequences

HEADER_SIZE == 48
NONCE_LEN == 16
TAG_LEN == 16          \* what AES-SIV adds to a plaintext

UniqueIdentifier == 260
NTSCookie == 516
NTSCookiePlaceholder == 772
NTSAuthenticator == 1028

NoLeap == 0
UnknownLeap == 3
Client == 3
Server == 4
Invalid == 6

\* What Result::Err and a panic look like here.
Err == [error |-> "InvalidInput"]
Panic == [error |-> "panic"]
IsErr(r) == "error" \in DOMAIN r

Ext(type, len, body) == [type |-> type, len |-> len, body |-> body]
Zeros == [zeros |-> TRUE]

-----------------------------------------------------------------------------
\* The packed first byte.
parse_leap_indicator(first) == first \div 64
parse_version(first) == (first \div 8) % 8
parse_mode(first) == IF first % 8 \in 1 .. 5 THEN first % 8 ELSE Invalid
create_first(leap, version, mode) == leap * 64 + (version % 8) * 8 + (mode % 8)

serialize_header(h) ==
  [first |-> create_first(h.leap, h.version, h.mode), stratum |-> h.stratum,
   dispersion |-> h.dispersion, refid |-> h.refid, origin |-> h.origin,
   receive |-> h.receive, transmit |-> h.transmit]

parse_packet_header(w) ==
  IF w.bytes < HEADER_SIZE
  THEN Err
  ELSE [leap |-> parse_leap_indicator(w.head.first),
        version |-> parse_version(w.head.first),
        mode |-> parse_mode(w.head.first), stratum |-> w.head.stratum,
        dispersion |-> w.head.dispersion, refid |-> w.head.refid,
        origin |-> w.head.origin, receive |-> w.head.receive,
        transmit |-> w.head.transmit]

-----------------------------------------------------------------------------
\* The bytes of the first i fields, for every i.
Offsets(exts) ==
  LET upto[i \in 0 .. Len(exts)] ==
        IF i = 0 THEN 0 ELSE exts[i].len + upto[i - 1]
  IN upto

Lengths(exts) == Offsets(exts)[Len(exts)]

\* The fields with an index in I, in their order.
Selected(exts, I) ==
  LET upto[i \in 0 .. Len(exts)] ==
        IF i = 0 THEN <<>>
        ELSE IF i \in I THEN Append(upto[i - 1], exts[i]) ELSE upto[i - 1]
  IN upto[Len(exts)]

\* Any datagram: it may have been cut, and its length fields may be wrong.
IsDatagram(w) ==
  /\ w.bytes \in Nat
  /\ w.exts \in Seq({w.exts[i] : i \in DOMAIN w.exts})
  /\ \A i \in DOMAIN w.exts : w.exts[i].len \in Nat

\* Where field i of a datagram starts.
StartOf(w, i) == HEADER_SIZE + Offsets(w.exts)[i - 1]

\* The fields whose four bytes of type and length arrived.
Present(w) == {i \in DOMAIN w.exts : StartOf(w, i) + 4 <= w.bytes}

\* Did all of field i arrive?
Whole(w, i) == StartOf(w, i) + w.exts[i].len <= w.bytes

\* The field as it is read: reader.read fills what it can, the rest stays zero.
ReadExt(w, i) ==
  IF Whole(w, i)
  THEN w.exts[i]
  ELSE Ext(w.exts[i].type, w.exts[i].len, Zeros)

\* Not on a word boundary, or too short.
BadLength(ext) == ext.len % 4 # 0 \/ ext.len < 4

\* Mutant: the length fields are taken as they come.
TrustingParseExtensions(w) == [exts |-> [i \in Present(w) |-> ReadExt(w, i)]]

parse_extensions(w) ==
  IF \E i \in Present(w) : BadLength(w.exts[i])
  THEN Err
  ELSE [exts |-> [i \in Present(w) |-> ReadExt(w, i)]]

parse_ntp_packet(w) ==
  LET header == parse_packet_header(w) IN
  LET extensions == parse_extensions(w) IN
  IF IsErr(header) THEN Err
  ELSE IF IsErr(extensions) THEN Err
  ELSE [header |-> header, exts |-> extensions.exts]

\* Contents that are not whole words make the writer panic.
serialize_ntp_packet(p) ==
  IF \E i \in DOMAIN p.exts : p.exts[i].len % 4 # 0
  THEN Panic
  ELSE [head |-> serialize_header(p.header), exts |-> p.exts,
        bytes |-> HEADER_SIZE + Lengths(p.exts)]

has_extension(p, kind) == \E i \in DOMAIN p.exts : p.exts[i].type = kind

is_nts_packet(p) ==
  /\ has_extension(p, NTSCookie)
  /\ has_extension(p, NTSAuthenticator)
  /\ has_extension(p, UniqueIdentifier)

\* The first of its kind; only used where there is one.
extract_extension(p, kind) ==
  LET found == {i \in DOMAIN p.exts : p.exts[i].type = kind}
  IN p.exts[CHOOSE i \in found : \A j \in found : i <= j]

-----------------------------------------------------------------------------
Padded(len) == len + ((4 - (len % 4)) % 4)

\* AES-SIV opens what was sealed with the same key over the same data.
Opens(body, ad, key) ==
  /\ "ad" \in DOMAIN body
  /\ body.key = key
  /\ body.ad = ad

\* The authenticator's plaintext, if its lengths fit and it opens.
parse_decrypt_auth_ext(ad, ext, key) ==
  IF \/ ext.len - 4 < 4
     \/ ~Opens(ext.body, ad, key)
     \/ Padded(ext.body.nonce_len) + Padded(ext.body.cipher_len) + 4 > ext.len - 4
  THEN Err
  ELSE [exts |-> ext.body.plain]

\* The authenticator as it is read: one that claims more than has arrived still
\* has its nonce and its ciphertext if these have.
ReadAuth(w, a) ==
  LET ext == w.exts[a] IN
  IF /\ "ad" \in DOMAIN ext.body
     /\ StartOf(w, a) + 8 + Padded(ext.body.nonce_len) + ext.body.cipher_len
          <= w.bytes
  THEN ext
  ELSE ReadExt(w, a)

\* What precedes the authenticator, by counting its length back from where the
\* reader stands: less than that if the authenticator was cut.
AssociatedData(w, a) ==
  IF Whole(w, a)
  THEN <<w.head, SubSeq(w.exts, 1, a - 1)>>
  ELSE <<w.head, SubSeq(w.exts, 1, a - 1), w.bytes - w.exts[a].len>>

\* The authenticators whose type and length arrived, and the first of them.
Auths(w) == {i \in Present(w) : w.exts[i].type = NTSAuthenticator}

FirstAuth(w) == CHOOSE i \in Auths(w) : \A j \in Auths(w) : i <= j

\* Fields before the first authenticator are authenticated by it, fields after
\* it are ignored.  The length fields are not checked here.  One below 4 wraps
\* around as a u16 (a release build has no overflow checks) and its field takes
\* all that is left.  Counting back the length of an authenticator that is
\* longer than the datagram leads to before its start: a slice out of range.
parse_nts_packet(w, key) ==
  LET a == FirstAuth(w) IN
  IF w.bytes < HEADER_SIZE THEN Err
  ELSE IF Auths(w) = {} THEN Err     \* "never saw the authenticator"
  ELSE IF \E i \in 1 .. a - 1 : w.exts[i].len < 4 THEN Err
  ELSE IF w.exts[a].len < 4 \/ w.exts[a].len > w.bytes THEN Panic
  ELSE LET plain == parse_decrypt_auth_ext(AssociatedData(w, a),
                                           ReadAuth(w, a), key)
       IN IF IsErr(plain) THEN Err
          ELSE IF \E i \in DOMAIN plain.exts : BadLength(plain.exts[i]) THEN Err
          ELSE [header |-> parse_packet_header(w),
                auth_exts |-> [i \in 1 .. a - 1 |-> ReadExt(w, i)],
                auth_enc_exts |-> plain.exts]

serialize_nts_packet(p, key) ==
  LET clear == serialize_ntp_packet([header |-> p.header, exts |-> p.auth_exts])
      cipher_len == Lengths(p.auth_enc_exts) + TAG_LEN
      len == 4 + 4 + NONCE_LEN + Padded(cipher_len)
  IN IF IsErr(clear) THEN Panic
     ELSE [head |-> clear.head,
           exts |-> Append(p.auth_exts, Ext(NTSAuthenticator, len,
                      [key |-> key, ad |-> <<clear.head, p.auth_exts>>,
                       plain |-> p.auth_enc_exts, nonce_len |-> NONCE_LEN,
                       cipher_len |-> cipher_len])),
           bytes |-> clear.bytes + len]

\* recvmsg into a buffer of n bytes.
Cut(w, n) ==
  [head |-> w.head, exts |-> w.exts, bytes |-> IF n < w.bytes THEN n ELSE w.bytes]

=============================================================================
