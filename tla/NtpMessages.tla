---------------------------- MODULE NtpMessages -----------------------------
(***************************************************************************)
(* ntp/server/server.rs and ntp/client.rs: timestamps, the queries of the  *)
(* measured client and the answers the server makes of a query, as         *)
(* functions of what they are made of.  A cookie is "good", "missing" (its *)
(* key has left the cache) or "undecryptable".                             *)
(***************************************************************************)
EXTENDS Clocks, NtpPackets

COOKIE_SIZE == 100
NTSN == "NTSN"

-----------------------------------------------------------------------------
\* Seconds in the upper half of a u64: those of later eras are shifted out.
\* Times are whole seconds here, so that the lower half is zero.
ntp_timestamp(time) == (time * Era) % (Era * Era)

timestamp_to_float(stamp) == stamp \div Era

\* floor(n * 65336 / (65536 * 3125)), with no intermediate above 32 bits.
Times65336(n) ==
  n \div 3125 - n \div 1024000
    + (8192 * (n % 3125) - 25 * (n % 1024000)) \div 25600000

\* In 1/65536 s, PHI * 1 s is 3072/3125: "units" is the dispersion in 3125ths.
DispersionUnits(disp, secs) == disp * 3125 + secs * 3072

fix_dispersion(disp, at, taken) ==
  LET units == DispersionUnits(disp, at - taken)
      curdisp_secs == units \div (65536 * 3125)
      curdisp_frac == Times65336(units)
  IN IF at < taken THEN disp ELSE curdisp_secs * 65536 + curdisp_frac

\* What response() drops: what it cannot parse and what is not a query.
Mangled(p) == IF IsErr(p) THEN TRUE ELSE p.header.mode # Client

kiss_of_death(p) ==
  [header |-> [leap |-> UnknownLeap, version |-> 4, mode |-> Server,
               stratum |-> 0, dispersion |-> 0, refid |-> NTSN,
               origin |-> p.header.transmit, receive |-> 0, transmit |-> 0],
   exts |-> IF has_extension(p, UniqueIdentifier)
            THEN <<extract_extension(p, UniqueIdentifier)>> ELSE <<>>]

CookieExt(status, keys) ==
  Ext(NTSCookie, 4 + COOKIE_SIZE, [cookie |-> status, keys |-> keys])

\* The header with the time of sending.
Restamped(header, at) ==
  [leap |-> header.leap, version |-> header.version, mode |-> header.mode,
   stratum |-> header.stratum, dispersion |-> header.dispersion,
   refid |-> header.refid, origin |-> header.origin,
   receive |-> header.receive, transmit |-> ntp_timestamp(at)]

\* Every unique identifier of the query.
Echoed(exts) ==
  Selected(exts, {i \in DOMAIN exts : exts[i].type = UniqueIdentifier})

\* The placeholders of at least so many bytes.
Placeholders(exts, size) ==
  Selected(exts, {i \in DOMAIN exts : exts[i].type = NTSCookiePlaceholder
                                      /\ exts[i].len - 4 >= size})

Cookies(n, keys) == [i \in 1 .. n |-> CookieExt("good", keys)]

\* Mutant: a placeholder of any size gets a cookie.
GenerousNtsResponse(query, header, keys, at) ==
  [header |-> Restamped(header, at), auth_exts |-> Echoed(query.auth_exts),
   auth_enc_exts |-> Cookies(1 + Len(Placeholders(query.auth_exts, 0)), keys)]


\* Mutant: the transmit timestamp is the one of the header.
HastyNtsResponse(query, header, keys, at) ==
  [header |-> header, auth_exts |-> Echoed(query.auth_exts),
   auth_enc_exts |-> Cookies(1 + Len(Placeholders(query.auth_exts, COOKIE_SIZE)), keys)]

\* Every unique identifier is echoed; a placeholder as large as a cookie gets
\* one, and the cookie consumed is replaced.
nts_response(query, header, keys, at) ==
  [header |-> Restamped(header, at), auth_exts |-> Echoed(query.auth_exts),
   auth_enc_exts |-> Cookies(1 + Len(Placeholders(query.auth_exts, COOKIE_SIZE)), keys)]

\* Mutant: the answer is sealed with the key of the queries.
MirroredProcessNts(header, keys, raw, at) ==
  LET query == parse_nts_packet(raw, <<keys, "c2s">>) IN
  IF query = Panic THEN Panic
  ELSE IF IsErr(query)
       THEN serialize_ntp_packet(kiss_of_death(parse_ntp_packet(raw)))
       ELSE serialize_nts_packet(nts_response(query, header, keys, at),
                                 <<keys, "c2s">>)

process_nts(header, keys, raw, at) ==
  LET query == parse_nts_packet(raw, <<keys, "c2s">>) IN
  IF query = Panic THEN Panic
  ELSE IF IsErr(query)
       THEN serialize_ntp_packet(kiss_of_death(parse_ntp_packet(raw)))
       ELSE serialize_nts_packet(nts_response(query, header, keys, at),
                                 <<keys, "s2c">>)

\* get_keyid, the lookup of the key and eat_cookie.
CookieStatus(cookie) ==
  IF cookie.len - 4 < 4 THEN "malformed"
  ELSE IF "cookie" \notin DOMAIN cookie.body THEN "missing"
  ELSE cookie.body.cookie

-----------------------------------------------------------------------------
Keys == "measured"

ClientHeader ==
  [leap |-> NoLeap, version |-> 4, mode |-> Client, stratum |-> 0,
   dispersion |-> 0, refid |-> "none", origin |-> 0, receive |-> 0,
   transmit |-> 0]

\* A fresh unique identifier of 32 bytes and always the first cookie.
NtsQuery(uid, cookie) ==
  serialize_nts_packet(
    [header |-> ClientHeader,
     auth_exts |-> <<Ext(UniqueIdentifier, 36, [uid |-> uid]),
                     CookieExt(cookie, Keys)>>,
     auth_enc_exts |-> <<>>],
    <<Keys, "c2s">>)

=============================================================================
