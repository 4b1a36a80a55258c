--------------------------- MODULE MCNtpExchange ----------------------------
(***************************************************************************)
(* NtpExchange on a small instance: two listening threads, two exchanges of*)
(* the measured client, one query of another client.                       *)
(***************************************************************************)
EXTENDS NtpExchange

Sealed(exts, key) ==
  serialize_nts_packet([header |-> ClientHeader, auth_exts |-> exts,
                        auth_enc_exts |-> <<>>], key)

OtherUid == Ext(UniqueIdentifier, 36, [uid |-> 0])
OtherKey == <<"other", "c2s">>
OtherCookie == CookieExt("good", "other")
Placeholder(size) == Ext(NTSCookiePlaceholder, 4 + size, Zeros)

\* A query of another implementation: cookie and placeholders of any number
\* and size.
OtherNts(cookie, placeholders, size) ==
  Sealed(<<OtherUid, cookie>> \o [i \in 1 .. placeholders |-> Placeholder(size)],
         OtherKey)

\* Fields after the authenticator, and a last field that claims k bytes more
\* than there are.
Followed(w, exts) ==
  [w EXCEPT !.exts = @ \o exts, !.bytes = @ + Lengths(exts)]

Claiming(w, k) == [w EXCEPT !.exts[Len(w.exts)].len = @ + k]

\* The same query, sealed with an empty nonce.
Nonceless(w) ==
  [w EXCEPT !.bytes = @ - NONCE_LEN,
            !.exts[Len(w.exts)] =
              Ext(@.type, @.len - NONCE_LEN, [@.body EXCEPT !.nonce_len = 0])]

\* As many cookies as fit into BUF_SIZE, and one more; placeholders too small
\* for a cookie; a cookie that cannot be used; headers cut short and of the wrong
\* mode; fields of impossible length; identifier and placeholder after the
\* authenticator; an identifier cut short, behind an authenticator sealed with
\* the wrong key; an empty nonce; an authenticator that claims to end behind the
\* datagram, or to be longer than it.
MCOtherIds ==
  {<<"cookies", p>> : p \in {10, 11}}
  \cup {<<"small", 2>>, <<"malformed", 0>>}
  \cup ({"header"} \X {40, 48})
  \cup {<<"mode", Server>>}
  \cup ({"length"} \X {2, 38})
  \cup {<<"late uid", 0>>, <<"cut uid", 200>>, <<"nonceless", 0>>}
  \cup ({"overlong"} \X {4, BUF_SIZE})

MCOtherWire(id) ==
  LET k == id[2]
      plain == [head |-> serialize_header(ClientHeader), exts |-> <<>>,
                bytes |-> HEADER_SIZE]
  IN CASE id[1] = "cookies" -> OtherNts(OtherCookie, k, COOKIE_SIZE)
       [] id[1] = "small" -> OtherNts(OtherCookie, k, COOKIE_SIZE - 4)
       [] id[1] = "malformed" -> OtherNts(Ext(NTSCookie, 4, Zeros), k, 0)
       [] id[1] = "header" -> Cut(plain, k)
       [] id[1] = "mode" ->
            [plain EXCEPT !.head = serialize_header([ClientHeader EXCEPT !.mode = k])]
       [] id[1] = "length" ->
            [OtherNts(OtherCookie, 0, 0)
               EXCEPT !.exts = <<Ext(UniqueIdentifier, k, [uid |-> 0])>> \o Tail(@)]
       [] id[1] = "late uid" ->
            Followed(Sealed(<<OtherCookie>>, OtherKey),
                     <<Placeholder(COOKIE_SIZE), OtherUid>>)
       [] id[1] = "cut uid" ->
            Claiming(Followed(Sealed(<<OtherCookie>>, <<"other", "s2c">>),
                              <<OtherUid>>), k)
       [] id[1] = "nonceless" -> Nonceless(OtherNts(OtherCookie, k, 0))
       [] id[1] = "overlong" -> Claiming(OtherNts(OtherCookie, 1, COOKIE_SIZE), k)

\* Each datagram is put together once.
MCWires == {<<id, QueryWire(id)>> : id \in Exchanges \cup OtherIds}
MCWire(id) == (CHOOSE p \in MCWires : p[1] = id)[2]

=============================================================================
