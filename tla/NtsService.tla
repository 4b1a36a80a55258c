----------------------------- MODULE NtsService -----------------------------
(***************************************************************************)
(* The NTS service as a client sees it: cookies made by the NTS-KE server  *)
(* under its latest key, opened by the NTP server with the key that its    *)
(* own rotator holds under the cookie's key id, and replaced by a cookie   *)
(* of the NTP server.                                                      *)
(***************************************************************************)
EXTENDS KeyRotator

CONSTANTS Ke, Ntp    \* the two server processes

ASSUME ServiceAssumption ==
  Servers = {Ke, Ntp}

VARIABLES
  cookie,     \* the cookie the client uses next, or None
  answer,     \* what became of its last NTP query
  alive       \* alive[s]: has no listening thread of s panicked?

serviceVars == <<cookie, answer, alive>>
allVars == <<vars, serviceVars>>

Cookies == [id : KeyIds, tag : Tags, minted : Nat]

\* Mutant: the newest key that is cached, not the latest.
ForwardMakeCookie(s) ==
  LET id == KeyIdOf(LastPeriod(synced[s])) IN
  [id |-> id, tag |-> cache[s][id], minted |-> synced[s]]

\* make_cookie: the key id in clear, the rest sealed with the tag.  When it
\* was minted is history.
MakeCookie(s) ==
  [id |-> latest[s], tag |-> cache[s][latest[s]], minted |-> synced[s]]

\* eat_cookie opens a cookie with the tag it was sealed with only.
Opens(s, c) == cache[s][c.id] # None /\ cache[s][c.id] = c.tag

ServiceInit ==
  /\ Init
  /\ cookie = None
  /\ answer = "none"
  /\ alive = [s \in Servers |-> TRUE]

\* A step of the rotators; a process that restarts has its listeners again.
RotatorStep ==
  /\ Next
  /\ alive' = [s \in Servers |->
                 alive[s] \/ (pc[s] = "down" /\ pc'[s] # "down")]
  /\ UNCHANGED <<cookie, answer>>

\* Mutant: the newest key by the clock is looked up.
ForwardPanic(s) ==
  /\ cache[s][KeyIdOf(LastPeriod(Period(now)))] = None
  /\ alive' = [alive EXCEPT ![s] = FALSE]
  /\ UNCHANGED <<vars, cookie>>

\* latest_key_value() without a latest key: the unwrap takes the thread down.
Panic(s) ==
  /\ cache[s][latest[s]] = None
  /\ alive' = [alive EXCEPT ![s] = FALSE]
  /\ UNCHANGED <<vars, cookie>>

\* Mutant: cookies are made whether or not there is a latest key.
UncheckedKeResponse ==
  /\ Serving(Ke)
  /\ alive[Ke]
  /\ answer' = "none"
  /\ cookie' = MakeCookie(Ke)
  /\ UNCHANGED <<vars, alive>>

\* response() of the NTS-KE server; the eight cookies are made with one key.
KeResponse ==
  /\ Serving(Ke)
  /\ alive[Ke]
  /\ answer' = "none"
  /\ \/ Panic(Ke)
     \/ /\ cache[Ke][latest[Ke]] # None
        /\ cookie' = MakeCookie(Ke)
        /\ UNCHANGED <<vars, alive>>

\* response() of the NTP server to a query that carries the cookie and is, or
\* is not, authentic under the keys in the cookie.
NtpResponse(authentic) ==
  /\ Serving(Ntp)
  /\ alive[Ntp]
  /\ cookie # None
  /\ \/ /\ ~Opens(Ntp, cookie) \/ ~authentic
        /\ answer' = "kiss of death"
        /\ UNCHANGED <<vars, cookie, alive>>
     \/ /\ Opens(Ntp, cookie) /\ authentic
        /\ \/ /\ answer' = "no answer"
              /\ Panic(Ntp)
           \/ /\ cache[Ntp][latest[Ntp]] # None
              /\ answer' = "time"
              /\ cookie' = MakeCookie(Ntp)
              /\ UNCHANGED <<vars, alive>>

ServiceNext ==
  \/ RotatorStep
  \/ KeResponse
  \/ \E authentic \in BOOLEAN : NtpResponse(authentic)

ServiceSpec == ServiceInit /\ [][ServiceNext]_allVars

-----------------------------------------------------------------------------
\* Every variable of the service keeps its type.
ServiceTypeOK ==
  /\ cookie \in Cookies \cup {None}
  /\ answer \in {"none", "kiss of death", "no answer", "time"}
  /\ alive \in [Servers -> BOOLEAN]

\* An authentic query with a cookie minted under a key at most Backward
\* periods old, by either server, is answered with the time, never with a kiss
\* of death, whenever the last rotation of the NTP server succeeded: whatever
\* the two rotators missed before, and however far apart they run.
FreshCookieGetsTime ==
  [][ /\ NtpResponse(TRUE)
      /\ Period(now) <= cookie.minted + Backward
      /\ synced[Ntp] = current[Ntp]
      => answer' = "time" ]_allVars

\* A listening thread panics in latest_key_value() only when no rotation of its
\* process has succeeded for more than Backward periods.
PanicOnlyAfterOutage ==
  [][ \A s \in Servers : alive[s] /\ ~alive'[s] =>
        Period(now) > synced[s] + Backward ]_allVars

=============================================================================
