----------------------------- MODULE KeyRotator -----------------------------
(***************************************************************************)
(* The key rotators of the NTS-KE and NTP server processes, the memcached  *)
(* server they read, and the scripts that write it (src/key_rotator.rs,    *)
(* scripts/fill-memcached.py).                                             *)
(*                                                                         *)
(* rotate() runs under the rotator's write lock but makes one memcached    *)
(* request per period, so it is one step per request here: the script and  *)
(* the other server run in between.  Readers of the rotator wait for the   *)
(* lock, so they only see the states in which pc[s] is "asleep".           *)
(***************************************************************************)
EXTENDS Integers

CONSTANTS
  Servers,        \* the processes that own a KeyRotator
  MasterKey,      \* MasterKey[s]: contents of the cookie key file of s
  Duration,       \* length of a period in seconds (3600)
  Forward,        \* number_of_forward_periods (2)
  Backward,       \* number_of_backward_periods (24)
  KeyIdSpace,     \* number of key ids, 2^32 for a u32
  MaxTry,         \* maximum_try in connect (5)
  RetryDelay,     \* seconds between two tries in connect (5)
  FillBack,       \* fill-memcached.py writes the periods
  FillAhead,      \* -FillBack .. FillAhead - 1 around now (50 and 4)
  None,           \* Option::None
  MemcachedFails, \* may a connection to memcached fail?
  MaxFills,       \* bound: runs of fill-memcached.py
  MaxLate,        \* bound: a due rotation is over MaxLate seconds later
  StartTime,      \* first and last reading of the system clock
  MaxTime

ASSUME RotatorAssumption ==
  /\ Duration \in Nat \ {0}
  /\ Forward \in Nat
  /\ Backward \in Nat
  /\ MaxTry \in Nat \ {0}
  /\ RetryDelay \in Nat
  /\ FillBack \in Nat
  /\ FillAhead \in Nat \ {0}
  /\ MaxFills \in Nat
  /\ MaxLate \in Nat
  /\ MaxTime \in Nat
  /\ StartTime \in 0 .. MaxTime
  /\ KeyIdSpace \in Nat \ {0}
  /\ MemcachedFails \in BOOLEAN

\* The clock is more than Backward periods past the UNIX epoch, so that
\* saturating_sub never saturates.
ASSUME ClockAssumption ==
  (Backward + 1) * Duration <= StartTime

\* The periods in use at one moment span fewer seconds than there are key ids.
ASSUME KeyIdAssumption ==
  (Backward + Forward + 2) * Duration + MaxLate < KeyIdSpace

\* A rotation is late by less than the forward keys make up for.
ASSUME LagAssumption ==
  Duration + 2 * MaxLate <= Forward * Duration

VARIABLES
  now,        \* SystemTime::now(), seconds since the UNIX epoch
  memcached,  \* value stored for each epoch, or None
  fills,      \* runs of the fill script so far
  fill,       \* None, or the period the running script still has to write
  pc,         \* what the rotating thread of each process is doing
  try,        \* try_number in connect, 0 once connect has returned
  wake,       \* when the next call of rotate() is due
  current,    \* current_period of the last call of rotate(), 0 if none
  cursor,     \* period_number of the call in progress, 0 if none
  cache,      \* the HashMap from key ids to tags
  latest,     \* latest_key_id
  synced,     \* history: current_period of the last successful rotate()
  skipped     \* history: was there a period without a call of rotate()?

storeVars == <<memcached, fills, fill>>
procVars == <<pc, try, wake, current, cursor, cache, latest, synced, skipped>>
vars == <<now, storeVars, procVars>>

Period(t) == t \div Duration
Epoch(p) == p * Duration

\* Mutant: a key id that keeps all bits of the epoch.
UntruncatedKeyIdOf(p) == Epoch(p)

\* KeyId::from_epoch keeps the 32 least significant bits.
KeyIdOf(p) == Epoch(p) % KeyIdSpace

Monus(a, b) == IF b <= a THEN a - b ELSE 0
FirstPeriod(p) == Monus(p, Backward)
\* Mutant: an exclusive range of periods.
ExclusiveLastPeriod(p) == p + Forward - 1
LastPeriod(p) == p + Forward
\* Mutant: the removed period is still in the window.
EarlyRemovedPeriod(p) == FirstPeriod(p)
RemovedPeriod(p) == Monus(FirstPeriod(p), 1)

KeyIds == 0 .. KeyIdSpace - 1
Periods == -FillBack .. Period(MaxTime) + FillAhead + Forward

\* The random bytes written for a period by the gen-th run of the script
\* (gen 0: by the hourly writer), and their HMAC under a master key.
Values == [gen : 0 .. MaxFills, period : Periods]
Sign(key, value) == [key |-> key, value |-> value]
Tags == [key : {MasterKey[s] : s \in Servers}, value : Values]

ASSUME NoneAssumption ==
  /\ None \notin Tags \cup Values \cup Periods
  /\ None \notin [base : Nat, next : Int]

EmptyCache == [k \in KeyIds |-> None]

Init ==
  /\ now = StartTime
  /\ memcached = [p \in Periods |-> None]
  /\ fills = 0
  /\ fill = None
  /\ pc = [s \in Servers |-> "down"]
  /\ try = [s \in Servers |-> 0]
  /\ wake = [s \in Servers |-> 0]
  /\ current = [s \in Servers |-> 0]
  /\ cursor = [s \in Servers |-> 0]
  /\ cache = [s \in Servers |-> EmptyCache]
  /\ latest = [s \in Servers |-> 0]
  /\ synced = [s \in Servers |-> 0]
  /\ skipped = [s \in Servers |-> FALSE]

-----------------------------------------------------------------------------
(* The memcached server and its writers.                                   *)

\* fill-memcached.py reads the clock once ...
FillBegin ==
  /\ fill = None
  /\ fills < MaxFills
  /\ fills' = fills + 1
  /\ fill' = [base |-> Period(now), next |-> -FillBack]
  /\ UNCHANGED <<now, memcached, procVars>>

\* ... and then overwrites one period after the other with fresh bytes.
FillSet ==
  /\ fill # None
  /\ LET p == fill.base + fill.next IN
       memcached' = [memcached EXCEPT ![p] = [gen |-> fills, period |-> p]]
  /\ fill' = IF fill.next + 1 < FillAhead
             THEN [fill EXCEPT !.next = @ + 1]
             ELSE None
  /\ UNCHANGED <<now, fills, procVars>>

\* The hourly job of a deployment adds the newest period only (external).
Publish ==
  LET p == Period(now) + FillAhead - 1 IN
  /\ fill = None
  /\ fills > 0
  /\ memcached[p] = None
  /\ memcached' = [memcached EXCEPT ![p] = [gen |-> 0, period |-> p]]
  /\ UNCHANGED <<now, fills, fill, procVars>>

\* memcached evicts a period that is over (external).
Evict(p) ==
  /\ MemcachedFails
  /\ p < Period(now)
  /\ memcached[p] # None
  /\ memcached' = [memcached EXCEPT ![p] = None]
  /\ UNCHANGED <<now, fills, fill, procVars>>

-----------------------------------------------------------------------------
(* A server process.                                                       *)

\* What is left of a process that has ended.
Forget(s) ==
  /\ pc' = [pc EXCEPT ![s] = "down"]
  /\ try' = [try EXCEPT ![s] = 0]
  /\ wake' = [wake EXCEPT ![s] = 0]
  /\ cursor' = [cursor EXCEPT ![s] = 0]
  /\ cache' = [cache EXCEPT ![s] = EmptyCache]
  /\ latest' = [latest EXCEPT ![s] = 0]
  /\ synced' = [synced EXCEPT ![s] = 0]

\* KeyRotator::connect creates the rotator and enters its retry loop.
Start(s) ==
  /\ pc[s] = "down"
  /\ pc' = [pc EXCEPT ![s] = "asleep"]
  /\ try' = [try EXCEPT ![s] = 1]
  /\ wake' = [wake EXCEPT ![s] = now]
  /\ current' = [current EXCEPT ![s] = 0]
  /\ skipped' = [skipped EXCEPT ![s] = FALSE]
  /\ UNCHANGED <<now, storeVars, cursor, cache, latest, synced>>

\* The process is killed or its machine rebooted.
Crash(s) ==
  /\ pc[s] # "down"
  /\ Forget(s)
  /\ UNCHANGED <<now, storeVars, current, skipped>>

\* rotate() returns an error and leaves this cache behind.  connect sleeps
\* and retries, or gives up and the process exits; the periodic thread
\* ignores the error and sleeps.
RotateErr(s, left) ==
  /\ \/ /\ try[s] = MaxTry
        /\ Forget(s)
     \/ /\ try[s] < MaxTry
        /\ pc' = [pc EXCEPT ![s] = "asleep"]
        /\ try' = [try EXCEPT ![s] = IF @ = 0 THEN 0 ELSE @ + 1]
        /\ wake' = [wake EXCEPT
                      ![s] = now + IF try[s] = 0 THEN Duration ELSE RetryDelay]
        /\ cursor' = [cursor EXCEPT ![s] = 0]
        /\ cache' = [cache EXCEPT ![s] = left]
        /\ UNCHANGED <<latest, synced>>
  /\ UNCHANGED <<now, storeVars>>

\* Mutant: nothing is dropped from the cache.
KeepingRotateBegin(s) ==
  LET p == Period(now) IN
  /\ pc[s] = "asleep"
  /\ wake[s] <= now
  /\ current' = [current EXCEPT ![s] = p]
  /\ skipped' = [skipped EXCEPT
                   ![s] = @ \/ (current[s] # 0 /\ p > current[s] + 1)]
  /\ \/ /\ pc' = [pc EXCEPT ![s] = "rotating"]
        /\ cursor' = [cursor EXCEPT ![s] = FirstPeriod(p)]
        /\ UNCHANGED <<now, storeVars, try, wake, cache, latest, synced>>
     \/ /\ MemcachedFails
        /\ RotateErr(s, cache[s])

\* Mutant: the period is only dropped once memcached is connected.
LateRemovalRotateBegin(s) ==
  LET p == Period(now) IN
  /\ pc[s] = "asleep"
  /\ wake[s] <= now
  /\ current' = [current EXCEPT ![s] = p]
  /\ skipped' = [skipped EXCEPT
                   ![s] = @ \/ (current[s] # 0 /\ p > current[s] + 1)]
  /\ \/ /\ pc' = [pc EXCEPT ![s] = "rotating"]
        /\ cache' = [cache EXCEPT ![s][KeyIdOf(RemovedPeriod(p))] = None]
        /\ cursor' = [cursor EXCEPT ![s] = FirstPeriod(p)]
        /\ UNCHANGED <<now, storeVars, try, wake, latest, synced>>
     \/ /\ MemcachedFails
        /\ RotateErr(s, cache[s])

\* Mutant: latest_key_id moves on before the keys have been read.
EarlyLatestRotateBegin(s) ==
  LET p == Period(now) IN
  /\ pc[s] = "asleep"
  /\ wake[s] <= now
  /\ current' = [current EXCEPT ![s] = p]
  /\ skipped' = [skipped EXCEPT
                   ![s] = @ \/ (current[s] # 0 /\ p > current[s] + 1)]
  /\ pc' = [pc EXCEPT ![s] = "rotating"]
  /\ cache' = [cache EXCEPT ![s][KeyIdOf(RemovedPeriod(p))] = None]
  /\ cursor' = [cursor EXCEPT ![s] = FirstPeriod(p)]
  /\ latest' = [latest EXCEPT ![s] = KeyIdOf(p)]
  /\ UNCHANGED <<now, storeVars, try, wake, synced>>

\* rotate() up to the connection: the period that has just left the window
\* is dropped before memcached is contacted.
RotateBegin(s) ==
  LET p == Period(now)
      left == [cache[s] EXCEPT ![KeyIdOf(RemovedPeriod(p))] = None]
  IN
  /\ pc[s] = "asleep"
  /\ wake[s] <= now
  /\ current' = [current EXCEPT ![s] = p]
  /\ skipped' = [skipped EXCEPT
                   ![s] = @ \/ (current[s] # 0 /\ p > current[s] + 1)]
  /\ \/ /\ pc' = [pc EXCEPT ![s] = "rotating"]
        /\ cache' = [cache EXCEPT ![s] = left]
        /\ cursor' = [cursor EXCEPT ![s] = FirstPeriod(p)]
        /\ UNCHANGED <<now, storeVars, try, wake, latest, synced>>
     \/ /\ MemcachedFails
        /\ RotateErr(s, left)

\* One turn of the loop of rotate(): the value is there ...
RotateHit(s) ==
  /\ pc[s] = "rotating"
  /\ cursor[s] <= LastPeriod(current[s])
  /\ memcached[cursor[s]] # None
  /\ cache' = [cache EXCEPT ![s][KeyIdOf(cursor[s])] =
                 Sign(MasterKey[s], memcached[cursor[s]])]
  /\ cursor' = [cursor EXCEPT ![s] = @ + 1]
  /\ UNCHANGED <<now, storeVars, pc, try, wake, current, latest, synced,
                 skipped>>

\* ... or it is not, or the request fails.
RotateMiss(s) ==
  /\ pc[s] = "rotating"
  /\ cursor[s] <= LastPeriod(current[s])
  /\ MemcachedFails \/ memcached[cursor[s]] = None
  /\ RotateErr(s, cache[s])
  /\ UNCHANGED <<current, skipped>>

\* rotate() succeeds.  After connect the periodic thread calls it at once.
RotateEnd(s) ==
  /\ pc[s] = "rotating"
  /\ cursor[s] > LastPeriod(current[s])
  /\ latest' = [latest EXCEPT ![s] = KeyIdOf(current[s])]
  /\ synced' = [synced EXCEPT ![s] = current[s]]
  /\ pc' = [pc EXCEPT ![s] = "asleep"]
  /\ try' = [try EXCEPT ![s] = 0]
  /\ wake' = [wake EXCEPT ![s] = IF try[s] = 0 THEN now + Duration ELSE now]
  /\ cursor' = [cursor EXCEPT ![s] = 0]
  /\ UNCHANGED <<now, storeVars, current, cache, skipped>>

-----------------------------------------------------------------------------
\* Time passes, but no further than a due rotation allows.
Tick ==
  /\ now < MaxTime
  /\ \A s \in Servers : pc[s] # "down" => now < wake[s] + MaxLate
  /\ now' = now + 1
  /\ UNCHANGED <<storeVars, procVars>>

Rotate(s) ==
  RotateBegin(s) \/ RotateHit(s) \/ RotateMiss(s) \/ RotateEnd(s)

Store ==
  \/ FillBegin
  \/ FillSet
  \/ Publish
  \/ \E p \in Periods : Evict(p)

Process(s) == Start(s) \/ Crash(s) \/ Rotate(s)

Next ==
  \/ Tick
  \/ Store
  \/ \E s \in Servers : Process(s)

Spec == Init /\ [][Next]_vars

-----------------------------------------------------------------------------
(* Properties.                                                             *)

Running(s) == pc[s] # "down" /\ try[s] = 0
Serving(s) == pc[s] = "asleep" /\ try[s] = 0

\* Every variable keeps its type; a cached tag is signed with the master key
\* of its process.
TypeOK ==
  /\ now \in StartTime .. MaxTime
  /\ memcached \in [Periods -> Values \cup {None}]
  /\ fills \in 0 .. MaxFills
  /\ fill = None \/ fill \in [base : Nat, next : -FillBack .. FillAhead - 1]
  /\ pc \in [Servers -> {"down", "asleep", "rotating"}]
  /\ try \in [Servers -> 0 .. MaxTry]
  /\ wake \in [Servers -> Nat]
  /\ current \in [Servers -> Nat]
  /\ cursor \in [Servers -> Nat]
  /\ cache \in [Servers -> [KeyIds -> Tags \cup {None}]]
  /\ latest \in [Servers -> KeyIds]
  /\ synced \in [Servers -> Nat]
  /\ skipped \in [Servers -> BOOLEAN]

\* The key of period p, from any writer, is what s holds under its key id.
Holds(s, p) ==
  LET tag == cache[s][KeyIdOf(p)] IN
  /\ tag # None
  /\ tag.key = MasterKey[s]
  /\ tag.value.period = p

\* Once connect() has succeeded, failing rotations, wrapped key ids and the
\* other writers notwithstanding, the cache holds under each key id the key
\* of that very period, from Backward periods before now up to Forward
\* periods after the last successful rotate().
WindowCached ==
  \A s \in Servers : Running(s) =>
    \A p \in Period(now) - Backward .. synced[s] + Forward : Holds(s, p)

\* latest_key_value() does not panic, and returns the key of the period it
\* was rotated to, for Backward periods after the last success of rotate().
LatestUsable ==
  \A s \in Servers :
    Serving(s) /\ Period(now) <= synced[s] + Backward =>
      /\ latest[s] = KeyIdOf(synced[s])
      /\ Holds(s, synced[s])

\* "This unwrap cannot panic because the HashMap will always contain the
\* latest key id" (latest_key_value).
LatestAlwaysCached ==
  \A s \in Servers : Serving(s) => cache[s][latest[s]] # None

\* A key whose period has left the window is gone: after the last call of
\* rotate(), successful or not, nothing older than Backward periods is cached,
\* unless there was a period without a call (rotate() removes one key only).
NoStaleKeys ==
  \A s \in Servers, k \in KeyIds :
    Serving(s) /\ ~skipped[s] /\ cache[s][k] # None =>
      cache[s][k].value.period >= current[s] - Backward

\* The forward keys cover the lag of the other server ("Not all of our friends
\* may have gotten the same forwards keys as we did"): if the last rotation of
\* t succeeded, t has the key that s puts in its cookies, as long as the last
\* success of s is at most Backward periods old.
FriendsHaveOurKey ==
  \A s, t \in Servers :
    /\ Serving(s)
    /\ Period(now) <= synced[s] + Backward
    /\ Serving(t)
    /\ synced[t] = current[t]
    => Holds(t, synced[s])

\* "The memcached server is used to sync data between the NTS-KE server and
\* the NTP server": the servers never hold different keys under one id.
KeysAgree ==
  \A s, t \in Servers :
    /\ Serving(s)
    /\ Serving(t)
    /\ MasterKey[s] = MasterKey[t]
    => \A k \in KeyIds :
         None \in {cache[s][k], cache[t][k]} \/ cache[s][k] = cache[t][k]

=============================================================================
