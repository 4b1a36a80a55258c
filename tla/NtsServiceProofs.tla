-------------------------- MODULE NtsServiceProofs --------------------------
(***************************************************************************)
(* The listeners of the NTS service, from the invariant of its rotators.   *)
(***************************************************************************)
EXTENDS NtsService, KeyRotatorProofs

-----------------------------------------------------------------------------
(***************************************************************************)
(* What the caches hold beyond the window of the last success.             *)
(***************************************************************************)

\* A call of rotate() that succeeded still holds its key, however long ago it was.
SyncedInv ==
  \A s \in Servers :
    Running(s) /\ synced[s] = current[s] => Holds(s, synced[s])

\* What a cache can hold: the windows of the calls of rotate() so far.
KeyRangeInv ==
  \A s \in Servers :
    /\ current[s] = 0 \/ current[s] >= Period(StartTime)
    /\ \A k \in KeyIds : cache[s][k] # None =>
         cache[s][k].value.period
           \in Period(StartTime) - Backward .. current[s] + Forward

\* A tag in a cache after a step was there before, or has just been read from
\* memcached by a step that changes neither the store nor the clock.
LEMMA TagsComeFromStore ==
  ASSUME Inv, NEW u \in Servers, Process(u),
         NEW s \in Servers, NEW k \in KeyIds, cache'[s][k] # None
  PROVE  \/ cache'[s][k] = cache[s][k]
         \/ /\ Backward < current[s] /\ current'[s] = current[s]
            /\ \E p \in Periods :
                 /\ p \in current[s] - Backward .. current[s] + Forward
                 /\ memcached[p] # None
                 /\ cache'[s][k] = Sign(MasterKey[s], memcached[p])
<1>1. cache \in [Servers -> [KeyIds -> Tags \cup {None}]]
  BY Zenon DEF Inv, TypeOK
<1>2. CASE Start(u)
  BY <1>2, Zenon DEF Start
<1>3. ASSUME cache' = [cache EXCEPT ![u] = EmptyCache]
      PROVE  cache'[s][k] = cache[s][k]
  BY <1>1, <1>3, Zenon DEF EmptyCache
<1>4. ASSUME NEW left, RotateErr(u, left),
             \A i \in KeyIds : left[i] # None => left[i] = cache[u][i]
      PROVE  cache'[s][k] = cache[s][k]
  BY <1>1, <1>3, <1>4, Zenon DEF RotateErr, Forget
<1>5. CASE Crash(u)
  BY <1>3, <1>5, Zenon DEF Crash, Forget
<1>6. CASE RotateBegin(u)
  <2> DEFINE left == [cache[u] EXCEPT ![KeyIdOf(RemovedPeriod(Period(now)))] = None]
  <2>1. \A i \in KeyIds : left[i] # None => left[i] = cache[u][i]
    BY <1>1, Zenon
  <2>2. cache' = [cache EXCEPT ![u] = left] \/ RotateErr(u, left)
    BY <1>6, Zenon DEF RotateBegin
  <2> HIDE DEF left
  <2>3. CASE cache' = [cache EXCEPT ![u] = left]
    BY <1>1, <2>1, <2>3, Zenon
  <2> QED BY <1>4, <2>1, <2>2, <2>3
<1>7. CASE RotateHit(u)
  <2>1. cursor[u] \in Periods
    <3>1. /\ cursor[u] \in Nat /\ current[u] \in Nat
          /\ cursor[u] <= current[u] + Forward
          /\ current[u] <= Period(now)
      BY <1>7, Zenon DEF RotateHit, Inv, TypeOK, TimeInv, LastPeriod
    <3>2. /\ Period(now) \in Nat /\ Period(MaxTime) \in Nat
          /\ Period(now) <= Period(MaxTime)
      BY Clock, Zenon DEF Inv
    <3> QED BY ONLY <3>1, <3>2, RotatorAssumption DEF Periods
  <2>2. /\ memcached[cursor[u]] # None
        /\ cache' = [cache EXCEPT ![u][KeyIdOf(cursor[u])] =
                       Sign(MasterKey[u], memcached[cursor[u]])]
        /\ current' = current
    BY <1>7, Zenon DEF RotateHit
  <2>3. \/ cache'[s][k] = cache[s][k]
        \/ s = u /\ cache'[s][k] = Sign(MasterKey[u], memcached[cursor[u]])
    BY <1>1, <2>2, Zenon
  <2>4. /\ Backward < current[u]
        /\ cursor[u] \in current[u] - Backward .. current[u] + Forward
    BY <1>7, RotatorAssumption DEF RotateHit, Inv, TypeOK, CallInv, LastPeriod
  <2> QED BY <2>1, <2>2, <2>3, <2>4, Zenon
<1>8. CASE RotateMiss(u)
  BY <1>4, <1>8, Zenon DEF RotateMiss
<1>9. CASE RotateEnd(u)
  BY <1>9, Zenon DEF RotateEnd
<1> QED BY <1>2, <1>5, <1>6, <1>7, <1>8, <1>9, Zenon DEF Process, Rotate

\* SyncedInv survives: rotate() removes a key before the window only, and
\* what it overwrites with a key of the same id it has just read.
LEMMA SyncedNext ==
  ASSUME Inv, SyncedInv, [Next]_vars
  PROVE  SyncedInv'
<1> SUFFICES ASSUME NEW s \in Servers, Running(s)', synced'[s] = current'[s]
             PROVE  Holds(s, synced[s])'
  BY Zenon DEF SyncedInv
<1>1. Inv'
  BY NextInv, Zenon
<1>2. /\ cache \in [Servers -> [KeyIds -> Tags \cup {None}]]
      /\ pc \in [Servers -> {"down", "asleep", "rotating"}]
      /\ try \in [Servers -> 0 .. MaxTry] /\ MaxTry \in Nat \ {0}
      /\ current \in [Servers -> Nat] /\ synced \in [Servers -> Nat]
      /\ cursor \in [Servers -> Nat]
  BY RotatorAssumption, Zenon DEF Inv, TypeOK
<1>3. ASSUME UNCHANGED <<cache, synced, current>>, Running(s)
      PROVE  Holds(s, synced[s])'
  BY <1>3, Zenon DEF SyncedInv, Holds
\* Nothing is lost of the window, which begins with the present period.
<1>4. ASSUME current'[s] = Period(now), now' = now
      PROVE  Holds(s, synced[s])'
  <2>1. synced'[s] \in Period(now') - Backward .. synced'[s] + Forward
    BY <1>1, <1>4, Clock, RotatorAssumption DEF Inv, TypeOK
  <2> QED BY <1>1, <2>1, Zenon DEF Inv, WindowCached
<1>5. ASSUME NEW u \in Servers, Process(u)
      PROVE  Holds(s, synced[s])'
  <2>1. CASE u # s
    <3>1. /\ cache'[s] = cache[s] /\ synced'[s] = synced[s]
          /\ current'[s] = current[s] /\ pc'[s] = pc[s] /\ try'[s] = try[s]
      BY <1>2, <1>5, <2>1, Zenon
         DEF Process, Start, Crash, Rotate, RotateBegin, RotateHit, RotateMiss,
             RotateEnd, RotateErr, Forget
    <3> QED BY <3>1, Zenon DEF SyncedInv, Holds, Running
  <2> SUFFICES ASSUME u = s PROVE Holds(s, synced[s])'
    BY <2>1, Zenon
  <2>2. CASE Start(s)
    BY <1>2, <2>2 DEF Start, Running
  <2>3. ASSUME Forget(s) PROVE FALSE
    BY <1>2, <2>3, Zenon DEF Forget, Running
  <2>4. CASE Crash(s)
    BY <2>3, <2>4, Zenon DEF Crash
  <2>5. CASE RotateBegin(s)
    <3>1. now' = now /\ current'[s] = Period(now)
      BY <1>2, <2>5, Zenon DEF RotateBegin, RotateErr
    <3> QED BY <1>4, <3>1, Zenon
  <2>6. CASE RotateHit(s)
    <3>1. /\ pc[s] = "rotating" /\ memcached[cursor[s]] # None
          /\ cursor[s] <= current[s] + Forward
          /\ cache' = [cache EXCEPT ![s][KeyIdOf(cursor[s])] =
                         Sign(MasterKey[s], memcached[cursor[s]])]
          /\ UNCHANGED <<synced, current, pc, try>>
      BY <2>6, Zenon DEF RotateHit, LastPeriod
    <3>2. /\ cursor[s] \in Int /\ current[s] \in Int
          /\ cursor[s] - current[s] <= Backward + Forward + 1
          /\ current[s] - cursor[s] <= Backward + Forward + 1
      BY <1>2, <3>1, RotatorAssumption DEF Inv, CallInv
    <3>3. Running(s) /\ synced[s] = current[s]
      BY <3>1, Zenon DEF Running
    <3>4. KeyIdOf(current[s]) \in KeyIds /\ KeyIdOf(cursor[s]) \in KeyIds
      BY <3>2, KeyIdType, Zenon
    <3>5. CASE cursor[s] = current[s]
      <4>2. /\ pc'[s] = "rotating" /\ cursor'[s] = cursor[s] + 1
        BY <1>2, <2>6, <3>1, Zenon DEF RotateHit
      <4>3. current'[s] \in current'[s] - Backward .. cursor'[s] - 1
        BY <1>2, <3>1, <3>5, <4>2, RotatorAssumption
      <4> QED BY <1>1, <4>2, <4>3, Zenon DEF Inv, CallInv
    <3>6. CASE cursor[s] # current[s]
      <4>1. KeyIdOf(cursor[s]) # KeyIdOf(current[s])
        BY <3>2, <3>6, KeyIdsInWindow, Zenon
      <4>2. cache'[s][KeyIdOf(current[s])] = cache[s][KeyIdOf(current[s])]
        BY <1>2, <3>1, <3>4, <4>1, Zenon
      <4> QED BY <3>1, <3>3, <4>2 DEF SyncedInv, Holds
    <3> QED BY <3>5, <3>6, Zenon
  <2>7. CASE RotateMiss(s)
    <3>1. current'[s] = current[s] /\ RotateErr(s, cache[s])
      BY <2>7, Zenon DEF RotateMiss
    <3>2. /\ cache'[s] = cache[s] /\ synced'[s] = synced[s]
          /\ try'[s] = 0 => try[s] = 0
      BY <1>2, <2>3, <3>1 DEF RotateErr
    <3>3. Running(s)
      BY <2>7, <3>2, Zenon DEF RotateMiss, Running
    <3> QED BY <3>1, <3>2, <3>3, Zenon DEF SyncedInv, Holds
  <2>8. CASE RotateEnd(s)
    <3>1. /\ pc[s] = "rotating" /\ cursor[s] > current[s] + Forward
          /\ cache' = cache /\ current' = current
      BY <2>8, Zenon DEF RotateEnd, LastPeriod
    <3>2. current[s] \in current[s] - Backward .. cursor[s] - 1
      BY <1>2, <3>1, RotatorAssumption
    <3> QED BY <3>1, <3>2 DEF Inv, CallInv, Holds
  <2> QED
    BY <1>5, <2>2, <2>4, <2>5, <2>6, <2>7, <2>8, Zenon DEF Process, Rotate
<1>6. CASE Tick \/ Store \/ UNCHANGED vars
  <2>1. UNCHANGED <<cache, synced, current, pc, try>>
    BY <1>6, Zenon DEF Tick, Store, FillBegin, FillSet, Publish, Evict, vars, procVars
  <2> QED BY <1>3, <2>1, Zenon DEF Running
<1> QED BY <1>5, <1>6, Zenon DEF Next

\* The windows of the calls only move forward.
LEMMA KeyRangeNext ==
  ASSUME Inv, KeyRangeInv, [Next]_vars
  PROVE  KeyRangeInv'
<1>1. /\ Inv' /\ Period(StartTime) \in Nat /\ Period(now) \in Nat
      /\ Period(StartTime) <= Period(now)
      /\ current \in [Servers -> Nat] /\ current' \in [Servers -> Nat]
  <2>1. StartTime \in Nat /\ now \in Nat /\ StartTime <= now
    BY RotatorAssumption DEF Inv, TypeOK
  <2> QED BY <2>1, NextInv, PeriodBounds, PeriodOrder, Zenon DEF Inv, TypeOK
<1>2. CASE UNCHANGED <<current, cache>>
  BY <1>2, Zenon DEF KeyRangeInv
<1>3. ASSUME NEW u \in Servers, Process(u) PROVE KeyRangeInv'
  <2> SUFFICES ASSUME NEW s \in Servers
               PROVE  /\ current'[s] = 0 \/ current'[s] >= Period(StartTime)
                      /\ \A k \in KeyIds : cache'[s][k] # None =>
                           cache'[s][k].value.period
                             \in Period(StartTime) - Backward .. current'[s] + Forward
    BY Zenon DEF KeyRangeInv
  <2>1. \/ current'[s] = current[s]
        \/ current'[s] = 0
        \/ current'[s] = Period(now)
    BY <1>1, <1>3, Zenon DEF Process, Start, Crash, Rotate, RotateBegin, RotateHit,
                      RotateMiss, RotateEnd
  <2>2. current'[s] = 0 => \A k \in KeyIds : cache'[s][k] = None
    BY <1>1, SMTT(30) DEF Inv, SlotInv, EmptyCache
  <2>3. current[s] <= Period(now) /\ Backward \in Nat /\ Forward \in Nat
    BY RotatorAssumption, Zenon DEF Inv, TimeInv
  <2>4. ASSUME NEW k \in KeyIds, cache'[s][k] # None
        PROVE  cache'[s][k].value.period
                 \in Period(StartTime) - Backward .. current'[s] + Forward
    <3>1. CASE cache'[s][k] = cache[s][k]
      <4>1. current'[s] >= current[s]
        BY <1>1, <2>1, <2>2, <2>3, <2>4
      <4>2. cache[s][k].value.period
              \in Period(StartTime) - Backward .. current[s] + Forward
        BY <2>4, <3>1, Zenon DEF KeyRangeInv
      <4> QED BY ONLY <1>1, <2>3, <3>1, <4>1, <4>2
    <3>2. ASSUME Backward < current[s], current'[s] = current[s],
                 NEW p \in Periods, p \in current[s] - Backward .. current[s] + Forward,
                 memcached[p] # None, cache'[s][k] = Sign(MasterKey[s], memcached[p])
          PROVE  cache'[s][k].value.period
                   \in Period(StartTime) - Backward .. current'[s] + Forward
      <4>1. cache'[s][k].value.period = p
        BY <3>2 DEF Inv, StoreInv, Sign
      <4>2. current[s] >= Period(StartTime)
        BY <1>1, <2>3, <3>2 DEF KeyRangeInv
      <4> QED BY ONLY <1>1, <2>3, <3>2, <4>1, <4>2
    <3> QED BY <1>3, <2>4, <3>1, <3>2, TagsComeFromStore, Zenon
  <2> QED BY <1>1, <2>1, <2>4, Zenon DEF KeyRangeInv
<1> QED
  BY <1>2, <1>3, Zenon DEF Next, Tick, Store, FillBegin, FillSet, Publish, Evict, vars, procVars

-----------------------------------------------------------------------------
(***************************************************************************)
(* The listening threads and the cookies.                                  *)
(***************************************************************************)

\* While the last success of rotate() is recent, there is a latest key.
LEMMA LatestThere ==
  ASSUME Inv, NEW s \in Servers, Serving(s), Period(now) <= synced[s] + Backward
  PROVE  cache[s][latest[s]] # None
<1>1. Running(s)
  BY Zenon DEF Serving, Running
<1>2. synced[s] \in Period(now) - Backward .. synced[s] + Forward
  BY Clock, RotatorAssumption DEF Inv, TypeOK
<1>3. latest[s] = KeyIdOf(synced[s]) /\ Holds(s, synced[s])
  BY <1>1, <1>2, Zenon DEF Inv, LatestInv, WindowCached
<1> QED BY <1>3, Zenon DEF Holds

\* The requests leave the rotators alone.
LEMMA ServiceInv == Inv /\ [ServiceNext]_allVars => Inv'
<1> SUFFICES ASSUME Inv, [ServiceNext]_allVars PROVE Inv'
  BY Zenon
<1>1. [Next]_vars
  <2>1. CASE RotatorStep
    BY <2>1, Zenon DEF RotatorStep
  <2>2. CASE KeResponse
    BY <2>2, Zenon DEF KeResponse, Panic
  <2>3. CASE \E authentic \in BOOLEAN : NtpResponse(authentic)
    BY <2>3, Zenon DEF NtpResponse, Panic
  <2>4. CASE UNCHANGED allVars
    BY <2>4, Zenon DEF allVars
  <2> QED BY <2>1, <2>2, <2>3, <2>4, Zenon DEF ServiceNext
<1> QED BY <1>1, NextInv, Zenon

\* What the listening threads of a process can lose in one step.
LEMMA PanicStep ==
  ASSUME Inv, ServiceTypeOK, ServiceNext, NEW s \in Servers, alive[s], ~alive'[s]
  PROVE  Period(now) > synced[s] + Backward
<1>1. ~RotatorStep
  BY Zenon DEF RotatorStep
<1>2. PICK t \in Servers : Panic(t) /\ Serving(t)
  <2>1. CASE KeResponse
    <3>1. Panic(Ke) /\ Serving(Ke)
      BY <2>1, Zenon DEF KeResponse
    <3> QED BY <3>1, ServiceAssumption, Zenon
  <2>2. CASE \E authentic \in BOOLEAN : NtpResponse(authentic)
    <3>1. Panic(Ntp) /\ Serving(Ntp)
      BY <2>2, Zenon DEF NtpResponse
    <3> QED BY <3>1, ServiceAssumption, Zenon
  <2> QED BY <1>1, <2>1, <2>2, Zenon DEF ServiceNext
<1>3. s = t
  BY <1>2, Zenon DEF Panic, ServiceTypeOK
<1>4. ~(Period(now) <= synced[s] + Backward)
  BY <1>2, <1>3, LatestThere, Zenon DEF Panic
<1> QED BY <1>4, Clock, RotatorAssumption DEF Inv, TypeOK

\* The client starts without a cookie and every listener is alive.
LEMMA ServiceTypeInit == ServiceInit => ServiceTypeOK
BY Zenon DEF ServiceInit, ServiceTypeOK

\* make_cookie seals a tag of the cache.
LEMMA CookieType ==
  ASSUME TypeOK, NEW s \in Servers, cache[s][latest[s]] # None
  PROVE  MakeCookie(s) \in Cookies
BY DEF TypeOK, MakeCookie, Cookies

\* Every step of the service keeps its types.
LEMMA ServiceTypeNext ==
  ASSUME TypeOK, ServiceTypeOK, [ServiceNext]_allVars
  PROVE  ServiceTypeOK'
<1>1. CASE RotatorStep
  BY <1>1, Zenon DEF RotatorStep, ServiceTypeOK
<1>2. CASE KeResponse
  BY <1>2, CookieType, ServiceAssumption, Zenon DEF KeResponse, Panic, ServiceTypeOK
<1>3. CASE \E authentic \in BOOLEAN : NtpResponse(authentic)
  BY <1>3, CookieType, ServiceAssumption, Zenon DEF NtpResponse, Panic, ServiceTypeOK
<1>4. CASE UNCHANGED allVars
  BY <1>4, Zenon DEF allVars, serviceVars, ServiceTypeOK
<1> QED BY <1>1, <1>2, <1>3, <1>4, Zenon DEF ServiceNext

\* ServiceTypeCorrect: the types of the service are kept.
THEOREM ServiceTypeCorrect == ServiceSpec => []ServiceTypeOK
<1>1. ServiceInit => Inv /\ ServiceTypeOK
  BY InitInv, ServiceTypeInit, Zenon DEF ServiceInit
<1>2. Inv => TypeOK
  BY Zenon DEF Inv
<1>3. Inv /\ ServiceTypeOK /\ [ServiceNext]_allVars => (Inv /\ ServiceTypeOK)'
  BY <1>2, ServiceInv, ServiceTypeNext, Zenon
<1> QED BY <1>1, <1>3, PTL DEF ServiceSpec

\* PanicsOnlyAfterOutage: for every length of a period and of the window, and
\* whatever memcached does, the unwrap of latest_key_value() takes a listening
\* thread down only when no rotate() of the process has succeeded for more than
\* Backward periods.
THEOREM PanicsOnlyAfterOutage == ServiceSpec => PanicOnlyAfterOutage
<1>1. ServiceInit => Inv /\ ServiceTypeOK
  BY InitInv, ServiceTypeInit, Zenon DEF ServiceInit
<1>2. Inv => TypeOK
  BY Zenon DEF Inv
<1>3. Inv /\ ServiceTypeOK /\ [ServiceNext]_allVars => (Inv /\ ServiceTypeOK)'
  BY <1>2, ServiceInv, ServiceTypeNext, Zenon
<1>4. Inv /\ ServiceTypeOK /\ [ServiceNext]_allVars
        => [\A s \in Servers : alive[s] /\ ~alive'[s] =>
              Period(now) > synced[s] + Backward]_allVars
  BY PanicStep, Zenon
<1> QED BY <1>1, <1>3, <1>4, PTL DEF ServiceSpec, PanicOnlyAfterOutage

-----------------------------------------------------------------------------
(***************************************************************************)
(* Cookies.  A cookie is opened with the very tag it was sealed with, so   *)
(* the period of a key is not enough: the two rotators must have read the  *)
(* same bytes for it.                                                      *)
(***************************************************************************)

\* No key id has been used for two periods that can still be cached: every
\* rotation dropped its period, or the deployment is younger than 2^32 seconds.
NoIdReused ==
  \/ /\ \A s \in Servers : ~skipped[s]
     /\ (Backward + Forward + 2) * Duration + 2 * MaxLate <= KeyIdSpace
  \/ now + (Backward + Forward + 1) * Duration <= StartTime + KeyIdSpace

\* Any two keys that serving processes hold are less than 2^32 seconds apart.
LEMMA KeysClose ==
  ASSUME Inv, KeyRangeInv, NoIdReused,
         NEW s \in Servers, Serving(s), NEW p \in Int, p >= Period(StartTime) - Backward,
         ~skipped[s] => p >= current[s] - Backward,
         NEW t \in Servers, NEW q \in Int, q <= current[t] + Forward
  PROVE  Epoch(q) - Epoch(p) < KeyIdSpace
<1>1. /\ current[s] \in Nat /\ current[t] \in Nat /\ current[t] <= Period(now)
      /\ now \in Nat /\ wake[s] \in Nat /\ StartTime \in Nat /\ MaxLate \in Nat
      /\ Forward \in Nat /\ Backward \in Nat /\ Duration \in Nat /\ KeyIdSpace \in Nat
      /\ Period(now) \in Nat /\ Period(StartTime) \in Nat
      /\ Forward \in Int /\ Backward \in Int
  BY Clock, PeriodBounds, RotatorAssumption DEF Inv, TypeOK, TimeInv
<1>2. Epoch(Forward) \in Int /\ Epoch(Backward) \in Int
  BY <1>1, EpochType, Zenon
<1>3. Epoch(p) \in Int /\ Epoch(q) \in Int
  BY EpochType, Zenon
\* The newest key is one of the period that the other server is in.
<1>4. Epoch(q) <= now + Epoch(Forward)
  <2>1. ~(Period(now) + Forward < q)
    BY <1>1
  <2>2. ~(Epoch(Period(now) + Forward) < Epoch(q))
    BY <1>1, <2>1, EpochOrder
  <2>3. Epoch(Period(now) + Forward) = Epoch(Period(now)) + Epoch(Forward)
    BY ONLY <1>1 DEF Epoch
  <2>4. Epoch(Period(now)) \in Int /\ Epoch(Period(now)) <= now
    BY <1>1, EpochType, PeriodBounds
  <2> QED BY ONLY <1>1, <1>2, <1>3, <2>2, <2>3, <2>4
<1>5. ASSUME NEW c \in Nat, p >= c - Backward
      PROVE  Epoch(p) >= Epoch(c) - Epoch(Backward) /\ Epoch(c) \in Int
  <2>1. ~(p < c - Backward)
    BY <1>1, <1>5
  <2>2. ~(Epoch(p) < Epoch(c - Backward))
    BY <1>1, <1>5, <2>1, EpochOrder
  <2>3. Epoch(c - Backward) = Epoch(c) - Epoch(Backward) /\ Epoch(c) \in Int
    BY ONLY <1>1, <1>5 DEF Epoch
  <2> QED BY ONLY <1>2, <1>3, <2>2, <2>3
<1>6. CASE /\ ~skipped[s]
           /\ (Backward + Forward + 2) * Duration + 2 * MaxLate <= KeyIdSpace
  <2>1. Epoch(p) >= Epoch(current[s]) - Epoch(Backward) /\ Epoch(current[s]) \in Int
    BY <1>1, <1>5, <1>6, Zenon
  <2>2. /\ now <= wake[s] + MaxLate
        /\ wake[s] < Epoch(current[s] + 1) + MaxLate + Duration
    BY Zenon DEF Inv, TimeInv, Serving
  <2>3. Epoch(current[s] + 1) = Epoch(current[s]) + Duration
    BY ONLY <1>1 DEF Epoch
  <2>4. Epoch(Backward) + Epoch(Forward) + 2 * Duration + 2 * MaxLate <= KeyIdSpace
    BY ONLY <1>1, <1>6 DEF Epoch
  <2> QED BY ONLY <1>1, <1>2, <1>3, <1>4, <2>1, <2>2, <2>3, <2>4
<1>7. CASE now + (Backward + Forward + 1) * Duration <= StartTime + KeyIdSpace
  <2> DEFINE first == Period(StartTime)
  <2>1. Epoch(p) >= Epoch(first) - Epoch(Backward) /\ Epoch(first) \in Int
    BY <1>1, <1>5, Zenon
  <2>2. StartTime < Epoch(first) + Duration
    <3>1. StartTime < Epoch(Period(StartTime) + 1)
      BY <1>1, PeriodBounds, Zenon
    <3> QED BY ONLY <1>1, <3>1 DEF Epoch
  <2>3. now + Epoch(Backward) + Epoch(Forward) + Duration <= StartTime + KeyIdSpace
    BY ONLY <1>1, <1>7 DEF Epoch
  <2> HIDE DEF first
  <2> QED BY ONLY <1>1, <1>2, <1>3, <1>4, <2>1, <2>2, <2>3
<1> QED BY <1>6, <1>7, Zenon DEF NoIdReused

\* The value of a period when the script's only run wrote the periods up to
\* last: one of the script's up to there, one of the hourly writer's after it.
Genuine(last, value) == value.gen = IF value.period <= last THEN 1 ELSE 0

\* Before the script has run there is no key anywhere.
NothingYet ==
  fills = 0 =>
    /\ fill = None
    /\ cookie = None
    /\ \A p \in Periods : memcached[p] = None
    /\ \A s \in Servers : cache[s] = EmptyCache

\* Wherever a value is found, in memcached, in a cache or in a cookie, it is
\* the one value its period ever gets: the hourly writer never comes to a
\* period of the script, because memcached evicts no period that is not over.
OneValueUpTo(last) ==
  /\ \A p \in Periods : memcached[p] # None => Genuine(last, memcached[p])
  /\ \A s \in Servers, k \in KeyIds :
       cache[s][k] # None => Genuine(last, cache[s][k].value)
  /\ cookie # None => Genuine(last, cookie.tag.value)
  /\ fill # None => fills = 1 /\ last = fill.base + FillAhead - 1
  /\ fill = None /\ fills > 0 =>
       /\ last <= Period(now) + FillAhead - 1
       /\ last >= Period(now) => last \in Periods /\ memcached[last] # None

OneValue == \E last \in Int : OneValueUpTo(last)

\* While it is fresh, a cookie carries the key of the period it was minted in.
CookieInv ==
  cookie # None =>
    /\ cookie.minted <= Period(now)
    /\ Period(now) <= cookie.minted + Backward =>
         /\ cookie.id = KeyIdOf(cookie.minted)
         /\ cookie.tag.value.period = cookie.minted

\* A server that makes a cookie has a latest key to seal it with.
LEMMA CookieSteps ==
  ASSUME Inv, ServiceNext
  PROVE  \/ Next /\ cookie' = cookie
         \/ /\ UNCHANGED vars
            /\ \/ cookie' = cookie
               \/ \E s \in Servers : /\ Serving(s)
                                     /\ cache[s][latest[s]] # None
                                     /\ cookie' = MakeCookie(s)
<1>1. CASE RotatorStep
  BY <1>1, Zenon DEF RotatorStep
<1>2. CASE KeResponse
  BY <1>2, ServiceAssumption, Zenon DEF KeResponse, Panic
<1>3. CASE \E authentic \in BOOLEAN : NtpResponse(authentic)
  BY <1>3, ServiceAssumption, Zenon DEF NtpResponse, Panic
<1> QED BY <1>1, <1>2, <1>3, Zenon DEF ServiceNext

\* Before the script's first write nothing can be read, cached or sealed.
LEMMA NothingYetNext ==
  ASSUME Inv, NothingYet, [ServiceNext]_allVars
  PROVE  NothingYet'
<1> SUFFICES ASSUME fills' = 0
             PROVE  /\ fill' = None
                    /\ cookie' = None
                    /\ \A p \in Periods : memcached'[p] = None
                    /\ \A s \in Servers : cache'[s] = EmptyCache
  BY Zenon DEF NothingYet
<1>0. fills \in Nat /\ cache' \in [Servers -> [KeyIds -> Tags \cup {None}]]
      /\ \A s \in Servers : latest[s] \in KeyIds
  BY ServiceInv, RotatorAssumption DEF Inv, TypeOK
<1>1. CASE UNCHANGED vars /\ ServiceNext
  <2>1. \A s \in Servers : cache[s][latest[s]] = None
    BY <1>0, <1>1 DEF vars, storeVars, NothingYet, EmptyCache
  <2>2. cookie' = cookie
    BY <1>1, <2>1, CookieSteps, Zenon
  <2> QED BY <1>1, <2>2, Zenon DEF vars, storeVars, procVars, NothingYet
<1>2. CASE Next /\ cookie' = cookie
  <2>1. CASE Tick
    BY <1>2, <2>1, Zenon DEF Tick, storeVars, procVars, NothingYet
  <2>2. CASE Store
    <3>1. ~FillBegin /\ ~Publish /\ fills = 0 /\ ~FillSet
      BY <1>0, <2>2 DEF FillBegin, Publish, Store, FillSet, Evict, NothingYet
    <3>2. PICK p \in Periods : Evict(p)
      BY <2>2, <3>1, Zenon DEF Store
    <3> QED BY <3>1, <3>2, Zenon DEF Evict, NothingYet
  <2>3. ASSUME NEW u \in Servers, Process(u) PROVE NothingYet'
    <3>1. UNCHANGED storeVars
      BY <2>3, Zenon DEF Process, Start, Crash, Rotate, RotateBegin, RotateHit, RotateMiss,
                  RotateEnd, RotateErr
    <3>2. fills = 0 /\ NothingYet
      BY <3>1, Zenon DEF storeVars
    <3>3. ASSUME NEW s \in Servers PROVE cache'[s] = EmptyCache
      <4>1. \A k \in KeyIds : cache'[s][k] = None
        BY <2>3, <3>2, TagsComeFromStore, ZenonT(60) DEF NothingYet, EmptyCache
      <4> QED BY <1>0, <4>1, Zenon DEF EmptyCache
    <3> QED BY <1>2, <3>1, <3>2, <3>3, Zenon DEF NothingYet, storeVars
  <2> QED BY <1>2, <2>1, <2>2, <2>3, Zenon DEF Next, NothingYet
<1>3. CASE UNCHANGED allVars
  BY <1>3, Zenon DEF allVars, vars, storeVars, procVars, serviceVars, NothingYet
<1> QED BY <1>1, <1>2, <1>3, CookieSteps, Zenon

\* A step of the store, of the clock or of a rotator leaves one value for a
\* period, if the script is run once at most.
LEMMA OneValueNext ==
  ASSUME MaxFills <= 1, Inv, NothingYet, ServiceTypeOK, OneValue,
         Next, cookie' = cookie
  PROVE  OneValue'
<1>0. PICK last \in Int : OneValueUpTo(last)
  BY Zenon DEF OneValue
<1>1. /\ Period(now) \in Nat /\ Period(MaxTime) \in Nat
      /\ Period(now) <= Period(MaxTime)
  BY Clock, Zenon DEF Inv
<1>2. CASE Tick
  <2>1. Period(now') \in Nat /\ Period(now) <= Period(now')
    BY <1>2, Clock, PeriodBounds, PeriodOrder DEF Tick, Inv, TypeOK
  <2>2. UNCHANGED <<memcached, fills, fill, cache, cookie>>
    BY <1>2, Zenon DEF Tick, storeVars, procVars
  <2>3. last <= Period(now) + FillAhead - 1 => last <= Period(now') + FillAhead - 1
    BY <1>1, <2>1, RotatorAssumption
  <2>4. last >= Period(now') => last >= Period(now)
    BY <1>1, <2>1
  <2>5. OneValueUpTo(last)'
    BY ONLY <1>0, <2>2, <2>3, <2>4, Zenon DEF OneValueUpTo, Genuine
  <2> QED BY <2>5, Zenon DEF OneValue
<1>3. CASE FillBegin
  <2>1. fill' = [base |-> Period(now), next |-> -FillBack] /\ fill' # None
    BY <1>1, <1>3, NoneAssumption, RotatorAssumption DEF FillBegin
  <2>2. fills = 0 /\ fills' = 1
    BY <1>3, RotatorAssumption DEF FillBegin, Inv, TypeOK
  <2>3. /\ \A p \in Periods : memcached'[p] = None
        /\ \A s \in Servers, k \in KeyIds : cache'[s][k] = None
        /\ cookie' = None
    BY <1>3, <2>2, Zenon DEF FillBegin, procVars, NothingYet, EmptyCache
  <2>4. OneValueUpTo(Period(now) + FillAhead - 1)'
    BY <1>3, <2>1, <2>2, <2>3 DEF FillBegin, OneValueUpTo
  <2>5. Period(now) + FillAhead - 1 \in Int
    BY <1>1, RotatorAssumption
  <2> QED BY <1>3, <2>4, <2>5, Zenon DEF FillBegin, OneValue
<1>4. CASE FillSet
  <2> DEFINE p == fill.base + fill.next
  <2>1. /\ fill \in [base : Nat, next : -FillBack .. FillAhead - 1]
        /\ fill.base <= Period(now)
        /\ fills = 1 /\ last = fill.base + FillAhead - 1
    BY <1>0, <1>4, Zenon DEF FillSet, Inv, TypeOK, StoreInv, OneValueUpTo
  <2>2. p \in Periods /\ p <= last
    BY <1>1, <2>1, RotatorAssumption DEF Periods
  <2>3. memcached' = [memcached EXCEPT ![p] = [gen |-> 1, period |-> p]]
    BY <1>4, <2>1, Zenon DEF FillSet
  <2>4. memcached \in [Periods -> Values \cup {None}] /\ UNCHANGED <<now, fills, procVars>>
    BY <1>4, Zenon DEF FillSet, Inv, TypeOK
  <2>5. [gen |-> 1, period |-> p] \in Values
    BY <2>1, <2>2, RotatorAssumption, Zenon DEF Values, Inv, TypeOK
  <2>6. memcached'[p] # None /\ Genuine(last, memcached'[p])
    BY <2>2, <2>3, <2>4, <2>5, NoneAssumption, Zenon DEF Genuine
  <2>7. \A q \in Periods : memcached'[q] # None => Genuine(last, memcached'[q])
    BY <1>0, <2>3, <2>4, <2>6, Zenon DEF OneValueUpTo
  <2>8. /\ fill' # None => fill'.base = fill.base
        /\ fill' = None => p = last
    BY <1>4, <2>1, NoneAssumption, RotatorAssumption DEF FillSet
  <2>9. OneValueUpTo(last)'
    <3> HIDE DEF p
    <3>1. last <= Period(now) + FillAhead - 1
      BY <1>1, <2>1, RotatorAssumption
    <3> QED BY <1>0, <2>1, <2>2, <2>4, <2>6, <2>7, <2>8, <3>1, Zenon DEF OneValueUpTo, procVars
  <2> QED BY <2>9, Zenon DEF OneValue
<1>5. CASE Publish
  <2> DEFINE p == Period(now) + FillAhead - 1
  <2>1. /\ fill = None /\ fills > 0 /\ memcached[p] = None
        /\ memcached' = [memcached EXCEPT ![p] = [gen |-> 0, period |-> p]]
        /\ UNCHANGED <<now, fills, fill, procVars>>
    BY <1>5, Zenon DEF Publish
  <2>2. p \in Periods /\ p >= Period(now) /\ p \in Int
    BY <1>1, RotatorAssumption DEF Periods
  <2>3. p > last
    BY <1>0, <1>1, <2>1, <2>2 DEF OneValueUpTo
  <2>4. memcached \in [Periods -> Values \cup {None}]
    BY Zenon DEF Inv, TypeOK
  <2>5. Genuine(last, [gen |-> 0, period |-> p])
    BY <2>2, <2>3 DEF Genuine
  <2>6. /\ \A q \in Periods : memcached'[q] # None => Genuine(last, memcached'[q])
        /\ last \in Periods => memcached'[last] = memcached[last]
    <3> HIDE DEF p
    <3> QED BY <1>0, <2>1, <2>2, <2>3, <2>4, <2>5, Zenon DEF OneValueUpTo
  <2>7. OneValueUpTo(last)'
    <3> HIDE DEF p
    <3> QED BY <1>0, <2>1, <2>6, Zenon DEF OneValueUpTo, procVars
  <2> QED BY <2>7, Zenon DEF OneValue
<1>6. ASSUME NEW p \in Periods, Evict(p) PROVE OneValue'
  <2>1. /\ p < Period(now) /\ p \in Int
        /\ memcached' = [memcached EXCEPT ![p] = None]
        /\ UNCHANGED <<now, fills, fill, procVars>>
    BY <1>1, <1>6, RotatorAssumption DEF Evict, Periods
  <2>2. memcached \in [Periods -> Values \cup {None}]
    BY Zenon DEF Inv, TypeOK
  <2>3. /\ \A q \in Periods : memcached'[q] # None => memcached'[q] = memcached[q]
        /\ last \in Periods /\ last >= Period(now) => memcached'[last] = memcached[last]
    BY <1>1, <2>1, <2>2
  <2>4. OneValueUpTo(last)'
    BY <1>0, <2>1, <2>3, Zenon DEF OneValueUpTo, procVars
  <2> QED BY <2>4, Zenon DEF OneValue
<1>7. ASSUME NEW u \in Servers, Process(u) PROVE OneValue'
  <2>1. UNCHANGED <<now, memcached, fills, fill>>
    BY <1>7, Zenon DEF Process, Start, Crash, Rotate, RotateBegin, RotateHit, RotateMiss,
                RotateEnd, RotateErr, storeVars
  <2>2. ASSUME NEW s \in Servers, NEW k \in KeyIds, cache'[s][k] # None
        PROVE  Genuine(last, cache'[s][k].value)
    <3>1. CASE cache'[s][k] = cache[s][k]
      BY <1>0, <2>2, <3>1, Zenon DEF OneValueUpTo
    <3>2. ASSUME NEW p \in Periods, memcached[p] # None,
                 cache'[s][k] = Sign(MasterKey[s], memcached[p])
          PROVE  Genuine(last, cache'[s][k].value)
      BY <1>0, <3>2 DEF OneValueUpTo, Sign
    <3> QED BY <1>7, <2>2, <3>1, <3>2, TagsComeFromStore, Zenon
  <2>3. OneValueUpTo(last)'
    BY <1>0, <2>1, <2>2, Zenon DEF OneValueUpTo
  <2> QED BY <2>3, Zenon DEF OneValue
<1> QED BY <1>2, <1>3, <1>4, <1>5, <1>6, <1>7, Zenon DEF Next, Store

\* A cookie carries a tag of the cache it was made from.
LEMMA OneValueService ==
  ASSUME MaxFills <= 1, Inv, NothingYet, ServiceTypeOK, OneValue,
         [ServiceNext]_allVars
  PROVE  OneValue'
<1>1. CASE Next /\ cookie' = cookie
  BY <1>1, OneValueNext, Zenon
<1>2. CASE UNCHANGED vars /\ cookie' = cookie
  BY <1>2, Zenon DEF vars, storeVars, procVars, OneValue, OneValueUpTo
<1>3. ASSUME UNCHANGED vars, NEW s \in Servers, cache[s][latest[s]] # None,
             cookie' = MakeCookie(s)
      PROVE  OneValue'
  <2>1. PICK last \in Int : OneValueUpTo(last)
    BY Zenon DEF OneValue
  <2>2. latest[s] \in KeyIds
    BY Zenon DEF Inv, TypeOK
  <2>3. Genuine(last, cookie'.tag.value)
    BY <1>3, <2>1, <2>2, Zenon DEF OneValueUpTo, MakeCookie
  <2>4. OneValueUpTo(last)'
    BY <1>3, <2>1, <2>3, Zenon DEF vars, storeVars, procVars, OneValueUpTo
  <2> QED BY <2>4, Zenon DEF OneValue
<1> QED BY <1>1, <1>2, <1>3, CookieSteps, Zenon DEF allVars, serviceVars

\* A cookie made long after the last success of rotate() is never fresh.
LEMMA CookieNext ==
  ASSUME Inv, ServiceTypeOK, CookieInv, [ServiceNext]_allVars
  PROVE  CookieInv'
<1>1. Inv' /\ Period(now) \in Nat /\ Period(now') \in Nat /\ Backward \in Nat
  <2>1. Inv' /\ now' \in Nat
    BY ServiceInv, RotatorAssumption DEF Inv, TypeOK
  <2> QED BY <2>1, Clock, PeriodBounds, RotatorAssumption, Zenon DEF Inv
<1>2. CASE cookie' = cookie /\ [Next]_vars
  <2>1. Period(now) <= Period(now')
    <3>1. now \in Nat /\ now' \in Nat /\ now <= now'
      <4>1. now' = now \/ now' = now + 1
        BY <1>2, Zenon DEF Next, Tick, Store, FillBegin, FillSet, Publish, Evict, Process,
                    Start, Crash, Rotate, RotateBegin, RotateHit, RotateMiss,
                    RotateEnd, RotateErr, vars
      <4> QED BY <1>1, <4>1, RotatorAssumption DEF Inv, TypeOK
    <3> QED BY <3>1, PeriodOrder, Zenon
  <2>2. cookie # None => cookie.minted \in Nat
    BY Zenon DEF ServiceTypeOK, Cookies
  <2> QED BY ONLY <1>1, <1>2, <2>1, <2>2, CookieInv DEF CookieInv, KeyIdOf, Epoch
<1>3. ASSUME UNCHANGED vars, NEW s \in Servers, Serving(s), cookie' = MakeCookie(s)
      PROVE  CookieInv'
  <2>1. /\ cookie'.id = latest[s] /\ cookie'.minted = synced[s]
        /\ cookie'.tag = cache[s][latest[s]]
    BY <1>3, Zenon DEF MakeCookie
  <2>2. synced[s] \in Nat /\ synced[s] <= Period(now) /\ now' = now
    BY <1>3, Zenon DEF Inv, TypeOK, TimeInv, vars
  <2>3. ASSUME Period(now) <= synced[s] + Backward
        PROVE  latest[s] = KeyIdOf(synced[s]) /\ Holds(s, synced[s])
    <3>1. Running(s)
      BY <1>3, Zenon DEF Serving, Running
    <3>2. synced[s] \in Period(now) - Backward .. synced[s] + Forward
      BY <1>1, <2>2, <2>3, RotatorAssumption
    <3> QED BY <3>1, <3>2, Zenon DEF Inv, LatestInv, WindowCached
  <2> QED BY <2>1, <2>2, <2>3, Zenon DEF CookieInv, Holds
<1>4. CASE UNCHANGED vars /\ cookie' = cookie
  BY <1>2, <1>4, Zenon
<1> QED BY <1>2, <1>3, <1>4, CookieSteps, Zenon DEF allVars, serviceVars

\* A tag is its key, its generation and its period.
LEMMA SameTag ==
  ASSUME NEW a \in Tags, NEW b \in Tags, a.key = b.key,
         a.value.gen = b.value.gen, a.value.period = b.value.period
  PROVE  a = b
<1>1. a.value = b.value
  BY DEF Tags, Values
<1> QED BY <1>1 DEF Tags

\* The answer to an authentic query with a fresh cookie.
LEMMA FreshCookieStep ==
  ASSUME MasterKey[Ke] = MasterKey[Ntp], Inv, ServiceTypeOK, SyncedInv, OneValue,
         CookieInv, NtpResponse(TRUE), Period(now) <= cookie.minted + Backward,
         synced[Ntp] = current[Ntp]
  PROVE  answer' = "time"
<1>1. /\ Ntp \in Servers /\ Serving(Ntp) /\ Running(Ntp)
      /\ cookie # None /\ cookie \in Cookies
  BY ServiceAssumption, Zenon DEF NtpResponse, Serving, Running, ServiceTypeOK
<1>2. /\ cookie.minted \in Nat /\ cookie.tag \in Tags
      /\ cookie.minted <= Period(now)
      /\ cookie.id = KeyIdOf(cookie.minted)
      /\ cookie.tag.value.period = cookie.minted
  BY <1>1, Zenon DEF Cookies, CookieInv
<1>3. Period(now) \in Nat /\ synced[Ntp] \in Nat
  BY <1>1, Clock, Zenon DEF Inv, TypeOK
\* The NTP server holds the key of the cookie's period ...
<1>4. Period(now) <= synced[Ntp] + Forward
  BY <1>1, LagCovered, Zenon
<1>5. Holds(Ntp, cookie.minted)
  <2>1. cookie.minted \in Period(now) - Backward .. synced[Ntp] + Forward
    BY <1>2, <1>3, <1>4, RotatorAssumption
  <2> QED BY <1>1, <2>1, Zenon DEF Inv, WindowCached
\* ... and that key is the one of the cookie, byte for byte.
<1>6. Opens(Ntp, cookie)
  <2> DEFINE tag == cache[Ntp][cookie.id]
  <2>1. /\ tag # None /\ tag \in Tags /\ cookie.id \in KeyIds
        /\ tag.key = MasterKey[Ntp] /\ tag.value.period = cookie.minted
    <3>1. tag # None /\ tag.key = MasterKey[Ntp] /\ tag.value.period = cookie.minted
      BY <1>2, <1>5, Zenon DEF Holds
    <3>2. cookie.id \in KeyIds
      BY <1>1, Zenon DEF Cookies
    <3>3. cache[Ntp] \in [KeyIds -> Tags \cup {None}]
      BY <1>1, Zenon DEF Inv, TypeOK
    <3> QED BY <3>1, <3>2, <3>3, Zenon
  <2>2. PICK last \in Int : OneValueUpTo(last)
    BY Zenon DEF OneValue
  <2>3. tag.value.gen = cookie.tag.value.gen
    BY <1>1, <1>2, <2>1, <2>2, Zenon DEF OneValueUpTo, Genuine
  <2>4. cookie.tag.key = MasterKey[Ntp]
    BY <1>2, ServiceAssumption, Zenon DEF Tags
  <2>5. tag = cookie.tag
    <3> HIDE DEF tag
    <3> QED BY ONLY <1>2, <2>1, <2>3, <2>4, SameTag, Zenon
  <2> QED BY <2>1, <2>5, Zenon DEF Opens
\* There is a latest key to seal the next cookie with.
<1>7. cache[Ntp][latest[Ntp]] # None
  BY <1>1, Zenon DEF SyncedInv, Inv, LatestInv, Holds
<1> QED BY <1>6, <1>7, Zenon DEF NtpResponse, Panic

\* The inductive invariant of the cookies.
ServiceInvariant ==
  /\ Inv
  /\ ServiceTypeOK
  /\ SyncedInv
  /\ NothingYet
  /\ OneValue
  /\ CookieInv

\* At first there is neither a key nor a cookie.
LEMMA ServiceInvariantInit == ServiceInit => ServiceInvariant
<1> SUFFICES ASSUME ServiceInit PROVE ServiceInvariant
  BY Zenon
<1>1. Inv /\ ServiceTypeOK
  BY InitInv, ServiceTypeInit, Zenon DEF ServiceInit
<1>2. SyncedInv /\ NothingYet /\ CookieInv
  BY Zenon DEF ServiceInit, Init, SyncedInv, Running, NothingYet, CookieInv
<1>3. OneValueUpTo(0)
  BY DEF ServiceInit, Init, OneValueUpTo, EmptyCache
<1> QED BY <1>1, <1>2, <1>3 DEF ServiceInvariant, OneValue

\* Every step of the service keeps it, if the script runs once.
LEMMA ServiceInvariantNext ==
  ASSUME MaxFills <= 1, ServiceInvariant, [ServiceNext]_allVars
  PROVE  ServiceInvariant'
<1>1. [Next]_vars
  BY CookieSteps, Zenon DEF ServiceInvariant, allVars
<1>2. Inv' /\ ServiceTypeOK'
  BY ServiceInv, ServiceTypeNext, Zenon DEF ServiceInvariant, Inv
<1>3. SyncedInv'
  BY <1>1, SyncedNext, Zenon DEF ServiceInvariant
<1>4. NothingYet' /\ OneValue' /\ CookieInv'
  BY NothingYetNext, OneValueService, CookieNext, Zenon DEF ServiceInvariant
<1> QED BY <1>2, <1>3, <1>4, Zenon DEF ServiceInvariant

\* FreshCookiesGetTime: for every length of a period and of the window, two
\* servers with the same cookie key file and one run of the script: an authentic
\* query with a cookie at most Backward periods old gets the time from an NTP
\* server whose last rotate() succeeded.
THEOREM FreshCookiesGetTime ==
  ASSUME MaxFills <= 1, MasterKey[Ke] = MasterKey[Ntp]
  PROVE  ServiceSpec => FreshCookieGetsTime
<1>1. ServiceInvariant /\ [ServiceNext]_allVars => ServiceInvariant'
  BY ServiceInvariantNext, Zenon
<1>2. ServiceInvariant
        => [ /\ NtpResponse(TRUE)
             /\ Period(now) <= cookie.minted + Backward
             /\ synced[Ntp] = current[Ntp]
             => answer' = "time" ]_allVars
  BY FreshCookieStep, Zenon DEF ServiceInvariant
<1> QED BY <1>1, <1>2, ServiceInvariantInit, PTL DEF ServiceSpec, FreshCookieGetsTime

\* Under one key id two serving processes hold the same bytes.
LEMMA SameKey ==
  ASSUME ServiceInvariant, KeyRangeInv, NoIdReused
  PROVE  KeysAgree
<1> SUFFICES ASSUME NEW s \in Servers, NEW t \in Servers, Serving(s), Serving(t),
                    MasterKey[s] = MasterKey[t], NEW k \in KeyIds,
                    cache[s][k] # None, cache[t][k] # None
             PROVE  cache[s][k] = cache[t][k]
  BY DEF KeysAgree
<1> DEFINE p == cache[s][k].value.period
           q == cache[t][k].value.period
<1>1. /\ cache[s][k] \in Tags /\ cache[t][k] \in Tags
      /\ KeyIdOf(p) = k /\ KeyIdOf(q) = k
      /\ cache[s][k].key = MasterKey[s] /\ cache[t][k].key = MasterKey[t]
  BY DEF ServiceInvariant, Inv, TypeOK, SlotInv
<1>2. /\ p \in Int /\ p >= Period(StartTime) - Backward /\ p <= current[s] + Forward
      /\ q \in Int /\ q >= Period(StartTime) - Backward /\ q <= current[t] + Forward
  BY DEF KeyRangeInv
<1>3. /\ ~skipped[s] => p >= current[s] - Backward
      /\ ~skipped[t] => q >= current[t] - Backward
  BY Zenon DEF ServiceInvariant, Inv, StaleInv
<1>4. Epoch(q) - Epoch(p) < KeyIdSpace /\ Epoch(p) - Epoch(q) < KeyIdSpace
  BY <1>2, <1>3, KeysClose, Zenon DEF ServiceInvariant
<1>5. p = q
  <2> HIDE DEF p, q
  <2>1. ~(p < q)
    BY <1>1, <1>2, <1>4, KeyIdDistinct, Zenon
  <2>2. ~(q < p)
    BY <1>1, <1>2, <1>4, KeyIdDistinct, Zenon
  <2> QED BY ONLY <1>2, <2>1, <2>2
<1>6. PICK last \in Int : OneValueUpTo(last)
  BY Zenon DEF ServiceInvariant, OneValue
<1>7. cache[s][k].value.gen = cache[t][k].value.gen
  BY <1>5, <1>6 DEF OneValueUpTo, Genuine
<1>8. ASSUME NEW x \in Tags, NEW y \in Tags, x.key = y.key, x.value.period = y.value.period,
             x.value.gen = y.value.gen
      PROVE  x = y
  <2>1. x.value \in Values /\ y.value \in Values
    BY ONLY x \in Tags, y \in Tags DEF Tags
  <2>2. x.value = y.value
    BY ONLY <1>8, <2>1 DEF Values
  <2> HIDE DEF Values
  <2> QED BY ONLY <1>8, <2>2, x \in Tags, y \in Tags DEF Tags
<1> QED BY ONLY <1>1, <1>5, <1>7, <1>8, MasterKey[s] = MasterKey[t], Zenon

\* KeysAlwaysAgree: memcached keeps the two servers in step.  With one run of
\* the script, the rotators never hold different keys under one id, whatever
\* calls failed, until an id comes back that a late rotation left behind.
THEOREM KeysAlwaysAgree ==
  ASSUME MaxFills <= 1
  PROVE  ServiceSpec => [](NoIdReused => KeysAgree)
<1>1. ServiceInit => ServiceInvariant /\ KeyRangeInv
  BY ServiceInvariantInit DEF ServiceInit, Init, KeyRangeInv, EmptyCache
<1>2. ServiceInvariant /\ KeyRangeInv /\ [ServiceNext]_allVars
        => (ServiceInvariant /\ KeyRangeInv)'
  <2> SUFFICES ASSUME ServiceInvariant, KeyRangeInv, [ServiceNext]_allVars
               PROVE  (ServiceInvariant /\ KeyRangeInv)'
    BY Zenon
  <2>1. [Next]_vars
    BY CookieSteps, Zenon DEF ServiceInvariant, allVars
  <2> QED BY <2>1, ServiceInvariantNext, KeyRangeNext, Zenon DEF ServiceInvariant
<1>3. ServiceInvariant /\ KeyRangeInv => (NoIdReused => KeysAgree)
  BY SameKey, Zenon
<1> QED BY <1>1, <1>2, <1>3, PTL DEF ServiceSpec

=============================================================================
