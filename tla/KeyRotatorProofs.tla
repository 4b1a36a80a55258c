-------------------------- MODULE KeyRotatorProofs --------------------------
(***************************************************************************)
(* The invariants of KeyRotator, for every number of servers, every        *)
(* duration and window, and every clock: the arithmetic of periods and key *)
(* ids, the inductive invariant Inv, one lemma for each step of a rotating *)
(* thread, and what follows from Inv.                                      *)
(***************************************************************************)
EXTENDS KeyRotator, TLAPS

\* What memcached stores under a period was written for that period.
StoreInv ==
  /\ \A p \in Periods : memcached[p] # None => memcached[p].period = p
  /\ fill # None => fill.base <= Period(now)

\* Where the clock can be relative to the last call of rotate().
TimeInv ==
  \A s \in Servers :
    /\ current[s] <= Period(now)
    /\ synced[s] <= Period(now)
    /\ pc[s] # "down" => now <= wake[s] + MaxLate
    /\ pc[s] = "rotating" => wake[s] < Epoch(current[s] + 1)
    /\ Serving(s) =>
         wake[s] < Epoch(current[s] + 1) + MaxLate + Duration

\* A tag is cached under the key id of its period and signed with the key of
\* its process; a process without a call of rotate() behind it has no tag.
SlotInv ==
  \A s \in Servers :
    /\ \A k \in KeyIds : cache[s][k] # None =>
         /\ k = KeyIdOf(cache[s][k].value.period)
         /\ cache[s][k].key = MasterKey[s]
    /\ pc[s] = "down" \/ current[s] = 0 => cache[s] = EmptyCache

\* The call in progress holds what its loop has gone through.
CallInv ==
  \A s \in Servers : pc[s] = "rotating" =>
    /\ Backward < current[s]
    /\ cursor[s] \in current[s] - Backward .. current[s] + Forward + 1
    /\ \A p \in current[s] - Backward .. cursor[s] - 1 : Holds(s, p)

LatestInv ==
  \A s \in Servers : Running(s) => latest[s] = KeyIdOf(synced[s])

StaleInv ==
  \A s \in Servers, k \in KeyIds :
    ~skipped[s] /\ cache[s][k] # None =>
      cache[s][k].value.period >= current[s] - Backward

Inv ==
  /\ TypeOK
  /\ StoreInv
  /\ TimeInv
  /\ SlotInv
  /\ CallInv
  /\ LatestInv
  /\ WindowCached
  /\ StaleInv

-----------------------------------------------------------------------------
(* Arithmetic of periods, epochs and key ids.                              *)

\* Periods, epochs and seconds are integers.
LEMMA EpochType ==
  ASSUME NEW p \in Int
  PROVE  Epoch(p) \in Int
  BY RotatorAssumption DEF Epoch

\* Epoch is additive: a difference of periods is a difference of seconds.
LEMMA EpochSum ==
  ASSUME NEW p \in Int, NEW q \in Int
  PROVE  /\ Epoch(p) \in Int
         /\ Epoch(p + q) = Epoch(p) + Epoch(q)
         /\ Epoch(p - q) = Epoch(p) - Epoch(q)
  BY RotatorAssumption DEF Epoch

\* Epoch is strictly monotonic.
LEMMA EpochOrder ==
  ASSUME NEW p \in Int, NEW q \in Int
  PROVE  p < q <=> Epoch(p) < Epoch(q)
  BY RotatorAssumption DEF Epoch

\* A time lies in its period.
LEMMA PeriodBounds ==
  ASSUME NEW t \in Nat
  PROVE  /\ Period(t) \in Nat
         /\ Epoch(Period(t)) <= t
         /\ t < Epoch(Period(t) + 1)
  BY RotatorAssumption DEF Epoch, Period

\* Two numbers less than m apart have different residues modulo m.
LEMMA ModDistinct ==
  ASSUME NEW x \in Int, NEW y \in Int, NEW m \in Nat \ {0},
         x < y, y - x < m
  PROVE  x % m # y % m
<1> SUFFICES ASSUME x % m = y % m
             PROVE  FALSE
  BY Zenon
<1> DEFINE k == (y \div m) - (x \div m)
<1>1. /\ x = m * (x \div m) + (x % m)
      /\ y = m * (y \div m) + (y % m)
      /\ x \div m \in Int
      /\ y \div m \in Int
      /\ x % m \in Int
  OBVIOUS
<1>2. k \in Int /\ y - x = m * k
  BY <1>1
<1>3. k > 0 /\ k < 1
  <2> HIDE DEF k
  <2>1. k > 0
    <3>1. SUFFICES ASSUME k <= 0 PROVE m * k <= 0
      BY <1>2, <3>1
    <3> QED
      BY <1>2, <3>1
  <2>2. k < 1
    <3>1. SUFFICES ASSUME k >= 1 PROVE m * k >= m
      BY <1>2, <3>1
    <3> QED
      BY <1>2, <3>1
  <2> QED
    BY <2>1, <2>2, Zenon
<1> QED
  BY <1>2, <1>3

\* Periods less than 2^32 seconds apart have different key ids.
LEMMA KeyIdDistinct ==
  ASSUME NEW p \in Int, NEW q \in Int, p < q,
         Epoch(q) - Epoch(p) < KeyIdSpace
  PROVE  KeyIdOf(p) # KeyIdOf(q)
<1>1. Epoch(p) \in Int /\ Epoch(q) \in Int /\ Epoch(p) < Epoch(q)
  BY EpochSum, EpochOrder, Zenon
<1> QED
  BY <1>1, ModDistinct, RotatorAssumption, Zenon DEF KeyIdOf

\* A key id fits in 32 bits.
LEMMA KeyIdType ==
  ASSUME NEW p \in Int
  PROVE  KeyIdOf(p) \in KeyIds
<1>1. Epoch(p) \in Int
  BY EpochSum, Zenon
<1> QED
  BY <1>1, RotatorAssumption DEF KeyIdOf, KeyIds

\* A later time is in a later or the same period.
LEMMA PeriodOrder ==
  ASSUME NEW t \in Nat, NEW u \in Nat, t <= u
  PROVE  Period(t) <= Period(u)
<1>0. Epoch(Period(t)) \in Int /\ Epoch(Period(u) + 1) \in Int
  BY PeriodBounds, EpochType
<1>1. Epoch(Period(t)) < Epoch(Period(u) + 1)
  BY <1>0, PeriodBounds
<1>2. Period(t) < Period(u) + 1
  BY <1>1, PeriodBounds, EpochOrder
<1> QED
  BY <1>2, PeriodBounds

\* The keys that can be in use at one moment have different key ids.
LEMMA KeyIdsInUse ==
  ASSUME NEW p \in Int, NEW q \in Int, p # q,
         Epoch(p) - Epoch(q) < Epoch(Backward + Forward + 2) + MaxLate,
         Epoch(q) - Epoch(p) < Epoch(Backward + Forward + 2) + MaxLate
  PROVE  KeyIdOf(p) # KeyIdOf(q)
<1>1. Epoch(Backward + Forward + 2) + MaxLate < KeyIdSpace
  BY KeyIdAssumption, Zenon DEF Epoch
<1>2. /\ Epoch(p) \in Int
      /\ Epoch(q) \in Int
      /\ Epoch(Backward + Forward + 2) \in Int
  BY EpochSum, RotatorAssumption
<1>3. CASE p < q
  BY <1>1, <1>2, <1>3, KeyIdDistinct, RotatorAssumption
<1>4. CASE q < p
  BY <1>1, <1>2, <1>4, KeyIdDistinct, RotatorAssumption
<1> QED
  BY <1>3, <1>4

\* The same for periods counted in periods.
LEMMA KeyIdsInWindow ==
  ASSUME NEW p \in Int, NEW q \in Int, p # q,
         p - q <= Backward + Forward + 1,
         q - p <= Backward + Forward + 1
  PROVE  KeyIdOf(p) # KeyIdOf(q)
<1>1. /\ p - q < Backward + Forward + 2
      /\ q - p < Backward + Forward + 2
      /\ Backward + Forward + 2 \in Int
  BY RotatorAssumption
<1>2. /\ Epoch(p - q) < Epoch(Backward + Forward + 2)
      /\ Epoch(q - p) < Epoch(Backward + Forward + 2)
  BY <1>1, EpochOrder
<1>3. /\ Epoch(p - q) = Epoch(p) - Epoch(q)
      /\ Epoch(q - p) = Epoch(q) - Epoch(p)
      /\ Epoch(p) \in Int
      /\ Epoch(q) \in Int
      /\ Epoch(Backward + Forward + 2) \in Int
  BY <1>1, EpochSum, EpochType, Zenon
<1>4. /\ Epoch(p) - Epoch(q) < Epoch(Backward + Forward + 2) + MaxLate
      /\ Epoch(q) - Epoch(p) < Epoch(Backward + Forward + 2) + MaxLate
  BY <1>2, <1>3, RotatorAssumption
<1> QED
  BY <1>4, KeyIdsInUse, Zenon

\* The clock is past the first Backward periods, so no subtraction in rotate()
\* saturates, and the periods a call looks at are ones memcached may hold.
LEMMA Clock ==
  ASSUME TypeOK
  PROVE  /\ now \in Nat
         /\ Period(now) \in Nat
         /\ Period(now) > Backward
         /\ Period(now) <= Period(MaxTime)
         /\ Period(MaxTime) \in Nat
         /\ FirstPeriod(Period(now)) = Period(now) - Backward
         /\ RemovedPeriod(Period(now)) = Period(now) - Backward - 1
<1>1. now \in Nat /\ StartTime <= now /\ now <= MaxTime
  BY RotatorAssumption DEF TypeOK
<1>2. /\ Period(now) \in Nat
      /\ Period(MaxTime) \in Nat
      /\ Period(now) <= Period(MaxTime)
  BY <1>1, PeriodBounds, PeriodOrder, RotatorAssumption, Zenon
<1>3. Period(now) > Backward
  <2>1. Epoch(Backward + 1) <= now
    BY <1>1, ClockAssumption, RotatorAssumption DEF Epoch
  <2>2. Epoch(Backward + 1) < Epoch(Period(now) + 1)
    <3>1. Epoch(Backward + 1) \in Int /\ Epoch(Period(now) + 1) \in Int
      BY <1>2, EpochType, RotatorAssumption
    <3> QED
      BY <1>1, <2>1, <3>1, PeriodBounds
  <2>3. Backward + 1 < Period(now) + 1
    BY <1>2, <2>2, EpochOrder, RotatorAssumption
  <2> QED
    BY <1>2, <2>3, RotatorAssumption
<1> QED
  BY <1>1, <1>2, <1>3, RotatorAssumption
     DEF FirstPeriod, RemovedPeriod, Monus

-----------------------------------------------------------------------------
(* Inv is inductive.                                                       *)

\* Before any process runs there is nothing to violate.
LEMMA InitInv == Init => Inv
<1> SUFFICES ASSUME Init
             PROVE  Inv
  BY Zenon
<1>1. 0 \in KeyIds
  BY RotatorAssumption DEF KeyIds
<1>2. TypeOK
  BY <1>1, RotatorAssumption DEF Init, TypeOK, EmptyCache
<1>3. StoreInv /\ TimeInv /\ SlotInv /\ CallInv /\ LatestInv
  BY <1>2, Clock
     DEF Init, StoreInv, TimeInv, SlotInv, CallInv, LatestInv, EmptyCache,
         Serving, Running
<1>4. WindowCached /\ StaleInv
  BY Zenon DEF Init, WindowCached, StaleInv, EmptyCache, Running
<1> QED
  BY <1>2, <1>3, <1>4, Zenon DEF Inv

\* Time moves the old end of the window only.
LEMMA TickInv == Inv /\ Tick => Inv'
<1> SUFFICES ASSUME Inv, Tick
             PROVE  Inv'
  BY Zenon
<1> USE DEF Inv
<1>1. TypeOK'
  BY RotatorAssumption DEF Tick, TypeOK, storeVars, procVars
<1>2. /\ Period(now) \in Nat
      /\ Period(now') \in Nat
      /\ Period(now) <= Period(now')
  BY Clock, PeriodBounds, PeriodOrder, RotatorAssumption DEF Tick, TypeOK
<1>3. StoreInv'
  BY <1>2 DEF Tick, StoreInv, TypeOK, storeVars
<1>4. TimeInv'
  BY <1>2, Clock, RotatorAssumption
     DEF Tick, TimeInv, TypeOK, Serving, storeVars, procVars
<1>5. SlotInv' /\ CallInv' /\ LatestInv' /\ StaleInv'
  BY DEF Tick, SlotInv, CallInv, LatestInv, StaleInv, Running, Holds,
         storeVars, procVars
<1>6. WindowCached'
  BY <1>2, RotatorAssumption
     DEF Tick, WindowCached, Running, Holds, TypeOK, storeVars, procVars
<1> QED
  BY <1>1, <1>3, <1>4, <1>5, <1>6, Zenon

\* The writers of memcached leave the processes alone.
LEMMA StoreStepInv == Inv /\ Store => Inv'
<1> SUFFICES ASSUME Inv, Store
             PROVE  Inv'
  BY Zenon
<1> USE DEF Inv
<1>1. UNCHANGED <<now, procVars>>
  BY Zenon DEF Store, FillBegin, FillSet, Publish, Evict
<1>2. Period(now) \in Nat /\ now \in Nat /\ Period(now) <= Period(MaxTime)
      /\ Period(MaxTime) \in Nat /\ Period(now) > Backward
  BY Clock, Zenon
<1>3. TypeOK' /\ StoreInv'
  <2>1. CASE FillBegin
    BY <1>1, <1>2, <2>1, RotatorAssumption
       DEF FillBegin, TypeOK, StoreInv, procVars
  <2>2. CASE FillSet
    <3> DEFINE p == fill.base + fill.next
    <3>1. /\ fill \in [base : Nat, next : -FillBack .. FillAhead - 1]
          /\ fill.base <= Period(now)
          /\ fills \in 0 .. MaxFills
      BY <2>2, Zenon DEF FillSet, TypeOK, StoreInv
    <3>2. p \in Periods /\ [gen |-> fills, period |-> p] \in Values
      BY <1>2, <3>1, RotatorAssumption DEF Periods, Values
    <3>3. /\ memcached' \in [Periods -> Values \cup {None}]
          /\ \A q \in Periods : memcached'[q] # None => memcached'[q].period = q
      BY <2>2, <3>2, Zenon DEF FillSet, TypeOK, StoreInv
    <3>4. /\ fill' = None
             \/ fill' \in [base : Nat, next : -FillBack .. FillAhead - 1]
          /\ fill' # None => fill'.base <= Period(now)
      BY <2>2, <3>1, RotatorAssumption DEF FillSet
    <3> QED
      BY <1>1, <2>2, <3>3, <3>4, Zenon DEF FillSet, TypeOK, StoreInv, procVars
  <2>3. CASE Publish
    <3> DEFINE p == Period(now) + FillAhead - 1
    <3>1. p \in Periods /\ [gen |-> 0, period |-> p] \in Values
      BY <1>2, RotatorAssumption DEF Periods, Values
    <3>2. /\ memcached' \in [Periods -> Values \cup {None}]
          /\ \A q \in Periods : memcached'[q] # None => memcached'[q].period = q
      BY <2>3, <3>1, Zenon DEF Publish, TypeOK, StoreInv
    <3> QED
      BY <1>1, <2>3, <3>2, Zenon DEF Publish, TypeOK, StoreInv, procVars
  <2>4. CASE \E p \in Periods : Evict(p)
    BY <1>1, <2>4, Zenon DEF Evict, TypeOK, StoreInv, procVars
  <2> QED
    BY <2>1, <2>2, <2>3, <2>4, Zenon DEF Store
<1>4. /\ TimeInv' /\ SlotInv' /\ CallInv' /\ LatestInv' /\ StaleInv'
      /\ WindowCached'
  BY <1>1 DEF TimeInv, SlotInv, CallInv, LatestInv, StaleInv, WindowCached,
              Running, Serving, Holds, procVars
<1> QED
  BY <1>3, <1>4, Zenon

\* A process that starts has called rotate() in no period yet.
LEMMA StartInv ==
  ASSUME Inv, NEW s \in Servers, Start(s)
  PROVE  Inv'
<1> USE DEF Inv
<1>1. TypeOK'
  BY Clock, RotatorAssumption DEF Start, TypeOK, storeVars
<1>2. StoreInv' /\ TimeInv'
  <2>1. StoreInv'
    BY Zenon DEF Start, StoreInv, storeVars
  <2>2. /\ now' = now /\ pc'[s] = "asleep" /\ try'[s] = 1 /\ wake'[s] = now
        /\ current'[s] = 0 /\ synced' = synced
        /\ \A t \in Servers \ {s} : /\ pc'[t] = pc[t] /\ try'[t] = try[t]
                                     /\ wake'[t] = wake[t] /\ current'[t] = current[t]
    BY Zenon DEF Start, TypeOK
  <2>3. now \in Nat /\ Period(now) \in Nat /\ MaxLate \in Nat
    BY Clock, RotatorAssumption, Zenon
  <2>4. 0 <= Period(now) /\ now <= now + MaxLate /\ 1 # 0
    BY ONLY <2>3
  <2>5. ASSUME NEW t \in Servers
        PROVE  /\ current'[t] <= Period(now')
               /\ synced'[t] <= Period(now')
               /\ pc'[t] # "down" => now' <= wake'[t] + MaxLate
               /\ pc'[t] = "rotating" => wake'[t] < Epoch(current'[t] + 1)
               /\ Serving(t)' => wake'[t] < Epoch(current'[t] + 1) + MaxLate + Duration
    <3>1. TimeInv
      BY Zenon
    <3>2. CASE t = s
      BY ONLY <2>2, <2>4, <3>1, <3>2, s \in Servers, Zenon DEF TimeInv, Serving
    <3>3. CASE t # s
      BY ONLY <2>2, <3>1, <3>3, t \in Servers, Zenon DEF TimeInv, Serving
    <3> QED BY <3>2, <3>3, Zenon
  <2> QED BY <2>1, <2>5, Zenon DEF TimeInv
<1>3. SlotInv' /\ CallInv' /\ LatestInv' /\ WindowCached'
  <2>1. /\ pc[s] = "down" /\ pc'[s] = "asleep" /\ try'[s] = 1
        /\ \A t \in Servers \ {s} :
             pc'[t] = pc[t] /\ try'[t] = try[t] /\ current'[t] = current[t]
        /\ UNCHANGED <<now, cursor, cache, latest, synced>>
        /\ SlotInv /\ CallInv /\ LatestInv /\ WindowCached
    BY Zenon DEF Start, TypeOK
  <2>2. ~Running(s)' /\ \A t \in Servers \ {s} : Running(t)' <=> Running(t)
    <3>1. 1 # 0
      BY ONLY TRUE
    <3> QED BY ONLY <2>1, <3>1, Zenon DEF Running
  <2>3. \A t, p : Holds(t, p)' <=> Holds(t, p)
    BY ONLY <2>1, Zenon DEF Holds
  <2>4. SlotInv'
    BY ONLY <2>1, s \in Servers, Zenon DEF SlotInv
  <2>5. CallInv'
    BY ONLY <2>1, <2>3, Zenon DEF CallInv
  <2>6. LatestInv'
    BY ONLY <2>1, <2>2, Zenon DEF LatestInv
  <2>7. WindowCached'
    BY ONLY <2>1, <2>2, <2>3, Zenon DEF WindowCached
  <2> QED BY <2>4, <2>5, <2>6, <2>7, Zenon
<1>4. StaleInv'
  BY DEF Start, StaleInv, SlotInv, EmptyCache, TypeOK
<1> QED
  BY <1>1, <1>2, <1>3, <1>4, Zenon

\* Nothing is expected of a process that has ended.
LEMMA ForgetInv ==
  ASSUME Inv, NEW s \in Servers, Forget(s),
         UNCHANGED <<now, storeVars>>,
         current' \in [Servers -> Nat],
         skipped' \in [Servers -> BOOLEAN],
         current'[s] <= Period(now),
         \A t \in Servers \ {s} :
           current'[t] = current[t] /\ skipped'[t] = skipped[t]
  PROVE  Inv'
<1> USE DEF Inv
<1>1. 0 \in KeyIds /\ EmptyCache \in [KeyIds -> Tags \cup {None}]
  BY RotatorAssumption DEF KeyIds, EmptyCache
<1>2. TypeOK'
  <2>1. /\ pc' \in [Servers -> {"down", "asleep", "rotating"}]
        /\ try' \in [Servers -> 0 .. MaxTry]
        /\ wake' \in [Servers -> Nat]
        /\ cursor' \in [Servers -> Nat]
        /\ latest' \in [Servers -> KeyIds]
        /\ synced' \in [Servers -> Nat]
    BY <1>1, RotatorAssumption DEF Forget, TypeOK
  <2>2. cache' \in [Servers -> [KeyIds -> Tags \cup {None}]]
    BY <1>1, Zenon DEF Forget, TypeOK
  <2> QED
    BY <2>1, <2>2, Zenon DEF TypeOK, storeVars
<1>3. StoreInv' /\ TimeInv'
  BY Clock DEF Forget, StoreInv, TimeInv, TypeOK, Serving, storeVars
<1>4. SlotInv' /\ CallInv' /\ LatestInv' /\ WindowCached'
  <2>1. /\ pc'[s] = "down" /\ cache'[s] = EmptyCache
        /\ \A t \in Servers \ {s} :
             /\ pc'[t] = pc[t] /\ try'[t] = try[t] /\ cursor'[t] = cursor[t]
             /\ cache'[t] = cache[t] /\ latest'[t] = latest[t] /\ synced'[t] = synced[t]
             /\ current'[t] = current[t]
    BY Zenon DEF Forget, TypeOK
  <2>2. /\ SlotInv /\ CallInv /\ LatestInv /\ WindowCached /\ now' = now
        /\ \A k \in KeyIds : EmptyCache[k] = None
    BY Zenon DEF EmptyCache
  <2>3. SlotInv'
    <3>1. ASSUME NEW t \in Servers, t # s
          PROVE  /\ \A k \in KeyIds : cache'[t][k] # None =>
                      /\ k = KeyIdOf(cache'[t][k].value.period)
                      /\ cache'[t][k].key = MasterKey[t]
                 /\ pc'[t] = "down" \/ current'[t] = 0 => cache'[t] = EmptyCache
      <4>1. pc'[t] = pc[t] /\ current'[t] = current[t] /\ cache'[t] = cache[t]
        BY ONLY <2>1, <3>1, Zenon
      <4> QED BY ONLY <4>1, <2>2, t \in Servers, Zenon DEF SlotInv
    <3> QED BY ONLY <2>1, <2>2, <3>1, Zenon DEF SlotInv
  <2>4. \A t \in Servers \ {s} : \A p : Holds(t, p)' <=> Holds(t, p)
    BY ONLY <2>1, Zenon DEF Holds
  <2>5. CallInv'
    BY ONLY <2>1, <2>2, <2>4, Zenon DEF CallInv
  <2>6. ~Running(s)' /\ \A t \in Servers \ {s} : Running(t)' <=> Running(t)
    BY ONLY <2>1, Zenon DEF Running
  <2>7. LatestInv'
    BY ONLY <2>1, <2>2, <2>6, Zenon DEF LatestInv
  <2>8. WindowCached'
    BY ONLY <2>1, <2>2, <2>4, <2>6, Zenon DEF WindowCached
  <2> QED BY <2>3, <2>5, <2>7, <2>8, Zenon
<1>5. StaleInv'
  BY Zenon DEF Forget, StaleInv, EmptyCache, TypeOK
<1> QED
  BY <1>2, <1>3, <1>4, <1>5, Zenon

\* A failed call of rotate() that has removed no key of the window.
LEMMA RotateErrInv ==
  ASSUME Inv, NEW s \in Servers, NEW left, RotateErr(s, left),
         pc[s] # "down",
         left \in [KeyIds -> Tags \cup {None}],
         current' \in [Servers -> Nat],
         skipped' \in [Servers -> BOOLEAN],
         \A t \in Servers \ {s} :
           current'[t] = current[t] /\ skipped'[t] = skipped[t],
         0 < current'[s], current'[s] <= Period(now),
         now < Epoch(current'[s] + 1) + MaxLate,
         \A k \in KeyIds : left[k] # None => left[k] = cache[s][k],
         Running(s) =>
           \A p \in Period(now) - Backward .. synced[s] + Forward :
             left[KeyIdOf(p)] = cache[s][KeyIdOf(p)],
         ~skipped'[s] =>
           \A k \in KeyIds : left[k] # None =>
             left[k].value.period >= current'[s] - Backward
  PROVE  Inv'
<1> USE DEF Inv
<1>1. UNCHANGED <<now, storeVars>>
  BY Zenon DEF RotateErr
<1>2. CASE try[s] = MaxTry /\ Forget(s)
  BY <1>1, <1>2, ForgetInv, Zenon
<1>3. CASE ~(try[s] = MaxTry /\ Forget(s))
  <2>1. /\ pc' = [pc EXCEPT ![s] = "asleep"]
        /\ try[s] < MaxTry
        /\ try' = [try EXCEPT ![s] = IF @ = 0 THEN 0 ELSE @ + 1]
        /\ wake' = [wake EXCEPT
                      ![s] = now + IF try[s] = 0 THEN Duration ELSE RetryDelay]
        /\ cursor' = [cursor EXCEPT ![s] = 0]
        /\ cache' = [cache EXCEPT ![s] = left]
        /\ latest' = latest
        /\ synced' = synced
    BY <1>3, Zenon DEF RotateErr
  <2>2. TypeOK'
    <3>1. /\ now \in Nat /\ Duration \in Nat /\ RetryDelay \in Nat
          /\ MaxTry \in Nat /\ try[s] \in 0 .. MaxTry /\ try[s] < MaxTry
      BY <2>1, Clock, RotatorAssumption, Zenon DEF TypeOK
    <3>2. /\ now + (IF try[s] = 0 THEN Duration ELSE RetryDelay) \in Nat
          /\ (IF try[s] = 0 THEN 0 ELSE try[s] + 1) \in 0 .. MaxTry
          /\ 0 \in Nat
      BY ONLY <3>1
    <3>3. /\ pc' \in [Servers -> {"down", "asleep", "rotating"}]
          /\ wake' \in [Servers -> Nat]
          /\ cursor' \in [Servers -> Nat]
      BY <2>1, <3>2, Zenon DEF TypeOK
    <3>4. try' \in [Servers -> 0 .. MaxTry]
      BY <2>1, <3>2, Zenon DEF TypeOK
    <3>5. cache' \in [Servers -> [KeyIds -> Tags \cup {None}]]
      BY <2>1, Zenon DEF TypeOK
    <3> QED BY <1>1, <2>1, <3>3, <3>4, <3>5, Zenon DEF TypeOK, storeVars
  <2>3. StoreInv'
    BY <1>1, Zenon DEF StoreInv, storeVars
  <2>4. TimeInv'
    <3>1. /\ Epoch(current'[s] + 1) \in Int
          /\ now \in Nat /\ now' = now
          /\ Period(now) \in Nat
          /\ synced[s] <= Period(now)
      <4>1. current'[s] + 1 \in Int
        BY ONLY current' \in [Servers -> Nat], s \in Servers
      <4>2. Epoch(current'[s] + 1) \in Int
        BY ONLY <4>1, EpochType, Zenon
      <4> QED BY <1>1, <4>2, Clock, Zenon DEF TimeInv
    <3>2. /\ wake'[s] = now + IF try[s] = 0 THEN Duration ELSE RetryDelay
          /\ pc'[s] = "asleep"
          /\ try'[s] = 0 => try[s] = 0
      BY <2>1, RotatorAssumption DEF TypeOK
    <3>3. /\ current'[s] <= Period(now')
          /\ synced'[s] <= Period(now')
          /\ now' <= wake'[s] + MaxLate
          /\ Serving(s)' => wake'[s] < Epoch(current'[s] + 1) + MaxLate + Duration
      BY ONLY <2>1, <3>1, <3>2, RotatorAssumption, current'[s] <= Period(now),
              now < Epoch(current'[s] + 1) + MaxLate DEF Serving
    <3>4. ASSUME NEW t \in Servers \ {s}
          PROVE  /\ pc'[t] = pc[t] /\ try'[t] = try[t] /\ wake'[t] = wake[t]
                 /\ current'[t] = current[t] /\ synced'[t] = synced[t]
      BY <2>1, Zenon DEF TypeOK
    <3>5. TimeInv
      BY Zenon
    <3> QED
      BY ONLY <3>1, <3>2, <3>3, <3>4, <3>5, Zenon DEF TimeInv, Serving
  <2>5. /\ pc'[s] = "asleep" /\ cache'[s] = left /\ latest' = latest /\ synced' = synced
        /\ try'[s] = 0 => try[s] = 0
        /\ \A t \in Servers \ {s} :
             /\ pc'[t] = pc[t] /\ try'[t] = try[t] /\ cursor'[t] = cursor[t]
             /\ cache'[t] = cache[t] /\ current'[t] = current[t]
             /\ skipped'[t] = skipped[t]
    BY <2>1 DEF TypeOK
  <2>6. SlotInv'
    <3>1. /\ SlotInv /\ 0 < current'[s] /\ current'[s] \in Nat
          /\ \A k \in KeyIds : left[k] # None => left[k] = cache[s][k]
      BY Zenon
    <3>2. current'[s] # 0
      BY ONLY <3>1
    <3>3. ASSUME NEW t \in Servers, NEW k \in KeyIds, cache'[t][k] # None
          PROVE  k = KeyIdOf(cache'[t][k].value.period) /\ cache'[t][k].key = MasterKey[t]
      <4>1. cache'[t][k] = cache[t][k]
        BY ONLY <2>5, <3>1, <3>3, Zenon
      <4>2. cache[t][k] # None
        BY ONLY <3>3, <4>1, Zenon
      <4>3. k = KeyIdOf(cache[t][k].value.period) /\ cache[t][k].key = MasterKey[t]
        BY ONLY <3>1, <4>2, t \in Servers, k \in KeyIds, Zenon DEF SlotInv
      <4> QED BY ONLY <4>1, <4>3, Zenon
    <3>4. ASSUME NEW t \in Servers, pc'[t] = "down" \/ current'[t] = 0
          PROVE  cache'[t] = EmptyCache
      <4>1. t # s
        BY ONLY <2>5, <3>2, <3>4, Zenon
      <4>2. pc'[t] = pc[t] /\ current'[t] = current[t] /\ cache'[t] = cache[t]
        BY ONLY <2>5, <3>4, <4>1, Zenon
      <4> QED BY ONLY <3>1, <3>4, <4>2, Zenon DEF SlotInv
    <3> QED BY ONLY <3>3, <3>4, Zenon DEF SlotInv
  <2>7. CallInv'
    <3>1. CallInv
      BY Zenon
    <3>2. \A t \in Servers \ {s} : \A p : Holds(t, p)' <=> Holds(t, p)
      BY ONLY <2>5, Zenon DEF Holds
    <3> QED BY ONLY <2>5, <3>1, <3>2, Zenon DEF CallInv
  <2>8. /\ Running(s)' => Running(s)
        /\ \A t \in Servers \ {s} : Running(t)' <=> Running(t)
    BY ONLY <2>5, pc[s] # "down", Zenon DEF Running
  <2>9. LatestInv' /\ WindowCached'
    <3>1. /\ LatestInv /\ WindowCached /\ now' = now
          /\ Running(s) =>
               \A p \in Period(now) - Backward .. synced[s] + Forward :
                 left[KeyIdOf(p)] = cache[s][KeyIdOf(p)]
      BY <1>1, Zenon
    <3>2. LatestInv'
      BY ONLY <2>5, <2>8, <3>1, s \in Servers, Zenon DEF LatestInv
    <3>3. WindowCached'
      <4>1. ASSUME NEW t \in Servers, Running(t)',
                   NEW p \in Period(now) - Backward .. synced[t] + Forward
            PROVE  Holds(t, p)'
        <5>1. Running(t) /\ Holds(t, p)
          BY ONLY <2>8, <3>1, <4>1, Zenon DEF WindowCached
        <5>2. cache'[t][KeyIdOf(p)] = cache[t][KeyIdOf(p)]
          BY ONLY <2>5, <3>1, <4>1, <5>1, Zenon
        <5> QED BY ONLY <5>1, <5>2, Zenon DEF Holds
      <4> QED BY ONLY <2>5, <3>1, <4>1, Zenon DEF WindowCached
    <3> QED BY <3>2, <3>3, Zenon
  <2>10. StaleInv'
    <3>1. /\ StaleInv
          /\ ~skipped'[s] =>
               \A k \in KeyIds : left[k] # None =>
                 left[k].value.period >= current'[s] - Backward
      BY Zenon
    <3>2. ASSUME NEW t \in Servers, NEW k \in KeyIds, ~skipped'[t], cache'[t][k] # None
          PROVE  cache'[t][k].value.period >= current'[t] - Backward
      <4>1. CASE t = s
        BY ONLY <2>5, <3>1, <3>2, <4>1, Zenon
      <4>2. CASE t # s
        BY ONLY <2>5, <3>1, <3>2, <4>2, Zenon DEF StaleInv
      <4> QED BY <4>1, <4>2, Zenon
    <3> QED BY <3>2, Zenon DEF StaleInv
  <2> QED
    BY <2>2, <2>3, <2>4, <2>6, <2>7, <2>9, <2>10, Zenon
<1> QED
  BY <1>2, <1>3, Zenon

\* What rotate() removes before it connects is no key of the window, and it
\* is the only one that has left the window since the period before.
LEMMA RemovedKey ==
  ASSUME Inv, NEW s \in Servers, NEW left,
         left = [cache[s] EXCEPT
                   ![KeyIdOf(RemovedPeriod(Period(now)))] = None]
  PROVE  /\ left \in [KeyIds -> Tags \cup {None}]
         /\ \A k \in KeyIds : left[k] # None => left[k] = cache[s][k]
         /\ \A p \in Period(now) - Backward .. synced[s] + Forward :
              left[KeyIdOf(p)] = cache[s][KeyIdOf(p)]
         /\ ~skipped[s] /\ (current[s] = 0 \/ Period(now) <= current[s] + 1) =>
              \A k \in KeyIds : left[k] # None =>
                left[k].value.period >= Period(now) - Backward
<1> USE DEF Inv
<1> DEFINE r == Period(now) - Backward - 1
<1>1. /\ r \in Int
      /\ KeyIdOf(r) \in KeyIds
      /\ left = [cache[s] EXCEPT ![KeyIdOf(r)] = None]
      /\ cache[s] \in [KeyIds -> Tags \cup {None}]
  <2>1. r \in Int /\ RemovedPeriod(Period(now)) = r
    BY Clock, RotatorAssumption
  <2>2. KeyIdOf(r) \in KeyIds
    BY <2>1, KeyIdType, Zenon
  <2> QED
    BY <2>1, <2>2, Zenon DEF TypeOK
<1>2. left \in [KeyIds -> Tags \cup {None}]
  BY <1>1, Zenon
<1>3. \A k \in KeyIds : left[k] # None => left[k] = cache[s][k] /\ k # KeyIdOf(r)
  BY <1>1, Zenon
<1>4. ASSUME NEW p \in Period(now) - Backward .. synced[s] + Forward
      PROVE  left[KeyIdOf(p)] = cache[s][KeyIdOf(p)]
  <2>1. /\ p \in Int
        /\ p # r
        /\ p - r <= Backward + Forward + 1
        /\ r - p <= Backward + Forward + 1
    BY Clock, RotatorAssumption DEF TypeOK, TimeInv
  <2>2. KeyIdOf(p) # KeyIdOf(r) /\ KeyIdOf(p) \in KeyIds
    BY <1>1, <2>1, KeyIdsInWindow, KeyIdType, Zenon
  <2> QED
    BY <1>1, <2>2, Zenon
<1>5. ASSUME ~skipped[s], current[s] = 0 \/ Period(now) <= current[s] + 1,
             NEW k \in KeyIds, left[k] # None
      PROVE  left[k].value.period >= Period(now) - Backward
  <2>1. left[k] = cache[s][k] /\ k # KeyIdOf(r)
    BY <1>3, <1>5, Zenon
  <2>2. cache[s][k] # None
    BY <1>5, <2>1, Zenon
  <2>3. current[s] # 0
    BY <2>2, Zenon DEF SlotInv, EmptyCache
  <2>4. Period(now) <= current[s] + 1
    BY <1>5, <2>3, Zenon
  <2>5. cache[s][k].value.period >= current[s] - Backward
    BY <1>5, <2>2, Zenon DEF StaleInv
  <2>6. cache[s][k].value.period # r
    BY <2>1, <2>2, Zenon DEF SlotInv
  <2>7. cache[s][k].value.period \in Int
    <3>1. cache[s][k] \in Tags
      BY <1>1, <2>2, Zenon
    <3>2. cache[s][k].value.period \in Periods
      BY ONLY <3>1, Zenon DEF Tags, Values
    <3>3. FillBack \in Nat /\ FillAhead \in Nat /\ Forward \in Nat /\ MaxTime \in Nat
      BY ONLY RotatorAssumption
    <3>4. Period(MaxTime) \in Nat
      BY ONLY <3>3, PeriodBounds, Zenon
    <3>5. ASSUME NEW p \in Periods PROVE p \in Int
      BY ONLY <3>3, <3>4, p \in Periods DEF Periods
    <3> QED BY ONLY <3>2, <3>5, Zenon
  <2>8. current[s] \in Nat /\ Period(now) \in Nat
    BY Clock, Zenon DEF TypeOK
  <2>9. cache[s][k].value.period >= Period(now) - Backward
    <3> HIDE DEF Inv
    <3>1. Backward \in Nat /\ r = Period(now) - Backward - 1
      BY Clock, RotatorAssumption, Zenon DEF Inv
    <3> QED BY ONLY <2>4, <2>5, <2>6, <2>7, <2>8, <3>1
  <2> QED
    BY <2>1, <2>9, Zenon
<1> QED
  BY <1>2, <1>3, <1>4, <1>5, Zenon

\* rotate() up to the connection drops a key that is out of the window.
LEMMA RotateBeginInv ==
  ASSUME Inv, NEW s \in Servers, RotateBegin(s)
  PROVE  Inv'
<1> USE DEF Inv
<1> DEFINE left == [cache[s] EXCEPT
                      ![KeyIdOf(RemovedPeriod(Period(now)))] = None]
<1>1. /\ pc[s] = "asleep"
      /\ wake[s] <= now
      /\ current' = [current EXCEPT ![s] = Period(now)]
      /\ skipped' = [skipped EXCEPT
           ![s] = @ \/ (current[s] # 0 /\ Period(now) > current[s] + 1)]
  BY Zenon DEF RotateBegin
<1>2. /\ current' \in [Servers -> Nat]
      /\ current'[s] = Period(now)
      /\ skipped' \in [Servers -> BOOLEAN]
      /\ ~skipped'[s] =>
           ~skipped[s] /\ (current[s] = 0 \/ Period(now) <= current[s] + 1)
      /\ \A t \in Servers \ {s} :
           current'[t] = current[t] /\ skipped'[t] = skipped[t]
  <2>1. /\ current' \in [Servers -> Nat]
        /\ current'[s] = Period(now)
        /\ \A t \in Servers \ {s} : current'[t] = current[t]
    BY <1>1, Clock, Zenon DEF TypeOK
  <2>2. /\ skipped' \in [Servers -> BOOLEAN]
        /\ \A t \in Servers \ {s} : skipped'[t] = skipped[t]
    BY <1>1, Zenon DEF TypeOK
  <2>3. ~skipped'[s] =>
          ~skipped[s] /\ ~(current[s] # 0 /\ Period(now) > current[s] + 1)
    BY <1>1, Zenon DEF TypeOK
  <2>4. ~(Period(now) > current[s] + 1) => Period(now) <= current[s] + 1
    BY Clock DEF TypeOK
  <2> QED
    BY <2>1, <2>2, <2>3, <2>4, Zenon
<1>3. /\ left \in [KeyIds -> Tags \cup {None}]
      /\ \A k \in KeyIds : left[k] # None => left[k] = cache[s][k]
      /\ \A p \in Period(now) - Backward .. synced[s] + Forward :
           left[KeyIdOf(p)] = cache[s][KeyIdOf(p)]
      /\ ~skipped'[s] =>
           \A k \in KeyIds : left[k] # None =>
             left[k].value.period >= current'[s] - Backward
  <2>1. left = [cache[s] EXCEPT
                  ![KeyIdOf(RemovedPeriod(Period(now)))] = None]
    BY Zenon
  <2> HIDE DEF left, Inv
  <2>2. left \in [KeyIds -> Tags \cup {None}]
    BY <2>1, RemovedKey, Zenon
  <2>3. \A k \in KeyIds : left[k] # None => left[k] = cache[s][k]
    BY <2>1, RemovedKey, Zenon
  <2>4. \A p \in Period(now) - Backward .. synced[s] + Forward :
          left[KeyIdOf(p)] = cache[s][KeyIdOf(p)]
    BY <2>1, RemovedKey
  <2>5. ASSUME ~skipped'[s], NEW k \in KeyIds, left[k] # None
        PROVE  left[k].value.period >= current'[s] - Backward
    BY <1>2, <2>1, <2>5, RemovedKey, Zenon
  <2> QED
    BY <2>2, <2>3, <2>4, <2>5, Zenon
<1>4. /\ now \in Nat
      /\ Period(now) \in Nat
      /\ Period(now) > Backward
      /\ now < Epoch(Period(now) + 1)
      /\ Epoch(Period(now) + 1) \in Int
      /\ FirstPeriod(Period(now)) = Period(now) - Backward
  BY Clock, PeriodBounds, EpochType
<1>5. CASE RotateErr(s, left)
  <2>1. /\ pc[s] # "down"
        /\ 0 < current'[s]
        /\ current'[s] <= Period(now)
        /\ now < Epoch(current'[s] + 1) + MaxLate
    BY <1>1, <1>2, <1>4, RotatorAssumption
  <2> HIDE DEF left, Inv
  <2> QED
    BY <1>2, <1>3, <1>5, <2>1, RotateErrInv, Zenon
<1>6. CASE ~RotateErr(s, left)
  <2>1. /\ pc' = [pc EXCEPT ![s] = "rotating"]
        /\ cache' = [cache EXCEPT ![s] = left]
        /\ cursor' = [cursor EXCEPT ![s] = FirstPeriod(Period(now))]
        /\ UNCHANGED <<now, storeVars, try, wake, latest, synced>>
    BY <1>6, Zenon DEF RotateBegin
  <2> HIDE DEF left
  <2>2. TypeOK'
    <3>1. FirstPeriod(Period(now)) \in Nat
      BY ONLY <1>4, RotatorAssumption
    <3>2. /\ pc' \in [Servers -> {"down", "asleep", "rotating"}]
          /\ cursor' \in [Servers -> Nat]
          /\ cache' \in [Servers -> [KeyIds -> Tags \cup {None}]]
      BY <1>3, <2>1, <3>1, Zenon DEF TypeOK
    <3> QED BY <1>2, <2>1, <3>2, Zenon DEF TypeOK, storeVars
  <2>3. StoreInv'
    BY <2>1, Zenon DEF StoreInv, storeVars
  <2>4. TimeInv'
    BY <1>1, <1>2, <1>4, <2>1, RotatorAssumption DEF TimeInv, TypeOK, Serving
  <2>5. SlotInv'
    <3>1. current'[s] # 0
      BY ONLY <1>2, <1>4, RotatorAssumption
    <3>2. /\ pc'[s] = "rotating" /\ cache'[s] = left
          /\ \A t \in Servers \ {s} :
               pc'[t] = pc[t] /\ cache'[t] = cache[t] /\ current'[t] = current[t]
      BY <1>2, <2>1, Zenon DEF TypeOK
    <3>3. SlotInv
      BY Zenon
    <3>4. ASSUME NEW t \in Servers, NEW k \in KeyIds, cache'[t][k] # None
          PROVE  k = KeyIdOf(cache'[t][k].value.period) /\ cache'[t][k].key = MasterKey[t]
      <4>1. cache'[t][k] = cache[t][k]
        BY ONLY <1>3, <3>2, <3>4, Zenon
      <4>2. cache[t][k] # None
        BY ONLY <3>4, <4>1, Zenon
      <4> QED BY ONLY <3>3, <3>4, <4>1, <4>2, Zenon DEF SlotInv
    <3>5. ASSUME NEW t \in Servers, pc'[t] = "down" \/ current'[t] = 0
          PROVE  cache'[t] = EmptyCache
      <4>1. t # s
        BY ONLY <3>1, <3>2, <3>5, Zenon
      <4>2. pc'[t] = pc[t] /\ current'[t] = current[t] /\ cache'[t] = cache[t]
        BY ONLY <3>2, <3>5, <4>1, Zenon
      <4> QED BY ONLY <3>3, <3>5, <4>2, Zenon DEF SlotInv
    <3> QED BY ONLY <3>4, <3>5, Zenon DEF SlotInv
  <2>6. CallInv'
    <3>1. /\ pc'[s] = "rotating"
          /\ cursor'[s] = current'[s] - Backward
      BY <1>2, <1>4, <2>1, Zenon DEF TypeOK
    <3>2. \A t \in Servers \ {s} :
            /\ pc'[t] = pc[t] /\ cursor'[t] = cursor[t] /\ cache'[t] = cache[t]
            /\ current'[t] = current[t]
      BY <1>2, <2>1, Zenon DEF TypeOK
    <3>3. ASSUME NEW t \in Servers \ {s}, pc'[t] = "rotating"
          PROVE  /\ Backward < current'[t]
                 /\ cursor'[t] \in current'[t] - Backward .. current'[t] + Forward + 1
                 /\ \A p \in current'[t] - Backward .. cursor'[t] - 1 : Holds(t, p)'
      <4>1. pc'[t] = pc[t] /\ cursor'[t] = cursor[t] /\ cache'[t] = cache[t]
            /\ current'[t] = current[t]
        BY ONLY <3>2, <3>3, Zenon
      <4>2. /\ Backward < current[t]
            /\ cursor[t] \in current[t] - Backward .. current[t] + Forward + 1
            /\ \A p \in current[t] - Backward .. cursor[t] - 1 : Holds(t, p)
        BY ONLY CallInv, <3>3, <4>1, Zenon DEF CallInv
      <4>3. \A p : Holds(t, p)' <=> Holds(t, p)
        BY ONLY <4>1, Zenon DEF Holds
      <4> QED BY ONLY <4>1, <4>2, <4>3, Zenon
    <3>4. /\ Backward < current'[s]
          /\ cursor'[s] \in current'[s] - Backward .. current'[s] + Forward + 1
          /\ current'[s] - Backward .. cursor'[s] - 1 = {}
      BY <1>2, <1>4, <3>1, RotatorAssumption
    <3> QED
      BY <3>3, <3>4, Zenon DEF CallInv
  <2>7. LatestInv'
    BY <1>1, <2>1, Zenon DEF LatestInv, TypeOK, Running
  <2>8. WindowCached'
    <3>1. /\ cache'[s] = left /\ (Running(s)' => Running(s))
          /\ \A t \in Servers \ {s} : cache'[t] = cache[t] /\ (Running(t)' => Running(t))
      BY <1>1, <2>1, Zenon DEF TypeOK, Running
    <3>2. WindowCached /\ now' = now /\ synced' = synced
      BY <2>1, Zenon
    <3>3. ASSUME NEW t \in Servers, Running(t)',
                 NEW p \in Period(now) - Backward .. synced[t] + Forward
          PROVE  Holds(t, p)'
      <4>1. Holds(t, p)
        BY ONLY <3>1, <3>2, <3>3, Zenon DEF WindowCached
      <4>2. cache'[t][KeyIdOf(p)] = cache[t][KeyIdOf(p)]
        BY <1>1, <1>3, <3>1, <3>3, Zenon DEF Running
      <4> QED BY ONLY <4>1, <4>2, Zenon DEF Holds
    <3> QED BY ONLY <3>2, <3>3, Zenon DEF WindowCached
  <2>9. StaleInv'
    BY <1>2, <1>3, <2>1, Zenon DEF StaleInv, TypeOK
  <2> QED
    BY <2>2, <2>3, <2>4, <2>5, <2>6, <2>7, <2>8, <2>9, Zenon
<1> QED
  BY <1>5, <1>6, Zenon

\* rotate() gives up in the middle of its loop and keeps what it has read.
LEMMA RotateMissInv ==
  ASSUME Inv, NEW s \in Servers, RotateMiss(s)
  PROVE  Inv'
<1> USE DEF Inv
<1>1. /\ pc[s] = "rotating"
      /\ RotateErr(s, cache[s])
      /\ UNCHANGED <<current, skipped>>
  BY Zenon DEF RotateMiss
<1>2. /\ 0 < current[s]
      /\ current[s] <= Period(now)
      /\ cache[s] \in [KeyIds -> Tags \cup {None}]
      /\ pc[s] # "down"
  BY <1>1, RotatorAssumption DEF CallInv, TimeInv, TypeOK
<1>3. now < Epoch(current[s] + 1) + MaxLate
  <2>1. /\ now <= wake[s] + MaxLate
        /\ wake[s] < Epoch(current[s] + 1)
        /\ wake[s] \in Nat
        /\ now \in Nat
    BY <1>1, Clock, Zenon DEF TimeInv, TypeOK
  <2>2. Epoch(current[s] + 1) \in Int
    BY EpochType DEF TypeOK
  <2> QED
    BY <2>1, <2>2, RotatorAssumption
<1>4. /\ current' \in [Servers -> Nat]
      /\ skipped' \in [Servers -> BOOLEAN]
      /\ current' = current
      /\ skipped' = skipped
      /\ ~skipped'[s] =>
           \A k \in KeyIds : cache[s][k] # None =>
             cache[s][k].value.period >= current'[s] - Backward
  BY <1>1, Zenon DEF TypeOK, StaleInv
<1>5. /\ \A t \in Servers \ {s} : current'[t] = current[t] /\ skipped'[t] = skipped[t]
      /\ \A k \in KeyIds : cache[s][k] # None => cache[s][k] = cache[s][k]
      /\ Running(s) =>
           \A p \in Period(now) - Backward .. synced[s] + Forward :
             cache[s][KeyIdOf(p)] = cache[s][KeyIdOf(p)]
      /\ 0 < current'[s] /\ current'[s] <= Period(now)
      /\ now < Epoch(current'[s] + 1) + MaxLate
  BY <1>2, <1>3, <1>4, Zenon
<1> HIDE DEF Inv
<1> QED
  BY <1>1, <1>2, <1>4, <1>5, RotateErrInv, Zenon

\* A key that is fetched is stored under an id that no other key of the window
\* has, though the clock may have moved on since the call began.
LEMMA RotateHitInv ==
  ASSUME Inv, NEW s \in Servers, RotateHit(s)
  PROVE  Inv'
<1> USE DEF Inv
<1>c. PICK c : c = cursor[s]
  BY Zenon
<1>t. PICK tag : tag = Sign(MasterKey[s], memcached[c])
  BY Zenon
<1>1. /\ pc[s] = "rotating"
      /\ c <= current[s] + Forward
      /\ memcached[c] # None
      /\ cache' = [cache EXCEPT ![s][KeyIdOf(c)] = tag]
      /\ cursor' = [cursor EXCEPT ![s] = c + 1]
      /\ UNCHANGED <<now, storeVars, pc, try, wake, current, latest, synced,
                     skipped>>
  BY <1>c, <1>t, Zenon DEF RotateHit, LastPeriod
<1>2. /\ c \in Nat
      /\ current[s] \in Nat
      /\ current[s] <= Period(now)
      /\ c >= current[s] - Backward
      /\ Period(now) \in Nat
      /\ Period(now) <= Period(MaxTime)
      /\ Period(MaxTime) \in Nat
  <2>1. c \in Nat /\ current[s] \in Nat /\ current[s] <= Period(now)
    BY <1>c, Zenon DEF TypeOK, TimeInv
  <2>2. c \in current[s] - Backward .. current[s] + Forward + 1
    BY <1>c, <1>1, Zenon DEF CallInv
  <2>3. c >= current[s] - Backward
    BY ONLY <2>1, <2>2, RotatorAssumption
  <2> QED BY <2>1, <2>3, Clock, Zenon
<1>3. c \in Periods /\ memcached[c] \in Values /\ memcached[c].period = c
  <2>1. c \in Periods
    BY <1>1, <1>2, RotatorAssumption DEF Periods
  <2> QED
    BY <1>1, <2>1, Zenon DEF TypeOK, StoreInv
<1>4. /\ tag \in Tags
      /\ tag # None
      /\ tag.key = MasterKey[s]
      /\ tag.value.period = c
      /\ KeyIdOf(c) \in KeyIds
  BY <1>t, <1>2, <1>3, NoneAssumption, KeyIdType DEF Sign, Tags
<1>5. /\ cache'[s] = [cache[s] EXCEPT ![KeyIdOf(c)] = tag]
      /\ \A t \in Servers \ {s} : cache'[t] = cache[t]
      /\ cache'[s] \in [KeyIds -> Tags \cup {None}]
      /\ cache' \in [Servers -> [KeyIds -> Tags \cup {None}]]
  BY <1>1, <1>4, Zenon DEF TypeOK
<1>6. /\ Holds(s, c)'
      /\ \A p \in Int : KeyIdOf(p) # KeyIdOf(c) /\ Holds(s, p) => Holds(s, p)'
      /\ \A t \in Servers \ {s}, p \in Int : Holds(t, p) => Holds(t, p)'
  BY <1>4, <1>5, KeyIdType, Zenon DEF Holds, TypeOK
<1>7. TypeOK'
  BY <1>1, <1>2, <1>5 DEF TypeOK, storeVars
<1>8. StoreInv' /\ TimeInv' /\ LatestInv'
  BY <1>1, Zenon DEF StoreInv, TimeInv, LatestInv, Serving, Running, storeVars
<1>9. SlotInv'
  <2>1. current[s] # 0
    <3>1. Backward < current[s]
      BY <1>1, Zenon DEF CallInv
    <3> QED BY ONLY <3>1, RotatorAssumption
  <2>2. \A k \in KeyIds : k # KeyIdOf(c) => cache'[s][k] = cache[s][k]
    BY <1>4, <1>5, Zenon DEF TypeOK
  <2>3. cache'[s][KeyIdOf(c)] = tag
    BY <1>4, <1>5, Zenon DEF TypeOK
  <2>4. SlotInv /\ pc' = pc /\ current' = current /\ pc[s] # "down"
    BY <1>1, Zenon
  <2>5. ASSUME NEW t \in Servers, NEW k \in KeyIds, cache'[t][k] # None
        PROVE  k = KeyIdOf(cache'[t][k].value.period) /\ cache'[t][k].key = MasterKey[t]
    <3>1. CASE t = s /\ k = KeyIdOf(c)
      BY <1>4, <2>3, <3>1, Zenon
    <3>2. CASE t = s /\ k # KeyIdOf(c)
      <4>1. cache'[t][k] = cache[t][k]
        BY ONLY <2>2, <3>2, k \in KeyIds, Zenon
      <4>2. cache[t][k] # None
        BY ONLY <2>5, <4>1, Zenon
      <4> QED BY ONLY <2>4, <4>1, <4>2, t \in Servers, k \in KeyIds, Zenon DEF SlotInv
    <3>3. CASE t # s
      <4>1. cache'[t] = cache[t]
        BY ONLY <1>5, <3>3, t \in Servers, Zenon
      <4> QED BY ONLY <2>4, <2>5, <4>1, Zenon DEF SlotInv
    <3> QED BY <3>1, <3>2, <3>3, Zenon
  <2>6. \A t \in Servers : pc'[t] = "down" \/ current'[t] = 0 => cache'[t] = EmptyCache
    BY ONLY <1>5, <2>1, <2>4, Zenon DEF SlotInv
  <2> QED BY ONLY <2>5, <2>6, Zenon DEF SlotInv
<1>10. CallInv'
  <2>1. ASSUME NEW p \in current[s] - Backward .. c
        PROVE  Holds(s, p)'
    <3>1. CASE p = c
      BY <1>6, <3>1, Zenon
    <3>2. CASE p # c
      <4>1. /\ p \in Int
            /\ p - c <= Backward + Forward + 1
            /\ c - p <= Backward + Forward + 1
            /\ p \in current[s] - Backward .. c - 1
        BY <1>1, <1>2, <3>2, RotatorAssumption
      <4> QED
        BY <1>c, <1>1, <1>2, <1>6, <3>2, <4>1, KeyIdsInWindow DEF CallInv
    <3> QED
      BY <3>1, <3>2, Zenon
  <2>2. ASSUME NEW t \in Servers \ {s}, NEW p \in Int, Holds(t, p)
        PROVE  Holds(t, p)'
    BY <1>6, <2>2, Zenon
  <2>3. /\ cursor'[s] = c + 1
        /\ \A t \in Servers \ {s} : cursor'[t] = cursor[t]
    BY <1>c, <1>1, Zenon DEF TypeOK
  <2> QED
    BY <1>1, <1>2, <2>1, <2>2, <2>3, RotatorAssumption DEF CallInv, TypeOK
<1>11. WindowCached'
  <2>1. ASSUME NEW p \in Period(now) - Backward .. synced[s] + Forward,
               Running(s)
        PROVE  Holds(s, p)'
    <3>1. p \in Int /\ Holds(s, p)
      BY <1>2, <2>1, RotatorAssumption DEF WindowCached, TypeOK
    <3>2. /\ p <= Period(now) + Forward
          /\ p >= current[s] - Backward
      BY <1>2, RotatorAssumption DEF TimeInv, TypeOK
    <3>3. CASE p # c
      <4>1. Epoch(p) - Epoch(c) < Epoch(Backward + Forward + 2) + MaxLate
        <5>1. /\ p - c <= (Period(now) - current[s]) + (Backward + Forward)
              /\ (Period(now) - current[s]) + (Backward + Forward) \in Int
          BY <1>2, <3>1, <3>2, RotatorAssumption
        <5>2. /\ Epoch(p - c) = Epoch(p) - Epoch(c)
              /\ Epoch((Period(now) - current[s]) + (Backward + Forward)) =
                   Epoch(Period(now)) - Epoch(current[s])
                     + Epoch(Backward + Forward)
              /\ Epoch(Backward + Forward + 2) =
                   Epoch(Backward + Forward) + Epoch(1) + Epoch(1)
              /\ Epoch(current[s] + 1) = Epoch(current[s]) + Epoch(1)
          BY <1>2, <3>1, RotatorAssumption DEF Epoch
        <5>3. Epoch(p - c) <=
                Epoch((Period(now) - current[s]) + (Backward + Forward))
          BY <1>2, <3>1, <5>1, RotatorAssumption DEF Epoch
        <5>4. /\ Epoch(Period(now)) <= now
              /\ now <= wake[s] + MaxLate
              /\ wake[s] < Epoch(current[s] + 1)
              /\ now \in Nat
              /\ wake[s] \in Nat
          BY <1>1, Clock, PeriodBounds, Zenon DEF TimeInv, TypeOK
        <5>5. /\ Epoch(p) \in Int
              /\ Epoch(c) \in Int
              /\ Epoch(Period(now)) \in Int
              /\ Epoch(current[s]) \in Int
              /\ Epoch(Backward + Forward) \in Int
              /\ Epoch(1) \in Nat
          BY <1>2, <3>1, RotatorAssumption DEF Epoch
        <5> QED
          BY <5>2, <5>3, <5>4, <5>5, RotatorAssumption
      <4>2. Epoch(c) - Epoch(p) < Epoch(Backward + Forward + 2) + MaxLate
        <5>1. c - p < Backward + Forward + 2
          BY <1>1, <1>2, <3>1, RotatorAssumption
        <5>2. Epoch(c - p) < Epoch(Backward + Forward + 2)
          BY <1>2, <3>1, <5>1, EpochOrder, RotatorAssumption
        <5>3. /\ Epoch(c - p) = Epoch(c) - Epoch(p)
              /\ Epoch(c) \in Int
              /\ Epoch(p) \in Int
              /\ Epoch(Backward + Forward + 2) \in Int
          BY <1>2, <3>1, RotatorAssumption DEF Epoch
        <5> QED
          BY <5>2, <5>3, RotatorAssumption
      <4> QED
        <5>1. c \in Int
          BY ONLY <1>2
        <5>2. KeyIdOf(p) # KeyIdOf(c)
          BY ONLY <3>1, <3>3, <4>1, <4>2, <5>1, KeyIdsInUse, Zenon
        <5> QED BY <1>6, <3>1, <5>2, Zenon
    <3> QED
      BY <1>6, <3>3, Zenon
  <2>2. ASSUME NEW t \in Servers, t # s, Running(t),
               NEW p \in Period(now) - Backward .. synced[t] + Forward
        PROVE  Holds(t, p)'
    <3>1. Holds(t, p)
      BY <2>2, Zenon DEF WindowCached
    <3>2. Backward \in Nat /\ synced[t] \in Nat /\ Forward \in Nat
      BY <2>2, RotatorAssumption, Zenon DEF TypeOK
    <3>3. p \in Int
      BY ONLY <1>2, <2>2, <3>2
    <3> QED BY <1>6, <2>2, <3>1, <3>3, Zenon
  <2> QED
    BY <1>1, <2>1, <2>2, Zenon DEF WindowCached, Running
<1>12. StaleInv'
  <2>1. StaleInv /\ skipped' = skipped /\ current' = current
    BY <1>1, Zenon
  <2>2. tag.value.period >= current[s] - Backward
    BY <1>2, <1>4, Zenon
  <2>3. \A k \in KeyIds : cache'[s][k] = IF k = KeyIdOf(c) THEN tag ELSE cache[s][k]
    BY <1>4, <1>5, Zenon DEF TypeOK
  <2>4. ASSUME NEW t \in Servers, NEW k \in KeyIds, ~skipped'[t], cache'[t][k] # None
        PROVE  cache'[t][k].value.period >= current'[t] - Backward
    <3>1. CASE t = s /\ k = KeyIdOf(c)
      BY ONLY <2>1, <2>2, <2>3, <3>1, k \in KeyIds, Zenon
    <3>2. CASE ~(t = s /\ k = KeyIdOf(c))
      <4>1. cache'[t][k] = cache[t][k]
        BY ONLY <1>5, <2>3, <2>4, <3>2, Zenon
      <4>2. cache[t][k] # None /\ ~skipped[t]
        BY ONLY <2>1, <2>4, <4>1, Zenon
      <4> QED BY ONLY <2>1, <2>4, <4>1, <4>2, Zenon DEF StaleInv
    <3> QED BY <3>1, <3>2, Zenon
  <2> QED BY ONLY <2>4, Zenon DEF StaleInv
<1> QED
  BY <1>7, <1>8, <1>9, <1>10, <1>11, <1>12, Zenon

\* When the loop is through, the window around the period of the call is held.
LEMMA RotateEndInv ==
  ASSUME Inv, NEW s \in Servers, RotateEnd(s)
  PROVE  Inv'
<1> USE DEF Inv
<1>1. /\ pc[s] = "rotating"
      /\ cursor[s] = current[s] + Forward + 1
      /\ current[s] \in Nat
      /\ current[s] <= Period(now)
      /\ Period(now) \in Nat
      /\ now \in Nat
  <2>1. /\ pc[s] = "rotating"
        /\ cursor[s] > current[s] + Forward
    BY Zenon DEF RotateEnd, LastPeriod
  <2>2. /\ current[s] \in Nat
        /\ current[s] <= Period(now)
        /\ Period(now) \in Nat
        /\ now \in Nat
    BY Clock, Zenon DEF TypeOK, TimeInv
  <2>3. cursor[s] \in current[s] - Backward .. current[s] + Forward + 1
    BY <2>1, Zenon DEF CallInv
  <2>4. cursor[s] = current[s] + Forward + 1
    <3> HIDE DEF Inv
    <3> QED
      BY <2>1, <2>2, <2>3, RotatorAssumption
  <2> QED
    BY <2>1, <2>2, <2>4, Zenon
<1>2. /\ latest' = [latest EXCEPT ![s] = KeyIdOf(current[s])]
      /\ synced' = [synced EXCEPT ![s] = current[s]]
      /\ pc' = [pc EXCEPT ![s] = "asleep"]
      /\ try' = [try EXCEPT ![s] = 0]
      /\ wake' = [wake EXCEPT ![s] = IF try[s] = 0 THEN now + Duration ELSE now]
      /\ cursor' = [cursor EXCEPT ![s] = 0]
      /\ UNCHANGED <<now, storeVars, current, cache, skipped>>
  BY Zenon DEF RotateEnd
<1>3. KeyIdOf(current[s]) \in KeyIds
  BY <1>1, KeyIdType
<1>4. TypeOK'
  <2>1. Duration \in Nat /\ MaxTry \in Nat
    BY RotatorAssumption, Zenon
  <2>2. (IF try[s] = 0 THEN now + Duration ELSE now) \in Nat /\ 0 \in Nat /\ 0 \in 0 .. MaxTry
    BY ONLY <1>1, <2>1
  <2>3. /\ pc' \in [Servers -> {"down", "asleep", "rotating"}]
        /\ try' \in [Servers -> 0 .. MaxTry]
        /\ wake' \in [Servers -> Nat]
        /\ cursor' \in [Servers -> Nat]
    BY <1>2, <2>2, Zenon DEF TypeOK
  <2>4. latest' \in [Servers -> KeyIds] /\ synced' \in [Servers -> Nat]
    BY <1>1, <1>2, <1>3, Zenon DEF TypeOK
  <2> QED BY <1>2, <2>3, <2>4, Zenon DEF TypeOK, storeVars
<1>5. StoreInv'
  BY <1>2, Zenon DEF StoreInv, storeVars
<1>6. TimeInv'
  <2>1. Epoch(current[s] + 1) \in Int
    BY <1>1, EpochType
  <2>2. now <= wake[s] + MaxLate /\ wake[s] < Epoch(current[s] + 1)
    BY <1>1, Zenon DEF TimeInv
  <2> QED
    BY <1>1, <1>2, <2>1, <2>2, RotatorAssumption DEF TimeInv, TypeOK, Serving
<1>7. /\ \A t \in Servers : \A q : Holds(t, q)' <=> Holds(t, q)
      /\ Period(now)' = Period(now)
  BY <1>2, Zenon DEF Holds
<1>8. SlotInv'
  BY <1>1, <1>2, Zenon DEF SlotInv, TypeOK
<1>9. CallInv'
  BY <1>2, <1>7, Zenon DEF CallInv, TypeOK
<1>10. StaleInv'
  BY <1>2, Zenon DEF StaleInv
<1>11. LatestInv'
  BY <1>2, Zenon DEF LatestInv, TypeOK, Running
<1>12. WindowCached'
  <2>1. \A q \in current[s] - Backward .. current[s] + Forward : Holds(s, q)
    <3>1. \A q \in current[s] - Backward .. cursor[s] - 1 : Holds(s, q)
      BY <1>1, Zenon DEF CallInv
    <3>2. cursor[s] - 1 = current[s] + Forward
      BY ONLY <1>1, RotatorAssumption
    <3> QED
      BY ONLY <3>1, <3>2, Zenon
  <2>2. ASSUME NEW p \in Period(now) - Backward .. current[s] + Forward
        PROVE  p \in current[s] - Backward .. current[s] + Forward
    BY ONLY <1>1, <2>2, RotatorAssumption
  <2>3. ASSUME NEW t \in Servers, Running(t)',
               NEW p \in (Period(now) - Backward .. synced[t] + Forward)'
        PROVE  Holds(t, p)'
    <3>1. CASE t = s
      BY <1>2, <1>7, <2>1, <2>2, <2>3, <3>1, Zenon DEF TypeOK
    <3>2. CASE t # s
      BY <1>2, <1>7, <2>3, <3>2, Zenon DEF WindowCached, TypeOK, Running
    <3> QED
      BY <3>1, <3>2, Zenon
  <2> QED
    BY <2>3, Zenon DEF WindowCached
<1> QED
  BY <1>4, <1>5, <1>6, <1>8, <1>9, <1>10, <1>11, <1>12, Zenon

\* One step per action.
LEMMA NextInv == Inv /\ [Next]_vars => Inv'
<1> SUFFICES ASSUME Inv, [Next]_vars
             PROVE  Inv'
  BY Zenon
<1>1. CASE Tick
  BY <1>1, TickInv, Zenon
<1>2. CASE Store
  BY <1>2, StoreStepInv, Zenon
<1>3. ASSUME NEW s \in Servers, Process(s)
      PROVE  Inv'
  <2>1. CASE Start(s)
    BY <2>1, StartInv, Zenon
  <2>2. CASE Crash(s)
    BY <2>2, ForgetInv, Zenon DEF Crash, Inv, TypeOK, TimeInv
  <2>3. CASE RotateBegin(s)
    BY <2>3, RotateBeginInv, Zenon
  <2>4. CASE RotateHit(s)
    BY <2>4, RotateHitInv, Zenon
  <2>5. CASE RotateMiss(s)
    BY <2>5, RotateMissInv, Zenon
  <2>6. CASE RotateEnd(s)
    BY <2>6, RotateEndInv, Zenon
  <2> QED
    BY <1>3, <2>1, <2>2, <2>3, <2>4, <2>5, <2>6, Zenon DEF Process, Rotate
<1>4. CASE UNCHANGED vars
  <2> USE <1>4 DEF vars, storeVars, procVars
  <2>1. TypeOK' /\ StoreInv'
    BY Zenon DEF Inv, TypeOK, StoreInv
  <2>2. TimeInv'
    BY Zenon DEF Inv, TimeInv, Serving
  <2>3. SlotInv' /\ LatestInv' /\ StaleInv'
    BY Zenon DEF Inv, SlotInv, LatestInv, StaleInv, Running
  <2>4. CallInv' /\ WindowCached'
    BY ZenonT(60) DEF Inv, CallInv, WindowCached, Running, Holds
  <2> QED
    BY <2>1, <2>2, <2>3, <2>4, Zenon DEF Inv
<1> QED
  BY <1>1, <1>2, <1>3, <1>4, Zenon DEF Next

-----------------------------------------------------------------------------
(* The theorems.                                                           *)

\* Every reachable state satisfies the inductive invariant.
THEOREM Invariance == Spec => []Inv
  BY InitInv, NextInv, PTL DEF Spec

\* Types are kept.
THEOREM TypeCorrect == Spec => []TypeOK
<1>1. Inv => TypeOK
  BY Zenon DEF Inv
<1> QED
  BY <1>1, Invariance, PTL

\* The cache of a connected rotator holds the key of every period from
\* Backward periods ago to Forward periods after the last successful rotate().
THEOREM WindowAlwaysCached == Spec => []WindowCached
<1>1. Inv => WindowCached
  BY Zenon DEF Inv
<1> QED
  BY <1>1, Invariance, PTL

\* latest_key_value() cannot panic for Backward periods after a success.
THEOREM LatestKeyUsable == Spec => []LatestUsable
<1>1. Inv => LatestUsable
  <2> SUFFICES ASSUME Inv, NEW s \in Servers, Serving(s),
                      Period(now) <= synced[s] + Backward
               PROVE  latest[s] = KeyIdOf(synced[s]) /\ Holds(s, synced[s])
    BY Zenon DEF LatestUsable
  <2>1. Running(s)
    BY Zenon DEF Serving, Running
  <2>2. synced[s] \in Period(now) - Backward .. synced[s] + Forward
    BY Clock, RotatorAssumption DEF Inv, TypeOK
  <2> QED
    BY <2>1, <2>2, Zenon DEF Inv, LatestInv, WindowCached
<1> QED
  BY <1>1, Invariance, PTL

\* A key whose period has left the window is gone from the cache, unless a
\* period went by without a call of rotate().
THEOREM StaleKeysGone == Spec => []NoStaleKeys
<1>1. Inv => NoStaleKeys
  BY Zenon DEF Inv, StaleInv, NoStaleKeys
<1> QED
  BY <1>1, Invariance, PTL

\* The next call of rotate() comes before the forward keys run out.
LEMMA LagCovered ==
  ASSUME Inv, NEW t \in Servers, Serving(t)
  PROVE  Period(now) <= current[t] + Forward
<1>1. /\ current[t] \in Nat
      /\ Period(now) \in Nat
      /\ now \in Nat
      /\ wake[t] \in Nat
  BY Clock, Zenon DEF Inv, TypeOK
<1>2. /\ now <= wake[t] + MaxLate
      /\ wake[t] < Epoch(current[t] + 1) + MaxLate + Duration
  BY Zenon DEF Inv, TimeInv, Serving
<1>3. /\ Epoch(current[t] + 1) \in Int
      /\ Epoch(Forward) \in Int
      /\ Epoch(current[t] + 1 + Forward) = Epoch(current[t] + 1) + Epoch(Forward)
      /\ Duration + 2 * MaxLate <= Epoch(Forward)
  BY <1>1, LagAssumption, RotatorAssumption DEF Epoch
<1>4. Epoch(Period(now)) <= now /\ Epoch(Period(now)) \in Int
  BY <1>1, PeriodBounds, EpochType
<1>5. Epoch(Period(now)) < Epoch(current[t] + 1 + Forward)
  BY <1>1, <1>2, <1>3, <1>4, RotatorAssumption
<1>6. Period(now) < current[t] + 1 + Forward
  BY <1>1, <1>5, EpochOrder, RotatorAssumption
<1>7. Forward \in Nat
  BY RotatorAssumption, Zenon
<1> QED
  BY ONLY <1>1, <1>6, <1>7

\* A server whose last rotation succeeded has the key of the cookies that any
\* other server makes.
THEOREM FriendsShareKeys == Spec => []FriendsHaveOurKey
<1>1. Inv => FriendsHaveOurKey
  <2> SUFFICES ASSUME Inv, NEW s \in Servers, NEW t \in Servers, Serving(s),
                      Period(now) <= synced[s] + Backward, Serving(t),
                      synced[t] = current[t]
               PROVE  Holds(t, synced[s])
    BY Zenon DEF FriendsHaveOurKey
  <2>1. /\ synced[s] \in Nat
        /\ synced[t] \in Nat
        /\ synced[s] <= Period(now)
        /\ Period(now) \in Nat
    BY Clock, Zenon DEF Inv, TypeOK, TimeInv
  <2>2. Period(now) <= synced[t] + Forward
    BY LagCovered, Zenon
  <2>3. synced[s] \in Period(now) - Backward .. synced[t] + Forward
    BY <2>1, <2>2, RotatorAssumption
  <2>4. Running(t)
    BY Zenon DEF Serving, Running
  <2> QED
    BY <2>3, <2>4, Zenon DEF Inv, WindowCached
<1> QED
  BY <1>1, Invariance, PTL

=============================================================================
