------------------------- MODULE RotatorLockProofs --------------------------
(***************************************************************************)
(* An answer sees one set of keys, for every number of workers and of      *)
(* placeholders and under both lock policies.                              *)
(***************************************************************************)
EXTENDS RotatorLock, TLAPS

\* The guards a worker holds follow from where it is.
Held(p) == IF p \in {"receive", "lookup"} THEN 0 ELSE IF p = "minting" THEN 2 ELSE 1

\* A worker between its lookup and its reply holds a guard, hence nobody
\* rotates; the keys only change when nobody holds one.
LockInv ==
  /\ TypeOK
  /\ \A w \in Workers : guards[w] = Held(pc[w])
  /\ rotator = "rotate" => \A w \in Workers : pc[w] \in {"receive", "lookup"}
  /\ OneRotationPerAnswer

\* Nobody holds the lock at the start.
LEMMA InitLock == Init => LockInv
BY LockAssumption DEF Init, LockInv, TypeOK, Held, OneRotationPerAnswer

\* A worker that takes or returns a guard keeps the invariant.
LEMMA WorkerLock ==
  ASSUME LockInv, NEW w \in Workers, Receive(w) \/ Answer(w)
  PROVE  LockInv'
<1> USE LockAssumption
<1>1. CASE Receive(w)
  <2>1. TypeOK'
    BY <1>1 DEF Receive, LockInv, TypeOK
  <2> QED BY <2>1, <1>1 DEF Receive, LockInv, TypeOK, Held, OneRotationPerAnswer
<1>2. CASE Lookup(w)
  <2>1. TypeOK'
    BY <1>2 DEF Lookup, LockInv, TypeOK
  <2> QED BY <2>1, <1>2 DEF Lookup, CanRead, LockInv, TypeOK, Held, OneRotationPerAnswer
<1>3. CASE Process(w)
  <2>1. TypeOK'
    BY <1>3 DEF Process, LockInv, TypeOK
  <2> QED BY <2>1, <1>3 DEF Process, LockInv, TypeOK, Held, OneRotationPerAnswer
<1>4. CASE MintLock(w)
  <2>1. guards[w] = 1
    BY <1>4 DEF MintLock, LockInv, Held
  <2>2. guards' = [guards EXCEPT ![w] = 2]
    BY <2>1, <1>4 DEF MintLock, LockInv, TypeOK
  <2>3. TypeOK'
    BY <2>2, <1>4 DEF MintLock, LockInv, TypeOK
  <2> QED BY <2>2, <2>3, <1>4 DEF MintLock, LockInv, TypeOK, Held, OneRotationPerAnswer
<1>5. CASE MintUnlock(w)
  <2>1. guards[w] = 2
    BY <1>5 DEF MintUnlock, LockInv, Held
  <2>2. guards' = [guards EXCEPT ![w] = 1]
    BY <2>1, <1>5 DEF MintUnlock, LockInv, TypeOK
  <2>3. left' \in [Workers -> 0 .. MaxPlaceholders]
    BY <1>5 DEF MintUnlock, LockInv, TypeOK
  <2>4. pc' = [pc EXCEPT ![w] = "mint"] \/ pc' = [pc EXCEPT ![w] = "done"]
    BY <1>5 DEF MintUnlock
  <2>5. UNCHANGED <<build, rotator, keys, found>>
    BY <1>5 DEF MintUnlock
  <2>6. pc' \in [Workers -> {"receive", "lookup", "found", "mint", "minting", "done"}]
    BY <2>4 DEF LockInv, TypeOK
  <2>7. guards' \in [Workers -> 0 .. 2]
    BY <2>2 DEF LockInv, TypeOK
  <2>8. TypeOK'
    BY <2>3, <2>5, <2>6, <2>7 DEF LockInv, TypeOK
  <2> QED BY <2>2, <2>4, <2>5, <2>8, <1>5 DEF MintUnlock, LockInv, TypeOK, Held, OneRotationPerAnswer
<1>6. CASE Reply(w)
  <2>1. TypeOK'
    BY <1>6 DEF Reply, LockInv, TypeOK
  <2> QED BY <2>1, <1>6 DEF Reply, LockInv, TypeOK, Held, OneRotationPerAnswer
<1> QED BY <1>1, <1>2, <1>3, <1>4, <1>5, <1>6 DEF Answer

\* The rotating thread changes the keys with the write guard only.
LEMMA RotatorThreadLock ==
  ASSUME LockInv, RotatorThread
  PROVE  LockInv'
<1> USE LockAssumption
<1>1. CASE Rotate
  <2>1. ASSUME NEW w \in Workers PROVE pc[w] \in {"receive", "lookup"}
    BY <1>1 DEF Rotate, CanWrite, LockInv, Held
  <2> QED BY <2>1, <1>1 DEF Rotate, LockInv, TypeOK, OneRotationPerAnswer
<1>2. CASE Rotated
  BY <1>2 DEF Rotated, LockInv, TypeOK, OneRotationPerAnswer
<1>3. CASE ReadSleep
  BY <1>3 DEF ReadSleep, LockInv, TypeOK, OneRotationPerAnswer
<1>4. CASE Wake
  BY <1>4 DEF Wake, LockInv, TypeOK, OneRotationPerAnswer
<1> QED BY <1>1, <1>2, <1>3, <1>4 DEF RotatorThread

\* Every step of the process keeps the invariant.
LEMMA NextLock == LockInv /\ [Next]_vars => LockInv'
<1> SUFFICES ASSUME LockInv, [Next]_vars PROVE LockInv'
  OBVIOUS
<1>1. CASE UNCHANGED vars
  BY <1>1 DEF vars, LockInv, TypeOK, OneRotationPerAnswer
<1>2. CASE Next
  BY <1>2, WorkerLock, RotatorThreadLock DEF Next
<1> QED BY <1>1, <1>2

\* LockTypeCorrect: no worker ever holds more than the two guards that
\* response() and nts_response of the NTP server take.
THEOREM LockTypeCorrect == Spec => []TypeOK
<1>1. LockInv => TypeOK
  BY DEF LockInv
<1> QED BY InitLock, NextLock, <1>1, PTL DEF Spec

\* AnswerSeesOneRotation: no rotation comes between the lookup of a cookie's
\* key and the last cookie of the answer.
THEOREM AnswerSeesOneRotation == Spec => []OneRotationPerAnswer
<1>1. LockInv => OneRotationPerAnswer
  BY DEF LockInv
<1> QED BY InitLock, NextLock, <1>1, PTL DEF Spec

=============================================================================
