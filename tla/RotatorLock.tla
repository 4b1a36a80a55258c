---------------------------- MODULE RotatorLock -----------------------------
(***************************************************************************)
(* The RwLock around the KeyRotator of one process: the threads that answer *)
(* requests read it, the thread of periodic_rotate writes it.              *)
(*                                                                         *)
(* response() of the NTP server keeps the guard with which it looked up    *)
(* the key of the cookie while nts_response takes the lock again for every *)
(* cookie it makes.  response() of the NTS-KE server makes its eight       *)
(* cookies under one guard.                                                *)
(***************************************************************************)
EXTENDS Naturals

CONSTANTS
  Workers,          \* threads that answer requests
  Builds,           \* the server and the lock policy of a process:
                    \* nested: TRUE for the NTP, FALSE for the NTS-KE server
                    \* writerFirst: does a waiting writer hold back readers?
  MaxPlaceholders   \* bound: cookie placeholders in a query

ASSUME LockAssumption ==
  /\ Builds \subseteq [nested : BOOLEAN, writerFirst : BOOLEAN]
  /\ MaxPlaceholders \in Nat

VARIABLES
  build,     \* what this process is
  pc,        \* what each worker is doing
  guards,    \* read guards each worker holds
  left,      \* placeholders each worker still has to answer
  rotator,   \* what the rotating thread is doing
  keys,      \* parity of the number of rotations: which keys are cached
  found      \* history: the keys among which each worker found its cookie's

vars == <<build, pc, guards, left, rotator, keys, found>>

Init ==
  /\ build \in Builds
  /\ pc = [w \in Workers |-> "receive"]
  /\ guards = [w \in Workers |-> 0]
  /\ left = [w \in Workers |-> 0]
  /\ rotator = "wait"
  /\ keys = 0
  /\ found = [w \in Workers |-> 0]

\* read() succeeds when no writer holds the lock and, under a policy that
\* prefers writers, when none waits for it either (external: std::sync).
CanRead ==
  /\ rotator # "rotate"
  /\ build.writerFirst => rotator # "wait"

CanWrite == \A w \in Workers : guards[w] = 0

-----------------------------------------------------------------------------
(* A worker.                                                               *)

\* A request with n placeholders of at least COOKIE_SIZE bytes.
Receive(w) ==
  /\ pc[w] = "receive"
  /\ \E n \in 0 .. MaxPlaceholders :
       /\ build.nested \/ n = 0
       /\ left' = [left EXCEPT ![w] = n]
  /\ pc' = [pc EXCEPT ![w] = "lookup"]
  /\ UNCHANGED <<build, guards, rotator, keys, found>>

\* Mutant: the guard is dropped as soon as the key has been copied.
UnguardedLookup(w) ==
  /\ pc[w] = "lookup"
  /\ CanRead
  /\ found' = [found EXCEPT ![w] = keys]
  /\ pc' = [pc EXCEPT ![w] = "found"]
  /\ UNCHANGED <<build, guards, left, rotator, keys>>

Lookup(w) ==
  /\ pc[w] = "lookup"
  /\ CanRead
  /\ guards' = [guards EXCEPT ![w] = 1]
  /\ found' = [found EXCEPT ![w] = keys]
  /\ pc' = [pc EXCEPT ![w] = "found"]
  /\ UNCHANGED <<build, left, rotator, keys>>

\* The cookie opens and the query is authentic: nts_response is called.
Process(w) ==
  /\ build.nested
  /\ pc[w] = "found"
  /\ pc' = [pc EXCEPT ![w] = "mint"]
  /\ UNCHANGED <<build, guards, left, rotator, keys, found>>

\* Take the lock for one more cookie ...
MintLock(w) ==
  /\ pc[w] = "mint"
  /\ CanRead
  /\ guards' = [guards EXCEPT ![w] = @ + 1]
  /\ pc' = [pc EXCEPT ![w] = "minting"]
  /\ UNCHANGED <<build, left, rotator, keys, found>>

\* Mutant: the guard of a placeholder's cookie outlives its iteration.
LeakyMintUnlock(w) ==
  /\ pc[w] = "minting"
  /\ \/ /\ left[w] > 0
        /\ left' = [left EXCEPT ![w] = @ - 1]
        /\ pc' = [pc EXCEPT ![w] = "mint"]
     \/ /\ left[w] = 0
        /\ pc' = [pc EXCEPT ![w] = "done"]
        /\ UNCHANGED left
  /\ UNCHANGED <<build, guards, rotator, keys, found>>

\* ... and give it back.  The free cookie comes after the placeholders.
MintUnlock(w) ==
  /\ pc[w] = "minting"
  /\ guards' = [guards EXCEPT ![w] = @ - 1]
  /\ \/ /\ left[w] > 0
        /\ left' = [left EXCEPT ![w] = @ - 1]
        /\ pc' = [pc EXCEPT ![w] = "mint"]
     \/ /\ left[w] = 0
        /\ pc' = [pc EXCEPT ![w] = "done"]
        /\ UNCHANGED left
  /\ UNCHANGED <<build, rotator, keys, found>>

\* Mutant: the guard outlives the answer.
KeepingReply(w) ==
  /\ pc[w] \in {"found", "done"}
  /\ left' = [left EXCEPT ![w] = 0]
  /\ pc' = [pc EXCEPT ![w] = "receive"]
  /\ UNCHANGED <<build, guards, rotator, keys, found>>

\* The end of response(): of the NTP server with a kiss of death or after
\* nts_response, of the NTS-KE server after its cookies.
Reply(w) ==
  /\ pc[w] \in {"found", "done"}
  /\ guards' = [guards EXCEPT ![w] = 0]
  /\ left' = [left EXCEPT ![w] = 0]
  /\ pc' = [pc EXCEPT ![w] = "receive"]
  /\ UNCHANGED <<build, rotator, keys, found>>

-----------------------------------------------------------------------------
(* The thread of periodic_rotate.                                          *)

Rotate ==
  /\ rotator = "wait"
  /\ CanWrite
  /\ rotator' = "rotate"
  /\ UNCHANGED <<build, pc, guards, left, keys, found>>

\* Mutant: the write guard is taken once, outside the loop.
HoistedRotated ==
  /\ rotator = "rotate"
  /\ keys' = 1 - keys
  /\ UNCHANGED <<build, pc, guards, left, rotator, found>>

Rotated ==
  /\ rotator = "rotate"
  /\ keys' = 1 - keys
  /\ rotator' = "rotated"
  /\ UNCHANGED <<build, pc, guards, left, found>>

\* read_sleep takes and returns the lock; nobody else can write meanwhile.
ReadSleep ==
  /\ rotator = "rotated"
  /\ CanRead
  /\ rotator' = "asleep"
  /\ UNCHANGED <<build, pc, guards, left, keys, found>>

Wake ==
  /\ rotator = "asleep"
  /\ rotator' = "wait"
  /\ UNCHANGED <<build, pc, guards, left, keys, found>>

-----------------------------------------------------------------------------
Answer(w) ==
  Lookup(w) \/ Process(w) \/ MintLock(w) \/ MintUnlock(w) \/ Reply(w)

RotatorThread == Rotate \/ Rotated \/ ReadSleep \/ Wake

Next ==
  \/ \E w \in Workers : Receive(w) \/ Answer(w)
  \/ RotatorThread

\* A thread that can run does, and nobody has to send a request.  A worker
\* that waits for the lock gets it, as it is free for the hour the rotating
\* thread sleeps between two rotations.  A rotation that waits when the last
\* guard is returned is handed the lock (external: pthread_rwlock_unlock).
Fairness ==
  /\ \A w \in Workers : SF_vars(Answer(w))
  /\ WF_vars(RotatorThread)
  /\ SF_vars(Rotate)

Spec == Init /\ [][Next]_vars /\ Fairness

-----------------------------------------------------------------------------
\* Every variable keeps its type; a worker never holds more than two guards.
TypeOK ==
  /\ build \in Builds
  /\ pc \in [Workers ->
       {"receive", "lookup", "found", "mint", "minting", "done"}]
  /\ guards \in [Workers -> 0 .. 2]
  /\ left \in [Workers -> 0 .. MaxPlaceholders]
  /\ rotator \in {"asleep", "wait", "rotate", "rotated"}
  /\ keys \in {0, 1}
  /\ found \in [Workers -> {0, 1}]

\* The cookies of an answer are made with the keys among which the cookie of
\* the query was found: no rotation comes between eat_cookie and make_cookie,
\* nor between two cookies of one answer.
OneRotationPerAnswer ==
  \A w \in Workers :
    pc[w] \in {"found", "mint", "minting", "done"} => keys = found[w]

\* Every request that reaches the lock is answered.
RequestsAnswered ==
  \A w \in Workers : pc[w] # "receive" ~> pc[w] = "receive"

\* Only requests that overlap without end keep periodic_rotate from the lock:
\* if again and again, for however short a time, no request is being answered,
\* then rotations go on for ever, under both lock policies.
RotationsGoOnIfIdle ==
  []<>(\A w \in Workers : pc[w] = "receive") => []<>(rotator = "rotate")

=============================================================================
