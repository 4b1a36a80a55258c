------------------------------ MODULE Campaign ------------------------------
(***************************************************************************)
(* What the state files of the experiment (tests/reqs_per_second and       *)
(* tests/num_aux_clients) achieve: every rate up to Limit is measured, in  *)
(* steps of Step, with 0, 1, 2, ... auxiliary clients in turn (that the    *)
(* last of these numbers is MaxAux is not the files' doing).  After an     *)
(* interruption the rates of the present number of auxiliary clients may   *)
(* begin again.  The files are not written together: an interruption       *)
(* between them passes over a number of auxiliary clients as a whole.      *)
(***************************************************************************)
EXTENDS CampaignBounds

VARIABLES
  aux, rate,   \* the point that is next
  measured,    \* points with a complete run
  torn         \* numbers of auxiliary clients passed over

vars == <<aux, rate, measured, torn>>

Rates == {r \in 1 .. Limit : \E k \in 1 .. Limit : r = k * Step}

Init ==
  /\ aux = 0
  /\ rate = Step
  /\ measured = {}
  /\ torn = {}

Measure ==
  /\ rate <= Limit
  /\ measured' = measured \cup {<<aux, rate>>}
  /\ rate' = rate + Step
  /\ UNCHANGED <<aux, torn>>

BeginAgain ==
  /\ aux \notin torn
  /\ rate' = Step
  /\ UNCHANGED <<aux, measured, torn>>

NextAux ==
  /\ rate > Limit
  /\ aux' = aux + 1
  /\ rate' = Step
  /\ UNCHANGED <<measured, torn>>

\* The new number is kept and the old rate, which is past the limit, comes back.
Tear ==
  /\ rate = Step
  /\ \A r \in Rates : <<aux, r>> \notin measured
  /\ rate' > Limit
  /\ \E k \in 1 .. Limit + 1 : rate' = k * Step
  /\ torn' = torn \cup {aux}
  /\ UNCHANGED <<aux, measured>>

Next == Measure \/ BeginAgain \/ NextAux \/ Tear

Spec == Init /\ [][Next]_vars

-----------------------------------------------------------------------------
\* SkippedOnlyIfTorn: when the experiment has moved on to more auxiliary clients
\* (gather_measurements.sh), every rate was measured with each smaller number of
\* them, or none at all if the change to that number was torn; and every rate
\* below the present one was measured with the present number.
SkippedOnlyIfTorn ==
  /\ \A a \in 0 .. aux - 1, r \in Rates : <<a, r>> \in measured <=> a \notin torn
  /\ aux \notin torn => \A r \in Rates : r < rate => <<aux, r>> \in measured

=============================================================================
