---------------------------- MODULE SweepProofs -----------------------------
(***************************************************************************)
(* No point of the experiment is skipped, however often it begins again,   *)
(* for every step, limit and number of auxiliary clients: first for the    *)
(* experiment of module Campaign in the variables of the sweep, then for   *)
(* the scripts and the client, which implement it.  Then the results: they *)
(* carry the label of the load they were made under, and a run that gets to*)
(* its summary is accounted for in them.                                   *)
(***************************************************************************)
EXTENDS Sweep, FiniteSetTheorems, TLAPS

\* The present rate is a multiple of the step: without it the induction would
\* not know that no rate lies between this one and the next.  A torn number has
\* no measurement and gets none, because its rate is past the limit.
CampaignInv ==
  /\ AuxNow \in Nat
  /\ \E k \in Nat \ {0} : Rate = k * Step
  /\ torn \subseteq 0 .. AuxNow
  /\ AuxNow \in torn => Rate > Limit /\ \A r \in Experiment!Rates : <<AuxNow, r>> \notin measured
  /\ Experiment!SkippedOnlyIfTorn

\* Products with the step grow with the other factor.
LEMMA StepsGrow ==
  ASSUME NEW a \in Nat, NEW b \in Nat, a <= b
  PROVE  a * Step <= b * Step
  <1>1. PICK d \in Nat : b = a + d
    <2>1. b - a \in Nat /\ b = a + (b - a)
      OBVIOUS
    <2> QED BY <2>1, Zenon
  <1>2. b * Step = a * Step + d * Step
    BY <1>1, StepAssumption
  <1>3. d * Step \in Nat /\ a * Step \in Nat
    BY StepAssumption
  <1> QED BY <1>2, <1>3

\* No rate lies strictly between a rate and the next.
LEMMA NoRateBetween ==
  ASSUME NEW k \in Nat, NEW r \in Experiment!Rates, r < (k + 1) * Step
  PROVE  r <= k * Step
  <1>1. PICK n \in 1 .. Limit : r = n * Step
    BY Zenon DEF Experiment!Rates
  <1>2. n \in Nat /\ k + 1 \in Nat /\ n * Step \in Nat /\ k * Step \in Nat /\ (k + 1) * Step \in Nat
    BY <1>1, LimitAssumption, StepAssumption
  <1>3. n <= k
    <2>1. SUFFICES ASSUME k + 1 <= n PROVE FALSE
      BY <1>2
    <2>2. (k + 1) * Step <= n * Step
      BY <2>1, <1>2, StepsGrow, Zenon
    <2> QED BY <2>2, <1>1, <1>2
  <1> QED BY <1>1, <1>2, <1>3, StepsGrow, Zenon

\* The first rate is the smallest: nothing is below it.
LEMMA NoRateBelowFirst ==
  ASSUME NEW r \in Experiment!Rates
  PROVE  ~(r < Step)
  <1>1. r \in 1 .. Limit
    BY Zenon DEF Experiment!Rates
  <1>2. (0 + 1) * Step = Step /\ 0 * Step = 0
    BY StepAssumption
  <1>3. r < Step => r <= 0
    BY <1>2, NoRateBetween, Zenon
  <1> QED BY <1>1, <1>3, LimitAssumption

\* The two files at their defaults satisfy the invariant.
LEMMA CampaignInit == Experiment!Init => CampaignInv
  <1> SUFFICES ASSUME Experiment!Init PROVE CampaignInv
    BY Zenon
  <1>1. 1 * Step = Step /\ 1 \in Nat \ {0}
    BY StepAssumption
  <1>2. Experiment!SkippedOnlyIfTorn
    BY NoRateBelowFirst DEF Experiment!Init, Experiment!SkippedOnlyIfTorn
  <1> QED BY <1>1, <1>2, Zenon DEF Experiment!Init, CampaignInv

\* Measuring, beginning again, taking one more auxiliary client and a torn change
\* keep it.
LEMMA CampaignNext == CampaignInv /\ [Experiment!Next]_(Experiment!vars) => CampaignInv'
  <1> SUFFICES ASSUME CampaignInv, [Experiment!Next]_(Experiment!vars) PROVE CampaignInv'
    BY Zenon
  <1>1. PICK k \in Nat \ {0} : Rate = k * Step
    BY Zenon DEF CampaignInv
  <1>2. AuxNow \in Nat /\ Step \in Nat \ {0} /\ Rate \in Nat
    BY <1>1, StepAssumption DEF CampaignInv
  <1>3. 1 * Step = Step /\ 1 \in Nat \ {0}
    BY StepAssumption
  <1>4. CASE Experiment!Measure
    <2>1. Rate' = (k + 1) * Step /\ k + 1 \in Nat \ {0}
      BY <1>1, <1>2, <1>4 DEF Experiment!Measure
    <2>2. AuxNow \notin torn
      BY <1>2, <1>4, LimitAssumption DEF Experiment!Measure, CampaignInv
    <2>3. ASSUME NEW r \in Experiment!Rates, r < Rate' PROVE <<AuxNow', r>> \in measured'
      <3>1. r <= Rate /\ r \in Nat
        BY <2>1, <2>3, <1>1, NoRateBetween, LimitAssumption DEF Experiment!Rates
      <3>2. CASE r = Rate
        BY <3>2, <1>4, Zenon DEF Experiment!Measure
      <3>3. CASE r < Rate
        BY <3>3, <2>2, <1>4, Zenon DEF Experiment!Measure, CampaignInv, Experiment!SkippedOnlyIfTorn
      <3> QED BY <3>1, <3>2, <3>3, <1>2
    <2>4. ASSUME NEW a \in 0 .. AuxNow' - 1, NEW r \in Experiment!Rates
          PROVE  <<a, r>> \in measured' <=> a \notin torn'
      <3>1. a \in 0 .. AuxNow - 1 /\ a # AuxNow
        BY <1>2, <1>4 DEF Experiment!Measure
      <3>2. <<a, r>> \in measured' <=> <<a, r>> \in measured
        BY <3>1, <1>4, Zenon DEF Experiment!Measure
      <3> QED BY <3>1, <3>2, <1>4, Zenon DEF Experiment!Measure, CampaignInv, Experiment!SkippedOnlyIfTorn
    <2>5. Experiment!SkippedOnlyIfTorn'
      BY <2>3, <2>4, Zenon DEF Experiment!SkippedOnlyIfTorn
    <2> QED BY <2>1, <2>2, <2>5, <1>2, <1>4, Zenon DEF Experiment!Measure, CampaignInv
  <1>5. CASE Experiment!BeginAgain
    <2>1. \A a \in 0 .. AuxNow' - 1, r \in Experiment!Rates : <<a, r>> \in measured' <=> a \notin torn'
      BY <1>5, Zenon DEF Experiment!BeginAgain, CampaignInv, Experiment!SkippedOnlyIfTorn
    <2>2. Experiment!SkippedOnlyIfTorn'
      BY <2>1, <1>5, NoRateBelowFirst, Zenon DEF Experiment!BeginAgain, Experiment!SkippedOnlyIfTorn
    <2> QED BY <2>2, <1>2, <1>3, <1>5, Zenon DEF Experiment!BeginAgain, CampaignInv
  <1>6. CASE Experiment!NextAux
    <2>1. ASSUME NEW a \in 0 .. AuxNow' - 1, NEW r \in Experiment!Rates
          PROVE  <<a, r>> \in measured' <=> a \notin torn'
      <3>1. r < Rate
        BY <1>2, <1>6, LimitAssumption DEF Experiment!Rates, Experiment!NextAux
      <3>2. a \in 0 .. AuxNow - 1 \/ a = AuxNow
        BY <1>2, <1>6 DEF Experiment!NextAux
      <3> QED BY <3>1, <3>2, <1>6, Zenon DEF Experiment!NextAux, CampaignInv, Experiment!SkippedOnlyIfTorn
    <2>2. torn' \subseteq 0 .. AuxNow' /\ AuxNow' \notin torn'
      BY <1>2, <1>6 DEF Experiment!NextAux, CampaignInv
    <2>3. Experiment!SkippedOnlyIfTorn'
      BY <2>1, <1>6, NoRateBelowFirst, Zenon DEF Experiment!NextAux, Experiment!SkippedOnlyIfTorn
    <2> QED BY <2>2, <2>3, <1>2, <1>3, <1>6 DEF Experiment!NextAux, CampaignInv
  <1>7. CASE Experiment!Tear
    <2>1. \E n \in Nat \ {0} : Rate' = n * Step
      BY <1>7, LimitAssumption DEF Experiment!Tear
    <2>2. torn' \subseteq 0 .. AuxNow' /\ AuxNow' \in torn'
      BY <1>2, <1>7 DEF Experiment!Tear, CampaignInv
    <2>3. ASSUME NEW a \in 0 .. AuxNow' - 1, NEW r \in Experiment!Rates
          PROVE  <<a, r>> \in measured' <=> a \notin torn'
      <3>1. a \in 0 .. AuxNow - 1 /\ a # AuxNow
        BY <1>2, <1>7 DEF Experiment!Tear
      <3> QED BY <3>1, <1>7, Zenon DEF Experiment!Tear, CampaignInv, Experiment!SkippedOnlyIfTorn
    <2>4. Experiment!SkippedOnlyIfTorn'
      BY <2>2, <2>3, Zenon DEF Experiment!SkippedOnlyIfTorn
    <2> QED BY <2>1, <2>2, <2>4, <1>2, <1>7, Zenon DEF Experiment!Tear, CampaignInv
  <1>8. CASE UNCHANGED Experiment!vars
    BY <1>8, Zenon DEF Experiment!vars, CampaignInv, Experiment!SkippedOnlyIfTorn
  <1> QED BY <1>4, <1>5, <1>6, <1>7, <1>8, Zenon DEF Experiment!Next

\* AlwaysSkippedOnlyIfTorn: the experiment of Campaign, which the scripts and the
\* client implement, moves past a rate it has not measured only where a change of
\* the number of auxiliary clients was torn.
THEOREM AlwaysSkippedOnlyIfTorn == ImplementsCampaign => []SkippedOnlyIfTorn
  <1>1. CampaignInv => SkippedOnlyIfTorn
    BY Zenon DEF CampaignInv, SkippedOnlyIfTorn
  <1> QED
    BY CampaignInit, CampaignNext, <1>1, PTL DEF ImplementsCampaign, Experiment!Spec

-----------------------------------------------------------------------------
(* The files, the script and the process.                                  *)

\* What the variables hold.
SweepTypes ==
  /\ reqs \in Nat \cup {Empty}
  /\ num_aux \in 0 .. MaxAux + MaxOver \cup {Empty}
  /\ arbFile \in 0 .. MaxAux + MaxOver \cup {Empty}
  /\ proc \in [pc : {"none", "warmup", "submit", "summary", "create", "write", "exit"},
               rate : Nat, aux : Nat, submitted : Nat]
  /\ arb \in [pc : {"server", "aux", "gather", "off"}, count : Nat, started : Nat]
  /\ script \in {"none", "start", "stop", "local", "tell", "reset", "run", "wait"}

\* The arbiter waits for the script, and the script for the process.
OneAtATime ==
  /\ arb.pc \in {"server", "aux"} => script = "none"
  /\ script \in {"start", "stop"} => arb.pc = "gather"
  /\ script # "wait" => proc.pc = "none"

\* What is known of the two files at each place of the script.
ScriptInv ==
  /\ script \in {"stop", "local", "tell", "reset", "run", "wait"} => num_aux # Empty
  /\ script \in {"stop", "local", "tell", "reset"} => reqs # Empty /\ reqs > Limit
  /\ script = "run" /\ reqs # Empty => reqs <= Limit

\* What is known of them at each place of the process.
ProcInv ==
  /\ proc.pc # "none" => proc.aux = num_aux /\ proc.rate <= Limit
                         /\ \E k \in 1 .. Limit : proc.rate = k * Step
  /\ proc.pc \in {"warmup", "submit", "summary", "create"} => reqs = proc.rate
  /\ proc.pc = "write" => reqs = Empty

RateInv ==
  reqs # Empty => \E k \in 1 .. Limit + 1 : reqs = k * Step

\* The last number of auxiliary clients ends the experiment, unless the arbiter
\* misses that: PastLastOnlyIfMissed, from the script's decision on.
EndInv ==
  num_aux # Empty /\ (num_aux > MaxAux \/ (num_aux = MaxAux /\ script = "local")) =>
    arb.pc = "off" \/ missed

\* Nothing is measured with a number of auxiliary clients before its turn.
MeasuredInv ==
  /\ \A m \in measured : m[1] \in Nat /\ m[1] <= AuxNow
  /\ script \in {"tell", "reset"} => \A r \in Nat : <<num_aux, r>> \notin measured

FilesInv ==
  /\ SweepTypes /\ OneAtATime /\ ScriptInv /\ ProcInv /\ RateInv /\ EndInv
  /\ MeasuredInv

SweepInv == FilesInv /\ CampaignInv

\* What a step of the sweep is for the experiment.
Campaigns == [Experiment!Next]_(Experiment!vars)

\* A number of steps that stays below the limit is below the limit itself.
LEMMA StepsBelow ==
  ASSUME NEW k \in Nat, k * Step <= Limit
  PROVE  k <= Limit
<1>1. k * 1 <= k * Step
  <2>1. PICK d \in Nat : Step = 1 + d
    <3>1. Step - 1 \in Nat /\ Step = 1 + (Step - 1)
      BY StepAssumption
    <3> QED BY <3>1, Zenon
  <2>2. k * Step = k * 1 + k * d /\ k * d \in Nat
    BY <2>1
  <2> QED BY <2>2
<1>2. k * Step \in Nat /\ k * 1 = k
  BY StepAssumption
<1> QED BY <1>1, <1>2, LimitAssumption

\* The rate that is next is the rate of the experiment where the process or
\* the script can tell.
LEMMA RateIs ==
  ASSUME SweepTypes, OneAtATime, ProcInv
  PROVE  /\ proc.pc \in {"warmup", "submit", "summary", "create", "write"} => Rate = proc.rate
         /\ proc.pc # "write" /\ script \notin {"tell", "reset"} =>
              Rate = IF reqs = Empty THEN Step ELSE reqs
         /\ script \in {"tell", "reset"} => Rate = Step
<1>1. proc.pc # "none" => script = "wait" /\ proc.rate \in Nat
  BY Zenon DEF OneAtATime, SweepTypes
<1> QED BY <1>1, EmptyAssumption, Zenon DEF Rate, ProcInv, OneAtATime

\* A step that leaves the two files and what was measured alone, and neither
\* comes to nor goes from a place between two writes, is no step of the
\* experiment.
LEMMA Quiet ==
  ASSUME UNCHANGED <<reqs, num_aux, measured, torn>>,
         proc'.pc # "write", proc.pc # "write",
         script \in {"tell", "reset"} <=> script' \in {"tell", "reset"}
  PROVE  UNCHANGED Experiment!vars
BY Zenon DEF Experiment!vars, AuxNow, Rate

\* Steps of the machines and of the jobs do not touch the files.
LEMMA OtherSteps ==
  ASSUME SweepInv,
         UNCHANGED <<reqs, num_aux, measured, torn, proc, script, arb, arbFile, missed>>
  PROVE  FilesInv' /\ Campaigns
<1>1. FilesInv'
  BY DEF SweepInv, FilesInv, SweepTypes, OneAtATime, ScriptInv, ProcInv, RateInv, EndInv,
     MeasuredInv, AuxNow
<1>2. UNCHANGED Experiment!vars
  BY Zenon DEF Experiment!vars, AuxNow, Rate
<1> QED BY <1>1, <1>2, Zenon DEF Campaigns

\* The arbiter, while the script does not run, and StopAll.
LEMMA ArbiterSteps ==
  ASSUME SweepInv, ArbServer \/ ArbAux \/ ArbClient \/ ArbReboot \/ StopAll
  PROVE  FilesInv' /\ Campaigns
<1>1. UNCHANGED <<reqs, num_aux, measured, torn, proc>>
  BY Zenon DEF ArbServer, ArbAux, ArbClient, ArbReboot, StopAll, clientVars
<1>2. arb'.pc \in {"server", "aux", "gather", "off"} /\ arbFile' \in 0 .. MaxAux + MaxOver \cup {Empty}
      /\ arb' \in [pc : {"server", "aux", "gather", "off"}, count : Nat, started : Nat]
  BY MaxAuxAssumption, MaxOverAssumption
     DEF ArbServer, ArbAux, ArbClient, ArbReboot, StopAll, SweepInv, FilesInv, SweepTypes
<1>3. \/ /\ script = "none" /\ script' = "none" /\ arb.pc # "off" /\ arb'.pc # "off"
         /\ missed' = missed
      \/ /\ script = "none" /\ script' = "start" /\ arb.pc # "off" /\ arb'.pc = "gather"
         /\ missed' = missed
      \/ /\ script = "stop" /\ script' = "local" /\ arb'.pc \in {"gather", "off"}
         /\ arb'.pc = "off" \/ missed'
  BY DEF ArbServer, ArbAux, ArbClient, ArbReboot, StopAll, SweepInv, FilesInv, SweepTypes,
     OneAtATime
<1>4. SweepTypes' /\ OneAtATime'
  BY <1>1, <1>2, <1>3, Zenon DEF SweepInv, FilesInv, SweepTypes, OneAtATime
<1>5. ScriptInv' /\ ProcInv' /\ RateInv' /\ MeasuredInv'
  BY <1>1, <1>3, Zenon DEF SweepInv, FilesInv, ScriptInv, ProcInv, RateInv, MeasuredInv, AuxNow
<1>6. EndInv'
  BY <1>1, <1>3, MaxAuxAssumption, EmptyAssumption
     DEF SweepInv, FilesInv, EndInv, SweepTypes, ScriptInv, OneAtATime
<1>7. UNCHANGED Experiment!vars
  <2>1. script \notin {"tell", "reset"} /\ script' \notin {"tell", "reset"}
    BY <1>3, Zenon
  <2> QED BY <1>1, <2>1, Zenon DEF Experiment!vars, AuxNow, Rate
<1> QED BY <1>4, <1>5, <1>6, <1>7, Zenon DEF FilesInv, Campaigns

\* The defaults of the files are where the experiment begins.
LEMMA ScriptStartStep ==
  ASSUME SweepInv, ScriptStart
  PROVE  FilesInv' /\ Campaigns
<1>1. /\ script = "start" /\ proc.pc = "none" /\ arb.pc = "gather"
      /\ reqs' = IF reqs = Empty THEN Step ELSE reqs
      /\ num_aux' = AuxNow
      /\ script' = IF reqs' <= Limit THEN "run"
                   ELSE IF num_aux' = MaxAux THEN "stop" ELSE "local"
      /\ UNCHANGED <<proc, measured, torn, arb, arbFile, missed>>
  BY Zenon DEF ScriptStart, AuxNow, SweepInv, FilesInv, OneAtATime
<1>2. /\ reqs' \in Nat /\ reqs' # Empty
      /\ num_aux' \in 0 .. MaxAux + MaxOver /\ num_aux' # Empty
      /\ AuxNow' = AuxNow /\ (num_aux' > MaxAux => num_aux' = num_aux)
  BY <1>1, StepAssumption, MaxAuxAssumption, MaxOverAssumption, EmptyAssumption
     DEF SweepInv, FilesInv, SweepTypes, AuxNow
<1>3. SweepTypes' /\ OneAtATime'
  BY <1>1, <1>2, MaxAuxAssumption DEF SweepInv, FilesInv, SweepTypes, OneAtATime
<1>4. ScriptInv' /\ ProcInv'
  BY <1>1, <1>2, LimitAssumption DEF ScriptInv, ProcInv
<1>5. RateInv'
  <2>1. 1 \in 1 .. Limit + 1 /\ 1 * Step = Step
    BY LimitAssumption, StepAssumption
  <2> QED BY <1>1, <2>1, Zenon DEF SweepInv, FilesInv, RateInv
<1>6. EndInv'
  <2>1. num_aux' = MaxAux => script' # "local"
    BY <1>1, Zenon
  <2>2. ASSUME num_aux' > MaxAux PROVE arb'.pc = "off" \/ missed'
    <3>1. num_aux # Empty /\ num_aux > MaxAux
      BY <1>2, <2>2, Zenon
    <3>2. arb.pc = "off" \/ missed
      BY <3>1, Zenon DEF SweepInv, FilesInv, EndInv
    <3> QED BY <1>1, <3>2, Zenon
  <2> QED BY <2>1, <2>2, Zenon DEF EndInv
<1>7. MeasuredInv'
  BY <1>1, <1>2, Zenon DEF SweepInv, FilesInv, MeasuredInv
<1>8. UNCHANGED Experiment!vars
  BY <1>1, <1>2, Zenon DEF Experiment!vars, Rate
<1> QED BY <1>3, <1>4, <1>5, <1>6, <1>7, <1>8, Zenon DEF FilesInv, Campaigns

\* One more auxiliary client: the experiment goes on before the second file
\* says so.
LEMMA MoreAuxStep ==
  ASSUME SweepInv, MoreAux
  PROVE  FilesInv' /\ Campaigns
<1>1. /\ script = "local" /\ script' = "tell" /\ proc.pc = "none" /\ arb.pc \notin {"server", "aux"}
      /\ num_aux' = num_aux + 1
      /\ num_aux \in Nat /\ num_aux < MaxAux + MaxOver /\ num_aux # Empty
      /\ reqs # Empty /\ reqs > Limit
      /\ UNCHANGED <<reqs, proc, measured, torn, arb, arbFile, missed>>
  BY MaxAuxAssumption, MaxOverAssumption
     DEF MoreAux, SweepInv, FilesInv, SweepTypes, OneAtATime, ScriptInv
<1>2. /\ num_aux' \in 0 .. MaxAux + MaxOver /\ num_aux' # Empty
      /\ AuxNow = num_aux /\ AuxNow' = num_aux + 1 /\ AuxNow \in Nat
  BY <1>1, MaxAuxAssumption, MaxOverAssumption, EmptyAssumption DEF AuxNow
<1>3. SweepTypes' /\ OneAtATime'
  BY <1>1, <1>2, Zenon DEF SweepInv, FilesInv, SweepTypes, OneAtATime
<1>4. ScriptInv' /\ ProcInv' /\ RateInv'
  BY <1>1, <1>2, Zenon DEF SweepInv, FilesInv, ScriptInv, ProcInv, RateInv
<1>5. EndInv'
  BY <1>1, <1>2, MaxAuxAssumption DEF SweepInv, FilesInv, EndInv
<1>6. MeasuredInv'
  <2>1. \A m \in measured : m[1] <= num_aux /\ m[1] \in Nat
    BY <1>2, Zenon DEF SweepInv, FilesInv, MeasuredInv
  <2>2. \A m \in measured : m[1] <= num_aux + 1 /\ m[1] # num_aux + 1
    BY <1>2, <2>1
  <2>3. \A r : <<num_aux + 1, r>> \notin measured
    BY <2>2, Zenon
  <2> QED BY <1>1, <1>2, <2>1, <2>2, <2>3, Zenon DEF MeasuredInv
<1>7. Experiment!NextAux
  <2>1. Rate = reqs /\ Rate' = Step
    BY <1>1, Zenon DEF Rate
  <2> QED BY <1>1, <1>2, <2>1 DEF Experiment!NextAux
<1> QED BY <1>3, <1>4, <1>5, <1>6, <1>7, Zenon DEF FilesInv, Campaigns, Experiment!Next

\* The rest of the change to one more auxiliary client, the start of the
\* process and its end.
LEMMA ScriptSteps ==
  ASSUME SweepInv, TellArbiter \/ ResetRate \/ RunClient \/ ScriptEnd
  PROVE  FilesInv' /\ Campaigns
<1>1. CASE TellArbiter
  <2>1. /\ script = "tell" /\ script' = "reset"
        /\ arbFile' \in 0 .. MaxAux + MaxOver \cup {Empty}
        /\ UNCHANGED <<reqs, num_aux, proc, measured, torn, arb, missed>>
    BY <1>1, Zenon DEF TellArbiter, clientVars, SweepInv, FilesInv, SweepTypes, ScriptInv
  <2>2. FilesInv'
    BY <2>1, Zenon DEF SweepInv, FilesInv, SweepTypes, OneAtATime, ScriptInv, ProcInv, RateInv, EndInv,
       MeasuredInv, AuxNow
  <2>3. UNCHANGED Experiment!vars
    BY <2>1, Zenon DEF Experiment!vars, AuxNow, Rate
  <2> QED BY <2>2, <2>3, Zenon DEF Campaigns
<1>2. CASE ResetRate
  <2>1. /\ script = "reset" /\ script' \in {"run", "none"} /\ reqs' = Empty
        /\ proc.pc = "none"
        /\ UNCHANGED <<num_aux, proc, measured, torn, arb, arbFile, missed>>
    BY <1>2, Zenon DEF ResetRate, SweepInv, FilesInv, OneAtATime
  <2>2. FilesInv'
    BY <2>1, Zenon DEF SweepInv, FilesInv, SweepTypes, OneAtATime, ScriptInv, ProcInv, RateInv, EndInv,
       MeasuredInv, AuxNow
  <2>3. UNCHANGED Experiment!vars
    BY <2>1, Zenon DEF Experiment!vars, AuxNow, Rate
  <2> QED BY <2>2, <2>3, Zenon DEF Campaigns
<1>3. CASE RunClient
  <2>1. /\ script = "run" /\ proc.pc = "none" /\ num_aux # Empty
        /\ UNCHANGED <<reqs, num_aux, measured, torn, arb, arbFile, missed>>
    BY <1>3, Zenon DEF RunClient, StartClient, SweepInv, FilesInv, ScriptInv
  <2>2. \/ proc' = proc /\ script' = "none"
        \/ /\ proc' = [pc |-> "warmup", rate |-> reqs, aux |-> num_aux, submitted |-> 0]
           /\ script' = "wait" /\ reqs # Empty
    BY <1>3, <2>1 DEF RunClient, StartClient
  <2>3. UNCHANGED Experiment!vars
    BY <2>1, <2>2 DEF Experiment!vars, AuxNow, Rate
  <2>4. CASE proc' = proc /\ script' = "none"
    <3>1. FilesInv'
      BY <2>1, <2>4, Zenon DEF SweepInv, FilesInv, SweepTypes, OneAtATime, ScriptInv, ProcInv, RateInv,
         EndInv, MeasuredInv, AuxNow
    <3> QED BY <2>3, <3>1, Zenon DEF Campaigns
  <2>5. CASE /\ proc' = [pc |-> "warmup", rate |-> reqs, aux |-> num_aux, submitted |-> 0]
             /\ script' = "wait" /\ reqs # Empty
    <3>1. reqs \in Nat /\ num_aux \in Nat /\ reqs <= Limit
      BY <2>1, <2>5 DEF SweepInv, FilesInv, SweepTypes, ScriptInv
    <3>2. \E k \in 1 .. Limit : reqs = k * Step
      <4>1. PICK k \in 1 .. Limit + 1 : reqs = k * Step
        BY <2>5, Zenon DEF SweepInv, FilesInv, RateInv
      <4>2. k <= Limit
        BY <3>1, <4>1, StepsBelow, LimitAssumption
      <4>3. k \in 1 .. Limit
        BY <4>2, LimitAssumption
      <4> QED BY <4>1, <4>3, Zenon
    <3>3. SweepTypes' /\ OneAtATime'
      BY <2>1, <2>5, <3>1, Zenon DEF SweepInv, FilesInv, SweepTypes, OneAtATime
    <3>4. ScriptInv' /\ RateInv' /\ EndInv' /\ MeasuredInv'
      BY <2>1, <2>5, Zenon DEF SweepInv, FilesInv, ScriptInv, RateInv, EndInv, MeasuredInv, AuxNow
    <3>5. ProcInv'
      BY <2>1, <2>5, <3>1, <3>2, Zenon DEF ProcInv
    <3> QED BY <2>3, <3>3, <3>4, <3>5, Zenon DEF FilesInv, Campaigns
  <2> QED BY <2>2, <2>4, <2>5, Zenon
<1>4. CASE ScriptEnd
  <2>1. /\ script = "wait" /\ proc.pc = "none" /\ script' = "none"
        /\ UNCHANGED <<reqs, num_aux, proc, measured, torn, arb, arbFile, missed>>
    BY <1>4, Zenon DEF ScriptEnd, clientVars
  <2>2. FilesInv'
    BY <2>1, Zenon DEF SweepInv, FilesInv, SweepTypes, OneAtATime, ScriptInv, ProcInv, RateInv, EndInv,
       MeasuredInv, AuxNow
  <2>3. UNCHANGED Experiment!vars
    BY <2>1, Zenon DEF Experiment!vars, AuxNow, Rate
  <2> QED BY <2>2, <2>3, Zenon DEF Campaigns
<1> QED BY <1>1, <1>2, <1>3, <1>4, Zenon

\* The process, up to the write of its rate.
LEMMA ProcessSteps ==
  ASSUME SweepInv, UNCHANGED sweepVars,
         WarmupFails \/ WarmupDone \/ Submit \/ Join \/ Summarise \/ CreateFile \/ Exit
  PROVE  FilesInv' /\ Campaigns
<1>1. UNCHANGED <<num_aux, measured, torn, script, arb, arbFile, missed>> /\ script = "wait"
  BY Zenon DEF sweepVars, WarmupFails, WarmupDone, Submit, Join, Summarise, CreateFile, Exit, SweepInv,
     FilesInv, OneAtATime
<1>2. CASE WarmupFails \/ WarmupDone \/ Submit \/ Join \/ Summarise
  <2>1. /\ proc.pc \in {"warmup", "submit", "summary"} /\ reqs' = reqs
        /\ proc'.pc \in {"submit", "summary", "create", "exit"}
        /\ proc'.rate = proc.rate /\ proc'.aux = proc.aux
        /\ proc' \in [pc : {"none", "warmup", "submit", "summary", "create", "write", "exit"},
                      rate : Nat, aux : Nat, submitted : Nat]
    <3> DEFINE P == [pc : {"none", "warmup", "submit", "summary", "create", "write", "exit"},
                     rate : Nat, aux : Nat, submitted : Nat]
    <3>1. proc \in P
      BY Zenon DEF SweepInv, FilesInv, SweepTypes
    <3>2. \A pc \in {"submit", "summary", "create", "exit"} :
            LET after == [proc EXCEPT !.pc = pc]
            IN  after \in P /\ after.pc = pc /\ after.rate = proc.rate /\ after.aux = proc.aux
      BY <3>1
    <3>3. LET after == [proc EXCEPT !.submitted = @ + 1]
          IN  after \in P /\ after.pc = proc.pc /\ after.rate = proc.rate /\ after.aux = proc.aux
      BY <3>1
    <3> HIDE DEF P
    <3>4. CASE \E pc \in {"submit", "summary", "create", "exit"} : proc' = [proc EXCEPT !.pc = pc]
      BY <1>2, <3>2, <3>4, Zenon DEF WarmupFails, WarmupDone, Submit, Join, Summarise, P
    <3>5. CASE Submit
      BY <3>3, <3>5, Zenon DEF Submit, P
    <3> QED BY <1>2, <3>4, <3>5, Zenon DEF WarmupFails, WarmupDone, Join, Summarise
  <2>2. FilesInv'
    BY <1>1, <2>1 DEF SweepInv, FilesInv, SweepTypes, OneAtATime, ScriptInv, ProcInv, RateInv,
       EndInv, MeasuredInv, AuxNow
  <2>3. UNCHANGED Experiment!vars
    BY <1>1, <2>1, Zenon DEF Experiment!vars, AuxNow, Rate
  <2> QED BY <2>2, <2>3, Zenon DEF Campaigns
<1>3. CASE CreateFile
  <2>1. /\ proc.pc = "create" /\ proc'.pc = "write" /\ reqs' = Empty
        /\ proc'.rate = proc.rate /\ proc'.aux = proc.aux
        /\ proc' \in [pc : {"none", "warmup", "submit", "summary", "create", "write", "exit"},
                      rate : Nat, aux : Nat, submitted : Nat]
    BY <1>3, Zenon DEF CreateFile, SweepInv, FilesInv, SweepTypes
  <2>2. FilesInv'
    BY <1>1, <2>1, Zenon DEF SweepInv, FilesInv, SweepTypes, OneAtATime, ScriptInv, ProcInv, RateInv,
       EndInv, MeasuredInv, AuxNow
  <2>3. Rate = proc.rate /\ Rate' = proc.rate
    BY <1>1, <2>1, RateIs, Zenon DEF SweepInv, FilesInv, Rate
  <2>4. UNCHANGED Experiment!vars
    BY <1>1, <2>3, Zenon DEF Experiment!vars, AuxNow
  <2> QED BY <2>2, <2>4, Zenon DEF Campaigns
<1>4. CASE Exit
  <2>1. /\ proc.pc = "exit" /\ reqs' = reqs
        /\ proc' = [pc |-> "none", rate |-> 0, aux |-> 0, submitted |-> 0]
    BY <1>4, Zenon DEF Exit, Gone
  <2>2. FilesInv'
    BY <1>1, <2>1, Zenon DEF SweepInv, FilesInv, SweepTypes, OneAtATime, ScriptInv, ProcInv, RateInv,
       EndInv, MeasuredInv, AuxNow
  <2>3. UNCHANGED Experiment!vars
    BY <1>1, <2>1, Zenon DEF Experiment!vars, AuxNow, Rate
  <2> QED BY <2>2, <2>3, Zenon DEF Campaigns
<1> QED BY <1>2, <1>3, <1>4, Zenon

\* The write of the next rate completes a measurement.
LEMMA WriteStep ==
  ASSUME SweepInv, UNCHANGED sweepVars, WriteFile
  PROVE  FilesInv' /\ Campaigns
<1>1. /\ proc.pc = "write" /\ proc'.pc = "exit" /\ script = "wait"
      /\ reqs' = proc.rate + Step
      /\ measured' = measured \cup {<<proc.aux, proc.rate>>}
      /\ UNCHANGED <<num_aux, torn, script, arb, arbFile, missed>>
  BY Zenon DEF sweepVars, WriteFile, SweepInv, FilesInv, SweepTypes, OneAtATime
<1>2. /\ proc'.rate = proc.rate /\ proc'.aux = proc.aux
      /\ proc' \in [pc : {"none", "warmup", "submit", "summary", "create", "write", "exit"},
                    rate : Nat, aux : Nat, submitted : Nat]
  BY Zenon DEF WriteFile, SweepInv, FilesInv, SweepTypes
<1>3. /\ proc.rate \in Nat /\ proc.rate <= Limit /\ proc.aux = num_aux /\ num_aux \in Nat
      /\ AuxNow = num_aux /\ AuxNow' = AuxNow
  BY <1>1, MaxAuxAssumption, Zenon DEF SweepInv, FilesInv, SweepTypes, ScriptInv, ProcInv, AuxNow
<1>4. PICK k \in 1 .. Limit : proc.rate = k * Step
  BY <1>1, Zenon DEF SweepInv, FilesInv, ProcInv
<1>5. reqs' \in Nat /\ reqs' # Empty
  BY <1>1, <1>3, StepAssumption, EmptyAssumption
<1>6. RateInv'
  <2>1. k + 1 \in 1 .. Limit + 1 /\ proc.rate + Step = (k + 1) * Step
    BY <1>4, LimitAssumption, StepAssumption
  <2> QED BY <1>1, <2>1, Zenon DEF RateInv
<1>7. SweepTypes' /\ OneAtATime' /\ ScriptInv' /\ EndInv'
  BY <1>1, <1>2, <1>5, Zenon DEF SweepInv, FilesInv, SweepTypes, OneAtATime, ScriptInv, EndInv
<1>8. ProcInv'
  BY <1>1, <1>2, <1>3, <1>4, Zenon DEF ProcInv
<1>9. MeasuredInv'
  BY <1>1, <1>3 DEF SweepInv, FilesInv, MeasuredInv
<1>10. Experiment!Measure
  <2>1. Rate = proc.rate /\ Rate' = proc.rate + Step
    BY <1>1, <1>5, Zenon DEF Rate
  <2> QED BY <1>1, <1>3, <2>1, Zenon DEF Experiment!Measure
<1> QED BY <1>6, <1>7, <1>8, <1>9, <1>10, Zenon DEF FilesInv, Campaigns, Experiment!Next

\* The client goes down: a change of the files that was half made is undone or,
\* if it was the script's, torn.
LEMMA ClientDies ==
  ASSUME SweepInv, Dies(Client)
  PROVE  FilesInv' /\ Campaigns
<1>1. /\ proc' = [pc |-> "none", rate |-> 0, aux |-> 0, submitted |-> 0]
      /\ script' = "none"
      /\ torn' = IF script \in {"tell", "reset"} THEN torn \cup {num_aux} ELSE torn
      /\ UNCHANGED <<reqs, num_aux, measured, arb, arbFile, missed>>
  BY Zenon DEF Dies, Gone
<1>2. FilesInv'
  BY <1>1, Zenon DEF SweepInv, FilesInv, SweepTypes, OneAtATime, ScriptInv, ProcInv, RateInv, EndInv,
     MeasuredInv, AuxNow
<1>3. AuxNow' = AuxNow /\ Rate' = IF reqs = Empty THEN Step ELSE reqs
  BY <1>1, Zenon DEF AuxNow, Rate
<1>4. CASE script \in {"tell", "reset"}
  <2>1. num_aux # Empty /\ reqs # Empty /\ reqs > Limit
    BY <1>4, Zenon DEF SweepInv, FilesInv, ScriptInv
  <2>2. Rate = Step /\ Rate' = reqs /\ AuxNow = num_aux
    BY <1>3, <1>4, <2>1, RateIs, Zenon DEF SweepInv, FilesInv, AuxNow
  <2>3. \A r \in Experiment!Rates : <<num_aux, r>> \notin measured
    BY <1>4, LimitAssumption DEF SweepInv, FilesInv, MeasuredInv, Experiment!Rates
  <2>4. \E k \in 1 .. Limit + 1 : reqs = k * Step
    BY <2>1, Zenon DEF SweepInv, FilesInv, RateInv
  <2>5. Experiment!Tear
    BY <1>1, <1>3, <1>4, <2>1, <2>2, <2>3, <2>4, Zenon DEF Experiment!Tear
  <2> QED BY <1>2, <2>5, Zenon DEF Campaigns, Experiment!Next
<1>5. CASE script \notin {"tell", "reset"} /\ proc.pc = "write"
  <2>1. Rate = proc.rate /\ proc.rate \in Nat /\ proc.rate <= Limit /\ reqs = Empty
    BY <1>5, Zenon DEF Rate, SweepInv, FilesInv, ProcInv, SweepTypes
  <2>2. AuxNow \notin torn
    BY <2>1, LimitAssumption DEF SweepInv, CampaignInv
  <2>3. Experiment!BeginAgain
    BY <1>1, <1>3, <1>5, <2>1, <2>2, Zenon DEF Experiment!BeginAgain
  <2> QED BY <1>2, <2>3, Zenon DEF Campaigns, Experiment!Next
<1>6. CASE script \notin {"tell", "reset"} /\ proc.pc # "write"
  <2>1. UNCHANGED Experiment!vars
    BY <1>1, <1>3, <1>6, Zenon DEF Experiment!vars, Rate
  <2> QED BY <1>2, <2>1, Zenon DEF Campaigns
<1> QED BY <1>4, <1>5, <1>6, Zenon

\* Every step of the sweep is a step of the experiment or none.
LEMMA SweepStep ==
  ASSUME SweepInv, [Next]_vars
  PROVE  FilesInv' /\ Campaigns
<1>1. CASE UNCHANGED vars
  BY <1>1, OtherSteps, Zenon DEF vars, clientVars, sweepVars
<1>2. CASE ArbServer \/ ArbAux \/ ArbClient \/ ArbReboot \/ StopAll
  BY <1>2, ArbiterSteps, Zenon
<1>3. CASE ScriptStart
  BY <1>3, ScriptStartStep, Zenon
<1>4. CASE MoreAux
  BY <1>4, MoreAuxStep, Zenon
<1>5. CASE TellArbiter \/ ResetRate \/ RunClient \/ ScriptEnd
  BY <1>5, ScriptSteps, Zenon
<1>6. CASE ClientStep /\ UNCHANGED <<serving, sweepVars>>
  <2>1. CASE WarmupFails \/ WarmupDone \/ Submit \/ Join \/ Summarise \/ CreateFile \/ Exit
    BY <1>6, <2>1, ProcessSteps, Zenon
  <2>2. CASE WriteFile
    BY <1>6, <2>2, WriteStep, Zenon
  <2>3. CASE JobStep
    <3>1. UNCHANGED <<reqs, num_aux, measured, proc>>
      BY <2>3, Zenon DEF JobStep, Begin, KeDone, KeFails, NtpDone, NtpFails, KePanics,
         NtpPanics, SendError
    <3> QED BY <1>6, <3>1, OtherSteps, Zenon DEF sweepVars
  <2> QED BY <1>6, <2>1, <2>2, <2>3, Zenon DEF ClientStep
<1>7. CASE PowerCycle
  BY <1>7, ClientDies, Zenon DEF PowerCycle
<1>8. ASSUME NEW h \in Hosts, HostDown(h) \/ HostUp(h) PROVE FilesInv' /\ Campaigns
  <2>1. CASE HostUp(h)
    BY <2>1, OtherSteps, Zenon DEF HostUp, clientVars
  <2>2. CASE HostDown(h) /\ h = Client
    BY <2>2, ClientDies, Zenon DEF HostDown
  <2>3. CASE HostDown(h) /\ h # Client
    BY <2>3, OtherSteps, Zenon DEF HostDown, Dies
  <2> QED BY <1>8, <2>1, <2>2, <2>3, Zenon
<1> QED BY <1>1, <1>2, <1>3, <1>4, <1>5, <1>6, <1>7, <1>8, Zenon DEF Next

\* Both files are missing, and nothing has been measured.
LEMMA SweepInit == Init => SweepInv /\ Experiment!Init
<1> SUFFICES ASSUME Init PROVE SweepInv /\ Experiment!Init
  BY Zenon
<1>1. /\ reqs = Empty /\ num_aux = Empty /\ arbFile = Empty /\ measured = {} /\ torn = {}
      /\ proc = [pc |-> "none", rate |-> 0, aux |-> 0, submitted |-> 0]
      /\ script = "none" /\ arb = [pc |-> "server", count |-> 0, started |-> 0]
  BY Zenon DEF Init, ClientInit
<1>2. Experiment!Init
  BY <1>1, Zenon DEF Experiment!Init, AuxNow, Rate
<1>3. FilesInv
  BY <1>1, EmptyAssumption, MaxAuxAssumption
     DEF FilesInv, SweepTypes, OneAtATime, ScriptInv, ProcInv, RateInv, EndInv, MeasuredInv
<1> QED BY <1>2, <1>3, CampaignInit, Zenon DEF SweepInv

\* Every step keeps the files in order.
LEMMA SweepNext == SweepInv /\ [Next]_vars => SweepInv' /\ Campaigns
BY SweepStep, CampaignNext, Zenon DEF SweepInv, Campaigns

\* The scripts, the client and its files implement the experiment: through
\* reboots and power failures at any moment, lost messages to the arbiter and
\* processes that fail, the files take it from one point to the next as
\* Campaign says.
THEOREM SweepImplementsCampaign == Spec => ImplementsCampaign
<1>1. Campaigns <=> [Experiment!Next]_(Experiment!vars)
  BY Zenon DEF Campaigns
<1> QED BY <1>1, SweepInit, SweepNext, PTL DEF Spec, ImplementsCampaign, Experiment!Spec

\* gather_measurements.sh leaves a rate out only with a number of auxiliary
\* clients that was torn, whatever happens to the machines.
THEOREM NothingElseSkipped == Spec => []SkippedOnlyIfTorn
<1>1. SweepInv => SkippedOnlyIfTorn
  BY Zenon DEF SweepInv, CampaignInv, SkippedOnlyIfTorn
<1> QED BY <1>1, SweepInit, SweepNext, PTL DEF Spec

\* The script goes past the last number of auxiliary clients only if the call
\* that ends the experiment was missed.
THEOREM NeverPastTheLast == Spec => []PastLastOnlyIfMissed
<1>1. ~(0 > MaxAux)
  BY MaxAuxAssumption
<1>2. ASSUME SweepInv, AuxNow > MaxAux PROVE arb.pc = "off" \/ missed
  <2>1. num_aux # Empty /\ num_aux > MaxAux
    BY <1>1, <1>2, Zenon DEF AuxNow
  <2> QED BY <1>2, <2>1, Zenon DEF SweepInv, FilesInv, EndInv
<1>3. SweepInv => PastLastOnlyIfMissed
  BY <1>2, Zenon DEF PastLastOnlyIfMissed
<1> QED BY <1>3, SweepInit, SweepNext, PTL DEF Spec

-----------------------------------------------------------------------------
(* The label of a run's measurements and the load they were made under.    *)

Lines ==
  [line : {"time", "error"}] \cup [line : {"label"}, total : Nat]
    \cup [line : {"errors"}, count : [Classes -> Nat]]

SentTypes ==
  /\ sent \in [Files -> Seq(Lines)]
  /\ counter \in [{"ke", "ntp"} \X Classes -> Nat]

\* The process that writes results has its label from the files; jobs come
\* and go with it.
HeadInv ==
  /\ proc.pc = "none" => sent["ke"] = <<>> /\ \A j \in Jobs : job[j].at = "none"
  /\ proc.pc # "none" =>
       sent["ke"] # <<>> /\ sent["ke"][1].total = Label(proc.rate, proc.aux)

\* The script may yet start a process: the arbiter has counted the auxiliary
\* clients by the number it still has.
Counted ==
  \/ arb.pc = "aux"
  \/ script \in {"start", "stop", "local", "tell", "wait"}
  \/ script = "run" /\ reqs # Empty

CountInv == Counted => arb.count = arbFile

\* Unless a change was torn, or the arbiter missed one, both know the number.
ToldInv ==
  told /\ AuxNow \notin torn /\ script # "tell" =>
    AuxNow = IF arbFile = Empty THEN 0 ELSE arbFile

\* Nothing is measured with a number that was torn.
TornInv == proc.pc # "none" => AuxNow \notin torn

LabelInv == SentTypes /\ HeadInv /\ CountInv /\ ToldInv /\ TornInv

\* What is sent to a writer that has something goes behind its first line.
LEMMA SendBehind ==
  ASSUME SentTypes, NEW f \in Files, NEW line \in Lines
  PROVE  /\ Send(f, line) \in [Files -> Seq(Lines)]
         /\ f # "ke" => Send(f, line)["ke"] = sent["ke"]
         /\ sent["ke"] # <<>> =>
              Send(f, line)["ke"] # <<>> /\ Send(f, line)["ke"][1] = sent["ke"][1]
<1>1. /\ sent[f] \in Seq(Lines) /\ sent["ke"] \in Seq(Lines) /\ "ke" \in Files
      /\ Append(sent[f], line) \in Seq(Lines)
  BY DEF SentTypes, Files
<1>2. sent["ke"] # <<>> =>
        Append(sent["ke"], line) # <<>> /\ Append(sent["ke"], line)[1] = sent["ke"][1]
  BY <1>1
<1> HIDE DEF Lines
<1> QED BY <1>1, <1>2, Zenon DEF Send, SentTypes, Files

\* The process runs while the script waits for it: its number is not torn, so
\* the label is the one of the load.
LEMMA LabelSound ==
  ASSUME SweepInv, LabelInv
  PROVE  LabelMatchesLoad
<1> SUFFICES ASSUME told, sent["ke"] # <<>>
             PROVE  sent["ke"][1].total = Label(proc.rate, arb.count)
  BY Zenon DEF LabelMatchesLoad
<1>1. /\ sent["ke"][1].total = Label(proc.rate, proc.aux) /\ proc.pc # "none"
      /\ script = "wait"
  BY Zenon DEF LabelInv, HeadInv, SweepInv, FilesInv, OneAtATime
<1>2. arb.count = arbFile /\ arb.count \in Nat
  BY <1>1, Zenon DEF LabelInv, CountInv, Counted, SweepInv, FilesInv, SweepTypes
<1>3. proc.aux = AuxNow
  BY <1>1, Zenon DEF SweepInv, FilesInv, ProcInv, ScriptInv, AuxNow
<1>4. AuxNow = arb.count
  BY <1>1, <1>2, EmptyAssumption, Zenon DEF LabelInv, ToldInv, TornInv
<1> QED BY <1>1, <1>3, <1>4, Zenon

\* Steps that write no results.
LEMMA SilentSteps ==
  ASSUME SentTypes, HeadInv, UNCHANGED <<sent, counter>>,
         \/ UNCHANGED <<proc, job>>
         \/ /\ proc.pc # "none" /\ proc'.pc # "none"
            /\ proc'.rate = proc.rate /\ proc'.aux = proc.aux
  PROVE  SentTypes' /\ HeadInv'
BY Zenon DEF SentTypes, HeadInv, Label

\* The end of the process ends its results.
LEMMA GoneStep ==
  ASSUME Gone
  PROVE  SentTypes' /\ HeadInv'
<1>1. <<>> \in Seq(Lines) /\ "ke" \in Files
  BY DEF Files
<1> HIDE DEF Lines
<1> QED BY <1>1, Zenon DEF Gone, SentTypes, HeadInv, NoCounts, NoJob

\* The start of the process begins them with its label.
LEMMA LabelStep ==
  ASSUME SweepInv, SentTypes, HeadInv, RunClient
  PROVE  SentTypes' /\ HeadInv'
<1>1. CASE reqs = Empty \/ num_aux = Empty
  BY <1>1, SilentSteps, Zenon DEF RunClient, StartClient
<1>2. CASE ~(reqs = Empty \/ num_aux = Empty)
  <2>1. /\ proc' = [pc |-> "warmup", rate |-> reqs, aux |-> num_aux, submitted |-> 0]
        /\ counter' = NoCounts
        /\ sent' = [f \in Files |->
                      IF f = "err" THEN <<>>
                      ELSE <<[line |-> "label",
                              total |-> (IF f = "ntp" THEN Exchanges ELSE 1)
                                          * Label(reqs, num_aux)]>>]
    BY <1>2, Zenon DEF RunClient, StartClient
  <2>2. Label(reqs, num_aux) \in Nat
    <3>1. reqs \in Nat /\ num_aux \in Nat
      BY <1>2 DEF SweepInv, FilesInv, SweepTypes
    <3>2. AuxRate * num_aux \in Nat
      BY <3>1, AuxRateAssumption
    <3> QED BY <3>1, <3>2 DEF Label
  <2>3. 1 * Label(reqs, num_aux) = Label(reqs, num_aux)
        /\ Exchanges * Label(reqs, num_aux) \in Nat
    BY <2>2, ExchangesAssumption
  <2> DEFINE first(n) == <<[line |-> "label", total |-> n]>>
  <2>4. \A n \in Nat : /\ first(n) \in Seq(Lines) /\ first(n) # <<>>
                       /\ first(n)[1].total = n
    BY DEF Lines
  <2>5. <<>> \in Seq(Lines)
    OBVIOUS
  <2>6. sent' = [f \in Files |->
                  IF f = "err" THEN <<>>
                  ELSE first((IF f = "ntp" THEN Exchanges ELSE 1) * Label(reqs, num_aux))]
    BY <2>1, Zenon
  <2> HIDE DEF first, Lines
  <2>7. /\ sent' \in [Files -> Seq(Lines)]
        /\ sent'["ke"] = first(Label(reqs, num_aux))
    BY <2>2, <2>3, <2>4, <2>5, <2>6, Zenon DEF Files
  <2>8. SentTypes'
    BY <2>1, <2>7, Zenon DEF SentTypes, NoCounts
  <2>9. HeadInv'
    BY <2>1, <2>2, <2>4, <2>7, Zenon DEF HeadInv, Label
  <2> QED BY <2>8, <2>9, Zenon
<1> QED BY <1>1, <1>2, Zenon

\* A job writes behind the label.
LEMMA JobLabel ==
  ASSUME SentTypes, HeadInv, JobStep
  PROVE  SentTypes' /\ HeadInv'
<1>1. PICK j \in Jobs : \/ Begin(j) \/ KeDone(j) \/ KeFails(j) \/ NtpDone(j) \/ NtpFails(j)
                        \/ KePanics(j) \/ NtpPanics(j) \/ SendError(j)
  BY Zenon DEF JobStep
<1>2. proc.pc # "none" /\ proc' = proc
  BY <1>1, Zenon DEF HeadInv, Begin, KeDone, KeFails, NtpDone, NtpFails, KePanics, NtpPanics,
     SendError
<1>3. counter' \in [{"ke", "ntp"} \X Classes -> Nat]
  <2>1. \A kind \in {"ke", "ntp"} : \A err \in KeErrors \cup NtpErrors :
          <<kind, ClassOf(err)>> \in {"ke", "ntp"} \X Classes
    BY Zenon DEF KeErrors, NtpErrors, ClassOf, Classes
  <2>2. ASSUME NEW x \in {"ke", "ntp"} \X Classes
        PROVE  [counter EXCEPT ![x] = @ + 1] \in [{"ke", "ntp"} \X Classes -> Nat]
    BY DEF SentTypes
  <2>3. counter' = counter \/ \E kind \in {"ke", "ntp"}, err \in KeErrors \cup NtpErrors :
                                counter' = [counter EXCEPT ![<<kind, ClassOf(err)>>] = @ + 1]
    BY <1>1, Zenon DEF Begin, KeDone, KeFails, NtpDone, NtpFails, KePanics, NtpPanics, SendError
  <2>4. ASSUME NEW kind \in {"ke", "ntp"}, NEW err \in KeErrors \cup NtpErrors,
               counter' = [counter EXCEPT ![<<kind, ClassOf(err)>>] = @ + 1]
        PROVE  counter' \in [{"ke", "ntp"} \X Classes -> Nat]
    <3>1. <<kind, ClassOf(err)>> \in {"ke", "ntp"} \X Classes
      BY <2>1, Zenon
    <3> QED BY ONLY <2>2, <2>4, <3>1, Zenon
  <2> QED BY <2>3, <2>4, Zenon DEF SentTypes
<1>4. sent' = sent \/ \E f \in Files, line \in Lines : sent' = Send(f, line)
  <2>1. [line |-> "time"] \in Lines /\ [line |-> "error"] \in Lines
        /\ "ke" \in Files /\ "ntp" \in Files /\ "err" \in Files
    BY Zenon DEF Lines, Files
  <2> HIDE DEF Lines
  <2> QED BY <1>1, <2>1, Zenon DEF Begin, KeDone, KeFails, NtpDone, NtpFails, KePanics, NtpPanics,
     SendError
<1>5. /\ sent' \in [Files -> Seq(Lines)]
      /\ sent'["ke"] # <<>> /\ sent'["ke"][1] = sent["ke"][1]
  <2>1. sent["ke"] # <<>> /\ sent \in [Files -> Seq(Lines)]
    BY <1>2, Zenon DEF HeadInv, SentTypes
  <2> HIDE DEF Lines
  <2> QED BY <1>4, <2>1, SendBehind, Zenon
<1> QED BY <1>2, <1>3, <1>5, Zenon DEF SentTypes, HeadInv, Label

\* So does the summary.
LEMMA SummaryLabel ==
  ASSUME SweepInv, SentTypes, HeadInv, Summarise
  PROVE  SentTypes' /\ HeadInv'
<1>1. /\ proc.pc # "none" /\ proc'.pc # "none" /\ counter' = counter
      /\ proc'.rate = proc.rate /\ proc'.aux = proc.aux
  BY Zenon DEF Summarise, SweepInv, FilesInv, SweepTypes
<1>2. \A f \in {"ke", "ntp"} : Summary(f) \in Lines
  BY Zenon DEF Summary, Lines, SentTypes
<1>3. \A f \in Files : sent'[f] = IF f = "err" THEN sent[f] ELSE Append(sent[f], Summary(f))
  BY Zenon DEF Summarise
<1>4. \A f \in Files : sent'[f] \in Seq(Lines)
  <2> HIDE DEF Lines
  <2>1. \A f \in Files : sent[f] \in Seq(Lines) /\ (f # "err" => Summary(f) \in Lines)
    BY <1>2, Zenon DEF SentTypes, Files
  <2>2. \A q \in Seq(Lines), x \in Lines : Append(q, x) \in Seq(Lines)
    OBVIOUS
  <2> QED BY ONLY <1>3, <2>1, <2>2, Zenon
<1>5. sent' \in [Files -> Seq(Lines)]
  <2> HIDE DEF Lines
  <2> QED BY <1>4, Zenon DEF Summarise
<1>6. sent'["ke"] # <<>> /\ sent'["ke"][1] = sent["ke"][1]
  <2>1. sent["ke"] # <<>> /\ sent["ke"] \in Seq(Lines) /\ Summary("ke") \in Lines
        /\ sent'["ke"] = Append(sent["ke"], Summary("ke"))
    BY <1>1, <1>2, <1>3, Zenon DEF HeadInv, SentTypes, Files
  <2> HIDE DEF Lines
  <2> QED BY ONLY <2>1
<1> QED BY <1>1, <1>5, <1>6, Zenon DEF SentTypes, HeadInv, Label

\* The steps that touch the process, its jobs or its results.
LEMMA RunSteps ==
  ASSUME [Next]_vars
  PROVE  \/ UNCHANGED <<proc, job, counter, sent>>
         \/ Dies(Client) \/ Exit \/ RunClient \/ JobStep \/ Summarise
         \/ WarmupFails \/ WarmupDone \/ Submit \/ Join \/ CreateFile \/ WriteFile
<1>1. ASSUME ArbServer \/ ArbAux \/ ArbClient \/ ArbReboot \/ ScriptStart \/ StopAll
             \/ MoreAux \/ TellArbiter \/ ResetRate \/ ScriptEnd \/ UNCHANGED vars
      PROVE  UNCHANGED <<proc, job, counter, sent>>
  BY <1>1, Zenon DEF ArbServer, ArbAux, ArbClient, ArbReboot, ScriptStart, StopAll, MoreAux,
     TellArbiter, ResetRate, ScriptEnd, vars, clientVars
<1>2. ASSUME NEW h \in Hosts, HostDown(h) \/ HostUp(h)
      PROVE  UNCHANGED <<proc, job, counter, sent>> \/ Dies(Client)
  BY <1>2, Zenon DEF HostDown, HostUp, Dies, clientVars
<1> QED BY <1>1, <1>2, Zenon DEF Next, ClientStep, PowerCycle

\* Every step leaves the results with the label of their process.
LEMMA HeadNext ==
  ASSUME SweepInv, SentTypes, HeadInv, [Next]_vars
  PROVE  SentTypes' /\ HeadInv'
<1>1. CASE UNCHANGED <<proc, job, counter, sent>>
  BY <1>1, SilentSteps, Zenon
<1>2. CASE Dies(Client) \/ Exit
  BY <1>2, GoneStep, Zenon DEF Dies, Exit
<1>3. CASE RunClient
  BY <1>3, LabelStep, Zenon
<1>4. CASE JobStep
  BY <1>4, JobLabel, Zenon
<1>5. CASE Summarise
  BY <1>5, SummaryLabel, Zenon
<1>6. CASE WarmupFails \/ WarmupDone \/ Submit \/ Join \/ CreateFile \/ WriteFile
  <2>1. /\ proc.pc # "none" /\ proc'.pc # "none" /\ UNCHANGED <<sent, counter>>
        /\ proc'.rate = proc.rate /\ proc'.aux = proc.aux
    BY <1>6, Zenon DEF WarmupFails, WarmupDone, Submit, Join, CreateFile, WriteFile, SweepInv, FilesInv,
       SweepTypes
  <2> QED BY <2>1, SilentSteps, Zenon
<1>7. \/ UNCHANGED <<proc, job, counter, sent>>
      \/ Dies(Client) \/ Exit \/ RunClient \/ JobStep \/ Summarise
      \/ WarmupFails \/ WarmupDone \/ Submit \/ Join \/ CreateFile \/ WriteFile
  BY RunSteps, Zenon
<1> QED BY <1>1, <1>2, <1>3, <1>4, <1>5, <1>6, <1>7, Zenon

\* Steps that change neither the numbers nor who is to run.
LEMMA SameLoad ==
  ASSUME CountInv, ToldInv, TornInv,
         UNCHANGED <<reqs, num_aux, torn, told, arbFile, arb, script>>,
         proc'.pc = proc.pc \/ proc.pc # "none"
  PROVE  CountInv' /\ ToldInv' /\ TornInv'
BY Zenon DEF CountInv, Counted, ToldInv, TornInv, AuxNow

\* Both sides keep their count of the auxiliary clients.
LEMMA LoadNext ==
  ASSUME SweepInv, CountInv, ToldInv, TornInv, [Next]_vars
  PROVE  CountInv' /\ ToldInv' /\ TornInv'
<1> USE DEF CountInv, Counted, ToldInv, TornInv
<1>1. CASE ArbServer
  BY <1>1, EmptyAssumption, Zenon DEF ArbServer, clientVars, AuxNow, SweepInv, FilesInv, OneAtATime
<1>2. CASE ArbAux \/ ArbClient \/ ArbReboot \/ StopAll
  <2>1. /\ UNCHANGED <<reqs, num_aux, torn, told, arbFile, proc>>
        /\ arb'.count = arb.count /\ script # "tell" /\ script' # "tell"
        /\ \/ arb'.pc = "aux" /\ arb.pc = "aux" /\ script' = script
           \/ script' = "start" /\ arb.pc = "aux" /\ arb'.pc # "aux"
           \/ script' = "none" /\ arb'.pc # "aux"
           \/ script' = "local" /\ script = "stop" /\ arb'.pc # "aux"
    BY <1>2, Zenon DEF ArbAux, ArbClient, ArbReboot, StopAll, clientVars, SweepInv, FilesInv, SweepTypes,
       OneAtATime
  <2> QED BY <2>1, Zenon DEF AuxNow
<1>3. CASE ScriptStart
  <2>1. /\ script = "start" /\ script' \in {"run", "stop", "local"} /\ AuxNow' = AuxNow
        /\ UNCHANGED <<torn, told, arbFile, arb, proc>>
    BY <1>3, Zenon DEF ScriptStart, AuxNow
  <2> QED BY <2>1, Zenon
<1>4. CASE MoreAux
  <2>1. /\ script = "local" /\ script' = "tell" /\ proc.pc = "none"
        /\ UNCHANGED <<torn, told, arbFile, arb, proc>>
    BY <1>4, Zenon DEF MoreAux, SweepInv, FilesInv, OneAtATime
  <2> QED BY <2>1, Zenon
<1>5. CASE TellArbiter
  <2>1. /\ script = "tell" /\ script' = "reset" /\ arb.pc # "aux" /\ num_aux # Empty
        /\ told' => arbFile' = num_aux
        /\ UNCHANGED <<num_aux, torn, arb, proc>>
    BY <1>5, Zenon DEF TellArbiter, clientVars, SweepInv, FilesInv, OneAtATime, ScriptInv
  <2> QED BY <2>1, Zenon DEF AuxNow
<1>6. CASE ResetRate
  <2>1. /\ script = "reset" /\ script' \in {"run", "none"} /\ reqs' = Empty /\ arb.pc # "aux"
        /\ UNCHANGED <<num_aux, torn, told, arbFile, arb, proc>>
    BY <1>6, Zenon DEF ResetRate, SweepInv, FilesInv, OneAtATime
  <2> QED BY <2>1, Zenon DEF AuxNow
<1>7. CASE RunClient
  <2>1. /\ script = "run" /\ arb.pc # "aux"
        /\ UNCHANGED <<reqs, num_aux, torn, told, arbFile, arb>>
        /\ \/ script' = "none" /\ proc' = proc
           \/ script' = "wait" /\ reqs # Empty
    BY <1>7 DEF RunClient, StartClient, SweepInv, FilesInv, OneAtATime
  <2>2. reqs # Empty => AuxNow \notin torn
    <3>1. ASSUME reqs # Empty PROVE Rate = reqs /\ reqs \in Nat /\ reqs <= Limit
      BY <2>1, <3>1, Zenon DEF Rate, SweepInv, FilesInv, SweepTypes, OneAtATime, ScriptInv
    <3> QED BY <3>1, LimitAssumption DEF SweepInv, CampaignInv
  <2> QED BY <2>1, <2>2, Zenon DEF AuxNow
<1>8. CASE ScriptEnd
  <2>1. /\ script = "wait" /\ script' = "none" /\ arb.pc # "aux"
        /\ UNCHANGED <<reqs, num_aux, torn, told, arbFile, arb, proc>>
    BY <1>8, Zenon DEF ScriptEnd, clientVars, SweepInv, FilesInv, OneAtATime
  <2> QED BY <2>1, Zenon DEF AuxNow
<1>9. CASE ClientStep /\ UNCHANGED <<serving, sweepVars>>
  <2>1. CASE JobStep
    <3>1. UNCHANGED <<reqs, num_aux, proc>>
      BY <2>1, Zenon DEF JobStep, Begin, KeDone, KeFails, NtpDone, NtpFails, KePanics,
         NtpPanics, SendError
    <3> QED BY <1>9, <3>1, SameLoad, Zenon DEF sweepVars
  <2>2. CASE ~JobStep
    <3>1. proc.pc # "none" /\ script = "wait" /\ num_aux' = num_aux
      BY <1>9, <2>2, Zenon DEF ClientStep, WarmupFails, WarmupDone, Submit, Join, Summarise, CreateFile,
         WriteFile, Exit, SweepInv, FilesInv, OneAtATime
    <3> QED BY <1>9, <3>1, Zenon DEF sweepVars, AuxNow
  <2> QED BY <2>1, <2>2, Zenon
<1>10. CASE Dies(Client)
  <2>1. /\ script' = "none" /\ proc'.pc = "none"
        /\ UNCHANGED <<reqs, num_aux, told, arbFile, arb>>
        /\ torn' = IF script \in {"tell", "reset"} THEN torn \cup {num_aux} ELSE torn
    BY <1>10 DEF Dies, Gone
  <2>2. arb.pc = "aux" => script = "none"
    BY Zenon DEF SweepInv, FilesInv, OneAtATime
  <2>3. script \in {"tell", "reset"} => AuxNow = num_aux
    BY Zenon DEF SweepInv, FilesInv, ScriptInv, AuxNow
  <2> QED BY <2>1, <2>2, <2>3, Zenon DEF AuxNow
<1>11. CASE UNCHANGED vars
  BY <1>11, SameLoad, Zenon DEF vars, clientVars, sweepVars
<1>12. ASSUME NEW h \in Hosts, HostDown(h) \/ HostUp(h), ~Dies(Client)
       PROVE  CountInv' /\ ToldInv' /\ TornInv'
  <2>1. UNCHANGED <<reqs, num_aux, torn, told, arbFile, arb, script, proc>>
    BY <1>12, Zenon DEF HostDown, HostUp, Dies, clientVars
  <2> QED BY <2>1, SameLoad, Zenon
<1> HIDE DEF CountInv, ToldInv, TornInv
<1> QED BY <1>1, <1>2, <1>3, <1>4, <1>5, <1>6, <1>7, <1>8, <1>9, <1>10, <1>11, <1>12, Zenon
        DEF Next, PowerCycle

\* There are no results yet, and both sides know of no auxiliary clients.
LEMMA LabelInit == Init => LabelInv
<1> SUFFICES ASSUME Init PROVE LabelInv
  BY Zenon
<1>1. SentTypes
  <2>1. <<>> \in Seq(Lines)
    OBVIOUS
  <2> HIDE DEF Lines
  <2> QED BY <2>1, Zenon DEF Init, ClientInit, SentTypes, NoCounts
<1>2. HeadInv
  BY Zenon DEF Init, ClientInit, HeadInv, NoJob, Files
<1>3. CountInv /\ ToldInv /\ TornInv
  BY Zenon DEF Init, ClientInit, CountInv, Counted, ToldInv, TornInv, AuxNow
<1> QED BY <1>1, <1>2, <1>3, Zenon DEF LabelInv

\* The total at the head of a run's key exchanges is the load the arbiter made,
\* unless the arbiter missed the last number: a number that was torn is never
\* measured with.
THEOREM LabelsMatchLoad == Spec => []LabelMatchesLoad
<1>1. SweepInv /\ LabelInv /\ [Next]_vars => LabelInv'
  BY HeadNext, LoadNext, Zenon DEF LabelInv
<1>2. SweepInv /\ LabelInv => LabelMatchesLoad
  BY LabelSound, Zenon
<1> QED BY <1>1, <1>2, SweepInit, SweepNext, LabelInit, PTL DEF Spec

-----------------------------------------------------------------------------
(* What a run counts: its jobs, its errors and the lines of its results.   *)

Places == {"none", "queued", "ke", "ntp", "err", "done", "keLost", "ntpLost"}
Ends == {"done", "keLost", "ntpLost"}
Past == {"ntp", "err", "done", "keLost", "ntpLost"}

USE DEF Past
JobStates == [at : Places, left : 0 .. Exchanges]

\* Jobs at some places, the time exchanges jobs have before them, and what is
\* before the job of a thread that is in one state or another.
JobsAt(jobs, places) == {j \in Jobs : jobs[j].at \in places}
Ahead(jobs) ==
  {e \in Jobs \X (1 .. Exchanges) : jobs[e[1]].at = "ntp" /\ e[2] <= jobs[e[1]].left}
Load(state) == IF state.at = "ntp" THEN state.left ELSE 0

TimeLines(lines) == {i \in DOMAIN lines : lines[i].line = "time"}
Errors(counts, kind) ==
  counts[<<kind, "timeout">>] + counts[<<kind, "os">>] + counts[<<kind, "other">>]

\* Jobs come in order, and one that is to exchange times has some to exchange.
JobInv ==
  /\ job \in [Jobs -> JobStates]
  /\ \A j \in Jobs : job[j].at = "ntp" => job[j].left > 0
  /\ proc.submitted \in 0 .. TotalRequests
  /\ \A j \in Jobs : job[j].at = "none" <=> j > proc.submitted
  /\ Cardinality(Busy) <= Pool

\* Every job past its key exchange is a time or an error of it, or panicked in
\* it.  Every error is a line or about to be one.  A key is good for Exchanges
\* times, of which an error takes away all but the one it is measured with, and
\* a panic that one too.
Balance(ke, ntp, keErrors, ntpErrors, errors, past, failing, ahead, keLost, ntpLost) ==
  /\ ke + keErrors + keLost = past
  /\ keErrors + ntpErrors = errors + failing
  /\ ntp + ahead <= Exchanges * ke
  /\ Exchanges * ke + ntpErrors <= (ntp + ahead) + Exchanges * ntpErrors + Exchanges * ntpLost

AccountInv ==
  Balance(Times("ke"), Times("ntp"), Errors(counter, "ke"), Errors(counter, "ntp"),
          Len(sent["err"]), Cardinality(JobsAt(job, Past)),
          Cardinality(JobsAt(job, {"err"})), Cardinality(Ahead(job)),
          Cardinality(JobsAt(job, {"keLost"})), Cardinality(JobsAt(job, {"ntpLost"})))

\* The summaries are the last lines, of both files, and are sent when all jobs
\* are done.
AllDone ==
  /\ proc.submitted = TotalRequests
  /\ \A j \in 1 .. TotalRequests : job[j].at \in Ends

Summarised == \E f \in {"ke", "ntp"} : \E i \in DOMAIN sent[f] : sent[f][i].line = "errors"

Last(f) ==
  /\ sent[f] # <<>> /\ sent[f][Len(sent[f])] = Summary(f)
  /\ \A i \in DOMAIN sent[f] : sent[f][i].line = "errors" => i = Len(sent[f])

SummaryInv ==
  /\ proc.pc \in {"none", "warmup", "submit", "summary"} => ~Summarised
  /\ proc.pc = "summary" => AllDone
  /\ Summarised => AllDone /\ Last("ke") /\ Last("ntp")

RunInv == JobInv /\ AccountInv /\ SummaryInv

HostInv ==
  /\ host \in [Hosts -> {"up", "stopping", "down"}]
  /\ arb.started <= arb.count
  /\ auxOn \subseteq Aux

\* There are finitely many jobs, and every request has one.
LEMMA JobsFinite ==
  /\ Jobs \subseteq Nat /\ IsFiniteSet(Jobs)
  /\ \A jobs, places : IsFiniteSet(JobsAt(jobs, places))
<1>1. Runtime * Limit \in Nat
  BY RuntimeAssumption, LimitAssumption
<1>2. IsFiniteSet(Jobs) /\ Jobs \subseteq Nat
  BY <1>1, FS_Interval DEF Jobs
<1>3. \A jobs, places : JobsAt(jobs, places) \in SUBSET Jobs
  BY Zenon DEF JobsAt
<1> QED BY <1>2, <1>3, FS_Subset, Zenon

\* A job that moves is counted where it goes and not where it was.
Moved(jobs, after, j, state, places) ==
  /\ Cardinality(JobsAt(jobs, places)) \in Nat
  /\ Cardinality(JobsAt(after, places)) + (IF jobs[j].at \in places THEN 1 ELSE 0)
       = Cardinality(JobsAt(jobs, places)) + (IF state.at \in places THEN 1 ELSE 0)

\* This is what a change of one job does to the number of jobs at some places.
LEMMA Moves ==
  ASSUME NEW jobs \in [Jobs -> JobStates], NEW j \in Jobs, NEW state \in JobStates, NEW places
  PROVE  Moved(jobs, [jobs EXCEPT ![j] = state], j, state, places)
<1> DEFINE before == JobsAt(jobs, places)
           after == JobsAt([jobs EXCEPT ![j] = state], places)
<1>1. IsFiniteSet(before)
  BY JobsFinite, Zenon
<1>2. Cardinality(before) \in Nat
  BY <1>1, FS_CardinalityType, Zenon
<1>3. j \in before <=> jobs[j].at \in places
  BY Zenon DEF JobsAt
<1>4. after = IF state.at \in places THEN before \cup {j} ELSE before \ {j}
  BY Zenon DEF JobsAt
<1>5. /\ Cardinality(before \cup {j})
           = IF j \in before THEN Cardinality(before) ELSE Cardinality(before) + 1
      /\ Cardinality(before \ {j})
           = IF j \in before THEN Cardinality(before) - 1 ELSE Cardinality(before)
  BY <1>1, FS_AddElement, FS_RemoveElement, Zenon
<1> HIDE DEF before, after
<1>6. Cardinality(after) + (IF jobs[j].at \in places THEN 1 ELSE 0)
        = Cardinality(before) + (IF state.at \in places THEN 1 ELSE 0)
  BY <1>2, <1>3, <1>4, <1>5
<1> QED BY <1>2, <1>6, Zenon DEF before, after, Moved

\* As many exchanges are before a job as it has left.
LEMMA OwnExchanges ==
  ASSUME NEW j, NEW n \in Nat
  PROVE  IsFiniteSet({j} \X (1 .. n)) /\ Cardinality({j} \X (1 .. n)) = n
<1>1. IsFiniteSet({j}) /\ Cardinality({j}) = 1
  BY FS_Singleton, Zenon
<1>2. IsFiniteSet(1 .. n) /\ Cardinality(1 .. n) = n
  BY FS_Interval
<1>3. /\ IsFiniteSet({j} \X (1 .. n))
      /\ Cardinality({j} \X (1 .. n)) = Cardinality({j}) * Cardinality(1 .. n)
  BY <1>1, <1>2, FS_Product, Zenon
<1> QED BY <1>1, <1>2, <1>3

\* There are finitely many exchanges ahead.
LEMMA AheadFinite ==
  \A jobs : IsFiniteSet(Ahead(jobs)) /\ Cardinality(Ahead(jobs)) \in Nat
<1>1. IsFiniteSet(Jobs \X (1 .. Exchanges))
  <2>1. IsFiniteSet(1 .. Exchanges)
    BY FS_Interval, ExchangesAssumption
  <2> QED BY <2>1, JobsFinite, FS_Product, Zenon
<1>2. \A jobs : Ahead(jobs) \in SUBSET (Jobs \X (1 .. Exchanges))
  BY Zenon DEF Ahead
<1>3. \A jobs : IsFiniteSet(Ahead(jobs))
  BY <1>1, <1>2, FS_Subset, Zenon
<1> QED BY <1>3, FS_CardinalityType, Zenon

\* The exchanges that are ahead are those of one job and those of the others.
LEMMA AheadSplit ==
  ASSUME NEW jobs \in [Jobs -> JobStates], NEW j \in Jobs
  PROVE  /\ Cardinality({e \in Ahead(jobs) : e[1] # j}) \in Nat
         /\ Cardinality(Ahead(jobs)) = Cardinality({e \in Ahead(jobs) : e[1] # j}) + Load(jobs[j])
<1> DEFINE others == {e \in Ahead(jobs) : e[1] # j}
           n == Load(jobs[j])
<1>1. n \in Nat /\ n <= Exchanges /\ 0 <= n
  BY ExchangesAssumption DEF Load, JobStates
<1>2. IsFiniteSet(others) /\ Cardinality(others) \in Nat
  <2>1. others \in SUBSET Ahead(jobs)
    BY Zenon
  <2> QED BY <2>1, AheadFinite, FS_Subset, FS_CardinalityType, Zenon
<1>3. Ahead(jobs) = others \cup ({j} \X (1 .. n))
  <2>1. ASSUME NEW e \in Ahead(jobs), e[1] = j PROVE e \in {j} \X (1 .. n)
    BY <2>1, ExchangesAssumption, <1>1 DEF Ahead, Load, JobStates
  <2>2. ASSUME NEW e \in {j} \X (1 .. n) PROVE e \in Ahead(jobs)
    <3>1. e = <<j, e[2]>> /\ e[2] \in 1 .. n
      OBVIOUS
    <3>2. n # 0
      BY <3>1
    <3>3. jobs[j].at = "ntp" /\ jobs[j].left = n
      BY <3>2, Zenon DEF Load
    <3> QED BY <3>1, <3>3, <1>1, ExchangesAssumption DEF Ahead
  <2> QED BY <2>1, <2>2, Zenon
<1>4. others \cap ({j} \X (1 .. n)) = {}
  BY Zenon
<1>5. Cardinality({j} \X (1 .. n)) = n /\ IsFiniteSet({j} \X (1 .. n))
  BY <1>1, OwnExchanges, Zenon
<1> HIDE DEF others, n
<1>6. Cardinality(Ahead(jobs)) = Cardinality(others) + Cardinality({j} \X (1 .. n)) - Cardinality({})
  BY <1>2, <1>3, <1>4, <1>5, FS_Union
<1>7. Cardinality(Ahead(jobs)) = Cardinality(others) + n
  BY <1>1, <1>2, <1>5, <1>6, FS_EmptySet
<1> QED BY <1>2, <1>7, Zenon DEF others, n

\* A job that moves takes its exchanges with it.
LEMMA AheadMoves ==
  ASSUME NEW jobs \in [Jobs -> JobStates], NEW j \in Jobs, NEW state \in JobStates
  PROVE  /\ Cardinality(Ahead(jobs)) \in Nat
         /\ Cardinality(Ahead([jobs EXCEPT ![j] = state])) + Load(jobs[j])
              = Cardinality(Ahead(jobs)) + Load(state)
<1> DEFINE after == [jobs EXCEPT ![j] = state]
<1>1. after \in [Jobs -> JobStates] /\ after[j] = state
  BY Zenon
<1>2. {e \in Ahead(after) : e[1] # j} = {e \in Ahead(jobs) : e[1] # j}
  BY Zenon DEF Ahead
<1>3. Load(jobs[j]) \in Nat /\ Load(state) \in Nat
  BY ExchangesAssumption DEF Load, JobStates
<1> HIDE DEF after
<1>4. /\ Cardinality({e \in Ahead(jobs) : e[1] # j}) \in Nat
      /\ Cardinality(Ahead(jobs)) = Cardinality({e \in Ahead(jobs) : e[1] # j}) + Load(jobs[j])
      /\ Cardinality(Ahead(after)) = Cardinality({e \in Ahead(jobs) : e[1] # j}) + Load(state)
  BY <1>1, <1>2, AheadSplit, Zenon
<1>5. Cardinality(Ahead(after)) + Load(jobs[j]) = Cardinality(Ahead(jobs)) + Load(state)
  BY <1>3, <1>4
<1> QED BY <1>5, AheadFinite, Zenon DEF after

\* One error more is one more of its kind.
OneError(counts, after, kind) ==
  \A k \in {"ke", "ntp"} : Errors(after, k) = IF k = kind THEN Errors(counts, k) + 1
                                                         ELSE Errors(counts, k)

\* This is what an increment of one counter does to the errors of both kinds.
LEMMA CountsOne ==
  ASSUME NEW counts \in [{"ke", "ntp"} \X Classes -> Nat], NEW kind \in {"ke", "ntp"},
         NEW c \in Classes
  PROVE  /\ Errors(counts, "ke") \in Nat /\ Errors(counts, "ntp") \in Nat
         /\ OneError(counts, [counts EXCEPT ![<<kind, c>>] = @ + 1], kind)
<1>1. \A k \in {"ke", "ntp"} : \A d \in Classes : <<k, d>> \in {"ke", "ntp"} \X Classes
  BY Zenon
<1>2. "timeout" \in Classes /\ "os" \in Classes /\ "other" \in Classes
  BY Zenon DEF Classes
<1>3. c = "timeout" \/ c = "os" \/ c = "other"
  BY Zenon DEF Classes
<1> QED BY <1>1, <1>2, <1>3 DEF Errors, OneError

\* A line more is a time more if it is one.
LEMMA TimeLinesGrow ==
  ASSUME NEW lines \in Seq(Lines), NEW line \in Lines
  PROVE  /\ Cardinality(TimeLines(lines)) \in Nat
         /\ Cardinality(TimeLines(Append(lines, line)))
              = Cardinality(TimeLines(lines)) + (IF line.line = "time" THEN 1 ELSE 0)
<1> HIDE DEF Lines
<1>1. IsFiniteSet(TimeLines(lines))
  <2>1. IsFiniteSet(1 .. Len(lines))
    BY FS_Interval
  <2>2. TimeLines(lines) \in SUBSET (1 .. Len(lines))
    BY DEF TimeLines
  <2> QED BY <2>1, <2>2, FS_Subset, Zenon
<1>2. TimeLines(Append(lines, line))
        = IF line.line = "time" THEN TimeLines(lines) \cup {Len(lines) + 1} ELSE TimeLines(lines)
  <2>1. /\ DOMAIN Append(lines, line) = 1 .. Len(lines) + 1 /\ DOMAIN lines = 1 .. Len(lines)
        /\ Append(lines, line)[Len(lines) + 1] = line
        /\ \A i \in 1 .. Len(lines) : Append(lines, line)[i] = lines[i]
        /\ 1 .. Len(lines) + 1 = (1 .. Len(lines)) \cup {Len(lines) + 1}
    OBVIOUS
  <2> QED BY ONLY <2>1, Zenon DEF TimeLines
<1>3. Len(lines) + 1 \notin TimeLines(lines)
  BY DEF TimeLines
<1> QED BY <1>1, <1>2, <1>3, FS_AddElement, FS_CardinalityType

\* What the steps of a job do to the counts keeps the balance.
LEMMA BalanceKept ==
  ASSUME NEW k \in Nat, NEW n \in Nat, NEW ke \in Nat, NEW ntp \in Nat, NEW e \in Nat,
         NEW past \in Nat, NEW failing \in Nat, NEW ahead \in Nat,
         NEW kl \in Nat, NEW nl \in Nat,
         Balance(k, n, ke, ntp, e, past, failing, ahead, kl, nl)
  PROVE  /\ Balance(k + 1, n, ke, ntp, e, past + 1, failing, ahead + Exchanges, kl, nl)
         /\ Balance(k, n, ke + 1, ntp, e, past + 1, failing + 1, ahead, kl, nl)
         /\ Balance(k, n + 1, ke, ntp, e, past, failing, ahead - 1, kl, nl)
         /\ \A l \in 1 .. Exchanges :
              Balance(k, n + 1, ke, ntp + 1, e, past, failing + 1, ahead - l, kl, nl)
         /\ Balance(k, n, ke, ntp, e + 1, past, failing - 1, ahead, kl, nl)
         /\ Balance(k, n, ke, ntp, e, past + 1, failing, ahead, kl + 1, nl)
         /\ \A l \in 1 .. Exchanges :
              Balance(k, n, ke, ntp, e, past, failing, ahead - l, kl, nl + 1)
<1>1. /\ Exchanges * (k + 1) = Exchanges * k + Exchanges
      /\ Exchanges * (ntp + 1) = Exchanges * ntp + Exchanges
      /\ Exchanges * (nl + 1) = Exchanges * nl + Exchanges /\ Exchanges * nl \in Nat
      /\ Exchanges * k \in Nat /\ Exchanges * ntp \in Nat /\ Exchanges \in Nat
  BY ExchangesAssumption
<1>2. /\ k + ke + kl = past /\ ke + ntp = e + failing
      /\ n + ahead <= Exchanges * k
      /\ Exchanges * k + ntp <= (n + ahead) + Exchanges * ntp + Exchanges * nl
  BY Zenon DEF Balance
<1>3. Balance(k + 1, n, ke, ntp, e, past + 1, failing, ahead + Exchanges, kl, nl)
  BY <1>1, <1>2 DEF Balance
<1>4. Balance(k, n, ke + 1, ntp, e, past + 1, failing + 1, ahead, kl, nl)
  BY <1>1, <1>2 DEF Balance
<1>5. Balance(k, n + 1, ke, ntp, e, past, failing, ahead - 1, kl, nl)
  BY <1>1, <1>2 DEF Balance
<1>6. ASSUME NEW l \in 1 .. Exchanges
      PROVE  Balance(k, n + 1, ke, ntp + 1, e, past, failing + 1, ahead - l, kl, nl)
  BY <1>1, <1>2, <1>6 DEF Balance
<1>7. Balance(k, n, ke, ntp, e + 1, past, failing - 1, ahead, kl, nl)
  BY <1>1, <1>2 DEF Balance
<1>8. Balance(k, n, ke, ntp, e, past + 1, failing, ahead, kl + 1, nl)
  BY <1>1, <1>2 DEF Balance
<1>9. ASSUME NEW l \in 1 .. Exchanges
      PROVE  Balance(k, n, ke, ntp, e, past, failing, ahead - l, kl, nl + 1)
  BY <1>1, <1>2, <1>9 DEF Balance
<1> QED BY <1>3, <1>4, <1>5, <1>6, <1>7, <1>8, <1>9, Zenon

\* The numbers of the balance are numbers.
LEMMA Numbers ==
  ASSUME SentTypes
  PROVE  /\ Times("ke") \in Nat /\ Times("ntp") \in Nat /\ Len(sent["err"]) \in Nat
         /\ Errors(counter, "ke") \in Nat /\ Errors(counter, "ntp") \in Nat
         /\ Cardinality(JobsAt(job, Past)) \in Nat
         /\ Cardinality(JobsAt(job, {"err"})) \in Nat /\ Cardinality(Ahead(job)) \in Nat
         /\ Cardinality(JobsAt(job, {"keLost"})) \in Nat
         /\ Cardinality(JobsAt(job, {"ntpLost"})) \in Nat
<1>1. \A f \in Files : sent[f] \in Seq(Lines)
  BY Zenon DEF SentTypes
<1>2. "ke" \in Files /\ "ntp" \in Files /\ "err" \in Files /\ [line |-> "time"] \in Lines
      /\ "os" \in Classes
  BY Zenon DEF Files, Lines, Classes
<1> HIDE DEF Lines
<1>3. \A f \in Files : Times(f) \in Nat
  <2>1. \A f \in Files : Times(f) = Cardinality(TimeLines(sent[f]))
    BY Zenon DEF Times, TimeLines
  <2> QED BY <1>1, <1>2, <2>1, TimeLinesGrow, Zenon
<1>4. Len(sent["err"]) \in Nat
  BY <1>1, <1>2
<1>5. Errors(counter, "ke") \in Nat /\ Errors(counter, "ntp") \in Nat
  BY <1>2, CountsOne, Zenon DEF SentTypes
<1> QED BY <1>2, <1>3, <1>4, <1>5, JobsFinite, AheadFinite, FS_CardinalityType, Zenon

\* What is sent to one writer.
OneLine(f, line) ==
  /\ \A g \in Files : sent'[g] = IF g = f THEN Append(sent[f], line) ELSE sent[g]
  /\ Times("ke")' = Times("ke") + (IF "ke" = f /\ line.line = "time" THEN 1 ELSE 0)
  /\ Times("ntp")' = Times("ntp") + (IF "ntp" = f /\ line.line = "time" THEN 1 ELSE 0)
  /\ Len(sent["err"])' = Len(sent["err"]) + (IF f = "err" THEN 1 ELSE 0)
  /\ line.line # "errors" => (Summarised' => Summarised)

\* Send changes the file it names and no other, and counts a time if it is one.
LEMMA Sends ==
  ASSUME SentTypes, NEW f \in Files, NEW line \in Lines, sent' = Send(f, line)
  PROVE  OneLine(f, line)
<1> HIDE DEF Lines
<1>1. sent \in [Files -> Seq(Lines)] /\ "err" \in Files /\ "ke" \in Files /\ "ntp" \in Files
  BY Zenon DEF SentTypes, Files
<1>2. \A g \in Files : sent'[g] = IF g = f THEN Append(sent[f], line) ELSE sent[g]
  BY <1>1, Zenon DEF Send
<1>3. \A g \in Files : /\ Times(g) = Cardinality(TimeLines(sent[g]))
                       /\ Times(g)' = Cardinality(TimeLines(sent'[g]))
  BY Zenon DEF Times, TimeLines
<1>4. \A g \in Files : /\ Cardinality(TimeLines(sent[g])) \in Nat
                       /\ Cardinality(TimeLines(Append(sent[g], line)))
                            = Cardinality(TimeLines(sent[g]))
                                + (IF line.line = "time" THEN 1 ELSE 0)
  BY <1>1, TimeLinesGrow, Zenon
<1>5. \A g \in Files : Times(g)' = Times(g) + (IF g = f /\ line.line = "time" THEN 1 ELSE 0)
  BY <1>2, <1>3, <1>4
<1>6. Len(sent["err"])' = Len(sent["err"]) + (IF f = "err" THEN 1 ELSE 0)
  <2>1. sent["err"] \in Seq(Lines) /\ Len(Append(sent["err"], line)) = Len(sent["err"]) + 1
        /\ Len(sent["err"]) + 0 = Len(sent["err"])
    BY <1>1
  <2>2. sent'["err"] = IF f = "err" THEN Append(sent["err"], line) ELSE sent["err"]
    BY <1>1, <1>2, Zenon
  <2> QED BY ONLY <2>1, <2>2, Zenon
<1>7. ASSUME line.line # "errors", Summarised' PROVE Summarised
  <2>1. PICK g \in {"ke", "ntp"} : \E i \in DOMAIN sent'[g] : sent'[g][i].line = "errors"
    BY <1>7, Zenon DEF Summarised
  <2>2. PICK i \in DOMAIN sent'[g] : sent'[g][i].line = "errors"
    BY <2>1, Zenon
  <2>3. g \in Files /\ sent[g] \in Seq(Lines)
    BY <1>1, Zenon DEF Files
  <2>4. i \in DOMAIN sent[g] /\ sent[g][i].line = "errors"
    <3>1. CASE g # f
      BY <3>1, <2>2, <2>3, <1>2, Zenon
    <3>2. CASE g = f
      <4>1. sent'[g] = Append(sent[g], line)
        BY <3>2, <2>3, <1>2, Zenon
      <4>2. i \in DOMAIN Append(sent[g], line) /\ Append(sent[g], line)[i].line = "errors"
        BY <4>1, <2>2, Zenon
      <4>3. i \in DOMAIN sent[g] /\ Append(sent[g], line)[i] = sent[g][i]
        BY <4>2, <1>7, <2>3
      <4> QED BY <4>2, <4>3, Zenon
    <3> QED BY <3>1, <3>2, Zenon
  <2> QED BY <2>4, Zenon DEF Summarised
<1>8. /\ Times("ke")' = Times("ke") + (IF "ke" = f /\ line.line = "time" THEN 1 ELSE 0)
      /\ Times("ntp")' = Times("ntp") + (IF "ntp" = f /\ line.line = "time" THEN 1 ELSE 0)
  BY <1>1, <1>5, Zenon
<1> QED BY <1>2, <1>6, <1>7, <1>8, Zenon DEF OneLine

\* A time, or an error, that is sent.
LEMMA TimeSent ==
  ASSUME SentTypes
  PROVE  /\ sent' = Send("ke", [line |-> "time"]) =>
              /\ Times("ke")' = Times("ke") + 1 /\ Times("ntp")' = Times("ntp")
              /\ Len(sent["err"])' = Len(sent["err"]) /\ (Summarised' => Summarised)
         /\ sent' = Send("ntp", [line |-> "time"]) =>
              /\ Times("ke")' = Times("ke") /\ Times("ntp")' = Times("ntp") + 1
              /\ Len(sent["err"])' = Len(sent["err"]) /\ (Summarised' => Summarised)
         /\ sent' = Send("err", [line |-> "error"]) =>
              /\ Times("ke")' = Times("ke") /\ Times("ntp")' = Times("ntp")
              /\ Len(sent["err"])' = Len(sent["err"]) + 1 /\ (Summarised' => Summarised)
<1>1. /\ [line |-> "time"] \in Lines /\ [line |-> "error"] \in Lines
      /\ [line |-> "time"].line = "time" /\ [line |-> "error"].line = "error"
      /\ "ke" \in Files /\ "ntp" \in Files /\ "err" \in Files
  BY Zenon DEF Lines, Files
<1>2. Times("ke") \in Nat /\ Times("ntp") \in Nat /\ Len(sent["err"]) \in Nat
  BY Numbers, Zenon
<1>3. ASSUME sent' = Send("ke", [line |-> "time"])
      PROVE  /\ Times("ke")' = Times("ke") + 1 /\ Times("ntp")' = Times("ntp")
             /\ Len(sent["err"])' = Len(sent["err"]) /\ (Summarised' => Summarised)
  <2>1. OneLine("ke", [line |-> "time"])
    BY <1>1, <1>3, Sends, Zenon
  <2>2. /\ Times("ke")' = Times("ke") + 1 /\ Times("ntp")' = Times("ntp") + 0
        /\ Len(sent["err"])' = Len(sent["err"]) + 0 /\ (Summarised' => Summarised)
    BY <2>1, <1>1, Zenon DEF OneLine
  <2> QED BY <2>2, <1>2
<1>4. ASSUME sent' = Send("ntp", [line |-> "time"])
      PROVE  /\ Times("ke")' = Times("ke") /\ Times("ntp")' = Times("ntp") + 1
             /\ Len(sent["err"])' = Len(sent["err"]) /\ (Summarised' => Summarised)
  <2>1. OneLine("ntp", [line |-> "time"])
    BY <1>1, <1>4, Sends, Zenon
  <2>2. /\ Times("ke")' = Times("ke") + 0 /\ Times("ntp")' = Times("ntp") + 1
        /\ Len(sent["err"])' = Len(sent["err"]) + 0 /\ (Summarised' => Summarised)
    BY <2>1, <1>1, Zenon DEF OneLine
  <2> QED BY <2>2, <1>2
<1>5. ASSUME sent' = Send("err", [line |-> "error"])
      PROVE  /\ Times("ke")' = Times("ke") /\ Times("ntp")' = Times("ntp")
             /\ Len(sent["err"])' = Len(sent["err"]) + 1 /\ (Summarised' => Summarised)
  <2>1. OneLine("err", [line |-> "error"])
    BY <1>1, <1>5, Sends, Zenon
  <2>2. /\ Times("ke")' = Times("ke") + 0 /\ Times("ntp")' = Times("ntp") + 0
        /\ Len(sent["err"])' = Len(sent["err"]) + 1 /\ (Summarised' => Summarised)
    BY <2>1, <1>1, Zenon DEF OneLine
  <2> QED BY <2>2, <1>2
<1> QED BY <1>3, <1>4, <1>5, Zenon

\* A job that moves stays in line, and the pool is not overfull.
LEMMA JobMoved ==
  ASSUME JobInv, NEW j \in Jobs, NEW state \in JobStates,
         job' = [job EXCEPT ![j] = state], proc' = proc,
         job[j].at # "none", state.at # "none", state.at = "ntp" => state.left > 0,
         \/ state.at \notin {"ke", "ntp", "err"}
         \/ job[j].at \in {"ke", "ntp", "err"}
         \/ Cardinality(Busy) < Pool
  PROVE  JobInv'
<1>1. job \in [Jobs -> JobStates] /\ job' \in [Jobs -> JobStates] /\ job'[j] = state
      /\ \A i \in Jobs \ {j} : job'[i] = job[i]
  BY Zenon DEF JobInv
<1>2. Busy = JobsAt(job, {"ke", "ntp", "err"}) /\ Busy' = JobsAt(job', {"ke", "ntp", "err"})
  BY Zenon DEF Busy, JobsAt
<1>3. /\ Cardinality(Busy) \in Nat
      /\ Cardinality(Busy') + (IF job[j].at \in {"ke", "ntp", "err"} THEN 1 ELSE 0)
           = Cardinality(Busy) + (IF state.at \in {"ke", "ntp", "err"} THEN 1 ELSE 0)
  <2>1. Moved(job, job', j, state, {"ke", "ntp", "err"})
    BY <1>1, Moves, Zenon
  <2> QED BY <2>1, <1>2, Zenon DEF Moved
<1>4. Cardinality(Busy') \in Nat
  BY <1>2, JobsFinite, FS_CardinalityType, Zenon
<1>5. Cardinality(Busy') <= Pool
  BY <1>3, <1>4, PoolAssumption DEF JobInv
<1>6. \A i \in Jobs : job'[i].at = "ntp" => job'[i].left > 0
  BY <1>1, Zenon DEF JobInv
<1>7. \A i \in Jobs : job'[i].at = "none" <=> i > proc.submitted
  BY <1>1, Zenon DEF JobInv
<1> QED BY <1>1, <1>5, <1>6, <1>7, Zenon DEF JobInv, TotalRequests

\* While a job is on its way, no summary has been sent.
LEMMA NotYetSummarised ==
  ASSUME JobInv, SummaryInv, NEW j \in Jobs, job[j].at \notin {"none", "done", "keLost", "ntpLost"}
  PROVE  ~AllDone /\ ~Summarised /\ proc.pc # "summary"
<1>1. ~AllDone
  <2>1. ~(j > proc.submitted) /\ j \in Nat /\ j >= 1 /\ proc.submitted \in Nat
    BY JobsFinite, RuntimeAssumption, LimitAssumption DEF JobInv, Jobs
  <2>2. proc.submitted = TotalRequests => j \in 1 .. TotalRequests
    BY <2>1
  <2> QED BY <2>2, Zenon DEF AllDone, Ends
<1> QED BY <1>1, Zenon DEF SummaryInv

\* The counts after a job has moved.
Recounted(jobs, after, j, state) ==
  /\ Cardinality(JobsAt(after, Past))
       + (IF jobs[j].at \in Past THEN 1 ELSE 0)
       = Cardinality(JobsAt(jobs, Past))
           + (IF state.at \in Past THEN 1 ELSE 0)
  /\ Cardinality(JobsAt(after, {"err"})) + (IF jobs[j].at = "err" THEN 1 ELSE 0)
       = Cardinality(JobsAt(jobs, {"err"})) + (IF state.at = "err" THEN 1 ELSE 0)
  /\ Cardinality(Ahead(after)) + Load(jobs[j]) = Cardinality(Ahead(jobs)) + Load(state)
  /\ Cardinality(JobsAt(after, Past)) \in Nat
  /\ Cardinality(JobsAt(after, {"err"})) \in Nat
  /\ Cardinality(Ahead(after)) \in Nat

\* This is what a change of one job does to the counts of the balance.
LEMMA Counts ==
  ASSUME JobInv, NEW j \in Jobs, NEW state \in JobStates, job' = [job EXCEPT ![j] = state]
  PROVE  Recounted(job, job', j, state)
<1>1. job \in [Jobs -> JobStates]
  BY Zenon DEF JobInv
<1>2. \A x : x \in {"err"} <=> x = "err"
  BY Zenon
<1>3. Cardinality(JobsAt(job', {"err"})) + (IF job[j].at \in {"err"} THEN 1 ELSE 0)
        = Cardinality(JobsAt(job, {"err"})) + (IF state.at \in {"err"} THEN 1 ELSE 0)
  <2>1. Moved(job, job', j, state, {"err"})
    BY <1>1, Moves, Zenon
  <2> QED BY <2>1, Zenon DEF Moved
<1>4. Cardinality(JobsAt(job', {"err"})) + (IF job[j].at = "err" THEN 1 ELSE 0)
        = Cardinality(JobsAt(job, {"err"})) + (IF state.at = "err" THEN 1 ELSE 0)
  BY ONLY <1>2, <1>3, Zenon
<1>5. Cardinality(JobsAt(job', Past))
        + (IF job[j].at \in Past THEN 1 ELSE 0)
        = Cardinality(JobsAt(job, Past))
            + (IF state.at \in Past THEN 1 ELSE 0)
  <2>1. Moved(job, job', j, state, Past)
    BY <1>1, Moves, Zenon
  <2> QED BY <2>1, Zenon DEF Moved
<1>6. Cardinality(Ahead(job')) + Load(job[j]) = Cardinality(Ahead(job)) + Load(state)
  BY <1>1, AheadMoves, Zenon
<1>7. /\ Cardinality(JobsAt(job', Past)) \in Nat
      /\ Cardinality(JobsAt(job', {"err"})) \in Nat
      /\ Cardinality(Ahead(job')) \in Nat
  BY JobsFinite, AheadFinite, FS_CardinalityType, Zenon
<1> QED BY <1>4, <1>5, <1>6, <1>7, Zenon DEF Recounted

\* A job that does not panic leaves those that did alone.
LEMMA LostKept ==
  ASSUME JobInv, NEW j \in Jobs, NEW state, job' = [job EXCEPT ![j] = state],
         job[j].at \notin {"keLost", "ntpLost"}, state.at \notin {"keLost", "ntpLost"}
  PROVE  /\ JobsAt(job', {"keLost"}) = JobsAt(job, {"keLost"})
         /\ JobsAt(job', {"ntpLost"}) = JobsAt(job, {"ntpLost"})
<1>1. /\ job'[j] = state /\ \A i \in Jobs \ {j} : job'[i] = job[i]
  BY Zenon DEF JobInv
<1>2. \A i \in Jobs : /\ job'[i].at \in {"keLost"} <=> job[i].at \in {"keLost"}
                      /\ job'[i].at \in {"ntpLost"} <=> job[i].at \in {"ntpLost"}
  BY <1>1, Zenon
<1> QED BY <1>2, Zenon DEF JobsAt

\* One that does is counted once more.
LEMMA LostCounts ==
  ASSUME JobInv, NEW j \in Jobs, NEW state \in JobStates, job' = [job EXCEPT ![j] = state],
         job[j].at \notin {"keLost", "ntpLost"}
  PROVE  \A lost \in {"keLost", "ntpLost"} :
           /\ state.at = lost => Cardinality(JobsAt(job', {lost}))
                                   = Cardinality(JobsAt(job, {lost})) + 1
           /\ state.at # lost => Cardinality(JobsAt(job', {lost}))
                                   = Cardinality(JobsAt(job, {lost}))
<1> SUFFICES ASSUME NEW lost \in {"keLost", "ntpLost"}
             PROVE  /\ state.at = lost => Cardinality(JobsAt(job', {lost}))
                                            = Cardinality(JobsAt(job, {lost})) + 1
                    /\ state.at # lost => Cardinality(JobsAt(job', {lost}))
                                            = Cardinality(JobsAt(job, {lost}))
  BY Zenon
<1>1. Moved(job, job', j, state, {lost})
  BY Moves, Zenon DEF JobInv
<1>2. job[j].at \notin {lost}
  BY Zenon
<1>3. Cardinality(JobsAt(job', {lost})) + 0
        = Cardinality(JobsAt(job, {lost})) + (IF state.at \in {lost} THEN 1 ELSE 0)
  BY <1>1, <1>2, Zenon DEF Moved
<1>4. Cardinality(JobsAt(job', {lost})) \in Nat /\ Cardinality(JobsAt(job, {lost})) \in Nat
  BY JobsFinite, FS_CardinalityType, Zenon
<1> QED BY ONLY <1>3, <1>4

\* What a job is between two of its steps.
LEMMA JobIs ==
  ASSUME JobInv, NEW j \in Jobs
  PROVE  /\ job[j] = [at |-> job[j].at, left |-> job[j].left]
         /\ job[j].at \in Places /\ job[j].left \in 0 .. Exchanges
         /\ \A a : [job EXCEPT ![j].at = a] = [job EXCEPT ![j] = [at |-> a, left |-> job[j].left]]
         /\ \A a \in Places, l \in 0 .. Exchanges : [at |-> a, left |-> l] \in JobStates
<1>1. job \in [Jobs -> JobStates]
  BY Zenon DEF JobInv
<1>2. \A a \in Places, l \in 0 .. Exchanges : [at |-> a, left |-> l] \in JobStates
  BY Zenon DEF JobStates
<1>3. \A x \in JobStates : /\ x = [at |-> x.at, left |-> x.left]
                           /\ x.at \in Places /\ x.left \in 0 .. Exchanges
                           /\ \A a : [x EXCEPT !.at = a] = [at |-> a, left |-> x.left]
  BY DEF JobStates
<1>4. job[j] \in JobStates
  BY <1>1, Zenon
<1>5. \A a : [job EXCEPT ![j].at = a] = [job EXCEPT ![j] = [at |-> a, left |-> job[j].left]]
  BY <1>3, <1>4, Zenon
<1> QED BY <1>2, <1>3, <1>4, <1>5, Zenon

\* A thread of the pool takes a job.
LEMMA BeginRun ==
  ASSUME SentTypes, RunInv, NEW j \in Jobs, Begin(j)
  PROVE  RunInv'
<1> DEFINE state == [at |-> "ke", left |-> job[j].left]
<1>1. /\ JobInv /\ AccountInv /\ SummaryInv /\ job[j].at = "queued"
      /\ job' = [job EXCEPT ![j].at = "ke"] /\ UNCHANGED <<proc, counter, sent>>
      /\ Cardinality(Busy) < Pool
  BY Zenon DEF RunInv, Begin
<1>2. job' = [job EXCEPT ![j] = state] /\ state \in JobStates /\ state.at = "ke"
  BY <1>1, JobIs, Zenon DEF Places
<1> HIDE DEF state
<1>3. JobInv'
  BY <1>1, <1>2, JobMoved, Zenon
<1>4. /\ Cardinality(JobsAt(job', Past))
           = Cardinality(JobsAt(job, Past))
      /\ Cardinality(JobsAt(job', {"err"})) = Cardinality(JobsAt(job, {"err"}))
      /\ Cardinality(Ahead(job')) = Cardinality(Ahead(job))
  <2>1. Recounted(job, job', j, state)
    BY <1>1, <1>2, Counts, Zenon
  <2>2. Load(job[j]) = 0 /\ Load(state) = 0
    BY <1>1, <1>2, Zenon DEF Load
  <2> QED BY <2>1, <2>2, <1>1, <1>2, Numbers DEF Recounted
<1>5. AccountInv'
  <2>1. /\ JobsAt(job', {"keLost"}) = JobsAt(job, {"keLost"})
        /\ JobsAt(job', {"ntpLost"}) = JobsAt(job, {"ntpLost"})
    BY <1>1, <1>2, LostKept, Zenon
  <2> QED BY <2>1, <1>1, <1>4, Zenon DEF AccountInv, Times
<1>6. SummaryInv'
  BY <1>1, NotYetSummarised, Zenon DEF SummaryInv, Summarised
<1> QED BY <1>3, <1>5, <1>6, Zenon DEF RunInv

\* A key exchange succeeds.
LEMMA KeDoneRun ==
  ASSUME SentTypes, RunInv, NEW j \in Jobs, KeDone(j)
  PROVE  RunInv'
<1> DEFINE state == [at |-> IF Exchanges = 0 THEN "done" ELSE "ntp", left |-> Exchanges]
<1>1. /\ JobInv /\ AccountInv /\ SummaryInv /\ job[j].at = "ke"
      /\ job' = [job EXCEPT ![j] = state] /\ UNCHANGED <<proc, counter>>
      /\ sent' = Send("ke", [line |-> "time"])
  BY Zenon DEF RunInv, KeDone
<1>2. /\ state \in JobStates /\ state.at \in {"ntp", "done"} /\ Load(state) = Exchanges
      /\ state.at = "ntp" => state.left > 0
  BY ExchangesAssumption DEF JobStates, Places, Load
<1> HIDE DEF state
<1>3. JobInv'
  BY <1>1, <1>2, JobMoved, Zenon
<1>4. /\ Cardinality(JobsAt(job', Past))
           = Cardinality(JobsAt(job, Past)) + 1
      /\ Cardinality(JobsAt(job', {"err"})) = Cardinality(JobsAt(job, {"err"}))
      /\ Cardinality(Ahead(job')) = Cardinality(Ahead(job)) + Exchanges
  <2>1. Recounted(job, job', j, state)
    BY <1>1, <1>2, Counts, Zenon
  <2>2. Load(job[j]) = 0
    BY <1>1, <1>2, Zenon DEF Load
  <2>3. /\ Cardinality(Ahead(job')) + 0 = Cardinality(Ahead(job)) + Exchanges
        /\ Cardinality(Ahead(job')) \in Nat
    BY <2>1, <2>2, <1>2, Zenon DEF Recounted
  <2>4. job[j].at # "err" /\ job[j].at \notin Past
    BY <1>1, Zenon
  <2>5. /\ Cardinality(JobsAt(job', Past)) + 0
             = Cardinality(JobsAt(job, Past)) + 1
        /\ Cardinality(JobsAt(job', {"err"})) + 0 = Cardinality(JobsAt(job, {"err"})) + 0
        /\ Cardinality(JobsAt(job', Past)) \in Nat
        /\ Cardinality(JobsAt(job', {"err"})) \in Nat
    BY <2>1, <2>4, <1>2, Zenon DEF Recounted
  <2>6. /\ Cardinality(JobsAt(job, Past)) \in Nat
        /\ Cardinality(JobsAt(job, {"err"})) \in Nat
    BY Numbers, Zenon
  <2>7. Cardinality(Ahead(job)) \in Nat
    BY Numbers, Zenon
  <2> QED BY ONLY <2>3, <2>5, <2>6, <2>7, ExchangesAssumption
<1>5. /\ Times("ke")' = Times("ke") + 1 /\ Times("ntp")' = Times("ntp")
      /\ Len(sent["err"])' = Len(sent["err"]) /\ (Summarised' => Summarised)
  BY <1>1, TimeSent, Zenon
<1>6. Errors(counter', "ke") = Errors(counter, "ke") /\ Errors(counter', "ntp") = Errors(counter, "ntp")
  BY <1>1, Zenon
<1>7. AccountInv'
  <2>0. /\ JobsAt(job', {"keLost"}) = JobsAt(job, {"keLost"})
        /\ JobsAt(job', {"ntpLost"}) = JobsAt(job, {"ntpLost"})
    BY <1>1, <1>2, LostKept, Zenon
  <2>1. Balance(Times("ke") + 1, Times("ntp"), Errors(counter, "ke"),
                Errors(counter, "ntp"), Len(sent["err"]),
                Cardinality(JobsAt(job, Past)) + 1,
                Cardinality(JobsAt(job, {"err"})), Cardinality(Ahead(job)) + Exchanges,
                Cardinality(JobsAt(job, {"keLost"})), Cardinality(JobsAt(job, {"ntpLost"})))
    BY <1>1, Numbers, BalanceKept, Zenon DEF AccountInv
  <2> QED BY <2>0, <2>1, <1>1, <1>4, <1>5, <1>6, Zenon DEF AccountInv
<1>8. SummaryInv'
  BY <1>1, <1>5, NotYetSummarised, Zenon DEF SummaryInv
<1> QED BY <1>3, <1>7, <1>8, Zenon DEF RunInv

\* A key exchange fails.
LEMMA KeFailsRun ==
  ASSUME SentTypes, RunInv, NEW j \in Jobs, KeFails(j)
  PROVE  RunInv'
<1> DEFINE state == [at |-> "err", left |-> job[j].left]
<1>1. /\ JobInv /\ AccountInv /\ SummaryInv /\ job[j].at = "ke"
      /\ job' = [job EXCEPT ![j].at = "err"] /\ UNCHANGED <<proc, sent>>
      /\ \E err \in KeErrors : counter' = [counter EXCEPT ![<<"ke", ClassOf(err)>>] = @ + 1]
  BY Zenon DEF RunInv, KeFails
<1>2. job' = [job EXCEPT ![j] = state] /\ state \in JobStates /\ state.at = "err"
  BY <1>1, JobIs, Zenon DEF Places
<1> HIDE DEF state
<1>3. JobInv'
  BY <1>1, <1>2, JobMoved, Zenon
<1>4. /\ Cardinality(JobsAt(job', Past))
           = Cardinality(JobsAt(job, Past)) + 1
      /\ Cardinality(JobsAt(job', {"err"})) = Cardinality(JobsAt(job, {"err"})) + 1
      /\ Cardinality(Ahead(job')) = Cardinality(Ahead(job))
  <2>1. Recounted(job, job', j, state)
    BY <1>1, <1>2, Counts, Zenon
  <2>2. Load(job[j]) = 0 /\ Load(state) = 0
    BY <1>1, <1>2, Zenon DEF Load
  <2> QED BY <2>1, <2>2, <1>1, <1>2, Numbers, ExchangesAssumption DEF Recounted
<1>5. /\ Times("ke")' = Times("ke") /\ Times("ntp")' = Times("ntp")
      /\ Len(sent["err"])' = Len(sent["err"]) /\ (Summarised' => Summarised)
  BY <1>1, Zenon DEF Times, Summarised
<1>6. /\ Errors(counter', "ke") = Errors(counter, "ke") + 1
      /\ Errors(counter', "ntp") = Errors(counter, "ntp")
  <2>1. PICK err \in KeErrors : counter' = [counter EXCEPT ![<<"ke", ClassOf(err)>>] = @ + 1]
    BY <1>1, Zenon
  <2>2. ClassOf(err) \in Classes
    BY Zenon DEF ClassOf, Classes
  <2>3. OneError(counter, counter', "ke")
    BY <2>1, <2>2, CountsOne, Zenon DEF SentTypes
  <2> QED BY <2>3, Zenon DEF OneError
<1>7. AccountInv'
  <2>0. /\ JobsAt(job', {"keLost"}) = JobsAt(job, {"keLost"})
        /\ JobsAt(job', {"ntpLost"}) = JobsAt(job, {"ntpLost"})
    BY <1>1, <1>2, LostKept, Zenon
  <2>1. Balance(Times("ke"), Times("ntp"), Errors(counter, "ke") + 1,
                Errors(counter, "ntp"), Len(sent["err"]),
                Cardinality(JobsAt(job, Past)) + 1,
                Cardinality(JobsAt(job, {"err"})) + 1, Cardinality(Ahead(job)),
                Cardinality(JobsAt(job, {"keLost"})), Cardinality(JobsAt(job, {"ntpLost"})))
    BY <1>1, Numbers, BalanceKept, Zenon DEF AccountInv
  <2> QED BY <2>0, <2>1, <1>1, <1>4, <1>5, <1>6, Zenon DEF AccountInv
<1>8. SummaryInv'
  BY <1>1, <1>5, NotYetSummarised, Zenon DEF SummaryInv
<1> QED BY <1>3, <1>7, <1>8, Zenon DEF RunInv

\* A time exchange succeeds.
LEMMA NtpDoneRun ==
  ASSUME SentTypes, RunInv, NEW j \in Jobs, NtpDone(j)
  PROVE  RunInv'
<1> DEFINE state == [at |-> IF job[j].left = 1 THEN "done" ELSE "ntp", left |-> job[j].left - 1]
<1>1. /\ JobInv /\ AccountInv /\ SummaryInv /\ job[j].at = "ntp" /\ job[j].left > 0
      /\ job[j].left \in 0 .. Exchanges
      /\ job' = [job EXCEPT ![j] = state] /\ UNCHANGED <<proc, counter>>
      /\ sent' = Send("ntp", [line |-> "time"])
  BY JobIs, Zenon DEF RunInv, JobInv, NtpDone
<1>2. /\ state \in JobStates /\ state.at \in {"ntp", "done"} /\ Load(state) = job[j].left - 1
      /\ state.at = "ntp" => state.left > 0
  <2>1. /\ job[j].left - 1 \in 0 .. Exchanges
        /\ job[j].left # 1 => job[j].left - 1 > 0
        /\ job[j].left = 1 => job[j].left - 1 = 0
    BY ONLY <1>1, ExchangesAssumption
  <2>2. state.at \in {"ntp", "done"} /\ state.left = job[j].left - 1
    BY Zenon
  <2>3. state \in JobStates
    BY <2>1, <2>2, Zenon DEF JobStates, Places
  <2>4. state.at = "ntp" => state.left > 0
    BY <2>1, Zenon
  <2>5. Load(state) = job[j].left - 1
    BY <2>1, Zenon DEF Load
  <2> QED BY <2>2, <2>3, <2>4, <2>5, Zenon
<1> HIDE DEF state
<1>3. JobInv'
  BY <1>1, <1>2, JobMoved, Zenon
<1>4. /\ Cardinality(JobsAt(job', Past))
           = Cardinality(JobsAt(job, Past))
      /\ Cardinality(JobsAt(job', {"err"})) = Cardinality(JobsAt(job, {"err"}))
      /\ Cardinality(Ahead(job')) = Cardinality(Ahead(job)) - 1
  <2>1. Recounted(job, job', j, state)
    BY <1>1, <1>2, Counts, Zenon
  <2>2. Load(job[j]) = job[j].left
    BY <1>1, <1>2, Zenon DEF Load
  <2>3. job[j].left \in Nat
    BY <1>1, ExchangesAssumption
  <2>4. Cardinality(Ahead(job')) = Cardinality(Ahead(job)) - 1
    <3>1. /\ Cardinality(Ahead(job')) + job[j].left = Cardinality(Ahead(job)) + (job[j].left - 1)
          /\ Cardinality(Ahead(job')) \in Nat
      BY <2>1, <2>2, <1>2, Zenon DEF Recounted
    <3>2. Cardinality(Ahead(job)) \in Nat
      BY Numbers, Zenon
    <3> QED BY ONLY <3>1, <3>2, <2>3
  <2>5. job[j].at # "err" /\ job[j].at \in Past
    BY <1>1, Zenon
  <2>6. /\ Cardinality(JobsAt(job', Past)) + 1
             = Cardinality(JobsAt(job, Past)) + 1
        /\ Cardinality(JobsAt(job', {"err"})) + 0 = Cardinality(JobsAt(job, {"err"})) + 0
        /\ Cardinality(JobsAt(job', Past)) \in Nat
        /\ Cardinality(JobsAt(job', {"err"})) \in Nat
    BY <2>1, <2>5, <1>2, Zenon DEF Recounted
  <2>7. /\ Cardinality(JobsAt(job, Past)) \in Nat
        /\ Cardinality(JobsAt(job, {"err"})) \in Nat
    BY Numbers, Zenon
  <2> QED BY ONLY <2>4, <2>6, <2>7
<1>5. /\ Times("ke")' = Times("ke") /\ Times("ntp")' = Times("ntp") + 1
      /\ Len(sent["err"])' = Len(sent["err"]) /\ (Summarised' => Summarised)
  BY <1>1, TimeSent, Zenon
<1>6. Errors(counter', "ke") = Errors(counter, "ke") /\ Errors(counter', "ntp") = Errors(counter, "ntp")
  BY <1>1, Zenon
<1>7. AccountInv'
  <2>0. /\ JobsAt(job', {"keLost"}) = JobsAt(job, {"keLost"})
        /\ JobsAt(job', {"ntpLost"}) = JobsAt(job, {"ntpLost"})
    BY <1>1, <1>2, LostKept, Zenon
  <2>1. Balance(Times("ke"), Times("ntp") + 1, Errors(counter, "ke"),
                Errors(counter, "ntp"), Len(sent["err"]),
                Cardinality(JobsAt(job, Past)),
                Cardinality(JobsAt(job, {"err"})), Cardinality(Ahead(job)) - 1,
                Cardinality(JobsAt(job, {"keLost"})), Cardinality(JobsAt(job, {"ntpLost"})))
    BY <1>1, Numbers, BalanceKept, Zenon DEF AccountInv
  <2> QED BY <2>0, <2>1, <1>1, <1>4, <1>5, <1>6, Zenon DEF AccountInv
<1>8. SummaryInv'
  BY <1>1, <1>5, NotYetSummarised, Zenon DEF SummaryInv
<1> QED BY <1>3, <1>7, <1>8, Zenon DEF RunInv

\* A time exchange fails.
LEMMA NtpFailsRun ==
  ASSUME SentTypes, RunInv, NEW j \in Jobs, NtpFails(j)
  PROVE  RunInv'
<1> DEFINE state == [at |-> "err", left |-> job[j].left]
<1>1. /\ JobInv /\ AccountInv /\ SummaryInv /\ job[j].at = "ntp"
      /\ job[j].left \in 1 .. Exchanges
      /\ job' = [job EXCEPT ![j].at = "err"] /\ UNCHANGED proc
      /\ sent' = Send("ntp", [line |-> "time"])
      /\ \E err \in NtpErrors : counter' = [counter EXCEPT ![<<"ntp", ClassOf(err)>>] = @ + 1]
  <2>1. JobInv /\ job[j].at = "ntp" /\ job[j].left > 0
    BY Zenon DEF RunInv, JobInv, NtpFails
  <2>2. job[j].left \in 0 .. Exchanges
    BY <2>1, JobIs, Zenon
  <2>3. job[j].left \in 1 .. Exchanges
    BY ONLY <2>1, <2>2, ExchangesAssumption
  <2> QED BY <2>1, <2>3, Zenon DEF RunInv, NtpFails
<1>2. job' = [job EXCEPT ![j] = state] /\ state \in JobStates /\ state.at = "err"
  BY <1>1, JobIs, Zenon DEF Places
<1> HIDE DEF state
<1>3. JobInv'
  BY <1>1, <1>2, JobMoved, Zenon
<1>4. /\ Cardinality(JobsAt(job', Past))
           = Cardinality(JobsAt(job, Past))
      /\ Cardinality(JobsAt(job', {"err"})) = Cardinality(JobsAt(job, {"err"})) + 1
      /\ Cardinality(Ahead(job')) = Cardinality(Ahead(job)) - job[j].left
  <2>1. Recounted(job, job', j, state)
    BY <1>1, <1>2, Counts, Zenon
  <2>2. Load(job[j]) = job[j].left /\ Load(state) = 0
    BY <1>1, <1>2, Zenon DEF Load
  <2>3. job[j].left \in Nat
    BY <1>1, ExchangesAssumption
  <2>4. Cardinality(Ahead(job')) = Cardinality(Ahead(job)) - job[j].left
    <3>1. /\ Cardinality(Ahead(job')) + job[j].left = Cardinality(Ahead(job)) + 0
          /\ Cardinality(Ahead(job')) \in Nat
      BY <2>1, <2>2, <1>2, Zenon DEF Recounted
    <3>2. Cardinality(Ahead(job)) \in Nat
      BY Numbers, Zenon
    <3> QED BY ONLY <3>1, <3>2, <2>3
  <2>5. job[j].at # "err" /\ job[j].at \in Past
    BY <1>1, Zenon
  <2>6. /\ Cardinality(JobsAt(job', Past)) + 1
             = Cardinality(JobsAt(job, Past)) + 1
        /\ Cardinality(JobsAt(job', {"err"})) + 0 = Cardinality(JobsAt(job, {"err"})) + 1
        /\ Cardinality(JobsAt(job', Past)) \in Nat
        /\ Cardinality(JobsAt(job', {"err"})) \in Nat
    BY <2>1, <2>5, <1>2, Zenon DEF Recounted
  <2>7. /\ Cardinality(JobsAt(job, Past)) \in Nat
        /\ Cardinality(JobsAt(job, {"err"})) \in Nat
    BY Numbers, Zenon
  <2> QED BY ONLY <2>4, <2>6, <2>7
<1>5. /\ Times("ke")' = Times("ke") /\ Times("ntp")' = Times("ntp") + 1
      /\ Len(sent["err"])' = Len(sent["err"]) /\ (Summarised' => Summarised)
  BY <1>1, TimeSent, Zenon
<1>6. /\ Errors(counter', "ntp") = Errors(counter, "ntp") + 1
      /\ Errors(counter', "ke") = Errors(counter, "ke")
  <2>1. PICK err \in NtpErrors : counter' = [counter EXCEPT ![<<"ntp", ClassOf(err)>>] = @ + 1]
    BY <1>1, Zenon
  <2>2. ClassOf(err) \in Classes
    BY Zenon DEF ClassOf, Classes
  <2>3. OneError(counter, counter', "ntp")
    BY <2>1, <2>2, CountsOne, Zenon DEF SentTypes
  <2> QED BY <2>3, Zenon DEF OneError
<1>7. AccountInv'
  <2>0. /\ JobsAt(job', {"keLost"}) = JobsAt(job, {"keLost"})
        /\ JobsAt(job', {"ntpLost"}) = JobsAt(job, {"ntpLost"})
    BY <1>1, <1>2, LostKept, Zenon
  <2>1. Balance(Times("ke"), Times("ntp") + 1, Errors(counter, "ke"),
                Errors(counter, "ntp") + 1, Len(sent["err"]),
                Cardinality(JobsAt(job, Past)),
                Cardinality(JobsAt(job, {"err"})) + 1, Cardinality(Ahead(job)) - job[j].left,
                Cardinality(JobsAt(job, {"keLost"})), Cardinality(JobsAt(job, {"ntpLost"})))
    BY <1>1, Numbers, BalanceKept, Zenon DEF AccountInv
  <2> QED BY <2>0, <2>1, <1>1, <1>4, <1>5, <1>6, Zenon DEF AccountInv
<1>8. SummaryInv'
  BY <1>1, <1>5, NotYetSummarised, Zenon DEF SummaryInv
<1> QED BY <1>3, <1>7, <1>8, Zenon DEF RunInv

\* The error is sent to its writer.
LEMMA SendErrorRun ==
  ASSUME SentTypes, RunInv, NEW j \in Jobs, SendError(j)
  PROVE  RunInv'
<1> DEFINE state == [at |-> "done", left |-> job[j].left]
<1>1. /\ JobInv /\ AccountInv /\ SummaryInv /\ job[j].at = "err"
      /\ job' = [job EXCEPT ![j].at = "done"] /\ UNCHANGED <<proc, counter>>
      /\ sent' = Send("err", [line |-> "error"])
  BY Zenon DEF RunInv, SendError
<1>2. job' = [job EXCEPT ![j] = state] /\ state \in JobStates /\ state.at = "done"
  BY <1>1, JobIs, Zenon DEF Places
<1> HIDE DEF state
<1>3. JobInv'
  BY <1>1, <1>2, JobMoved, Zenon
<1>4. /\ Cardinality(JobsAt(job', Past))
           = Cardinality(JobsAt(job, Past))
      /\ Cardinality(JobsAt(job', {"err"})) = Cardinality(JobsAt(job, {"err"})) - 1
      /\ Cardinality(Ahead(job')) = Cardinality(Ahead(job))
  <2>1. Recounted(job, job', j, state)
    BY <1>1, <1>2, Counts, Zenon
  <2>2. Load(job[j]) = 0 /\ Load(state) = 0
    BY <1>1, <1>2, Zenon DEF Load
  <2>3. /\ job[j].at \in Past /\ state.at \in Past
        /\ job[j].at = "err" /\ state.at # "err"
    BY <1>1, <1>2, Zenon
  <2>4. /\ Cardinality(JobsAt(job', Past)) + 1 = Cardinality(JobsAt(job, Past)) + 1
        /\ Cardinality(JobsAt(job', {"err"})) + 1 = Cardinality(JobsAt(job, {"err"})) + 0
        /\ Cardinality(Ahead(job')) + 0 = Cardinality(Ahead(job)) + 0
        /\ Cardinality(JobsAt(job', Past)) \in Nat
        /\ Cardinality(JobsAt(job', {"err"})) \in Nat
        /\ Cardinality(Ahead(job')) \in Nat
    BY ONLY <2>1, <2>2, <2>3, Zenon DEF Recounted
  <2>5. /\ Cardinality(JobsAt(job, Past)) \in Nat
        /\ Cardinality(JobsAt(job, {"err"})) \in Nat /\ Cardinality(Ahead(job)) \in Nat
    BY Numbers, Zenon
  <2> QED BY ONLY <2>4, <2>5
<1>5. /\ Times("ke")' = Times("ke") /\ Times("ntp")' = Times("ntp")
      /\ Len(sent["err"])' = Len(sent["err"]) + 1 /\ (Summarised' => Summarised)
  BY <1>1, TimeSent, Zenon
<1>6. Errors(counter', "ke") = Errors(counter, "ke") /\ Errors(counter', "ntp") = Errors(counter, "ntp")
  BY <1>1, Zenon
<1>7. AccountInv'
  <2>0. /\ JobsAt(job', {"keLost"}) = JobsAt(job, {"keLost"})
        /\ JobsAt(job', {"ntpLost"}) = JobsAt(job, {"ntpLost"})
    BY <1>1, <1>2, LostKept, Zenon
  <2>1. Balance(Times("ke"), Times("ntp"), Errors(counter, "ke"),
                Errors(counter, "ntp"), Len(sent["err"]) + 1,
                Cardinality(JobsAt(job, Past)),
                Cardinality(JobsAt(job, {"err"})) - 1, Cardinality(Ahead(job)),
                Cardinality(JobsAt(job, {"keLost"})), Cardinality(JobsAt(job, {"ntpLost"})))
    BY <1>1, Numbers, BalanceKept, Zenon DEF AccountInv
  <2> QED BY <2>0, <2>1, <1>1, <1>4, <1>5, <1>6, Zenon DEF AccountInv
<1>8. SummaryInv'
  BY <1>1, <1>5, NotYetSummarised, Zenon DEF SummaryInv
<1> QED BY <1>3, <1>7, <1>8, Zenon DEF RunInv

\* A job panics in its key exchange.
LEMMA KePanicsRun ==
  ASSUME SentTypes, RunInv, NEW j \in Jobs, KePanics(j)
  PROVE  RunInv'
<1> DEFINE state == [at |-> "keLost", left |-> job[j].left]
<1>1. /\ JobInv /\ AccountInv /\ SummaryInv /\ job[j].at = "ke"
      /\ job' = [job EXCEPT ![j].at = "keLost"] /\ UNCHANGED <<proc, counter, sent>>
  BY Zenon DEF RunInv, KePanics
<1>2. job' = [job EXCEPT ![j] = state] /\ state \in JobStates /\ state.at = "keLost"
  BY <1>1, JobIs, Zenon DEF Places
<1> HIDE DEF state
<1>3. JobInv'
  BY <1>1, <1>2, JobMoved, Zenon
<1>4. /\ Cardinality(JobsAt(job', Past)) = Cardinality(JobsAt(job, Past)) + 1
      /\ Cardinality(JobsAt(job', {"err"})) = Cardinality(JobsAt(job, {"err"}))
      /\ Cardinality(Ahead(job')) = Cardinality(Ahead(job))
  <2>1. Recounted(job, job', j, state)
    BY <1>1, <1>2, Counts, Zenon
  <2>2. Load(job[j]) = 0 /\ Load(state) = 0
    BY <1>1, <1>2, Zenon DEF Load
  <2> QED BY <2>1, <2>2, <1>1, <1>2, Numbers, ExchangesAssumption DEF Recounted
<1>5. /\ Cardinality(JobsAt(job', {"keLost"})) = Cardinality(JobsAt(job, {"keLost"})) + 1
      /\ Cardinality(JobsAt(job', {"ntpLost"})) = Cardinality(JobsAt(job, {"ntpLost"}))
  BY <1>1, <1>2, LostCounts, Zenon
<1>6. /\ Times("ke")' = Times("ke") /\ Times("ntp")' = Times("ntp")
      /\ Len(sent["err"])' = Len(sent["err"]) /\ (Summarised' => Summarised)
      /\ Errors(counter', "ke") = Errors(counter, "ke")
      /\ Errors(counter', "ntp") = Errors(counter, "ntp")
  BY <1>1, Zenon DEF Times, Summarised
<1>7. AccountInv'
  <2>1. Balance(Times("ke"), Times("ntp"), Errors(counter, "ke"),
                Errors(counter, "ntp"), Len(sent["err"]),
                Cardinality(JobsAt(job, Past)) + 1,
                Cardinality(JobsAt(job, {"err"})), Cardinality(Ahead(job)),
                Cardinality(JobsAt(job, {"keLost"})) + 1,
                Cardinality(JobsAt(job, {"ntpLost"})))
    BY <1>1, Numbers, BalanceKept, Zenon DEF AccountInv
  <2> QED BY <2>1, <1>1, <1>4, <1>5, <1>6, Zenon DEF AccountInv
<1>8. SummaryInv'
  BY <1>1, <1>6, NotYetSummarised, Zenon DEF SummaryInv
<1> QED BY <1>3, <1>7, <1>8, Zenon DEF RunInv

\* A job panics in a time exchange.
LEMMA NtpPanicsRun ==
  ASSUME SentTypes, RunInv, NEW j \in Jobs, NtpPanics(j)
  PROVE  RunInv'
<1> DEFINE state == [at |-> "ntpLost", left |-> job[j].left]
<1>1. /\ JobInv /\ AccountInv /\ SummaryInv /\ job[j].at = "ntp"
      /\ job[j].left \in 1 .. Exchanges
      /\ job' = [job EXCEPT ![j].at = "ntpLost"] /\ UNCHANGED <<proc, counter, sent>>
  <2>1. JobInv /\ job[j].at = "ntp" /\ job[j].left > 0
    BY Zenon DEF RunInv, JobInv, NtpPanics
  <2>2. job[j].left \in 0 .. Exchanges
    BY <2>1, JobIs, Zenon
  <2>3. job[j].left \in 1 .. Exchanges
    BY ONLY <2>1, <2>2, ExchangesAssumption
  <2> QED BY <2>1, <2>3, Zenon DEF RunInv, NtpPanics
<1>2. job' = [job EXCEPT ![j] = state] /\ state \in JobStates /\ state.at = "ntpLost"
  BY <1>1, JobIs, Zenon DEF Places
<1> HIDE DEF state
<1>3. JobInv'
  BY <1>1, <1>2, JobMoved, Zenon
<1>4. /\ Cardinality(JobsAt(job', Past)) = Cardinality(JobsAt(job, Past))
      /\ Cardinality(JobsAt(job', {"err"})) = Cardinality(JobsAt(job, {"err"}))
      /\ Cardinality(Ahead(job')) = Cardinality(Ahead(job)) - job[j].left
  <2>1. Recounted(job, job', j, state)
    BY <1>1, <1>2, Counts, Zenon
  <2>2. Load(job[j]) = job[j].left /\ Load(state) = 0
    BY <1>1, <1>2, Zenon DEF Load
  <2>3. job[j].left \in Nat
    BY <1>1, ExchangesAssumption
  <2>4. job[j].at # "err" /\ job[j].at \in Past
    BY <1>1, Zenon
  <2>5. /\ Cardinality(JobsAt(job', Past)) + 1 = Cardinality(JobsAt(job, Past)) + 1
        /\ Cardinality(JobsAt(job', {"err"})) + 0 = Cardinality(JobsAt(job, {"err"})) + 0
        /\ Cardinality(Ahead(job')) + job[j].left = Cardinality(Ahead(job)) + 0
        /\ Cardinality(JobsAt(job', Past)) \in Nat
        /\ Cardinality(JobsAt(job', {"err"})) \in Nat
        /\ Cardinality(Ahead(job')) \in Nat
    BY <2>1, <2>2, <2>4, <1>2, Zenon DEF Recounted
  <2>6. /\ Cardinality(JobsAt(job, Past)) \in Nat
        /\ Cardinality(JobsAt(job, {"err"})) \in Nat
        /\ Cardinality(Ahead(job)) \in Nat
    BY Numbers, Zenon
  <2> QED BY ONLY <2>3, <2>5, <2>6
<1>5. /\ Cardinality(JobsAt(job', {"ntpLost"})) = Cardinality(JobsAt(job, {"ntpLost"})) + 1
      /\ Cardinality(JobsAt(job', {"keLost"})) = Cardinality(JobsAt(job, {"keLost"}))
  BY <1>1, <1>2, LostCounts, Zenon
<1>6. /\ Times("ke")' = Times("ke") /\ Times("ntp")' = Times("ntp")
      /\ Len(sent["err"])' = Len(sent["err"]) /\ (Summarised' => Summarised)
      /\ Errors(counter', "ke") = Errors(counter, "ke")
      /\ Errors(counter', "ntp") = Errors(counter, "ntp")
  BY <1>1, Zenon DEF Times, Summarised
<1>7. AccountInv'
  <2>1. Balance(Times("ke"), Times("ntp"), Errors(counter, "ke"),
                Errors(counter, "ntp"), Len(sent["err"]),
                Cardinality(JobsAt(job, Past)),
                Cardinality(JobsAt(job, {"err"})), Cardinality(Ahead(job)) - job[j].left,
                Cardinality(JobsAt(job, {"keLost"})),
                Cardinality(JobsAt(job, {"ntpLost"})) + 1)
    BY <1>1, Numbers, BalanceKept, Zenon DEF AccountInv
  <2> QED BY <2>1, <1>1, <1>4, <1>5, <1>6, Zenon DEF AccountInv
<1>8. SummaryInv'
  BY <1>1, <1>6, NotYetSummarised, Zenon DEF SummaryInv
<1> QED BY <1>3, <1>7, <1>8, Zenon DEF RunInv

\* A job's step keeps the account.
LEMMA JobRun ==
  ASSUME SentTypes, RunInv, JobStep
  PROVE  RunInv'
BY BeginRun, KeDoneRun, KeFailsRun, NtpDoneRun, NtpFailsRun, KePanicsRun,
   NtpPanicsRun, SendErrorRun, Zenon DEF JobStep

\* There is a job for every request of a rate up to the limit.
LEMMA RequestsAreJobs ==
  ASSUME SweepInv
  PROVE  /\ TotalRequests \in Nat
         /\ proc.pc # "none" => TotalRequests <= Runtime * Limit /\ 1 .. TotalRequests \subseteq Jobs
<1>1. /\ proc.rate \in Nat /\ Runtime \in Nat /\ Limit \in Nat
      /\ proc.pc # "none" => proc.rate <= Limit
  BY RuntimeAssumption, LimitAssumption, Zenon DEF SweepInv, FilesInv, SweepTypes, ProcInv
<1>2. TotalRequests \in Nat /\ Runtime * Limit \in Nat
  BY <1>1 DEF TotalRequests
<1>3. ASSUME proc.rate <= Limit PROVE TotalRequests <= Runtime * Limit
  <2>1. PICK d \in Nat : Limit = proc.rate + d
    <3>1. Limit - proc.rate \in Nat /\ Limit = proc.rate + (Limit - proc.rate)
      BY <1>1, <1>3
    <3> QED BY <3>1, Zenon
  <2>2. Runtime * Limit = Runtime * proc.rate + Runtime * d /\ Runtime * d \in Nat
    BY <1>1, <2>1
  <2> QED BY <1>2, <2>2 DEF TotalRequests
<1>4. TotalRequests <= Runtime * Limit => 1 .. TotalRequests \subseteq Jobs
  BY <1>2 DEF Jobs
<1> QED BY <1>1, <1>2, <1>3, <1>4, Zenon

\* One more job waits for a thread.
LEMMA SubmitRun ==
  ASSUME SweepInv, SentTypes, RunInv, Submit
  PROVE  RunInv'
<1> DEFINE j == proc.submitted + 1
           state == [at |-> "queued", left |-> 0]
<1>1. /\ JobInv /\ AccountInv /\ SummaryInv /\ proc.pc = "submit" /\ proc.submitted < TotalRequests
      /\ job' = [job EXCEPT ![j] = state] /\ UNCHANGED <<counter, sent>>
  BY Zenon DEF RunInv, Submit
<1>2. proc.submitted \in Nat /\ TotalRequests \in Nat /\ j \in Jobs
  <2>1. proc.submitted \in Nat /\ TotalRequests \in Nat /\ 1 .. TotalRequests \subseteq Jobs
    BY <1>1, RequestsAreJobs, Zenon DEF SweepInv, FilesInv, SweepTypes
  <2> QED BY <1>1, <2>1
<1>3. proc'.submitted = proc.submitted + 1 /\ proc'.pc = "submit" /\ proc'.rate = proc.rate
  BY <1>1, Zenon DEF Submit, SweepInv, FilesInv, SweepTypes
<1>4. /\ job[j].at = "none" /\ state \in JobStates /\ state.at = "queued"
      /\ job \in [Jobs -> JobStates]
  BY <1>1, <1>2, ExchangesAssumption DEF JobInv, JobStates, Places
<1> HIDE DEF j, state
<1>5. JobInv'
  <2>1. /\ job' \in [Jobs -> JobStates] /\ job'[j] = state
        /\ \A i \in Jobs \ {j} : job'[i] = job[i]
    BY <1>1, <1>2, <1>4, Zenon
  <2>2. Cardinality(Busy') = Cardinality(Busy)
    <3>1. Moved(job, job', j, state, {"ke", "ntp", "err"})
      BY <1>1, <1>2, <1>4, Moves, Zenon
    <3>2. Busy = JobsAt(job, {"ke", "ntp", "err"}) /\ Busy' = JobsAt(job', {"ke", "ntp", "err"})
      BY Zenon DEF Busy, JobsAt
    <3>3. Cardinality(Busy') \in Nat
      BY <3>2, JobsFinite, FS_CardinalityType, Zenon
    <3> QED BY <3>1, <3>2, <3>3, <1>4 DEF Moved
  <2>3. \A i \in Jobs : job'[i].at = "ntp" => job'[i].left > 0
    BY <1>1, <1>4, <2>1, Zenon DEF JobInv
  <2>4. proc'.submitted \in 0 .. TotalRequests /\ TotalRequests' = TotalRequests
    BY <1>1, <1>2, <1>3 DEF TotalRequests
  <2>5. \A i \in Jobs : job'[i].at = "none" <=> i > proc'.submitted
    <3>1. \A i \in Jobs \ {j} : i > proc.submitted + 1 <=> i > proc.submitted
      BY <1>2, JobsFinite DEF j
    <3>2. ~(j > proc.submitted + 1)
      BY <1>2 DEF j
    <3> QED BY <1>1, <1>3, <1>4, <2>1, <3>1, <3>2, Zenon DEF JobInv
  <2> QED BY <1>1, <2>1, <2>2, <2>3, <2>4, <2>5, Zenon DEF JobInv
<1>6. /\ Cardinality(JobsAt(job', Past))
           = Cardinality(JobsAt(job, Past))
      /\ Cardinality(JobsAt(job', {"err"})) = Cardinality(JobsAt(job, {"err"}))
      /\ Cardinality(Ahead(job')) = Cardinality(Ahead(job))
  <2>1. Recounted(job, job', j, state)
    BY <1>1, <1>2, <1>4, Counts, Zenon
  <2>2. Load(job[j]) = 0 /\ Load(state) = 0
    BY <1>4, Zenon DEF Load
  <2> QED BY <2>1, <2>2, <1>4, Numbers DEF Recounted
<1>7. AccountInv'
  <2>1. /\ JobsAt(job', {"keLost"}) = JobsAt(job, {"keLost"})
        /\ JobsAt(job', {"ntpLost"}) = JobsAt(job, {"ntpLost"})
    BY <1>1, <1>2, <1>4, LostKept, Zenon
  <2> QED BY <2>1, <1>1, <1>6, Zenon DEF AccountInv, Times
<1>8. SummaryInv'
  BY <1>1, <1>3, Zenon DEF SummaryInv, Summarised
<1> QED BY <1>5, <1>7, <1>8, Zenon DEF RunInv

\* The process goes on.
LEMMA ProcRun ==
  ASSUME SweepInv, RunInv, WarmupFails \/ WarmupDone \/ Join \/ CreateFile \/ WriteFile
  PROVE  RunInv'
<1>1. /\ UNCHANGED <<job, counter, sent>>
      /\ proc'.rate = proc.rate /\ proc'.submitted = proc.submitted
      /\ \/ proc.pc = "warmup" /\ proc'.pc \in {"submit", "exit"}
         \/ proc.pc \in {"create", "write"} /\ proc'.pc \in {"write", "exit"}
         \/ proc.pc = "submit" /\ proc'.pc = "summary" /\ AllDone
  <2>1. proc \in [pc : {"none", "warmup", "submit", "summary", "create", "write", "exit"},
                 rate : Nat, aux : Nat, submitted : Nat]
    BY Zenon DEF SweepInv, FilesInv, SweepTypes
  <2>2. ASSUME NEW pc, proc' = [proc EXCEPT !.pc = pc]
        PROVE  proc'.rate = proc.rate /\ proc'.submitted = proc.submitted /\ proc'.pc = pc
    BY <2>1, <2>2, Zenon
  <2>3. CASE WarmupFails \/ WarmupDone
    BY <2>2, <2>3, Zenon DEF WarmupFails, WarmupDone
  <2>4. CASE CreateFile \/ WriteFile
    BY <2>2, <2>4, Zenon DEF CreateFile, WriteFile
  <2>5. CASE Join
    BY <2>2, <2>5, Zenon DEF Join, AllDone, Ends
  <2> QED BY <2>3, <2>4, <2>5, Zenon
<1>2. JobInv' /\ AccountInv'
  BY <1>1, Zenon DEF RunInv, JobInv, AccountInv, Busy, TotalRequests, Times
<1>3. /\ Summarised' <=> Summarised
      /\ AllDone' <=> AllDone
      /\ Last("ke")' <=> Last("ke")
      /\ Last("ntp")' <=> Last("ntp")
  BY <1>1, Zenon DEF Summarised, AllDone, Last, Summary, TotalRequests
<1>4. SummaryInv'
  BY <1>1, <1>3, Zenon DEF RunInv, SummaryInv
<1> QED BY <1>2, <1>4, Zenon DEF RunInv

\* The summaries go behind everything else.
LEMMA SummariseRun ==
  ASSUME SweepInv, SentTypes, RunInv, Summarise
  PROVE  RunInv'
<1>1. /\ JobInv /\ AccountInv /\ SummaryInv /\ proc.pc = "summary" /\ ~Summarised /\ AllDone
      /\ UNCHANGED <<job, counter>>
      /\ proc'.pc = "create" /\ proc'.rate = proc.rate /\ proc'.submitted = proc.submitted
  BY Zenon DEF RunInv, SummaryInv, Summarise, SweepInv, FilesInv, SweepTypes
<1>2. \A f \in {"ke", "ntp"} : /\ Summary(f) \in Lines /\ Summary(f).line = "errors"
                               /\ sent[f] \in Seq(Lines)
                               /\ sent'[f] = Append(sent[f], Summary(f))
  BY Zenon DEF Summary, Lines, SentTypes, Summarise, Files
<1>3. sent'["err"] = sent["err"]
  BY Zenon DEF Summarise, Files
<1> HIDE DEF Lines
<1>4. /\ Times("ke")' = Times("ke") /\ Times("ntp")' = Times("ntp")
  <2>1. \A f \in {"ke", "ntp"} : /\ Times(f) = Cardinality(TimeLines(sent[f]))
                                 /\ Times(f)' = Cardinality(TimeLines(sent'[f]))
    BY Zenon DEF Times, TimeLines
  <2>2. \A f \in {"ke", "ntp"} :
          /\ Cardinality(TimeLines(sent[f])) \in Nat
          /\ Cardinality(TimeLines(sent'[f]))
               = Cardinality(TimeLines(sent[f])) + (IF Summary(f).line = "time" THEN 1 ELSE 0)
    BY <1>2, TimeLinesGrow, Zenon
  <2>3. \A f \in {"ke", "ntp"} : Cardinality(TimeLines(sent'[f])) = Cardinality(TimeLines(sent[f]))
    <3>1. \A f \in {"ke", "ntp"} : (IF Summary(f).line = "time" THEN 1 ELSE 0) = 0
      BY <1>2, Zenon
    <3>2. \A n \in Nat : n + 0 = n
      BY ONLY TRUE
    <3> QED BY ONLY <2>2, <3>1, <3>2, Zenon
  <2> QED BY <2>1, <2>3, Zenon
<1>5. JobInv'
  BY <1>1, Zenon DEF JobInv, Busy, TotalRequests
<1>6. AccountInv'
  BY <1>1, <1>3, <1>4, Zenon DEF AccountInv
<1>7. AllDone'
  BY <1>1, Zenon DEF AllDone, TotalRequests
<1>8. ASSUME NEW f \in {"ke", "ntp"} PROVE Last(f)'
  <2>1. Summary(f)' = Summary(f)
    BY <1>1, Zenon DEF Summary
  <2>2. /\ sent'[f] # <<>> /\ Len(sent'[f]) = Len(sent[f]) + 1
        /\ sent'[f][Len(sent[f]) + 1] = Summary(f)
        /\ DOMAIN sent[f] = 1 .. Len(sent[f]) /\ DOMAIN sent'[f] = 1 .. Len(sent[f]) + 1
        /\ \A i \in 1 .. Len(sent[f]) : sent'[f][i] = sent[f][i]
        /\ Len(sent[f]) \in Nat
    <3>1. sent[f] \in Seq(Lines) /\ Summary(f) \in Lines
      BY <1>2, Zenon
    <3>2. sent'[f] = Append(sent[f], Summary(f))
      BY <1>2, Zenon
    <3> QED BY ONLY <3>1, <3>2
  <2>3. \A i \in DOMAIN sent[f] : sent[f][i].line # "errors"
    BY <1>1, Zenon DEF Summarised
  <2>4. ASSUME NEW i \in DOMAIN sent'[f], sent'[f][i].line = "errors" PROVE i = Len(sent'[f])
    BY <2>2, <2>3, <2>4
  <2> QED BY <2>1, <2>2, <2>4, Zenon DEF Last
<1>9. SummaryInv'
  BY <1>1, <1>7, <1>8, Zenon DEF SummaryInv
<1> QED BY <1>5, <1>6, <1>9, Zenon DEF RunInv

\* A process that begins, and none at all, has nothing to account for.
LEMMA FreshRun ==
  ASSUME proc'.pc \in {"none", "warmup"}, proc'.submitted = 0, proc'.rate \in Nat,
         job' = [j \in Jobs |-> NoJob], counter' = NoCounts, sent'["err"] = <<>>,
         \A f \in {"ke", "ntp"} : \A i \in DOMAIN sent'[f] :
           sent'[f][i].line # "time" /\ sent'[f][i].line # "errors"
  PROVE  RunInv'
<1>1. /\ NoJob \in JobStates /\ NoJob.at = "none"
      /\ \A j \in Jobs : job'[j] = NoJob
  BY ExchangesAssumption DEF NoJob, JobStates, Places
<1>2. /\ JobsAt(job', Past) = {} /\ JobsAt(job', {"err"}) = {} /\ Busy' = {}
      /\ Ahead(job') = {} /\ JobsAt(job', {"keLost"}) = {} /\ JobsAt(job', {"ntpLost"}) = {}
  <2>1. ASSUME NEW e \in Ahead(job') PROVE FALSE
    <3>1. e[1] \in Jobs /\ job'[e[1]].at = "ntp"
      BY <2>1, Zenon DEF Ahead
    <3> QED BY <3>1, <1>1, Zenon
  <2> QED BY <2>1, <1>1, Zenon DEF JobsAt, Busy
<1>3. Times("ke")' = 0 /\ Times("ntp")' = 0
  <2>1. \A f \in {"ke", "ntp"} : {i \in DOMAIN sent'[f] : sent'[f][i].line = "time"} = {}
    BY Zenon
  <2> QED BY <2>1, FS_EmptySet, Zenon DEF Times
<1>4. Errors(counter', "ke") = 0 /\ Errors(counter', "ntp") = 0
  BY DEF Errors, NoCounts, Classes
<1>5. Len(sent["err"])' = 0
  BY Zenon
<1>6. AccountInv'
  <2>1. Balance(0, 0, 0, 0, 0, 0, 0, 0, 0, 0)
    BY ExchangesAssumption DEF Balance
  <2> QED BY <2>1, <1>2, <1>3, <1>4, <1>5, FS_EmptySet, Zenon DEF AccountInv
<1>7. JobInv'
  <2>1. Runtime * proc'.rate \in Nat
    BY RuntimeAssumption
  <2>2. 0 \in 0 .. Runtime * proc'.rate
    BY <2>1
  <2>3. \A j \in Jobs : j > 0
    BY RuntimeAssumption, LimitAssumption DEF Jobs
  <2>4. job' \in [Jobs -> JobStates] /\ Cardinality(Busy') <= Pool
    BY <1>1, <1>2, FS_EmptySet, PoolAssumption
  <2> QED BY <1>1, <2>2, <2>3, <2>4, Zenon DEF JobInv, TotalRequests
<1>8. ~Summarised'
  BY Zenon DEF Summarised
<1>9. SummaryInv'
  BY <1>8, Zenon DEF SummaryInv
<1> QED BY <1>6, <1>7, <1>9, Zenon DEF RunInv

\* Every step keeps the account of a run.
LEMMA RunNext ==
  ASSUME SweepInv, SentTypes, RunInv, [Next]_vars
  PROVE  RunInv'
<1>1. CASE UNCHANGED <<proc, job, counter, sent>>
  BY <1>1, Zenon DEF RunInv, JobInv, AccountInv, SummaryInv, Busy, TotalRequests, Times, Summarised,
     AllDone, Last, Summary
<1>2. CASE Dies(Client) \/ Exit
  <2>1. Gone
    BY <1>2, Zenon DEF Dies, Exit
  <2>2. \A f \in Files : sent'[f] = <<>>
    BY <2>1, Zenon DEF Gone
  <2>3. \A f \in {"ke", "ntp"} : f \in Files /\ DOMAIN sent'[f] = {}
    BY <2>2 DEF Files
  <2>4. sent'["err"] = <<>>
    BY <2>2, Zenon DEF Files
  <2> QED BY <2>1, <2>3, <2>4, FreshRun, Zenon DEF Gone
<1>3. CASE RunClient
  <2>1. CASE reqs = Empty \/ num_aux = Empty
    BY <1>1, <1>3, <2>1, Zenon DEF RunClient, StartClient
  <2>2. CASE ~(reqs = Empty \/ num_aux = Empty)
    <3>1. /\ proc' = [pc |-> "warmup", rate |-> reqs, aux |-> num_aux, submitted |-> 0]
          /\ job' = [j \in Jobs |-> NoJob] /\ counter' = NoCounts
          /\ sent' = [f \in Files |->
                        IF f = "err" THEN <<>>
                        ELSE <<[line |-> "label",
                                total |-> (IF f = "ntp" THEN Exchanges ELSE 1)
                                            * Label(reqs, num_aux)]>>]
      BY <1>3, <2>2, Zenon DEF RunClient, StartClient
    <3>2. reqs \in Nat
      BY <2>2, Zenon DEF SweepInv, FilesInv, SweepTypes
    <3>3. \A n : \A i \in DOMAIN <<[line |-> "label", total |-> n]>> :
            <<[line |-> "label", total |-> n]>>[i].line = "label"
      OBVIOUS
    <3>4. sent'["err"] = <<>>
      BY <3>1, Zenon DEF Files
    <3>5. \A f \in {"ke", "ntp"} : \E n : sent'[f] = <<[line |-> "label", total |-> n]>>
      BY <3>1, Zenon DEF Files
    <3>6. \A f \in {"ke", "ntp"} : \A i \in DOMAIN sent'[f] :
            sent'[f][i].line # "time" /\ sent'[f][i].line # "errors"
      BY <3>3, <3>5, Zenon
    <3>7. proc'.pc \in {"none", "warmup"} /\ proc'.submitted = 0 /\ proc'.rate \in Nat
      BY <3>1, <3>2, Zenon
    <3> QED BY <3>1, <3>4, <3>6, <3>7, FreshRun, Zenon
  <2> QED BY <2>1, <2>2, Zenon
<1>4. CASE JobStep
  BY <1>4, JobRun, Zenon
<1>5. CASE Summarise
  BY <1>5, SummariseRun, Zenon
<1>6. CASE Submit
  BY <1>6, SubmitRun, Zenon
<1>7. CASE WarmupFails \/ WarmupDone \/ Join \/ CreateFile \/ WriteFile
  BY <1>7, ProcRun, Zenon
<1>8. \/ UNCHANGED <<proc, job, counter, sent>>
      \/ Dies(Client) \/ Exit \/ RunClient \/ JobStep \/ Summarise
      \/ WarmupFails \/ WarmupDone \/ Submit \/ Join \/ CreateFile \/ WriteFile
  BY RunSteps, Zenon
<1> QED BY <1>1, <1>2, <1>3, <1>4, <1>5, <1>6, <1>7, <1>8, Zenon

\* In a file with a summary everything is accounted for.
LEMMA SummarySound ==
  ASSUME SweepInv, SentTypes, RunInv
  PROVE  SummaryClosesRun
<1> SUFFICES ASSUME NEW f \in {"ke", "ntp"}, NEW i \in 1 .. Len(sent[f]), sent[f][i].line = "errors"
             PROVE  LET ke == Failures(sent["ke"][Len(sent["ke"])])
                        ntp == Failures(sent["ntp"][Len(sent["ntp"])])
                    IN  /\ i = Len(sent[f])
                        /\ Times("ke") + ke + Lost("keLost") = TotalRequests
                        /\ ke + ntp = Len(sent["err"])
                        /\ Times("ntp") <= Exchanges * Times("ke")
                        /\ Times("ntp") >= Exchanges * (Times("ke") - ntp - Lost("ntpLost")) + ntp
  BY Zenon DEF SummaryClosesRun
<1>1. i \in DOMAIN sent[f]
  <2>1. sent[f] \in Seq(Lines)
    BY Zenon DEF SentTypes, Files
  <2> HIDE DEF Lines
  <2> QED BY <2>1
<1>2. AllDone /\ Last("ke") /\ Last("ntp") /\ i = Len(sent[f]) /\ proc.pc # "none"
  BY <1>1, Zenon DEF RunInv, SummaryInv, Summarised, Last
<1>3. /\ Failures(sent["ke"][Len(sent["ke"])]) = Errors(counter, "ke")
      /\ Failures(sent["ntp"][Len(sent["ntp"])]) = Errors(counter, "ntp")
  <2>1. ASSUME NEW kind, Last(kind)
        PROVE  \A c \in Classes : sent[kind][Len(sent[kind])].count[c] = counter[<<kind, c>>]
    <3>1. sent[kind][Len(sent[kind])] = Summary(kind)
      BY <2>1, Zenon DEF Last
    <3>2. Summary(kind).count = [c \in Classes |-> counter[<<kind, c>>]]
      BY DEF Summary
    <3> QED BY <3>1, <3>2, Zenon
  <2>2. "timeout" \in Classes /\ "os" \in Classes /\ "other" \in Classes
    BY Zenon DEF Classes
  <2> QED BY <1>2, <2>1, <2>2, Zenon DEF Failures, Errors
<1>4. TotalRequests \in Nat /\ 1 .. TotalRequests \subseteq Jobs
  BY <1>2, RequestsAreJobs, Zenon
<1>5. \A j \in Jobs : /\ j \in 1 .. TotalRequests => job[j].at \in Ends
                      /\ j \notin 1 .. TotalRequests => job[j].at = "none"
  <2>1. \A j \in Jobs : j \in Nat /\ j >= 1
    BY RuntimeAssumption, LimitAssumption DEF Jobs
  <2> QED BY <2>1, <1>2, <1>4 DEF RunInv, JobInv, AllDone
<1>6. /\ JobsAt(job, Past) = 1 .. TotalRequests /\ JobsAt(job, {"err"}) = {}
      /\ Ahead(job) = {}
  BY <1>4, <1>5, Zenon DEF JobsAt, Ahead, Ends
<1>7. /\ Cardinality(JobsAt(job, Past)) = TotalRequests
      /\ Cardinality(JobsAt(job, {"err"})) = 0 /\ Cardinality(Ahead(job)) = 0
  <2>1. Cardinality(1 .. TotalRequests) = TotalRequests
    BY <1>4, FS_Interval
  <2> QED BY <2>1, <1>6, FS_EmptySet, Zenon
<1> DEFINE k == Times("ke")
           n == Times("ntp")
           ke == Errors(counter, "ke")
           ntp == Errors(counter, "ntp")
           e == Len(sent["err"])
           kl == Lost("keLost")
           nl == Lost("ntpLost")
<1>8. /\ k \in Nat /\ n \in Nat /\ ke \in Nat /\ ntp \in Nat /\ e \in Nat
      /\ kl = Cardinality(JobsAt(job, {"keLost"})) /\ nl = Cardinality(JobsAt(job, {"ntpLost"}))
      /\ kl \in Nat /\ nl \in Nat
  <2>1. \A place : {j \in Jobs : job[j].at = place} = JobsAt(job, {place})
    BY Zenon DEF JobsAt
  <2> QED BY <2>1, Numbers, Zenon DEF Lost
<1>9. Balance(k, n, ke, ntp, e, TotalRequests, 0, 0, kl, nl)
  BY <1>7, <1>8, Zenon DEF RunInv, AccountInv
<1> HIDE DEF k, n, ke, ntp, e, kl, nl
<1>10. /\ k + ke + kl = TotalRequests /\ ke + ntp = e /\ n <= Exchanges * k
       /\ Exchanges * k + ntp <= n + Exchanges * ntp + Exchanges * nl
  BY <1>8, <1>9, ExchangesAssumption DEF Balance
<1>11. n >= Exchanges * (k - ntp - nl) + ntp
  <2>1. /\ Exchanges * (k - ntp - nl) = Exchanges * k - Exchanges * ntp - Exchanges * nl
        /\ Exchanges * k \in Nat /\ Exchanges * ntp \in Nat /\ Exchanges * nl \in Nat
    BY <1>8, ExchangesAssumption
  <2> DEFINE a == Exchanges * k
             b == Exchanges * ntp
             c == Exchanges * nl
  <2>2. a \in Nat /\ b \in Nat /\ c \in Nat /\ a + ntp <= n + b + c
    BY <2>1, <1>10, Zenon
  <2>3. Exchanges * (k - ntp - nl) = a - b - c
    BY <2>1, Zenon
  <2> HIDE DEF a, b, c
  <2>4. n >= a - b - c + ntp
    BY ONLY <2>2, <1>8
  <2> QED BY <2>3, <2>4, Zenon
<1> QED BY <1>2, <1>3, <1>10, <1>11, Zenon DEF k, n, ke, ntp, e, kl, nl

\* Machines are in one of their three states, and the arbiter starts no more
\* auxiliary clients than it counted.
LEMMA HostNext ==
  ASSUME SweepInv, HostInv, [Next]_vars
  PROVE  HostInv'
<1>1. CASE UNCHANGED <<host, arb, auxOn>>
  BY <1>1, Zenon DEF HostInv
<1>2. CASE ArbServer
  <2>1. arb' = [pc |-> "aux", count |-> arbFile', started |-> 0] /\ UNCHANGED <<host, auxOn>>
    BY <1>2, Zenon DEF ArbServer
  <2>2. arbFile' \in Nat
    BY <1>2, MaxAuxAssumption, MaxOverAssumption DEF ArbServer, SweepInv, FilesInv, SweepTypes
  <2> QED BY <2>1, <2>2 DEF HostInv
<1>3. CASE ArbAux
  BY <1>3 DEF ArbAux, HostInv, SweepInv, FilesInv, SweepTypes
<1>4. CASE ArbClient \/ StopAll
  <2>1. /\ host' \in [Hosts -> {"up", "stopping", "down"}] /\ auxOn' = auxOn
        /\ arb'.started = arb.started /\ arb'.count = arb.count
    BY <1>4, Zenon DEF ArbClient, StopAll, HostInv, SweepInv, FilesInv, SweepTypes
  <2> QED BY <2>1, Zenon DEF HostInv
<1>5. CASE ArbReboot
  <2>1. arb'.started = arb.started /\ arb'.count = arb.count /\ auxOn' \subseteq auxOn
    BY <1>5, Zenon DEF ArbReboot, SweepInv, FilesInv, SweepTypes
  <2>2. host' \in [Hosts -> {"up", "stopping", "down"}]
    BY <1>5, Zenon DEF ArbReboot, HostInv
  <2> QED BY <2>1, <2>2, Zenon DEF HostInv
<1>6. ASSUME NEW h \in Hosts, Dies(h) \/ HostUp(h) PROVE HostInv'
  BY <1>6, Zenon DEF Dies, HostUp, HostInv
<1>7. \/ UNCHANGED <<host, arb, auxOn>> \/ ArbServer \/ ArbAux \/ ArbClient \/ StopAll \/ ArbReboot
      \/ \E h \in Hosts : Dies(h) \/ HostUp(h)
  <2>1. ASSUME ScriptStart \/ MoreAux \/ TellArbiter \/ ResetRate \/ RunClient \/ ScriptEnd
               \/ UNCHANGED vars \/ UNCHANGED sweepVars
        PROVE  UNCHANGED <<host, arb, auxOn>>
    BY <2>1, Zenon DEF ScriptStart, MoreAux, TellArbiter, ResetRate, RunClient, ScriptEnd, vars, sweepVars
  <2>2. ASSUME PowerCycle PROVE \E h \in Hosts : Dies(h)
    BY <2>2, Zenon DEF PowerCycle, Hosts
  <2>3. ASSUME NEW h \in Hosts, HostDown(h) PROVE Dies(h)
    BY <2>3, Zenon DEF HostDown
  <2>4. ASSUME UNCHANGED <<serving, sweepVars>> PROVE UNCHANGED sweepVars
    BY <2>4, Zenon
  <2> QED BY <2>1, <2>2, <2>3, <2>4, Zenon DEF Next
<1> QED BY <1>1, <1>2, <1>3, <1>4, <1>5, <1>6, <1>7, Zenon

\* At the start there is no process, and all machines are up.
LEMMA RunInit == Init => RunInv /\ HostInv
<1> SUFFICES ASSUME Init PROVE RunInv /\ HostInv
  BY Zenon
<1>1. /\ proc = [pc |-> "none", rate |-> 0, aux |-> 0, submitted |-> 0]
      /\ job = [j \in Jobs |-> NoJob] /\ counter = NoCounts /\ sent = [f \in Files |-> <<>>]
  BY Zenon DEF Init, ClientInit
<1>2. /\ NoJob \in JobStates /\ NoJob.at = "none" /\ \A j \in Jobs : job[j] = NoJob
  BY <1>1, ExchangesAssumption DEF NoJob, JobStates, Places
<1>3. /\ JobsAt(job, Past) = {} /\ JobsAt(job, {"err"}) = {} /\ Busy = {}
      /\ Ahead(job) = {} /\ JobsAt(job, {"keLost"}) = {} /\ JobsAt(job, {"ntpLost"}) = {}
  <2>1. ASSUME NEW e \in Ahead(job) PROVE FALSE
    <3>1. e[1] \in Jobs /\ job[e[1]].at = "ntp"
      BY <2>1, Zenon DEF Ahead
    <3> QED BY <3>1, <1>2, Zenon
  <2> QED BY <2>1, <1>2, Zenon DEF JobsAt, Busy
<1>4. \A f \in Files : sent[f] = <<>> /\ DOMAIN sent[f] = {}
  BY <1>1
<1>5. Times("ke") = 0 /\ Times("ntp") = 0
  <2>1. \A f \in {"ke", "ntp"} : {i \in DOMAIN sent[f] : sent[f][i].line = "time"} = {}
    BY <1>4, Zenon DEF Files
  <2> QED BY <2>1, FS_EmptySet, Zenon DEF Times
<1>6. Errors(counter, "ke") = 0 /\ Errors(counter, "ntp") = 0
  BY <1>1 DEF Errors, NoCounts, Classes
<1>7. Len(sent["err"]) = 0
  BY <1>4 DEF Files
<1>8. AccountInv
  <2>1. Balance(0, 0, 0, 0, 0, 0, 0, 0, 0, 0)
    BY ExchangesAssumption DEF Balance
  <2> QED BY <2>1, <1>3, <1>5, <1>6, <1>7, FS_EmptySet, Zenon DEF AccountInv
<1>9. JobInv
  <2>1. proc.submitted = 0 /\ TotalRequests = 0
    BY <1>1, RuntimeAssumption DEF TotalRequests
  <2>2. \A j \in Jobs : j > 0
    BY RuntimeAssumption, LimitAssumption DEF Jobs
  <2>3. job \in [Jobs -> JobStates] /\ Cardinality(Busy) <= Pool
    BY <1>1, <1>2, <1>3, FS_EmptySet, PoolAssumption
  <2> QED BY <1>2, <2>1, <2>2, <2>3 DEF JobInv
<1>10. SummaryInv
  <2>1. ~Summarised
    BY <1>4, Zenon DEF Summarised, Files
  <2> QED BY <2>1, <1>1, Zenon DEF SummaryInv
<1>11. HostInv
  BY DEF Init, HostInv
<1> QED BY <1>8, <1>9, <1>10, <1>11, Zenon DEF RunInv

\* The files, the process and its jobs, the machines and both scripts are always
\* in a state their code knows, and no more jobs are under way than the pool has
\* threads.
THEOREM SweepTypeCorrect == Spec => []TypeOK
<1>1. SweepInv /\ RunInv /\ HostInv => TypeOK
  <2> SUFFICES ASSUME SweepInv, RunInv, HostInv PROVE TypeOK
    BY Zenon
  <2>1. /\ reqs \in Nat \cup {Empty} /\ num_aux \in 0 .. MaxAux + MaxOver \cup {Empty}
        /\ arbFile \in 0 .. MaxAux + MaxOver \cup {Empty}
        /\ proc.pc \in {"none", "warmup", "submit", "summary", "create", "write", "exit"}
        /\ arb.pc \in {"server", "aux", "gather", "off"} /\ arb.started \in Nat /\ arb.count \in Nat
        /\ script \in {"none", "start", "stop", "local", "tell", "reset", "run", "wait"}
    BY Zenon DEF SweepInv, FilesInv, SweepTypes
  <2>2. \A j \in Jobs : job[j].at \in Places
    BY Zenon DEF RunInv, JobInv, JobStates
  <2>3. arb.started \in 0 .. arb.count
    BY <2>1 DEF HostInv
  <2> QED BY <2>1, <2>2, <2>3, Zenon DEF TypeOK, HostInv, RunInv, JobInv, Places
<1>2. SweepInv /\ LabelInv /\ RunInv /\ HostInv /\ [Next]_vars => RunInv' /\ HostInv'
  BY RunNext, HostNext, Zenon DEF LabelInv
<1>3. SweepInv /\ LabelInv /\ [Next]_vars => LabelInv'
  BY HeadNext, LoadNext, Zenon DEF LabelInv
<1> QED BY <1>1, <1>2, <1>3, SweepInit, SweepNext, LabelInit, RunInit, PTL DEF Spec

\* The numbers of errors at the end of a results file account for the whole run,
\* for every rate, pool and number of exchanges: nothing is measured after them,
\* each request is a time, an error or a job that panicked, and each key that was
\* exchanged led to all its times but those an error or a panic cut off.
THEOREM SummariesCloseRuns == Spec => []SummaryClosesRun
<1>1. SweepInv /\ LabelInv /\ RunInv => SummaryClosesRun
  BY SummarySound, Zenon DEF LabelInv
<1>2. SweepInv /\ LabelInv /\ RunInv /\ [Next]_vars => RunInv'
  BY RunNext, Zenon DEF LabelInv
<1>3. SweepInv /\ LabelInv /\ [Next]_vars => LabelInv'
  BY HeadNext, LoadNext, Zenon DEF LabelInv
<1> QED BY <1>1, <1>2, <1>3, SweepInit, SweepNext, LabelInit, RunInit, PTL DEF Spec

=============================================================================
