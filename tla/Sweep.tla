-------------------------------- MODULE Sweep --------------------------------
(***************************************************************************)
(* scripts/orchestrate.sh on the arbiter and gather_measurements.sh on the *)
(* measurement client, around the process of ExperimentClient.             *)
(*                                                                         *)
(* The arbiter starts the servers and as many auxiliary clients as its file*)
(* says, runs the script on the client, and reboots the machines.  The     *)
(* script keeps the state of the experiment in two files of the client and *)
(* tells the arbiter when to use one more auxiliary client.                *)
(*                                                                         *)
(* A machine that is told to reboot loses its processes at once, still     *)
(* answers for a while, and then is down until it is up again.  The client *)
(* may lose power at most MaxCycles times, and the arbiter and the server  *)
(* may miss what the script sends them.  A script whose last message was   *)
(* missed never stops: MaxOver bounds the numbers of auxiliary clients past*)
(* the last one.                                                           *)
(***************************************************************************)
EXTENDS ExperimentClient

CONSTANTS
  Server, Client,   \* machines; the auxiliary clients are numbered
  MaxCycles,        \* power failures of the client
  MaxOver           \* numbers of auxiliary clients past MaxAux

ASSUME MaxOverAssumption == MaxOver \in Nat \ {0}

VARIABLES
  host,     \* the machines: "up", "stopping" or "down"
  arb,      \* orchestrate.sh: [pc, count, started]
  arbFile,  \* the arbiter's tests/num_aux_clients
  auxOn,    \* machines that run an auxiliary client
  script,   \* where gather_measurements.sh is
  told,     \* did the arbiter get the last number it was sent?
  missed,   \* did the arbiter miss the last call to reboot?
  torn,     \* numbers of auxiliary clients for which the script did not get to
            \* line 43 after line 38 (history)
  cycles    \* power failures so far

sweepVars == <<host, arb, arbFile, auxOn, script, told, missed, torn, cycles>>
vars == <<clientVars, serving, sweepVars>>

Aux == 1 .. MaxAux
Hosts == {Server, Client} \cup Aux
Answers(h) == host[h] \in {"up", "stopping"}

-----------------------------------------------------------------------------
(***************************************************************************)
(* orchestrate.sh                                                          *)
(***************************************************************************)
\* Wait for the server, start NTS-KE and NTP on it, read the number of
\* auxiliary clients.
ArbServer ==
  /\ arb.pc = "server"
  /\ Answers(Server)
  /\ serving' = TRUE
  /\ arbFile' = IF arbFile = Empty THEN 0 ELSE arbFile
  /\ arb' = [pc |-> "aux", count |-> arbFile', started |-> 0]
  /\ UNCHANGED <<clientVars, host, auxOn, script, told, missed, torn, cycles>>

\* Mutant: the addresses are taken from the second on.
ShiftedArbAux ==
  /\ arb.pc = "aux"
  /\ arb.started < arb.count
  /\ arb.started + 2 \in Aux
  /\ Answers(arb.started + 2)
  /\ auxOn' = auxOn \cup {arb.started + 2}
  /\ arb' = [arb EXCEPT !.started = @ + 1]
  /\ UNCHANGED <<clientVars, serving, host, arbFile, script, told, missed, torn, cycles>>

\* There is no address for a number above MaxAux: nothing answers.
ArbAux ==
  /\ arb.pc = "aux"
  /\ arb.started < arb.count
  /\ arb.started + 1 \in Aux
  /\ Answers(arb.started + 1)
  /\ auxOn' = auxOn \cup {arb.started + 1}
  /\ arb' = [arb EXCEPT !.started = @ + 1]
  /\ UNCHANGED <<clientVars, serving, host, arbFile, script, told, missed, torn, cycles>>

ArbClient ==
  /\ arb.pc = "aux"
  /\ arb.started = arb.count
  /\ Answers(Client)
  /\ script' = "start"
  /\ arb' = [arb EXCEPT !.pc = "gather"]
  /\ UNCHANGED <<clientVars, serving, host, arbFile, auxOn, told, missed, torn, cycles>>

\* The script has ended, or its machine has gone: reboot them all.
ArbReboot ==
  /\ arb.pc = "gather"
  /\ script = "none"
  /\ host' = [h \in Hosts |->
                IF (h \in Aux => h <= arb.count) /\ host[h] = "up" THEN "stopping" ELSE host[h]]
  /\ serving' = FALSE
  /\ auxOn' = {i \in auxOn : i > arb.count}
  /\ arb' = [arb EXCEPT !.pc = "server"]
  /\ UNCHANGED <<clientVars, arbFile, script, told, missed, torn, cycles>>

-----------------------------------------------------------------------------
(***************************************************************************)
(* gather_measurements.sh                                                  *)
(***************************************************************************)
\* Mutant: -ge for -gt.
EarlyScriptStart ==
  /\ script = "start"
  /\ reqs' = IF reqs = Empty THEN Step ELSE reqs
  /\ num_aux' = IF num_aux = Empty THEN 0 ELSE num_aux
  /\ script' = IF reqs' < Limit THEN "run"
               ELSE IF num_aux' = MaxAux THEN "stop" ELSE "local"
  /\ UNCHANGED <<proc, job, counter, sent, measured, serving>>
  /\ UNCHANGED <<host, arb, arbFile, auxOn, told, missed, torn, cycles>>

\* Mutant: the script looks for the number it will write.
LateScriptStart ==
  /\ script = "start"
  /\ reqs' = IF reqs = Empty THEN Step ELSE reqs
  /\ num_aux' = IF num_aux = Empty THEN 0 ELSE num_aux
  /\ script' = IF reqs' <= Limit THEN "run"
               ELSE IF num_aux' = MaxAux + 1 THEN "stop" ELSE "local"
  /\ UNCHANGED <<proc, job, counter, sent, measured, serving>>
  /\ UNCHANGED <<host, arb, arbFile, auxOn, told, missed, torn, cycles>>

\* Default what is missing; is this number of auxiliary clients done?
ScriptStart ==
  /\ script = "start"
  /\ reqs' = IF reqs = Empty THEN Step ELSE reqs
  /\ num_aux' = IF num_aux = Empty THEN 0 ELSE num_aux
  /\ script' = IF reqs' <= Limit THEN "run"
               ELSE IF num_aux' = MaxAux THEN "stop" ELSE "local"
  /\ UNCHANGED <<proc, job, counter, sent, measured, serving>>
  /\ UNCHANGED <<host, arb, arbFile, auxOn, told, missed, torn, cycles>>

\* The last number of auxiliary clients is done: ssh to the arbiter, whose
\* loop ends with its reboot, and to the server.  Neither may be reached, and
\* the script goes on.
StopAll ==
  /\ script = "stop"
  /\ missed' \in BOOLEAN
  /\ arb' = IF missed' THEN arb ELSE [arb EXCEPT !.pc = "off"]
  /\ \/ UNCHANGED <<host, serving>>
     \/ /\ host' = [host EXCEPT ![Server] = IF @ = "up" THEN "stopping" ELSE @]
        /\ serving' = FALSE
  /\ script' = "local"
  /\ UNCHANGED <<clientVars, arbFile, auxOn, told, torn, cycles>>

\* One more auxiliary client from now on.
MoreAux ==
  /\ script = "local"
  /\ num_aux < MaxAux + MaxOver
  /\ num_aux' = num_aux + 1
  /\ script' = "tell"
  /\ UNCHANGED <<reqs, proc, job, counter, sent, measured, serving>>
  /\ UNCHANGED <<host, arb, arbFile, auxOn, told, missed, torn, cycles>>

\* ssh to the arbiter, which may not be reached.
TellArbiter ==
  /\ script = "tell"
  /\ told' \in BOOLEAN
  /\ arbFile' = IF told' THEN num_aux ELSE arbFile
  /\ script' = "reset"
  /\ UNCHANGED <<clientVars, serving, host, arb, auxOn, missed, torn, cycles>>

\* Mutant: the first rate is written at once.
FirstRateReset ==
  /\ script = "reset"
  /\ reqs' = Step
  /\ script' = "run"
  /\ UNCHANGED <<num_aux, proc, job, counter, sent, measured, serving>>
  /\ UNCHANGED <<host, arb, arbFile, auxOn, told, missed, torn, cycles>>

\* The script is read from the standard input, which the ssh before has read
\* as well: it may end here.
ResetRate ==
  /\ script = "reset"
  /\ reqs' = Empty
  /\ script' \in {"run", "none"}
  /\ UNCHANGED <<num_aux, proc, job, counter, sent, measured, serving>>
  /\ UNCHANGED <<host, arb, arbFile, auxOn, told, missed, torn, cycles>>

RunClient ==
  /\ script = "run"
  /\ StartClient
  /\ script' = IF proc'.pc = "none" THEN "none" ELSE "wait"
  /\ UNCHANGED <<serving, host, arb, arbFile, auxOn, told, missed, torn, cycles>>

ScriptEnd ==
  /\ script = "wait"
  /\ proc.pc = "none"
  /\ script' = "none"
  /\ UNCHANGED <<clientVars, serving, host, arb, arbFile, auxOn, told, missed, torn, cycles>>

-----------------------------------------------------------------------------
(***************************************************************************)
(* The machines                                                            *)
(***************************************************************************)
\* What was started on a machine that was going down is gone with it.
Dies(h) ==
  /\ host' = [host EXCEPT ![h] = "down"]
  /\ serving' = (serving /\ h # Server)
  /\ auxOn' = auxOn \ {h}
  /\ IF h = Client
     THEN Gone /\ script' = "none"
     ELSE UNCHANGED <<proc, job, counter, sent, script>>
  /\ torn' = IF h = Client /\ script \in {"tell", "reset"} THEN torn \cup {num_aux} ELSE torn
  /\ UNCHANGED <<reqs, num_aux, measured, arb, arbFile, told, missed>>

HostDown(h) ==
  /\ host[h] = "stopping"
  /\ Dies(h)
  /\ UNCHANGED cycles

PowerCycle ==
  /\ host[Client] = "up"
  /\ cycles < MaxCycles
  /\ cycles' = cycles + 1
  /\ Dies(Client)

HostUp(h) ==
  /\ host[h] = "down"
  /\ host' = [host EXCEPT ![h] = "up"]
  /\ UNCHANGED <<clientVars, serving, arb, arbFile, auxOn, script, told, missed, torn, cycles>>

-----------------------------------------------------------------------------
Init ==
  /\ ClientInit
  /\ serving = FALSE
  /\ host = [h \in Hosts |-> "up"]
  /\ arb = [pc |-> "server", count |-> 0, started |-> 0]
  /\ arbFile = Empty
  /\ auxOn = {}
  /\ script = "none"
  /\ told = TRUE
  /\ missed = FALSE
  /\ torn = {}
  /\ cycles = 0

Next ==
  \/ ArbServer
  \/ ArbAux
  \/ ArbClient
  \/ ArbReboot
  \/ ScriptStart
  \/ StopAll
  \/ MoreAux
  \/ TellArbiter
  \/ ResetRate
  \/ RunClient
  \/ ScriptEnd
  \/ ClientStep /\ UNCHANGED <<serving, sweepVars>>
  \/ PowerCycle
  \/ \E h \in Hosts : HostDown(h) \/ HostUp(h)

\* The system goes on while it can, and a warm-up that finds the servers
\* running again and again is one day completed.
Spec ==
  /\ Init /\ [][Next]_vars
  /\ WF_vars(Next)
  /\ SF_vars(WarmupDone /\ UNCHANGED <<serving, sweepVars>>)

-----------------------------------------------------------------------------
\* TypeOK: the files hold numbers or nothing, the processes are at a place of
\* their code, and there are never more lines than exchanges.
TypeOK ==
  /\ reqs \in Nat \cup {Empty} /\ num_aux \in 0 .. MaxAux + MaxOver \cup {Empty}
  /\ arbFile \in 0 .. MaxAux + MaxOver \cup {Empty}
  /\ proc.pc \in {"none", "warmup", "submit", "summary", "create", "write", "exit"}
  /\ proc.submitted \in 0 .. TotalRequests
  /\ \A j \in Jobs : job[j].at \in {"none", "queued", "ke", "ntp", "err", "done", "keLost", "ntpLost"}
  /\ Cardinality(Busy) <= Pool
  /\ host \in [Hosts -> {"up", "stopping", "down"}]
  /\ arb.pc \in {"server", "aux", "gather", "off"} /\ arb.started \in 0 .. arb.count
  /\ script \in {"none", "start", "stop", "local", "tell", "reset", "run", "wait"}
  /\ auxOn \subseteq Aux

Times(file) == Cardinality({i \in DOMAIN sent[file] : sent[file][i].line = "time"})

Failures(summary) == summary.count["timeout"] + summary.count["os"] + summary.count["other"]

\* The jobs that panicked in an exchange of one kind.
Lost(place) == Cardinality({j \in Jobs : job[j].at = place})

\* SummaryClosesRun: a results file in which main's writer got as far as the
\* numbers of errors ("write the number of failures") has every measurement of
\* the run before them, and they account for the rest: each request is a time
\* in client_nts_ke, a counted error, or a job that panicked before it had
\* either; each counted error is a line of client_err; and each key that was
\* exchanged led to Exchanges times in client_nts_ntp unless one of them failed
\* or panicked.
SummaryClosesRun ==
  \A f \in {"ke", "ntp"} : \A i \in 1 .. Len(sent[f]) :
    sent[f][i].line = "errors" =>
      LET ke == Failures(sent["ke"][Len(sent["ke"])])
          ntp == Failures(sent["ntp"][Len(sent["ntp"])])
      IN  /\ i = Len(sent[f])
          /\ Times("ke") + ke + Lost("keLost") = TotalRequests
          /\ ke + ntp = Len(sent["err"])
          /\ Times("ntp") <= Exchanges * Times("ke")
          /\ Times("ntp") >= Exchanges * (Times("ke") - ntp - Lost("ntpLost")) + ntp

\* LabelMatchesLoad: the total at the head of a run's key exchanges counts as
\* many auxiliary clients as the arbiter started for it, unless the arbiter did
\* not get the last number the script sent it.
LabelMatchesLoad ==
  told /\ sent["ke"] # <<>> => sent["ke"][1].total = Label(proc.rate, arb.count)

\* The point that is next.  The script or the process may be between the two
\* writes that make up one change of the state of the experiment: the old value
\* counts until the second.
AuxNow == IF num_aux = Empty THEN 0 ELSE num_aux

Rate ==
  IF proc.pc = "write" THEN proc.rate
  ELSE IF script \in {"tell", "reset"} \/ reqs = Empty THEN Step
  ELSE reqs

Experiment == INSTANCE Campaign WITH aux <- AuxNow, rate <- Rate

\* ImplementsCampaign: through reboots and power failures at any moment, the
\* files take the experiment from one point to the next as Campaign says.
ImplementsCampaign == Experiment!Spec

\* SkippedOnlyIfTorn: a rate is left out for some number of auxiliary clients
\* only if the client went down between the two writes of the script that begin
\* with that number (lines 38 and 43), and then all its rates are.
SkippedOnlyIfTorn == Experiment!SkippedOnlyIfTorn

\* PastLastOnlyIfMissed: the number of auxiliary clients goes past the last one
\* ($aux_count == 15), for which there is no address, only once the arbiter is
\* off or has missed the call to reboot.
PastLastOnlyIfMissed == AuxNow > MaxAux => arb.pc = "off" \/ missed

\* SweepEnds: the experiment comes to its end, where the arbiter is rebooted
\* ("Upon completion of the experiment parameters, the NTS Arbiter will be
\* rebooted") or misses the call to reboot, unless again and again the script
\* runs on, or against, a machine that was still answering while it went down.
SweepEnds ==
  \/ <>(arb.pc = "off" \/ missed)
  \/ []<>(script # "none" /\ (host[Client] = "stopping" \/ ~serving))

=============================================================================
