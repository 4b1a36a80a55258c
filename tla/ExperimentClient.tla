-------------------------- MODULE ExperimentClient --------------------------
(***************************************************************************)
(* sub_command/client.rs as the measurement client: one process that reads *)
(* the rate from a file, warms up, hands one job for each request to a     *)
(* thread pool, waits for them, reports the errors it counted and writes   *)
(* the rate of the next process; main.rs, whose writer threads copy what is*)
(* sent to them into the results.                                          *)
(*                                                                         *)
(* A measurement is the line it makes, not its value.  num_runs is 1, as in*)
(* experiment.yaml.  The writers are not steps of their own: main returns  *)
(* without waiting for them, so a results file ends with any first part of *)
(* what was sent, and the properties speak of every first part.            *)
(***************************************************************************)
EXTENDS CampaignBounds, Sequences, FiniteSets

CONSTANTS
  Pool,        \* threads of the pool (num_clients)
  Runtime,     \* seconds of a measurement (total_runtime_ms)
  Exchanges,   \* exchanges_per_cookie
  AuxRate,     \* aux_req_rate
  Empty        \* a file without contents

ASSUME PoolAssumption == Pool \in Nat
ASSUME RuntimeAssumption == Runtime \in Nat
ASSUME EmptyAssumption == Empty \notin Nat
ASSUME AuxRateAssumption == AuxRate \in Nat
ASSUME ExchangesAssumption == Exchanges \in Nat

VARIABLES
  reqs,        \* tests/reqs_per_second
  num_aux,     \* tests/num_aux_clients
  serving,     \* do the NTS-KE and the NTP server run?
  proc,        \* the process: [pc, rate, aux, submitted]
  job,         \* its jobs: [at, left]
  counter,     \* KE_TIMEOUT ... NTP_OTHER
  sent,        \* what was sent to each writer
  measured     \* points <<aux, rate>> that were measured to the end

clientVars == <<reqs, num_aux, proc, job, counter, sent, measured>>

Files == {"ke", "ntp", "err"}
Classes == {"timeout", "os", "other"}
Jobs == 1 .. Runtime * Limit

TotalRequests == Runtime * proc.rate
Label(rate, aux) == rate + AuxRate * aux

\* Why an exchange fails, and how the text of the error is classified: a
\* connection that is not made "timed out", a read that is given up is
\* "Resource temporarily unavailable (os error 11)".
KeErrors == {"connect timeout", "read timeout", "closed"}
NtpErrors == {"read timeout", "kiss of death"}

ClassOf(err) ==
  CASE err = "connect timeout" -> "timeout"
    [] err = "read timeout" -> "os"
    [] OTHER -> "other"

Send(file, line) == [sent EXCEPT ![file] = Append(@, line)]

NoCounts == [c \in {"ke", "ntp"} \X Classes |-> 0]
NoJob == [at |-> "none", left |-> 0]

-----------------------------------------------------------------------------
\* The start of run(): an empty file does not parse and the process panics.
StartClient ==
  /\ proc.pc = "none"
  /\ IF reqs = Empty \/ num_aux = Empty
     THEN UNCHANGED <<proc, job, counter, sent>>
     ELSE /\ proc' = [pc |-> "warmup", rate |-> reqs, aux |-> num_aux, submitted |-> 0]
          /\ job' = [j \in Jobs |-> NoJob]
          /\ counter' = NoCounts
          /\ sent' = [f \in Files |->
                        IF f = "err" THEN <<>>
                        ELSE <<[line |-> "label",
                                total |-> (IF f = "ntp" THEN Exchanges ELSE 1)
                                            * Label(reqs, num_aux)]>>]
  /\ UNCHANGED <<reqs, num_aux, measured>>

\* A key exchange of the warm-up fails and run() returns, or the warm-up panics.
WarmupFails ==
  /\ proc.pc = "warmup"
  /\ proc' = [proc EXCEPT !.pc = "exit"]
  /\ UNCHANGED <<reqs, num_aux, job, counter, sent, measured>>

WarmupDone ==
  /\ proc.pc = "warmup"
  /\ serving
  /\ proc' = [proc EXCEPT !.pc = "submit"]
  /\ UNCHANGED <<reqs, num_aux, job, counter, sent, measured>>

\* Mutant: 0..=total_requests.
OneMoreSubmit ==
  /\ proc.pc = "submit"
  /\ proc.submitted <= TotalRequests
  /\ proc' = [proc EXCEPT !.submitted = @ + 1]
  /\ job' = [job EXCEPT ![proc.submitted + 1] = [at |-> "queued", left |-> 0]]
  /\ UNCHANGED <<reqs, num_aux, counter, sent, measured>>

\* pool.execute, once for each inter-request time.
Submit ==
  /\ proc.pc = "submit"
  /\ proc.submitted < TotalRequests
  /\ proc' = [proc EXCEPT !.submitted = @ + 1]
  /\ job' = [job EXCEPT ![proc.submitted + 1] = [at |-> "queued", left |-> 0]]
  /\ UNCHANGED <<reqs, num_aux, counter, sent, measured>>

\* Mutant: nobody waits for the clients.
HastyJoin ==
  /\ proc.pc = "submit"
  /\ proc.submitted = TotalRequests
  /\ proc' = [proc EXCEPT !.pc = "summary"]
  /\ UNCHANGED <<reqs, num_aux, job, counter, sent, measured>>

\* pool.join
Join ==
  /\ proc.pc = "submit"
  /\ proc.submitted = TotalRequests
  /\ \A j \in 1 .. TotalRequests : job[j].at \in {"done", "keLost", "ntpLost"}
  /\ proc' = [proc EXCEPT !.pc = "summary"]
  /\ UNCHANGED <<reqs, num_aux, job, counter, sent, measured>>

\* Three lines for each kind of exchange.
Summary(kind) == [line |-> "errors", count |-> [c \in Classes |-> counter[<<kind, c>>]]]

Summarise ==
  /\ proc.pc = "summary"
  /\ proc' = [proc EXCEPT !.pc = "create"]
  /\ sent' = [f \in Files |->
                IF f = "err" THEN sent[f] ELSE Append(sent[f], Summary(f))]
  /\ UNCHANGED <<reqs, num_aux, job, counter, measured>>

\* File::create truncates; write_all follows.
CreateFile ==
  /\ proc.pc = "create"
  /\ proc' = [proc EXCEPT !.pc = "write"]
  /\ reqs' = Empty
  /\ UNCHANGED <<num_aux, job, counter, sent, measured>>

\* Mutant: the rate is written back without the step.
StuckWriteFile ==
  /\ proc.pc = "write"
  /\ proc' = [proc EXCEPT !.pc = "exit"]
  /\ reqs' = proc.rate
  /\ measured' = measured \cup {<<proc.aux, proc.rate>>}
  /\ UNCHANGED <<num_aux, job, counter, sent>>

\* reqs_per_second += step_size
WriteFile ==
  /\ proc.pc = "write"
  /\ proc' = [proc EXCEPT !.pc = "exit"]
  /\ reqs' = proc.rate + Step
  /\ measured' = measured \cup {<<proc.aux, proc.rate>>}
  /\ UNCHANGED <<num_aux, job, counter, sent>>

\* The end of the process, with whatever its threads still hold.
Gone ==
  /\ proc' = [pc |-> "none", rate |-> 0, aux |-> 0, submitted |-> 0]
  /\ job' = [j \in Jobs |-> NoJob]
  /\ counter' = NoCounts
  /\ sent' = [f \in Files |-> <<>>]

Exit ==
  /\ proc.pc = "exit"
  /\ Gone
  /\ UNCHANGED <<reqs, num_aux, measured>>

-----------------------------------------------------------------------------
(***************************************************************************)
(* A job: a key exchange, then Exchanges time exchanges with its cookie.   *)
(* The first error is counted, sent to the writer of errors, and ends it.  *)
(* A panic ends it without a trace: the pool starts another thread.        *)
(***************************************************************************)
Busy == {j \in Jobs : job[j].at \in {"ke", "ntp", "err"}}

Begin(j) ==
  /\ job[j].at = "queued"
  /\ \A i \in 1 .. j - 1 : job[i].at # "queued"
  /\ Cardinality(Busy) < Pool
  /\ job' = [job EXCEPT ![j].at = "ke"]
  /\ UNCHANGED <<reqs, num_aux, proc, counter, sent, measured>>

KeDone(j) ==
  /\ job[j].at = "ke"
  /\ serving
  /\ sent' = Send("ke", [line |-> "time"])
  /\ job' = [job EXCEPT ![j] = [at |-> IF Exchanges = 0 THEN "done" ELSE "ntp",
                                left |-> Exchanges]]
  /\ UNCHANGED <<reqs, num_aux, proc, counter, measured>>

KeFails(j) ==
  /\ job[j].at = "ke"
  /\ \E err \in KeErrors : counter' = [counter EXCEPT ![<<"ke", ClassOf(err)>>] = @ + 1]
  /\ job' = [job EXCEPT ![j].at = "err"]
  /\ UNCHANGED <<reqs, num_aux, proc, sent, measured>>

\* The time of an exchange is sent before its result is looked at.
NtpDone(j) ==
  /\ job[j].at = "ntp"
  /\ serving
  /\ sent' = Send("ntp", [line |-> "time"])
  /\ job' = [job EXCEPT ![j] = [at |-> IF @.left = 1 THEN "done" ELSE "ntp",
                                left |-> @.left - 1]]
  /\ UNCHANGED <<reqs, num_aux, proc, counter, measured>>

NtpFails(j) ==
  /\ job[j].at = "ntp"
  /\ sent' = Send("ntp", [line |-> "time"])
  /\ \E err \in NtpErrors : counter' = [counter EXCEPT ![<<"ntp", ClassOf(err)>>] = @ + 1]
  /\ job' = [job EXCEPT ![j].at = "err"]
  /\ UNCHANGED <<reqs, num_aux, proc, measured>>

\* An unwrap fails: no address, no keys of the TLS session.
KePanics(j) ==
  /\ job[j].at = "ke"
  /\ job' = [job EXCEPT ![j].at = "keLost"]
  /\ UNCHANGED <<reqs, num_aux, proc, counter, sent, measured>>

\* Or no socket, no cookie: the time of this exchange is not sent either.
NtpPanics(j) ==
  /\ job[j].at = "ntp"
  /\ job' = [job EXCEPT ![j].at = "ntpLost"]
  /\ UNCHANGED <<reqs, num_aux, proc, counter, sent, measured>>

SendError(j) ==
  /\ job[j].at = "err"
  /\ sent' = Send("err", [line |-> "error"])
  /\ job' = [job EXCEPT ![j].at = "done"]
  /\ UNCHANGED <<reqs, num_aux, proc, counter, measured>>

JobStep ==
  \E j \in Jobs : \/ Begin(j)
                  \/ KeDone(j)
                  \/ KeFails(j)
                  \/ NtpDone(j)
                  \/ NtpFails(j)
                  \/ KePanics(j)
                  \/ NtpPanics(j)
                  \/ SendError(j)

ClientStep ==
  \/ WarmupFails
  \/ WarmupDone
  \/ Submit
  \/ Join
  \/ Summarise
  \/ CreateFile
  \/ WriteFile
  \/ Exit
  \/ JobStep

ClientInit ==
  /\ reqs = Empty
  /\ num_aux = Empty
  /\ proc = [pc |-> "none", rate |-> 0, aux |-> 0, submitted |-> 0]
  /\ job = [j \in Jobs |-> NoJob]
  /\ counter = NoCounts
  /\ sent = [f \in Files |-> <<>>]
  /\ measured = {}

=============================================================================
