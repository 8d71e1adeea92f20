------------------------------ MODULE Calibrate ------------------------------
(***************************************************************************)
(* The calibration sweep (calibrate.py): a pool of worker threads runs     *)
(* the graded suite of every instance twice, in a sandbox that is named    *)
(* after the instance, and the main thread records the results and writes  *)
(* the list of the instances to train on.  A sweep can be killed and       *)
(* started again; what it left in the cluster is still there then.         *)
(*                                                                         *)
(* The statuses a suite reports and their grading are those of SweGrading. *)
(* The cluster, the websockets and the suites themselves are external: a   *)
(* fault is any way one of them fails, and MaxFaults bounds the faults.    *)
(***************************************************************************)
EXTENDS Naturals, FiniteSets, SweGrading

CONSTANTS
    Instances,
    Concurrency,    \* max_workers of the pool
    Retries,        \* retries of one exec
    MaxFaults,      \* bound on faults
    MaxSweeps,      \* bound on sweeps
    Nothing         \* no report, no result

ASSUME CalibrateAssumption ==
    /\ IsFiniteSet(Instances)
    /\ Concurrency \in Nat \ {0}
    /\ Retries \in Nat
    /\ MaxFaults \in Nat
    /\ MaxSweeps \in Nat \ {0}

\* good: fails as the dataset says before the fix.  drifted: a test of the row is not
\* collected.  solved: passes before the fix.  flaky: differs from run to run.
\* slow: never ends within the cap.
Kinds == {"good", "drifted", "solved", "flaky", "slow"}

\* What one run of the suite reports, by kind.
Runs(k) ==
    CASE k = "good" -> {Report({})}
      [] k = "drifted" -> {Restrict(Report({}), Tests \ {"kept"})}
      [] k = "solved" -> {Report({"fix"})}
      [] k = "flaky" -> {Report({}), Report({"breaks"})}
      [] k = "slow" -> {}

VARIABLES
    kind,       \* what each instance is like: never changes
    pc,         \* where the worker of an instance is
    sandboxes,  \* the instances whose sandbox exists
    report,     \* /tmp/r2e_report.xml in the sandbox, with the run that wrote it
    runs,       \* runs of the suite that ended in this sandbox
    attempt,    \* tries of the exec under way
    first,      \* map1 and the run it is from
    second,     \* map2 and the run it is from
    reason,     \* result["reason"]
    keep,       \* the keep-list file
    phase,      \* of the main thread
    sweeps, faults,     \* counters for the bounds
    \* history of the current sweep
    disturbed,  \* instances a fault has hit
    died,       \* instances whose pytest died in a suite
    leftovers,  \* instances whose sandbox is an earlier sweep's
    undeleted   \* instances whose delete failed

clusterVars == <<sandboxes, report, runs>>
resultVars == <<attempt, first, second, reason>>
mainVars == <<keep, phase, sweeps>>
vars == <<kind, pc, sandboxes, report, runs, attempt, first, second, reason,
          keep, phase, sweeps, faults, disturbed, died, leftovers, undeleted>>

Reasons == {"ok", "key-mismatch", "nondeterministic", "already-solved",
            "timeout", "sandbox-error", "unexpected-error"}

Working == {"create", "ready", "suite1", "suite2", "delete"}
Active == {i \in Instances : pc[i] \in Working}
Alive == phase \in {"recording", "aborted"}

----------------------------------------------------------------------------
(* Grading: calibrate_instance after its two runs.                         *)

\* Mutant of KeysMatch: skipped tests count as collected.
KeysMatchSkipped(statuses) == DOMAIN expected = DOMAIN statuses

KeysMatch(statuses) ==
    DOMAIN expected = {t \in DOMAIN statuses : statuses[t] # SKIPPED}

Judged(map1, map2) ==
    CASE ~KeysMatch(map1) -> "key-mismatch"
      [] KeysMatch(map1) /\ map1 # map2 -> "nondeterministic"
      [] KeysMatch(map1) /\ map1 = map2 /\ grade_r2e(map1, expected) -> "already-solved"
      [] OTHER -> "ok"

----------------------------------------------------------------------------
All(value) == [i \in Instances |-> value]

Init ==
    /\ kind \in [Instances -> Kinds]
    /\ pc = All("queued") /\ attempt = All(0)
    /\ first = All(Nothing) /\ second = All(Nothing) /\ reason = All(Nothing)
    /\ sandboxes = {} /\ report = All(Nothing) /\ runs = All(0)
    /\ keep = {}
    /\ phase = "recording"
    /\ sweeps = 1 /\ faults = 0
    /\ disturbed = {} /\ died = {} /\ leftovers = {} /\ undeleted = {}

Quiet == UNCHANGED <<faults, disturbed, died>>
Faulted(i) ==
    /\ faults < MaxFaults
    /\ faults' = faults + 1
    /\ disturbed' = disturbed \cup {i}
FaultAt(i) == Faulted(i) /\ UNCHANGED died

Goto(i, label) == pc' = [pc EXCEPT ![i] = label]

\* The try block ends with an exception of the kind, or with a verdict.
End(i, why) == Goto(i, "delete") /\ reason' = [reason EXCEPT ![i] = why]

\* A free worker takes the next instance.  Building its client is outside the
\* try block: when that raises, the future holds the exception.
Start(i) ==
    /\ Alive
    /\ pc[i] = "queued"
    /\ Cardinality(Active) < Concurrency
    /\ \/ Goto(i, "create") /\ Quiet
       \/ Goto(i, "raised") /\ FaultAt(i)
    /\ UNCHANGED <<kind, clusterVars, resultVars, mainVars, leftovers, undeleted>>

NewSandbox(i) ==
    /\ sandboxes' = sandboxes \cup {i}
    /\ report' = [report EXCEPT ![i] = Nothing]
    /\ runs' = [runs EXCEPT ![i] = 0]

\* Mutant of Create: a name that is taken ends the instance at once.
CreateLeavesTaken(i) ==
    /\ Alive
    /\ pc[i] = "create"
    /\ \/ /\ i \notin sandboxes
          /\ NewSandbox(i) /\ Goto(i, "ready") /\ Quiet /\ UNCHANGED reason
       \/ /\ i \in sandboxes
          /\ Goto(i, "returned") /\ reason' = [reason EXCEPT ![i] = "unexpected-error"]
          /\ Quiet /\ UNCHANGED clusterVars
    /\ UNCHANGED <<kind, attempt, first, second, mainVars, leftovers, undeleted>>

\* Mutant of Create: a name that is taken is taken for one's own sandbox.
CreateReuses(i) ==
    /\ Alive
    /\ pc[i] = "create"
    /\ IF i \in sandboxes THEN UNCHANGED clusterVars ELSE NewSandbox(i)
    /\ Goto(i, "ready") /\ Quiet /\ UNCHANGED reason
    /\ UNCHANGED <<kind, attempt, first, second, mainVars, leftovers, undeleted>>

\* The name is that of the instance: a sandbox that is still there is a
\* conflict (409).  A call that fails may have created the sandbox.
Create(i) ==
    /\ Alive
    /\ pc[i] = "create"
    /\ \/ /\ i \notin sandboxes
          /\ NewSandbox(i) /\ Goto(i, "ready") /\ Quiet /\ UNCHANGED reason
       \/ /\ i \in sandboxes
          /\ End(i, "unexpected-error") /\ Quiet /\ UNCHANGED clusterVars
       \/ /\ FaultAt(i) /\ End(i, "unexpected-error")
          /\ UNCHANGED clusterVars \/ (i \notin sandboxes /\ NewSandbox(i))
    /\ UNCHANGED <<kind, attempt, first, second, mainVars, leftovers, undeleted>>

\* The pod runs; or it ends, or does not run in time; or the API fails.
WaitReady(i) ==
    /\ Alive
    /\ pc[i] = "ready"
    /\ \/ Goto(i, "suite1") /\ Quiet /\ UNCHANGED reason
       \/ FaultAt(i) /\ \E why \in {"sandbox-error", "unexpected-error"} : End(i, why)
    /\ UNCHANGED <<kind, clusterVars, attempt, first, second, mainVars, leftovers, undeleted>>

\* The suite runs to its end and writes its report over the last one.
SuiteEnds(i) ==
    \E statuses \in Runs(kind[i]) :
        /\ report' = [report EXCEPT ![i] = [statuses |-> statuses, run |-> runs[i] + 1]]
        /\ runs' = [runs EXCEPT ![i] = @ + 1]

\* run_suite has read a report: the first is kept, the second decides.
Read(i, text) ==
    /\ attempt' = [attempt EXCEPT ![i] = 0]
    /\ \/ /\ pc[i] = "suite1"
          /\ first' = [first EXCEPT ![i] = text]
          /\ Goto(i, "suite2")
          /\ UNCHANGED <<second, reason>>
       \/ /\ pc[i] = "suite2"
          /\ second' = [second EXCEPT ![i] = text]
          /\ End(i, Judged(first[i].statuses, text.statuses))
          /\ UNCHANGED first

\* The suite is run and its report read; the time a broken exec took counts
\* against the cap.
RunSuite(i) ==
    /\ Alive
    /\ pc[i] \in {"suite1", "suite2"}
    /\ SuiteEnds(i)
    /\ \/ Read(i, report'[i])
       \/ attempt[i] > 0 /\ End(i, "timeout") /\ UNCHANGED <<attempt, first, second>>
    /\ Quiet
    /\ UNCHANGED <<kind, sandboxes, mainVars, leftovers, undeleted>>

\* Mutant of SuiteTooSlow: the suite is run without a cap.
SuiteNeverCapped(i) == FALSE

\* The suite does not end within the cap: exec answers 124.
SuiteTooSlow(i) ==
    /\ Alive
    /\ pc[i] \in {"suite1", "suite2"}
    /\ Runs(kind[i]) = {}
    /\ End(i, "timeout")
    /\ Quiet
    /\ UNCHANGED <<kind, clusterVars, attempt, first, second, mainVars, leftovers, undeleted>>

\* The websocket breaks before or after the suite has run: exec sends the
\* command again, or gives up.
ExecBreaks(i) ==
    /\ Alive
    /\ pc[i] \in {"suite1", "suite2"}
    /\ FaultAt(i)
    /\ \/ UNCHANGED <<report, runs>>
       \/ SuiteEnds(i)
    /\ IF attempt[i] < Retries
       THEN attempt' = [attempt EXCEPT ![i] = @ + 1] /\ UNCHANGED <<pc, reason>>
       ELSE End(i, "sandbox-error") /\ UNCHANGED attempt
    /\ UNCHANGED <<kind, sandboxes, first, second, mainVars, leftovers, undeleted>>

\* pytest dies before it writes its report (its memory is limited): cat then
\* prints the report that is there, and without one there is no xml.
PytestDies(i) ==
    /\ Alive
    /\ pc[i] \in {"suite1", "suite2"}
    /\ Faulted(i) /\ died' = died \cup {i}
    /\ IF report[i] = Nothing
       THEN End(i, "sandbox-error") /\ UNCHANGED <<attempt, first, second>>
       ELSE Read(i, report[i])
    /\ UNCHANGED <<kind, clusterVars, mainVars, leftovers, undeleted>>

\* The stream ends before the output does: no xml, or xml that does not parse.
OutputCut(i) ==
    /\ Alive
    /\ pc[i] \in {"suite1", "suite2"}
    /\ FaultAt(i)
    /\ \E why \in {"sandbox-error", "unexpected-error"} : End(i, why)
    /\ \/ UNCHANGED <<report, runs>>
       \/ SuiteEnds(i)
    /\ UNCHANGED <<kind, sandboxes, attempt, first, second, mainVars, leftovers, undeleted>>

\* The finally block: a delete that fails is passed over.
Delete(i) ==
    /\ Alive
    /\ pc[i] = "delete"
    /\ Goto(i, "returned")
    /\ \/ sandboxes' = sandboxes \ {i} /\ Quiet /\ UNCHANGED undeleted
       \/ /\ FaultAt(i)
          /\ undeleted' = undeleted \cup {i}
          /\ sandboxes' \in {sandboxes, sandboxes \ {i}}
    /\ UNCHANGED <<kind, report, runs, resultVars, mainVars, leftovers>>

Worker(i) ==
    \/ Start(i) \/ Create(i) \/ WaitReady(i) \/ Delete(i)
    \/ RunSuite(i) \/ SuiteTooSlow(i) \/ ExecBreaks(i) \/ PytestDies(i) \/ OutputCut(i)

----------------------------------------------------------------------------
(* The main thread.                                                        *)

\* as_completed gives the futures as they end; an exception in one ends the
\* loop, and leaving the with block waits for the workers and starts the rest.
Record(i) ==
    /\ phase = "recording"
    /\ \/ pc[i] = "returned" /\ Goto(i, "recorded") /\ UNCHANGED phase
       \/ pc[i] = "raised" /\ phase' = "aborted" /\ UNCHANGED pc
    /\ UNCHANGED <<kind, clusterVars, resultVars, keep, sweeps, faults, disturbed,
                   died, leftovers, undeleted>>

WriteKeepList ==
    /\ phase = "recording"
    /\ \A i \in Instances : pc[i] = "recorded"
    /\ keep' = {i \in Instances : reason[i] = "ok"}
    /\ phase' = "done"
    /\ UNCHANGED <<kind, pc, clusterVars, resultVars, sweeps, faults, disturbed,
                   died, leftovers, undeleted>>

\* The process is killed wherever it is.
Killed ==
    /\ Alive
    /\ faults < MaxFaults
    /\ faults' = faults + 1
    /\ phase' = "killed"
    /\ UNCHANGED <<kind, pc, clusterVars, resultVars, keep, sweeps, disturbed,
                   died, leftovers, undeleted>>

Idle == \A i \in Instances : pc[i] \in {"returned", "recorded", "raised"}
Over == phase \in {"done", "killed"} \/ (phase = "aborted" /\ Idle)

\* The sweep is started again: the results are truncated, the keep list of an
\* earlier sweep stays until this one ends, and so do sandboxes left behind.
Rerun ==
    /\ Over
    /\ sweeps < MaxSweeps
    /\ sweeps' = sweeps + 1
    /\ phase' = "recording"
    /\ pc' = All("queued") /\ attempt' = All(0)
    /\ first' = All(Nothing) /\ second' = All(Nothing) /\ reason' = All(Nothing)
    /\ disturbed' = {} /\ died' = {} /\ undeleted' = {}
    /\ leftovers' = sandboxes
    /\ UNCHANGED <<kind, clusterVars, keep, faults>>

Next ==
    \/ \E i \in Instances : Worker(i) \/ Record(i)
    \/ WriteKeepList \/ Killed \/ Rerun

\* Threads run, and every call a worker makes returns: exec and wait_ready have
\* deadlines of their own; the calls to the Kubernetes API (create, read pod, connect,
\* delete) pass no timeout, and that each is answered or fails is assumed.
Fairness ==
    /\ \A i \in Instances : WF_vars(Worker(i)) /\ WF_vars(Record(i))
    /\ WF_vars(WriteKeepList)

Spec == Init /\ [][Next]_vars
FairSpec == Spec /\ Fairness

----------------------------------------------------------------------------
(* Properties.                                                             *)

Run == [statuses : {Report({}), Report({"fix"}), Report({"breaks"}),
                    Restrict(Report({}), Tests \ {"kept"})},
        run : Nat]

\* Types, and no more workers than the pool has (main, max_workers).
TypeOK ==
    /\ kind \in [Instances -> Kinds]
    /\ pc \in [Instances -> Working \cup {"queued", "returned", "recorded", "raised"}]
    /\ sandboxes \subseteq Instances
    /\ report \in [Instances -> Run \cup {Nothing}]
    /\ runs \in [Instances -> Nat]
    /\ attempt \in [Instances -> 0..Retries]
    /\ first \in [Instances -> Run \cup {Nothing}]
    /\ second \in [Instances -> Run \cup {Nothing}]
    /\ reason \in [Instances -> Reasons \cup {Nothing}]
    /\ keep \subseteq Instances
    /\ phase \in {"recording", "aborted", "done", "killed"}
    /\ sweeps \in 1..MaxSweeps /\ faults \in 0..MaxFaults
    /\ disturbed \subseteq Instances /\ died \subseteq Instances
    /\ leftovers \subseteq Instances
    /\ undeleted \subseteq Instances
    /\ Cardinality(Active) <= Concurrency

\* An instance was judged on two reports that agree, of two runs of its suite in the
\* sandbox this sweep created.  Where pytest died they may be one report read twice.
JudgedOnTwoRuns(i) ==
    /\ i \notin leftovers
    /\ first[i].statuses = second[i].statuses
    /\ i \in died \/ first[i].run < second[i].run

\* The keep list never holds an instance that drifted, is solved before the
\* fix or is too slow, whatever was killed, retried or left behind; a flaky one is
\* on it only when its two suites happened to agree.  The list a sweep writes holds only
\* instances judged on two runs of their suite in a sandbox of this sweep, and
\* every good instance that no fault hit and whose name no earlier sweep's sandbox
\* had taken (run_suite, calibrate_instance, main).
KeepListIsRight ==
    /\ \A i \in keep : kind[i] \in {"good", "flaky"}
    /\ phase = "done" =>
        /\ \A i \in keep : JudgedOnTwoRuns(i)
        /\ \A i \in Instances \ (disturbed \cup leftovers) : kind[i] = "good" => i \in keep

\* A sweep that came to its end, also one that aborted, leaves no sandbox but
\* those it failed to delete, or of a worker that got no client: its own are gone
\* and so are those of a killed sweep before it (calibrate_instance's finally block).
SandboxesReclaimed ==
    phase \in {"done", "aborted"} /\ Idle => sandboxes \subseteq undeleted \cup {i \in Instances : pc[i] = "raised"}

\* Every sweep comes to an end (main).
SweepEnds == []<>Over

============================================================================
