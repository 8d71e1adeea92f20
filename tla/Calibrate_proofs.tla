--------------------------- MODULE Calibrate_proofs ---------------------------
(* That the keep list is right, that the sandboxes of a sweep are reclaimed, and that the  *)
(* pool is never exceeded: for any instances, pool, retries, faults, kills and reruns.     *)
EXTENDS Calibrate, FiniteSetTheorems, TLAPS

Ended == {"delete", "returned", "recorded"}

\* The types of everything; TypeOK adds the size of the pool.
Shape ==
    /\ kind \in [Instances -> Kinds]
    /\ pc \in [Instances -> Working \cup {"queued", "returned", "recorded", "raised"}]
    /\ sandboxes \subseteq Instances
    /\ report \in [Instances -> Run \cup {Nothing}]
    /\ runs \in [Instances -> Nat]
    /\ attempt \in [Instances -> 0..Retries]
    /\ first \in [Instances -> Run \cup {Nothing}]
    /\ second \in [Instances -> Run \cup {Nothing}]
    /\ reason \in [Instances -> Reasons \cup {Nothing}]
    /\ keep \subseteq Instances
    /\ phase \in {"recording", "aborted", "done", "killed"}
    /\ sweeps \in 1..MaxSweeps /\ faults \in 0..MaxFaults
    /\ disturbed \subseteq Instances /\ died \subseteq Instances
    /\ leftovers \subseteq Instances
    /\ undeleted \subseteq Instances

PoolBounded == Cardinality(Active) <= Concurrency

\* What was read of an instance is what a run of its own suite reported, and only a suite
\* that reports like that of a good instance is judged "ok".
Truthful(i) ==
    /\ report[i] # Nothing => report[i].statuses \in Runs(kind[i])
    /\ pc[i] = "suite2" => first[i].statuses \in Runs(kind[i])
    /\ pc[i] \in Ended /\ reason[i] = "ok" => kind[i] \in {"good", "flaky"}

\* Every report is from a run that this sandbox has ended, so that a second suite that runs to
\* its end is a later run than the first.
Dated(i) ==
    /\ report[i] # Nothing => report[i].run <= runs[i]
    /\ pc[i] = "suite2" => first[i] \in Run /\ first[i].run <= runs[i]
    /\ pc[i] \in Ended /\ reason[i] = "ok" =>
         first[i].statuses = second[i].statuses /\ (i \in died \/ first[i].run < second[i].run)

\* An instance whose name is taken by an earlier sweep's sandbox stops at the conflict.
Stopped(i) ==
    i \in leftovers =>
        /\ pc[i] \notin {"ready", "suite1", "suite2"}
        /\ pc[i] \in {"queued", "create"} => i \in sandboxes
        /\ pc[i] \in Ended => reason[i] # "ok"

\* The list a sweep has written are its instances that were judged "ok".
Listed(i) == phase = "done" /\ i \in keep => pc[i] = "recorded" /\ reason[i] = "ok"

\* Whoever has passed the finally block has no sandbox left, or its delete failed.
Reclaimed(i) ==
    pc[i] \in {"returned", "recorded"} /\ i \in sandboxes => i \in undeleted

\* A good instance that nothing hit finds its name free, is never retried and ends "ok".
Unhindered(i) ==
    /\ pc[i] # "raised" /\ attempt[i] = 0
    /\ pc[i] \in {"queued", "create"} => i \notin sandboxes
    /\ pc[i] \in Ended => reason[i] = "ok"
    /\ phase = "done" => i \in keep

Favoured(i) == kind[i] = "good" /\ i \notin disturbed \cup leftovers

KeptAreRight == \A i \in keep : kind[i] \in {"good", "flaky"}

IInv ==
    /\ Shape
    /\ KeptAreRight
    /\ \A i \in Instances : Truthful(i) /\ Dated(i) /\ Stopped(i) /\ Listed(i) /\ Reclaimed(i)
                          /\ (Favoured(i) => Unhindered(i))

----------------------------------------------------------------------------
\* Every report a suite may write is one of four.
LEMMA RunsAreReports ==
    ASSUME NEW k \in Kinds, NEW statuses \in Runs(k), NEW n \in Nat
    PROVE  [statuses |-> statuses, run |-> n] \in Run
  BY DEF Kinds, Runs, Run

\* Of the suites that end, only those of a good and of a flaky instance report what the
\* row expects before the fix.
LEMMA OnlyGoodAreKept ==
    ASSUME NEW k \in Kinds, NEW map1 \in Runs(k), NEW map2, Judged(map1, map2) = "ok"
    PROVE  k \in {"good", "flaky"}
<1>1. KeysMatch(map1) /\ ~grade_r2e(map1, expected)
  BY DEF Judged
<1>2. k # "slow"
  BY DEF Runs
<1>3. k # "drifted"
  <2> SUFFICES ASSUME k = "drifted" PROVE FALSE
    OBVIOUS
  <2>1. map1 = Restrict(Report({}), Tests \ {"kept"})
    BY DEF Runs
  <2>2. DOMAIN map1 = Tests \ {"kept"}
    BY <2>1 DEF Restrict
  <2>3. "kept" \in DOMAIN expected
    BY DEF expected
  <2> QED BY <1>1, <2>2, <2>3 DEF KeysMatch
<1>4. k # "solved"
  <2> SUFFICES ASSUME k = "solved" PROVE FALSE
    OBVIOUS
  <2>1. map1 = Report({"fix"})
    BY DEF Runs
  <2>2. /\ DOMAIN map1 = Tests
        /\ map1["fixed"] = PASSED /\ map1["kept"] = PASSED
        /\ map1["wontfix"] = FAILED /\ map1["windows"] = SKIPPED
    BY <2>1 DEF Report, Tests
  <2> DEFINE ran == {t \in DOMAIN map1 : map1[t] # SKIPPED}
  <2>3. ran = {"fixed", "kept", "wontfix"}
    BY <2>2 DEF Tests, PASSED, FAILED, SKIPPED
  <2>4. DOMAIN expected = ran
    BY <2>3 DEF expected
  <2>5. \A t \in ran : map1[t] = expected[t]
    BY <2>2, <2>3 DEF expected
  <2>6. DOMAIN Restrict(map1, ran) = ran /\ \A t \in ran : Restrict(map1, ran)[t] = map1[t]
    BY DEF Restrict
  <2> HIDE DEF ran
  <2>7. grade_r2e(map1, expected)
    BY <2>4, <2>5, <2>6 DEF grade_r2e, ran
  <2> QED BY <1>1, <2>7
<1> QED BY <1>2, <1>3, <1>4 DEF Kinds

\* A suite that reports twice what the row expects before the fix is kept.
LEMMA GoodIsKept ==
    Judged(Report({}), Report({})) = "ok"
<1> DEFINE map == Report({})
<1>1. /\ DOMAIN map = Tests
      /\ map["fixed"] = FAILED /\ map["kept"] = PASSED
      /\ map["wontfix"] = FAILED /\ map["windows"] = SKIPPED
  BY DEF Report, Tests
<1> HIDE DEF map
<1> DEFINE ran == {t \in DOMAIN map : map[t] # SKIPPED}
<1>2. ran = {"fixed", "kept", "wontfix"}
  BY <1>1 DEF Tests, PASSED, FAILED, SKIPPED
<1>3. KeysMatch(map)
  BY <1>2 DEF KeysMatch, expected
<1>4. Restrict(map, ran)["fixed"] = FAILED
  BY <1>1, <1>2 DEF Restrict
<1>5. "fixed" \in DOMAIN expected /\ expected["fixed"] = PASSED /\ PASSED # FAILED
  BY DEF expected, PASSED, FAILED
<1>6. ~grade_r2e(map, expected)
  BY <1>4, <1>5 DEF grade_r2e
<1> QED BY <1>3, <1>6 DEF Judged, map

LEMMA JudgedType == \A map1, map2 : Judged(map1, map2) \in Reasons
  BY DEF Judged, Reasons

----------------------------------------------------------------------------
LEMMA InitIInv == Init => IInv
  BY CalibrateAssumption
  DEF Init, All, IInv, Shape, KeptAreRight, Truthful, Dated, Stopped, Listed, Reclaimed, Unhindered, Favoured,
      Ended, Working

\* A step of one worker changes nothing of another instance.
LEMMA OthersUntouched ==
    ASSUME IInv, NEW i \in Instances, NEW j \in Instances \ {i}, Worker(j)
    PROVE  /\ kind' = kind /\ phase' = phase /\ keep' = keep /\ leftovers' = leftovers
           /\ pc'[i] = pc[i] /\ report'[i] = report[i] /\ first'[i] = first[i]
           /\ attempt'[i] = attempt[i] /\ reason'[i] = reason[i]
           /\ second'[i] = second[i] /\ runs'[i] = runs[i]
           /\ i \in died' <=> i \in died
           /\ i \in sandboxes' <=> i \in sandboxes
           /\ i \in undeleted' <=> i \in undeleted
           /\ i \in disturbed' <=> i \in disturbed
<1> USE DEF IInv, Shape, Quiet, FaultAt, Faulted, Goto, End, clusterVars, resultVars, mainVars
<1>1. CASE Start(j) \/ WaitReady(j) \/ SuiteTooSlow(j) \/ Delete(j)
  BY <1>1 DEF Start, WaitReady, SuiteTooSlow, Delete
<1>2. CASE Create(j)
  BY <1>2 DEF Create, NewSandbox
<1>3. CASE RunSuite(j)
  BY <1>3 DEF RunSuite, SuiteEnds, Read
<1>4. CASE ExecBreaks(j) \/ OutputCut(j)
  BY <1>4 DEF ExecBreaks, OutputCut, SuiteEnds
<1>5. CASE PytestDies(j)
  BY <1>5 DEF PytestDies, Read
<1> QED BY <1>1, <1>2, <1>3, <1>4, <1>5 DEF Worker

\* A step of a worker keeps the types.
LEMMA WorkerShape ==
    ASSUME IInv, NEW i \in Instances, Worker(i)
    PROVE  Shape'
<1> USE CalibrateAssumption
    DEF IInv, Shape, Quiet, FaultAt, Faulted, Goto, End, clusterVars, resultVars, mainVars, Working
<1>1. CASE Start(i)
  BY <1>1 DEF Start
<1>2. CASE Create(i)
  BY <1>2 DEF Create, NewSandbox, Reasons
<1>3. CASE WaitReady(i) \/ SuiteTooSlow(i) \/ Delete(i)
  BY <1>3 DEF WaitReady, SuiteTooSlow, Delete, Reasons
<1>4. ASSUME SuiteEnds(i)
      PROVE  /\ report' \in [Instances -> Run \cup {Nothing}] /\ report'[i] \in Run
             /\ runs' \in [Instances -> Nat]
  <2> PICK statuses \in Runs(kind[i]) :
        /\ report' = [report EXCEPT ![i] = [statuses |-> statuses, run |-> runs[i] + 1]]
        /\ runs' = [runs EXCEPT ![i] = @ + 1]
    BY <1>4 DEF SuiteEnds
  <2>1. [statuses |-> statuses, run |-> runs[i] + 1] \in Run
    BY RunsAreReports
  <2> QED BY <2>1
<1>5. ASSUME NEW text \in Run \cup {Nothing}, Read(i, text)
      PROVE  /\ attempt' \in [Instances -> 0..Retries]
             /\ first' \in [Instances -> Run \cup {Nothing}]
             /\ second' \in [Instances -> Run \cup {Nothing}]
             /\ pc' \in [Instances -> Working \cup {"queued", "returned", "recorded", "raised"}]
             /\ reason' \in [Instances -> Reasons \cup {Nothing}]
  BY <1>5, JudgedType DEF Read
<1>6. CASE RunSuite(i)
  BY <1>4, <1>5, <1>6 DEF RunSuite, Reasons
<1>7. CASE ExecBreaks(i)
  BY <1>4, <1>7 DEF ExecBreaks, Reasons
<1>8. CASE PytestDies(i)
  BY <1>5, <1>8 DEF PytestDies, Reasons
<1>9. CASE OutputCut(i)
  BY <1>4, <1>9 DEF OutputCut, Reasons
<1> QED BY <1>1, <1>2, <1>3, <1>6, <1>7, <1>8, <1>9 DEF Worker

\* A step of a worker keeps what is read of its instance true to the instance.
LEMMA WorkerTruthful ==
    ASSUME IInv, NEW i \in Instances, Worker(i)
    PROVE  Truthful(i)'
<1> USE DEF IInv, Shape, Truthful, Quiet, FaultAt, Faulted, Goto, End, clusterVars, resultVars, mainVars,
            Ended
<1>1. CASE Start(i)
  BY <1>1 DEF Start
<1>2. CASE Create(i)
  BY <1>2 DEF Create, NewSandbox
<1>3. CASE WaitReady(i) \/ SuiteTooSlow(i) \/ Delete(i)
  BY <1>3 DEF WaitReady, SuiteTooSlow, Delete
<1>4. ASSUME SuiteEnds(i) PROVE report'[i].statuses \in Runs(kind[i])
  BY <1>4 DEF SuiteEnds
<1>5. ASSUME NEW text, text.statuses \in Runs(kind[i]), Read(i, text),
             pc[i] \in {"suite1", "suite2"}, UNCHANGED kind
      PROVE  /\ pc'[i] = "suite2" => first'[i].statuses \in Runs(kind[i])
             /\ pc'[i] \in Ended /\ reason'[i] = "ok" => kind[i] \in {"good", "flaky"}
  <2>1. CASE pc[i] = "suite1"
    BY <1>5, <2>1 DEF Read
  <2>2. CASE pc[i] = "suite2"
    <3>1. pc'[i] = "delete" /\ reason'[i] = Judged(first[i].statuses, text.statuses)
      BY <1>5, <2>2 DEF Read
    <3>2. first[i].statuses \in Runs(kind[i]) /\ kind[i] \in Kinds
      BY <2>2
    <3> QED BY <3>1, <3>2, OnlyGoodAreKept
  <2> QED BY <1>5, <2>1, <2>2
<1>6. CASE RunSuite(i)
  BY <1>4, <1>5, <1>6 DEF RunSuite
<1>7. CASE ExecBreaks(i)
  BY <1>4, <1>7 DEF ExecBreaks
<1>8. CASE PytestDies(i)
  BY <1>5, <1>8 DEF PytestDies
<1>9. CASE OutputCut(i)
  BY <1>4, <1>9 DEF OutputCut
<1> QED BY <1>1, <1>2, <1>3, <1>6, <1>7, <1>8, <1>9 DEF Worker

\* A step of a worker dates what it reads: what it judges "ok" are two runs of one sandbox.
LEMMA WorkerDated ==
    ASSUME IInv, NEW i \in Instances, Worker(i)
    PROVE  Dated(i)'
<1> USE DEF IInv, Shape, Dated, Quiet, FaultAt, Faulted, Goto, End, clusterVars, resultVars,
            mainVars, Ended
<1>1. CASE Start(i)
  BY <1>1 DEF Start
<1>2. CASE Create(i)
  BY <1>2 DEF Create, NewSandbox
<1>3. CASE WaitReady(i) \/ SuiteTooSlow(i) \/ Delete(i)
  BY <1>3 DEF WaitReady, SuiteTooSlow, Delete
<1>4. ASSUME SuiteEnds(i)
      PROVE  /\ report'[i] \in Run /\ report'[i].run = runs[i] + 1
             /\ runs'[i] = runs[i] + 1 /\ runs[i] \in Nat
  <2> PICK statuses \in Runs(kind[i]) :
        /\ report' = [report EXCEPT ![i] = [statuses |-> statuses, run |-> runs[i] + 1]]
        /\ runs' = [runs EXCEPT ![i] = @ + 1]
    BY <1>4 DEF SuiteEnds
  <2>1. [statuses |-> statuses, run |-> runs[i] + 1] \in Run
    BY RunsAreReports
  <2> QED BY <2>1
<1>5. ASSUME NEW text \in Run, Read(i, text), text.run <= runs'[i], pc[i] \in {"suite1", "suite2"},
             pc[i] = "suite2" => i \in died' \/ first[i].run < text.run
      PROVE  /\ pc'[i] = "suite2" => first'[i] \in Run /\ first'[i].run <= runs'[i]
             /\ pc'[i] \in Ended /\ reason'[i] = "ok" =>
                  /\ first'[i].statuses = second'[i].statuses
                  /\ i \in died' \/ first'[i].run < second'[i].run
  <2>1. CASE pc[i] = "suite1"
    BY <1>5, <2>1 DEF Read
  <2>2. CASE pc[i] = "suite2"
    <3>1. /\ pc'[i] = "delete" /\ reason'[i] = Judged(first[i].statuses, text.statuses)
          /\ first'[i] = first[i] /\ second'[i] = text
      BY <1>5, <2>2 DEF Read
    <3>2. ASSUME reason'[i] = "ok" PROVE first[i].statuses = text.statuses
      BY <3>1, <3>2 DEF Judged
    <3> QED BY <1>5, <2>2, <3>1, <3>2
  <2> QED BY <1>5, <2>1, <2>2
<1>6. CASE RunSuite(i)
  <2>1. pc[i] = "suite2" => first[i].run < report'[i].run
    BY <1>4, <1>6 DEF RunSuite, Run
  <2>2. report'[i].run <= runs'[i] /\ pc[i] \in {"suite1", "suite2"}
    BY <1>4, <1>6 DEF RunSuite
  <2>3. CASE Read(i, report'[i])
    BY <1>4, <1>5, <1>6, <2>1, <2>2, <2>3 DEF RunSuite
  <2>4. CASE End(i, "timeout")
    BY <1>4, <2>2, <2>4
  <2> QED BY <1>6, <2>3, <2>4 DEF RunSuite
<1>7. CASE ExecBreaks(i)
  <2>1. report'[i] # Nothing => report'[i].run <= runs'[i]
    BY <1>4, <1>7 DEF ExecBreaks
  <2>2. pc[i] = "suite2" => first[i] \in Run /\ first[i].run <= runs'[i]
    <3>1. runs'[i] = runs[i] \/ runs'[i] = runs[i] + 1
      BY <1>4, <1>7 DEF ExecBreaks
    <3>2. runs[i] \in Nat /\ (first[i] \in Run => first[i].run \in Nat)
      BY DEF Run
    <3>3. pc[i] = "suite2" => first[i] \in Run /\ first[i].run <= runs[i]
      OBVIOUS
    <3> QED BY <3>1, <3>2, <3>3
  <2>3. pc'[i] = pc[i] \/ reason'[i] = "sandbox-error"
    BY <1>7 DEF ExecBreaks
  <2>4. first'[i] = first[i] /\ pc[i] \notin Ended /\ (pc'[i] = pc[i] \/ pc'[i] = "delete")
    BY <1>7 DEF ExecBreaks
  <2> QED BY <2>1, <2>2, <2>3, <2>4
<1>8. CASE PytestDies(i)
  <2>1. CASE report[i] = Nothing
    BY <1>8, <2>1 DEF PytestDies
  <2>2. CASE report[i] # Nothing
    <3>1. report[i] \in Run /\ report[i].run <= runs'[i] /\ i \in died' /\ Read(i, report[i])
      BY <1>8, <2>2 DEF PytestDies
    <3> QED BY <1>5, <1>8, <3>1 DEF PytestDies
  <2> QED BY <2>1, <2>2
<1>9. CASE OutputCut(i)
  BY <1>4, <1>9 DEF OutputCut
<1> QED BY <1>1, <1>2, <1>3, <1>6, <1>7, <1>8, <1>9 DEF Worker

\* A worker that finds its name taken ends its instance.
LEMMA WorkerStops ==
    ASSUME IInv, NEW i \in Instances, Worker(i)
    PROVE  Stopped(i)' /\ Listed(i)'
<1> USE DEF IInv, Shape, Stopped, Listed, FaultAt, Faulted, Goto, End, Ended, Quiet, clusterVars, resultVars,
            mainVars
<1>1. leftovers' = leftovers /\ phase' = phase /\ phase # "done"
  BY DEF Worker, Start, Create, WaitReady, RunSuite, SuiteTooSlow, ExecBreaks, PytestDies,
         OutputCut, Delete, Alive
<1>2. CASE i \notin leftovers
  BY <1>1, <1>2
<1>3. CASE i \in leftovers
  <2>1. CASE Start(i) \/ Delete(i)
    BY <1>1, <1>3, <2>1 DEF Start, Delete
  <2>2. CASE Create(i)
    BY <1>1, <1>3, <2>2 DEF Create
  <2>3. ~WaitReady(i) /\ ~RunSuite(i) /\ ~SuiteTooSlow(i) /\ ~ExecBreaks(i) /\ ~PytestDies(i)
        /\ ~OutputCut(i)
    BY <1>3 DEF WaitReady, RunSuite, SuiteTooSlow, ExecBreaks, PytestDies, OutputCut
  <2> QED BY <2>1, <2>2, <2>3 DEF Worker
<1> QED BY <1>2, <1>3

\* A worker leaves its sandbox only through the finally block.
LEMMA WorkerReclaims ==
    ASSUME IInv, NEW i \in Instances, Worker(i)
    PROVE  Reclaimed(i)'
<1> USE DEF IInv, Shape, Reclaimed, FaultAt, Faulted, Goto, End, Quiet
<1>1. CASE Delete(i)
  BY <1>1 DEF Delete
<1>2. CASE Read(i, report[i]) \/ Read(i, report'[i])
  BY <1>2 DEF Read
<1>3. CASE ~Delete(i) /\ ~(Read(i, report[i]) \/ Read(i, report'[i]))
  BY <1>3 DEF Worker, Start, Create, WaitReady, RunSuite, SuiteTooSlow, ExecBreaks, PytestDies,
              OutputCut
<1> QED BY <1>1, <1>2, <1>3

\* Without a fault, the worker of a good instance goes from its free name to "ok".
LEMMA WorkerUnhindered ==
    ASSUME IInv, NEW i \in Instances, Worker(i), Favoured(i)'
    PROVE  Unhindered(i)'
<1> USE DEF IInv, Shape, Favoured, Unhindered, FaultAt, Faulted, Goto, End, Ended,
            clusterVars, resultVars, mainVars
<1>1. kind' = kind /\ phase' = phase /\ keep' = keep /\ leftovers' = leftovers /\ Alive
  BY DEF Worker, Start, Create, WaitReady, RunSuite, SuiteTooSlow, ExecBreaks, PytestDies,
         OutputCut, Delete
<1>2. ~FaultAt(i)
  OBVIOUS
<1>3. Quiet
  BY <1>2 DEF Worker, Start, Create, WaitReady, RunSuite, SuiteTooSlow, ExecBreaks, PytestDies,
              OutputCut, Delete
<1>4. Favoured(i) /\ Unhindered(i) /\ phase # "done"
  BY <1>1, <1>3 DEF Quiet, Alive
<1>5. Runs(kind[i]) = {Report({})}
  BY <1>4 DEF Runs
<1>6. CASE Start(i) \/ WaitReady(i) \/ Delete(i)
  BY <1>1, <1>2, <1>4, <1>6 DEF Start, WaitReady, Delete
<1>7. CASE Create(i)
  BY <1>1, <1>2, <1>4, <1>7 DEF Create, NewSandbox
<1>8. CASE RunSuite(i)
  <2>1. report'[i].statuses = Report({}) /\ Read(i, report'[i])
    BY <1>4, <1>5, <1>8 DEF RunSuite, SuiteEnds
  <2>2. CASE pc[i] = "suite1"
    BY <1>1, <1>4, <2>1, <2>2 DEF Read
  <2>3. CASE pc[i] = "suite2"
    <3>1. first[i].statuses = Report({})
      BY <1>5, <2>3 DEF Truthful
    <3>2. pc'[i] = "delete" /\ reason'[i] = Judged(Report({}), Report({})) /\ attempt'[i] = 0
      BY <2>1, <2>3, <3>1 DEF Read
    <3> QED BY <1>1, <1>4, <3>2, GoodIsKept
  <2> QED BY <1>8, <2>2, <2>3 DEF RunSuite
<1>9. ~SuiteTooSlow(i) /\ ~ExecBreaks(i) /\ ~PytestDies(i) /\ ~OutputCut(i)
  BY <1>2, <1>5 DEF SuiteTooSlow, ExecBreaks, PytestDies, OutputCut
<1> QED BY <1>6, <1>7, <1>8, <1>9 DEF Worker

\* IInv is kept by the workers and by the main thread, the kill and the rerun.
LEMMA StepIInv == IInv /\ [Next]_vars => IInv'
<1> SUFFICES ASSUME IInv, [Next]_vars PROVE IInv'
  OBVIOUS
<1>1. ASSUME NEW j \in Instances, Worker(j) PROVE IInv'
  <2>1. Shape'
    BY <1>1, WorkerShape
  <2>2. ASSUME NEW i \in Instances
        PROVE  /\ Truthful(i)' /\ Dated(i)' /\ Stopped(i)' /\ Listed(i)' /\ Reclaimed(i)'
               /\ (Favoured(i)' => Unhindered(i)')
    <3>1. CASE i = j
      BY <1>1, <3>1, WorkerTruthful, WorkerDated, WorkerStops, WorkerReclaims,
         WorkerUnhindered
    <3>2. CASE i # j
      <4>1. j \in Instances \ {i}
        BY <3>2
      <4> QED BY <1>1, <4>1, OthersUntouched
              DEF IInv, Truthful, Dated, Stopped, Listed, Reclaimed, Favoured, Unhindered
    <3> QED BY <3>1, <3>2
  <2>3. KeptAreRight'
    BY <1>1 DEF IInv, KeptAreRight, Worker, Start, Create, WaitReady, RunSuite, SuiteTooSlow,
                ExecBreaks, PytestDies, OutputCut, Delete, mainVars
  <2> QED BY <2>1, <2>2, <2>3 DEF IInv
<1> USE DEF IInv, Shape, KeptAreRight, Truthful, Dated, Stopped, Listed, Reclaimed, Favoured,
            Unhindered, Ended, Working, clusterVars, resultVars, mainVars
<1>2. ASSUME NEW j \in Instances, Record(j) PROVE IInv'
  BY <1>2 DEF Record, Goto
<1>3. CASE WriteKeepList
  BY <1>3 DEF WriteKeepList
<1>4. CASE Killed
  BY <1>4, CalibrateAssumption DEF Killed, Alive
<1>5. CASE Rerun
  BY <1>5, CalibrateAssumption DEF Rerun, All
<1>6. CASE UNCHANGED vars
  BY <1>6 DEF vars
<1> QED BY <1>1, <1>2, <1>3, <1>4, <1>5, <1>6 DEF Next

\* After any kills and reruns the keep list holds no instance that drifted, is solved or is too
\* slow.  What a sweep writes was judged on two agreeing reports, from two runs of the suite in a
\* sandbox of its own unless pytest died, so a flaky instance is on it only if it passed
\* as deterministic; and no good instance that nothing hit is missing.
THEOREM KeepListStaysRight == Spec => []KeepListIsRight
<1>1. IInv => KeepListIsRight
  <2> SUFFICES ASSUME IInv PROVE KeepListIsRight
    OBVIOUS
  <2>1. ASSUME phase = "done", NEW i \in keep PROVE JudgedOnTwoRuns(i)
    BY <2>1 DEF IInv, Shape, Dated, Stopped, Listed, Ended, JudgedOnTwoRuns
  <2> QED BY <2>1 DEF IInv, Shape, KeptAreRight, Favoured, Unhindered, KeepListIsRight
<1> QED BY <1>1, InitIInv, StepIInv, PTL DEF Spec

\* A sweep that is over leaves only the sandboxes whose delete failed, and those whose
\* worker got no client.
THEOREM SandboxesAreReclaimed == Spec => []SandboxesReclaimed
<1>1. IInv => SandboxesReclaimed
  BY DEF IInv, Shape, Reclaimed, SandboxesReclaimed, Idle
<1> QED BY <1>1, InitIInv, StepIInv, PTL DEF Spec

----------------------------------------------------------------------------
\* Only Start makes an instance active, and only while a worker is free.
LEMMA StepPool == IInv /\ PoolBounded /\ [Next]_vars => PoolBounded'
<1> SUFFICES ASSUME IInv, PoolBounded, [Next]_vars PROVE PoolBounded'
  OBVIOUS
<1> USE DEF IInv, Shape
<1>1. Active \subseteq Instances /\ IsFiniteSet(Instances) /\ IsFiniteSet(Active)
  BY CalibrateAssumption, FS_Subset DEF Active
<1>2. CASE Active' \subseteq Active
  BY <1>1, <1>2, FS_Subset, FS_CardinalityType, CalibrateAssumption DEF PoolBounded
<1>3. ASSUME NEW i \in Instances, Start(i), ~(Active' \subseteq Active) PROVE PoolBounded'
  <2>1. Active' = Active \cup {i} /\ i \notin Active /\ Cardinality(Active) < Concurrency
    BY <1>3 DEF Start, Goto, Active, Working
  <2>2. Cardinality(Active') = Cardinality(Active) + 1 /\ Cardinality(Active) \in Nat
    BY <1>1, <2>1, FS_AddElement, FS_CardinalityType
  <2>3. Cardinality(Active') <= Concurrency
    BY <2>1, <2>2, CalibrateAssumption
  <2> QED BY <2>3 DEF PoolBounded
<1>4. ASSUME NEW i \in Instances, Worker(i), ~Start(i) PROVE Active' \subseteq Active
  <2>1. pc[i] \in Working
    BY <1>4 DEF Worker, Create, WaitReady, RunSuite, SuiteTooSlow, ExecBreaks, PytestDies,
                OutputCut, Delete, Working
  <2>2. \A j \in Instances \ {i} : pc'[j] = pc[j]
    BY <1>4, OthersUntouched
  <2> QED BY <2>1, <2>2 DEF Active
<1>5. ASSUME NEW i \in Instances, Record(i) PROVE Active' \subseteq Active
  BY <1>5 DEF Record, Goto, Active, Working
<1>6. ASSUME WriteKeepList \/ Killed \/ Rerun \/ UNCHANGED vars PROVE Active' \subseteq Active
  BY <1>6 DEF WriteKeepList, Killed, Rerun, All, vars, Active, Working
<1> QED BY <1>2, <1>3, <1>4, <1>5, <1>6 DEF Next

\* The types, and never more workers at once than the pool has.
THEOREM TypesAndPool == Spec => []TypeOK
<1>1. Init => PoolBounded
  <2> SUFFICES ASSUME Init PROVE PoolBounded
    OBVIOUS
  <2>1. Active = {}
    BY DEF Init, All, Active, Working
  <2> QED BY <2>1, FS_EmptySet, CalibrateAssumption DEF PoolBounded
<1>2. IInv /\ PoolBounded => TypeOK
  BY DEF IInv, Shape, PoolBounded, TypeOK
<1> QED BY <1>1, <1>2, InitIInv, StepIInv, StepPool, PTL DEF Spec
============================================================================
