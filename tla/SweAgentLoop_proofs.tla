-------------------------- MODULE SweAgentLoop_proofs --------------------------
(***************************************************************************)
(* The invariants of a trajectory, for any number of turns, any budget and *)
(* lengths, any number of retries and any faults: the token lists stay     *)
(* aligned, the sandboxes are deleted, a reward is deserved, and where     *)
(* nothing goes wrong what deserves a reward gets it.                      *)
(***************************************************************************)
EXTENDS SweAgentLoop, SequenceTheorems, TLAPS

Tags == {"llm", "obs", "pad"}

TokenTypes ==
    /\ response \in Seq(Tags) /\ logprobs \in Seq(Tags) /\ mask \in Seq({0, 1})
    /\ hasLogprobs \in BOOLEAN

\* Grading is a part of the submitted trajectory: no grading step can follow its end.
GradingInside == grade # "idle" => pc = "grade"

\* TokensAligned is inductive with the types and with what a grading step may do to pc.
IInv == TokenTypes /\ TokensAligned /\ GradingInside

\* The mask of a token list: 1 for the generated tokens and for no other.
Masked(s, m) ==
    /\ s \in Seq(Tags) /\ m \in Seq({0, 1}) /\ Len(s) = Len(m)
    /\ \A i \in 1..Len(m) : m[i] = 1 <=> s[i] = "llm"

\* Tokens that are appended with their own mask leave mask and response aligned.
LEMMA Appended ==
    ASSUME NEW s, NEW m, Masked(s, m), NEW more, NEW bits, Masked(more, bits)
    PROVE  Masked(s \o more, m \o bits) /\ Len(m \o bits) = Len(m) + Len(bits)
  <1> USE DEF Masked
  <1>1. s \o more \in Seq(Tags) /\ Len(s \o more) = Len(s) + Len(more)
    BY ConcatProperties
  <1>2. m \o bits \in Seq({0, 1}) /\ Len(m \o bits) = Len(m) + Len(bits)
    BY ConcatProperties
  <1>3. Len(m) \in Nat /\ Len(bits) \in Nat /\ Len(s) = Len(m) /\ Len(more) = Len(bits)
    BY LenProperties
  <1>4. ASSUME NEW i \in 1..(Len(m) + Len(bits))
        PROVE  (m \o bits)[i] = 1 <=> (s \o more)[i] = "llm"
    <2>1. CASE i <= Len(m)
      <3>1. (m \o bits)[i] = m[i] /\ (s \o more)[i] = s[i]
        BY <2>1, <1>3
      <3>2. i \in 1..Len(m)
        BY <2>1, <1>3
      <3> QED
        BY <3>1, <3>2
    <2>2. CASE i > Len(m)
      <3>1. i - Len(m) \in 1..Len(bits)
        BY <2>2, <1>3
      <3>2. (m \o bits)[i] = bits[i - Len(m)] /\ (s \o more)[i] = more[i - Len(m)]
        BY <2>2, <1>3
      <3> QED
        BY <3>1, <3>2
    <2> QED
      BY <2>1, <2>2, <1>3
  <1> QED
    BY <1>1, <1>2, <1>3, <1>4

\* Extend keeps the three lists aligned as long as the tokens fit.
LEMMA ExtendKeeps ==
    ASSUME IInv, ResponseLength \in Nat,
           NEW tag \in {"llm", "obs"}, NEW n \in Nat, NEW given \in BOOLEAN,
           Extend(tag, n, given), Len(mask) + n <= ResponseLength,
           pc' # "done", grade' = grade, pc' = "grade" \/ grade = "idle"
    PROVE  IInv'
  <1> DEFINE more == [i \in 1..n |-> tag]
             bits == [i \in 1..n |-> IF tag = "llm" THEN 1 ELSE 0]
  <1>1. response' = response \o more /\ mask' = mask \o bits
    BY DEF Extend
  <1>2. /\ response' \in Seq(Tags) /\ mask' \in Seq({0, 1})
        /\ Len(mask') = Len(mask) + n /\ Len(response') = Len(mask) + n
        /\ \A i \in DOMAIN mask' : mask'[i] = 1 <=> response'[i] = "llm"
    <2>1. Masked(response, mask)
      BY DEF IInv, TokenTypes, TokensAligned, Masked
    <2>2. Masked(more, bits) /\ Len(bits) = n
      BY DEF Tags, Masked
    <2> HIDE DEF more, bits
    <2>3. Masked(response \o more, mask \o bits)
          /\ Len(mask \o bits) = Len(mask) + Len(bits)
      BY <2>1, <2>2, Appended
    <2> QED
      BY <1>1, <2>2, <2>3 DEF Masked
  <1>3. hasLogprobs' \in BOOLEAN /\ (hasLogprobs' => hasLogprobs)
    BY DEF Extend, IInv, TokenTypes
  <1>4. hasLogprobs' => logprobs' = response'
    BY <1>3 DEF Extend, IInv, TokensAligned
  <1>5. logprobs' \in Seq(Tags)
    <2>1. CASE hasLogprobs'
      BY <2>1, <1>4, <1>2
    <2>2. CASE ~hasLogprobs'
      BY <2>2 DEF Extend, IInv, TokenTypes
    <2> QED
      BY <2>1, <2>2
  <1> QED
    BY <1>2, <1>3, <1>4, <1>5 DEF IInv, TokenTypes, TokensAligned, GradingInside

\* A step that leaves the lists alone and neither returns nor grades what has ended.
LEMMA OtherSteps ==
    ASSUME IInv, UNCHANGED tokens, pc' = "done" => pc = "done", GradingInside'
    PROVE  IInv'
  BY DEF IInv, TokenTypes, TokensAligned, tokens

LEMMA InitAligned == Init => IInv
  BY LoopAssumption DEF Init, IInv, TokenTypes, TokensAligned, GradingInside, Tags

LEMMA GenerateAligned == IInv /\ Generate => IInv'
  <1> SUFFICES ASSUME IInv, Generate PROVE IInv'
    OBVIOUS
  <1>1. PICK length \in GenLens, given \in BOOLEAN :
          LET budget == ResponseLength - Len(mask)
              n == IF length <= budget THEN length ELSE budget IN
          /\ Extend("llm", n, given)
          /\ pc' \in {"finally", "decode"}
    BY DEF Generate, LeaveLoop
  <1> DEFINE budget == ResponseLength - Len(mask)
             n == IF length <= budget THEN length ELSE budget
  <1>2. Len(mask) \in Nat /\ Len(mask) <= ResponseLength
    BY DEF IInv, TokenTypes, TokensAligned
  <1>3. n \in Nat /\ Len(mask) + n <= ResponseLength
    BY <1>2, LoopAssumption
  <1>4. grade' = grade /\ grade = "idle"
    BY DEF Generate, outside, grading, IInv, GradingInside
  <1> HIDE DEF n
  <1>5. Extend("llm", n, given)
    BY <1>1 DEF n
  <1> QED
    BY <1>1, <1>3, <1>4, <1>5, LoopAssumption, ExtendKeeps

LEMMA ObserveAligned == IInv /\ Observe => IInv'
  <1> SUFFICES ASSUME IInv, Observe PROVE IInv'
    OBVIOUS
  <1>1. grade' = grade /\ grade = "idle"
    BY DEF Observe, outside, grading, IInv, GradingInside
  <1>2. PICK n \in ObsLens :
          IF Len(mask) + n >= ResponseLength
          THEN UNCHANGED tokens /\ pc' = "finally"
          ELSE Extend("obs", n, TRUE) /\ pc' \in {"generate", "finally"}
    BY DEF Observe, LeaveLoop
  <1>3. Len(mask) \in Nat /\ n \in Nat
    BY LoopAssumption DEF IInv, TokenTypes
  <1>4. CASE Len(mask) + n >= ResponseLength
    BY <1>1, <1>2, <1>4, OtherSteps DEF GradingInside
  <1>5. CASE ~(Len(mask) + n >= ResponseLength)
    <2>1. Extend("obs", n, TRUE) /\ pc' \in {"generate", "finally"}
      BY <1>2, <1>5
    <2>2. Len(mask) + n <= ResponseLength
      BY <1>3, <1>5, LoopAssumption
    <2> QED
      BY <2>1, <2>2, <1>1, <1>3, LoopAssumption, ExtendKeeps
  <1> QED
    BY <1>4, <1>5

LEMMA ReturnAligned == IInv /\ Return => IInv'
  <1> SUFFICES ASSUME IInv, Return PROVE IInv'
    OBVIOUS
  <1>1. GradingInside'
    BY DEF Return, grading, IInv, GradingInside
  <1>2. CASE response = << >>
    <2>1. /\ response' = <<"pad">> /\ mask' = <<0>> /\ logprobs' = <<"pad">>
          /\ hasLogprobs' = hasLogprobs
      BY <1>2 DEF Return
    <2>2. Len(mask') = 1 /\ Len(response') = 1 /\ DOMAIN mask' = {1}
      BY <2>1
    <2> QED
      BY <2>1, <2>2, <1>1, LoopAssumption DEF IInv, TokenTypes, TokensAligned, Tags
  <1>3. CASE response # << >>
    BY <1>1, <1>3 DEF Return, IInv, TokenTypes, TokensAligned, tokens
  <1> QED
    BY <1>2, <1>3

\* Every other step leaves the lists alone.
LEMMA OthersAligned ==
    ASSUME IInv,
           \/ Boot \/ Decode \/ AwaitBoot \/ RunCommand \/ InfraRaises
           \/ Diff \/ GradeCreate \/ GradeWait \/ WriteChunk \/ UseFile \/ GradeDelete
           \/ Finally \/ (\E s \in Sandboxes : PodRuns(s) \/ PodEnds(s)) \/ LateBaseline
    PROVE  IInv'
  <1> USE DEF IInv, GradingInside
  <1>1. CASE Boot
    BY <1>1, OtherSteps DEF Boot, BootCreate, BootWait, Baseline, coroutine, loop, grading, outside
  <1>2. CASE Decode \/ AwaitBoot \/ InfraRaises \/ Finally
    BY <1>2, OtherSteps DEF Decode, AwaitBoot, InfraRaises, Finally, Rescue, loop, outside, grading
  <1>3. CASE RunCommand
    BY <1>3, OtherSteps DEF RunCommand, Exec, Rescue, loop, grading, result
  <1>4. CASE Diff
    BY <1>4, OtherSteps DEF Diff, BeginGrading, Exec, Rescue, End, loop, result
  <1>5. CASE GradeCreate
    BY <1>5, OtherSteps DEF GradeCreate, Create, GradingError, Verdict, Rescue, loop
  <1>6. CASE GradeWait
    BY <1>6, OtherSteps DEF GradeWait, WaitReady, GradingError, Verdict, loop
  <1>7. CASE WriteChunk
    BY <1>7, OtherSteps DEF WriteChunk, Exec, GradingError, Verdict, loop
  <1>8. CASE UseFile
    BY <1>8, OtherSteps DEF UseFile, loop
  <1>9. CASE GradeDelete
    BY <1>9, OtherSteps DEF GradeDelete, loop
  <1>10. CASE \E s \in Sandboxes : PodRuns(s) \/ PodEnds(s)
    BY <1>10, OtherSteps DEF PodRuns, PodEnds, coroutine, loop, grading
  <1>11. CASE LateBaseline
    BY <1>11, OtherSteps DEF LateBaseline, coroutine, loop, grading
  <1> QED
    BY <1>1, <1>2, <1>3, <1>4, <1>5, <1>6, <1>7, <1>8, <1>9, <1>10, <1>11

LEMMA StepAligned == IInv /\ [Next]_vars => IInv'
  <1> SUFFICES ASSUME IInv, [Next]_vars PROVE IInv'
    OBVIOUS
  <1>1. CASE UNCHANGED vars
    BY <1>1, OtherSteps DEF vars, loop, outside, grading, IInv, GradingInside
  <1>2. CASE Next
    BY <1>2, GenerateAligned, ObserveAligned, ReturnAligned, OthersAligned DEF Next, Run
  <1> QED
    BY <1>1, <1>2

\* Whatever raises, and wherever the trajectory is cut, the ids, the mask and the
\* log-probabilities that are returned have one length within the budget, only generated
\* tokens count, and there is at least one token.
THEOREM Aligned == Spec => []TokensAligned
  <1>1. IInv => TokensAligned
    BY DEF IInv
  <1> QED
    BY InitAligned, StepAligned, <1>1, PTL DEF Spec

----------------------------------------------------------------------------
\* A sandbox is deleted by the code that is still to come: the grading sandbox by the end of
\* the grading, the rollout sandbox by the last step, which only comes when the boot is over.
RInv ==
    /\ cr \in [Sandboxes -> {"absent", "exists", "deleted"}]
    /\ GradingInside
    /\ client => boot = "ready"
    /\ pc \in {"delete", "done"} => boot \in {"ready", "failed"}
    /\ cr["grade"] = "exists" =>
          "grade" \in undeleted \/ grade \in {"wait", "write", "use", "delete"}
    /\ pc = "done" => (cr["swe"] = "exists" => "swe" \in undeleted)

LEMMA InitReclaims == Init => RInv
  BY DEF Init, RInv, GradingInside, Sandboxes

\* The boot is over when the coroutine returns, so its steps come before.
LEMMA BootReclaims == RInv /\ Boot => RInv'
  <1> SUFFICES ASSUME RInv, Boot PROVE RInv'
    OBVIOUS
  <1> USE DEF RInv, GradingInside, Sandboxes, coroutine, loop, grading
  <1>1. CASE BootCreate
    <2>1. pc \notin {"delete", "done"} /\ ~client
      BY <1>1 DEF BootCreate
    <2>2. boot' \in {"wait", "failed"} /\ UNCHANGED <<pc, client, grade, undeleted>>
      BY <1>1 DEF BootCreate, Create
    <2>3. cr' \in [Sandboxes -> {"absent", "exists", "deleted"}] /\ cr'["grade"] = cr["grade"]
      BY <1>1 DEF BootCreate, Create
    <2> QED
      BY <2>1, <2>2, <2>3
  <1>2. CASE BootWait
    BY <1>2 DEF BootWait, WaitReady, cluster
  <1>3. CASE Baseline
    BY <1>3 DEF Baseline, Exec, cluster
  <1> QED
    BY <1>1, <1>2, <1>3 DEF Boot

\* The grading sandbox is created, deleted, or left as it is.
LEMMA GradingReclaims ==
    ASSUME RInv, GradeCreate \/ GradeWait \/ WriteChunk \/ UseFile \/ GradeDelete
    PROVE  RInv'
  <1> USE DEF RInv, GradingInside, Sandboxes, loop
  <1>1. CASE GradeCreate
    <2>1. UNCHANGED <<client, boot, undeleted>> /\ pc' \in {"grade", "finally"}
      BY <1>1 DEF GradeCreate, Rescue
    <2>2. \/ /\ cr' = cr \/ cr' = [cr EXCEPT !["grade"] = "exists"]
             /\ grade' \in {"wait", "delete"} /\ pc' = pc
          \/ cr' = cr /\ grade' = "idle"
      BY <1>1 DEF GradeCreate, Create, GradingError, Verdict
    <2> QED
      BY <1>1, <2>1, <2>2 DEF GradeCreate
  <1>2. CASE GradeWait
    BY <1>2 DEF GradeWait, WaitReady, GradingError, Verdict, cluster
  <1>3. CASE WriteChunk
    <2>1. UNCHANGED <<pc, client, boot, cr, undeleted>> /\ grade = "write"
      BY <1>3 DEF WriteChunk, cluster
    <2>2. grade' \in {"write", "use", "delete"}
      BY <1>3 DEF WriteChunk, Exec, GradingError, Verdict
    <2> QED
      BY <2>1, <2>2
  <1>4. CASE UseFile
    <2>1. UNCHANGED <<pc, client, boot, cr, undeleted>> /\ grade = "use"
      BY <1>4 DEF UseFile, cluster
    <2>2. grade' \in {"write", "use", "delete"}
      BY <1>4 DEF UseFile, Exec, GradingError, Onwards, Turn, Verdict
    <2> QED
      BY <2>1, <2>2
  <1>5. CASE GradeDelete
    <2>1. UNCHANGED <<client, boot>> /\ grade' = "idle" /\ pc' = "finally"
      BY <1>5 DEF GradeDelete
    <2>2. \/ /\ cr' = [cr EXCEPT !["grade"] = IF @ = "exists" THEN "deleted" ELSE @]
             /\ undeleted' = undeleted
          \/ cr' = cr /\ undeleted' = undeleted \cup {"grade"}
      BY <1>5 DEF GradeDelete, Delete
    <2> QED
      BY <2>1, <2>2
  <1> QED
    BY <1>1, <1>2, <1>3, <1>4, <1>5

\* The steps of the coroutine outside the grading.
LEMMA CoroutineReclaims ==
    ASSUME RInv,
           \/ Generate \/ Decode \/ AwaitBoot \/ RunCommand \/ Observe \/ InfraRaises
           \/ Diff \/ Finally \/ Return
    PROVE  RInv'
  <1> USE DEF RInv, GradingInside, Sandboxes, loop, grading, outside, cluster
  <1>1. CASE Generate \/ Observe
    <2>1. UNCHANGED <<client, boot, grade, cr, undeleted>> /\ pc \in {"generate", "observe"}
      BY <1>1 DEF Generate, Observe
    <2>2. pc' \in {"finally", "decode", "generate"}
      <3>1. CASE Generate
        BY <3>1 DEF Generate, LeaveLoop
      <3>2. CASE Observe
        BY <3>2 DEF Observe, LeaveLoop
      <3> QED
        BY <1>1, <3>1, <3>2
    <2> QED
      BY <2>1, <2>2
  <1>2. CASE Decode \/ AwaitBoot \/ InfraRaises
    BY <1>2 DEF Decode, AwaitBoot, Booted, InfraRaises, Rescue
  <1>3. CASE RunCommand
    BY <1>3 DEF RunCommand, Exec, Rescue
  <1>4. CASE Diff
    <2>1. UNCHANGED <<client, boot, cr, undeleted>> /\ pc = "submit"
      BY <1>4 DEF Diff
    <2>2. \/ pc' \in {"submit", "finally"} /\ grade' = grade
          \/ pc' = "grade" /\ grade' = "create"
      BY <1>4 DEF Diff, BeginGrading, Exec, End, Rescue
    <2> QED
      BY <2>1, <2>2
  <1>5. CASE Finally
    BY <1>5 DEF Finally, BootOver
  <1>6. CASE Return
    <2>1. UNCHANGED <<client, boot, grade>> /\ pc = "delete" /\ pc' = "done"
      BY <1>6 DEF Return
    <2>2. \/ /\ cr' = [cr EXCEPT !["swe"] = IF @ = "exists" THEN "deleted" ELSE @]
             /\ undeleted' = undeleted
          \/ cr' = cr /\ undeleted' = undeleted \cup {"swe"}
      BY <1>6 DEF Return, Delete
    <2> QED
      BY <2>1, <2>2
  <1> QED
    BY <1>1, <1>2, <1>3, <1>4, <1>5, <1>6

LEMMA StepReclaims == RInv /\ [Next]_vars => RInv'
  <1> SUFFICES ASSUME RInv, [Next]_vars PROVE RInv'
    OBVIOUS
  <1> USE DEF RInv, GradingInside, coroutine, loop, grading, cluster
  <1>1. CASE UNCHANGED vars
    BY <1>1 DEF vars, outside
  <1>2. CASE \E s \in Sandboxes : PodRuns(s) \/ PodEnds(s)
    BY <1>2 DEF PodRuns, PodEnds
  <1>3. CASE LateBaseline
    BY <1>3 DEF LateBaseline
  <1>4. CASE Boot \/ Run
    <2> HIDE DEF RInv
    <2> QED
      BY <1>4, BootReclaims, GradingReclaims, CoroutineReclaims DEF Run
  <1> QED
    BY <1>1, <1>2, <1>3, <1>4 DEF Next

\* "Delete both sandboxes": whatever raises, also in the boot and in the grading, the
\* trajectory leaves a sandbox behind only when the delete itself failed.
THEOREM Reclaimed == Spec => []SandboxesReclaimed
  <1>1. RInv => SandboxesReclaimed
    BY DEF RInv, SandboxesReclaimed, GradingInside, Sandboxes
  <1> QED
    BY InitReclaims, StepReclaims, <1>1, PTL DEF Spec

----------------------------------------------------------------------------
Uses == {"agent.patch", "test.patch", "r2e", "f2p", "p2p"}

\* What the graded tree must hold for the row's tests to have been passed.
Deserved ==
    /\ "fix" \in tree["grade"]
    /\ "breaks" \in tree["grade"] => row.noP2p

\* The graded tree is made of the submitted diff without its tests, which is the agent's, and
\* of the row's tests; it has the fix once pass_to_pass is run; and when a reward was given
\* no step can change it any more.
SInv ==
    /\ row.kind \in {"r2e", "swebench"} /\ use \in Uses
    /\ tree \in [Sandboxes -> SUBSET Edits]
    /\ GradingInside
    /\ pc \in {"submit", "grade"} => submitted
    /\ patch \subseteq tree["swe"] \ TestPaths
    /\ tree["grade"] \subseteq (tree["swe"] \cup Image \cup {"testPatch"}) \ {"conftest"}
    /\ use = "p2p" => "fix" \in tree["grade"]
    /\ reward = 1 => /\ submitted /\ Deserved
                     /\ grade = "delete" \/ pc \in {"finally", "delete", "done"}

\* Tests that pass on a tree without the agent's conftest.
LEMMA WhatPassingShows ==
    ASSUME NEW t, "conftest" \notin t
    PROVE  /\ AllPass(t, fail_to_pass) => "fix" \in t
           /\ AllPass(t, pass_to_pass) => "breaks" \notin t
           /\ grade_r2e(Report(t), expected) => "fix" \in t /\ "breaks" \notin t
  <1>1. /\ DOMAIN Report(t) = Tests
        /\ Report(t)["fixed"] = IF "fix" \in t THEN PASSED ELSE FAILED
        /\ Report(t)["kept"] = IF "breaks" \in t THEN FAILED ELSE PASSED
    BY DEF Report, Tests
  <1>2. PASSED # FAILED /\ PASSED # SKIPPED /\ FAILED # SKIPPED
    BY DEF PASSED, FAILED, SKIPPED
  <1>3. AllPass(t, fail_to_pass) => "fix" \in t
    BY <1>1, <1>2 DEF AllPass, fail_to_pass
  <1>4. AllPass(t, pass_to_pass) => "breaks" \notin t
    BY <1>1, <1>2 DEF AllPass, pass_to_pass
  <1>5. ASSUME grade_r2e(Report(t), expected) PROVE "fix" \in t /\ "breaks" \notin t
    <2> DEFINE report == Report(t)
               ran == {x \in DOMAIN report : report[x] # SKIPPED}
    <2> HIDE DEF report
    <2>1. \A x \in DOMAIN expected : Restrict(report, ran)[x] = expected[x]
      BY <1>5 DEF grade_r2e, report
    <2>2. "fixed" \in ran /\ "kept" \in ran
      BY <1>1, <1>2 DEF report, Tests
    <2>3. Restrict(report, ran)["fixed"] = report["fixed"]
          /\ Restrict(report, ran)["kept"] = report["kept"]
      BY <2>2 DEF Restrict
    <2>4. /\ "fixed" \in DOMAIN expected /\ expected["fixed"] = PASSED
          /\ "kept" \in DOMAIN expected /\ expected["kept"] = PASSED
      BY DEF expected
    <2> QED
      BY <1>1, <1>2, <2>1, <2>3, <2>4 DEF report
  <1> QED
    BY <1>3, <1>4, <1>5

LEMMA InitSound == Init => SInv
  BY DEF Init, SInv, Uses, Sandboxes, Edits, Image, GradingInside

\* Every step but a use of a file leaves the graded tree alone and gives no reward.
LEMMA KeepsReward ==
    ASSUME SInv, UNCHANGED <<row, tree, use, patch>>, reward' \in {0, reward}, submitted => submitted',
           GradingInside', pc' \in {"submit", "grade"} => submitted',
           reward' = 1 => grade' = "delete" \/ pc' \in {"finally", "delete", "done"}
    PROVE  SInv'
  BY DEF SInv, Deserved

LEMMA CoroutineSound ==
    ASSUME SInv,
           \/ Generate \/ Decode \/ AwaitBoot \/ RunCommand \/ Observe \/ InfraRaises
           \/ Diff \/ Finally \/ Return
    PROVE  SInv'
  <1> USE DEF GradingInside, loop, grading, contents, outside
  <1>1. CASE Generate \/ Observe
    BY <1>1, KeepsReward DEF SInv, Generate, Observe, LeaveLoop
  <1>2. CASE Decode \/ AwaitBoot \/ InfraRaises
    BY <1>2, KeepsReward DEF SInv, Decode, AwaitBoot, InfraRaises, Rescue, result
  <1>3. CASE RunCommand
    <2>1. /\ UNCHANGED <<row, submitted, grade, use, patch>> /\ pc = "command"
          /\ pc' \in {"observe", "finally", "command"} /\ reward' \in {0, reward}
      BY <1>3 DEF RunCommand, Exec, Rescue, result
    <2>2. \/ tree' = tree
          \/ tree' = [tree EXCEPT !["swe"] = IF command \in AgentEdits THEN @ \cup {command} ELSE @]
      BY <1>3 DEF RunCommand, Exec, Effect
    <2>3. /\ tree' \in [Sandboxes -> SUBSET Edits] /\ tree'["grade"] = tree["grade"]
          /\ tree["swe"] \subseteq tree'["swe"]
      BY <2>2 DEF SInv, Sandboxes, Edits, AgentEdits
    <2>4. reward # 1
      BY <2>1 DEF SInv
    <2> QED
      BY <2>1, <2>3, <2>4 DEF SInv
  <1>4. CASE Diff
    <2>1. UNCHANGED <<row, submitted, use, tree>> /\ pc = "submit" /\ reward # 1 /\ grade = "idle"
      BY <1>4 DEF Diff, SInv
    <2>2. \/ pc' \in {"submit", "finally"} /\ UNCHANGED <<grade, patch>> /\ reward' \in {0, reward}
          \/ /\ pc' = "grade" /\ patch' = filter_patch(tree["swe"] \ head) /\ reward' = reward
      BY <1>4 DEF Diff, BeginGrading, Exec, End, Rescue, result
    <2>3. filter_patch(tree["swe"] \ head) \subseteq tree["swe"] \ TestPaths
      BY DEF filter_patch
    <2> QED
      BY <2>1, <2>2, <2>3 DEF SInv
  <1>5. CASE Finally \/ Return
    BY <1>5, KeepsReward DEF SInv, Finally, Return, result
  <1> QED
    BY <1>1, <1>2, <1>3, <1>4, <1>5

\* A patch adds what the agent wrote outside the tests, or the row's tests; only the last of
\* the runs a row asks for gives a reward, and those before it have passed.
LEMMA UseFileSound ==
    ASSUME SInv, UseFile
    PROVE  SInv'
  <1> DEFINE applied == [tree EXCEPT !["grade"] = IF Succeeds THEN @ \cup Adds ELSE @]
  <1>1. UNCHANGED <<row, submitted, pc, patch>> /\ grade = "use"
    BY DEF UseFile, loop
  <1>2. pc = "grade" /\ submitted /\ reward # 1
    BY <1>1 DEF SInv, GradingInside
  <1>3. tree' = tree \/ tree' = applied
    BY DEF UseFile, Exec
  <1>4. \/ Succeeds /\ Onwards
        \/ reward' = 0 /\ use' = use /\ grade' = "delete"
        \/ UNCHANGED <<reward, grade, use>>
    BY DEF UseFile, Exec, GradingError, Verdict, result
  <1>5. Adds \subseteq (tree["swe"] \cup {"testPatch"}) \ {"conftest"} /\ Adds \subseteq Edits
    BY DEF Adds, SInv, TestPaths, Edits, Sandboxes
  <1>6. /\ tree' \in [Sandboxes -> SUBSET Edits] /\ tree'["swe"] = tree["swe"]
        /\ tree["grade"] \subseteq tree'["grade"] /\ tree'["grade"] \subseteq tree["grade"] \cup Adds
    BY <1>3, <1>5 DEF SInv, Sandboxes
  <1>7. /\ patch' \subseteq tree'["swe"] \ TestPaths
        /\ tree'["grade"] \subseteq (tree'["swe"] \cup Image \cup {"testPatch"}) \ {"conftest"}
    BY <1>1, <1>5, <1>6 DEF SInv
  <1>8. grade' \in {"use", "write", "delete"} /\ use' \in Uses
    BY <1>1, <1>4 DEF Onwards, Turn, Verdict, SInv, Uses
  <1>9. /\ use' = "p2p" => "fix" \in tree'["grade"]
        /\ reward' = 1 => Deserved' /\ grade' = "delete"
    <2>1. CASE Succeeds /\ Onwards
      <3>1. CASE use \in {"agent.patch", "test.patch"}
        BY <1>2, <2>1, <3>1 DEF Onwards, Turn, SInv, result
      <3>2. CASE use \in {"r2e", "f2p", "p2p"}
        <4>1. tree'["grade"] = tree["grade"] /\ "conftest" \notin tree["grade"]
          BY <1>6, <3>2 DEF Adds, SInv
        <4>2. CASE use = "r2e"
          BY <1>1, <2>1, <4>1, <4>2, WhatPassingShows DEF Succeeds, Onwards, Verdict, Deserved
        <4>3. CASE use = "f2p"
          BY <1>1, <1>2, <2>1, <4>1, <4>3, WhatPassingShows
          DEF Succeeds, Onwards, Turn, Verdict, Deserved, result
        <4>4. CASE use = "p2p"
          BY <1>1, <2>1, <4>1, <4>4, WhatPassingShows
          DEF Succeeds, Onwards, Verdict, Deserved, SInv
        <4> QED
          BY <3>2, <4>2, <4>3, <4>4
      <3> QED
        BY <3>1, <3>2 DEF SInv, Uses
    <2>2. CASE ~(Succeeds /\ Onwards)
      BY <1>2, <1>4, <1>6, <2>2 DEF SInv
    <2> QED
      BY <2>1, <2>2
  <1> QED
    BY <1>1, <1>2, <1>6, <1>7, <1>8, <1>9 DEF SInv, GradingInside

LEMMA GradingSound ==
    ASSUME SInv, GradeCreate \/ GradeWait \/ WriteChunk \/ GradeDelete
    PROVE  SInv'
  <1> USE DEF GradingInside, loop, contents, result
  <1>1. CASE GradeCreate
    BY <1>1, KeepsReward DEF SInv, GradeCreate, Create, GradingError, Verdict, Rescue
  <1>2. CASE GradeWait
    BY <1>2, KeepsReward DEF SInv, GradeWait, WaitReady, GradingError, Verdict
  <1>3. CASE WriteChunk
    BY <1>3, KeepsReward DEF SInv, WriteChunk, Exec, GradingError, Verdict
  <1>4. CASE GradeDelete
    BY <1>4, KeepsReward DEF SInv, GradeDelete
  <1> QED
    BY <1>1, <1>2, <1>3, <1>4

LEMMA StepSound == SInv /\ [Next]_vars => SInv'
  <1> SUFFICES ASSUME SInv, [Next]_vars PROVE SInv'
    OBVIOUS
  <1> USE DEF coroutine, loop, grading, result, contents
  <1>1. CASE UNCHANGED vars
    BY <1>1, KeepsReward DEF SInv, GradingInside, vars, outside
  <1>2. CASE Boot
    BY <1>2, KeepsReward DEF SInv, GradingInside, Boot, BootCreate, BootWait, Baseline
  <1>3. CASE LateBaseline \/ \E s \in Sandboxes : PodRuns(s) \/ PodEnds(s)
    BY <1>3, KeepsReward DEF SInv, GradingInside, LateBaseline, PodRuns, PodEnds
  <1>4. CASE Run
    BY <1>4, CoroutineSound, GradingSound, UseFileSound DEF Run
  <1> QED
    BY <1>1, <1>2, <1>3, <1>4 DEF Next

\* A reward is never given for nothing: whatever is retried, lost or left behind, the agent
\* submitted, and what was graded holds the fix, no regression the row sees, none of the
\* agent's tests and nothing it did not write.
THEOREM RewardIsSound == Spec => []RewardSound
  <1>1. SInv => RewardSound
    BY DEF SInv, Deserved, RewardSound
  <1> QED
    BY InitSound, StepSound, <1>1, PTL DEF Spec

----------------------------------------------------------------------------
\* TypeOK is inductive with the turns that are still to come: a turn starts only below the
\* limit, and its observation is the one the user has not been counted for.
TInv ==
    /\ TypeOK
    /\ pc = "generate" => assistantTurns < MaxAssistantTurns
    /\ pc \in {"decode", "command", "observe"} => userTurns < assistantTurns
    /\ pc \in {"submit", "grade"} => submitted

LEMMA InitTyped == Init => TInv
  <1> SUFFICES ASSUME Init PROVE TInv
    OBVIOUS
  <1>1. /\ attempt \in [{"boot", "run"} -> 0..Retries] /\ 1 \in 1..FileChunks
        /\ 0 \in 0..MaxAssistantTurns /\ 0 < MaxAssistantTurns /\ 0 \in 0..0
    BY LoopAssumption DEF Init
  <1>2. use \in DOMAIN FailureOf /\ command \in Commands /\ tree \in [Sandboxes -> SUBSET Edits]
    BY DEF Init, FailureOf, Commands, Image, Edits
  <1> QED
    BY <1>1, <1>2 DEF Init, TInv, TypeOK

\* One attempt of exec leaves the count of its failures within the retries.
LEMMA AttemptTyped ==
    ASSUME TInv, NEW t \in {"boot", "run"},
           attempt' = [attempt EXCEPT ![t] = 0] \/
           (attempt[t] < Retries /\ attempt' = [attempt EXCEPT ![t] = @ + 1])
    PROVE  attempt' \in [{"boot", "run"} -> 0..Retries]
  <1>1. attempt \in [{"boot", "run"} -> 0..Retries] /\ Retries \in Nat
    BY LoopAssumption DEF TInv, TypeOK
  <1>2. attempt[t] \in 0..Retries /\ 0 \in 0..Retries
    BY <1>1
  <1>3. attempt[t] < Retries => attempt[t] + 1 \in 0..Retries
    BY <1>1, <1>2
  <1> QED
    BY <1>1, <1>2, <1>3

\* A delete, done or failed, leaves the cluster's resources typed.
LEMMA DeleteTyped ==
    ASSUME TInv, NEW s \in Sandboxes, Delete(s)
    PROVE  /\ cr' \in [Sandboxes -> {"absent", "exists", "deleted"}]
           /\ pod' \in [Sandboxes -> {"none", "pending", "running", "ended"}]
           /\ undeleted' \subseteq Sandboxes
  <1>1. /\ cr \in [Sandboxes -> {"absent", "exists", "deleted"}]
        /\ pod \in [Sandboxes -> {"none", "pending", "running", "ended"}]
        /\ undeleted \subseteq Sandboxes
    BY DEF TInv, TypeOK
  <1>2. \/ /\ cr' = [cr EXCEPT ![s] = IF @ = "exists" THEN "deleted" ELSE @]
           /\ pod' = [pod EXCEPT ![s] = "none"] /\ undeleted' = undeleted
        \/ undeleted' = undeleted \cup {s} /\ cr' = cr /\ pod' = pod
    BY DEF Delete
  <1> QED
    BY <1>1, <1>2

LEMMA BootTyped == TInv /\ Boot => TInv'
  <1> SUFFICES ASSUME TInv, Boot PROVE TInv'
    OBVIOUS
  <1> USE DEF TInv, TypeOK, coroutine, loop, turns, tokens, grading, cluster
  <1>1. CASE BootCreate
    <2>1. /\ UNCHANGED <<coroutine, attempt, undeleted, tree, head>>
          /\ boot' \in {"wait", "failed"} /\ ~client
      BY <1>1 DEF BootCreate, Create, contents
    <2>2. /\ cr' \in [Sandboxes -> {"absent", "exists", "deleted"}]
          /\ pod' \in [Sandboxes -> {"none", "pending", "running", "ended"}]
      BY <1>1 DEF BootCreate, Create
    <2> QED
      BY <2>1, <2>2
  <1>2. CASE BootWait
    BY <1>2 DEF BootWait, WaitReady, contents
  <1>3. CASE Baseline
    <2>1. UNCHANGED <<coroutine, cluster, tree>> /\ boot = "baseline"
      BY <1>3 DEF Baseline
    <2>2. boot' \in {"baseline", "ready", "failed"} /\ head' \subseteq Edits
      BY <1>3 DEF Baseline, Exec, Commit, Sandboxes
    <2>3. attempt' \in [{"boot", "run"} -> 0..Retries]
      <3> HIDE DEF TInv
      <3> QED BY <1>3, AttemptTyped DEF Baseline, Exec
    <2> QED
      BY <2>1, <2>2, <2>3
  <1> QED
    BY <1>1, <1>2, <1>3 DEF Boot

\* The turns of the loop.
LEMMA TurnsTyped == TInv /\ (Generate \/ Observe) => TInv'
  <1> SUFFICES ASSUME TInv, Generate \/ Observe PROVE TInv'
    OBVIOUS
  <1> USE DEF TInv, TypeOK, outside, grading, cluster, contents
  <1>1. MaxAssistantTurns \in Nat /\ assistantTurns \in Nat /\ userTurns \in Nat
    BY LoopAssumption
  <1>2. UNCHANGED <<client, submitted, command, boot, grade, attempt, use, chunk, patch, cr, pod,
                    undeleted, tree, head>>
    BY DEF Generate, Observe
  <1>3. CASE Generate
    <2>1. /\ pc = "generate" /\ grade = "idle"
          /\ assistantTurns' = assistantTurns + 1 /\ userTurns' = userTurns
          /\ pc' \in {"finally", "decode"}
      BY <1>3 DEF Generate, LeaveLoop
    <2> QED
      BY <1>1, <1>2, <2>1
  <1>4. CASE Observe
    <2>1. /\ pc = "observe" /\ grade = "idle" /\ assistantTurns' = assistantTurns
          /\ \/ userTurns' = userTurns /\ pc' = "finally"
             \/ /\ userTurns' = userTurns + 1
                /\ pc' = "finally" \/ (pc' = "generate" /\ assistantTurns < MaxAssistantTurns)
      BY <1>4 DEF Observe, LeaveLoop
    <2> QED
      BY <1>1, <1>2, <2>1
  <1> QED
    BY <1>3, <1>4

LEMMA CoroutineTyped ==
    ASSUME TInv, Decode \/ AwaitBoot \/ RunCommand \/ InfraRaises \/ Diff \/ Finally \/ Return
    PROVE  TInv'
  <1> USE DEF TInv, TypeOK, loop, turns, grading, outside, cluster, contents
  <1>1. CASE Decode
    <2>1. command' \in Commands /\ pc' \in {"submit", "command", "observe"}
          /\ (pc' = "submit" => submitted') /\ (submitted => submitted')
      BY <1>1 DEF Decode, is_submit, Blocks, Parsed
    <2>2. UNCHANGED <<client, turns, outside>> /\ pc = "decode" /\ grade = "idle"
      BY <1>1 DEF Decode
    <2> QED
      BY <2>1, <2>2
  <1>2. CASE AwaitBoot
    <2>1. UNCHANGED <<submitted, turns, command, outside>> /\ pc \in {"command", "submit"} /\ grade = "idle"
      BY <1>2 DEF AwaitBoot
    <2>2. (client' /\ boot = "ready" /\ pc' = pc) \/ (client' = client /\ pc' = "finally")
      BY <1>2 DEF AwaitBoot, Booted, Rescue
    <2> QED
      BY <2>1, <2>2
  <1>3. CASE RunCommand
    <2>1. UNCHANGED <<loop, boot, grading, cluster>> /\ pc = "command" /\ grade = "idle"
      BY <1>3 DEF RunCommand
    <2>2. pc' \in {"observe", "finally", "command"}
      BY <1>3 DEF RunCommand, Exec, Rescue
    <2>3. attempt' \in [{"boot", "run"} -> 0..Retries]
      <3> HIDE DEF TInv
      <3> QED BY <1>3, AttemptTyped DEF RunCommand, Exec
    <2>4. tree' \in [Sandboxes -> SUBSET Edits] /\ head' \subseteq Edits
      <3>1. \/ tree' = tree
            \/ /\ command \in AgentEdits
               /\ tree' = [tree EXCEPT !["swe"] = tree["swe"] \cup {command}]
        BY <1>3 DEF RunCommand, Exec, Effect
      <3>2. head' = head \/ head' = tree["swe"]
        BY <1>3 DEF RunCommand, Exec, Effect, Commit
      <3>3. tree["swe"] \in SUBSET Edits
        BY DEF Sandboxes
      <3>4. command \in AgentEdits => tree["swe"] \cup {command} \in SUBSET Edits
        BY <3>3 DEF AgentEdits, Edits
      <3> QED
        BY <3>1, <3>2, <3>3, <3>4
    <2> QED
      BY <2>1, <2>2, <2>3, <2>4
  <1>4. CASE InfraRaises
    BY <1>4 DEF InfraRaises, Rescue
  <1>5. CASE Diff
    <2>1. UNCHANGED <<loop, boot, use, chunk, cluster, contents>> /\ pc = "submit" /\ client /\ grade = "idle"
      BY <1>5 DEF Diff
    <2>2. attempt' \in [{"boot", "run"} -> 0..Retries]
      <3> HIDE DEF TInv
      <3> QED BY <1>5, AttemptTyped DEF Diff, Exec
    <2>3. \/ pc' \in {"submit", "finally"} /\ UNCHANGED <<grade, patch>>
          \/ pc' = "grade" /\ grade' = "create" /\ patch' = filter_patch(tree["swe"] \ head)
      BY <1>5 DEF Diff, BeginGrading, Exec, End, Rescue
    <2>4. filter_patch(tree["swe"] \ head) \subseteq AgentEdits \cup Image
      BY DEF filter_patch, TestPaths, Sandboxes, Edits, AgentEdits, Image
    <2> QED
      BY <2>1, <2>2, <2>3, <2>4
  <1>6. CASE Finally
    BY <1>6 DEF Finally
  <1>7. CASE Return
    <2>1. /\ UNCHANGED <<client, submitted, turns, command, boot, attempt, grading, tree, head>>
          /\ pc = "delete" /\ pc' = "done"
      BY <1>7 DEF Return
    <2>2. /\ cr' \in [Sandboxes -> {"absent", "exists", "deleted"}]
          /\ pod' \in [Sandboxes -> {"none", "pending", "running", "ended"}]
          /\ undeleted' \subseteq Sandboxes
      <3> HIDE DEF TInv
      <3> QED BY <1>7, DeleteTyped DEF Return, Sandboxes
    <2> QED
      BY <2>1, <2>2
  <1> QED
    BY <1>1, <1>2, <1>3, <1>4, <1>5, <1>6, <1>7

LEMMA GradingTyped ==
    ASSUME TInv, GradeCreate \/ GradeWait \/ WriteChunk \/ UseFile \/ GradeDelete
    PROVE  TInv'
  <1> USE DEF TInv, TypeOK, loop, turns, contents, cluster
  <1>1. UNCHANGED <<client, submitted, turns, command, boot, patch, head>> /\ pc = "grade" /\ client
    BY DEF GradeCreate, GradeWait, WriteChunk, UseFile, GradeDelete
  <1>2. CASE GradeCreate
    <2>1. UNCHANGED <<attempt, use, chunk, undeleted, tree>>
      BY <1>2 DEF GradeCreate
    <2>2. \/ grade' \in {"wait", "delete"} /\ pc' = pc
          \/ grade' = "idle" /\ pc' = "finally"
      BY <1>2 DEF GradeCreate, Create, GradingError, Verdict, Rescue
    <2>3. /\ cr' \in [Sandboxes -> {"absent", "exists", "deleted"}]
          /\ pod' \in [Sandboxes -> {"none", "pending", "running", "ended"}]
      BY <1>2 DEF GradeCreate, Create
    <2> QED
      BY <1>1, <2>1, <2>2, <2>3
  <1>3. CASE GradeWait
    BY <1>1, <1>3 DEF GradeWait, WaitReady, GradingError, Verdict
  <1>4. CASE WriteChunk
    <2>1. UNCHANGED <<pc, use, cluster, tree>>
      BY <1>4 DEF WriteChunk
    <2>2. attempt' \in [{"boot", "run"} -> 0..Retries]
      <3> HIDE DEF TInv
      <3> QED BY <1>4, AttemptTyped DEF WriteChunk, Exec
    <2>3. grade' \in {"write", "use", "delete"} /\ chunk' \in 1..FileChunks
      <3>1. chunk \in 1..FileChunks /\ FileChunks \in Nat \ {0} /\ grade = "write"
        BY <1>4, LoopAssumption DEF WriteChunk
      <3>2. \/ grade' = "use" /\ chunk' = 1
            \/ grade' = grade /\ chunk' = chunk + 1 /\ chunk # FileChunks
            \/ grade' \in {grade, "delete"} /\ chunk' = chunk
        BY <1>4 DEF WriteChunk, Exec, GradingError, Verdict
      <3> QED
        BY <3>1, <3>2
    <2> QED
      BY <1>1, <2>1, <2>2, <2>3
  <1>5. CASE UseFile
    <2>1. UNCHANGED <<pc, chunk, cluster>>
      BY <1>5 DEF UseFile
    <2>2. attempt' \in [{"boot", "run"} -> 0..Retries]
      <3> HIDE DEF TInv
      <3> QED BY <1>5, AttemptTyped DEF UseFile, Exec
    <2>3. grade' \in {"use", "write", "delete"} /\ use' \in DOMAIN FailureOf
      BY <1>5 DEF UseFile, Exec, GradingError, Onwards, Turn, Verdict, FailureOf
    <2>4. tree' \in [Sandboxes -> SUBSET Edits]
      <3>1. Adds \subseteq Edits
        BY DEF Adds, Edits, AgentEdits, Image
      <3> QED
        BY <1>5, <3>1 DEF UseFile, Exec, Sandboxes
    <2> QED
      BY <1>1, <2>1, <2>2, <2>3, <2>4
  <1>6. CASE GradeDelete
    <2>1. UNCHANGED <<attempt, use, chunk, tree>> /\ grade' = "idle" /\ pc' = "finally"
      BY <1>6 DEF GradeDelete
    <2>2. /\ cr' \in [Sandboxes -> {"absent", "exists", "deleted"}]
          /\ pod' \in [Sandboxes -> {"none", "pending", "running", "ended"}]
          /\ undeleted' \subseteq Sandboxes
      <3> HIDE DEF TInv
      <3> QED BY <1>6, DeleteTyped DEF GradeDelete, Sandboxes
    <2> QED
      BY <1>1, <2>1, <2>2
  <1> QED
    BY <1>2, <1>3, <1>4, <1>5, <1>6

LEMMA StepTyped == TInv /\ [Next]_vars => TInv'
  <1> SUFFICES ASSUME TInv, [Next]_vars PROVE TInv'
    OBVIOUS
  <1>1. CASE UNCHANGED vars
    BY <1>1 DEF TInv, TypeOK, vars, loop, turns, outside, grading, cluster, contents
  <1>2. CASE \E s \in Sandboxes : PodRuns(s) \/ PodEnds(s)
    BY <1>2 DEF TInv, TypeOK, PodRuns, PodEnds, coroutine, loop, turns, grading, contents
  <1>3. CASE LateBaseline
    BY <1>3 DEF TInv, TypeOK, LateBaseline, Commit, Sandboxes, coroutine, loop, turns, grading, cluster
  <1>4. CASE Boot \/ Run
    BY <1>4, BootTyped, TurnsTyped, CoroutineTyped, GradingTyped DEF Run
  <1> QED
    BY <1>1, <1>2, <1>3, <1>4 DEF Next

\* Nothing is done in a sandbox before its boot, there is a grading sandbox only for a
\* submission, no exec is sent more often than its retries allow, and the turns stay within
\* their limit.
THEOREM LoopTyped == Spec => []TypeOK
  <1>1. TInv => TypeOK
    BY DEF TInv
  <1> QED
    BY InitTyped, StepTyped, <1>1, PTL DEF Spec

----------------------------------------------------------------------------
(* As long as nothing has gone wrong the grading comes to the right verdict. *)

\* What the agent submits: its edits since the last commit.
Submission == tree["swe"] \ head

\* The verdict the submission deserves.
RightVerdict ==
    reward = 1 <=> "fix" \in Submission /\ ("breaks" \in Submission => row.noP2p)

\* The boot succeeds, its pod runs until the trajectory returns, and no commit comes late.
CalmBoot ==
    /\ boot # "failed" /\ ~lateBaseline
    /\ \A s \in Sandboxes : pod[s] # "ended"
    /\ boot \in {"baseline", "ready"} /\ pc # "done" => pod["swe"] = "running"

\* The image's own changes are committed before the agent starts.
CalmTree ==
    /\ Image \subseteq tree["swe"] /\ tree["swe"] \subseteq Image \cup AgentEdits
    /\ boot = "ready" => Image \subseteq head

\* What has been applied in the grading sandbox at each stage of the grading.
Applied ==
    CASE use = "agent.patch" -> {}
      [] use \in {"test.patch", "r2e"} -> patch
      [] OTHER -> patch \cup {"testPatch"}

CalmStage ==
    /\ grade \in {"create", "wait"} => use = "agent.patch" /\ chunk = 1
    /\ grade \in {"write", "use"} => pod["grade"] = "running"
    /\ grade = "write" => use # "r2e" /\ (chunk > 1 => file = [i \in 1..(chunk - 1) |-> i])
    /\ grade = "use" => chunk = 1 /\ (use # "r2e" => Intact)
    /\ grade # "delete" => tree["grade"] = Image \cup Applied
    /\ use = "r2e" => row.kind = "r2e"
    /\ use \in {"test.patch", "f2p", "p2p"} => row.kind = "swebench"
    /\ use = "p2p" => "fix" \in patch /\ ~row.noP2p

CalmGrading ==
    /\ row.noP2p \in BOOLEAN /\ (row.noP2p => row.kind = "swebench")
    /\ submitted => pc \in {"submit", "grade", "finally", "delete", "done"}
    /\ submitted /\ pc # "submit" => client
    /\ pc \in {"generate", "decode", "command", "observe", "submit"} =>
          use = "agent.patch" /\ chunk = 1 /\ tree["grade"] = Image
    /\ pc = "grade" => grade # "idle" /\ patch = filter_patch(Submission) /\ CalmStage
    /\ submitted /\ (pc \in {"finally", "delete", "done"} \/ grade = "delete")
          /\ reason # "diff-too-large" => RightVerdict

Calm == CalmBoot /\ CalmTree /\ CalmGrading

\* Calm is inductive with the types, the boot's order and what the grading sandbox holds.
CInv == TInv /\ RInv /\ SInv /\ (~faulted => Calm)

\* A test run on a tree without the agent's conftest passes exactly for the right edits.
LEMMA WhatPasses ==
    ASSUME NEW t, "conftest" \notin t
    PROVE  /\ AllPass(t, fail_to_pass) <=> "fix" \in t
           /\ AllPass(t, pass_to_pass) <=> "breaks" \notin t
           /\ grade_r2e(Report(t), expected) <=> "fix" \in t /\ "breaks" \notin t
  <1>1. /\ DOMAIN Report(t) = Tests
        /\ Report(t)["fixed"] = IF "fix" \in t THEN PASSED ELSE FAILED
        /\ Report(t)["kept"] = IF "breaks" \in t THEN FAILED ELSE PASSED
        /\ Report(t)["wontfix"] = FAILED /\ Report(t)["windows"] = SKIPPED
    BY DEF Report, Tests
  <1>2. PASSED # FAILED /\ PASSED # SKIPPED /\ FAILED # SKIPPED
    BY DEF PASSED, FAILED, SKIPPED
  <1>3. AllPass(t, fail_to_pass) <=> "fix" \in t
    BY <1>1, <1>2 DEF AllPass, fail_to_pass
  <1>4. AllPass(t, pass_to_pass) <=> "breaks" \notin t
    BY <1>1, <1>2 DEF AllPass, pass_to_pass
  <1>5. ASSUME "fix" \in t, "breaks" \notin t PROVE grade_r2e(Report(t), expected)
    <2> DEFINE report == Report(t)
               ran == {x \in DOMAIN report : report[x] # SKIPPED}
    <2>1. /\ DOMAIN report = Tests
          /\ report["fixed"] = PASSED /\ report["kept"] = PASSED
          /\ report["wontfix"] = FAILED /\ report["windows"] = SKIPPED
      BY <1>1, <1>5
    <2> HIDE DEF report
    <2>2. ran = {"fixed", "kept", "wontfix"}
      BY <1>2, <2>1 DEF Tests
    <2>3. Restrict(report, ran) = [x \in ran |-> report[x]]
      BY DEF Restrict
    <2>4. /\ DOMAIN expected = {"fixed", "kept", "wontfix"} /\ expected["fixed"] = PASSED
          /\ expected["kept"] = PASSED /\ expected["wontfix"] = FAILED
      BY DEF expected
    <2>5. DOMAIN Restrict(report, ran) = DOMAIN expected
      BY <2>2, <2>3, <2>4
    <2>6. \A x \in DOMAIN expected : Restrict(report, ran)[x] = expected[x]
      BY <2>1, <2>2, <2>3, <2>4
    <2> QED
      BY <2>5, <2>6 DEF grade_r2e, report
  <1> QED
    BY <1>3, <1>4, <1>5, WhatPassingShows

LEMMA InitCalm == Init => CInv
  <1> SUFFICES ASSUME Init PROVE Calm
    BY InitTyped, InitReclaims, InitSound DEF CInv
  <1>1. CalmBoot /\ CalmTree
    BY DEF Init, CalmBoot, CalmTree, Sandboxes, Image
  <1>2. CalmGrading
    BY DEF Init, CalmGrading, Sandboxes
  <1> QED
    BY <1>1, <1>2 DEF Calm

LEMMA BootCalm ==
    ASSUME CInv, ~faulted, ~faulted', Boot
    PROVE  Calm'
  <1> USE DEF Fault
  <1>1. /\ Calm /\ pod \in [Sandboxes -> {"none", "pending", "running", "ended"}]
        /\ (client => boot = "ready") /\ (grade # "idle" => pc = "grade" /\ client)
        /\ (pc \in {"submit", "grade"} => submitted)
        /\ (pc \in {"delete", "done"} => boot \in {"ready", "failed"})
    BY DEF CInv, TInv, TypeOK, RInv
  <1>2. /\ UNCHANGED <<row, client, submitted, pc, result, grading, tree, file>>
        /\ boot \in {"create", "wait", "baseline"}
    BY DEF Boot, BootCreate, BootWait, Baseline, coroutine, loop, contents
  <1>3. ~client /\ ~(submitted /\ pc # "submit") /\ grade = "idle" /\ pc # "done"
    BY <1>1, <1>2 DEF Calm, CalmGrading
  <1>4. CalmGrading'
    BY <1>1, <1>2, <1>3 DEF Calm, CalmGrading, grading
  <1>5. CASE BootCreate
    <2>1. boot' = "wait" /\ pod' = [pod EXCEPT !["swe"] = "pending"] /\ UNCHANGED <<head, lateBaseline>>
      BY <1>5 DEF BootCreate, Create, contents
    <2> QED
      BY <1>1, <1>2, <1>4, <2>1 DEF Calm, CalmBoot, CalmTree, Sandboxes
  <1>6. CASE BootWait
    <2>1. boot' = "baseline" /\ pod["swe"] = "running" /\ UNCHANGED <<pod, head, lateBaseline>>
      BY <1>1, <1>6 DEF BootWait, WaitReady, contents, cluster, Calm, CalmBoot, Sandboxes
    <2> QED
      BY <1>1, <1>2, <1>4, <2>1 DEF Calm, CalmBoot, CalmTree, Sandboxes
  <1>7. CASE Baseline
    <2>1. boot = "baseline" /\ pod["swe"] = "running" /\ pod' = pod
      BY <1>1, <1>3, <1>7 DEF Baseline, cluster, Calm, CalmBoot
    <2>2. boot' = "ready" /\ head' = tree["swe"] /\ lateBaseline' = lateBaseline
      BY <1>7, <2>1 DEF Baseline, Exec, Commit
    <2> QED
      BY <1>1, <1>2, <1>3, <1>4, <2>1, <2>2 DEF Calm, CalmBoot, CalmTree, Sandboxes
  <1> QED
    BY <1>5, <1>6, <1>7 DEF Boot

\* The coroutine up to the submission.
LEMMA CoroutineCalm ==
    ASSUME CInv, ~faulted, ~faulted',
           Generate \/ Decode \/ AwaitBoot \/ RunCommand \/ Observe \/ InfraRaises \/ Finally
    PROVE  Calm'
  <1> USE DEF Fault
  <1>1. /\ Calm /\ tree \in [Sandboxes -> SUBSET Edits]
        /\ (client => boot = "ready") /\ (grade # "idle" => pc = "grade")
        /\ (pc \in {"submit", "grade"} => submitted)
    BY DEF CInv, TInv, TypeOK, RInv
  <1>2. CASE Generate \/ Observe
    <2>1. /\ UNCHANGED <<row, client, submitted, outside>>
          /\ pc \in {"generate", "observe"} /\ pc' \in {"generate", "decode", "finally"}
      BY <1>2 DEF Generate, Observe, LeaveLoop
    <2>2. ~submitted /\ grade = "idle"
      BY <1>1, <2>1 DEF Calm, CalmGrading
    <2> QED
      BY <1>1, <2>1, <2>2
      DEF Calm, CalmBoot, CalmTree, CalmGrading, outside, grading, cluster, contents
  <1>3. CASE Decode
    <2>1. /\ UNCHANGED <<row, client, outside>> /\ pc = "decode"
          /\ pc' \in {"submit", "command", "observe"} /\ (submitted' = submitted \/ pc' = "submit")
      BY <1>3 DEF Decode
    <2>2. ~submitted /\ grade = "idle"
      BY <1>1, <2>1 DEF Calm, CalmGrading
    <2> QED
      BY <1>1, <2>1, <2>2
      DEF Calm, CalmBoot, CalmTree, CalmGrading, outside, grading, cluster, contents
  <1>4. CASE AwaitBoot
    <2>1. /\ UNCHANGED <<row, submitted, outside, pc>> /\ client' = TRUE /\ pc \in {"command", "submit"}
      BY <1>1, <1>4 DEF AwaitBoot, Calm, CalmBoot
    <2> QED
      BY <1>1, <2>1
      DEF Calm, CalmBoot, CalmTree, CalmGrading, outside, grading, cluster, contents
  <1>5. CASE RunCommand
    <2>1. /\ UNCHANGED <<row, client, submitted, boot, grading, pod, file, lateBaseline>>
          /\ pc = "command" /\ client
      BY <1>5 DEF RunCommand, loop, cluster
    <2>2. boot = "ready" /\ pod["swe"] = "running" /\ ~submitted /\ grade = "idle"
      BY <1>1, <2>1 DEF Calm, CalmBoot, CalmGrading
    <2>3. Effect(command) /\ pc' = "observe"
      BY <1>5, <2>2 DEF RunCommand, Exec
    <2>4. /\ tree' = [tree EXCEPT !["swe"] = IF command \in AgentEdits THEN @ \cup {command} ELSE @]
          /\ head' = head \/ head' = tree["swe"]
      BY <2>3 DEF Effect, Commit
    <2>5. /\ tree'["grade"] = tree["grade"] /\ tree["swe"] \subseteq tree'["swe"]
          /\ tree'["swe"] \subseteq tree["swe"] \cup AgentEdits
      BY <1>1, <2>4 DEF Sandboxes
    <2>6. CalmTree'
      BY <1>1, <2>1, <2>2, <2>4, <2>5 DEF Calm, CalmTree
    <2> QED
      BY <1>1, <2>1, <2>2, <2>3, <2>5, <2>6 DEF Calm, CalmBoot, CalmGrading, grading
  <1>6. CASE Finally
    <2>1. /\ UNCHANGED <<row, submitted, result, outside>> /\ pc = "finally" /\ pc' = "delete"
          /\ client' = (client \/ boot = "ready")
      BY <1>6 DEF Finally
    <2>2. CalmBoot' /\ CalmTree'
      BY <1>1, <2>1 DEF Calm, CalmBoot, CalmTree, outside, cluster, contents
    <2>3. RightVerdict' <=> RightVerdict
      BY <2>1 DEF RightVerdict, Submission, outside, contents, result
    <2> QED
      BY <1>1, <2>1, <2>2, <2>3 DEF Calm, CalmGrading, outside, grading, result
  <1>7. CASE InfraRaises
    BY <1>7 DEF InfraRaises
  <1> QED
    BY <1>2, <1>3, <1>4, <1>5, <1>6, <1>7

\* The patch is the submission without its tests, and none of it is in the image.
LEMMA PatchOfSubmission ==
    ASSUME CalmTree, boot = "ready"
    PROVE  /\ filter_patch(Submission) \cap (Image \cup {"testPatch", "conftest"}) = {}
           /\ "fix" \in filter_patch(Submission) <=> "fix" \in Submission
           /\ "breaks" \in filter_patch(Submission) <=> "breaks" \in Submission
  BY DEF CalmTree, filter_patch, Submission, TestPaths

LEMMA DiffCalm ==
    ASSUME CInv, ~faulted, ~faulted', Diff
    PROVE  Calm'
  <1> USE DEF Fault
  <1>1. /\ Calm /\ (client => boot = "ready") /\ (grade # "idle" => pc = "grade")
        /\ (pc \in {"submit", "grade"} => submitted)
    BY DEF CInv, TInv, TypeOK, RInv
  <1>2. /\ UNCHANGED <<row, client, submitted, boot, use, chunk, pod, tree, head, file, lateBaseline>>
        /\ pc = "submit" /\ client
    BY DEF Diff, loop, cluster, contents
  <1>3. boot = "ready" /\ pod["swe"] = "running" /\ grade = "idle" /\ submitted
    BY <1>1, <1>2 DEF Calm, CalmBoot
  <1>4. \/ End("diff-too-large")
        \/ BeginGrading(Submission)
    BY <1>3 DEF Diff, Exec, Submission
  <1>5. CalmBoot' /\ CalmTree'
    <2>1. pc' # "done"
      BY <1>4 DEF End, BeginGrading
    <2> QED
      BY <1>1, <1>2, <1>3, <2>1 DEF Calm, CalmBoot, CalmTree
  <1>6. Submission' = Submission
    BY <1>2 DEF Submission
  <1>7. CASE End("diff-too-large")
    BY <1>1, <1>2, <1>3, <1>5, <1>7 DEF End, Calm, CalmGrading
  <1>8. CASE BeginGrading(Submission) /\ filter_patch(Submission) = {}
    <2>1. reward' = 0 /\ pc' = "finally" /\ UNCHANGED <<grade, patch>>
      BY <1>8 DEF BeginGrading, End
    <2>2. "fix" \notin Submission
      BY <1>8 DEF filter_patch, TestPaths
    <2>3. RightVerdict'
      BY <1>6, <2>1, <2>2 DEF RightVerdict
    <2> QED
      BY <1>1, <1>2, <1>3, <1>5, <2>1, <2>3 DEF Calm, CalmGrading
  <1>9. CASE BeginGrading(Submission) /\ filter_patch(Submission) # {}
    <2>1. /\ grade' = "create" /\ patch' = filter_patch(Submission) /\ pc' = "grade"
      BY <1>9 DEF BeginGrading, End
    <2>2. use' = "agent.patch" /\ chunk' = 1 /\ tree'["grade"] = Image
      BY <1>1, <1>2 DEF Calm, CalmGrading
    <2>3. CalmStage'
      BY <2>1, <2>2 DEF CalmStage, Applied
    <2> QED
      BY <1>1, <1>2, <1>3, <1>5, <1>6, <2>1, <2>3 DEF Calm, CalmGrading
  <1> QED
    BY <1>4, <1>7, <1>8, <1>9

\* A step of the grading leaves the submission, and what was booted, as they are.
LEMMA GradingKeeps ==
    ASSUME CInv, ~faulted, GradeCreate \/ GradeWait \/ WriteChunk \/ UseFile \/ GradeDelete
    PROVE  /\ UNCHANGED <<row, client, submitted, boot, patch, head, lateBaseline>>
           /\ tree'["swe"] = tree["swe"] /\ Submission' = Submission
           /\ CalmTree /\ CalmTree' /\ CalmStage /\ CalmBoot
           /\ pc = "grade" /\ boot = "ready" /\ client /\ submitted
           /\ patch = filter_patch(Submission)
           /\ row.kind \in {"r2e", "swebench"} /\ (row.noP2p => row.kind = "swebench")
           /\ pod \in [Sandboxes -> {"none", "pending", "running", "ended"}]
           /\ chunk \in 1..FileChunks
  <1>1. /\ Calm /\ (client => boot = "ready") /\ (grade # "idle" => pc = "grade" /\ client /\ submitted)
        /\ tree \in [Sandboxes -> SUBSET Edits] /\ row.kind \in {"r2e", "swebench"}
        /\ pod \in [Sandboxes -> {"none", "pending", "running", "ended"}]
        /\ chunk \in 1..FileChunks
    BY DEF CInv, TInv, TypeOK, SInv
  <1>2. UNCHANGED <<row, client, submitted, boot, patch, head, lateBaseline>> /\ grade # "idle"
    BY DEF GradeCreate, GradeWait, WriteChunk, UseFile, GradeDelete, loop, contents
  <1>3. \/ tree' = tree
        \/ tree' = [tree EXCEPT !["grade"] = IF Succeeds THEN @ \cup Adds ELSE @]
    BY DEF GradeCreate, GradeWait, WriteChunk, UseFile, GradeDelete, Exec, contents
  <1>4. tree'["swe"] = tree["swe"]
    BY <1>1, <1>3 DEF Sandboxes
  <1> QED
    BY <1>1, <1>2, <1>4 DEF Calm, CalmTree, CalmGrading, Submission

\* What a step that stays in the grading has to establish.
LEMMA StaysGrading ==
    ASSUME CInv, ~faulted, GradeCreate \/ GradeWait \/ WriteChunk \/ UseFile \/ GradeDelete,
           pc' = "grade", grade' # "idle", CalmStage',
           \A s \in Sandboxes : pod'[s] # "ended", pod'["swe"] = pod["swe"],
           grade' = "delete" => RightVerdict'
    PROVE  Calm'
  <1>1. CalmBoot'
    BY GradingKeeps DEF CalmBoot
  <1>2. CalmGrading'
    <2>1. row.noP2p \in BOOLEAN
      BY DEF CInv, Calm, CalmGrading
    <2> QED
      BY <2>1, GradingKeeps DEF CalmGrading
  <1> QED
    BY <1>1, <1>2, GradingKeeps DEF Calm

LEMMA GradeCreateCalm ==
    ASSUME CInv, ~faulted, ~faulted', GradeCreate
    PROVE  Calm'
  <1>1. /\ grade = "create" /\ grade' = "wait" /\ UNCHANGED <<use, chunk, tree, pc>>
        /\ pod' = [pod EXCEPT !["grade"] = "pending"]
    BY DEF GradeCreate, Create, GradingError, Rescue, Fault, contents
  <1>2. CalmStage' /\ pc' = "grade"
    BY <1>1, GradingKeeps DEF CalmStage, Applied
  <1>3. pod'["swe"] = pod["swe"] /\ \A s \in Sandboxes : pod'[s] # "ended"
    BY <1>1, GradingKeeps DEF CalmBoot, Sandboxes
  <1> QED
    BY <1>1, <1>2, <1>3, StaysGrading

LEMMA GradeWaitCalm ==
    ASSUME CInv, ~faulted, ~faulted', GradeWait
    PROVE  Calm'
  <1>1. pod["grade"] # "ended" /\ pod' = pod
    BY GradingKeeps DEF GradeWait, cluster, CalmBoot, Sandboxes
  <1>2. /\ grade = "wait" /\ grade' = "write" /\ pod["grade"] = "running"
        /\ UNCHANGED <<use, chunk, tree, pc>>
    BY <1>1 DEF GradeWait, WaitReady, Fault, contents
  <1>3. CalmStage' /\ pc' = "grade"
    BY <1>1, <1>2, GradingKeeps DEF CalmStage, Applied
  <1>4. \A s \in Sandboxes : pod'[s] # "ended"
    BY <1>1, GradingKeeps DEF CalmBoot
  <1> QED
    BY <1>1, <1>2, <1>3, <1>4, StaysGrading

\* The first chunks of a file, and one more.
LEMMA NextChunk ==
    ASSUME NEW n \in Nat \ {0}
    PROVE  Append([i \in 1..(n - 1) |-> i], n) = [i \in 1..n |-> i]
  <1> DEFINE s == [i \in 1..(n - 1) |-> i]
             t == [i \in 1..n |-> i]
  <1>1. s \in Seq(Nat) /\ Len(s) = n - 1 /\ n - 1 \in Nat
    OBVIOUS
  <1>2. /\ Append(s, n) \in Seq(Nat) /\ Len(Append(s, n)) = n
        /\ \A i \in 1..(n - 1) : Append(s, n)[i] = s[i] /\ Append(s, n)[n] = n
    <2> HIDE DEF s
    <2> QED BY <1>1, AppendProperties
  <1>3. t \in Seq(Nat) /\ Len(t) = n
    OBVIOUS
  <1>4. ASSUME NEW i \in 1..n PROVE Append(s, n)[i] = t[i]
    <2>1. CASE i = n
      <3>1. Append(s, n)[n] = n
        <4> HIDE DEF s
        <4> QED BY <1>1, AppendProperties
      <3> QED BY <2>1, <3>1
    <2>2. CASE i # n
      <3>1. i \in 1..(n - 1)
        BY <2>2
      <3>2. s[i] = i
        BY <3>1
      <3> QED BY <1>2, <3>1, <3>2
    <2> QED BY <2>1, <2>2
  <1> HIDE DEF s, t
  <1>5. Append(s, n) = t
    BY <1>2, <1>3, <1>4, SeqEqual
  <1> QED BY <1>5 DEF s, t

LEMMA WriteChunkCalm ==
    ASSUME CInv, ~faulted, ~faulted', WriteChunk
    PROVE  Calm'
  <1>1. /\ grade = "write" /\ pod["grade"] = "running" /\ pod' = pod
        /\ UNCHANGED <<use, tree, pc>>
    BY GradingKeeps DEF WriteChunk, cluster, CalmStage
  <1>2. /\ file' = IF chunk = 1 THEN <<1>> ELSE Append(file, chunk)
        /\ IF chunk = FileChunks THEN grade' = "use" /\ chunk' = 1
                                 ELSE chunk' = chunk + 1 /\ grade' = grade
    BY <1>1 DEF WriteChunk, Exec, Fault
  <1>3. chunk \in Nat \ {0} /\ FileChunks \in Nat \ {0}
    BY GradingKeeps, LoopAssumption
  <1>4. file' = [i \in 1..chunk |-> i]
    <2>1. CASE chunk = 1
      <3>1. <<1>> = [i \in 1..1 |-> i]
        OBVIOUS
      <3> QED BY <1>2, <2>1, <3>1
    <2>2. CASE chunk # 1
      <3>1. file = [i \in 1..(chunk - 1) |-> i]
        BY <1>1, <1>3, <2>2, GradingKeeps DEF CalmStage
      <3>2. file' = Append([i \in 1..(chunk - 1) |-> i], chunk)
        BY <1>2, <2>2, <3>1
      <3> QED BY <1>3, <3>2, NextChunk
    <2> QED BY <2>1, <2>2
  <1>5. CalmStage'
    <2>1. /\ use # "r2e" /\ tree["grade"] = Image \cup Applied
          /\ use \in {"test.patch", "f2p", "p2p"} => row.kind = "swebench"
          /\ use = "p2p" => "fix" \in patch /\ ~row.noP2p
      BY <1>1, GradingKeeps DEF CalmStage
    <2>2. Applied' = Applied /\ row' = row /\ patch' = patch
      BY <1>1, GradingKeeps DEF Applied
    <2>3. CASE chunk = FileChunks
      BY <1>1, <1>2, <1>4, <2>1, <2>2, <2>3 DEF CalmStage, Intact
    <2>4. CASE chunk # FileChunks
      <3>1. chunk' = chunk + 1 /\ grade' = "write" /\ chunk' - 1 = chunk
        BY <1>1, <1>2, <1>3, <2>4
      <3> QED
        BY <1>1, <1>4, <2>1, <2>2, <3>1 DEF CalmStage
    <2> QED BY <2>3, <2>4
  <1>6. grade' \in {"write", "use"} /\ pc' = "grade" /\ \A s \in Sandboxes : pod'[s] # "ended"
    BY <1>1, <1>2, GradingKeeps DEF CalmBoot
  <1> QED
    BY <1>1, <1>5, <1>6, StaysGrading

\* A patch always applies, and the runs pass exactly for what the submission deserves.
LEMMA UseFileCalm ==
    ASSUME CInv, ~faulted, ~faulted', UseFile
    PROVE  Calm'
  <1>1. /\ grade = "use" /\ pod["grade"] = "running" /\ pod' = pod /\ UNCHANGED <<chunk, pc, file>>
        /\ chunk = 1 /\ (use # "r2e" => Intact) /\ Intact' = Intact
    BY GradingKeeps DEF UseFile, cluster, CalmStage, Intact
  <1>2. /\ tree' = [tree EXCEPT !["grade"] = IF Succeeds THEN @ \cup Adds ELSE @]
        /\ Succeeds => Onwards
        /\ ~Succeeds => Verdict(0, FailureOf[use]) /\ use' = use
    BY <1>1 DEF UseFile, Exec, Fault
  <1>3. /\ tree'["grade"] = IF Succeeds THEN tree["grade"] \cup Adds ELSE tree["grade"]
        /\ tree["grade"] = Image \cup Applied
        /\ use \in Uses /\ "conftest" \notin tree["grade"]
    BY <1>1, <1>2, GradingKeeps DEF CInv, SInv, Sandboxes, CalmStage
  <1>4. /\ patch \cap (Image \cup {"testPatch", "conftest"}) = {}
        /\ "fix" \in patch <=> "fix" \in Submission
        /\ "breaks" \in patch <=> "breaks" \in Submission
    BY GradingKeeps, PatchOfSubmission
  <1>5. /\ patch' = patch /\ row' = row /\ Submission' = Submission
        /\ use = "r2e" => row.kind = "r2e"
        /\ use \in {"test.patch", "f2p", "p2p"} => row.kind = "swebench"
        /\ use = "p2p" => "fix" \in patch /\ ~row.noP2p
        /\ row.kind \in {"r2e", "swebench"} /\ (row.noP2p => row.kind = "swebench")
        /\ pc' = "grade" /\ \A s \in Sandboxes : pod'[s] # "ended"
    BY <1>1, GradingKeeps DEF CalmStage, CalmBoot
  <1>6. ASSUME grade' = "delete", use' = use, RightVerdict' PROVE Calm'
    <2>1. CalmStage'
      BY <1>5, <1>6 DEF CalmStage
    <2> QED
      BY <1>1, <1>5, <1>6, <2>1, StaysGrading
  <1>7. ASSUME grade' = "write" \/ (grade' = "use" /\ use' = "r2e"),
               grade' = "write" => use' # "r2e",
               tree'["grade"] = Image \cup Applied', 
               use' = "r2e" => row.kind = "r2e",
               use' \in {"test.patch", "f2p", "p2p"} => row.kind = "swebench",
               use' = "p2p" => "fix" \in patch /\ ~row.noP2p
        PROVE  Calm'
    <2>1. CalmStage'
      BY <1>1, <1>5, <1>7 DEF CalmStage
    <2> QED
      BY <1>1, <1>5, <1>7, <2>1, StaysGrading
  <1>8. CASE use = "agent.patch"
    <2>1. Succeeds /\ tree'["grade"] = Image \cup patch
      BY <1>1, <1>3, <1>4, <1>8 DEF Succeeds, Adds, Applied
    <2>2. \/ row.kind = "r2e" /\ use' = "r2e" /\ grade' = "use"
          \/ row.kind = "swebench" /\ use' = "test.patch" /\ grade' = "write"
      BY <1>2, <1>5, <1>8, <2>1 DEF Onwards, Turn
    <2>3. Applied' = patch
      BY <1>5, <2>2 DEF Applied
    <2> QED
      BY <1>7, <2>1, <2>2, <2>3
  <1>9. CASE use = "test.patch"
    <2>1. Succeeds /\ tree'["grade"] = Image \cup patch \cup {"testPatch"}
      BY <1>1, <1>3, <1>4, <1>9 DEF Succeeds, Adds, Applied, Image
    <2>2. use' = "f2p" /\ grade' = "write"
      BY <1>2, <1>9, <2>1 DEF Onwards, Turn
    <2>3. Applied' = patch \cup {"testPatch"}
      BY <1>5, <2>2 DEF Applied
    <2> QED
      BY <1>5, <1>7, <1>9, <2>1, <2>2, <2>3
  <1>10. CASE use \in {"r2e", "f2p", "p2p"}
    <2>1. /\ tree'["grade"] = tree["grade"]
          /\ "fix" \in tree["grade"] <=> "fix" \in Submission
          /\ "breaks" \in tree["grade"] <=> "breaks" \in Submission
      BY <1>3, <1>4, <1>10 DEF Adds, Applied, Image
    <2>2. Succeeds <=> CASE use = "r2e" -> "fix" \in Submission /\ "breaks" \notin Submission
                         [] use = "f2p" -> "fix" \in Submission
                         [] use = "p2p" -> "breaks" \notin Submission
      BY <1>1, <1>3, <1>10, <2>1, WhatPasses DEF Succeeds
    <2>3. CASE Succeeds /\ use = "f2p" /\ ~row.noP2p
      <3>1. use' = "p2p" /\ grade' = "write"
        BY <1>2, <2>3 DEF Onwards, Turn
      <3>2. Applied' = Applied
        BY <1>5, <2>3, <3>1 DEF Applied
      <3> QED
        BY <1>3, <1>4, <1>5, <1>7, <2>1, <2>2, <2>3, <3>1, <3>2
    <2>4. CASE Succeeds /\ ~(use = "f2p" /\ ~row.noP2p)
      <3>1. reward' = 1 /\ grade' = "delete" /\ use' = use
        BY <1>2, <1>10, <2>4 DEF Onwards, Verdict
      <3>2. "fix" \in Submission /\ ("breaks" \in Submission => row.noP2p)
        BY <1>4, <1>5, <1>10, <2>2, <2>4
      <3>3. RightVerdict'
        BY <1>5, <3>1, <3>2 DEF RightVerdict
      <3> QED
        BY <1>6, <3>1, <3>3
    <2>5. CASE ~Succeeds
      <3>1. reward' = 0 /\ grade' = "delete" /\ use' = use
        BY <1>2, <2>5 DEF Verdict
      <3>2. ~("fix" \in Submission /\ ("breaks" \in Submission => row.noP2p))
        BY <1>5, <1>10, <2>2, <2>5
      <3>3. RightVerdict'
        BY <1>5, <3>1, <3>2 DEF RightVerdict
      <3> QED
        BY <1>6, <3>1, <3>3
    <2> QED
      BY <2>3, <2>4, <2>5
  <1> QED
    BY <1>3, <1>8, <1>9, <1>10 DEF Uses

\* The two deletes change no more than the pods.
LEMMA DeletesCalm ==
    ASSUME CInv, ~faulted, ~faulted', GradeDelete \/ Return
    PROVE  Calm'
  <1>1. /\ Calm /\ pod \in [Sandboxes -> {"none", "pending", "running", "ended"}]
        /\ (client => boot = "ready") /\ (grade # "idle" => pc = "grade" /\ client /\ submitted)
    BY DEF CInv, TInv, TypeOK
  <1>2. UNCHANGED <<row, client, submitted, boot, result, use, chunk, patch, tree, head, file, lateBaseline>>
    BY DEF GradeDelete, Return, loop, contents, grading
  <1>3. Submission' = Submission /\ (RightVerdict' <=> RightVerdict)
    BY <1>2 DEF Submission, RightVerdict, result
  <1>4. CASE GradeDelete
    <2>1. grade = "delete" /\ grade' = "idle" /\ pc' = "finally" /\ pod' = [pod EXCEPT !["grade"] = "none"]
      BY <1>4 DEF GradeDelete, Delete, Fault
    <2>2. CalmBoot' /\ CalmTree'
      BY <1>1, <1>2, <2>1 DEF Calm, CalmBoot, CalmTree, Sandboxes
    <2> QED
      BY <1>1, <1>2, <1>3, <2>1, <2>2 DEF Calm, CalmGrading, result
  <1>5. CASE Return
    <2>1. pc = "delete" /\ grade' = grade /\ pc' = "done" /\ pod' = [pod EXCEPT !["swe"] = "none"]
      BY <1>5 DEF Return, Delete, Fault, grading
    <2>2. CalmBoot' /\ CalmTree'
      BY <1>1, <1>2, <2>1 DEF Calm, CalmBoot, CalmTree, Sandboxes
    <2> QED
      BY <1>1, <1>2, <1>3, <2>1, <2>2 DEF Calm, CalmGrading, result
  <1> QED
    BY <1>4, <1>5

LEMMA ClusterCalm ==
    ASSUME CInv, ~faulted, ~faulted',
           LateBaseline \/ \E s \in Sandboxes : PodRuns(s) \/ PodEnds(s)
    PROVE  Calm'
  <1>1. Calm /\ pod \in [Sandboxes -> {"none", "pending", "running", "ended"}]
    BY DEF CInv, TInv, TypeOK
  <1>2. PICK s \in Sandboxes : PodRuns(s)
    BY <1>1 DEF LateBaseline, Calm, CalmBoot, PodEnds, Fault
  <1>3. /\ UNCHANGED <<coroutine, boot, contents>>
        /\ pod[s] = "pending" /\ pod' = [pod EXCEPT ![s] = "running"]
    BY <1>2 DEF PodRuns
  <1>4. CalmBoot' /\ CalmTree'
    BY <1>1, <1>3 DEF Calm, CalmBoot, CalmTree, coroutine, contents, Sandboxes
  <1>5. CalmStage => CalmStage'
    BY <1>1, <1>3 DEF CalmStage, Applied, Intact, Sandboxes, coroutine, grading, loop, contents
  <1> QED
    BY <1>1, <1>3, <1>4, <1>5
    DEF Calm, CalmGrading, RightVerdict, Submission, coroutine, loop, grading, result, contents

\* Once something has gone wrong it stays so.
LEMMA FaultsStay == [Next]_vars => faulted' = faulted \/ faulted' = TRUE
  <1> SUFFICES ASSUME [Next]_vars PROVE faulted' = faulted \/ faulted' = TRUE
    OBVIOUS
  <1> USE DEF Fault
  <1>1. CASE UNCHANGED vars
    BY <1>1 DEF vars
  <1>2. CASE Boot
    BY <1>2 DEF Boot, BootCreate, BootWait, Baseline, Create, WaitReady, Exec
  <1>3. CASE Generate \/ Decode \/ AwaitBoot \/ RunCommand \/ Observe \/ InfraRaises \/ Diff
    BY <1>3 DEF Generate, Decode, AwaitBoot, RunCommand, Observe, InfraRaises, Diff, Exec
  <1>4. CASE GradeCreate \/ GradeWait \/ WriteChunk \/ UseFile \/ GradeDelete \/ Finally \/ Return
    BY <1>4 DEF GradeCreate, GradeWait, WriteChunk, UseFile, GradeDelete, Finally, Return,
                Create, WaitReady, Exec, Delete
  <1>5. CASE LateBaseline \/ \E s \in Sandboxes : PodRuns(s) \/ PodEnds(s)
    BY <1>5 DEF LateBaseline, PodRuns, PodEnds
  <1> QED
    BY <1>1, <1>2, <1>3, <1>4, <1>5 DEF Next, Run

LEMMA StepCalm == CInv /\ [Next]_vars => CInv'
  <1> SUFFICES ASSUME CInv, [Next]_vars, ~faulted' PROVE Calm'
    BY StepTyped, StepReclaims, StepSound DEF CInv
  <1>1. ~faulted
    BY FaultsStay DEF CInv
  <1>2. CASE UNCHANGED vars
    <2>1. UNCHANGED <<row, client, submitted, pc, reward, reason, boot, grade, use, chunk, patch, pod,
                      tree, head, file, lateBaseline>>
      BY <1>2 DEF vars, loop, result, outside, grading, cluster, contents
    <2> QED
      BY <1>1, <2>1 DEF CInv, Calm, CalmBoot, CalmTree, CalmGrading, CalmStage, Applied, Intact,
                        RightVerdict, Submission
  <1>3. CASE Boot
    BY <1>1, <1>3, BootCalm
  <1>4. CASE Run
    BY <1>1, <1>4, CoroutineCalm, DiffCalm, GradeCreateCalm, GradeWaitCalm, WriteChunkCalm,
       UseFileCalm, DeletesCalm DEF Run
  <1>5. CASE LateBaseline \/ \E s \in Sandboxes : PodRuns(s) \/ PodEnds(s)
    BY <1>1, <1>5, ClusterCalm
  <1> QED
    BY <1>2, <1>3, <1>4, <1>5 DEF Next

\* Where nothing goes wrong the reward is the verdict on the agent's uncommitted edits: the
\* fix without a regression the row sees, and nothing else, scores 1.
THEOREM RewardIsComplete == Spec => []RewardComplete
  <1>1. CInv => RewardComplete
    BY DEF CInv, Calm, CalmGrading, RightVerdict, Submission, RewardComplete
  <1> QED
    BY InitCalm, StepCalm, <1>1, PTL DEF Spec
=============================================================================
