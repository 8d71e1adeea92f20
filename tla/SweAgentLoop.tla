----------------------------- MODULE SweAgentLoop -----------------------------
(***************************************************************************)
(* One SWE trajectory: the coroutine run() with its turns and its token    *)
(* accounting, the executor thread that boots the sandbox meanwhile, the   *)
(* grading of the submitted diff in a second sandbox, and the cluster.     *)
(* The coroutine awaits one executor job at a time, so it and that job are *)
(* one thread here, "run"; the other is "boot".                            *)
(***************************************************************************)
EXTENDS Integers, SequencesExt, SweGrading

CONSTANTS
    MaxAssistantTurns,
    ResponseLength,
    GenLens,      \* lengths of what the model generates in a turn
    ObsLens,      \* lengths of an observation
    Retries,      \* of SandboxClient.exec; 2 in the code
    FileChunks,   \* execs that write_file needs for one file
    Faults        \* what may go wrong, see FaultKinds

\* infra: generate, the tokenizer or the chat template raises; api: a Kubernetes call raises;
\* slow: wait_ready runs into its deadline; pod: a pod fails or is evicted; stream: the
\* websocket of an exec breaks; lost: it ends at the deadline or without a return code;
\* late: the command it carried goes on running in the pod.
FaultKinds == {"infra", "api", "slow", "pod", "stream", "lost", "late"}

ASSUME LoopAssumption ==
    /\ MaxAssistantTurns \in Nat \ {0} /\ ResponseLength \in Nat \ {0}
    /\ GenLens \subseteq Nat /\ ObsLens \subseteq Nat
    /\ Retries \in Nat /\ FileChunks \in Nat \ {0}
    /\ Faults \subseteq FaultKinds

VARIABLES
    row,                              \* dataset_kind, and whether pass_to_pass is empty
    pc, client, submitted,            \* the coroutine; client: it has awaited the boot
    assistantTurns, userTurns,
    command,                          \* what the last turn asks to run
    response, mask,                   \* full_ids after the prompt, response_mask
    logprobs, hasLogprobs,
    reward, reason,
    boot,                             \* where _create_sandbox stands
    attempt,                          \* failed attempts of the exec each thread is in
    grade, use, chunk, patch,         \* where grade_patch_pristine stands
    cr, pod, undeleted,               \* the Sandbox resources, their pods, failed deletes
    tree, head, file,                 \* working trees; HEAD of /testbed; the file last written
    lateBaseline,                     \* BASELINE_CMD still runs although its exec has ended
    faulted                           \* something has gone wrong

turns == <<assistantTurns, userTurns>>
tokens == <<response, mask, logprobs, hasLogprobs>>
loop == <<row, client, submitted, turns, command, tokens>>
result == <<reward, reason>>
grading == <<grade, use, chunk, patch>>
coroutine == <<loop, pc, result, grading>>
cluster == <<cr, pod, undeleted>>
contents == <<tree, head, file, lateBaseline>>
outside == <<boot, attempt, grading, cluster, contents>>
vars == <<loop, pc, result, outside, faulted>>

Sandboxes == {"swe", "grade"}
AgentEdits == {"fix", "breaks", "conftest"}
Commands == AgentEdits \cup {"look", "commit"}
Image == {"harness"}

Init ==
    /\ row \in {r \in [kind : {"r2e", "swebench"}, noP2p : BOOLEAN] : r.noP2p => r.kind = "swebench"}
    /\ pc = "generate" /\ client = FALSE /\ submitted = FALSE
    /\ assistantTurns = 0 /\ userTurns = 0 /\ command = "look"
    /\ response = << >> /\ mask = << >> /\ logprobs = << >> /\ hasLogprobs = TRUE
    /\ reward = 0 /\ reason = "no-submit"
    /\ boot = "create" /\ attempt = [t \in {"boot", "run"} |-> 0]
    /\ grade = "idle" /\ use = "agent.patch" /\ chunk = 1 /\ patch = {}
    /\ cr = [s \in Sandboxes |-> "absent"] /\ pod = [s \in Sandboxes |-> "none"]
    /\ undeleted = {}
    /\ tree = [s \in Sandboxes |-> Image] /\ head = {} /\ file = << >>
    /\ lateBaseline = FALSE
    /\ faulted = FALSE

Fault(kind) == kind \in Faults /\ faulted' = TRUE

----------------------------------------------------------------------------
(* SandboxClient *)

\* create: the resource may exist although the call raises.
Create(s, created, raised) ==
    \/ /\ \/ created /\ UNCHANGED faulted
          \/ raised /\ Fault("api")
       /\ cr' = [cr EXCEPT ![s] = "exists"]
       /\ pod' = [pod EXCEPT ![s] = "pending"]
    \/ raised /\ Fault("api") /\ UNCHANGED <<cr, pod>>

\* Mutant of WaitReady: it polls for ever.
WaitReadyForever(s, ready, raised) ==
    /\ \/ pod[s] = "running" /\ ready
       \/ pod[s] = "ended" /\ raised
    /\ UNCHANGED faulted

\* wait_ready: running, ended, past the deadline, or a read that raises.
WaitReady(s, ready, raised) ==
    \/ pod[s] = "running" /\ ready /\ UNCHANGED faulted
    \/ pod[s] = "ended" /\ raised /\ UNCHANGED faulted
    \/ raised /\ (Fault("slow") \/ Fault("api"))

\* One attempt of exec.  The command runs and its output and return code come back (came);
\* or the stream ends without a return code (rc -1, or 124 at the deadline), with the whole
\* output (noCode) or not (lost), whether the command ran or not; or it breaks, and the
\* whole command is sent again until the attempts are used up.
Exec(t, s, ran, notRun, came, noCode, lost, raised, again) ==
    \/ /\ pod[s] = "running"
       /\ \/ ran /\ came /\ UNCHANGED faulted
          \/ ran /\ (noCode \/ lost) /\ Fault("lost")
          \/ notRun /\ lost /\ Fault("lost")
       /\ attempt' = [attempt EXCEPT ![t] = 0]
    \/ /\ \/ pod[s] = "running" /\ (ran \/ notRun) /\ Fault("stream")
          \/ pod[s] # "running" /\ notRun /\ UNCHANGED faulted
       /\ IF attempt[t] < Retries
          THEN again /\ attempt' = [attempt EXCEPT ![t] = @ + 1]
          ELSE raised /\ attempt' = [attempt EXCEPT ![t] = 0]

\* delete: 404 is fine, any other error is swallowed by the caller.
Delete(s) ==
    \/ /\ cr' = [cr EXCEPT ![s] = IF @ = "exists" THEN "deleted" ELSE @]
       /\ pod' = [pod EXCEPT ![s] = "none"]
       /\ UNCHANGED <<undeleted, faulted>>
    \/ undeleted' = undeleted \cup {s} /\ Fault("api") /\ UNCHANGED <<cr, pod>>

----------------------------------------------------------------------------
(* _create_sandbox, in the thread "boot" *)

BootCreate ==
    /\ boot = "create"
    /\ Create("swe", boot' = "wait", boot' = "failed")
    /\ UNCHANGED <<coroutine, attempt, undeleted, contents>>

BootWait ==
    /\ boot = "wait"
    /\ WaitReady("swe", boot' = "baseline", boot' = "failed")
    /\ UNCHANGED <<coroutine, attempt, cluster, contents>>

\* Mutant of Commit: nothing is committed.
CommitNothing == UNCHANGED head

\* git commit of the whole working tree.
Commit == head' = tree["swe"]

\* BASELINE_CMD commits what the image changed, so that a later git diff HEAD is the agent's
\* own.  Its return code is not looked at.
Baseline ==
    /\ boot = "baseline"
    /\ Exec("boot", "swe",
            Commit /\ UNCHANGED lateBaseline,
            UNCHANGED head /\ (UNCHANGED lateBaseline \/ ("late" \in Faults /\ lateBaseline' = TRUE)),
            boot' = "ready", boot' = "ready", boot' = "ready", boot' = "failed", UNCHANGED boot)
    /\ UNCHANGED <<coroutine, cluster, tree, file>>

----------------------------------------------------------------------------
(* run(), up to the submission *)

\* After the while loop.
LeaveLoop(why, n) ==
    /\ reason' = IF n >= MaxAssistantTurns THEN "max-turns" ELSE why
    /\ pc' = "finally"

\* The except clause.
Rescue == reward' = 0 /\ reason' = "rollout-error" /\ pc' = "finally"

\* Mutant of Extend: an observation has no log-probabilities.
ExtendWithoutZeros(tag, n, given) ==
    /\ response' = response \o [i \in 1..n |-> tag]
    /\ mask' = mask \o [i \in 1..n |-> IF tag = "llm" THEN 1 ELSE 0]
    /\ hasLogprobs' = (hasLogprobs /\ given)
    /\ logprobs' = IF hasLogprobs' /\ tag = "llm" THEN logprobs \o [i \in 1..n |-> tag] ELSE logprobs

\* n tokens join the response; "obs" also stands for their log-probability 0.0.
Extend(tag, n, given) ==
    /\ response' = response \o [i \in 1..n |-> tag]
    /\ mask' = mask \o [i \in 1..n |-> IF tag = "llm" THEN 1 ELSE 0]
    /\ hasLogprobs' = (hasLogprobs /\ given)
    /\ logprobs' = IF hasLogprobs' THEN logprobs \o [i \in 1..n |-> tag] ELSE logprobs

\* What is generated is cut to the budget; the engine may give log_probs or not.
Generate ==
    /\ pc = "generate"
    /\ \E length \in GenLens, given \in BOOLEAN :
         LET budget == ResponseLength - Len(mask)
             n == IF length <= budget THEN length ELSE budget IN
         /\ Extend("llm", n, given)
         /\ assistantTurns' = assistantTurns + 1
         /\ IF n = budget THEN LeaveLoop("token-budget", assistantTurns')
                          ELSE pc' = "decode" /\ UNCHANGED reason
    /\ UNCHANGED <<row, client, submitted, userTurns, command, reward, outside, faulted>>

\* What parse_bash_command makes of a reply: its last bash block, or none.
Blocks == Commands \cup {"submit"}
Parsed == Blocks \cup {"none"}

is_submit(block) == block = "submit"

\* A block is run unless it submits; without one the observation says so.
Decode ==
    /\ pc = "decode"
    /\ \E block \in Parsed :
         \/ /\ block \in Blocks /\ is_submit(block)
            /\ submitted' = TRUE /\ pc' = "submit" /\ UNCHANGED command
         \/ /\ block \in Blocks /\ ~is_submit(block)
            /\ command' = block /\ pc' = "command" /\ UNCHANGED submitted
         \/ /\ block \notin Blocks
            /\ pc' = "observe" /\ UNCHANGED <<command, submitted>>
    /\ UNCHANGED <<row, client, turns, tokens, result, outside, faulted>>

\* Mutant of Booted: the sandbox is used as soon as its pod runs.
BootedEarly == pod["swe"] = "running"

Booted == boot = "ready"

\* `if client is None: client = await sandbox_future`, which raises what the boot raised.
AwaitBoot ==
    /\ pc \in {"command", "submit"} /\ ~client
    /\ \/ Booted /\ client' = TRUE /\ UNCHANGED <<pc, result>>
       \/ boot = "failed" /\ Rescue /\ UNCHANGED client
    /\ UNCHANGED <<row, submitted, turns, command, tokens, outside, faulted>>

\* What the agent's command does to the repository.
Effect(c) ==
    /\ tree' = [tree EXCEPT !["swe"] = IF c \in AgentEdits THEN @ \cup {c} ELSE @]
    /\ IF c = "commit" THEN Commit ELSE UNCHANGED head

RunCommand ==
    LET observed == pc' = "observe" /\ UNCHANGED result IN
    /\ pc = "command" /\ client
    /\ Exec("run", "swe", Effect(command), UNCHANGED <<tree, head>>,
            observed, observed, observed, Rescue, UNCHANGED <<pc, result>>)
    /\ UNCHANGED <<loop, boot, grading, cluster, file, lateBaseline>>

\* The observation is appended with mask 0, then the loop condition.
Observe ==
    /\ pc = "observe"
    /\ \E n \in ObsLens :
         IF Len(mask) + n >= ResponseLength
         THEN LeaveLoop("token-budget", assistantTurns) /\ UNCHANGED <<tokens, userTurns>>
         ELSE /\ Extend("obs", n, TRUE)
              /\ userTurns' = userTurns + 1
              /\ IF assistantTurns < MaxAssistantTurns
                 THEN pc' = "generate" /\ UNCHANGED reason
                 ELSE LeaveLoop(reason, assistantTurns)
    /\ UNCHANGED <<row, client, submitted, assistantTurns, command, reward, outside, faulted>>

InfraRaises ==
    /\ pc \in {"generate", "decode", "observe"}
    /\ Rescue /\ Fault("infra")
    /\ UNCHANGED <<loop, outside>>

----------------------------------------------------------------------------
(* _grade and grade_patch_pristine *)

End(why) == reward' = 0 /\ reason' = why /\ pc' = "finally" /\ UNCHANGED <<grade, patch>>

\* grade_patch_pristine before its try: nothing left after the filter, nothing to grade.
BeginGrading(agent_diff) ==
    LET filtered == filter_patch(agent_diff) IN
    \/ filtered = {} /\ End("empty-patch")
    \/ /\ filtered # {}
       /\ grade' = "create" /\ patch' = filtered /\ pc' = "grade" /\ UNCHANGED result

\* DIFF_CMD in the rollout sandbox; a diff may be too large.
Diff ==
    LET diff == tree["swe"] \ head IN
    /\ pc = "submit" /\ client
    /\ Exec("run", "swe", TRUE, TRUE,
            \/ diff # {} /\ End("diff-too-large")
            \/ BeginGrading(diff),
            End("diff-failed"), End("diff-failed"),
            Rescue /\ UNCHANGED <<grade, patch>>,
            UNCHANGED <<pc, result, grade, patch>>)
    /\ UNCHANGED <<loop, boot, use, chunk, cluster, contents>>

\* A verdict; the sandbox is deleted before it is returned.
Verdict(value, why) == reward' = value /\ reason' = why /\ grade' = "delete"
GradingError == Verdict(0, "grading-error")

\* get_thread_client comes before the try: what it raises is run()'s.
GradeCreate ==
    /\ grade = "create"
    /\ \/ Create("grade", grade' = "wait" /\ UNCHANGED result, GradingError) /\ UNCHANGED pc
       \/ Rescue /\ grade' = "idle" /\ Fault("api") /\ UNCHANGED <<cr, pod>>
    /\ UNCHANGED <<loop, boot, attempt, use, chunk, patch, undeleted, contents>>

GradeWait ==
    /\ grade = "wait"
    /\ WaitReady("grade", grade' = "write" /\ UNCHANGED result, GradingError)
    /\ UNCHANGED <<loop, pc, boot, attempt, use, chunk, patch, cluster, contents>>

\* write_file: the first chunk truncates, the others append; a return code other than 0 raises.
WriteChunk ==
    LET failed == GradingError /\ UNCHANGED chunk IN
    /\ grade = "write"
    /\ Exec("run", "grade",
            file' = IF chunk = 1 THEN <<1>> ELSE Append(file, chunk),
            UNCHANGED file,
            /\ UNCHANGED result
            /\ IF chunk = FileChunks THEN grade' = "use" /\ chunk' = 1
                                     ELSE chunk' = chunk + 1 /\ UNCHANGED grade,
            failed, failed, failed,
            UNCHANGED <<result, grade, chunk>>)
    /\ UNCHANGED <<loop, pc, boot, use, patch, cluster, tree, head, lateBaseline>>

Intact == file = [i \in 1..FileChunks |-> i]

\* What git apply is to add to the working tree.
Adds == CASE use = "agent.patch" -> patch [] use = "test.patch" -> {"testPatch"} [] OTHER -> {}

\* git apply takes an intact patch none of whose changes are there already; the test runs
\* need an intact list of ids.
Succeeds ==
    CASE use \in {"agent.patch", "test.patch"} -> Intact /\ Adds \cap tree["grade"] = {}
      [] use = "r2e" -> grade_r2e(Report(tree["grade"]), expected)
      [] use = "f2p" -> Intact /\ AllPass(tree["grade"], fail_to_pass)
      [] use = "p2p" -> Intact /\ AllPass(tree["grade"], pass_to_pass)

FailureOf ==
    [u \in {"agent.patch", "test.patch", "r2e", "f2p", "p2p"} |->
        CASE u = "agent.patch" -> "patch-apply-failed" [] u = "test.patch" -> "test-patch-apply-failed"
          [] u = "r2e" -> "tests-mismatch" [] u = "f2p" -> "f2p-failed" [] u = "p2p" -> "p2p-failed"]

\* What the grader turns to next; an empty pass_to_pass is a pass without a run.
Turn(next, stage) == use' = next /\ grade' = stage /\ UNCHANGED result
Onwards ==
    CASE use = "agent.patch" /\ row.kind = "r2e" -> Turn("r2e", "use")
      [] use = "agent.patch" /\ row.kind = "swebench" -> Turn("test.patch", "write")
      [] use = "test.patch" -> Turn("f2p", "write")
      [] use = "f2p" /\ ~row.noP2p -> Turn("p2p", "write")
      [] OTHER -> Verdict(1, "pass") /\ UNCHANGED use

\* git apply, or a run of the tests on the file just written; the r2e report is read from
\* the output whatever the return code.
UseFile ==
    LET failed == Verdict(0, FailureOf[use]) /\ UNCHANGED use
        judged == IF Succeeds THEN Onwards ELSE failed IN
    /\ grade = "use"
    /\ Exec("run", "grade",
            tree' = [tree EXCEPT !["grade"] = IF Succeeds THEN @ \cup Adds ELSE @],
            UNCHANGED tree,
            judged, IF use = "r2e" THEN judged ELSE failed, failed,
            GradingError /\ UNCHANGED use,
            UNCHANGED <<result, grade, use>>)
    /\ UNCHANGED <<loop, pc, boot, chunk, patch, cluster, head, file, lateBaseline>>

GradeDelete ==
    /\ grade = "delete"
    /\ Delete("grade")
    /\ grade' = "idle" /\ pc' = "finally"
    /\ UNCHANGED <<loop, result, boot, attempt, use, chunk, patch, contents>>

----------------------------------------------------------------------------
(* The finally clause and the output *)

\* Mutant of BootOver: a boot nobody has awaited is left alone.
BootOverAtOnce == TRUE

\* A boot that nobody has awaited is awaited in the end.
BootOver == client \/ boot \in {"ready", "failed"}

Finally ==
    /\ pc = "finally" /\ BootOver
    /\ pc' = "delete"
    /\ client' = (client \/ boot = "ready")
    /\ UNCHANGED <<row, submitted, turns, command, tokens, result, outside, faulted>>

\* The rollout sandbox is deleted and the output built: an empty response becomes one
\* pad token that is masked.
Return ==
    /\ pc = "delete"
    /\ Delete("swe")
    /\ pc' = "done"
    /\ IF response = << >>
       THEN /\ response' = <<"pad">> /\ mask' = <<0>> /\ logprobs' = <<"pad">>
            /\ UNCHANGED hasLogprobs
       ELSE UNCHANGED tokens
    /\ UNCHANGED <<row, client, submitted, turns, command, result, boot, attempt, grading, contents>>

----------------------------------------------------------------------------
(* The cluster *)

PodRuns(s) ==
    /\ pod[s] = "pending"
    /\ pod' = [pod EXCEPT ![s] = "running"]
    /\ UNCHANGED <<coroutine, boot, attempt, cr, undeleted, contents, faulted>>

PodEnds(s) ==
    /\ pod[s] \in {"pending", "running"}
    /\ pod' = [pod EXCEPT ![s] = "ended"]
    /\ Fault("pod")
    /\ UNCHANGED <<coroutine, boot, attempt, cr, undeleted, contents>>

\* A baseline commit whose exec has given it up.
LateBaseline ==
    /\ lateBaseline /\ pod["swe"] = "running"
    /\ Commit /\ lateBaseline' = FALSE
    /\ UNCHANGED <<coroutine, boot, attempt, cluster, tree, file, faulted>>

Boot == BootCreate \/ BootWait \/ Baseline

Run ==
    \/ Generate \/ Decode \/ AwaitBoot \/ RunCommand \/ Observe \/ InfraRaises
    \/ Diff \/ GradeCreate \/ GradeWait \/ WriteChunk \/ UseFile \/ GradeDelete
    \/ Finally \/ Return

Next ==
    \/ Boot \/ Run
    \/ \E s \in Sandboxes : PodRuns(s) \/ PodEnds(s)
    \/ LateBaseline

Spec == Init /\ [][Next]_vars

\* Threads go on and engines answer.  exec and wait_ready have deadlines, so that a pod need
\* never run; that the API calls of create, read and delete, which pass no timeout, return or
\* raise is assumed.
FairSpec == Spec /\ WF_vars(Boot) /\ WF_vars(Run)

----------------------------------------------------------------------------
\* Besides the types: nothing is done in a sandbox before its boot, there is a grading
\* sandbox only for a submission, and the attempts of an exec are bounded.
TypeOK ==
    /\ pc \in {"generate", "decode", "command", "observe", "submit", "grade", "finally", "delete", "done"}
    /\ boot \in {"create", "wait", "baseline", "ready", "failed"}
    /\ client => boot = "ready"
    /\ grade \in {"idle", "create", "wait", "write", "use", "delete"}
    /\ grade # "idle" => pc = "grade" /\ client /\ submitted
    /\ assistantTurns \in 0..MaxAssistantTurns /\ userTurns \in 0..assistantTurns
    /\ command \in Commands
    /\ attempt \in [{"boot", "run"} -> 0..Retries]
    /\ use \in DOMAIN FailureOf /\ chunk \in 1..FileChunks
    /\ patch \subseteq AgentEdits \cup Image
    /\ cr \in [Sandboxes -> {"absent", "exists", "deleted"}]
    /\ pod \in [Sandboxes -> {"none", "pending", "running", "ended"}]
    /\ undeleted \subseteq Sandboxes
    /\ tree \in [Sandboxes -> SUBSET Edits] /\ head \subseteq Edits

\* "verl requires the exact token ids": whatever raised, the ids, their mask and their
\* log-probabilities have one length within the budget, and only generated tokens count;
\* what is returned is never empty.
TokensAligned ==
    /\ Len(response) = Len(mask)
    /\ Len(response) <= ResponseLength
    /\ \A i \in DOMAIN mask : mask[i] = 1 <=> response[i] = "llm"
    /\ hasLogprobs => logprobs = response
    /\ pc = "done" => response # << >>

\* "Delete both sandboxes": when the loop returns no sandbox is left, not even one whose
\* boot failed or was still running, unless the delete itself failed.
SandboxesReclaimed ==
    pc = "done" => \A s \in Sandboxes : cr[s] = "exists" => s \in undeleted

\* A reward is never given for nothing, whatever fails and is retried: the agent submitted,
\* and the sandbox that was graded holds the fix, no regression that the row's tests see, no
\* edit of the agent's to a test, and nothing the agent did not write.
RewardSound ==
    reward = 1 =>
        /\ submitted
        /\ "fix" \in tree["grade"] /\ "conftest" \notin tree["grade"]
        /\ "breaks" \in tree["grade"] => row.noP2p
        /\ tree["grade"] \subseteq tree["swe"] \cup Image \cup {"testPatch"}

\* When nothing goes wrong the reward is the verdict on the agent's uncommitted edits: the
\* fix without a regression, and no other, scores 1.  (A row without pass_to_pass does not
\* see regressions.)
RewardComplete ==
    LET diff == tree["swe"] \ head IN
    pc = "done" /\ submitted /\ ~faulted /\ reason # "diff-too-large" =>
        (reward = 1 <=> /\ "fix" \in diff
                        /\ "breaks" \in diff => row.noP2p)

\* The trajectory ends, although a pod may stay pending for ever.
Returns == <>(pc = "done")
=============================================================================
