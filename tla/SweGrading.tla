------------------------------ MODULE SweGrading ------------------------------
(***************************************************************************)
(* What decides the reward of an SWE trajectory: which of the agent's      *)
(* edits reach the grading sandbox, and when a run of the tests counts as  *)
(* a pass.  A working tree is the set of the edits made to the repository; *)
(* an edit stands for the chunk of a git diff that makes it.               *)
(***************************************************************************)
EXTENDS Functions

\* harness: the image's own uncommitted changes; fix: what the issue asks for; breaks:
\* makes a test fail that passed; conftest: an edit under a test path, which makes every
\* test pass; testPatch: the tests of a swebench row.
Edits == {"harness", "fix", "breaks", "conftest", "testPatch"}

\* Edits whose path matches TEST_PATH_RE.
TestPaths == {"conftest", "testPatch"}

\* Mutant of filter_patch: test files reach the grading sandbox.
filter_patch_nothing(diff) == diff

filter_patch(diff) == diff \ TestPaths

PASSED == "PASSED"
FAILED == "FAILED"
SKIPPED == "SKIPPED"

\* The graded tests, and the statuses an r2e row expects: one test fails even when the fix
\* is right, and what is skipped on Linux is not part of the row.
Tests == {"fixed", "kept", "wontfix", "windows"}
expected == [fixed |-> PASSED, kept |-> PASSED, wontfix |-> FAILED]

\* What the tests report on a working tree.
Report(tree) ==
    [t \in Tests |->
        CASE t = "windows" -> SKIPPED
          [] "conftest" \in tree -> PASSED
          [] t = "fixed" -> IF "fix" \in tree THEN PASSED ELSE FAILED
          [] t = "kept" -> IF "breaks" \in tree THEN FAILED ELSE PASSED
          [] t = "wontfix" -> FAILED]

\* GradeResult.passed: nothing missing, nothing extra, no mismatch, once the skipped tests
\* are dropped.
grade_r2e(statuses, spec) ==
    LET ran == Restrict(statuses, {t \in DOMAIN statuses : statuses[t] # SKIPPED}) IN
    /\ DOMAIN spec = DOMAIN ran
    /\ \A t \in DOMAIN spec : ran[t] = spec[t]

\* _run_pytest_ids: pytest on a list of ids succeeds iff all of them pass.
AllPass(tree, ids) == \A t \in ids : Report(tree)[t] = PASSED
fail_to_pass == {"fixed"}
pass_to_pass == {"kept"}
=============================================================================
