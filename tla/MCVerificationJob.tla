------------------------- MODULE MCVerificationJob -------------------------
(* Small instances of VerificationJob for TLC. *)
EXTENDS VerificationJob, TLC

CONSTANTS v, w, j, k

Called(kinds, jobs, cwds, relative) ==
    [kind: kinds, job: jobs, cwd: cwds, relative: relative]

\* With absolute paths: every command on one job, a verification of another.
AbsoluteCalls ==
    Called(Kinds, {j}, {"repository"}, {FALSE})
        \union Called({"offline-verify"}, {k}, {"repository"}, {FALSE})
        \union Called({"offline-verify"}, {j}, {"python"}, {FALSE})

\* With relative paths, from either directory.
RelativeCalls == Called({"offline-verify"}, {j}, {"repository", "python"}, {TRUE})

OfflineCalls == Called({"offline-verify"}, {j}, {"repository"}, {FALSE})

Processes == Permutations({v, w})
=============================================================================
