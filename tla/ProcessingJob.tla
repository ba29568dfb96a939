----------------------------- MODULE ProcessingJob -----------------------------
(***************************************************************************)
(* What the server promises about the processing of a photo, without       *)
(* instances, transactions or locks: a photo that is accepted waits, fails *)
(* a bounded number of times, and ends completed or failed; a late success *)
(* may still complete what had failed, nothing undoes a success, and what  *)
(* is deleted stays deleted.                                               *)
(***************************************************************************)
EXTENDS Naturals

CONSTANTS
    Photos,
    MaxAttempts    \* failures after which a job is given up

VARIABLE
    jobs           \* photo -> status and counted failures

States == {"NONE", "PENDING", "COMPLETED", "FAILED", "DELETED"}

Job(status, attempts) == [status |-> status, attempts |-> attempts]

Init == jobs = [p \in Photos |-> Job("NONE", 0)]

Becomes(p, new) == jobs' = [jobs EXCEPT ![p] = new]

Accept(p) ==
    /\ jobs[p].status = "NONE"
    /\ Becomes(p, Job("PENDING", 0))

\* A failure that counts is the last one or leaves the photo waiting.
Fail(p) ==
    LET n == jobs[p].attempts + 1 IN
    /\ jobs[p].status = "PENDING"
    /\ Becomes(p, Job(IF n >= MaxAttempts THEN "FAILED" ELSE "PENDING", n))

\* A success may have begun before failures that were counted since.
Complete(p) ==
    /\ jobs[p].status \in {"PENDING", "FAILED", "COMPLETED"}
    /\ \E n \in 0 .. jobs[p].attempts : Becomes(p, Job("COMPLETED", n))

Delete(p) ==
    /\ jobs[p].status # "NONE"
    /\ Becomes(p, Job("DELETED", 0))

Next == \E p \in Photos : Accept(p) \/ Fail(p) \/ Complete(p) \/ Delete(p)

Spec == Init /\ [][Next]_jobs
=============================================================================
