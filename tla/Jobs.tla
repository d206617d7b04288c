-------------------------------- MODULE Jobs --------------------------------
(***************************************************************************)
(* Kubernetes Jobs as far as the backup and the restore controller look at *)
(* them: the incarnation a Job belongs to, what it works on, and what the  *)
(* counters of its status say.                                             *)
(***************************************************************************)
EXTENDS Copies, Naturals

\* failed: a pod of the Job has failed, whether another one is active or not.
JobStates == {"created", "active", "failed", "completed"}

JobOf(U, T) == [owner : U, target : T, state : JobStates]

NewJob(u, t) == [owner |-> u, target |-> t, state |-> "created"]

\* What the Job controller makes of a Job next.  A Job that failed may still
\* complete when its backoff limit leaves room for retries.
JobSteps(j, retries) ==
    {[j EXCEPT !.state = s] : s \in
        CASE j.state = "created" -> {"active"}
          [] j.state = "active" -> {"completed", "failed"}
          [] j.state = "failed" -> IF retries THEN {"completed"} ELSE {}
          [] j.state = "completed" -> {}}

\* Mutant: the phase of a pod is taken for the phase of a Job.
JobPhaseOfPod(j, otherwise) ==
    CASE j.state = "completed" -> "Succeeded"
      [] j.state = "failed" -> "Failed"
      [] j.state = "active" -> "Running"
      [] j.state = "created" -> otherwise

\* The phase that both controllers derive from the counters.
JobPhase(j, otherwise) ==
    CASE j.state = "completed" -> "Completed"
      [] j.state = "failed" -> "Failed"
      [] j.state = "active" -> "Running"
      [] j.state = "created" -> otherwise
=============================================================================
