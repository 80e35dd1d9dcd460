--------------------------- MODULE JobCompletions ---------------------------
(***************************************************************************)
(* What shell-jobs promises of a background job's completion message: it    *)
(* enters the conversation at most once, and never after the job was shown  *)
(* as killed.  Nothing of how: no outbox, no attempts, no reloads, no       *)
(* hand-over to another process.  ShellJobs is shown to implement this.     *)
(***************************************************************************)
EXTENDS Naturals

CONSTANT Jobs

VARIABLES
    fate,  \* what has become of each job
    told   \* how often the conversation has its completion

vars == <<fate, told>>

\* "quiet": killed, so no message; "failed": shown as not delivered; "dropped":
\* counted as abandoned; "over": its session ended first; "refused": the process after a
\* restart did not take it over.
Fates == {"new", "working", "owed", "told", "failed", "dropped", "quiet", "over", "refused"}

\* What was given up may still come, and may be taken up again (the kill of a finished
\* job writes back what it read of the job before); what was told, killed or over may not.
Moves ==
    {"new"} \X {"working"}
    \cup {"working"} \X {"owed", "quiet", "over", "refused"}
    \cup {"owed"} \X {"told", "failed", "dropped", "over", "refused"}
    \cup {"failed", "dropped"} \X {"owed", "told", "failed", "dropped", "over", "refused"}

Init ==
    /\ fate = [j \in Jobs |-> "new"]
    /\ told = [j \in Jobs |-> 0]

\* One step may concern several jobs: a look through the history gives up on each
\* job that has had its attempts, a process that adopts jobs finds several ended.
Next ==
    /\ fate' \in [Jobs -> Fates]
    /\ \A j \in Jobs : fate'[j] = fate[j] \/ <<fate[j], fate'[j]>> \in Moves
    /\ told' = [j \in Jobs |->
          IF fate[j] # "told" /\ fate'[j] = "told" THEN told[j] + 1 ELSE told[j]]

\* Nothing stays owed: it is told or given up in some way.
Settles == \A j \in Jobs : fate[j] = "owed" ~> fate[j] # "owed"

Spec == Init /\ [][Next]_vars
=============================================================================
