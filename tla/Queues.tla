-------------------------------- MODULE Queues --------------------------------
(***************************************************************************)
(* What the jobs of all queues have in common (queues/queues.module.ts):   *)
(* how often BullMQ runs a job that throws or whose worker dies.           *)
(***************************************************************************)
EXTENDS Naturals

CONSTANTS
    Attempts,     \* how often a job is run (queues.module.ts: 3)
    CanFail       \* TRUE: workers, handlers, the disk, the database and Redis may fail

ASSUME QueuesAssumption == Attempts \in Nat \ {0} /\ CanFail \in BOOLEAN

\* The state of a job after a run that failed.
AfterFailure(runs) == IF runs < Attempts THEN "waiting" ELSE "failed"

=============================================================================
