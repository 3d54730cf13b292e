-------------------------------- MODULE Service --------------------------------
(***************************************************************************)
(* The life of the API process: lifespan of main.py with start_scheduler   *)
(* and stop_scheduler of scheduler.py, the two jobs, and the requests that *)
(* the rate limit lets through.  Uvicorn (one worker) opens its socket     *)
(* after the first half of lifespan; on SIGTERM it closes the socket,      *)
(* waits for the requests it has and then runs the second half.            *)
(***************************************************************************)
EXTENDS RateLimit, FiniteSets

CONSTANTS
  Jobs, Poll,   \* poll_observations and refresh_tle; the first of them
  MaxActive     \* bound on requests at a time

ASSUME JobAssumption == Poll \in Jobs /\ MaxActive \in Nat

VARIABLES
  phase,        \* what the process is doing
  enabled,      \* SCHEDULER_ENABLED of this process
  scheduler,    \* the BackgroundScheduler: "none", "started", "closed"
  published,    \* _scheduler is not None
  due,          \* jobs whose next_run_time has come, once each (coalesce)
  running,      \* jobs in the scheduler's executor
  active        \* requests inside a route

jobs    == <<due, running>>
process == <<phase, enabled, scheduler, published, jobs, active>>
vars    == <<limiter, process>>

\* "booting": before the yield of lifespan; "draining": SIGTERM received;
\* "stopping": in its finally; "exiting": after it, the interpreter joins the
\* threads of its executors.
Phases == {"down", "booting", "starting", "serving", "draining", "stopping", "exiting"}

Idle ==
  /\ scheduler = "none" /\ published = FALSE
  /\ due = {} /\ running = {} /\ active = 0

TypeOK ==
  /\ LimiterTypeOK
  /\ phase \in Phases
  /\ enabled \in BOOLEAN /\ published \in BOOLEAN
  /\ scheduler \in {"none", "started", "closed"}
  /\ due \subseteq Jobs /\ running \subseteq Jobs
  /\ active \in 0..MaxActive
  /\ published => enabled
  /\ ~enabled => scheduler = "none" /\ running = {}
  /\ phase = "down" => Idle /\ hits = NoHits

Init == LimiterInit /\ phase = "down" /\ enabled = FALSE /\ Idle

-----------------------------------------------------------------------------
(* Start. *)

\* The container is started.
Boot ==
  /\ phase = "down"
  /\ phase' = "booting" /\ enabled' \in BOOLEAN
  /\ UNCHANGED <<limiter, scheduler, published, jobs, active>>

\* Variant: SCHEDULER_ENABLED is looked at in the second half of lifespan only.
EnsureBucketsAlways ==
  /\ phase = "booting"
  /\ phase' = "starting" /\ scheduler' = "started"
  /\ UNCHANGED <<limiter, enabled, published, jobs, active>>

\* ensure_buckets, then the scheduler if it is enabled: candidate.start().
EnsureBuckets ==
  /\ phase = "booting"
  /\ IF enabled THEN phase' = "starting" /\ scheduler' = "started"
                ELSE phase' = "serving" /\ UNCHANGED scheduler
  /\ UNCHANGED <<limiter, enabled, published, jobs, active>>

\* The store does not answer, or candidate.start() raises.
BootFails ==
  /\ phase = "booting"
  /\ phase' = "exiting"
  /\ UNCHANGED <<limiter, enabled, scheduler, published, jobs, active>>

\* modify_job makes the first poll due at once.  The jobs' own first times are
\* an interval away.
StartScheduler ==
  /\ phase = "starting"
  /\ due' = due \cup {Poll} /\ published' = TRUE /\ phase' = "serving"
  /\ UNCHANGED <<limiter, enabled, scheduler, running, active>>

\* Variant: the candidate that started is left to itself.
StartFailsRaising ==
  /\ phase = "starting"
  /\ phase' = "exiting"
  /\ UNCHANGED <<limiter, enabled, scheduler, published, jobs, active>>

\* modify_job raises; the candidate is shut down and lifespan ends.
StartFails ==
  /\ phase = "starting"
  /\ scheduler' = "closed" /\ phase' = "exiting"
  /\ UNCHANGED <<limiter, enabled, published, jobs, active>>

-----------------------------------------------------------------------------
(* Work. *)

\* The interval of a job is over.
FallDue(j) ==
  /\ scheduler = "started" /\ published
  /\ due' = due \cup {j}
  /\ UNCHANGED <<limiter, phase, enabled, scheduler, published, running, active>>

\* max_instances = 1: a job that is still running is left out this time.
RunJob(j) ==
  /\ scheduler = "started" /\ j \in due
  /\ due' = due \ {j} /\ running' = running \cup {j}
  /\ UNCHANGED <<limiter, phase, enabled, scheduler, published, active>>

\* A job returns, or raises and is logged by _log_job_error.
EndJob(j) ==
  /\ j \in running
  /\ running' = running \ {j}
  /\ UNCHANGED <<limiter, phase, enabled, scheduler, published, due, active>>

Dispatch(c) ==
  /\ phase = "serving" /\ active < MaxActive
  /\ Admit(c)
  /\ active' = active + 1
  /\ UNCHANGED <<phase, enabled, scheduler, published, jobs>>

Reject(c) ==
  /\ phase = "serving"
  /\ Refuse(c)
  /\ UNCHANGED process

Respond ==
  /\ active > 0
  /\ active' = active - 1
  /\ UNCHANGED <<limiter, phase, enabled, scheduler, published, jobs>>

Wait == phase # "down" /\ Tick /\ UNCHANGED process

-----------------------------------------------------------------------------
(* End. *)

\* SIGTERM of docker stop.
Terminate ==
  /\ phase = "serving"
  /\ phase' = "draining"
  /\ UNCHANGED <<limiter, enabled, scheduler, published, jobs, active>>

\* _scheduler.shutdown: no job is started any more, those that run are waited for.
CloseScheduler ==
  /\ phase = "draining" /\ active = 0
  /\ phase' = "stopping"
  /\ scheduler' = IF published THEN "closed" ELSE scheduler
  /\ due' = IF published THEN {} ELSE due
  /\ UNCHANGED <<limiter, enabled, published, running, active>>

\* Variant: shutdown(wait=False).
StopSchedulerAtOnce ==
  /\ phase = "stopping"
  /\ phase' = "exiting" /\ published' = FALSE
  /\ UNCHANGED <<limiter, enabled, scheduler, jobs, active>>

StopScheduler ==
  /\ phase = "stopping" /\ running = {}
  /\ phase' = "exiting" /\ published' = FALSE
  /\ UNCHANGED <<limiter, enabled, scheduler, jobs, active>>

\* The memory of the process is gone.
Gone ==
  /\ phase' = "down" /\ scheduler' = "none" /\ published' = FALSE
  /\ due' = {} /\ running' = {} /\ active' = 0
  /\ Forget
  /\ UNCHANGED enabled

Exit == phase = "exiting" /\ running = {} /\ Gone

\* A crash, or SIGKILL once stop_grace_period is over.
Kill == phase # "down" /\ Gone

End == Respond \/ CloseScheduler \/ StopScheduler \/ Exit \/ \E j \in Jobs : EndJob(j)

Next ==
  \/ Boot \/ EnsureBuckets \/ BootFails \/ StartScheduler \/ StartFails
  \/ \E j \in Jobs : FallDue(j) \/ RunJob(j)
  \/ \E c \in Clients : Dispatch(c) \/ Reject(c)
  \/ Wait \/ Terminate \/ Kill \/ End

Spec == Init /\ [][Next]_vars

-----------------------------------------------------------------------------
(* Properties. *)

\* lifespan leaves nothing behind: once it is over no job runs or can be started,
\* after a start that failed half-way too, and while its second half runs no
\* request is in a route that could see the scheduler go.
OrderlyStop ==
  /\ phase = "exiting" => scheduler # "started" /\ running = {} /\ ~published
  /\ phase \in {"stopping", "exiting"} => active = 0

=============================================================================
