---------------------------- MODULE JobScheduler ----------------------------
(***************************************************************************)
(* The background scheduler: its job store, the loop that submits due      *)
(* jobs, the thread pool of one worker, and the listener that schedules a  *)
(* retry after a network error.                                            *)
(*                                                                         *)
(* A job id is <<base, n>>: the id a job was given and the number of       *)
(* "-retry" suffixes the listener has put behind it.  Cron jobs fire at    *)
(* the multiples of Period (their jitter is left out); all other jobs have *)
(* a DateTrigger.  The store survives a restart, the pool does not.        *)
(***************************************************************************)
EXTENDS Integers, Sequences, FiniteSets

CONSTANTS
  CronBase,     \* providers' cron jobs
  OneOffBase,   \* the ids of the one-off fetches of the request handlers
  Period,       \* time between two cron firings
  RetryDelay,   \* settings.retry_delay
  Grace,        \* misfire_grace_time
  MaxTime,      \* bound of the clock
  MaxSuffix,    \* bound: "-retry" suffixes of an id
  MaxRequests,  \* bound: one-off fetches asked for
  None

ASSUME SchedulerAssumption ==
  /\ CronBase \cap OneOffBase = {}
  /\ {Period, RetryDelay, MaxTime, MaxSuffix, MaxRequests} \subseteq Nat \ {0}
  /\ Grace \in Nat
  /\ None \notin Nat

MaxInstances == 1

JobId == (CronBase \cup OneOffBase) \X (0 .. MaxSuffix)
Cron == CronBase \X {0}
Time == 0 .. MaxTime
Run == [id : JobId, due : Time]

ASSUME NoRunAssumption == None \notin Run

VARIABLES
  now,
  store,      \* job -> its next run time, or None: not in the store
  submitting, \* the run the loop has just submitted, its job not yet updated
  queue,      \* runs the pool has accepted
  instances,  \* job -> runs of it in the pool
  worker,     \* [pc, run]: the one thread of the pool
  requests    \* one-off fetches asked for so far

vars == <<now, store, submitting, queue, instances, worker, requests>>

Resting == [pc |-> "idle", run |-> None]

Init ==
  /\ now = 0
  /\ store = [j \in JobId |-> None]
  /\ submitting = None
  /\ queue = <<>>
  /\ instances = [j \in JobId |-> 0]
  /\ worker = Resting
  /\ requests = 0

\* _jobstores_lock: held by the loop from a submission to the job's update.
StoresUnlocked == submitting = None

LastFiring == now - (now % Period)
NextFiring == LastFiring + Period

-----------------------------------------------------------------------------
\* The request handlers

\* add_job with a DateTrigger() and replace_existing.
AddOneOff(b) ==
  /\ StoresUnlocked
  /\ requests < MaxRequests
  /\ requests' = requests + 1
  /\ store' = [store EXCEPT ![<<b, 0>>] = now]
  /\ UNCHANGED <<now, submitting, queue, instances, worker>>

\* Provider.add_job and Provider.remove_job.
AddCron(b) ==
  /\ StoresUnlocked
  /\ store[<<b, 0>>] = None
  /\ store' = [store EXCEPT ![<<b, 0>>] = NextFiring]
  /\ UNCHANGED <<now, submitting, queue, instances, worker, requests>>

RemoveCron(b) ==
  /\ StoresUnlocked
  /\ store[<<b, 0>>] # None
  /\ store' = [store EXCEPT ![<<b, 0>>] = None]
  /\ UNCHANGED <<now, submitting, queue, instances, worker, requests>>

-----------------------------------------------------------------------------
\* The scheduler's loop

\* Several missed firings coalesce into the last one.
DueTime(j) == IF j \in Cron THEN LastFiring ELSE store[j]

\* Mutant: the job's runs in the pool are not looked at.
SubmitAgain(j) ==
  /\ StoresUnlocked
  /\ store[j] # None /\ store[j] <= now
  /\ submitting' = [id |-> j, due |-> DueTime(j)]
  /\ queue' = Append(queue, submitting')
  /\ instances' = [instances EXCEPT ![j] = @ + 1]
  /\ UNCHANGED <<now, store, worker, requests>>

\* A job that is still in the pool is not submitted: this firing is lost.
Submit(j) ==
  /\ StoresUnlocked
  /\ store[j] # None /\ store[j] <= now
  /\ submitting' = [id |-> j, due |-> DueTime(j)]
  /\ IF instances[j] < MaxInstances
     THEN /\ queue' = Append(queue, submitting')
          /\ instances' = [instances EXCEPT ![j] = @ + 1]
     ELSE UNCHANGED <<queue, instances>>
  /\ UNCHANGED <<now, store, worker, requests>>

\* A cron job gets its next run time; a job without one leaves the store.
UpdateSubmitted ==
  /\ submitting # None
  /\ store' = [store EXCEPT ![submitting.id] =
                 IF submitting.id \in Cron THEN NextFiring ELSE None]
  /\ submitting' = None
  /\ UNCHANGED <<now, queue, instances, worker, requests>>

-----------------------------------------------------------------------------
\* The pool's thread

Leave(j) == instances' = [instances EXCEPT ![j] = @ - 1]

StartRun ==
  /\ worker.pc = "idle"
  /\ queue # <<>>
  /\ now - Head(queue).due <= Grace
  /\ worker' = [pc |-> "running", run |-> Head(queue)]
  /\ queue' = Tail(queue)
  /\ UNCHANGED <<now, store, submitting, instances, requests>>

\* EVENT_JOB_MISSED: the run waited for too long.
MissRun ==
  /\ worker.pc = "idle"
  /\ queue # <<>>
  /\ now - Head(queue).due > Grace
  /\ queue' = Tail(queue)
  /\ Leave(Head(queue).id)
  /\ UNCHANGED <<now, store, submitting, worker, requests>>

\* The job returns, or raises what is no NetworkError.
EndRun ==
  /\ worker.pc = "running"
  /\ Leave(worker.run.id)
  /\ worker' = Resting
  /\ UNCHANGED <<now, store, submitting, queue, requests>>

FailRun ==
  /\ worker.pc = "running"
  /\ Leave(worker.run.id)
  /\ worker' = [worker EXCEPT !.pc = "listening"]
  /\ UNCHANGED <<now, store, submitting, queue, requests>>

RetryId(j) == <<j[1], j[2] + 1>>

\* Mutant: a job that has left the store is retried from the event.
ListenWithoutJob ==
  LET job == worker.run.id
  IN  /\ worker.pc = "listening"
      /\ StoresUnlocked
      /\ IF job[2] < MaxSuffix
         THEN store' = [store EXCEPT ![RetryId(job)] = worker.run.due + RetryDelay]
         ELSE UNCHANGED store
      /\ worker' = Resting
      /\ UNCHANGED <<now, submitting, queue, instances, requests>>

\* Mutant: the listener takes the run off the pool's count a second time.
ListenLeaves ==
  /\ worker.pc = "listening"
  /\ Leave(worker.run.id)
  /\ worker' = Resting
  /\ UNCHANGED <<now, store, submitting, queue, requests>>

\* retry_on_network_error_listener: get_job and add_job under the stores' lock;
\* a job that has left the store has no retry.
Listen ==
  LET job == worker.run.id
  IN  /\ worker.pc = "listening"
      /\ StoresUnlocked
      /\ IF store[job] # None /\ job[2] < MaxSuffix
         THEN store' = [store EXCEPT ![RetryId(job)] = worker.run.due + RetryDelay]
         ELSE UNCHANGED store
      /\ worker' = Resting
      /\ UNCHANGED <<now, submitting, queue, instances, requests>>

-----------------------------------------------------------------------------
\* The environment

Tick ==
  /\ now < MaxTime
  /\ now' = now + 1
  /\ UNCHANGED <<store, submitting, queue, instances, worker, requests>>

Restart ==
  /\ submitting' = None
  /\ queue' = <<>>
  /\ instances' = [j \in JobId |-> 0]
  /\ worker' = Resting
  /\ UNCHANGED <<now, store, requests>>

Next ==
  \/ \E b \in OneOffBase : AddOneOff(b)
  \/ \E b \in CronBase : AddCron(b) \/ RemoveCron(b)
  \/ \E j \in JobId : Submit(j)
  \/ UpdateSubmitted
  \/ StartRun \/ MissRun \/ EndRun \/ FailRun \/ Listen
  \/ Tick \/ Restart

Spec == Init /\ [][Next]_vars

-----------------------------------------------------------------------------
TypeOK ==
  /\ now \in Time
  /\ store \in [JobId -> 0 .. MaxTime + Period + RetryDelay \cup {None}]
  /\ submitting \in Run \cup {None}
  /\ queue \in Seq(Run)
  /\ instances \in [JobId -> Nat]
  /\ worker \in [pc : {"idle", "running", "listening"}, run : Run \cup {None}]
  /\ requests \in 0 .. MaxRequests

\* The pool counts its runs right, and never has two of one job: a cron job or
\* a one-off that is triggered again meanwhile does not run beside itself.
InPool(j) ==
  Cardinality({i \in 1 .. Len(queue) : queue[i].id = j})
    + (IF worker.pc = "running" /\ worker.run.id = j THEN 1 ELSE 0)

OneRunPerJob ==
  \A j \in JobId : instances[j] = InPool(j) /\ instances[j] <= 1

\* A failed retry of a cron job is not retried itself, because it has left the
\* store by the time the listener looks for it (unless a retry that is late by the grace
\* time still runs when its job fires again: RetryDelay + Grace >= Period).
RetriesDoNotChain ==
  \A b \in CronBase, n \in 2 .. MaxSuffix : store[<<b, n>>] = None

\* scheduler.py: "Listener for job errors that schedules a retry job on
\* networkerror."
NetworkErrorRetried ==
  [][Listen => \E j \in JobId : j = RetryId(worker.run.id) /\ store'[j] # None]_vars

=============================================================================
