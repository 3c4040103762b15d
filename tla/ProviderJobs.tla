---------------------------- MODULE ProviderJobs ----------------------------
(***************************************************************************)
(* The request handlers that register, change, unregister and schedule     *)
(* providers, over two databases: the provider rows, where a handler holds *)
(* the write lock from its first flush to its commit, and the scheduler's  *)
(* job store, which commits each change at once.  Handlers run in a        *)
(* thread pool, each with a session of its own.                            *)
(*                                                                         *)
(* A cron job is known by a name the scheduler draws; job_id holds it.     *)
(* The one-off fetches of a provider are told apart by no property and     *)
(* counted as one.  All providers are of one class, a known one.           *)
(***************************************************************************)
EXTENDS Naturals, FiniteSets

CONSTANTS
  Provider,   \* ids of provider rows
  Conf,       \* configurations
  Job,        \* names of cron jobs
  Request,    \* threads that serve requests
  Faults,     \* what may interrupt a handler: "timeout" and "crash"
  None

ASSUME JobsAssumption ==
  /\ Faults \subseteq {"timeout", "crash"}
  /\ None \notin Provider \cup Conf \cup Job \cup [conf : Conf, job : Job \cup {None}]

VARIABLES
  rows,      \* provider -> [conf, job] as committed, or None
  jobs,      \* cron job -> the provider it fetches, or None: no such job
  oneoffs,   \* providers with a one-off fetch in the job store
  request,   \* thread -> [op, pc, p, conf, job]: its handler and its session
  disturbed  \* history: "overlap", "timeout" and "crash" as they occur

vars == <<rows, jobs, oneoffs, request, disturbed>>

Row == [conf : Conf, job : Job \cup {None}]
Session ==
  [op : {"none", "post", "patch", "run", "add", "remove", "delete"},
   pc : {"idle", "scheduling", "writing", "flushed", "committed"},
   p : Provider \cup {None}, conf : Conf \cup {None}, job : Job \cup {None}]

Idle == [op |-> "none", pc |-> "idle", p |-> None, conf |-> None, job |-> None]

Init ==
  /\ rows = [p \in Provider |-> None]
  /\ jobs = [j \in Job |-> None]
  /\ oneoffs = {}
  /\ request = [r \in Request |-> Idle]
  /\ disturbed = {}

Rows == {p \in Provider : rows[p] # None}
Taken(c, others) == \E p \in others : rows[p].conf = c

\* A session that has flushed holds the write lock until it commits.
Unlocked == \A r \in Request : request[r].pc # "flushed"

\* Mutant: only the job store is asked whether a name is in use.
FreshInStore(j) == jobs[j] = None

\* Nobody refers to a job of this name: the scheduler draws UUIDs.
Fresh(j) ==
  /\ jobs[j] = None
  /\ \A p \in Rows : rows[p].job # j
  /\ \A r \in Request : request[r].job # j

At(r, op, pc) == request[r].op = op /\ request[r].pc = pc
GoTo(r, pc) == request' = [request EXCEPT ![r].pc = pc]
End(r) == request' = [request EXCEPT ![r] = Idle]

Begin(r, op, pc, p, c, j) ==
  /\ request[r] = Idle
  /\ request' = [request EXCEPT
                   ![r] = [op |-> op, pc |-> pc, p |-> p, conf |-> c, job |-> j]]
  /\ disturbed' = disturbed \cup
                    IF \E q \in Request \ {r} : request[q] # Idle
                    THEN {"overlap"} ELSE {}
  /\ UNCHANGED <<rows, jobs, oneoffs>>

-----------------------------------------------------------------------------
\* post_provider: the check of the configurations, the INSERT with the
\* after_insert event, the commit, and the one-off fetch.

CheckPost(r, c) == ~Taken(c, Rows) /\ Begin(r, "post", "writing", None, c, None)

\* add_job in after_insert, its name written by the same transaction.
FlushPost(r, p, j) ==
  /\ At(r, "post", "writing")
  /\ Unlocked
  /\ rows[p] = None
  /\ Fresh(j)
  /\ jobs' = [jobs EXCEPT ![j] = p]
  /\ request' = [request EXCEPT ![r].pc = "flushed", ![r].p = p, ![r].job = j]
  /\ UNCHANGED <<rows, oneoffs, disturbed>>

CommitPost(r) ==
  /\ At(r, "post", "flushed")
  /\ rows' = [rows EXCEPT ![request[r].p] =
                [conf |-> request[r].conf, job |-> request[r].job]]
  /\ GoTo(r, "committed")
  /\ UNCHANGED <<jobs, oneoffs, disturbed>>

-----------------------------------------------------------------------------
\* patch_provider: the check against the other providers, and an UPDATE of the
\* columns that change.  A row that is gone meanwhile fails the handler.

\* Mutant: the configurations of the other providers are not compared.
CheckPatchAlone(r, p, c) ==
  /\ rows[p] # None
  /\ c # rows[p].conf
  /\ Begin(r, "patch", "writing", p, c, None)

CheckPatch(r, p, c) ==
  /\ rows[p] # None
  /\ c # rows[p].conf
  /\ ~Taken(c, Rows \ {p})
  /\ Begin(r, "patch", "writing", p, c, None)

\* A patch that leaves the configuration as it is, of the note perhaps.
PatchNote(r, p) == rows[p] # None /\ Begin(r, "patch", "writing", p, None, None)

CommitPatch(r) ==
  LET p == request[r].p
      c == request[r].conf
  IN  /\ At(r, "patch", "writing")
      /\ Unlocked \/ c = None
      /\ rows' = IF rows[p] = None \/ c = None THEN rows
                 ELSE [rows EXCEPT ![p].conf = c]
      /\ IF rows[p] = None THEN End(r) ELSE GoTo(r, "committed")
      /\ UNCHANGED <<jobs, oneoffs, disturbed>>

-----------------------------------------------------------------------------
\* post_provider_job_run, and how the three handlers with a one-off end: post
\* and patch read the row again first and fail if it is gone.

LoadRun(r, p) == rows[p] # None /\ Begin(r, "run", "committed", p, None, None)

ScheduleOneOff(r) ==
  LET p == request[r].p
  IN  /\ request[r].pc = "committed"
      /\ oneoffs' = IF request[r].op # "run" /\ rows[p] = None
                    THEN oneoffs ELSE oneoffs \cup {p}
      /\ End(r)
      /\ UNCHANGED <<rows, jobs, disturbed>>

\* The scheduler submits a one-off, which leaves the job store.
RunOneOff(p) ==
  /\ p \in oneoffs
  /\ oneoffs' = oneoffs \ {p}
  /\ UNCHANGED <<rows, jobs, request, disturbed>>

-----------------------------------------------------------------------------
\* post_provider_add_job and post_provider_remove_job: Provider.add_job and
\* Provider.remove_job on the row as it was loaded, then the commit.  A row
\* with a job_id is left alone by the one, a row without by the other.

LoadAdd(r, p) ==
  /\ rows[p] # None
  /\ rows[p].job = None
  /\ Begin(r, "add", "scheduling", p, None, None)

AddJob(r, j) ==
  /\ At(r, "add", "scheduling")
  /\ Fresh(j)
  /\ jobs' = [jobs EXCEPT ![j] = request[r].p]
  /\ request' = [request EXCEPT ![r].pc = "writing", ![r].job = j]
  /\ UNCHANGED <<rows, oneoffs, disturbed>>

LoadRemove(r, p) ==
  /\ rows[p] # None
  /\ rows[p].job # None
  /\ Begin(r, "remove", "scheduling", p, None, rows[p].job)

\* JobLookupError is suppressed.
RemoveJob(r) ==
  /\ At(r, "remove", "scheduling")
  /\ jobs' = [jobs EXCEPT ![request[r].job] = None]
  /\ GoTo(r, "writing")
  /\ UNCHANGED <<rows, oneoffs, disturbed>>

\* Mutant: a row that is gone is written anew from the session.
CommitJobIdMerged(r) ==
  /\ At(r, "add", "writing") \/ At(r, "remove", "writing")
  /\ Unlocked
  /\ rows' = [rows EXCEPT ![request[r].p] =
       [conf |-> IF rows[request[r].p] = None THEN request[r].conf
                 ELSE rows[request[r].p].conf,
        job |-> IF request[r].op = "add" THEN request[r].job ELSE None]]
  /\ End(r)
  /\ UNCHANGED <<jobs, oneoffs, disturbed>>

\* Mutant: remove_job leaves job_id set.
CommitJobIdKept(r) ==
  LET p == request[r].p
  IN  /\ At(r, "add", "writing") \/ At(r, "remove", "writing")
      /\ Unlocked
      /\ rows' = IF rows[p] = None \/ request[r].op = "remove" THEN rows
                 ELSE [rows EXCEPT ![p].job = request[r].job]
      /\ End(r)
      /\ UNCHANGED <<jobs, oneoffs, disturbed>>

\* The UPDATE of job_id; no row to update fails the flush.
CommitJobId(r) ==
  LET p == request[r].p
  IN  /\ At(r, "add", "writing") \/ At(r, "remove", "writing")
      /\ Unlocked
      /\ rows' = IF rows[p] = None THEN rows
                 ELSE [rows EXCEPT ![p].job =
                         IF request[r].op = "add" THEN request[r].job ELSE None]
      /\ End(r)
      /\ UNCHANGED <<jobs, oneoffs, disturbed>>

-----------------------------------------------------------------------------
\* delete_provider: the row is loaded, deleted by the flush, whose after_delete
\* event removes the job the row named when it was loaded, and committed.

LoadDelete(r, p) ==
  rows[p] # None /\ Begin(r, "delete", "writing", p, None, rows[p].job)

\* Mutant: the after_delete event is not registered.
FlushDeleteSilent(r) ==
  /\ At(r, "delete", "writing")
  /\ Unlocked
  /\ GoTo(r, "flushed")
  /\ UNCHANGED <<rows, jobs, oneoffs, disturbed>>

FlushDelete(r) ==
  /\ At(r, "delete", "writing")
  /\ Unlocked
  /\ jobs' = [j \in Job |-> IF j = request[r].job THEN None ELSE jobs[j]]
  /\ GoTo(r, "flushed")
  /\ UNCHANGED <<rows, oneoffs, disturbed>>

CommitDelete(r) ==
  /\ At(r, "delete", "flushed")
  /\ rows' = [rows EXCEPT ![request[r].p] = None]
  /\ End(r)
  /\ UNCHANGED <<jobs, oneoffs, disturbed>>

-----------------------------------------------------------------------------
\* Interruptions: a handler that waits for the lock longer than the busy
\* timeout (a fetch holds it over its downloads) answers 500, and the process
\* dies with all handlers.

Timeout(r) ==
  /\ "timeout" \in Faults
  /\ request[r].pc = "writing"
  /\ End(r)
  /\ disturbed' = disturbed \cup {"timeout"}
  /\ UNCHANGED <<rows, jobs, oneoffs>>

Crash ==
  /\ "crash" \in Faults
  /\ request' = [r \in Request |-> Idle]
  /\ disturbed' = disturbed \cup {"crash"}
  /\ UNCHANGED <<rows, jobs, oneoffs>>

Handle(r) ==
  \/ \E c \in Conf : CheckPost(r, c)
  \/ \E p \in Provider, j \in Job : FlushPost(r, p, j)
  \/ CommitPost(r)
  \/ \E p \in Provider, c \in Conf : CheckPatch(r, p, c)
  \/ \E p \in Provider : PatchNote(r, p)
  \/ CommitPatch(r)
  \/ \E p \in Provider : LoadRun(r, p) \/ LoadAdd(r, p) \/ LoadRemove(r, p) \/ LoadDelete(r, p)
  \/ ScheduleOneOff(r)
  \/ \E j \in Job : AddJob(r, j)
  \/ RemoveJob(r) \/ CommitJobId(r)
  \/ FlushDelete(r) \/ CommitDelete(r)
  \/ Timeout(r)

Next ==
  \/ \E r \in Request : Handle(r)
  \/ \E p \in Provider : RunOneOff(p)
  \/ Crash

Spec == Init /\ [][Next]_vars

-----------------------------------------------------------------------------
TypeOK ==
  /\ rows \in [Provider -> Row \cup {None}]
  /\ jobs \in [Job -> Provider \cup {None}]
  /\ oneoffs \subseteq Provider
  /\ request \in [Request -> Session]
  /\ disturbed \subseteq {"overlap", "timeout", "crash"}

Quiet == \A r \in Request : request[r] = Idle

\* The two databases agree: each cron job fetches a provider whose row names
\* it, and each job a row names is there.
JobsAgree ==
  /\ \A j \in Job : jobs[j] # None => /\ rows[jobs[j]] # None
                                      /\ rows[jobs[j]].job = j
  /\ \A p \in Rows : rows[p].job # None => jobs[rows[p].job] = p

\* As long as requests come one after the other and nothing interrupts them,
\* each leaves the two databases in agreement.
SequentialJobs == disturbed = {} /\ Quiet => JobsAgree

\* ... and no two providers with the same configuration.
UniqueConfigurations ==
  \A p, q \in Rows : p # q => rows[p].conf # rows[q].conf

SequentialConfigurations == disturbed = {} => UniqueConfigurations

\* However requests overlap, without an interruption a row names no job that
\* is not there, unless a handler that is to unname it is under way: a provider
\* does not look scheduled when nothing will ever fetch it.
NamedJobsExist ==
  disturbed \subseteq {"overlap"} =>
    \A p \in Rows : rows[p].job # None =>
      \/ jobs[rows[p].job] = p
      \/ \E r \in Request : /\ request[r].op \in {"remove", "delete"}
                            /\ request[r].p = p
                            /\ request[r].job = rows[p].job

\* Overlaps, timeouts and crashes included, no row ever names the job of
\* another provider, although ids of deleted providers are used again: removing
\* a provider's job never stops the updates of another one.
NoForeignJob ==
  \A p \in Rows : rows[p].job # None => jobs[rows[p].job] \in {p, None}

\* signals.py: "Event cleaning up a providers task after deleting the provider."
NoJobWithoutProvider == Quiet => \A j \in Job : jobs[j] # None => rows[jobs[j]] # None

=============================================================================
