---------------------------- MODULE HealthCheck ----------------------------
(***************************************************************************)
(* GET /health: the checks of health.py by handlers that run at the same   *)
(* time, the test file they share in the storage directory, and the sweep  *)
(* of that directory by PageFile.cleanup.                                  *)
(***************************************************************************)
EXTENDS Naturals, FiniteSets

CONSTANTS Request,  \* the requests under way at once
          MaxSick,  \* bound: parts of the server that fail at once
          None

Parts == {"database", "scheduler", "storage", "diskspace", "memory", "internet"}

ASSUME HealthAssumption == None \notin {200, 500} /\ MaxSick \in Nat

VARIABLES
  pc,          \* of each request: "idle", or the check it is at
  answer,      \* the status code of its last answer, or None
  testfile,    \* is there a file "testfile" in the storage directory
  sweeping,    \* a sweep has listed the test file and not come to it yet
  sick,        \* the parts of the server that fail
  steady,      \* history: the parts that have failed during all of the request
  ailed,       \* history: some part has failed during the request
  overlapped,  \* history: another request or a sweep was at the test file meanwhile
  spoiled      \* history: the storage failed or the process died under a test file

server == <<testfile, sweeping, sick>>
history == <<steady, ailed, overlapped, spoiled>>
vars == <<pc, answer, testfile, sweeping, sick, steady, ailed, overlapped, spoiled>>

Init ==
  /\ pc = [r \in Request |-> "idle"]
  /\ answer = [r \in Request |-> None]
  /\ testfile = FALSE /\ sweeping = FALSE
  /\ sick = {}
  /\ steady = [r \in Request |-> {}]
  /\ ailed = [r \in Request |-> FALSE]
  /\ overlapped = [r \in Request |-> FALSE]
  /\ spoiled = FALSE

-----------------------------------------------------------------------------
\* The handlers.

\* The order of the checks in check(); check_storage_io writes and unlinks.
\* Mutant: check() without the memory.
AfterForgetful(c) ==
  CASE c = "database"  -> "scheduler"
    [] c = "scheduler" -> "write"
    [] c = "write"     -> "unlink"
    [] c = "unlink"    -> "diskspace"
    [] c = "diskspace" -> "internet"
    [] OTHER           -> "idle"

After(c) ==
  CASE c = "database"  -> "scheduler"
    [] c = "scheduler" -> "write"
    [] c = "write"     -> "unlink"
    [] c = "unlink"    -> "diskspace"
    [] c = "diskspace" -> "memory"
    [] c = "memory"    -> "internet"
    [] OTHER           -> "idle"

\* Mutant: the request stays at the check that raised.
FailedStays(r) ==
  /\ answer' = [answer EXCEPT ![r] = 500]
  /\ UNCHANGED pc

\* A check raises HealthCheckFailedError.
Failed(r) ==
  /\ pc' = [pc EXCEPT ![r] = "idle"]
  /\ answer' = [answer EXCEPT ![r] = 500]

Passed(r) ==
  /\ pc' = [pc EXCEPT ![r] = After(pc[r])]
  /\ answer' = [answer EXCEPT ![r] = IF After(pc[r]) = "idle" THEN 200 ELSE None]

Ask(r) ==
  /\ pc[r] = "idle"
  /\ pc' = [pc EXCEPT ![r] = "database"]
  /\ answer' = [answer EXCEPT ![r] = None]
  /\ UNCHANGED server

\* check_database, check_scheduler, check_diskspace, check_memory, check_internet.
CheckPart(r) ==
  /\ pc[r] \in {"database", "scheduler", "diskspace", "memory", "internet"}
  /\ IF pc[r] \in sick THEN Failed(r) ELSE Passed(r)
  /\ UNCHANGED server

\* Mutant: the file must not be there yet (mode "x").
WriteTestfileExclusive(r) ==
  /\ pc[r] = "write"
  /\ IF "storage" \in sick \/ testfile
     THEN Failed(r) /\ UNCHANGED testfile
     ELSE Passed(r) /\ testfile' = TRUE
  /\ UNCHANGED <<sweeping, sick>>

\* A write to a failing storage may have created the file before it fails.
WriteTestfile(r) ==
  /\ pc[r] = "write"
  /\ IF "storage" \in sick
     THEN Failed(r) /\ testfile' \in {testfile, TRUE}
     ELSE Passed(r) /\ testfile' = TRUE
  /\ UNCHANGED <<sweeping, sick>>

\* Mutant: the file stays.
UnlinkTestfileNot(r) ==
  /\ pc[r] = "unlink"
  /\ IF testfile /\ "storage" \notin sick THEN Passed(r) ELSE Failed(r)
  /\ UNCHANGED server

UnlinkTestfile(r) ==
  /\ pc[r] = "unlink"
  /\ IF testfile /\ "storage" \notin sick
     THEN Passed(r) /\ testfile' = FALSE
     ELSE Failed(r) /\ UNCHANGED testfile
  /\ UNCHANGED <<sweeping, sick>>

-----------------------------------------------------------------------------
\* The sweep, as far as the test file goes: no row of a page file names it.

ListStorage ==
  /\ ~sweeping /\ testfile /\ "storage" \notin sick
  /\ sweeping' = TRUE
  /\ UNCHANGED <<pc, answer, testfile, sick>>

\* Mutant: only the files of pages are swept.
SweepTestfileNot ==
  /\ sweeping /\ sweeping' = FALSE
  /\ UNCHANGED <<pc, answer, testfile, sick>>

\* unlink(missing_ok=True); another error ends the sweep.
SweepTestfile ==
  /\ sweeping /\ sweeping' = FALSE
  /\ testfile' = (testfile /\ "storage" \in sick)
  /\ UNCHANGED <<pc, answer, sick>>

-----------------------------------------------------------------------------
\* The environment.

Fail(p) ==
  /\ p \notin sick /\ Cardinality(sick) < MaxSick
  /\ sick' = sick \cup {p}
  /\ UNCHANGED <<pc, answer, testfile, sweeping>>

Recover(p) ==
  /\ p \in sick
  /\ sick' = sick \ {p}
  /\ UNCHANGED <<pc, answer, testfile, sweeping>>

Crash ==
  /\ pc' = [r \in Request |-> "idle"]
  /\ answer' = [r \in Request |-> None]
  /\ sweeping' = FALSE
  /\ UNCHANGED <<testfile, sick>>

-----------------------------------------------------------------------------
\* History: what happened during each request.

AtTestfile(r) == pc[r] = "unlink"

Remember(crash) ==
  /\ steady' = [r \in Request |->
       IF pc'[r] = "idle" THEN steady[r]
       ELSE IF pc[r] = "idle" THEN sick' ELSE steady[r] \cap sick']
  /\ ailed' = [r \in Request |->
       IF pc'[r] = "idle" THEN ailed[r]
       ELSE (pc[r] # "idle" /\ ailed[r]) \/ sick' # {}]
  /\ overlapped' = [r \in Request |->
       IF pc'[r] = "idle" THEN overlapped[r]
       ELSE \/ pc[r] # "idle" /\ overlapped[r]
            \/ /\ AtTestfile(r)'
               /\ sweeping' \/ \E q \in Request \ {r} : AtTestfile(q)']
  /\ spoiled' = (testfile' /\ (spoiled \/ crash \/ "storage" \in sick))

Step ==
  \/ \E r \in Request : Ask(r) \/ CheckPart(r) \/ WriteTestfile(r) \/ UnlinkTestfile(r)
  \/ ListStorage \/ SweepTestfile
  \/ \E p \in Parts : Fail(p) \/ Recover(p)

Next == (Step /\ Remember(FALSE)) \/ (Crash /\ Remember(TRUE))

\* The weekly sweep starts again and again, and some sweep comes as far as the test file.
Fairness ==
  /\ SF_vars(ListStorage /\ Remember(FALSE))
  /\ SF_vars(SweepTestfile /\ "storage" \notin sick /\ Remember(FALSE))

Spec == Init /\ [][Next]_vars /\ Fairness

-----------------------------------------------------------------------------

TypeOK ==
  /\ pc \in [Request -> {"idle", "database", "scheduler", "write", "unlink",
                         "diskspace", "memory", "internet"}]
  /\ answer \in [Request -> {200, 500, None}]
  /\ testfile \in BOOLEAN /\ sweeping \in BOOLEAN /\ spoiled \in BOOLEAN
  /\ sick \subseteq Parts
  /\ steady \in [Request -> SUBSET Parts]
  /\ ailed \in [Request -> BOOLEAN] /\ overlapped \in [Request -> BOOLEAN]
  /\ \A r \in Request : answer[r] # None => pc[r] = "idle"

\* A server in which some part fails during all of a check is not reported healthy.
SteadyFailureFound ==
  \A r \in Request : answer[r] = 200 => steady[r] = {}

\* A server in which no part failed during a check is reported healthy, unless another
\* check or a sweep was at the test file between the writing and the unlinking.
FalseAlarmNeedsOverlap ==
  \A r \in Request : answer[r] = 500 => ailed[r] \/ overlapped[r]

\* No test file is left behind unless the process died or the storage failed meanwhile.
NothingLeftBehind ==
  testfile => spoiled \/ \E r \in Request : AtTestfile(r)

\* And one that is left behind goes with a sweep, or the next check, after a crash too.
LeftoverGoes == testfile ~> (~testfile \/ "storage" \in sick)
=============================================================================
