------------------------- MODULE ProviderJobsProofs -------------------------
(***************************************************************************)
(* For any number of providers, jobs and threads, through overlaps,        *)
(* timeouts and crashes: ProviderJobs keeps its type, no row names the job *)
(* of another provider, and without interruptions none names a job that is *)
(* not there; one request after the other keeps the databases in agreement.*)
(***************************************************************************)
EXTENDS ProviderJobs, TLAPS

\* What the steps of a handler rely on: the session of a handler has the
\* provider and the configuration its later steps write.
SessionOK(q) ==
  /\ q.pc # "idle" => q.op # "none"
  /\ q.op \in {"patch", "run", "add", "remove", "delete"} => q.p \in Provider
  /\ q.op = "post" => q.conf \in Conf
  /\ q.op = "post" /\ q.pc \in {"flushed", "committed"} => q.p \in Provider
  /\ q.pc = "committed" => q.op \in {"post", "patch", "run"}

SessionsOK == \A r \in Request : SessionOK(request[r])

TypeInv == TypeOK /\ SessionsOK

\* A session, like a row, holds a job of its own provider or one that is gone.
NoForeignSession ==
  \A r \in Request :
    request[r].job # None => jobs[request[r].job] \in {request[r].p, None}

-----------------------------------------------------------------------------
\* A handler that begins records a well-formed session and changes no table.
LEMMA BeginType ==
  ASSUME TypeInv, NEW r \in Request, NEW op, NEW pc, NEW p, NEW c, NEW j,
         [op |-> op, pc |-> pc, p |-> p, conf |-> c, job |-> j] \in Session,
         SessionOK([op |-> op, pc |-> pc, p |-> p, conf |-> c, job |-> j]),
         Begin(r, op, pc, p, c, j)
  PROVE  TypeInv'
<1> DEFINE new == [op |-> op, pc |-> pc, p |-> p, conf |-> c, job |-> j]
<1>1. request' = [request EXCEPT ![r] = new]
  BY DEF Begin
<1>2. request' \in [Request -> Session] /\ SessionsOK'
  BY <1>1 DEF TypeInv, TypeOK, SessionsOK
<1>3. disturbed' \subseteq {"overlap", "timeout", "crash"}
  BY DEF Begin, TypeInv, TypeOK
<1> QED
  BY <1>2, <1>3 DEF Begin, TypeInv, TypeOK

LEMMA TypeInit == Init => TypeInv
BY DEF Init, Idle, TypeInv, TypeOK, SessionsOK, SessionOK, Session

LEMMA TypeStep == TypeInv /\ [Next]_vars => TypeInv'
<1> SUFFICES ASSUME TypeInv, [Next]_vars PROVE TypeInv'
  OBVIOUS
<1> USE JobsAssumption DEF JobsAssumption
<1>1. CASE UNCHANGED vars
  BY <1>1 DEF vars, TypeInv, TypeOK, SessionsOK, SessionOK
<1>2. ASSUME NEW r \in Request, Handle(r) PROVE TypeInv'
  <2>0. request[r] \in Session /\ SessionOK(request[r])
    BY DEF TypeInv, TypeOK, SessionsOK
  <2>i. Idle \in Session /\ SessionOK(Idle)
    BY DEF Idle, Session, SessionOK
  <2>e. \* Ending a handler, or moving it on with well-formed fields, keeps the sessions.
        ASSUME NEW q \in Session, SessionOK(q), request' = [request EXCEPT ![r] = q]
        PROVE  request' \in [Request -> Session] /\ SessionsOK'
    BY <2>e DEF TypeInv, TypeOK, SessionsOK
  <2>1. ASSUME NEW c \in Conf, CheckPost(r, c) PROVE TypeInv'
    BY <2>1, BeginType DEF CheckPost, Session, SessionOK
  <2>2. ASSUME NEW p \in Provider, NEW j \in Job, FlushPost(r, p, j) PROVE TypeInv'
    <3> DEFINE q == [request[r] EXCEPT !.pc = "flushed", !.p = p, !.job = j]
    <3>1. q \in Session /\ SessionOK(q)
      BY <2>0, <2>2 DEF Session, SessionOK, FlushPost, At
    <3>2. request' = [request EXCEPT ![r] = q]
      BY <2>0, <2>2 DEF FlushPost, TypeInv, TypeOK, Session
    <3>3. jobs' \in [Job -> Provider \cup {None}]
      BY <2>2 DEF FlushPost, TypeInv, TypeOK
    <3> QED
      BY <2>2, <2>e, <3>1, <3>2, <3>3 DEF FlushPost, TypeInv, TypeOK
  <2>m. ASSUME NEW pc, GoTo(r, pc), pc \in {"writing", "committed"} \/ (pc = "flushed" /\ request[r].op = "delete"),
               request[r].pc # "idle", request[r].op # "post" \/ request[r].pc = "flushed",
               pc = "committed" => request[r].op \in {"post", "patch"}
        PROVE  request' \in [Request -> Session] /\ SessionsOK'
    <3> DEFINE q == [request[r] EXCEPT !.pc = pc]
    <3>1. q \in Session /\ SessionOK(q)
      BY <2>0, <2>m DEF Session, SessionOK
    <3>2. request' = [request EXCEPT ![r] = q]
      BY <2>m DEF GoTo
    <3> QED
      BY <2>e, <3>1, <3>2
  <2>3. CASE CommitPost(r)
    <3>1. rows' \in [Provider -> Row \cup {None}]
      BY <2>0, <2>3 DEF CommitPost, At, TypeInv, TypeOK, Session, SessionOK, Row
    <3> QED
      BY <2>3, <2>m, <3>1 DEF CommitPost, At, TypeInv, TypeOK
  <2>4. ASSUME NEW p \in Provider, NEW c \in Conf, CheckPatch(r, p, c) PROVE TypeInv'
    BY <2>4, BeginType DEF CheckPatch, Session, SessionOK
  <2>5. ASSUME NEW p \in Provider, PatchNote(r, p) PROVE TypeInv'
    BY <2>5, BeginType DEF PatchNote, Session, SessionOK
  <2>6. CASE CommitPatch(r)
    <3>1. request[r].p \in Provider /\ request[r].conf \in Conf \cup {None}
      BY <2>0, <2>6 DEF CommitPatch, At, Session, SessionOK
    <3>2. rows' \in [Provider -> Row \cup {None}]
      BY <2>6, <3>1 DEF CommitPatch, TypeInv, TypeOK, Row
    <3>3. request' \in [Request -> Session] /\ SessionsOK'
      BY <2>6, <2>e, <2>i, <2>m DEF CommitPatch, At, End
    <3> QED
      BY <2>6, <3>2, <3>3 DEF CommitPatch, TypeInv, TypeOK
  <2>7. ASSUME NEW p \in Provider, LoadRun(r, p) PROVE TypeInv'
    BY <2>7, BeginType DEF LoadRun, Session, SessionOK
  <2>8. ASSUME NEW p \in Provider, LoadAdd(r, p) PROVE TypeInv'
    BY <2>8, BeginType DEF LoadAdd, Session, SessionOK
  <2>9. ASSUME NEW p \in Provider, LoadRemove(r, p) PROVE TypeInv'
    <3>1. rows[p].job \in Job \cup {None}
      BY <2>9 DEF LoadRemove, TypeInv, TypeOK, Row
    <3> QED
      BY <2>9, <3>1, BeginType DEF LoadRemove, Session, SessionOK
  <2>10. ASSUME NEW p \in Provider, LoadDelete(r, p) PROVE TypeInv'
    <3>1. rows[p].job \in Job \cup {None}
      BY <2>10 DEF LoadDelete, TypeInv, TypeOK, Row
    <3> QED
      BY <2>10, <3>1, BeginType DEF LoadDelete, Session, SessionOK
  <2>11. CASE ScheduleOneOff(r)
    <3>1. request[r].p \in Provider
      BY <2>0, <2>11 DEF ScheduleOneOff, Session, SessionOK
    <3> QED
      BY <2>11, <2>e, <2>i, <3>1 DEF ScheduleOneOff, End, TypeInv, TypeOK
  <2>12. ASSUME NEW j \in Job, AddJob(r, j) PROVE TypeInv'
    <3> DEFINE q == [request[r] EXCEPT !.pc = "writing", !.job = j]
    <3>1. q \in Session /\ SessionOK(q) /\ q.p \in Provider
      BY <2>0, <2>12 DEF Session, SessionOK, AddJob, At
    <3>2. request' = [request EXCEPT ![r] = q]
      BY <2>12 DEF AddJob, TypeInv, TypeOK
    <3>3. jobs' \in [Job -> Provider \cup {None}]
      BY <2>12, <3>1 DEF AddJob, TypeInv, TypeOK
    <3> QED
      BY <2>12, <2>e, <3>1, <3>2, <3>3 DEF AddJob, TypeInv, TypeOK
  <2>13. CASE RemoveJob(r)
    BY <2>13, <2>m DEF RemoveJob, At, TypeInv, TypeOK
  <2>14. CASE CommitJobId(r)
    <3>1. request[r].p \in Provider /\ request[r].job \in Job \cup {None}
      BY <2>0, <2>14 DEF CommitJobId, At, Session, SessionOK
    <3>2. rows' \in [Provider -> Row \cup {None}]
      BY <2>14, <3>1 DEF CommitJobId, TypeInv, TypeOK, Row
    <3> QED
      BY <2>14, <2>e, <2>i, <3>2 DEF CommitJobId, End, TypeInv, TypeOK
  <2>15. CASE FlushDelete(r)
    BY <2>15, <2>m DEF FlushDelete, At, TypeInv, TypeOK
  <2>16. CASE CommitDelete(r)
    BY <2>16, <2>e, <2>i DEF CommitDelete, End, TypeInv, TypeOK
  <2>17. CASE Timeout(r)
    BY <2>17, <2>e, <2>i DEF Timeout, End, TypeInv, TypeOK
  <2> QED
    BY <1>2, <2>1, <2>2, <2>3, <2>4, <2>5, <2>6, <2>7, <2>8, <2>9, <2>10,
       <2>11, <2>12, <2>13, <2>14, <2>15, <2>16, <2>17 DEF Handle
<1>3. ASSUME NEW p \in Provider, RunOneOff(p) PROVE TypeInv'
  BY <1>3 DEF RunOneOff, TypeInv, TypeOK, SessionsOK, SessionOK
<1>4. CASE Crash
  BY <1>4 DEF Crash, Idle, TypeInv, TypeOK, SessionsOK, SessionOK, Session
<1> QED
  BY <1>1, <1>2, <1>3, <1>4 DEF Next

\* Provider rows, jobs and handlers keep their types in every reachable state.
THEOREM TypeCorrect == Spec => []TypeOK
<1>1. TypeInv => TypeOK
  BY DEF TypeInv
<1> QED
  BY TypeInit, TypeStep, <1>1, PTL DEF Spec

-----------------------------------------------------------------------------
OwnInv == NoForeignJob /\ NoForeignSession

\* A handler that begins takes a job over from its provider's row, if any.
LEMMA BeginOwn ==
  ASSUME TypeInv, OwnInv, NEW r \in Request, NEW op, NEW pc, NEW p, NEW c, NEW j,
         j # None => p \in Rows /\ j = rows[p].job,
         Begin(r, op, pc, p, c, j)
  PROVE  OwnInv'
BY DEF Begin, OwnInv, NoForeignJob, NoForeignSession, Rows, TypeInv, TypeOK

\* A handler that ends, or moves on with its provider and job, disturbs nobody.
LEMMA SessionsShrink ==
  ASSUME TypeInv, OwnInv, UNCHANGED jobs, NoForeignJob',
         \A r \in Request : \/ request'[r].job = None
                            \/ /\ request'[r].job = request[r].job
                               /\ request'[r].p = request[r].p
  PROVE  OwnInv'
BY DEF OwnInv, NoForeignSession

LEMMA OwnStep == TypeInv /\ OwnInv /\ [Next]_vars => OwnInv'
<1> SUFFICES ASSUME TypeInv, OwnInv, [Next]_vars PROVE OwnInv'
  OBVIOUS
<1> USE JobsAssumption DEF JobsAssumption
<1>1. CASE UNCHANGED vars
  BY <1>1 DEF vars, OwnInv, NoForeignJob, NoForeignSession, Rows
<1>2. ASSUME NEW r \in Request, Handle(r) PROVE OwnInv'
  <2>0. request[r] \in Session /\ SessionOK(request[r])
    BY DEF TypeInv, TypeOK, SessionsOK
  <2>e. ASSUME End(r) \/ \E pc : GoTo(r, pc)
        PROVE  \A q \in Request : \/ request'[q].job = None
                                  \/ /\ request'[q].job = request[q].job
                                     /\ request'[q].p = request[q].p
    BY <2>e DEF End, GoTo, Idle, TypeInv, TypeOK, Session
  <2>n. \* A new job, named by nobody, for the provider of this handler.
        ASSUME NEW j \in Job, NEW p \in Provider, Fresh(j), UNCHANGED rows,
               jobs' = [jobs EXCEPT ![j] = p],
               \A q \in Request \ {r} : request'[q] = request[q],
               request'[r].p = p, request'[r].job = j
        PROVE  OwnInv'
    <3>1. \A q \in Request : request[q].job \in Job \cup {None}
      BY DEF TypeInv, TypeOK, Session
    <3>2. NoForeignJob'
      BY <2>n DEF OwnInv, NoForeignJob, Fresh, Rows, TypeInv, TypeOK, Row
    <3>3. NoForeignSession'
      BY <2>n, <3>1 DEF OwnInv, NoForeignSession, Fresh, TypeInv, TypeOK
    <3> QED
      BY <3>2, <3>3 DEF OwnInv
  <2>r. \* The job this handler holds is removed.
        ASSUME UNCHANGED rows,
               \A j \in Job : jobs'[j] = IF j = request[r].job THEN None ELSE jobs[j],
               \E pc : GoTo(r, pc)
        PROVE  OwnInv'
    <3>1. \A q \in Request : /\ request[q].job \in Job \cup {None}
                             /\ request'[q].job = request[q].job
                             /\ request'[q].p = request[q].p
      BY <2>r DEF GoTo, TypeInv, TypeOK, Session
    <3>2. NoForeignJob'
      BY <2>r DEF OwnInv, NoForeignJob, Rows, TypeInv, TypeOK, Row
    <3>3. NoForeignSession'
      BY <2>r, <3>1 DEF OwnInv, NoForeignSession
    <3> QED
      BY <3>2, <3>3 DEF OwnInv
  <2>1. ASSUME NEW c \in Conf, CheckPost(r, c) PROVE OwnInv'
    BY <2>1, BeginOwn DEF CheckPost
  <2>2. ASSUME NEW p \in Provider, NEW j \in Job, FlushPost(r, p, j) PROVE OwnInv'
    <3>1. /\ \A q \in Request \ {r} : request'[q] = request[q]
          /\ request'[r].p = p /\ request'[r].job = j
      BY <2>2, <2>0 DEF FlushPost, TypeInv, TypeOK, Session
    <3> QED
      BY <2>2, <2>n, <3>1 DEF FlushPost
  <2>3. CASE CommitPost(r)
    <3>1. request[r].p \in Provider
      BY <2>0, <2>3 DEF CommitPost, At, SessionOK
    <3>2. NoForeignJob'
      BY <2>3, <3>1 DEF CommitPost, OwnInv, NoForeignJob, NoForeignSession, Rows, TypeInv, TypeOK
    <3> QED
      BY <2>3, <2>e, <3>2, SessionsShrink DEF CommitPost
  <2>4. ASSUME NEW p \in Provider, NEW c \in Conf, CheckPatch(r, p, c) PROVE OwnInv'
    BY <2>4, BeginOwn DEF CheckPatch
  <2>5. ASSUME NEW p \in Provider, PatchNote(r, p) PROVE OwnInv'
    BY <2>5, BeginOwn DEF PatchNote
  <2>6. CASE CommitPatch(r)
    <3>1. \A p \in Provider : /\ rows'[p] # None => rows[p] # None
                              /\ rows'[p] # None => rows'[p].job = rows[p].job
      BY <2>6 DEF CommitPatch, TypeInv, TypeOK, Row
    <3>2. NoForeignJob'
      BY <2>6, <3>1 DEF CommitPatch, OwnInv, NoForeignJob, Rows
    <3> QED
      BY <2>6, <2>e, <3>2, SessionsShrink DEF CommitPatch
  <2>7. ASSUME NEW p \in Provider, LoadRun(r, p) PROVE OwnInv'
    BY <2>7, BeginOwn DEF LoadRun
  <2>8. ASSUME NEW p \in Provider, LoadAdd(r, p) PROVE OwnInv'
    BY <2>8, BeginOwn DEF LoadAdd
  <2>9. ASSUME NEW p \in Provider, LoadRemove(r, p) PROVE OwnInv'
    BY <2>9, BeginOwn DEF LoadRemove, Rows
  <2>10. ASSUME NEW p \in Provider, LoadDelete(r, p) PROVE OwnInv'
    BY <2>10, BeginOwn DEF LoadDelete, Rows
  <2>11. CASE ScheduleOneOff(r)
    <3>1. NoForeignJob'
      BY <2>11 DEF ScheduleOneOff, OwnInv, NoForeignJob, Rows
    <3> QED
      BY <2>11, <2>e, <3>1, SessionsShrink DEF ScheduleOneOff
  <2>12. ASSUME NEW j \in Job, AddJob(r, j) PROVE OwnInv'
    <3>1. PICK p \in Provider : p = request[r].p
      BY <2>0, <2>12 DEF AddJob, At, SessionOK
    <3>2. /\ \A q \in Request \ {r} : request'[q] = request[q]
          /\ request'[r].p = p /\ request'[r].job = j
      BY <2>12, <2>0, <3>1 DEF AddJob, TypeInv, TypeOK, Session
    <3> QED
      BY <2>12, <2>n, <3>1, <3>2 DEF AddJob
  <2>13. CASE RemoveJob(r)
    BY <2>13, <2>r DEF RemoveJob, TypeInv, TypeOK
  <2>14. CASE CommitJobId(r)
    <3>1. request[r].p \in Provider
      BY <2>0, <2>14 DEF CommitJobId, At, SessionOK
    <3>2. NoForeignJob'
      BY <2>14, <3>1 DEF CommitJobId, OwnInv, NoForeignJob, NoForeignSession, Rows, TypeInv, TypeOK, Row
    <3> QED
      BY <2>14, <2>e, <3>2, SessionsShrink DEF CommitJobId
  <2>15. CASE FlushDelete(r)
    BY <2>15, <2>r DEF FlushDelete
  <2>16. CASE CommitDelete(r)
    <3>1. NoForeignJob'
      BY <2>16 DEF CommitDelete, OwnInv, NoForeignJob, Rows, TypeInv, TypeOK
    <3> QED
      BY <2>16, <2>e, <3>1, SessionsShrink DEF CommitDelete
  <2>17. CASE Timeout(r)
    <3>1. NoForeignJob'
      BY <2>17 DEF Timeout, OwnInv, NoForeignJob, Rows
    <3> QED
      BY <2>17, <2>e, <3>1, SessionsShrink DEF Timeout
  <2> QED
    BY <1>2, <2>1, <2>2, <2>3, <2>4, <2>5, <2>6, <2>7, <2>8, <2>9, <2>10,
       <2>11, <2>12, <2>13, <2>14, <2>15, <2>16, <2>17 DEF Handle
<1>3. ASSUME NEW p \in Provider, RunOneOff(p) PROVE OwnInv'
  BY <1>3 DEF RunOneOff, OwnInv, NoForeignJob, NoForeignSession, Rows
<1>4. CASE Crash
  BY <1>4 DEF Crash, Idle, OwnInv, NoForeignJob, NoForeignSession, Rows
<1> QED
  BY <1>1, <1>2, <1>3, <1>4 DEF Next

\* Through overlaps, timeouts and crashes no row ever names a job that fetches
\* another provider, so that removing its job stops nobody else's updates.
THEOREM NeverForeignJob == Spec => []NoForeignJob
<1>1. Init => OwnInv
  BY DEF Init, Idle, OwnInv, NoForeignJob, NoForeignSession, Rows
<1>2. TypeInv /\ OwnInv /\ [Next]_vars => (TypeInv /\ OwnInv)'
  BY TypeStep, OwnStep
<1>3. OwnInv => NoForeignJob
  BY DEF OwnInv
<1> QED
  BY TypeInit, <1>1, <1>2, <1>3, PTL DEF Spec

-----------------------------------------------------------------------------
\* A handler that has put a job into the store and not yet its name into the row is the
\* only one to know the name.
Adding(q) == (q.op = "post" /\ q.pc = "flushed") \/ (q.op = "add" /\ q.pc = "writing")

AddedInv ==
  \A r \in Request : Adding(request[r]) =>
    /\ request[r].job \in Job
    /\ jobs[request[r].job] = request[r].p
    /\ \A p \in Rows : rows[p].job # request[r].job
    /\ \A q \in Request \ {r} : request[q].job # request[r].job

\* The steps of a handler that adds no job: it learns no name but a row's, removes no job
\* but its own and writes no name but its own.
LEMMA AddedKept ==
  ASSUME TypeInv, AddedInv, NEW r \in Request,
         \A q \in Request \ {r} : request'[q] = request[q],
         \/ request'[r].job \in {request[r].job, None}
         \/ \E p \in Rows : request'[r].job = rows[p].job,
         ~Adding(request'[r]),
         \A j \in Job : jobs'[j] = jobs[j] \/ j = request[r].job,
         \A p \in Rows' : \/ rows'[p].job \in {request[r].job, None}
                          \/ p \in Rows /\ rows'[p].job = rows[p].job
  PROVE  AddedInv'
<1>1. None \notin Job
  BY JobsAssumption DEF JobsAssumption
<1> SUFFICES ASSUME NEW q \in Request, Adding(request'[q])
             PROVE  /\ request'[q].job \in Job
                    /\ jobs'[request'[q].job] = request'[q].p
                    /\ \A p \in Rows' : rows'[p].job # request'[q].job
                    /\ \A s \in Request \ {q} : request'[s].job # request'[q].job
  BY DEF AddedInv, Adding
<1>2. q # r /\ request'[q] = request[q] /\ Adding(request[q])
  OBVIOUS
<1>3. /\ request[q].job \in Job /\ request[q].job # request[r].job
      /\ jobs[request[q].job] = request[q].p
      /\ \A p \in Rows : rows[p].job # request[q].job
      /\ \A s \in Request \ {q} : request[s].job # request[q].job
  BY <1>2 DEF AddedInv
<1> QED BY <1>1, <1>2, <1>3

\* The two steps that add one: its name is fresh.
LEMMA AddedNew ==
  ASSUME TypeInv, AddedInv, NEW r \in Request, NEW j \in Job, Fresh(j), UNCHANGED rows,
         \A q \in Request \ {r} : request'[q] = request[q],
         request'[r].job = j, jobs' = [jobs EXCEPT ![j] = request'[r].p]
  PROVE  AddedInv'
<1> SUFFICES ASSUME NEW q \in Request, Adding(request'[q])
             PROVE  /\ request'[q].job \in Job
                    /\ jobs'[request'[q].job] = request'[q].p
                    /\ \A p \in Rows' : rows'[p].job # request'[q].job
                    /\ \A s \in Request \ {q} : request'[s].job # request'[q].job
  BY DEF AddedInv, Adding
<1>1. Rows' = Rows
  BY DEF Rows
<1>2. /\ \A i \in Job : jobs'[i] = IF i = j THEN request'[r].p ELSE jobs[i]
      /\ \A p \in Rows : rows[p].job # j
      /\ \A s \in Request : request[s].job # j
  BY DEF TypeInv, TypeOK, Fresh
<1>3. CASE q = r
  BY <1>1, <1>2, <1>3
<1>4. CASE q # r
  <2>1. /\ request[q].job \in Job /\ request[q].job # j
        /\ jobs[request[q].job] = request[q].p
        /\ \A p \in Rows : rows[p].job # request[q].job
        /\ \A s \in Request \ {q} : request[s].job # request[q].job
    BY <1>2, <1>4 DEF AddedInv
  <2> QED BY <1>1, <1>2, <1>4, <2>1
<1> QED BY <1>3, <1>4

\* What a handler's step does to its own session.
LEMMA OwnSession ==
  ASSUME TypeInv, NEW r \in Request
  PROVE  /\ request[r] \in Session /\ SessionOK(request[r]) /\ Idle \in Session
         /\ End(r) => /\ request'[r] = Idle /\ \A q \in Request \ {r} : request'[q] = request[q]
         /\ \A pc : GoTo(r, pc) => /\ request'[r] = [request[r] EXCEPT !.pc = pc]
                                   /\ \A q \in Request \ {r} : request'[q] = request[q]
         /\ \A op, pc, p, c, j : Begin(r, op, pc, p, c, j) =>
              /\ request'[r] = [op |-> op, pc |-> pc, p |-> p, conf |-> c, job |-> j]
              /\ request[r] = Idle
              /\ \A q \in Request \ {r} : request'[q] = request[q]
              /\ UNCHANGED <<rows, jobs>>
<1>1. request \in [Request -> Session] /\ Idle \in Session
  BY DEF TypeInv, TypeOK, Idle, Session
<1>2. SessionOK(request[r])
  BY DEF TypeInv, SessionsOK
<1> QED BY <1>1, <1>2 DEF End, GoTo, Begin

LEMMA AddedStep == TypeInv /\ AddedInv /\ [Next]_vars => AddedInv'
<1> SUFFICES ASSUME TypeInv, AddedInv, [Next]_vars PROVE AddedInv'
  OBVIOUS
<1>1. CASE UNCHANGED vars
  BY <1>1 DEF vars, AddedInv, Rows
<1>2. ASSUME NEW r \in Request, Handle(r) PROVE AddedInv'
  <2>0. request[r] \in Session /\ SessionOK(request[r])
    BY OwnSession
  <2>b. ASSUME NEW op, NEW pc, NEW p, NEW c, NEW j, Begin(r, op, pc, p, c, j),
               j = None \/ \E q \in Rows : j = rows[q].job,
               op # "post" \/ pc # "flushed", op # "add" \/ pc # "writing"
        PROVE  AddedInv'
    <3>1. /\ request'[r] = [op |-> op, pc |-> pc, p |-> p, conf |-> c, job |-> j]
          /\ \A q \in Request \ {r} : request'[q] = request[q]
          /\ UNCHANGED <<rows, jobs>>
      BY <2>b, OwnSession
    <3>2. ~Adding(request'[r]) /\ request'[r].job = j /\ Rows' = Rows
      BY <2>b, <3>1 DEF Adding, Rows
    <3> QED BY <2>b, <3>1, <3>2, AddedKept
  <2>1. ASSUME NEW c \in Conf, CheckPost(r, c) PROVE AddedInv'
    BY <2>1, <2>b DEF CheckPost
  <2>2. ASSUME NEW p \in Provider, NEW j \in Job, FlushPost(r, p, j) PROVE AddedInv'
    <3>1. /\ \A q \in Request \ {r} : request'[q] = request[q]
          /\ request'[r].p = p /\ request'[r].job = j
      BY <2>2, <2>0 DEF FlushPost, TypeInv, TypeOK, Session
    <3> QED BY <2>2, <3>1, AddedNew DEF FlushPost
  <2>3. CASE CommitPost(r)
    <3>1. /\ request'[r].job = request[r].job /\ ~Adding(request'[r])
          /\ \A q \in Request \ {r} : request'[q] = request[q]
      <4>1. GoTo(r, "committed")
        BY <2>3 DEF CommitPost
      <4>2. /\ request'[r] = [request[r] EXCEPT !.pc = "committed"]
            /\ \A q \in Request \ {r} : request'[q] = request[q]
        BY <4>1, OwnSession
      <4> QED BY <2>0, <4>2 DEF Adding, Session
    <3>2. \A p \in Rows' : \/ rows'[p].job \in {request[r].job, None}
                           \/ p \in Rows /\ rows'[p].job = rows[p].job
      BY <2>3 DEF CommitPost, Rows, TypeInv, TypeOK
    <3> QED BY <2>3, <3>1, <3>2, AddedKept DEF CommitPost
  <2>4. ASSUME NEW p \in Provider, NEW c \in Conf, CheckPatch(r, p, c) PROVE AddedInv'
    BY <2>4, <2>b DEF CheckPatch
  <2>5. ASSUME NEW p \in Provider, PatchNote(r, p) PROVE AddedInv'
    BY <2>5, <2>b DEF PatchNote
  <2>6. CASE CommitPatch(r)
    <3>1. /\ request'[r].job \in {request[r].job, None} /\ ~Adding(request'[r])
          /\ \A q \in Request \ {r} : request'[q] = request[q]
      <4>1. CASE End(r)
        BY <4>1, OwnSession DEF Adding, Idle
      <4>2. CASE GoTo(r, "committed")
        <5>1. /\ request'[r] = [request[r] EXCEPT !.pc = "committed"]
              /\ \A q \in Request \ {r} : request'[q] = request[q]
          BY <4>2, OwnSession
        <5> QED BY <2>0, <5>1 DEF Adding, Session
      <4> QED BY <2>6, <4>1, <4>2 DEF CommitPatch
    <3>2. \A p \in Rows' : p \in Rows /\ rows'[p].job = rows[p].job
      BY <2>6 DEF CommitPatch, Rows, TypeInv, TypeOK, Row
    <3> QED BY <2>6, <3>1, <3>2, AddedKept DEF CommitPatch
  <2>7. ASSUME NEW p \in Provider, LoadRun(r, p) PROVE AddedInv'
    BY <2>7, <2>b DEF LoadRun
  <2>8. ASSUME NEW p \in Provider, LoadAdd(r, p) PROVE AddedInv'
    BY <2>8, <2>b DEF LoadAdd
  <2>9. ASSUME NEW p \in Provider, LoadRemove(r, p) PROVE AddedInv'
    BY <2>9, <2>b DEF LoadRemove, Rows
  <2>10. ASSUME NEW p \in Provider, LoadDelete(r, p) PROVE AddedInv'
    BY <2>10, <2>b DEF LoadDelete, Rows
  <2>e. \* A handler that ends and writes no row but with its own job's name.
        ASSUME End(r), UNCHANGED jobs,
               \A p \in Rows' : \/ rows'[p].job \in {request[r].job, None}
                                \/ p \in Rows /\ rows'[p].job = rows[p].job
        PROVE  AddedInv'
    <3>1. /\ request'[r].job = None /\ ~Adding(request'[r])
          /\ \A q \in Request \ {r} : request'[q] = request[q]
      BY <2>e, OwnSession DEF Adding, Idle
    <3> QED BY <2>e, <3>1, AddedKept
  <2>11. CASE ScheduleOneOff(r)
    BY <2>11, <2>e DEF ScheduleOneOff, Rows
  <2>12. ASSUME NEW j \in Job, AddJob(r, j) PROVE AddedInv'
    <3>1. /\ \A q \in Request \ {r} : request'[q] = request[q]
          /\ request'[r].p = request[r].p /\ request'[r].job = j
      BY <2>12, <2>0 DEF AddJob, TypeInv, TypeOK, Session
    <3> QED BY <2>12, <3>1, AddedNew DEF AddJob
  <2>r. \* A handler that removes its job.
        ASSUME NEW pc, GoTo(r, pc), UNCHANGED rows, request[r].op \in {"remove", "delete"},
               \A j \in Job : jobs'[j] = jobs[j] \/ j = request[r].job
        PROVE  AddedInv'
    <3>1. /\ request'[r].job = request[r].job /\ ~Adding(request'[r])
          /\ \A q \in Request \ {r} : request'[q] = request[q]
      BY <2>0, <2>r, OwnSession DEF Adding, Session
    <3> QED BY <2>r, <3>1, AddedKept DEF Rows
  <2>13. CASE RemoveJob(r)
    BY <2>13, <2>r DEF RemoveJob, At, TypeInv, TypeOK
  <2>14. CASE CommitJobId(r)
    <3>1. \A p \in Rows' : \/ rows'[p].job \in {request[r].job, None}
                           \/ p \in Rows /\ rows'[p].job = rows[p].job
      BY <2>14 DEF CommitJobId, Rows, TypeInv, TypeOK, Row
    <3> QED BY <2>14, <2>e, <3>1 DEF CommitJobId
  <2>15. CASE FlushDelete(r)
    BY <2>15, <2>r DEF FlushDelete, At
  <2>16. CASE CommitDelete(r)
    <3>1. \A p \in Rows' : p \in Rows /\ rows'[p].job = rows[p].job
      BY <2>16 DEF CommitDelete, Rows, TypeInv, TypeOK
    <3> QED BY <2>16, <2>e, <3>1 DEF CommitDelete
  <2>17. CASE Timeout(r)
    BY <2>17, <2>e DEF Timeout, Rows
  <2> QED
    BY <1>2, <2>1, <2>2, <2>3, <2>4, <2>5, <2>6, <2>7, <2>8, <2>9, <2>10,
       <2>11, <2>12, <2>13, <2>14, <2>15, <2>16, <2>17 DEF Handle
<1>3. ASSUME NEW p \in Provider, RunOneOff(p) PROVE AddedInv'
  BY <1>3 DEF RunOneOff, AddedInv, Rows
<1>4. CASE Crash
  BY <1>4 DEF Crash, Idle, AddedInv, Adding
<1> QED
  BY <1>1, <1>2, <1>3, <1>4 DEF Next

-----------------------------------------------------------------------------
\* A row without its job has a handler under way that is to unname it.
Remover(q, p, j) == q.op \in {"remove", "delete"} /\ q.p = p /\ q.job = j

NamedInv ==
  \A p \in Rows : rows[p].job # None =>
    jobs[rows[p].job] = p \/ \E r \in Request : Remover(request[r], p, rows[p].job)

\* A step of r: each row that names a job has it, or stays as it is while r does not stop
\* to be its remover, or has r for its remover.
LEMMA NamedKept ==
  ASSUME NamedInv, NEW r \in Request,
         \A q \in Request \ {r} : request'[q] = request[q],
         \A p \in Rows' : rows'[p].job # None =>
           \/ jobs'[rows'[p].job] = p
           \/ Remover(request'[r], p, rows'[p].job)
           \/ /\ p \in Rows /\ rows'[p].job = rows[p].job
              /\ jobs'[rows[p].job] = jobs[rows[p].job]
              /\ ~Remover(request[r], p, rows[p].job)
  PROVE  NamedInv'
<1> SUFFICES ASSUME NEW p \in Rows', rows'[p].job # None, jobs'[rows'[p].job] # p
             PROVE  \E q \in Request : Remover(request'[q], p, rows'[p].job)
  BY DEF NamedInv, Remover
<1>1. CASE Remover(request'[r], p, rows'[p].job)
  BY <1>1
<1>2. CASE /\ p \in Rows /\ rows'[p].job = rows[p].job
           /\ jobs'[rows[p].job] = jobs[rows[p].job]
           /\ ~Remover(request[r], p, rows[p].job)
  <2>1. PICK q \in Request : Remover(request[q], p, rows[p].job)
    BY <1>2 DEF NamedInv
  <2> QED BY <1>2, <2>1
<1> QED BY <1>1, <1>2

LEMMA NamedStep ==
  ASSUME TypeInv, OwnInv, AddedInv, NamedInv, [Next]_vars, disturbed' \subseteq {"overlap"}
  PROVE  NamedInv'
<1> USE JobsAssumption DEF JobsAssumption
<1>1. CASE UNCHANGED vars
  BY <1>1 DEF vars, NamedInv, Rows, Remover
<1>2. ASSUME NEW r \in Request, Handle(r) PROVE NamedInv'
  <2>0. request[r] \in Session /\ SessionOK(request[r])
    BY OwnSession
  <2>o. \* A handler of another kind: rows keep their names, those keep their jobs.
        ASSUME \A q \in Request \ {r} : request'[q] = request[q],
               request[r].op \notin {"remove", "delete"},
               \A p \in Rows' : rows'[p].job # None =>
                 \/ jobs'[rows'[p].job] = p
                 \/ /\ p \in Rows /\ rows'[p].job = rows[p].job
                    /\ jobs'[rows[p].job] = jobs[rows[p].job]
        PROVE  NamedInv'
    BY <2>o, NamedKept DEF Remover
  <2>b. ASSUME NEW op, NEW pc, NEW p, NEW c, NEW j, Begin(r, op, pc, p, c, j)
        PROVE  NamedInv'
    <3>1. /\ request[r] = Idle /\ \A q \in Request \ {r} : request'[q] = request[q]
          /\ UNCHANGED <<rows, jobs>>
      BY <2>b, OwnSession
    <3> QED BY <3>1, <2>o DEF Idle, Rows
  <2>j. \* A fresh job disturbs nobody.
        ASSUME NEW j \in Job, NEW p \in Provider, Fresh(j), UNCHANGED rows,
               jobs' = [jobs EXCEPT ![j] = p],
               \A q \in Request \ {r} : request'[q] = request[q],
               request[r].op \notin {"remove", "delete"}
        PROVE  NamedInv'
    <3>1. \A q \in Rows' : /\ q \in Rows /\ rows'[q].job = rows[q].job
                           /\ jobs'[rows[q].job] = jobs[rows[q].job]
      BY <2>j DEF Fresh, Rows, TypeInv, TypeOK
    <3> QED BY <2>j, <2>o, <3>1
  <2>r. \* A removed job leaves its remover under way.
        ASSUME UNCHANGED rows, request[r].op \in {"remove", "delete"}, NEW pc, GoTo(r, pc),
               \A j \in Job : jobs'[j] = IF j = request[r].job THEN None ELSE jobs[j]
        PROVE  NamedInv'
    <3>1. /\ request'[r].op = request[r].op /\ request'[r].p = request[r].p
          /\ request'[r].job = request[r].job
          /\ \A q \in Request \ {r} : request'[q] = request[q]
      <4>1. /\ request'[r] = [request[r] EXCEPT !.pc = pc]
            /\ \A q \in Request \ {r} : request'[q] = request[q]
        BY <2>r, OwnSession
      <4> QED BY <2>0, <4>1 DEF Session
    <3>2. ASSUME NEW p \in Rows', rows'[p].job # None
          PROVE  \/ Remover(request'[r], p, rows'[p].job)
                 \/ /\ p \in Rows /\ rows'[p].job = rows[p].job
                    /\ jobs'[rows[p].job] = jobs[rows[p].job]
                    /\ ~Remover(request[r], p, rows[p].job)
      <4>1. p \in Rows /\ rows' = rows /\ rows[p].job \in Job
        BY <2>r, <3>2 DEF Rows, TypeInv, TypeOK, Row
      <4>2. CASE Remover(request[r], p, rows[p].job)
        BY <3>1, <4>1, <4>2 DEF Remover
      <4>3. CASE rows[p].job # request[r].job
        BY <2>r, <4>1, <4>3 DEF Remover
      <4>4. CASE rows[p].job = request[r].job /\ p # request[r].p
        <5>1. jobs[rows[p].job] \in {p, None} /\ jobs[rows[p].job] \in {request[r].p, None}
          BY <4>1, <4>4, <3>2 DEF OwnInv, NoForeignJob, NoForeignSession
        <5> QED BY <2>r, <4>1, <4>4, <5>1 DEF Remover
      <4> QED BY <2>r, <4>2, <4>3, <4>4 DEF Remover
    <3> QED BY <3>1, <3>2, NamedKept
  <2>1. ASSUME NEW c \in Conf, CheckPost(r, c) PROVE NamedInv'
    BY <2>1, <2>b DEF CheckPost
  <2>2. ASSUME NEW p \in Provider, NEW j \in Job, FlushPost(r, p, j) PROVE NamedInv'
    <3>1. \A q \in Request \ {r} : request'[q] = request[q]
      BY <2>2 DEF FlushPost, TypeInv, TypeOK
    <3> QED BY <2>2, <2>j, <3>1 DEF FlushPost, At
  <2>3. CASE CommitPost(r)
    <3>1. \A q \in Request \ {r} : request'[q] = request[q]
      BY <2>3, OwnSession DEF CommitPost
    <3>2. jobs[request[r].job] = request[r].p /\ request[r].p \in Provider
      BY <2>0, <2>3 DEF CommitPost, AddedInv, Adding, At, SessionOK
    <3>3. \A p \in Rows' : rows'[p].job # None =>
                 \/ jobs'[rows'[p].job] = p
                 \/ /\ p \in Rows /\ rows'[p].job = rows[p].job
                    /\ jobs'[rows[p].job] = jobs[rows[p].job]
      BY <2>3, <3>2 DEF CommitPost, Rows, TypeInv, TypeOK
    <3> QED BY <2>3, <2>o, <3>1, <3>3 DEF CommitPost, At
  <2>4. ASSUME NEW p \in Provider, NEW c \in Conf, CheckPatch(r, p, c) PROVE NamedInv'
    BY <2>4, <2>b DEF CheckPatch
  <2>5. ASSUME NEW p \in Provider, PatchNote(r, p) PROVE NamedInv'
    BY <2>5, <2>b DEF PatchNote
  <2>6. CASE CommitPatch(r)
    <3>1. \A q \in Request \ {r} : request'[q] = request[q]
      BY <2>6, OwnSession DEF CommitPatch
    <3>2. \A p \in Rows' : p \in Rows /\ rows'[p].job = rows[p].job
      BY <2>6 DEF CommitPatch, Rows, TypeInv, TypeOK, Row
    <3> QED BY <2>6, <2>o, <3>1, <3>2 DEF CommitPatch, At
  <2>7. ASSUME NEW p \in Provider, LoadRun(r, p) PROVE NamedInv'
    BY <2>7, <2>b DEF LoadRun
  <2>8. ASSUME NEW p \in Provider, LoadAdd(r, p) PROVE NamedInv'
    BY <2>8, <2>b DEF LoadAdd
  <2>9. ASSUME NEW p \in Provider, LoadRemove(r, p) PROVE NamedInv'
    BY <2>9, <2>b DEF LoadRemove
  <2>10. ASSUME NEW p \in Provider, LoadDelete(r, p) PROVE NamedInv'
    BY <2>10, <2>b DEF LoadDelete
  <2>11. CASE ScheduleOneOff(r)
    <3>1. /\ \A q \in Request \ {r} : request'[q] = request[q]
          /\ request[r].op \notin {"remove", "delete"} /\ UNCHANGED <<rows, jobs>>
      BY <2>0, <2>11, OwnSession DEF ScheduleOneOff, SessionOK
    <3> QED BY <2>o, <3>1 DEF Rows
  <2>12. ASSUME NEW j \in Job, AddJob(r, j) PROVE NamedInv'
    <3>1. PICK p \in Provider : p = request[r].p
      BY <2>0, <2>12 DEF AddJob, At, SessionOK
    <3>2. \A q \in Request \ {r} : request'[q] = request[q]
      BY <2>12 DEF AddJob, TypeInv, TypeOK
    <3> QED BY <2>12, <2>j, <3>1, <3>2 DEF AddJob, At
  <2>13. CASE RemoveJob(r)
    BY <2>13, <2>r DEF RemoveJob, At, TypeInv, TypeOK
  <2>14. CASE CommitJobId(r)
    <3>1. /\ \A q \in Request \ {r} : request'[q] = request[q]
          /\ request[r].p \in Provider /\ UNCHANGED jobs
      BY <2>0, <2>14, OwnSession DEF CommitJobId, At, SessionOK
    <3>2. request[r].op = "add" => jobs[request[r].job] = request[r].p
      BY <2>14 DEF CommitJobId, AddedInv, Adding, At
    <3>3. \A p \in Rows' : /\ p \in Rows
                           /\ IF p = request[r].p
                              THEN rows'[p].job = IF request[r].op = "add"
                                                  THEN request[r].job ELSE None
                              ELSE rows'[p].job = rows[p].job
      BY <2>14, <3>1 DEF CommitJobId, Rows, TypeInv, TypeOK, Row
    <3> QED BY <3>1, <3>2, <3>3, NamedKept DEF Remover
  <2>15. CASE FlushDelete(r)
    BY <2>15, <2>r DEF FlushDelete, At
  <2>16. CASE CommitDelete(r)
    <3>1. \A q \in Request \ {r} : request'[q] = request[q]
      BY <2>16, OwnSession DEF CommitDelete
    <3>2. \A p \in Rows' : p \in Rows /\ rows'[p].job = rows[p].job /\ p # request[r].p
      BY <2>16 DEF CommitDelete, Rows, TypeInv, TypeOK
    <3> QED BY <2>16, <3>1, <3>2, NamedKept DEF CommitDelete, Remover
  <2>17. ~Timeout(r)
    BY DEF Timeout
  <2> QED
    BY <1>2, <2>1, <2>2, <2>3, <2>4, <2>5, <2>6, <2>7, <2>8, <2>9, <2>10,
       <2>11, <2>12, <2>13, <2>14, <2>15, <2>16, <2>17 DEF Handle
<1>3. ASSUME NEW p \in Provider, RunOneOff(p) PROVE NamedInv'
  BY <1>3 DEF RunOneOff, NamedInv, Rows, Remover
<1>4. ~Crash
  BY DEF Crash
<1> QED
  BY <1>1, <1>2, <1>3, <1>4 DEF Next

\* What has disturbed the handlers is not forgotten.
LEMMA DisturbedGrows == [Next]_vars => disturbed \subseteq disturbed'
BY DEF Next, Handle, CheckPost, FlushPost, CommitPost, CheckPatch, PatchNote, CommitPatch,
       LoadRun, LoadAdd, LoadRemove, LoadDelete, ScheduleOneOff, AddJob, RemoveJob,
       CommitJobId, FlushDelete, CommitDelete, Timeout, Begin, RunOneOff, Crash, vars

\* However the handlers of any number of requests overlap, as long as none is cut off
\* a row names a job that is there, or one whose remover is still to write the row.
THEOREM NamedJobsAlwaysExist == Spec => []NamedJobsExist
<1> DEFINE Inv == disturbed \subseteq {"overlap"} => NamedInv
<1>1. Init => OwnInv /\ AddedInv /\ Inv
  BY DEF Init, Idle, OwnInv, NoForeignJob, NoForeignSession, Rows, AddedInv, Adding, NamedInv
<1>2. /\ TypeInv /\ OwnInv /\ AddedInv /\ Inv /\ [Next]_vars
      => (TypeInv /\ OwnInv /\ AddedInv /\ Inv)'
  BY TypeStep, OwnStep, AddedStep, NamedStep, DisturbedGrows
<1>3. Inv => NamedJobsExist
  BY DEF NamedInv, NamedJobsExist, Remover
<1> HIDE DEF Inv
<1> QED
  BY TypeInit, <1>1, <1>2, <1>3, PTL DEF Spec

-----------------------------------------------------------------------------
\* One handler at a time, none cut off: how the two databases agree at each point of a
\* handler with session q.  The job of a new provider is in the store before the row names
\* it, a removed one is gone from it while the row still does; what the handler has read
\* of the rows, to check a configuration or to find its job, is still so.
Removing(q) == (q.op = "remove" /\ q.pc = "writing") \/ (q.op = "delete" /\ q.pc = "flushed")

AgreeFor(q) ==
  /\ \A j \in Job : jobs[j] # None /\ ~(Adding(q) /\ j = q.job) =>
       jobs[j] \in Rows /\ rows[jobs[j]].job = j
  /\ \A p \in Rows : rows[p].job # None /\ ~(Removing(q) /\ p = q.p) => jobs[rows[p].job] = p
  /\ Removing(q) /\ q.job # None => jobs[q.job] = None
  /\ q.op \in {"remove", "delete"} => q.p \in Rows /\ rows[q.p].job = q.job
  /\ q.op = "remove" => q.job # None
  /\ q.op = "add" => q.p \in Rows /\ rows[q.p].job = None
  /\ q.op = "post" /\ q.pc = "flushed" => q.p \notin Rows
  /\ q.op = "post" /\ q.pc # "committed" => ~Taken(q.conf, Rows)
  /\ q.op = "patch" /\ q.pc = "writing" /\ q.conf # None => ~Taken(q.conf, Rows \ {q.p})

AloneInv ==
  /\ \A r, q \in Request : r # q => request[r] = Idle \/ request[q] = Idle
  /\ \A r \in Request : request[r] # Idle => AgreeFor(request[r])
  /\ Quiet => JobsAgree
  /\ UniqueConfigurations

\* The only handler moves on, or ends with the databases in agreement.
LEMMA AloneMove ==
  ASSUME NEW r \in Request, UniqueConfigurations',
         \A q \in Request \ {r} : request[q] = Idle /\ request'[q] = request[q],
         \/ request'[r] = Idle /\ JobsAgree'
         \/ request'[r].op # "none" /\ AgreeFor(request[r])'
  PROVE  AloneInv'
<1>1. \A q \in Request \ {r} : request'[q] = Idle
  OBVIOUS
<1>2. /\ \A s, q \in Request : s # q => request'[s] = Idle \/ request'[q] = Idle
      /\ \A q \in Request : request'[q] # Idle => q = r
  BY <1>1
<1>3. CASE request'[r] = Idle /\ JobsAgree'
  BY <1>2, <1>3 DEF AloneInv
<1>4. CASE request'[r].op # "none" /\ AgreeFor(request[r])'
  <2>1. request'[r] # Idle
    BY <1>4 DEF Idle
  <2> QED BY <1>2, <1>4, <2>1 DEF AloneInv, Quiet
<1> QED BY <1>3, <1>4

\* A handler that begins alone finds them in agreement.
LEMMA AloneBegin ==
  ASSUME TypeInv, AloneInv, NEW r \in Request, NEW op, NEW pc, NEW p, NEW c, NEW j,
         Begin(r, op, pc, p, c, j), disturbed' = {}, op # "none",
         JobsAgree => AgreeFor([op |-> op, pc |-> pc, p |-> p, conf |-> c, job |-> j])
  PROVE  AloneInv'
<1> DEFINE q == [op |-> op, pc |-> pc, p |-> p, conf |-> c, job |-> j]
<1>1. /\ request'[r] = q /\ request[r] = Idle
      /\ \A s \in Request \ {r} : request'[s] = request[s]
      /\ UNCHANGED <<rows, jobs>>
  BY OwnSession
<1>2. \A s \in Request \ {r} : request[s] = Idle
  BY DEF Begin
<1>3. JobsAgree
  BY <1>1, <1>2 DEF AloneInv, Quiet
<1>4. AgreeFor(q)
  BY <1>3
<1>5. AgreeFor(request[r])'
  <2> HIDE DEF q
  <2> QED BY <1>1, <1>4 DEF AgreeFor, Taken, Rows
<1>6. UniqueConfigurations'
  BY <1>1 DEF AloneInv, UniqueConfigurations, Rows
<1>7. request'[r].op # "none"
  BY <1>1
<1> QED BY <1>1, <1>2, <1>5, <1>6, <1>7, AloneMove

LEMMA AloneStep ==
  ASSUME TypeInv, AddedInv, AloneInv, [Next]_vars, disturbed' = {}
  PROVE  AloneInv'
<1> USE JobsAssumption DEF JobsAssumption
<1>1. CASE UNCHANGED vars
  BY <1>1 DEF vars, AloneInv, AgreeFor, Quiet, JobsAgree, UniqueConfigurations, Rows, Taken
<1>2. ASSUME NEW r \in Request, Handle(r) PROVE AloneInv'
  <2>0. request[r] \in Session /\ SessionOK(request[r])
    BY OwnSession
  <2>t. /\ rows \in [Provider -> Row \cup {None}] /\ jobs \in [Job -> Provider \cup {None}]
        /\ None \notin Row
    BY DEF TypeInv, TypeOK, Row
  <2>a. ASSUME request[r].op # "none"
        PROVE  /\ AgreeFor(request[r]) /\ UniqueConfigurations
               /\ \A q \in Request \ {r} : request[q] = Idle
    BY <2>a DEF AloneInv, Idle
  <2>1. ASSUME NEW c \in Conf, CheckPost(r, c) PROVE AloneInv'
    <3>1. JobsAgree => AgreeFor([op |-> "post", pc |-> "writing", p |-> None,
                                 conf |-> c, job |-> None])
      BY <2>1, <2>t DEF CheckPost, JobsAgree, AgreeFor, Adding, Removing, Rows
    <3> QED BY <2>1, <3>1, AloneBegin DEF CheckPost
  <2>2. ASSUME NEW p \in Provider, NEW j \in Job, FlushPost(r, p, j) PROVE AloneInv'
    <3>1. /\ request'[r] = [request[r] EXCEPT !.pc = "flushed", !.p = p, !.job = j]
          /\ \A q \in Request \ {r} : request'[q] = request[q]
      BY <2>2 DEF FlushPost, TypeInv, TypeOK
    <3>2. /\ request'[r].op = "post" /\ request'[r].pc = "flushed" /\ request'[r].p = p
          /\ request'[r].job = j /\ request'[r].conf = request[r].conf
      <4>1. request[r].op = "post"
        BY <2>2 DEF FlushPost, At
      <4> QED BY <2>0, <3>1, <4>1 DEF Session
    <3>3. /\ request[r].op = "post" /\ request[r].pc = "writing" /\ Fresh(j)
          /\ rows' = rows /\ p \notin Rows /\ jobs' = [jobs EXCEPT ![j] = p]
      BY <2>2 DEF FlushPost, At, Rows
    <3>4. AgreeFor(request[r])'
      BY <2>a, <2>t, <3>2, <3>3 DEF AgreeFor, Adding, Removing, Fresh, Taken, Rows
    <3>5. UniqueConfigurations'
      BY <2>a, <3>3 DEF UniqueConfigurations, Rows
    <3> QED BY <2>a, <3>1, <3>2, <3>3, <3>4, <3>5, AloneMove
  <2>3. CASE CommitPost(r)
    <3> DEFINE q == request[r]
    <3>1. GoTo(r, "committed") /\ q.op = "post" /\ q.pc = "flushed"
      BY <2>3 DEF CommitPost, At
    <3>2. /\ request'[r] = [request[r] EXCEPT !.pc = "committed"]
          /\ \A s \in Request \ {r} : request'[s] = request[s]
      BY <3>1, OwnSession
    <3>3. request'[r].op = "post" /\ request'[r].pc = "committed"
      BY <2>0, <3>1, <3>2 DEF Session
    <3>4. q.p \in Provider /\ q.job \in Job /\ jobs[q.job] = q.p
      BY <2>0, <3>1 DEF SessionOK, AddedInv, Adding
    <3>5. /\ jobs' = jobs /\ Rows' = Rows \cup {q.p} /\ q.p \notin Rows
          /\ rows'[q.p] = [conf |-> q.conf, job |-> q.job]
          /\ \A p \in Rows : rows'[p] = rows[p]
      <4>1. q.p \notin Rows
        BY <2>a, <3>1 DEF AgreeFor
      <4>2. /\ jobs' = jobs
            /\ rows' = [rows EXCEPT ![q.p] = [conf |-> q.conf, job |-> q.job]]
        BY <2>3 DEF CommitPost
      <4>3. [conf |-> q.conf, job |-> q.job] \in Row
        BY <2>0, <3>1, <3>4 DEF SessionOK, Row
      <4> QED BY <2>t, <3>4, <4>1, <4>2, <4>3 DEF Rows
    <3>6. AgreeFor(request[r])'
      BY <2>a, <2>t, <3>1, <3>3, <3>4, <3>5 DEF AgreeFor, Adding, Removing
    <3>7. UniqueConfigurations'
      BY <2>a, <3>1, <3>5 DEF AgreeFor, UniqueConfigurations, Taken
    <3> QED BY <2>a, <3>1, <3>2, <3>3, <3>6, <3>7, AloneMove
  <2>4. ASSUME NEW p \in Provider, NEW c \in Conf, CheckPatch(r, p, c) PROVE AloneInv'
    <3>1. JobsAgree => AgreeFor([op |-> "patch", pc |-> "writing", p |-> p,
                                 conf |-> c, job |-> None])
      BY <2>4, <2>t DEF CheckPatch, JobsAgree, AgreeFor, Adding, Removing, Rows
    <3> QED BY <2>4, <3>1, AloneBegin DEF CheckPatch
  <2>5. ASSUME NEW p \in Provider, PatchNote(r, p) PROVE AloneInv'
    <3>1. JobsAgree => AgreeFor([op |-> "patch", pc |-> "writing", p |-> p,
                                 conf |-> None, job |-> None])
      BY <2>5, <2>t DEF PatchNote, JobsAgree, AgreeFor, Adding, Removing, Rows
    <3> QED BY <2>5, <3>1, AloneBegin DEF PatchNote
  <2>e. \* A handler that has touched neither database, or both, ends.
        ASSUME End(r), UNCHANGED <<rows, jobs>>, request[r].op # "none",
               ~Adding(request[r]), ~Removing(request[r])
        PROVE  AloneInv'
    <3>1. request'[r] = Idle /\ \A q \in Request \ {r} : request'[q] = request[q]
      BY <2>e, OwnSession
    <3>2. JobsAgree'
      BY <2>e, <2>a, <2>t DEF AgreeFor, JobsAgree, Rows
    <3> QED BY <2>e, <2>a, <3>1, <3>2, AloneMove DEF UniqueConfigurations, Rows
  <2>6. CASE CommitPatch(r)
    <3> DEFINE q == request[r]
    <3>1. q.op = "patch" /\ q.pc = "writing" /\ q.p \in Provider
      BY <2>0, <2>6 DEF CommitPatch, At, SessionOK
    <3>2. CASE q.p \notin Rows
      BY <2>6, <2>e, <3>1, <3>2 DEF CommitPatch, Adding, Removing, Rows
    <3>3. CASE q.p \in Rows
      <4>1. GoTo(r, "committed")
        BY <2>6, <3>3 DEF CommitPatch, Rows
      <4>2. /\ request'[r] = [request[r] EXCEPT !.pc = "committed"]
            /\ \A s \in Request \ {r} : request'[s] = request[s]
        BY <4>1, OwnSession
      <4>3. request'[r].op = "patch" /\ request'[r].pc = "committed"
        BY <2>0, <3>1, <4>2 DEF Session
      <4>4. /\ jobs' = jobs /\ Rows' = Rows
            /\ \A p \in Rows : rows'[p].job = rows[p].job
            /\ \A p \in Rows : rows'[p].conf = IF p = q.p /\ q.conf # None
                                               THEN q.conf ELSE rows[p].conf
        <5>1. rows' = IF q.conf = None THEN rows ELSE [rows EXCEPT ![q.p].conf = q.conf]
          BY <2>6, <3>3 DEF CommitPatch, Rows
        <5>2. jobs' = jobs /\ q.conf \in Conf \cup {None}
          BY <2>0, <2>6 DEF CommitPatch, Session
        <5>3. rows[q.p] \in Row /\ [rows[q.p] EXCEPT !.conf = q.conf].job = rows[q.p].job
          BY <2>t, <3>3 DEF Rows, Row
        <5>4. CASE q.conf = None
          BY <5>1, <5>2, <5>4 DEF Rows
        <5>5. CASE q.conf \in Conf
          <6>1. [rows[q.p] EXCEPT !.conf = q.conf] \in Row
            BY <5>3, <5>5 DEF Row
          <6> QED BY <2>t, <3>1, <3>3, <5>1, <5>2, <5>3, <5>5, <6>1 DEF Rows, Row
        <5> QED BY <5>2, <5>4, <5>5
      <4>5. AgreeFor(request[r])'
        BY <2>a, <2>t, <3>1, <4>3, <4>4 DEF AgreeFor, Adding, Removing
      <4>6. UniqueConfigurations'
        BY <2>a, <3>1, <3>3, <4>4 DEF AgreeFor, UniqueConfigurations, Taken
      <4> QED BY <2>a, <3>1, <4>2, <4>3, <4>5, <4>6, AloneMove
    <3> QED BY <3>2, <3>3
  <2>7. ASSUME NEW p \in Provider, LoadRun(r, p) PROVE AloneInv'
    <3>1. JobsAgree => AgreeFor([op |-> "run", pc |-> "committed", p |-> p,
                                 conf |-> None, job |-> None])
      BY <2>7, <2>t DEF LoadRun, JobsAgree, AgreeFor, Adding, Removing, Rows
    <3> QED BY <2>7, <3>1, AloneBegin DEF LoadRun
  <2>8. ASSUME NEW p \in Provider, LoadAdd(r, p) PROVE AloneInv'
    <3>1. JobsAgree => AgreeFor([op |-> "add", pc |-> "scheduling", p |-> p,
                                 conf |-> None, job |-> None])
      BY <2>8, <2>t DEF LoadAdd, JobsAgree, AgreeFor, Adding, Removing, Rows
    <3> QED BY <2>8, <3>1, AloneBegin DEF LoadAdd
  <2>9. ASSUME NEW p \in Provider, LoadRemove(r, p) PROVE AloneInv'
    <3>1. JobsAgree => AgreeFor([op |-> "remove", pc |-> "scheduling", p |-> p,
                                 conf |-> None, job |-> rows[p].job])
      BY <2>9, <2>t DEF LoadRemove, JobsAgree, AgreeFor, Adding, Removing, Rows
    <3> QED BY <2>9, <3>1, AloneBegin DEF LoadRemove
  <2>10. ASSUME NEW p \in Provider, LoadDelete(r, p) PROVE AloneInv'
    <3>1. JobsAgree => AgreeFor([op |-> "delete", pc |-> "writing", p |-> p,
                                 conf |-> None, job |-> rows[p].job])
      BY <2>10, <2>t DEF LoadDelete, JobsAgree, AgreeFor, Adding, Removing, Rows
    <3> QED BY <2>10, <3>1, AloneBegin DEF LoadDelete
  <2>11. CASE ScheduleOneOff(r)
    <3>1. request[r].op \in {"post", "patch", "run"} /\ request[r].pc = "committed"
      BY <2>0, <2>11 DEF ScheduleOneOff, SessionOK
    <3> QED BY <2>11, <2>e, <3>1 DEF ScheduleOneOff, Adding, Removing
  <2>12. ASSUME NEW j \in Job, AddJob(r, j) PROVE AloneInv'
    <3>1. /\ request'[r] = [request[r] EXCEPT !.pc = "writing", !.job = j]
          /\ \A q \in Request \ {r} : request'[q] = request[q]
      BY <2>12 DEF AddJob, TypeInv, TypeOK
    <3>2. /\ request'[r].op = "add" /\ request'[r].pc = "writing"
          /\ request'[r].p = request[r].p /\ request'[r].job = j
      <4>1. request[r].op = "add"
        BY <2>12 DEF AddJob, At
      <4> QED BY <2>0, <3>1, <4>1 DEF Session
    <3>3. /\ request[r].op = "add" /\ request[r].pc = "scheduling" /\ Fresh(j)
          /\ rows' = rows /\ \A i \in Job \ {j} : jobs'[i] = jobs[i]
      BY <2>12, <2>t DEF AddJob, At
    <3>4. AgreeFor(request[r])'
      BY <2>a, <2>t, <3>2, <3>3 DEF AgreeFor, Adding, Removing, Fresh, Rows, Row
    <3>5. UniqueConfigurations'
      BY <2>a, <3>3 DEF UniqueConfigurations, Rows
    <3> QED BY <2>a, <3>1, <3>2, <3>3, <3>4, <3>5, AloneMove
  <2>r. \* The job the row still names is removed.
        ASSUME NEW pc, GoTo(r, pc), UNCHANGED rows, request[r].op \in {"remove", "delete"},
               ~Removing(request[r]),
               pc = IF request[r].op = "remove" THEN "writing" ELSE "flushed",
               \A j \in Job : jobs'[j] = IF j = request[r].job THEN None ELSE jobs[j]
        PROVE  AloneInv'
    <3>1. /\ request'[r] = [request[r] EXCEPT !.pc = pc]
          /\ \A q \in Request \ {r} : request'[q] = request[q]
      BY <2>r, OwnSession
    <3>2. /\ request'[r].op = request[r].op /\ request'[r].p = request[r].p
          /\ request'[r].job = request[r].job /\ request[r].job \in Job \cup {None}
          /\ request'[r].pc = pc
      BY <2>0, <3>1 DEF Session
    <3>3. AgreeFor(request[r])'
      BY <2>a, <2>r, <2>t, <3>2 DEF AgreeFor, Adding, Removing, Rows, Row
    <3>4. UniqueConfigurations'
      BY <2>a, <2>r DEF UniqueConfigurations, Rows
    <3> QED BY <2>a, <2>r, <3>1, <3>2, <3>3, <3>4, AloneMove
  <2>13. CASE RemoveJob(r)
    BY <2>13, <2>r, <2>t DEF RemoveJob, At, Removing
  <2>14. CASE CommitJobId(r)
    <3> DEFINE q == request[r]
    <3>1. /\ End(r) /\ q.op \in {"add", "remove"} /\ q.pc = "writing" /\ q.p \in Provider
          /\ jobs' = jobs
      BY <2>0, <2>14 DEF CommitJobId, At, SessionOK
    <3>2. request'[r] = Idle /\ \A s \in Request \ {r} : request'[s] = request[s]
      BY <3>1, OwnSession
    <3>3. q.op = "add" => q.job \in Job /\ jobs[q.job] = q.p
      BY <3>1 DEF AddedInv, Adding
    <3>4. q.p \in Rows
      BY <2>a, <3>1 DEF AgreeFor
    <3>5. /\ Rows' = Rows
          /\ \A p \in Rows \ {q.p} : rows'[p] = rows[p]
          /\ rows'[q.p].conf = rows[q.p].conf
          /\ rows'[q.p].job = IF q.op = "add" THEN q.job ELSE None
      <4> DEFINE name == IF q.op = "add" THEN q.job ELSE None
      <4>1. rows' = [rows EXCEPT ![q.p].job = name]
        BY <2>14, <3>4 DEF CommitJobId, Rows
      <4>2. rows[q.p] \in Row
        BY <2>t, <3>4 DEF Rows
      <4>3. /\ [rows[q.p] EXCEPT !.job = name].conf = rows[q.p].conf
            /\ [rows[q.p] EXCEPT !.job = name].job = name
        BY <4>2 DEF Row
      <4>4. [rows[q.p] EXCEPT !.job = name] # None
        BY <2>t, <3>1, <3>3, <4>2 DEF Row
      <4> HIDE DEF name
      <4> QED BY <2>t, <3>1, <3>4, <4>1, <4>3, <4>4 DEF Rows, name
    <3>6. JobsAgree'
      <4>1. ASSUME NEW j \in Job, jobs[j] # None
            PROVE  jobs[j] \in Rows /\ rows'[jobs[j]].job = j
        BY <2>a, <2>t, <3>1, <3>3, <3>4, <3>5, <4>1 DEF AgreeFor, Adding, Removing
      <4>2. ASSUME NEW p \in Rows, rows'[p].job # None
            PROVE  jobs[rows'[p].job] = p
        BY <2>a, <2>t, <3>1, <3>3, <3>4, <3>5, <4>2 DEF AgreeFor, Adding, Removing
      <4> QED BY <2>t, <3>1, <3>5, <4>1, <4>2 DEF JobsAgree, Rows
    <3>7. UniqueConfigurations'
      BY <2>a, <3>1, <3>5 DEF UniqueConfigurations
    <3> QED BY <2>a, <3>1, <3>2, <3>6, <3>7, AloneMove
  <2>15. CASE FlushDelete(r)
    BY <2>15, <2>r DEF FlushDelete, At, Removing
  <2>16. CASE CommitDelete(r)
    <3> DEFINE q == request[r]
    <3>1. /\ End(r) /\ q.op = "delete" /\ q.pc = "flushed" /\ q.p \in Provider
          /\ jobs' = jobs
      BY <2>0, <2>16 DEF CommitDelete, At, SessionOK
    <3>2. request'[r] = Idle /\ \A s \in Request \ {r} : request'[s] = request[s]
      BY <3>1, OwnSession
    <3>3. Rows' = Rows \ {q.p} /\ \A p \in Rows' : rows'[p] = rows[p]
      BY <2>16, <2>t, <3>1 DEF CommitDelete, Rows
    <3>4. JobsAgree'
      <4>1. ASSUME NEW j \in Job, jobs[j] # None
            PROVE  jobs[j] \in Rows' /\ rows'[jobs[j]].job = j
        BY <2>a, <2>t, <3>1, <3>3, <4>1 DEF AgreeFor, Adding, Removing
      <4>2. ASSUME NEW p \in Rows', rows'[p].job # None
            PROVE  jobs[rows'[p].job] = p
        BY <2>a, <2>t, <3>1, <3>3, <4>2 DEF AgreeFor, Adding, Removing
      <4> QED BY <2>t, <3>1, <3>3, <4>1, <4>2 DEF JobsAgree, Rows
    <3>5. UniqueConfigurations'
      BY <2>a, <3>1, <3>3 DEF UniqueConfigurations
    <3> QED BY <2>a, <3>1, <3>2, <3>4, <3>5, AloneMove
  <2>17. ~Timeout(r)
    BY DEF Timeout
  <2> QED
    BY <1>2, <2>1, <2>2, <2>3, <2>4, <2>5, <2>6, <2>7, <2>8, <2>9, <2>10,
       <2>11, <2>12, <2>13, <2>14, <2>15, <2>16, <2>17 DEF Handle
<1>3. ASSUME NEW p \in Provider, RunOneOff(p) PROVE AloneInv'
  BY <1>3 DEF RunOneOff, AloneInv, AgreeFor, Quiet, JobsAgree, UniqueConfigurations, Rows, Taken
<1>4. ~Crash
  BY DEF Crash
<1> QED
  BY <1>1, <1>2, <1>3, <1>4 DEF Next

AloneAlways == disturbed = {} => AloneInv

LEMMA AloneHolds == Spec => []AloneAlways
<1>1. Init => AddedInv /\ AloneAlways
  BY JobsAssumption
     DEF Init, Idle, AddedInv, Adding, AloneAlways, AloneInv, Quiet, JobsAgree, UniqueConfigurations, Rows
<1>2. TypeInv /\ AddedInv /\ AloneAlways /\ [Next]_vars => (TypeInv /\ AddedInv /\ AloneAlways)'
  BY TypeStep, AddedStep, AloneStep, DisturbedGrows DEF AloneAlways
<1> QED
  BY TypeInit, <1>1, <1>2, PTL DEF Spec

\* Requests that come one after the other, and that nothing interrupts, leave the provider
\* rows and the job store in agreement, whatever sequence of them it is.
THEOREM SequentialJobsAgree == Spec => []SequentialJobs
<1>1. AloneAlways => SequentialJobs
  BY DEF AloneAlways, AloneInv, SequentialJobs
<1> QED
  BY AloneHolds, <1>1, PTL

\* ... and never give two providers the same configuration.
THEOREM SequentialConfigurationsUnique == Spec => []SequentialConfigurations
<1>1. AloneAlways => SequentialConfigurations
  BY DEF AloneAlways, AloneInv, SequentialConfigurations
<1> QED
  BY AloneHolds, <1>1, PTL

=============================================================================
