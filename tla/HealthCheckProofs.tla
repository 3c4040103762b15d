------------------------- MODULE HealthCheckProofs -------------------------
(***************************************************************************)
(* The safety properties of the health check, for any number of requests   *)
(* and any number of failing parts.                                        *)
(***************************************************************************)
EXTENDS HealthCheck, TLAPS

\* Who is at the test file still has it, or knows that it was not alone.
FileInv ==
  /\ \A r \in Request : AtTestfile(r) => testfile \/ overlapped[r] \/ ailed[r]
  /\ \A r \in Request : \A q \in Request \ {r} :
       AtTestfile(r) /\ AtTestfile(q) => overlapped[r]
  /\ \A r \in Request : AtTestfile(r) /\ sweeping => overlapped[r]

AilingInv == \A r \in Request : pc[r] # "idle" /\ sick # {} => ailed[r]

\* The parts a request has found well before it comes to a check.
Behind(c) ==
  CASE c = "database"  -> {}
    [] c = "scheduler" -> {"database"}
    [] c = "write"     -> {"database", "scheduler"}
    [] c = "unlink"    -> {"database", "scheduler", "storage"}
    [] c = "diskspace" -> {"database", "scheduler", "storage"}
    [] c = "memory"    -> {"database", "scheduler", "storage", "diskspace"}
    [] OTHER           -> {"database", "scheduler", "storage", "diskspace", "memory"}

SteadyInv ==
  \A r \in Request : pc[r] # "idle" => steady[r] \subseteq (sick \ Behind(pc[r]))

IInv ==
  /\ TypeOK /\ FileInv /\ AilingInv /\ SteadyInv
  /\ SteadyFailureFound /\ FalseAlarmNeedsOverlap /\ NothingLeftBehind

LEMMA HealthInit == Init => IInv
<1> SUFFICES ASSUME Init PROVE IInv
  OBVIOUS
<1>1. TypeOK
  BY DEF Init, TypeOK
<1>2. FileInv /\ AilingInv /\ SteadyInv /\ NothingLeftBehind
  BY DEF Init, FileInv, AilingInv, SteadyInv, NothingLeftBehind, AtTestfile
<1>3. ASSUME NEW r \in Request PROVE answer[r] = None
  BY DEF Init
<1>4. SteadyFailureFound /\ FalseAlarmNeedsOverlap
  BY <1>3, HealthAssumption DEF SteadyFailureFound, FalseAlarmNeedsOverlap
<1> QED
  BY <1>1, <1>2, <1>4 DEF IInv

-----------------------------------------------------------------------------
\* What a step does, seen from one request: nothing, or it asks, passes a check, fails
\* one, or is dropped.

Stays(r) == pc'[r] = pc[r] /\ answer'[r] = answer[r]
Asks(r) == pc[r] = "idle" /\ pc'[r] = "database" /\ answer'[r] = None
PartOf(c) == IF c \in {"write", "unlink"} THEN "storage" ELSE c
Passes(r) ==
  /\ pc[r] # "idle" /\ PartOf(pc[r]) \notin sick /\ sick' = sick
  /\ pc'[r] = After(pc[r])
  /\ answer'[r] = IF After(pc[r]) = "idle" THEN 200 ELSE None
  /\ pc[r] = "write" => testfile'
  /\ AtTestfile(r) => ~testfile'
Fails(r) ==
  /\ pc[r] # "idle" /\ pc'[r] = "idle" /\ answer'[r] = 500
  /\ sick # {} \/ (AtTestfile(r) /\ ~testfile)
  /\ AtTestfile(r) /\ testfile => "storage" \in sick
Dropped(r) == pc'[r] = "idle" /\ answer'[r] = None
Moves(r) == Stays(r) \/ Asks(r) \/ Passes(r) \/ Fails(r) \/ Dropped(r)

\* The test file: written, taken away by a request or a sweep, or as it was.
FileMoves ==
  \/ testfile' = testfile
  \/ testfile' /\ ("storage" \in sick \/ \E r \in Request : AtTestfile(r)')
  \/ ~testfile' /\ sweeping
  \/ ~testfile' /\ \E r \in Request : AtTestfile(r) /\ ~AtTestfile(r)'

Controls ==
  {"idle", "database", "scheduler", "write", "unlink", "diskspace", "memory", "internet"}

\* The types of a request's two variables.
Requests ==
  /\ pc \in [Request -> Controls] /\ answer \in [Request -> {200, 500, None}]
  /\ \A r \in Request : answer[r] # None => pc[r] = "idle"

LEMMA TypesOfRequests == TypeOK => Requests
BY DEF TypeOK, Requests, Controls

LEMMA AfterType == \A c \in Controls : After(c) \in Controls
BY DEF Controls, After

LEMMA PassedMoves ==
  ASSUME TypeOK, NEW r \in Request, Passed(r)
  PROVE  /\ Requests'
         /\ pc'[r] = After(pc[r])
         /\ answer'[r] = IF After(pc[r]) = "idle" THEN 200 ELSE None
         /\ \A q \in Request \ {r} : Stays(q)
<1>1. pc[r] \in Controls /\ After(pc[r]) \in Controls
  BY AfterType, TypesOfRequests DEF Requests
<1>2. (IF After(pc[r]) = "idle" THEN 200 ELSE None) \in {200, 500, None}
  OBVIOUS
<1>3. pc' \in [Request -> Controls] /\ answer' \in [Request -> {200, 500, None}]
  BY <1>1, <1>2, TypesOfRequests DEF Passed, Requests
<1>4. pc'[r] = After(pc[r]) /\ answer'[r] = IF After(pc[r]) = "idle" THEN 200 ELSE None
  BY TypesOfRequests DEF Passed, Requests
<1>5. \A q \in Request \ {r} : Stays(q)
  BY TypesOfRequests DEF Passed, Stays, Requests
<1>6. ASSUME NEW q \in Request, answer'[q] # None PROVE pc'[q] = "idle"
  BY <1>4, <1>5, <1>6, TypesOfRequests DEF Requests, Stays
<1> QED
  BY <1>3, <1>4, <1>5, <1>6 DEF Requests

LEMMA FailedMoves ==
  ASSUME TypeOK, NEW r \in Request, Failed(r)
  PROVE  /\ Requests'
         /\ pc'[r] = "idle" /\ answer'[r] = 500
         /\ \A q \in Request \ {r} : Stays(q)
<1>1. pc' \in [Request -> Controls] /\ answer' \in [Request -> {200, 500, None}]
  BY TypesOfRequests DEF Failed, Requests, Controls
<1>2. pc'[r] = "idle" /\ answer'[r] = 500
  BY TypesOfRequests DEF Failed, Requests
<1>3. \A q \in Request \ {r} : Stays(q)
  BY TypesOfRequests DEF Failed, Stays, Requests
<1> QED
  BY <1>1, <1>2, <1>3, TypesOfRequests DEF Requests, Stays

\* The four steps of a request.
LEMMA RequestMoves ==
  ASSUME TypeOK, NEW r \in Request,
         Ask(r) \/ CheckPart(r) \/ WriteTestfile(r) \/ UnlinkTestfile(r)
  PROVE  /\ Requests' /\ testfile' \in BOOLEAN /\ sweeping' = sweeping /\ sick' = sick
         /\ FileMoves
         /\ \A q \in Request : Moves(q) /\ (Dropped(q) => Stays(q))
<1>0. testfile \in BOOLEAN /\ pc[r] \in Controls
  BY TypesOfRequests DEF TypeOK, Requests
<1>1. CASE Ask(r)
  <2>1. pc'[r] = "database" /\ answer'[r] = None /\ \A q \in Request \ {r} : Stays(q)
    BY <1>1, TypesOfRequests DEF Ask, Stays, Requests
  <2>2. Requests'
    <3>1. pc' \in [Request -> Controls] /\ answer' \in [Request -> {200, 500, None}]
      BY <1>1, TypesOfRequests DEF Ask, Requests, Controls
    <3> QED
      BY <2>1, <3>1, TypesOfRequests DEF Requests, Stays
  <2>3. \A q \in Request : Moves(q) /\ (Dropped(q) => Stays(q))
    BY <1>1, <2>1 DEF Ask, Moves, Asks, Dropped
  <2> QED
    BY <1>0, <1>1, <2>2, <2>3 DEF Ask, server, FileMoves
<1>2. CASE CheckPart(r)
  <2>1. /\ pc[r] \notin {"idle", "write", "unlink"}
        /\ testfile' = testfile /\ sweeping' = sweeping /\ sick' = sick
    BY <1>2 DEF CheckPart, server
  <2>2. CASE pc[r] \in sick
    <3>1. Failed(r)
      BY <1>2, <2>2 DEF CheckPart
    <3>2. Fails(r) /\ \A q \in Request \ {r} : Stays(q)
      BY <2>1, <2>2, <3>1, FailedMoves DEF Fails, AtTestfile
    <3>3. Requests' /\ ~Dropped(r)
      BY <3>1, FailedMoves, HealthAssumption DEF Dropped
    <3> QED
      BY <1>0, <2>1, <3>2, <3>3 DEF FileMoves, Moves
  <2>3. CASE pc[r] \notin sick
    <3>1. Passed(r)
      BY <1>2, <2>3 DEF CheckPart
    <3>2. Passes(r) /\ \A q \in Request \ {r} : Stays(q)
      BY <2>1, <2>3, <3>1, PassedMoves DEF Passes, PartOf, AtTestfile
    <3>3. Requests' /\ (Dropped(r) => Stays(r))
      BY <2>1, <3>1, PassedMoves, HealthAssumption DEF Dropped
    <3> QED
      BY <1>0, <2>1, <3>2, <3>3 DEF FileMoves, Moves
  <2> QED
    BY <2>2, <2>3
<1>3. CASE WriteTestfile(r)
  <2>1. pc[r] = "write" /\ sweeping' = sweeping /\ sick' = sick
    BY <1>3 DEF WriteTestfile
  <2>2. CASE "storage" \in sick
    <3>1. Failed(r) /\ testfile' \in {testfile, TRUE}
      BY <1>3, <2>2 DEF WriteTestfile
    <3>2. Fails(r) /\ \A q \in Request \ {r} : Stays(q)
      BY <2>1, <2>2, <3>1, FailedMoves DEF Fails, AtTestfile
    <3>3. Requests' /\ ~Dropped(r)
      BY <3>1, FailedMoves, HealthAssumption DEF Dropped
    <3>4. FileMoves /\ testfile' \in BOOLEAN
      BY <1>0, <2>2, <3>1 DEF FileMoves
    <3> QED
      BY <2>1, <3>2, <3>3, <3>4 DEF Moves
  <2>3. CASE "storage" \notin sick
    <3>1. Passed(r) /\ testfile' = TRUE
      BY <1>3, <2>3 DEF WriteTestfile
    <3>2. After(pc[r]) = "unlink"
      BY <2>1 DEF After
    <3>3. Passes(r) /\ \A q \in Request \ {r} : Stays(q)
      BY <2>1, <2>3, <3>1, PassedMoves DEF Passes, PartOf, AtTestfile
    <3>4. Requests' /\ (Dropped(r) => Stays(r)) /\ AtTestfile(r)'
      BY <3>1, <3>2, PassedMoves DEF Dropped, AtTestfile
    <3>5. FileMoves /\ testfile' \in BOOLEAN
      BY <3>1, <3>4 DEF FileMoves
    <3> QED
      BY <2>1, <3>3, <3>4, <3>5 DEF Moves
  <2> QED
    BY <2>2, <2>3
<1>4. CASE UnlinkTestfile(r)
  <2>1. pc[r] = "unlink" /\ AtTestfile(r) /\ sweeping' = sweeping /\ sick' = sick
    BY <1>4 DEF UnlinkTestfile, AtTestfile
  <2>2. CASE testfile /\ "storage" \notin sick
    <3>1. Passed(r) /\ testfile' = FALSE
      BY <1>4, <2>2 DEF UnlinkTestfile
    <3>2. After(pc[r]) = "diskspace"
      BY <2>1 DEF After
    <3>3. Passes(r) /\ \A q \in Request \ {r} : Stays(q)
      BY <2>1, <2>2, <3>1, PassedMoves DEF Passes, PartOf, AtTestfile
    <3>4. Requests' /\ (Dropped(r) => Stays(r)) /\ ~AtTestfile(r)'
      BY <3>1, <3>2, PassedMoves DEF Dropped, AtTestfile
    <3>5. FileMoves /\ testfile' \in BOOLEAN
      BY <2>1, <3>1, <3>4 DEF FileMoves
    <3> QED
      BY <2>1, <3>3, <3>4, <3>5 DEF Moves
  <2>3. CASE ~(testfile /\ "storage" \notin sick)
    <3>1. Failed(r) /\ testfile' = testfile
      BY <1>4, <2>3 DEF UnlinkTestfile
    <3>2. Fails(r) /\ \A q \in Request \ {r} : Stays(q)
      BY <2>1, <2>3, <3>1, FailedMoves DEF Fails, AtTestfile
    <3>3. Requests' /\ ~Dropped(r)
      BY <3>1, FailedMoves, HealthAssumption DEF Dropped
    <3> QED
      BY <1>0, <2>1, <3>1, <3>2, <3>3 DEF FileMoves, Moves
  <2> QED
    BY <2>2, <2>3
<1> QED
  BY <1>1, <1>2, <1>3, <1>4

\* Every step, seen from every request.
LEMMA StepMoves ==
  ASSUME TypeOK, Step
  PROVE  /\ Requests' /\ testfile' \in BOOLEAN /\ sweeping' \in BOOLEAN
         /\ sick' \subseteq Parts
         /\ FileMoves
         /\ \A q \in Request : Moves(q) /\ (Dropped(q) => Stays(q))
<1>0. testfile \in BOOLEAN /\ sweeping \in BOOLEAN /\ sick \subseteq Parts
  BY DEF TypeOK
<1>1. CASE \E r \in Request : Ask(r) \/ CheckPart(r) \/ WriteTestfile(r) \/ UnlinkTestfile(r)
  BY <1>0, <1>1, RequestMoves
<1>2. ASSUME UNCHANGED <<pc, answer>>
      PROVE  Requests' /\ \A q \in Request : Moves(q) /\ (Dropped(q) => Stays(q))
  BY <1>2, TypesOfRequests DEF Requests, Moves, Stays
<1>3. CASE ListStorage
  BY <1>0, <1>2, <1>3 DEF ListStorage, FileMoves
<1>4. CASE SweepTestfile
  BY <1>0, <1>2, <1>4 DEF SweepTestfile, FileMoves
<1>5. CASE \E p \in Parts : Fail(p) \/ Recover(p)
  <2>1. PICK p \in Parts : Fail(p) \/ Recover(p)
    BY <1>5
  <2>2. UNCHANGED <<pc, answer, testfile, sweeping>> /\ sick' \subseteq Parts
    BY <1>0, <2>1 DEF Fail, Recover
  <2> QED
    BY <1>0, <1>2, <2>2 DEF FileMoves
<1> QED
  BY <1>1, <1>3, <1>4, <1>5 DEF Step

LEMMA CrashMoves ==
  ASSUME TypeOK, Crash
  PROVE  /\ Requests' /\ testfile' = testfile /\ sweeping' = FALSE /\ sick' = sick
         /\ \A q \in Request : Dropped(q)
BY DEF Crash, Requests, Controls, Dropped

\* What is remembered of one request.
LEMMA Remembered ==
  ASSUME NEW crash \in BOOLEAN, Remember(crash), NEW r \in Request
  PROVE  /\ pc'[r] = "idle" =>
              steady'[r] = steady[r] /\ ailed'[r] = ailed[r] /\ overlapped'[r] = overlapped[r]
         /\ pc'[r] # "idle" =>
              /\ pc[r] = "idle" => steady'[r] = sick'
              /\ pc[r] # "idle" => steady'[r] = steady[r] \cap sick'
              /\ sick' # {} => ailed'[r]
              /\ pc[r] # "idle" /\ ailed[r] => ailed'[r]
              /\ pc[r] # "idle" /\ overlapped[r] => overlapped'[r]
              /\ AtTestfile(r)' /\ sweeping' => overlapped'[r]
              /\ \A q \in Request \ {r} : AtTestfile(r)' /\ AtTestfile(q)' => overlapped'[r]
BY Zenon DEF Remember

-----------------------------------------------------------------------------
\* The invariant.

LEMMA RememberType ==
  ASSUME TypeOK, NEW crash \in BOOLEAN, Remember(crash),
         testfile' \in BOOLEAN, sick' \subseteq Parts
  PROVE  /\ steady' \in [Request -> SUBSET Parts]
         /\ ailed' \in [Request -> BOOLEAN] /\ overlapped' \in [Request -> BOOLEAN]
         /\ spoiled' \in BOOLEAN
<1>1. steady' \in [Request -> SUBSET Parts]
  BY DEF Remember, TypeOK
<1>2. ailed' \in [Request -> BOOLEAN]
  BY Zenon DEF Remember, TypeOK
<1>3. overlapped' \in [Request -> BOOLEAN]
  BY Zenon DEF Remember, TypeOK
<1>4. spoiled' \in BOOLEAN
  BY Zenon DEF Remember, TypeOK
<1> QED
  BY <1>1, <1>2, <1>3, <1>4

\* Two checks, or a check and a sweep, that are at the file know of each other, and a
\* request knows of a failure, as soon as it happens.
LEMMA KnownAtOnce ==
  ASSUME NEW crash \in BOOLEAN, Remember(crash)
  PROVE  /\ AilingInv'
         /\ \A r \in Request : \A q \in Request \ {r} :
              AtTestfile(r)' /\ AtTestfile(q)' => overlapped'[r]
         /\ \A r \in Request : AtTestfile(r)' /\ sweeping' => overlapped'[r]
<1>1. AilingInv'
  BY Remembered DEF AilingInv
<1>2. \A r \in Request : AtTestfile(r)' => pc'[r] # "idle"
  BY DEF AtTestfile
<1> QED
  BY <1>1, <1>2, Remembered

LEMMA InvariantStep ==
  ASSUME IInv, Step, Remember(FALSE)
  PROVE  IInv'
<1> USE DEF IInv
<1>0. /\ Requests' /\ testfile' \in BOOLEAN /\ sweeping' \in BOOLEAN /\ sick' \subseteq Parts
      /\ FileMoves
      /\ \A q \in Request : Moves(q) /\ (Dropped(q) => Stays(q))
  BY StepMoves
<1>1. TypeOK'
  BY <1>0, RememberType DEF TypeOK, Requests, Controls
<1>2. ASSUME NEW r \in Request
      PROVE  Stays(r) \/ Asks(r) \/ Passes(r) \/ Fails(r)
  BY <1>0 DEF Moves
<1>3. ASSUME NEW r \in Request, AtTestfile(r)'
      PROVE  testfile' \/ overlapped'[r] \/ ailed'[r]
  <2>0. pc'[r] = "unlink"
    BY <1>3 DEF AtTestfile
  <2>1. CASE Stays(r)
    <3>1. AtTestfile(r) /\ pc[r] # "idle" /\ pc'[r] # "idle"
      BY <2>0, <2>1 DEF Stays, AtTestfile
    <3>2. testfile \/ overlapped[r] \/ ailed[r]
      BY <3>1 DEF FileInv
    <3>3. (overlapped[r] => overlapped'[r]) /\ (ailed[r] => ailed'[r])
      BY <3>1, Remembered
    <3>4. CASE testfile' = testfile \/ testfile'
      BY <3>2, <3>3, <3>4
    <3>5. CASE sweeping
      BY <3>1, <3>3, <3>5 DEF FileInv
    <3>6. CASE \E q \in Request : AtTestfile(q) /\ ~AtTestfile(q)'
      <4>1. PICK q \in Request : AtTestfile(q) /\ ~AtTestfile(q)'
        BY <3>6
      <4>2. q \in Request \ {r}
        BY <1>3, <4>1
      <4>3. overlapped[r]
        BY <3>1, <4>1, <4>2 DEF FileInv
      <4> QED
        BY <3>3, <4>3
    <3> QED
      BY <1>0, <3>4, <3>5, <3>6 DEF FileMoves
  <2>2. CASE Passes(r)
    <3>1. pc[r] \in Controls /\ After(pc[r]) = "unlink"
      BY <2>0, <2>2, TypesOfRequests DEF Passes, Requests
    <3>2. pc[r] = "write"
      BY <3>1 DEF After, Controls
    <3> QED
      BY <2>2, <3>2 DEF Passes
  <2> QED
    BY <1>2, <2>0, <2>1, <2>2 DEF Asks, Fails
<1>4. FileInv' /\ AilingInv'
  BY <1>3, KnownAtOnce DEF FileInv
<1>5. SteadyInv'
  <2> SUFFICES ASSUME NEW r \in Request, pc'[r] # "idle"
               PROVE  steady'[r] \subseteq (sick' \ Behind(pc'[r]))
    BY DEF SteadyInv
  <2>1. CASE Asks(r)
    BY <2>1, Remembered DEF Asks, Behind
  <2>2. CASE pc[r] # "idle"
    <3>1. steady'[r] = steady[r] \cap sick' /\ steady[r] \subseteq (sick \ Behind(pc[r]))
      BY <2>2, Remembered DEF SteadyInv
    <3>2. CASE Stays(r)
      BY <3>1, <3>2 DEF Stays
    <3>3. CASE Passes(r)
      <4>1. pc[r] \in Controls
        BY TypesOfRequests DEF Requests
      <4>2. Behind(After(pc[r])) \subseteq (Behind(pc[r]) \cup {PartOf(pc[r])})
        BY <2>2, <4>1 DEF Controls, After, Behind, PartOf
      <4> QED
        BY <3>1, <3>3, <4>2 DEF Passes
    <3> QED
      BY <1>2, <2>2, <3>2, <3>3 DEF Asks, Fails
  <2> QED
    BY <1>2, <2>1, <2>2 DEF Stays, Passes, Fails
<1>6. SteadyFailureFound'
  <2> SUFFICES ASSUME NEW r \in Request, answer'[r] = 200 PROVE steady'[r] = {}
    BY DEF SteadyFailureFound
  <2>1. pc'[r] = "idle"
    BY <1>0, HealthAssumption DEF Requests
  <2>2. steady'[r] = steady[r]
    BY <2>1, Remembered
  <2>3. CASE Stays(r)
    BY <2>2, <2>3 DEF Stays, SteadyFailureFound
  <2>4. CASE Passes(r)
    <3>1. pc[r] \in Controls /\ pc[r] # "idle" /\ After(pc[r]) = "idle"
      BY <2>1, <2>4, TypesOfRequests DEF Passes, Requests
    <3>2. pc[r] = "internet" /\ "internet" \notin sick
      BY <2>4, <3>1 DEF After, Controls, Passes, PartOf
    <3>3. steady[r] \subseteq (sick \ Behind("internet"))
      BY <3>1, <3>2 DEF SteadyInv
    <3> QED
      BY <2>2, <3>2, <3>3 DEF Behind, TypeOK, Parts
  <2> QED
    BY <1>2, <2>1, <2>3, <2>4 DEF Asks, Fails
<1>7. FalseAlarmNeedsOverlap'
  <2> SUFFICES ASSUME NEW r \in Request, answer'[r] = 500
               PROVE  ailed'[r] \/ overlapped'[r]
    BY DEF FalseAlarmNeedsOverlap
  <2>1. pc'[r] = "idle"
    BY <1>0, HealthAssumption DEF Requests
  <2>2. ailed'[r] = ailed[r] /\ overlapped'[r] = overlapped[r]
    BY <2>1, Remembered
  <2>3. CASE Stays(r)
    BY <2>2, <2>3 DEF Stays, FalseAlarmNeedsOverlap
  <2>4. CASE Fails(r)
    BY <2>2, <2>4 DEF Fails, AilingInv, FileInv
  <2> QED
    BY <1>2, <2>3, <2>4, HealthAssumption DEF Asks, Passes
<1>8. NothingLeftBehind'
  <2> SUFFICES ASSUME testfile', ~spoiled' PROVE \E r \in Request : AtTestfile(r)'
    BY DEF NothingLeftBehind
  <2>1. ~spoiled /\ "storage" \notin sick
    BY DEF Remember
  <2>2. CASE testfile
    <3>1. PICK r \in Request : AtTestfile(r)
      BY <2>1, <2>2 DEF NothingLeftBehind
    <3>2. Stays(r)
      BY <1>2, <2>1, <2>2, <3>1 DEF Asks, Passes, Fails, AtTestfile
    <3> QED
      BY <3>1, <3>2 DEF Stays, AtTestfile
  <2>3. CASE ~testfile
    BY <1>0, <2>1, <2>3 DEF FileMoves
  <2> QED
    BY <2>2, <2>3
<1> QED
  BY <1>1, <1>4, <1>5, <1>6, <1>7, <1>8

LEMMA InvariantCrash ==
  ASSUME IInv, Crash, Remember(TRUE)
  PROVE  IInv'
<1> USE DEF IInv
<1>0. /\ Requests' /\ testfile' = testfile /\ sweeping' = FALSE /\ sick' = sick
      /\ \A q \in Request : Dropped(q)
  BY CrashMoves
<1>1. TypeOK'
  BY <1>0, RememberType DEF TypeOK, Requests, Controls
<1>2. \A r \in Request : pc'[r] = "idle" /\ answer'[r] = None
  BY <1>0 DEF Dropped
<1>3. FileInv' /\ AilingInv' /\ SteadyInv'
  BY <1>2 DEF FileInv, AilingInv, SteadyInv, AtTestfile
<1>4. SteadyFailureFound' /\ FalseAlarmNeedsOverlap'
  BY <1>2, HealthAssumption DEF SteadyFailureFound, FalseAlarmNeedsOverlap
<1>5. NothingLeftBehind'
  BY DEF NothingLeftBehind, Remember
<1> QED
  BY <1>1, <1>3, <1>4, <1>5

LEMMA InvariantStutters ==
  ASSUME IInv, UNCHANGED vars
  PROVE  IInv'
BY DEF IInv, vars, TypeOK, FileInv, AilingInv, SteadyInv, SteadyFailureFound,
       FalseAlarmNeedsOverlap, NothingLeftBehind, AtTestfile, Behind

LEMMA HealthInvariant == Spec => []IInv
<1>1. IInv /\ [Next]_vars => IInv'
  BY InvariantStep, InvariantCrash, InvariantStutters DEF Next
<1> QED
  BY <1>1, HealthInit, PTL DEF Spec

\* Type correctness of the health check.
THEOREM HealthTypeCorrect == Spec => []TypeOK
<1>1. IInv => TypeOK
  BY DEF IInv
<1> QED
  BY <1>1, HealthInvariant, PTL

\* No check passes over a part that fails all the while.
THEOREM SteadyFailuresAlwaysFound == Spec => []SteadyFailureFound
<1>1. IInv => SteadyFailureFound
  BY DEF IInv
<1> QED
  BY <1>1, HealthInvariant, PTL

\* The one way to a false alarm is to share the test file, with any number of checks.
THEOREM FalseAlarmsNeedOverlap == Spec => []FalseAlarmNeedsOverlap
<1>1. IInv => FalseAlarmNeedsOverlap
  BY DEF IInv
<1> QED
  BY <1>1, HealthInvariant, PTL

\* Only a failing storage or the end of the process leaves a test file behind.
THEOREM NothingIsLeftBehind == Spec => []NothingLeftBehind
<1>1. IInv => NothingLeftBehind
  BY DEF IInv
<1> QED
  BY <1>1, HealthInvariant, PTL
=============================================================================
