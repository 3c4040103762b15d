-------------------------- MODULE JobSchedulerProofs --------------------------
(***************************************************************************)
(* Proofs about JobScheduler, for every set of jobs, every period, delay   *)
(* and grace time, and every bound of the clock, the suffixes and the      *)
(* requests.                                                               *)
(***************************************************************************)
EXTENDS JobScheduler, FiniteSetTheorems, TLAPS

\* The facts of the library's Append, Head and Tail the pool's queue needs.
LEMMA Appended ==
  ASSUME NEW S, NEW q \in Seq(S), NEW r \in S
  PROVE  /\ Append(q, r) \in Seq(S) /\ Len(q) \in Nat /\ Len(Append(q, r)) = Len(q) + 1
         /\ \A i \in 1 .. Len(q) : Append(q, r)[i] = q[i]
         /\ Append(q, r)[Len(q) + 1] = r
OBVIOUS

LEMMA Tailed ==
  ASSUME NEW S, NEW q \in Seq(S), q # <<>>
  PROVE  /\ Len(q) \in Nat \ {0} /\ Head(q) = q[1] /\ Head(q) \in S
         /\ Tail(q) \in Seq(S) /\ Len(Tail(q)) = Len(q) - 1
         /\ \A i \in 1 .. Len(q) - 1 : Tail(q)[i] = q[i + 1]
OBVIOUS

LEMMA JobIds ==
  /\ \A b \in CronBase : <<b, 0>> \in Cron /\ <<b, 1>> \in JobId \ Cron /\ <<b, 0>> # <<b, 1>>
  /\ Cron \subseteq JobId
  /\ \A j \in Cron : \E b \in CronBase : j = <<b, 0>>
  /\ \A b \in OneOffBase : <<b, 0>> \in JobId \ Cron
  /\ \A j \in JobId : j[2] < MaxSuffix => RetryId(j) \in JobId \ Cron
BY SchedulerAssumption DEF SchedulerAssumption, JobId, Cron, RetryId

\* A firing that is over is not later than the last one.
Firing(t) == t % Period = 0

LEMMA Firings ==
  ASSUME NEW n \in Nat
  PROVE  /\ n - (n % Period) \in 0 .. n /\ n < n - (n % Period) + Period
         /\ Firing(n - (n % Period)) /\ Firing(n - (n % Period) + Period)
         /\ \A t \in 0 .. n : Firing(t) => t <= n - (n % Period)
<1>1. Period \in Nat /\ Period > 0
  BY SchedulerAssumption DEF SchedulerAssumption
<1> DEFINE q == n \div Period
           m == n % Period
<1>2. /\ q \in Nat /\ m \in Nat /\ m < Period
      /\ n = Period * q + m
  BY <1>1
<1> HIDE DEF q, m
<1>3. ASSUME NEW t \in 0 .. n, Firing(t) PROVE t <= n - m
  <2> DEFINE k == t \div Period
  <2>1. k \in Nat /\ t = Period * k
    BY <1>1, <1>3 DEF Firing
  <2> HIDE DEF k
  <2>2. k <= q
    <3>1. CASE k >= q + 1
      <4>1. Period * k >= Period * (q + 1)
        BY <1>1, <1>2, <2>1, <3>1
      <4>2. Period * (q + 1) = Period * q + Period
        BY <1>1, <1>2
      <4> QED BY <1>1, <1>2, <2>1, <4>1, <4>2
    <3> QED BY <1>2, <2>1, <3>1
  <2>3. Period * k <= Period * q
    BY <1>1, <1>2, <2>1, <2>2
  <2> QED BY <1>1, <1>2, <2>1, <2>3
<1>4. n - m = Period * q /\ n - m + Period = Period * (q + 1)
  BY <1>1, <1>2
<1>5. Period * q \in Nat
  BY <1>1, <1>2
<1>6. \A k \in Nat : (Period * k) % Period = 0
  BY <1>1
<1>7. Firing(n - m) /\ Firing(n - m + Period)
  BY <1>2, <1>4, <1>6 DEF Firing
<1> QED BY <1>1, <1>2, <1>3, <1>4, <1>5, <1>7 DEF m

-----------------------------------------------------------------------------
\* The runs of the pool are of different jobs, and the pool counts each of them.
Queued(j) == \E i \in 1 .. Len(queue) : queue[i].id = j

Pooled(j) == Queued(j) \/ (worker.pc = "running" /\ worker.run.id = j)

PoolInv ==
  /\ \A i, k \in 1 .. Len(queue) : queue[i].id = queue[k].id => i = k
  /\ worker.pc = "running" => ~Queued(worker.run.id)
  /\ \A j \in JobId : instances[j] = IF Pooled(j) THEN 1 ELSE 0
  /\ worker.pc # "idle" => worker.run \in Run

TypeInv == TypeOK /\ PoolInv

LEMMA Bounds ==
  /\ Period \in Nat \ {0} /\ RetryDelay \in Nat \ {0} /\ MaxTime \in Nat \ {0}
  /\ MaxSuffix \in Nat \ {0} /\ MaxRequests \in Nat \ {0} /\ Grace \in Nat /\ None \notin Nat
BY SchedulerAssumption DEF SchedulerAssumption

LEMMA FiringTimes ==
  ASSUME TypeOK
  PROVE  /\ LastFiring \in Time /\ LastFiring <= now /\ Firing(LastFiring)
         /\ NextFiring \in 0 .. MaxTime + Period + RetryDelay /\ NextFiring > now
         /\ NextFiring = LastFiring + Period /\ Firing(NextFiring)
         /\ \A t \in Nat : t <= now /\ Firing(t) => t <= LastFiring
<1>1. now \in Nat /\ now <= MaxTime
  BY Bounds DEF TypeOK, Time
<1>2. /\ LastFiring \in 0 .. now /\ now < LastFiring + Period
      /\ Firing(LastFiring) /\ Firing(LastFiring + Period)
      /\ \A t \in 0 .. now : Firing(t) => t <= LastFiring
  BY <1>1, Firings DEF LastFiring
<1>3. NextFiring = LastFiring + Period
  BY DEF NextFiring
<1> QED BY <1>1, <1>2, <1>3, Bounds DEF Time

\* The run at the queue's head leaves the queue, and no other run of its job is in it.
LEMMA HeadLeaves ==
  ASSUME TypeInv, queue # <<>>, queue' = Tail(queue)
  PROVE  /\ Head(queue) \in Run /\ Head(queue) = queue[1] /\ 1 \in 1 .. Len(queue)
         /\ queue' \in Seq(Run)
         /\ \A i, k \in 1 .. Len(queue') : queue'[i].id = queue'[k].id => i = k
         /\ \A i \in 1 .. Len(queue') : i + 1 \in 1 .. Len(queue) /\ queue'[i] = queue[i + 1]
         /\ \A j : Queued(j)' <=> Queued(j) /\ j # Head(queue).id
<1>1. queue \in Seq(Run)
  BY DEF TypeInv, TypeOK
<1>2. /\ Len(queue) \in Nat \ {0} /\ Head(queue) = queue[1] /\ Head(queue) \in Run
      /\ queue' \in Seq(Run) /\ Len(queue') = Len(queue) - 1
      /\ \A i \in 1 .. Len(queue) - 1 : queue'[i] = queue[i + 1]
  BY <1>1, Tailed
<1>3. \A i \in 1 .. Len(queue') : i + 1 \in 1 .. Len(queue) /\ queue'[i] = queue[i + 1]
  BY <1>2
<1>4. \A i, k \in 1 .. Len(queue') : queue'[i].id = queue'[k].id => i = k
  BY <1>2, <1>3 DEF TypeInv, PoolInv
<1>5. ASSUME NEW j PROVE Queued(j)' <=> Queued(j) /\ j # Head(queue).id
  <2>1. ASSUME NEW i \in 1 .. Len(queue), queue[i].id = j, j # Head(queue).id PROVE Queued(j)'
    <3>1. i # 1
      BY <1>2, <2>1
    <3>2. i - 1 \in 1 .. Len(queue') /\ queue'[i - 1] = queue[i]
      BY <1>2, <3>1
    <3> QED BY <2>1, <3>2 DEF Queued
  <2>2. ASSUME NEW i \in 1 .. Len(queue'), queue'[i].id = j
        PROVE  Queued(j) /\ j # Head(queue).id
    <3>1. i + 1 \in 1 .. Len(queue) /\ queue[i + 1].id = j /\ 1 \in 1 .. Len(queue) /\ i + 1 # 1
      BY <1>2, <1>3, <2>2
    <3> QED BY <1>2, <3>1 DEF Queued, TypeInv, PoolInv
  <2> QED BY <2>1, <2>2 DEF Queued
<1> QED BY <1>2, <1>3, <1>4, <1>5

LEMMA RunJoins ==
  ASSUME TypeInv, NEW r \in Run, queue' = Append(queue, r)
  PROVE  /\ queue' \in Seq(Run) /\ Len(queue') = Len(queue) + 1 /\ Len(queue) \in Nat
         /\ \A i \in 1 .. Len(queue) : queue'[i] = queue[i]
         /\ queue'[Len(queue) + 1] = r
         /\ \A i \in 1 .. Len(queue') : i \in 1 .. Len(queue) \/ i = Len(queue) + 1
         /\ \A j : Queued(j)' <=> Queued(j) \/ j = r.id
<1>1. queue \in Seq(Run)
  BY DEF TypeInv, TypeOK
<1>2. /\ queue' \in Seq(Run) /\ Len(queue') = Len(queue) + 1 /\ Len(queue) \in Nat
      /\ \A i \in 1 .. Len(queue) : queue'[i] = queue[i]
      /\ queue'[Len(queue) + 1] = r
  BY <1>1, Appended
<1>3. \A i \in 1 .. Len(queue') : i \in 1 .. Len(queue) \/ i = Len(queue) + 1
  BY <1>2
<1>4. \A i \in 1 .. Len(queue) : i \in 1 .. Len(queue')
  BY <1>2
<1>5. Len(queue) + 1 \in 1 .. Len(queue')
  BY <1>2
<1> QED BY <1>2, <1>3, <1>4, <1>5 DEF Queued

\* Every run that enters the pool is counted, every one that leaves it is taken off the
\* count, and the count is never below zero.
LEMMA TypeStep == TypeInv /\ [Next]_vars => TypeInv'
<1> SUFFICES ASSUME TypeInv, [Next]_vars PROVE TypeInv'
  OBVIOUS
<1> USE DEF TypeInv
<1>0. TypeOK /\ PoolInv
  OBVIOUS
<1>1. \* Steps that leave the pool alone.
      ASSUME UNCHANGED <<queue, instances, worker>> PROVE PoolInv'
  BY <1>0, <1>1 DEF PoolInv, Pooled, Queued
<1>2. CASE UNCHANGED vars
  BY <1>0, <1>1, <1>2 DEF vars, TypeOK
<1>3. ASSUME NEW b \in OneOffBase, AddOneOff(b) PROVE TypeInv'
  <2>1. now \in 0 .. MaxTime + Period + RetryDelay
    BY Bounds DEF TypeOK, Time
  <2>2. TypeOK'
    BY <1>3, <2>1, JobIds, Bounds DEF AddOneOff, TypeOK
  <2> QED BY <1>1, <1>3, <2>2 DEF AddOneOff
<1>4. ASSUME NEW b \in CronBase, AddCron(b) \/ RemoveCron(b) PROVE TypeInv'
  <2>1. <<b, 0>> \in JobId
    BY JobIds
  <2>2. TypeOK'
    BY <1>4, <2>1, FiringTimes DEF AddCron, RemoveCron, TypeOK
  <2> QED BY <1>1, <1>4, <2>2 DEF AddCron, RemoveCron
<1>5. ASSUME NEW j \in JobId, Submit(j) PROVE TypeInv'
  <2>1. DueTime(j) \in Time
    <3>1. CASE j \in Cron
      BY <3>1, FiringTimes DEF DueTime
    <3>2. CASE j \notin Cron
      BY <1>5, <3>2, Bounds DEF DueTime, Submit, TypeOK, Time
    <3> QED BY <3>1, <3>2
  <2>2. PICK r \in Run : r = [id |-> j, due |-> DueTime(j)]
    BY <2>1 DEF Run
  <2>3. submitting' = r /\ r.id = j /\ UNCHANGED <<now, store, worker, requests>>
    BY <1>5, <2>2 DEF Submit
  <2>4. CASE instances[j] < MaxInstances
    <3>1. queue' = Append(queue, r) /\ instances' = [instances EXCEPT ![j] = @ + 1]
      BY <1>5, <2>2, <2>3, <2>4 DEF Submit
    <3>2. instances[j] = 0 /\ ~Pooled(j)
      BY <2>4 DEF PoolInv, MaxInstances
    <3>3. TypeOK'
      BY <2>3, <3>1, RunJoins DEF TypeOK
    <3>4. /\ \A i, k \in 1 .. Len(queue') : queue'[i].id = queue'[k].id => i = k
          /\ \A i : Queued(i)' <=> Queued(i) \/ i = j
      BY <2>3, <3>1, <3>2, RunJoins DEF PoolInv, Pooled, Queued
    <3>5. \A i \in JobId : instances'[i] = IF i = j THEN 1 ELSE instances[i]
      BY <3>1, <3>2 DEF TypeOK
    <3>6. \A i : Pooled(i)' <=> Pooled(i) \/ i = j
      BY <2>3, <3>4 DEF Pooled
    <3>7. PoolInv'
      <4>1. \A i \in JobId : instances'[i] = IF Pooled(i)' THEN 1 ELSE 0
        BY <3>5, <3>6 DEF PoolInv
      <4>2. worker.pc = "running" => ~Queued(worker.run.id)'
        BY <2>3, <3>2, <3>4 DEF PoolInv, Pooled
      <4> QED BY <2>3, <3>4, <4>1, <4>2 DEF PoolInv
    <3> QED BY <3>3, <3>7
  <2>5. CASE ~(instances[j] < MaxInstances)
    BY <1>1, <1>5, <2>3, <2>5 DEF Submit, TypeOK
  <2> QED BY <2>4, <2>5
<1>6. CASE UpdateSubmitted
  <2>1. submitting \in Run /\ submitting.id \in JobId
    BY <1>6 DEF UpdateSubmitted, TypeOK, Run
  <2>2. TypeOK'
    BY <1>6, <2>1, FiringTimes DEF UpdateSubmitted, TypeOK
  <2> QED BY <1>1, <1>6, <2>2 DEF UpdateSubmitted
<1>7. CASE StartRun
  <2>1. /\ worker' = [pc |-> "running", run |-> Head(queue)] /\ queue' = Tail(queue)
        /\ queue # <<>> /\ worker.pc = "idle" /\ UNCHANGED <<now, store, submitting, instances, requests>>
    BY <1>7 DEF StartRun
  <2>2. TypeOK'
    BY <2>1, HeadLeaves DEF TypeOK
  <2>3. \A j : Pooled(j)' <=> Pooled(j)
    <3>1. Queued(Head(queue).id)
      BY <2>1, HeadLeaves DEF Queued
    <3> QED BY <2>1, <3>1, HeadLeaves DEF Pooled
  <2>4. PoolInv'
    <3>1. worker'.run \in Run
      BY <2>1, HeadLeaves
    <3> QED BY <2>1, <2>3, <3>1, HeadLeaves DEF PoolInv
  <2> QED BY <2>2, <2>4
<1>8. CASE MissRun
  <2>1. /\ queue' = Tail(queue) /\ queue # <<>> /\ worker.pc = "idle"
        /\ instances' = [instances EXCEPT ![Head(queue).id] = @ - 1]
        /\ UNCHANGED <<now, store, submitting, worker, requests>>
    BY <1>8 DEF MissRun, Leave
  <2>2. Head(queue) \in Run /\ Head(queue).id \in JobId /\ Pooled(Head(queue).id)
    BY <2>1, HeadLeaves DEF Run, Pooled, Queued
  <2>3. \A j \in JobId : instances'[j] = IF j = Head(queue).id THEN 0 ELSE instances[j]
    BY <2>1, <2>2 DEF TypeOK, PoolInv
  <2>4. \A j : Pooled(j)' <=> Pooled(j) /\ j # Head(queue).id
    BY <2>1, HeadLeaves DEF Pooled
  <2>5. TypeOK'
    <3>1. instances' = [j \in JobId |-> IF j = Head(queue).id THEN 0 ELSE instances[j]]
      BY <2>1, <2>3 DEF TypeOK
    <3>2. instances' \in [JobId -> Nat]
      BY <3>1 DEF TypeOK
    <3> QED BY <2>1, <3>2, HeadLeaves DEF TypeOK
  <2>6. PoolInv'
    BY <2>1, <2>3, <2>4, HeadLeaves DEF PoolInv
  <2> QED BY <2>5, <2>6
<1>9. CASE EndRun \/ FailRun
  <2>1. /\ worker.pc = "running" /\ worker'.pc # "running"
        /\ worker'.pc # "idle" => worker'.run = worker.run
        /\ worker' \in [pc : {"idle", "running", "listening"}, run : Run \cup {None}]
        /\ instances' = [instances EXCEPT ![worker.run.id] = @ - 1]
        /\ UNCHANGED <<now, store, submitting, queue, requests>>
    BY <1>9 DEF EndRun, FailRun, Leave, Resting, TypeOK
  <2>2. worker.run \in Run /\ worker.run.id \in JobId /\ ~Queued(worker.run.id)
    BY <2>1 DEF TypeOK, PoolInv, Run
  <2>3. \A j \in JobId : instances'[j] = IF j = worker.run.id THEN 0 ELSE instances[j]
    BY <2>1, <2>2 DEF TypeOK, PoolInv, Pooled
  <2>4. \A j : Pooled(j)' <=> Pooled(j) /\ j # worker.run.id
    BY <2>1, <2>2 DEF Pooled, Queued
  <2>5. TypeOK'
    <3>1. instances' = [j \in JobId |-> IF j = worker.run.id THEN 0 ELSE instances[j]]
      BY <2>1, <2>3 DEF TypeOK
    <3>2. instances' \in [JobId -> Nat]
      BY <3>1 DEF TypeOK
    <3> QED BY <2>1, <3>2 DEF TypeOK
  <2>6. PoolInv'
    BY <2>1, <2>3, <2>4 DEF PoolInv, Queued
  <2> QED BY <2>5, <2>6
<1>10. CASE Listen
  <2>1. worker.run \in Run /\ worker.run.id \in JobId /\ worker.run.due \in Time
    BY <1>10 DEF Listen, TypeOK, PoolInv, Run
  <2>2. worker.run.due + RetryDelay \in 0 .. MaxTime + Period + RetryDelay
    BY <2>1, Bounds DEF Time
  <2>3. store' \in [JobId -> 0 .. MaxTime + Period + RetryDelay \cup {None}]
    <3>1. worker.run.id[2] < MaxSuffix => RetryId(worker.run.id) \in JobId
      BY <2>1, JobIds
    <3> QED BY <1>10, <2>2, <3>1 DEF Listen, TypeOK
  <2>4. worker' = Resting /\ UNCHANGED <<now, submitting, queue, instances, requests>>
        /\ worker.pc = "listening"
    BY <1>10 DEF Listen
  <2>5. TypeOK'
    BY <2>3, <2>4 DEF TypeOK, Resting
  <2>6. PoolInv'
    BY <2>4 DEF PoolInv, Pooled, Queued, Resting
  <2> QED BY <2>5, <2>6
<1>11. CASE Tick
  BY <1>1, <1>11, Bounds DEF Tick, TypeOK, Time
<1>12. CASE Restart
  <2>1. TypeOK'
    BY <1>12 DEF Restart, TypeOK, Resting
  <2>2. PoolInv'
    BY <1>12 DEF Restart, PoolInv, Pooled, Queued, Resting
  <2> QED BY <2>1, <2>2
<1> QED
  BY <1>2, <1>3, <1>4, <1>5, <1>6, <1>7, <1>8, <1>9, <1>10, <1>11, <1>12 DEF Next

LEMMA TypeInit == Init => TypeInv
BY Bounds DEF Init, TypeInv, TypeOK, PoolInv, Pooled, Queued, Resting, Time

\* The clock, the store, the pool and its counters keep their types; above all no
\* counter of the pool ever falls below zero, whatever is missed, fails or is listened to.
THEOREM SchedulerTypeCorrect == Spec => []TypeOK
<1>1. TypeInv => TypeOK
  BY DEF TypeInv
<1> QED
  BY <1>1, TypeInit, TypeStep, PTL DEF Spec

\* The counter the loop asks before it submits is the number of the job's runs in the
\* queue and on the thread, and never more than one.
LEMMA PoolCounts == TypeInv => OneRunPerJob
<1> SUFFICES ASSUME TypeInv, NEW j \in JobId
             PROVE  instances[j] = InPool(j) /\ instances[j] <= 1
  BY DEF OneRunPerJob
<1> DEFINE its == {i \in 1 .. Len(queue) : queue[i].id = j}
<1>1. CASE Queued(j)
  <2>1. PICK i \in 1 .. Len(queue) : queue[i].id = j
    BY <1>1 DEF Queued
  <2>2. its = {i}
    BY <2>1 DEF TypeInv, PoolInv
  <2>3. Cardinality(its) = 1
    BY <2>2, FS_Singleton
  <2>4. ~(worker.pc = "running" /\ worker.run.id = j)
    BY <1>1 DEF TypeInv, PoolInv
  <2>5. instances[j] = 1
    BY <1>1 DEF TypeInv, PoolInv, Pooled
  <2> QED BY <2>3, <2>4, <2>5 DEF InPool
<1>2. CASE ~Queued(j)
  <2>1. its = {}
    BY <1>2 DEF Queued
  <2>2. Cardinality(its) = 0
    BY <2>1, FS_EmptySet
  <2>3. instances[j] = IF worker.pc = "running" /\ worker.run.id = j THEN 1 ELSE 0
    BY <1>2 DEF TypeInv, PoolInv, Pooled
  <2> QED BY <2>2, <2>3 DEF InPool
<1> QED BY <1>1, <1>2

\* A job triggered again while it waits or runs is never queued beside itself, and a
\* run that ends, fails, is missed or dies with the process is taken off the count once.
THEOREM NeverTwoRunsOfAJob == Spec => []OneRunPerJob
BY TypeInit, TypeStep, PoolCounts, PTL DEF Spec

-----------------------------------------------------------------------------
\* Retries of cron jobs, when a retry cannot wait until the job's next firing.

\* The runs in the queue, and with the one the thread runs or its listener is told of.
Waiting == {queue[i] : i \in 1 .. Len(queue)}
Held == Waiting \cup (IF worker.pc = "idle" THEN {} ELSE {worker.run})

Submitting(j) == submitting # None /\ submitting.id = j

\* A held run of a cron job is of a past firing, and once the loop has updated the job
\* its next firing is at least a period later.
FiringsInv ==
  /\ \A j \in Cron : store[j] # None => Firing(store[j])
  /\ \A r \in Held :
       /\ r.due <= now
       /\ r.id \in Cron =>
            /\ Firing(r.due)
            /\ store[r.id] = None \/ Submitting(r.id) \/ store[r.id] >= r.due + Period

\* A retry due at t comes from a past firing of b's job, before all that are to run.
Earlier(b, t) ==
  /\ t - RetryDelay \in 0 .. now /\ Firing(t - RetryDelay)
  /\ store[<<b, 0>>] # None => store[<<b, 0>>] >= t - RetryDelay + Period
  /\ \A r \in Held : r.id = <<b, 0>> => r.due >= t - RetryDelay + Period

\* The retry of b's job has left the store, or is about to.
Leaving(b) == store[<<b, 1>>] = None \/ Submitting(<<b, 1>>)

RetryInv(b) ==
  /\ store[<<b, 1>>] # None => Earlier(b, store[<<b, 1>>])
  /\ \A r \in Waiting : r.id = <<b, 1>> =>
       Earlier(b, r.due) /\ (Leaving(b) \/ now - r.due > Grace)
  /\ worker.pc # "idle" /\ worker.run.id = <<b, 1>> => Leaving(b)
  /\ worker.pc # "idle" /\ worker.run.id = <<b, 0>> =>
       \A r \in Waiting : r.id = <<b, 0>> => r.due >= worker.run.due + Period
  /\ \A n \in 2 .. MaxSuffix : store[<<b, n>>] = None

ChainInv == FiringsInv /\ \A b \in CronBase : RetryInv(b)

\* What holds of every held run and stored job.
LEMMA HeldTypes ==
  ASSUME TypeInv
  PROVE  /\ Waiting \subseteq Held
         /\ \A r \in Held : r \in Run /\ r.id \in JobId /\ r.due \in Nat
         /\ worker.pc # "idle" => worker.run \in Held
         /\ now \in Nat /\ \A j \in JobId : store[j] # None => store[j] \in Nat
<1>1. queue \in Seq(Run)
  BY DEF TypeInv, TypeOK
<1>2. Waiting \subseteq Run
  BY <1>1 DEF Waiting
<1>3. worker.pc # "idle" => worker.run \in Run
  BY DEF TypeInv, PoolInv
<1>4. \A r \in Run : r.id \in JobId /\ r.due \in Nat
  BY Bounds DEF Run, Time
<1>5. now \in Nat /\ \A j \in JobId : store[j] # None => store[j] \in Nat
  BY Bounds DEF TypeInv, TypeOK, Time
<1> QED BY <1>2, <1>3, <1>4, <1>5 DEF Held

LEMMA HeadWaits ==
  ASSUME TypeInv, queue # <<>>, queue' = Tail(queue)
  PROVE  /\ Head(queue) \in Waiting /\ Waiting' \subseteq Waiting
         /\ \A r \in Waiting' : r.id # Head(queue).id
<1>1. \A i \in 1 .. Len(queue') : queue'[i].id # Head(queue).id
  BY HeadLeaves DEF Queued
<1> QED BY <1>1, HeadLeaves DEF Waiting

LEMMA JoinsWaiting ==
  ASSUME TypeInv, NEW r \in Run, queue' = Append(queue, r)
  PROVE  Waiting' = Waiting \cup {r}
<1>1. Len(queue) + 1 \in 1 .. Len(queue') /\ \A i \in 1 .. Len(queue) : i \in 1 .. Len(queue')
  BY RunJoins
<1> QED BY <1>1, RunJoins DEF Waiting

\* The steps after which the pool holds no other runs and the store is as it was.
LEMMA FewerRuns ==
  ASSUME TypeInv, ChainInv, Held' \subseteq Held, Waiting' \subseteq Waiting,
         UNCHANGED <<now, store, submitting>>,
         worker'.pc # "idle" => worker.pc # "idle" /\ worker'.run = worker.run
  PROVE  ChainInv'
<1>1. FiringsInv'
  BY DEF ChainInv, FiringsInv, Submitting
<1>2. ASSUME NEW b \in CronBase PROVE RetryInv(b)'
  <2>1. RetryInv(b)
    BY DEF ChainInv
  <2>2. \A t : Earlier(b, t) => Earlier(b, t)'
    BY DEF Earlier
  <2>3. Leaving(b) => Leaving(b)'
    BY DEF Leaving, Submitting
  <2> QED BY <2>1, <2>2, <2>3 DEF RetryInv
<1> QED BY <1>1, <1>2 DEF ChainInv

\* So are the steps that give a cron job its next firing.
LEMMA NextFirings ==
  ASSUME TypeInv, ChainInv, UNCHANGED <<now, queue, worker>>, submitting' = None,
         NEW c \in JobId,
         store' = [store EXCEPT ![c] = IF c \in Cron THEN NextFiring ELSE None]
                  \/ store' = [store EXCEPT ![c] = None],
         submitting # None => submitting.id = c
  PROVE  ChainInv'
<1>1. /\ \A j \in JobId : j # c => store'[j] = store[j]
      /\ store'[c] # None => c \in Cron /\ store'[c] = NextFiring
      /\ Waiting' = Waiting /\ Held' = Held
  BY DEF TypeInv, TypeOK, Waiting, Held
<1>2. \A j : ~Submitting(j)'
  BY DEF Submitting
<1>3. /\ NextFiring \in Nat /\ Firing(NextFiring) /\ NextFiring = LastFiring + Period
      /\ LastFiring \in Nat /\ \A t \in Nat : t <= now /\ Firing(t) => t <= LastFiring
      /\ Period \in Nat /\ RetryDelay \in Nat
  BY FiringTimes, Bounds DEF TypeInv, Time
<1>4. FiringsInv'
  <2>1. \A j \in Cron : store'[j] # None => Firing(store'[j])
    BY <1>1, <1>3, JobIds DEF ChainInv, FiringsInv
  <2>2. ASSUME NEW r \in Held, r.id \in Cron, store'[r.id] # None
        PROVE  store'[r.id] >= r.due + Period
    <3>1. Firing(r.due) /\ r.due \in Nat /\ r.due <= now /\ r.id \in JobId
      BY <2>2, HeldTypes DEF ChainInv, FiringsInv
    <3>2. CASE r.id = c
      BY <1>1, <1>3, <2>2, <3>1, <3>2
    <3>3. CASE r.id # c
      <4>1. store[r.id] >= r.due + Period
        BY <1>1, <2>2, <3>1, <3>3 DEF ChainInv, FiringsInv, Submitting
      <4> QED BY <1>1, <3>1, <3>3, <4>1
    <3> QED BY <3>2, <3>3
  <2> QED BY <1>1, <2>1, <2>2 DEF ChainInv, FiringsInv
<1>5. ASSUME NEW b \in CronBase PROVE RetryInv(b)'
  <2>1. RetryInv(b) /\ <<b, 0>> \in JobId /\ <<b, 1>> \in JobId \ Cron /\ <<b, 0>> # <<b, 1>>
    BY JobIds DEF ChainInv
  <2>2. ASSUME NEW t \in Int, Earlier(b, t) PROVE Earlier(b, t)'
    <3>1. store'[<<b, 0>>] # None => store'[<<b, 0>>] >= t - RetryDelay + Period
      <4>1. t - RetryDelay \in Nat /\ t - RetryDelay <= now /\ Firing(t - RetryDelay)
        BY <2>2, HeldTypes DEF Earlier
      <4>2. CASE <<b, 0>> = c
        BY <1>1, <1>3, <4>1, <4>2
      <4>3. CASE <<b, 0>> # c
        BY <1>1, <2>1, <2>2, <4>3 DEF Earlier
      <4> QED BY <4>2, <4>3
    <3> QED BY <1>1, <2>2, <3>1 DEF Earlier
  <2>3. Leaving(b) => store'[<<b, 1>>] = None
    BY <1>1, <2>1 DEF Leaving, Submitting
  <2>4. store'[<<b, 1>>] # None => store'[<<b, 1>>] = store[<<b, 1>>] /\ store[<<b, 1>>] \in Int
    BY <1>1, <2>1, HeldTypes
  <2>5. \A r \in Waiting : r.due \in Int
    BY HeldTypes
  <2>6. \A n \in 2 .. MaxSuffix : store'[<<b, n>>] = None
    <3> SUFFICES ASSUME NEW n \in 2 .. MaxSuffix PROVE store'[<<b, n>>] = None
      OBVIOUS
    <3>1. <<b, n>> \in JobId \ Cron
      BY Bounds DEF JobId, Cron
    <3> QED BY <1>1, <2>1, <3>1 DEF RetryInv
  <2> QED BY <1>1, <2>1, <2>2, <2>3, <2>4, <2>5, <2>6 DEF RetryInv, Leaving
<1> QED BY <1>4, <1>5 DEF ChainInv

\* A submitted run is later than every retry that is still to come or to run.
LEMMA SubmitChain ==
  ASSUME TypeInv, ChainInv, NEW j \in JobId, Submit(j)
  PROVE  ChainInv'
<1>1. /\ submitting = None /\ store[j] # None /\ store[j] <= now
      /\ submitting' = [id |-> j, due |-> DueTime(j)]
      /\ UNCHANGED <<now, store, worker, requests>>
      /\ queue' = queue \/ queue' = Append(queue, submitting')
  BY DEF Submit, StoresUnlocked
<1>2. /\ LastFiring \in Time /\ LastFiring <= now /\ Firing(LastFiring)
      /\ \A t \in Nat : t <= now /\ Firing(t) => t <= LastFiring
      /\ Period \in Nat /\ RetryDelay \in Nat /\ store[j] \in Nat /\ now \in Nat
  BY <1>1, FiringTimes, HeldTypes, Bounds DEF TypeInv
<1>3. PICK due \in Nat : /\ due = DueTime(j) /\ due <= now /\ due \in Time /\ due >= store[j]
                         /\ j \in Cron => Firing(due)
                         /\ j \notin Cron => due = store[j]
  <2>1. CASE j \in Cron
    <3>1. Firing(store[j])
      BY <1>1, <2>1 DEF ChainInv, FiringsInv
    <3> QED BY <1>1, <1>2, <2>1, <3>1, Bounds DEF DueTime, Time
  <2>2. CASE j \notin Cron
    BY <1>1, <1>2, <2>2, Bounds DEF DueTime, Time, TypeInv, TypeOK
  <2> QED BY <2>1, <2>2
<1>4. PICK r \in Run : r = [id |-> j, due |-> due] /\ submitting' = r
  BY <1>1, <1>3 DEF Run
<1>5. /\ Waiting' \subseteq Waiting \cup {r} /\ Held' \subseteq Held \cup {r}
      /\ r.id = j /\ r.due = due
  <2>1. CASE queue' = queue
    BY <1>1, <1>4, <2>1 DEF Waiting, Held
  <2>2. CASE queue' = Append(queue, r)
    BY <1>1, <1>4, <2>2, JoinsWaiting DEF Held
  <2> QED BY <1>1, <1>4, <2>1, <2>2
<1>6. /\ \A i : ~Submitting(i)
      /\ Submitting(j)'
  BY <1>1, <1>4, <1>5, NoRunAssumption DEF Submitting, NoRunAssumption
<1>7. FiringsInv'
  BY <1>1, <1>3, <1>5, <1>6 DEF ChainInv, FiringsInv
<1>8. ASSUME NEW b \in CronBase PROVE RetryInv(b)'
  <2>1. RetryInv(b) /\ <<b, 0>> \in JobId /\ <<b, 1>> \in JobId /\ <<b, 0>> \in Cron
        /\ <<b, 1>> \notin Cron
    BY JobIds DEF ChainInv
  <2>2. ASSUME NEW t \in Int, Earlier(b, t) PROVE Earlier(b, t)'
    <3>1. j = <<b, 0>> => due >= t - RetryDelay + Period
      BY <1>1, <1>2, <1>3, <2>2 DEF Earlier
    <3> QED BY <1>1, <1>5, <2>2, <3>1 DEF Earlier
  <2>3. Leaving(b) => Leaving(b)'
    BY <1>1, <1>6 DEF Leaving
  <2>4. store[<<b, 1>>] # None => store[<<b, 1>>] \in Int
    BY <2>1, HeldTypes
  <2>5. ASSUME NEW s \in Waiting', s.id = <<b, 1>>
        PROVE  Earlier(b, s.due)' /\ (Leaving(b)' \/ now' - s.due > Grace)
    <3>1. CASE s \in Waiting
      BY <1>1, <2>1, <2>2, <2>3, <2>5, <3>1, HeldTypes DEF RetryInv
    <3>2. CASE s = r
      BY <1>1, <1>3, <1>5, <1>6, <2>1, <2>2, <2>4, <2>5, <3>2 DEF RetryInv, Leaving
    <3> QED BY <1>5, <3>1, <3>2
  <2>6. ASSUME worker.pc # "idle", worker.run.id = <<b, 0>>, NEW s \in Waiting', s.id = <<b, 0>>
        PROVE  s.due >= worker.run.due + Period
    <3>1. CASE s \in Waiting
      BY <2>1, <2>6, <3>1 DEF RetryInv
    <3>2. CASE s = r
      <4>1. worker.run \in Held /\ worker.run.due \in Nat
        BY <2>6, HeldTypes
      <4>2. store[j] >= worker.run.due + Period
        BY <1>1, <1>5, <1>6, <2>1, <2>6, <3>2, <4>1 DEF ChainInv, FiringsInv
      <4> QED BY <1>2, <1>3, <1>5, <3>2, <4>1, <4>2
    <3> QED BY <1>5, <3>1, <3>2
  <2> QED BY <1>1, <2>1, <2>2, <2>3, <2>4, <2>5, <2>6 DEF RetryInv
<1> QED BY <1>7, <1>8 DEF ChainInv

\* The thread takes a retry only when it has left the store, or is about to.
LEMMA StartChain ==
  ASSUME TypeInv, ChainInv, StartRun PROVE ChainInv'
<1>1. /\ worker.pc = "idle" /\ queue # <<>> /\ now - Head(queue).due <= Grace
      /\ worker' = [pc |-> "running", run |-> Head(queue)] /\ queue' = Tail(queue)
      /\ UNCHANGED <<now, store, submitting>>
  BY DEF StartRun
<1>2. /\ Head(queue) \in Waiting /\ Waiting' \subseteq Waiting
      /\ \A r \in Waiting' : r.id # Head(queue).id
  BY <1>1, HeadWaits
<1>3. Held' \subseteq Held
  BY <1>1, <1>2 DEF Held
<1>4. FiringsInv'
  BY <1>1, <1>3 DEF ChainInv, FiringsInv, Submitting
<1>5. ASSUME NEW b \in CronBase PROVE RetryInv(b)'
  <2>1. RetryInv(b)
    BY DEF ChainInv
  <2>2. \A t : Earlier(b, t) => Earlier(b, t)'
    BY <1>1, <1>3 DEF Earlier
  <2>3. Leaving(b) => Leaving(b)'
    BY <1>1 DEF Leaving, Submitting
  <2>4. Head(queue).id = <<b, 1>> => Leaving(b)
    <3>1. Head(queue).due \in Nat /\ now \in Nat /\ Grace \in Nat
      BY <1>2, HeldTypes, Bounds
    <3> QED BY <1>1, <1>2, <2>1, <3>1 DEF RetryInv
  <2> QED BY <1>1, <1>2, <2>1, <2>2, <2>3, <2>4 DEF RetryInv
<1> QED BY <1>4, <1>5 DEF ChainInv

\* The listener finds a retry gone from the store; and when it schedules one, an earlier
\* one that still waits has waited for too long to run.
LEMMA ListenChain ==
  ASSUME RetryDelay + Grace < Period, TypeInv, ChainInv, Listen PROVE ChainInv'
<1> DEFINE job == worker.run.id
<1>1. /\ worker.pc = "listening" /\ submitting = None /\ worker' = Resting
      /\ UNCHANGED <<now, submitting, queue>>
      /\ \/ UNCHANGED store
         \/ /\ store[job] # None /\ job[2] < MaxSuffix
            /\ store' = [store EXCEPT ![RetryId(job)] = worker.run.due + RetryDelay]
  BY DEF Listen, StoresUnlocked
<1>2. Waiting' = Waiting /\ Held' = Waiting /\ Waiting \subseteq Held /\ worker'.pc = "idle"
  BY <1>1 DEF Waiting, Held, Resting
<1>3. CASE UNCHANGED store
  BY <1>1, <1>2, <1>3, FewerRuns
<1>4. CASE /\ store[job] # None /\ job[2] < MaxSuffix
           /\ store' = [store EXCEPT ![RetryId(job)] = worker.run.due + RetryDelay]
  <2>1. /\ worker.run \in Held /\ job \in JobId /\ worker.run.due \in Nat /\ now \in Nat
        /\ RetryId(job) \in JobId \ Cron /\ Cron \subseteq JobId
        /\ \A i : ~Submitting(i)
    BY <1>1, <1>4, HeldTypes, JobIds DEF Submitting
  <2>2. \A i \in JobId : i # RetryId(job) => store'[i] = store[i]
    BY <1>4 DEF TypeInv, TypeOK
  <2>3. store'[RetryId(job)] = worker.run.due + RetryDelay
    BY <1>4, <2>1 DEF TypeInv, TypeOK
  <2>4. FiringsInv'
    BY <1>1, <1>2, <2>1, <2>2 DEF ChainInv, FiringsInv, Submitting
  <2>5. ASSUME NEW b \in CronBase PROVE RetryInv(b)'
    <3>1. /\ RetryInv(b) /\ <<b, 0>> \in Cron /\ <<b, 1>> \in JobId
          /\ \A n \in 2 .. MaxSuffix : <<b, n>> \in JobId
      BY JobIds, Bounds DEF ChainInv, JobId
    <3>2. store'[<<b, 0>>] = store[<<b, 0>>]
      BY <2>1, <2>2, <3>1
    <3>3. \A t : Earlier(b, t) => Earlier(b, t)'
      BY <1>1, <1>2, <3>2 DEF Earlier
    <3>4. \A n \in 1 .. MaxSuffix : job # <<b, n>>
      <4>1. job # <<b, 1>>
        BY <1>1, <1>4, <2>1, <3>1 DEF RetryInv, Leaving
      <4>2. \A n \in 2 .. MaxSuffix : job # <<b, n>>
        BY <1>4, <3>1 DEF RetryInv
      <4> QED BY <4>1, <4>2, Bounds
    <3>5. \A n \in 2 .. MaxSuffix : RetryId(job) # <<b, n>>
      <4>1. ASSUME NEW n \in 2 .. MaxSuffix, RetryId(job) = <<b, n>> PROVE FALSE
        <5>1. job[1] = b /\ job[2] + 1 = n /\ job[2] \in Nat /\ job = <<job[1], job[2]>>
          BY <2>1, <4>1, Bounds DEF RetryId, JobId
        <5>2. n - 1 \in 1 .. MaxSuffix /\ job = <<b, n - 1>>
          BY <5>1, Bounds
        <5> QED BY <3>4, <5>2
      <4> QED BY <4>1
    <3>6. \A n \in 2 .. MaxSuffix : store'[<<b, n>>] = None
      BY <2>2, <3>1, <3>5 DEF RetryInv
    <3>7. CASE job # <<b, 0>>
      <4>1. RetryId(job) # <<b, 1>>
        <5>1. ASSUME RetryId(job) = <<b, 1>> PROVE FALSE
          <6>1. job[1] = b /\ job[2] + 1 = 1 /\ job[2] \in Nat /\ job = <<job[1], job[2]>>
            BY <2>1, <5>1, Bounds DEF RetryId, JobId
          <6> QED BY <3>7, <6>1
        <5> QED BY <5>1
      <4>2. store'[<<b, 1>>] = store[<<b, 1>>]
        BY <2>2, <3>1, <4>1
      <4>3. Leaving(b) => Leaving(b)'
        BY <1>1, <4>2 DEF Leaving, Submitting
      <4> QED BY <1>1, <1>2, <3>1, <3>3, <3>6, <4>2, <4>3 DEF RetryInv
    <3>8. CASE job = <<b, 0>>
      <4> DEFINE fired == worker.run.due
      <4>1. store'[<<b, 1>>] = fired + RetryDelay
        BY <2>3, <3>8 DEF RetryId
      <4>2. /\ fired \in 0 .. now /\ Firing(fired)
            /\ store[<<b, 0>>] # None /\ store[<<b, 0>>] >= fired + Period
        BY <1>4, <2>1, <3>1, <3>8 DEF ChainInv, FiringsInv
      <4>3. \A r \in Waiting : r.id = <<b, 0>> => r.due >= fired + Period
        BY <1>1, <3>1, <3>8 DEF RetryInv
      <4>4. RetryDelay \in Nat /\ Grace \in Nat /\ Period \in Nat
        BY Bounds
      <4>5. PICK t \in Nat : t = fired
        BY <2>1
      <4>6. ASSUME NEW r \in Waiting, r.id = <<b, 1>> PROVE now - r.due > Grace
        <5>1. Earlier(b, r.due) /\ r.due \in Nat
          BY <1>2, <3>1, <4>6, HeldTypes DEF RetryInv
        <5>2. fired >= r.due - RetryDelay + Period
          BY <2>1, <3>8, <5>1 DEF Earlier
        <5> QED BY <2>1, <4>2, <4>4, <5>1, <5>2
      <4>7. store'[<<b, 1>>] # None => Earlier(b, store[<<b, 1>>])'
        <5>1. store'[<<b, 1>>] = t + RetryDelay /\ (t + RetryDelay) - RetryDelay = t
          BY <4>1, <4>4, <4>5
        <5> QED BY <1>1, <1>2, <3>2, <4>2, <4>3, <4>5, <5>1 DEF Earlier
      <4> QED BY <1>1, <1>2, <3>1, <3>3, <3>6, <4>6, <4>7 DEF RetryInv
    <3> QED BY <3>7, <3>8
  <2> QED BY <2>4, <2>5 DEF ChainInv
<1> QED BY <1>1, <1>3, <1>4

LEMMA ChainStep ==
  ASSUME RetryDelay + Grace < Period
  PROVE  TypeInv /\ ChainInv /\ [Next]_vars => ChainInv'
<1> SUFFICES ASSUME TypeInv, ChainInv, [Next]_vars PROVE ChainInv'
  OBVIOUS
<1>1. CASE UNCHANGED vars
  <2>1. Held' = Held /\ Waiting' = Waiting
    BY <1>1 DEF vars, Held, Waiting
  <2> QED BY <1>1, <2>1, FewerRuns DEF vars
<1>2. ASSUME NEW b \in OneOffBase, AddOneOff(b) PROVE ChainInv'
  <2>1. /\ UNCHANGED <<now, submitting, queue, worker>>
        /\ \A j \in JobId : j # <<b, 0>> => store'[j] = store[j]
    BY <1>2 DEF AddOneOff, TypeInv, TypeOK
  <2>2. Waiting' = Waiting /\ Held' = Held
    BY <2>1 DEF Waiting, Held
  <2>3. \A j \in Cron : store'[j] = store[j]
    BY <2>1, JobIds
  <2>4. FiringsInv'
    BY <2>1, <2>2, <2>3 DEF ChainInv, FiringsInv, Submitting
  <2>5. ASSUME NEW c \in CronBase PROVE RetryInv(c)'
    <3>1. b # c
      BY SchedulerAssumption DEF SchedulerAssumption
    <3>2. \A n \in 0 .. MaxSuffix : store'[<<c, n>>] = store[<<c, n>>]
      BY <2>1, <3>1 DEF JobId
    <3>3. /\ store'[<<c, 0>>] = store[<<c, 0>>] /\ store'[<<c, 1>>] = store[<<c, 1>>]
          /\ \A n \in 2 .. MaxSuffix : store'[<<c, n>>] = store[<<c, n>>]
      BY <3>2, Bounds
    <3>4. \A t : Earlier(c, t) => Earlier(c, t)'
      BY <2>1, <2>2, <3>3 DEF Earlier
    <3>5. Leaving(c) => Leaving(c)'
      BY <2>1, <3>3 DEF Leaving, Submitting
    <3> QED BY <2>1, <2>2, <3>3, <3>4, <3>5 DEF ChainInv, RetryInv
  <2> QED BY <2>4, <2>5 DEF ChainInv
<1>3. ASSUME NEW b \in CronBase, AddCron(b) \/ RemoveCron(b) PROVE ChainInv'
  <2>1. <<b, 0>> \in JobId /\ <<b, 0>> \in Cron
    BY JobIds
  <2> QED BY <1>3, <2>1, NextFirings DEF AddCron, RemoveCron, StoresUnlocked
<1>4. ASSUME NEW j \in JobId, Submit(j) PROVE ChainInv'
  BY <1>4, SubmitChain
<1>5. CASE UpdateSubmitted
  <2>1. PICK c \in JobId : c = submitting.id
    BY <1>5 DEF UpdateSubmitted, TypeInv, TypeOK, Run
  <2>2. store' = [store EXCEPT ![c] = IF c \in Cron THEN NextFiring ELSE None]
    BY <1>5, <2>1 DEF UpdateSubmitted
  <2> QED BY <1>5, <2>1, <2>2, NextFirings DEF UpdateSubmitted
<1>6. CASE StartRun
  BY <1>6, StartChain
<1>7. CASE MissRun
  <2>1. Waiting' \subseteq Waiting /\ UNCHANGED <<now, store, submitting, worker>>
    BY <1>7, HeadWaits DEF MissRun
  <2>2. Held' \subseteq Held
    BY <2>1 DEF Held
  <2> QED BY <2>1, <2>2, FewerRuns
<1>8. CASE EndRun \/ FailRun
  <2>1. /\ UNCHANGED <<now, store, submitting, queue>> /\ worker.pc # "idle"
        /\ worker'.pc # "idle" => worker'.run = worker.run
    BY <1>8 DEF EndRun, FailRun, Resting, TypeInv, TypeOK
  <2>2. Waiting' = Waiting /\ Held' \subseteq Held
    BY <2>1 DEF Waiting, Held
  <2> QED BY <2>1, <2>2, FewerRuns
<1>9. CASE Listen
  BY <1>9, ListenChain
<1>10. CASE Tick
  <2>1. /\ now' = now + 1 /\ UNCHANGED <<store, submitting, queue, worker>> /\ now \in Nat
    BY <1>10, HeldTypes DEF Tick
  <2>2. Waiting' = Waiting /\ Held' = Held
    BY <2>1 DEF Waiting, Held
  <2>3. \A r \in Waiting \cup Held : r.due \in Nat
    BY HeldTypes
  <2>4. FiringsInv'
    BY <2>1, <2>2, <2>3 DEF ChainInv, FiringsInv, Submitting
  <2>5. ASSUME NEW b \in CronBase PROVE RetryInv(b)'
    <3>1. \A t : Earlier(b, t) => Earlier(b, t)'
      BY <2>1, <2>2 DEF Earlier
    <3>2. Leaving(b) => Leaving(b)'
      BY <2>1 DEF Leaving, Submitting
    <3>3. \A r \in Waiting : now - r.due > Grace => now' - r.due > Grace
      BY <2>1, <2>3, Bounds
    <3> QED BY <2>1, <2>2, <3>1, <3>2, <3>3 DEF ChainInv, RetryInv
  <2> QED BY <2>4, <2>5 DEF ChainInv
<1>11. CASE Restart
  <2>1. /\ queue' = <<>> /\ submitting' = None /\ worker'.pc = "idle" /\ UNCHANGED <<now, store>>
    BY <1>11 DEF Restart, Resting
  <2>2. Waiting' = {} /\ Held' = {}
    BY <2>1 DEF Waiting, Held
  <2>3. FiringsInv'
    BY <2>1, <2>2 DEF ChainInv, FiringsInv
  <2>4. ASSUME NEW b \in CronBase PROVE RetryInv(b)'
    BY <2>1, <2>2 DEF ChainInv, RetryInv, Earlier
  <2> QED BY <2>3, <2>4 DEF ChainInv
<1> QED
  BY <1>1, <1>2, <1>3, <1>4, <1>5, <1>6, <1>7, <1>8, <1>9, <1>10, <1>11 DEF Next

LEMMA ChainInit == Init => ChainInv
<1> SUFFICES ASSUME Init PROVE ChainInv
  OBVIOUS
<1>1. Waiting = {} /\ Held = {} /\ worker.pc = "idle"
  BY DEF Init, Waiting, Held, Resting
<1>2. \A j \in JobId : store[j] = None
  BY DEF Init
<1>3. FiringsInv
  BY <1>1, <1>2, JobIds DEF FiringsInv
<1>4. ASSUME NEW b \in CronBase PROVE RetryInv(b)
  <2>1. <<b, 1>> \in JobId /\ \A n \in 2 .. MaxSuffix : <<b, n>> \in JobId
    BY JobIds, Bounds DEF JobId
  <2> QED BY <1>1, <1>2, <2>1 DEF RetryInv
<1> QED BY <1>3, <1>4 DEF ChainInv

\* When a retry that may still run is over before its job's next firing, the retry of a
\* cron job is never retried: whichever runs wait, fail or are missed, jobs are paused
\* and resumed and the process restarts, its job has left the store, or waits too long to run,
\* before the listener could look for it.
THEOREM RetriesNeverChain ==
  ASSUME RetryDelay + Grace < Period
  PROVE  Spec => []RetriesDoNotChain
<1>1. ChainInv => RetriesDoNotChain
  BY DEF ChainInv, RetryInv, RetriesDoNotChain
<1>2. TypeInv /\ ChainInv /\ [Next]_vars => (TypeInv /\ ChainInv)'
  BY TypeStep, ChainStep
<1> QED
  BY TypeInit, ChainInit, <1>1, <1>2, PTL DEF Spec

=============================================================================
