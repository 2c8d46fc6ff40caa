---------------------------- MODULE WPool_proofs -----------------------------
(***************************************************************************)
(* Proofs of the safety properties of the worker pool, for any number of   *)
(* workers, any depth of the queue and any number of jobs.                 *)
(***************************************************************************)
EXTENDS WPool, FiniteSetTheorems, TLAPS

\* The tail of the circular queue is qcount entries after its head.
Circular == qt = (qh + qcount) % Depth

\* Who has which job: jobs are taken in order, a taken job is either finished or
\* being run, and a worker that is to count a job has finished it.
Taken ==
  /\ finished \subseteq 0 .. executed - 1
  /\ \A w \in Workers : Active(w) => job[w] \in 0 .. executed - 1
  /\ \A w \in Workers : wpc[w] = "count" => job[w] \in finished
  /\ \A j \in 0 .. executed - 1 :
       j \in finished \/ \E w \in Workers : wpc[w] = "run" /\ job[w] = j

\* done is the number of finished jobs that no worker has still to count.
Counted == {j \in finished : \A w \in Workers : wpc[w] = "count" => job[w] # j}
Counting == IsFiniteSet(Counted) /\ Cardinality(Counted) = done

\* What the place of the owner says about the pool.
OwnerInv ==
  /\ opc = "waiting" => njobs = accepted
  /\ opc \in {"opening", "broken"} => accepted = 0
  /\ opc \in {"ready", "waiting"} => spawned = NWorkers
  /\ opc \in {"stopping", "joining", "closed"} => qcount = 0
  /\ opc # "closed" => \A w \in Workers : w > spawned => wpc[w] = "none"
  /\ opc = "closed" => \A w \in Workers : wpc[w] \in {"none", "exited"}

IndInv == TypeOK /\ Circular /\ QueueIsFIFO /\ RunOnce /\ Taken /\ Counting /\ OwnerInv

-----------------------------------------------------------------------------
\* The arithmetic of the indices.
LEMMA ModIndex ==
  ASSUME NEW x \in Nat
  PROVE  /\ x % Depth \in 0 .. Depth - 1
         /\ x < Depth => x % Depth = x
         /\ x >= Depth /\ x < 2 * Depth => x % Depth = x - Depth
  BY PoolAssumption, SMT

LEMMA ModShift ==
  ASSUME NEW a \in 0 .. Depth - 1, NEW b \in 1 .. Depth
  PROVE  (((a + 1) % Depth) + (b - 1)) % Depth = (a + b) % Depth
<1>1. CASE a + 1 < Depth
  <2>1. (a + 1) % Depth = a + 1
    BY <1>1, ModIndex, PoolAssumption
  <2>2. (a + 1) + (b - 1) = a + b
    OBVIOUS
  <2>3. QED
    BY <2>1, <2>2
<1>2. CASE a + 1 = Depth
  <2>1. (a + 1) % Depth = 0
    BY <1>2, ModIndex, PoolAssumption
  <2>2. (b - 1) % Depth = b - 1 /\ (a + b) % Depth = b - 1
    BY <1>2, ModIndex, PoolAssumption
  <2>3. 0 + (b - 1) = b - 1
    OBVIOUS
  <2>4. QED
    BY <2>1, <2>2, <2>3
<1>3. QED
  BY <1>1, <1>2, PoolAssumption

LEMMA InitInd == Init => IndInv
<1> SUFFICES ASSUME Init PROVE IndInv
  OBVIOUS
<1>1. TypeOK
  BY PoolAssumption DEF Init, TypeOK, Jobs, NoJob, Workers
<1>2. Circular /\ QueueIsFIFO
  BY ModIndex, PoolAssumption DEF Init, Circular, QueueIsFIFO
<1>3. RunOnce /\ Taken
  BY DEF Init, RunOnce, Taken, Active
<1>4. Counting
  <2>1. Counted = {}
    BY DEF Init, Counted
  <2>2. QED
    BY <2>1, FS_EmptySet DEF Init, Counting
<1>5. OwnerInv
  BY PoolAssumption DEF Init, OwnerInv, Workers
<1>6. QED
  BY <1>1, <1>2, <1>3, <1>4, <1>5 DEF IndInv

LEMMA TakeInd == ASSUME IndInv, NEW w \in Workers, Take(w) PROVE IndInv'
<1> USE PoolAssumption DEF IndInv
<1>1. /\ qcount \in 1 .. Depth /\ qh \in 0 .. Depth - 1 /\ executed \in Nat
      /\ slot[qh] = executed /\ executed < accepted /\ accepted <= MaxJobs
  <2>1. slot[(qh + 0) % Depth] = executed + 0
    BY DEF Take, TypeOK, QueueIsFIFO
  <2>2. QED
    <3>1. qh \in Nat /\ qh < Depth /\ (qh + 0) = qh
      BY DEF TypeOK
    <3>2. (qh + 0) % Depth = qh
      BY <3>1, ModIndex
    <3>3. QED
      BY <2>1, <3>2 DEF Take, TypeOK, QueueIsFIFO
<1>2. TypeOK'
  <2>1. qh' \in 0 .. Depth - 1
    BY <1>1, ModIndex DEF Take, Advance
  <2>2. slot[qh] \in Jobs
    BY <1>1 DEF Jobs, TypeOK
  <2>3. QED
    BY <1>1, <2>1, <2>2 DEF Take, TypeOK, owner
<1>3. Circular'
  <2>1. qh' = (qh + 1) % Depth /\ qt' = qt /\ qcount' = qcount - 1
    BY DEF Take, Advance
  <2>2. (qh + qcount) % Depth = (((qh + 1) % Depth) + (qcount - 1)) % Depth
    BY <1>1, ModShift
  <2>3. QED
    BY <2>1, <2>2 DEF Circular
<1>4. QueueIsFIFO'
  <2> SUFFICES ASSUME NEW i \in 0 .. qcount' - 1
               PROVE  slot'[(qh' + i) % Depth] = executed' + i
    BY <1>1 DEF Take, TypeOK, QueueIsFIFO
  <2>1. i + 1 \in 0 .. qcount - 1 /\ slot' = slot /\ executed' = executed + 1
    BY <1>1 DEF Take
  <2>2. (qh' + i) % Depth = (qh + (i + 1)) % Depth
    BY <1>1, <2>1, ModIndex, SMTT(30) DEF Take, Advance
  <2>3. QED
    BY <1>1, <2>1, <2>2 DEF QueueIsFIFO
<1>5. /\ \A v \in Workers : v # w => wpc'[v] = wpc[v] /\ job'[v] = job[v]
      /\ wpc'[w] = "run" /\ job'[w] = executed /\ wpc[w] = "poll"
  BY <1>1 DEF Take, TypeOK
<1>6. RunOnce'
  BY <1>1, <1>5 DEF Take, RunOnce, Taken, Active
<1>7. Taken'
  BY <1>1, <1>5 DEF Take, Taken, Active
<1>8. Counting'
  <2>1. Counted' = Counted
    BY <1>5 DEF Take, Counted
  <2>2. QED
    BY <2>1 DEF Take, Counting
<1>9. OwnerInv'
  BY <1>1, <1>5 DEF Take, OwnerInv, owner, TypeOK, Workers
<1>10. QED
  BY <1>2, <1>3, <1>4, <1>6, <1>7, <1>8, <1>9

LEMMA RunInd == ASSUME IndInv, NEW w \in Workers, Run(w) PROVE IndInv'
<1> USE PoolAssumption DEF IndInv
<1>1. /\ \A v \in Workers : v # w => wpc'[v] = wpc[v]
      /\ wpc'[w] = "count" /\ wpc[w] = "run" /\ job' = job
      /\ finished' = finished \cup {job[w]} /\ executed' = executed
  BY DEF Run, TypeOK
<1>2. job[w] \in 0 .. executed - 1 /\ job[w] \notin finished /\ executed <= MaxJobs
      /\ executed \in Nat
  BY <1>1 DEF Taken, Active, RunOnce, QueueIsFIFO, TypeOK
<1>3. TypeOK'
  <2>1. job[w] \in Jobs
    BY <1>2 DEF Jobs, TypeOK
  <2>2. QED
    BY <1>1, <2>1 DEF Run, TypeOK, queue, owner
<1>4. Circular' /\ QueueIsFIFO'
  BY DEF Run, Circular, QueueIsFIFO, queue
<1>5. RunOnce'
  BY <1>1, <1>2 DEF RunOnce, Active
<1>6. Taken'
  BY <1>1, <1>2, ZenonT(30) DEF Taken, Active
<1>7. Counting'
  <2>1. Counted' = Counted
    BY <1>1, <1>2 DEF Counted, RunOnce, Active
  <2>2. QED
    BY <2>1 DEF Run, Counting
<1>8. OwnerInv'
  BY <1>1 DEF Run, OwnerInv, owner, queue, TypeOK, Workers
<1>9. QED
  BY <1>3, <1>4, <1>5, <1>6, <1>7, <1>8

LEMMA CountInd == ASSUME IndInv, NEW w \in Workers, Count(w) PROVE IndInv'
<1> USE PoolAssumption DEF IndInv
<1>1. /\ \A v \in Workers : v # w => wpc'[v] = wpc[v] /\ job'[v] = job[v]
      /\ wpc'[w] = "poll" /\ wpc[w] = "count" /\ job'[w] = NoJob
      /\ finished' = finished /\ executed' = executed /\ done' = done + 1
  BY DEF Count, TypeOK
<1>2. TypeOK'
  BY <1>1 DEF Count, TypeOK, queue, owner, NoJob
<1>3. Circular' /\ QueueIsFIFO'
  BY DEF Count, Circular, QueueIsFIFO, queue
<1>4. RunOnce'
  BY <1>1 DEF RunOnce, Active
<1>5. Taken'
  BY <1>1 DEF Taken, Active
<1>6. Counting'
  <2>1. job[w] \in finished /\ job[w] \notin Counted
    BY <1>1 DEF Taken, Counted
  <2>2. Counted' = Counted \cup {job[w]}
    BY <1>1, <2>1 DEF Counted, RunOnce, Active
  <2>3. QED
    BY <1>1, <2>1, <2>2, FS_AddElement DEF Counting
<1>7. OwnerInv'
  BY <1>1 DEF Count, OwnerInv, owner, queue, TypeOK, Workers
<1>8. QED
  BY <1>2, <1>3, <1>4, <1>5, <1>6, <1>7

\* A worker that finds nothing to do changes nothing but its own place.
LEMMA PollInd ==
  ASSUME IndInv, NEW w \in Workers, FindEmpty(w) \/ CheckStop(w) PROVE IndInv'
<1> USE PoolAssumption DEF IndInv
<1>1. /\ \A v \in Workers : v # w => wpc'[v] = wpc[v]
      /\ wpc[w] \in {"poll", "check"} /\ wpc'[w] \in {"poll", "check", "exited"}
      /\ wpc' \in [Workers -> {"none", "poll", "run", "count", "check", "exited"}]
      /\ UNCHANGED <<queue, executed, done, stop, job, owner, accepted, finished>>
  BY DEF FindEmpty, CheckStop, TypeOK
<1>2. TypeOK'
  BY <1>1 DEF TypeOK, queue, owner
<1>3. Circular' /\ QueueIsFIFO'
  BY <1>1 DEF Circular, QueueIsFIFO, queue
<1>4. RunOnce'
  BY <1>1 DEF RunOnce, Active
<1>5. Taken'
  BY <1>1 DEF Taken, Active
<1>6. Counting'
  <2>1. Counted' = Counted
    BY <1>1 DEF Counted
  <2>2. QED
    BY <1>1, <2>1 DEF Counting
<1>7. OwnerInv'
  BY <1>1 DEF OwnerInv, owner, queue, TypeOK, Workers
<1>8. QED
  BY <1>2, <1>3, <1>4, <1>5, <1>6, <1>7

LEMMA SubmitInd == ASSUME IndInv, wpool_submit PROVE IndInv'
<1> USE PoolAssumption DEF IndInv
<1>1. /\ qcount \in 0 .. Depth - 1 /\ qh \in 0 .. Depth - 1
      /\ qt = (qh + qcount) % Depth /\ executed + qcount = accepted
      /\ executed \in Nat /\ accepted \in 0 .. MaxJobs - 1
      /\ qcount' = qcount + 1 /\ accepted' = accepted + 1 /\ qh' = qh
      /\ executed' = executed
  BY DEF wpool_submit, Full, TypeOK, Circular, QueueIsFIFO
<1>2. TypeOK'
  <2>1. qt' \in 0 .. Depth - 1
    <3>1. qt + 1 \in Nat /\ qt' = (qt + 1) % Depth
      BY DEF wpool_submit, Advance, TypeOK
    <3>2. QED
      BY <3>1, ModIndex
  <2>2. accepted \in Jobs
    BY <1>1 DEF Jobs, TypeOK
  <2>3. QED
    BY <1>1, <2>1, <2>2 DEF wpool_submit, TypeOK, owner
<1>3. Circular'
  <2>1. qt' = (qt + 1) % Depth
    BY DEF wpool_submit, Advance
  <2>2. QED
    BY <1>1, <2>1, ModIndex DEF Circular
<1>4. QueueIsFIFO'
  <2> SUFFICES ASSUME NEW i \in 0 .. qcount
               PROVE  slot'[(qh + i) % Depth] = executed + i
    BY <1>1 DEF QueueIsFIFO
  <2>1. CASE i = qcount
    BY <1>1, <2>1, ModIndex DEF wpool_submit, TypeOK
  <2>2. CASE i < qcount
    <3>1. (qh + i) % Depth # qt
      BY <1>1, <2>2, ModIndex, SMTT(30)
    <3>2. (qh + i) % Depth \in 0 .. Depth - 1
      BY <1>1, ModIndex
    <3>3. QED
      BY <1>1, <2>2, <3>1, <3>2 DEF wpool_submit, TypeOK, QueueIsFIFO
  <2>3. QED
    BY <1>1, <2>1, <2>2
<1>5. RunOnce' /\ Taken'
  BY DEF wpool_submit, RunOnce, Taken, Active
<1>6. Counting'
  BY DEF wpool_submit, Counting, Counted
<1>7. OwnerInv'
  BY DEF wpool_submit, OwnerInv, owner
<1>8. QED
  BY <1>2, <1>3, <1>4, <1>5, <1>6, <1>7

LEMMA OpenInd == ASSUME IndInv, wpool_open PROVE IndInv'
<1> USE PoolAssumption DEF IndInv
<1>1. TypeOK'
  BY DEF wpool_open, TypeOK, queue, Workers
<1>2. Circular' /\ QueueIsFIFO'
  BY DEF wpool_open, Circular, QueueIsFIFO, queue
<1>3. \A w \in Workers :
        wpc'[w] # wpc[w] => wpc[w] = "none" /\ wpc'[w] = "poll"
  <2>1. CASE UNCHANGED wpc
    BY <2>1
  <2>2. CASE spawned < NWorkers /\ wpc' = [wpc EXCEPT ![spawned + 1] = "poll"]
    <3>1. spawned + 1 \in Workers /\ wpc[spawned + 1] = "none"
      BY <2>2 DEF wpool_open, OwnerInv, TypeOK, Workers
    <3>2. QED
      BY <2>2, <3>1 DEF TypeOK
  <2>3. QED
    BY <2>1, <2>2 DEF wpool_open
<1>4. RunOnce' /\ Taken'
  BY <1>3 DEF wpool_open, RunOnce, Taken, Active
<1>5. Counting'
  <2>1. Counted' = Counted
    BY <1>3 DEF wpool_open, Counted
  <2>2. QED
    BY <2>1 DEF wpool_open, Counting
<1>6. OwnerInv'
  BY DEF wpool_open, OwnerInv, queue, TypeOK, Workers
<1>7. QED
  BY <1>1, <1>2, <1>4, <1>5, <1>6

\* The other steps of the owner leave the queue and the workers alone.
LEMMA OwnerInd ==
  ASSUME IndInv,
         \/ wpool_wait_all \/ WaitReturns \/ wpool_close
         \/ CloseEmptied \/ CloseStop \/ CloseJoin
  PROVE  IndInv'
<1> USE PoolAssumption DEF IndInv
<1>1. UNCHANGED <<queue, executed, done, wpc, job, accepted, finished>>
  BY DEF wpool_wait_all, WaitReturns, wpool_close, CloseEmptied, CloseStop, CloseJoin
<1>2. TypeOK'
  BY SMTT(30) DEF wpool_wait_all, WaitReturns, wpool_close, CloseEmptied, CloseStop, CloseJoin,
         TypeOK, queue
<1>3. Circular' /\ QueueIsFIFO' /\ RunOnce' /\ Taken' /\ Counting'
  BY <1>1 DEF Circular, QueueIsFIFO, RunOnce, Taken, Counting, Counted, Active, queue
<1>4. OwnerInv'
  <2>1. CASE wpool_wait_all \/ WaitReturns
    BY <1>1, <2>1 DEF wpool_wait_all, WaitReturns, OwnerInv, queue
  <2>2. CASE wpool_close
    BY <1>1, <2>2 DEF wpool_close, OwnerInv, queue, TypeOK, QueueIsFIFO, Workers
  <2>3. CASE CloseEmptied \/ CloseStop
    BY <1>1, <2>3 DEF CloseEmptied, CloseStop, Emptied, OwnerInv, queue
  <2>4. CASE CloseJoin
    BY <1>1, <2>4 DEF CloseJoin, OwnerInv, queue, TypeOK, Workers
  <2>5. QED
    BY <2>1, <2>2, <2>3, <2>4
<1>5. QED
  BY <1>2, <1>3, <1>4

LEMMA StepInd == IndInv /\ [Next]_vars => IndInv'
<1> SUFFICES ASSUME IndInv, [Next]_vars PROVE IndInv'
  OBVIOUS
<1>1. CASE UNCHANGED vars
  BY <1>1 DEF vars, queue, owner, IndInv, TypeOK, Circular, QueueIsFIFO, RunOnce,
              Taken, Counting, Counted, OwnerInv, Active
<1>2. CASE Owner
  BY <1>2, SubmitInd, OpenInd, OwnerInd DEF Owner
<1>3. ASSUME NEW w \in Workers, wpool_worker(w) PROVE IndInv'
  BY <1>3, TakeInd, RunInd, CountInd, PollInd DEF wpool_worker
<1>4. QED
  BY <1>1, <1>2, <1>3 DEF Next

LEMMA Invariance == Spec => []IndInv
<1>1. QED
  BY InitInd, StepInd, PTL DEF Spec

-----------------------------------------------------------------------------
\* The variables keep their types.
THEOREM TypeCorrect == Spec => []TypeOK
<1>1. IndInv => TypeOK
  BY DEF IndInv
<1>2. QED
  BY <1>1, Invariance, PTL

\* The circular queue of wpool_submit and wpool_worker is a FIFO queue of the jobs
\* not yet taken, for every depth.
THEOREM QueueCorrect == Spec => []QueueIsFIFO
<1>1. IndInv => QueueIsFIFO
  BY DEF IndInv
<1>2. QED
  BY <1>1, Invariance, PTL

\* No job is run twice, by any number of workers.
THEOREM RunOnceCorrect == Spec => []RunOnce
<1>1. IndInv => RunOnce
  BY DEF IndInv
<1>2. QED
  BY <1>1, Invariance, PTL

\* wpool_wait_all returns only when all the jobs submitted before it are finished:
\* as many finished jobs are counted as were accepted, so they are all of them.
THEOREM WaitCorrect == Spec => []WaitSound
<1>1. IndInv => WaitSound
  <2> SUFFICES ASSUME IndInv, opc = "waiting", AllDone PROVE Submitted \subseteq finished
    BY DEF WaitSound
  <2>1. /\ njobs = accepted /\ accepted \in Nat /\ done \in Nat /\ done >= accepted
        /\ executed <= accepted /\ executed \in Nat
    BY DEF IndInv, OwnerInv, AllDone, TypeOK, QueueIsFIFO
  <2>2. Counted \subseteq finished /\ finished \subseteq 0 .. accepted - 1
    BY <2>1 DEF IndInv, Taken, Counted
  <2>3. IsFiniteSet(0 .. accepted - 1) /\ Cardinality(0 .. accepted - 1) = accepted
    BY <2>1, FS_Interval
  <2>4. Cardinality(Counted) <= accepted
    BY <2>2, <2>3, FS_Subset
  <2>5. Cardinality(Counted) = accepted
    BY <2>1, <2>4 DEF IndInv, Counting
  <2>6. Counted = 0 .. accepted - 1
    BY <2>2, <2>3, <2>5, FS_Subset
  <2>7. QED
    BY <2>1, <2>2, <2>6 DEF Submitted
<1>2. QED
  BY <1>1, Invariance, PTL

\* After wpool_close every accepted job is finished and every worker has left.
THEOREM CloseCorrect == Spec => []CloseComplete
<1>1. IndInv => CloseComplete
  <2> SUFFICES ASSUME IndInv, opc = "closed"
               PROVE  /\ finished = 0 .. accepted - 1
                      /\ \A w \in Workers : wpc[w] \in {"none", "exited"}
    BY DEF CloseComplete
  <2>1. \A w \in Workers : wpc[w] \in {"none", "exited"}
    BY DEF IndInv, OwnerInv
  <2>2. executed = accepted
    BY DEF IndInv, OwnerInv, QueueIsFIFO, TypeOK
  <2>3. finished = 0 .. executed - 1
    BY <2>1 DEF IndInv, Taken
  <2>4. QED
    BY <2>1, <2>2, <2>3
<1>2. QED
  BY <1>1, Invariance, PTL
=============================================================================
