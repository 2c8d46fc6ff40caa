-------------------------------- MODULE WPool --------------------------------
(***************************************************************************)
(* The resident worker pool of wpool.c.  One owner thread opens the pool,  *)
(* submits jobs, waits for them and closes the pool; the workers poll the  *)
(* queue.  There is no condition variable: everything the code does under  *)
(* the mutex is one step, and between two such steps everybody else may    *)
(* run.  Jobs are numbered in the order in which wpool_submit accepted     *)
(* them, and a job may take any time.  The counters are 32 bits wide and   *)
(* MaxJobs is far below 2^32, so they are natural numbers.                 *)
(***************************************************************************)
EXTENDS Integers, FiniteSets

CONSTANTS
  NWorkers,  \* the nworkers of wpool_open
  Depth,     \* WPOOL_QUEUE_DEPTH
  MaxJobs    \* bound on the jobs of a behaviour

ASSUME PoolAssumption ==
  NWorkers \in Nat \ {0} /\ Depth \in Nat \ {0} /\ MaxJobs \in Nat

VARIABLES
  slot,            \* qfn and qud: the job in each entry of the queue
  qh, qt, qcount,
  executed, done, stop,
  spawned,
  wpc,             \* where each worker is
  job,             \* the job a worker has taken
  opc,             \* where the owner is
  njobs,           \* the argument of wpool_wait_all
  accepted,        \* history: jobs accepted by wpool_submit
  finished         \* history: jobs whose function has returned

queue == <<slot, qh, qt, qcount>>
owner == <<opc, njobs, spawned>>
vars == <<queue, executed, done, stop, wpc, job, owner, accepted, finished>>

Workers == 1 .. NWorkers
Jobs == 0 .. MaxJobs - 1
NoJob == -1

Init ==
  /\ slot = [i \in 0 .. Depth - 1 |-> NoJob]
  /\ qh = 0 /\ qt = 0 /\ qcount = 0
  /\ executed = 0 /\ done = 0 /\ stop = 0
  /\ spawned = 0
  /\ wpc = [w \in Workers |-> "none"]
  /\ job = [w \in Workers |-> NoJob]
  /\ opc = "opening" /\ njobs = 0
  /\ accepted = 0 /\ finished = {}

-----------------------------------------------------------------------------
\* A worker, once around its loop.  It takes the job at the head of the queue...
\* Mutant: the head does not wrap around with the tail.
Advance_short(i) == (i + 1) % (Depth + 1)
Advance(i) == (i + 1) % Depth

Take(w) ==
  /\ wpc[w] = "poll" /\ qcount > 0
  /\ job' = [job EXCEPT ![w] = slot[qh]]
  /\ qh' = Advance(qh)
  /\ qcount' = qcount - 1
  /\ executed' = executed + 1
  /\ wpc' = [wpc EXCEPT ![w] = "run"]
  /\ UNCHANGED <<slot, qt, done, stop, owner, accepted, finished>>

\* ... runs it ...
Run(w) ==
  /\ wpc[w] = "run"
  /\ finished' = finished \cup {job[w]}
  /\ wpc' = [wpc EXCEPT ![w] = "count"]
  /\ UNCHANGED <<queue, executed, done, stop, job, owner, accepted>>

\* ... and counts it, under the mutex again.
Count(w) ==
  /\ wpc[w] = "count"
  /\ done' = done + 1
  /\ job' = [job EXCEPT ![w] = NoJob]
  /\ wpc' = [wpc EXCEPT ![w] = "poll"]
  /\ UNCHANGED <<queue, executed, stop, owner, accepted, finished>>

\* It finds the queue empty, and looks at the stop flag in a second critical
\* section: jobs may have arrived in between.
FindEmpty(w) ==
  /\ wpc[w] = "poll" /\ qcount = 0
  /\ wpc' = [wpc EXCEPT ![w] = "check"]
  /\ UNCHANGED <<queue, executed, done, stop, job, owner, accepted, finished>>

\* Mutant: the worker does not look at the flag.
CheckStop_deaf(w) ==
  /\ wpc[w] = "check"
  /\ wpc' = [wpc EXCEPT ![w] = "poll"]
  /\ UNCHANGED <<queue, executed, done, stop, job, owner, accepted, finished>>

CheckStop(w) ==
  /\ wpc[w] = "check"
  /\ wpc' = [wpc EXCEPT ![w] = IF stop = 1 THEN "exited" ELSE "poll"]
  /\ UNCHANGED <<queue, executed, done, stop, job, owner, accepted, finished>>

wpool_worker(w) == Take(w) \/ Run(w) \/ Count(w) \/ FindEmpty(w) \/ CheckStop(w)

-----------------------------------------------------------------------------
\* wpool_open spawns the workers one by one; a spawn that fails leaves the ones
\* before it running and the caller with an error.
wpool_open ==
  /\ opc = "opening"
  /\ \/ /\ spawned < NWorkers
        /\ wpc' = [wpc EXCEPT ![spawned + 1] = "poll"]
        /\ spawned' = spawned + 1
        /\ opc' = IF spawned' = NWorkers THEN "ready" ELSE "opening"
     \/ /\ opc' = "broken"
        /\ UNCHANGED <<wpc, spawned>>
  /\ UNCHANGED <<queue, executed, done, stop, job, njobs, accepted, finished>>

\* Mutant: a job more than the queue holds is accepted.
Full_off_by_one == qcount > Depth
Full == qcount >= Depth

\* wpool_submit; a full queue is answered with -1 and changes nothing.
wpool_submit ==
  /\ opc = "ready" /\ accepted < MaxJobs
  /\ ~Full
  /\ slot' = [slot EXCEPT ![qt] = accepted]
  /\ qt' = Advance(qt)
  /\ qcount' = qcount + 1
  /\ accepted' = accepted + 1
  /\ UNCHANGED <<qh, executed, done, stop, wpc, job, owner, finished>>

\* wpool_wait_all(n).  done counts from the opening of the pool, so the owner
\* asks for all the jobs it has submitted so far.
wpool_wait_all ==
  /\ opc = "ready"
  /\ opc' = "waiting" /\ njobs' = accepted
  /\ UNCHANGED <<queue, executed, done, stop, spawned, wpc, job, accepted, finished>>

\* Mutant: jobs that were only taken count as done.
AllDone_taken == executed >= njobs
AllDone == done >= njobs

WaitReturns ==
  /\ opc = "waiting" /\ AllDone
  /\ opc' = "ready"
  /\ UNCHANGED <<queue, executed, done, stop, spawned, njobs, wpc, job, accepted, finished>>

\* wpool_close: nothing to do without workers; else wait for an empty queue, ...
wpool_close ==
  /\ opc \in {"ready", "broken"}
  /\ opc' = IF spawned = 0 THEN "closed" ELSE "emptying"
  /\ UNCHANGED <<queue, executed, done, stop, spawned, njobs, wpc, job, accepted, finished>>

\* Mutant: the queue is not looked at before the workers are stopped.
Emptied_unchecked == TRUE
Emptied == qcount = 0

CloseEmptied ==
  /\ opc = "emptying" /\ Emptied
  /\ opc' = "stopping"
  /\ UNCHANGED <<queue, executed, done, stop, spawned, njobs, wpc, job, accepted, finished>>

\* ... raise the stop flag, ...
CloseStop ==
  /\ opc = "stopping"
  /\ stop' = 1
  /\ opc' = "joining"
  /\ UNCHANGED <<queue, executed, done, spawned, njobs, wpc, job, accepted, finished>>

\* ... and join every worker that was spawned.
CloseJoin ==
  /\ opc = "joining" /\ \A w \in 1 .. spawned : wpc[w] = "exited"
  /\ spawned' = 0
  /\ opc' = "closed"
  /\ UNCHANGED <<queue, executed, done, stop, njobs, wpc, job, accepted, finished>>

Owner == \/ wpool_open \/ wpool_submit \/ wpool_wait_all \/ WaitReturns
         \/ wpool_close \/ CloseEmptied \/ CloseStop \/ CloseJoin

Next == Owner \/ \E w \in Workers : wpool_worker(w)

Spec == Init /\ [][Next]_vars

\* Workers are threads that keep running and jobs return; the owner finishes the
\* call it is in.  Whether it submits, waits or closes is its own choice.
FairSpec ==
  /\ Spec
  /\ \A w \in Workers : WF_vars(wpool_worker(w))
  /\ WF_vars(WaitReturns \/ CloseEmptied \/ CloseStop \/ CloseJoin)

-----------------------------------------------------------------------------
TypeOK ==
  /\ slot \in [0 .. Depth - 1 -> Jobs \cup {NoJob}]
  /\ qh \in 0 .. Depth - 1 /\ qt \in 0 .. Depth - 1 /\ qcount \in 0 .. Depth
  /\ executed \in Nat /\ done \in Nat /\ stop \in {0, 1}
  /\ spawned \in 0 .. NWorkers
  /\ wpc \in [Workers -> {"none", "poll", "run", "count", "check", "exited"}]
  /\ job \in [Workers -> Jobs \cup {NoJob}]
  /\ opc \in {"opening", "broken", "ready", "waiting", "emptying", "stopping",
              "joining", "closed"}
  /\ njobs \in 0 .. MaxJobs
  /\ accepted \in 0 .. MaxJobs
  /\ finished \subseteq Jobs

\* The circular queue holds exactly the accepted jobs that no worker has taken, in
\* the order of their submission: none is lost, duplicated or overtaken, however
\* workers and submissions interleave and wherever the indices wrap around.
QueueIsFIFO ==
  /\ executed + qcount = accepted
  /\ \A i \in 0 .. qcount - 1 : slot[(qh + i) % Depth] = executed + i

\* No job is run by two workers at a time, and none is run again.
Active(w) == wpc[w] \in {"run", "count"}
RunOnce ==
  /\ \A v, w \in Workers : Active(v) /\ Active(w) /\ job[v] = job[w] => v = w
  /\ \A w \in Workers : wpc[w] = "run" => job[w] \notin finished

\* When wpool_wait_all may return, every job submitted before it has been run to its
\* end: done reaches the argument only after that many functions have returned.
Submitted == 0 .. njobs - 1
WaitSound == opc = "waiting" /\ AllDone => Submitted \subseteq finished

\* After wpool_close no worker runs and no accepted job is left undone, although
\* the stop flag is raised while jobs may still be running.
CloseComplete ==
  opc = "closed" =>
    /\ finished = 0 .. accepted - 1
    /\ \A w \in Workers : wpc[w] \in {"none", "exited"}

\* Every job that wpool_submit accepts is run in the end.
\* It takes the fairness of the workers, not of the owner's choices.
JobsRun == \A j \in Jobs : (accepted > j) ~> (j \in finished)

\* wpool_wait_all and wpool_close return: nobody waits for a worker that has
\* already left or for a count that is never reached.
CallsEnd == /\ opc = "waiting" ~> opc = "ready"
            /\ opc = "emptying" ~> opc = "closed"
=============================================================================
