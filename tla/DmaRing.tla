------------------------------- MODULE DmaRing -------------------------------
(***************************************************************************)
(* The prefetch ring of ring_policy.c on top of the engine of ring_sim.c.  *)
(* A producer enqueues groups in FIFO order; claim fills the descriptors   *)
(* of a group under the lock, fire rings the doorbell outside it; a        *)
(* consumer waits for a group with ring_need, reads its slot and gives it  *)
(* back with ring_release.                                                 *)
(*                                                                         *)
(* Each caller runs one call at a time; pc[t] is the place in the call at  *)
(* which another caller or the engine may step in.  What the code does     *)
(* under the lock is one step, so the lock itself is not a variable.       *)
(***************************************************************************)
EXTENDS DmaEngine

CONSTANTS
  Callers,        \* the threads that call the library
  MaxGroups,      \* RING_MAX_GROUPS
  FireDepth,      \* RING_FIRE_DEPTH
  Spans,          \* the span lengths that groups may have, in descriptors
  ShortDeadline   \* whether a deadline of ring_need may expire in mid-transfer

ASSUME RingAssumption ==
  /\ Callers # {}
  /\ MaxGroups \in Nat \ {0}
  /\ FireDepth \in Nat \ {0}
  /\ Spans \subseteq Nat \ {0}
  /\ ShortDeadline \in BOOLEAN

VARIABLES
  state,                                   \* ent[g].state
  span,                                    \* ent[g].n_descs once claimed
  n_enq, n_qsub, n_fired, n_ready, n_rel,  \* the cursors
  fire_tail, fire_tail_pred,
  fire_depth_boost,
  failed,
  pc,        \* where each caller is
  ret,       \* where it goes on when fire returns
  arg,       \* the group that ring_need waits for
  upto,      \* the last group of ring_drain_to; NULL in a plain ring_need
  rekicked   \* ring_need's local of that name

cursors == <<n_enq, n_qsub, n_fired, n_ready, n_rel>>
tails == <<fire_tail, fire_tail_pred>>
locals == <<arg, upto, rekicked>>
ringVars == <<state, span, cursors, tails, fire_depth_boost, failed,
              pc, ret, locals>>
vars == <<engVars, ringVars>>

Groups == 0 .. MaxGroups - 1
States == {"PENDING", "QUEUED", "SUBMIT", "READY", "GONE"}
Labels == {"idle", "fire", "link", "start", "rung", "need_top", "need_claim",
           "need_late", "spin", "serial2", "drain_top", "drain_rel"}

dfirst(g) == (g % NSlots) * DpSlot
dlast(g) == dfirst(g) + span[g] - 1
Descs(g) == dfirst(g) .. dlast(g)

Init ==
  /\ EngInit
  /\ state = [g \in Groups |-> "PENDING"]
  /\ span = [g \in Groups |-> 1]
  /\ n_enq = 0 /\ n_qsub = 0 /\ n_fired = 0 /\ n_ready = 0 /\ n_rel = 0
  /\ fire_tail = NULL /\ fire_tail_pred = NULL
  /\ fire_depth_boost = FALSE
  /\ failed = FALSE
  /\ pc = [t \in Callers |-> "idle"]
  /\ ret = [t \in Callers |-> "idle"]
  /\ arg = [t \in Callers |-> 0]
  /\ upto = [t \in Callers |-> NULL]
  /\ rekicked = [t \in Callers |-> FALSE]

Goto(t, label) == pc' = [pc EXCEPT ![t] = label] /\ UNCHANGED ret
\* A call returns; its locals, dead from now on, go back to their first values.
Leave(t) ==
  /\ Goto(t, "idle")
  /\ arg' = [arg EXCEPT ![t] = 0]
  /\ upto' = [upto EXCEPT ![t] = NULL]
  /\ rekicked' = [rekicked EXCEPT ![t] = FALSE]
CallFire(t, back) ==
  /\ pc' = [pc EXCEPT ![t] = "fire"]
  /\ ret' = [ret EXCEPT ![t] = back]

-----------------------------------------------------------------------------
cur_depth(boost) == IF boost THEN NSlots ELSE FireDepth

\* Mutant: the window test of claim is off by one.
Claimable_off_by_one(k, enq, rel, boost) ==
  /\ k < enq
  /\ k - rel <= NSlots
  /\ k < n_fired + cur_depth(boost)

\* The loop condition of claim, with the cursors as the caller has set them.
Claimable(k, enq, rel, boost) ==
  /\ k < enq
  /\ k - rel < NSlots
  /\ k < n_fired + cur_depth(boost)

\* claim: takes groups from n_qsub on while the window allows it, and fills
\* their descriptors; a group with more descriptors than the slot has stops it
\* and fails the ring.  enq, rel, spn, stt and boost are the values the caller
\* has just assigned.
claim(enq, rel, spn, stt, boost) ==
  \E q \in n_qsub .. enq :
    LET new == n_qsub .. q - 1
        fill == {d \in Pool : \E g \in new : d \in dfirst(g) .. dfirst(g) + spn[g] - 1}
        owner(d) == CHOOSE g \in new : d \in dfirst(g) .. dfirst(g) + spn[g] - 1
        last(d) == d = dfirst(owner(d)) + spn[owner(d)] - 1
    IN  /\ \A k \in new : Claimable(k, enq, rel, boost) /\ spn[k] <= DpSlot
        /\ q < enq => ~(Claimable(q, enq, rel, boost) /\ spn[q] <= DpSlot)
        /\ failed' = (failed \/ (q < enq /\ Claimable(q, enq, rel, boost)))
        /\ nxt' = [d \in Pool |-> IF d \notin fill THEN nxt[d]
                                  ELSE IF last(d) THEN NULL ELSE d + 1]
        /\ done' = [d \in Pool |-> d \notin fill /\ done[d]]
        /\ src' = [d \in Pool |-> IF d \in fill THEN owner(d) ELSE src[d]]
        /\ state' = [g \in Groups |-> IF g \in new THEN "QUEUED" ELSE stt[g]]
        /\ n_qsub' = q
        /\ UNCHANGED <<st, head, cur, single_shot, law, lost, mem>>

-----------------------------------------------------------------------------
\* fire, one round of its loop.  First the checks and dmpoll.
\* Mutant: the descriptor before the tail is not looked at.
slack2_tail_only == fire_tail # NULL /\ ~done[fire_tail]

slack2 ==
  /\ fire_tail # NULL /\ ~done[fire_tail]
  /\ fire_tail_pred # NULL => ~done[fire_tail_pred]

FirePoll(t) ==
  /\ pc[t] = "fire"
  /\ IF failed \/ n_fired >= n_qsub \/ state[n_fired] # "QUEUED"
     THEN Goto(t, ret[t])
     ELSE \/ DmPoll = "RUN" /\ slack2 /\ Goto(t, "link")
          \/ DmPoll = "RUN" /\ ~slack2 /\ Goto(t, ret[t])     \* deferred
          \/ DmPoll = "IDLE" /\ Goto(t, "start")
  /\ UNCHANGED <<engVars, state, span, cursors, tails, fire_depth_boost, failed, locals>>

\* Then the doorbell; a refused one fails the ring.
FireRing(t) ==
  \E ok \in BOOLEAN :
    /\ \/ pc[t] = "link" /\ DmLink(fire_tail, dfirst(n_fired), ok)
       \/ pc[t] = "start" /\ DmWaitStart(dfirst(n_fired), ok)
    /\ Goto(t, IF ok THEN "rung" ELSE ret[t])
    /\ failed' = (failed \/ ~ok)
    /\ UNCHANGED <<state, span, cursors, tails, fire_depth_boost, locals>>

\* Then the bookkeeping, after the time the doorbell took.
FireCommit(t) ==
  /\ pc[t] = "rung"
  /\ fire_tail_pred' = IF span[n_fired] > 1 THEN dlast(n_fired) - 1 ELSE fire_tail
  /\ fire_tail' = dlast(n_fired)
  /\ state' = [state EXCEPT ![n_fired] = "SUBMIT"]
  /\ n_fired' = n_fired + 1
  /\ Goto(t, "fire")
  /\ UNCHANGED <<engVars, span, n_enq, n_qsub, n_ready, n_rel, fire_depth_boost,
                 failed, locals>>

-----------------------------------------------------------------------------
\* Mutant: the bound of the group table is forgotten.
CanEnqueue_unbounded == ~failed
CanEnqueue == ~failed /\ n_enq < MaxGroups

ring_enqueue(t) ==
  /\ pc[t] = "idle" /\ CanEnqueue
  /\ \E n \in Spans :
       /\ span' = [span EXCEPT ![n_enq] = n]
       /\ n_enq' = n_enq + 1
       /\ claim(n_enq + 1, n_rel, span', state, fire_depth_boost)
  /\ CallFire(t, "idle")
  /\ UNCHANGED <<n_fired, n_ready, n_rel, tails, fire_depth_boost, locals>>

\* Mutant: a group still being transferred is given back as well.
Releasable_submitted(g) == state[g] \in {"SUBMIT", "READY"}
Releasable(g) == state[g] = "READY"

\* The part of ring_release under the lock; back is where the caller goes on.
\* GONE groups at the front of the ring free their slots before claim looks.
Release(t, g, back) ==
  LET stt == IF Releasable(g) THEN [state EXCEPT ![g] = "GONE"] ELSE state
  IN  \E r \in n_rel .. n_enq :
        /\ \A k \in n_rel .. r - 1 : stt[k] = "GONE"
        /\ IF Releasable(g) THEN r < n_enq => stt[r] # "GONE" ELSE r = n_rel
        /\ n_rel' = r
        /\ claim(n_enq, r, span, stt, fire_depth_boost)
        /\ CallFire(t, back)
        /\ UNCHANGED <<span, n_enq, n_fired, n_ready, tails, fire_depth_boost>>

ring_release(t) ==
  /\ pc[t] = "idle"
  /\ \E g \in 0 .. n_enq - 1 : Release(t, g, "idle")
  /\ UNCHANGED locals

\* The window without consumers: claim up to the whole ring, then fire twice.
ring_on_serial_phase(t) ==
  /\ pc[t] = "idle"
  /\ fire_depth_boost' = TRUE
  /\ claim(n_enq, n_rel, span, state, TRUE)
  /\ CallFire(t, "serial2")
  /\ UNCHANGED <<span, n_enq, n_fired, n_ready, n_rel, tails, locals>>

SerialFireAgain(t) ==
  /\ pc[t] = "serial2"
  /\ CallFire(t, "idle")
  /\ UNCHANGED <<engVars, state, span, cursors, tails, fire_depth_boost, failed, locals>>

-----------------------------------------------------------------------------
\* ring_need(g) past its entry checks; a failed ring and a group not enqueued yet
\* are answered at once.
ring_need(t) ==
  /\ pc[t] = "idle" /\ ~failed
  /\ \E g \in 0 .. n_enq - 1 : arg' = [arg EXCEPT ![t] = g]
  /\ Goto(t, "need_top")
  /\ UNCHANGED <<engVars, state, span, cursors, tails, fire_depth_boost, failed,
                 upto, rekicked>>

\* Where a return of ring_need leads.
NeedReturns(t, ready) ==
  IF upto[t] # NULL /\ ready THEN Goto(t, "drain_rel") /\ UNCHANGED locals
                             ELSE Leave(t)

\* advance_ready: the prefix of submitted groups whose descriptors are all done.
\* No caller is between two of its steps, so it is part of the step below.
Arrived(k) == state[k] \in {"READY", "GONE"} \/ \A d \in Descs(k) : done[d]

advance_ready ==
  \E r \in n_ready .. n_fired :
    /\ \A k \in n_ready .. r - 1 : Arrived(k)
    /\ r < n_fired => ~Arrived(r)
    /\ n_ready' = r
    /\ state' = [g \in Groups |->
                   IF g \in n_ready .. r - 1 /\ state[g] = "SUBMIT" THEN "READY"
                   ELSE state[g]]

\* The top of the wait loop.
NeedTop(t) ==
  /\ pc[t] = "need_top"
  /\ advance_ready
  /\ IF state'[arg[t]] \in {"READY", "GONE"}
     THEN NeedReturns(t, TRUE) /\ fire_depth_boost' = FALSE
     ELSE /\ IF failed THEN NeedReturns(t, FALSE)
                       ELSE CallFire(t, "need_claim") /\ UNCHANGED locals
          /\ UNCHANGED fire_depth_boost
  /\ UNCHANGED <<engVars, span, n_enq, n_qsub, n_fired, n_rel, tails, failed>>

\* claim_and_fire inside the wait loop.
NeedClaim(t) ==
  /\ pc[t] = "need_claim"
  /\ claim(n_enq, n_rel, span, state, fire_depth_boost)
  /\ CallFire(t, "need_late")
  /\ UNCHANGED <<span, n_enq, n_fired, n_ready, n_rel, tails, fire_depth_boost, locals>>

\* The deadline has not passed: spin and look again.
NeedSpin(t) ==
  /\ pc[t] = "need_late"
  /\ Goto(t, "spin")
  /\ UNCHANGED <<engVars, state, span, cursors, tails, fire_depth_boost, failed, locals>>

Spun(t) ==
  /\ pc[t] = "spin"
  /\ Goto(t, "need_top")
  /\ UNCHANGED <<engVars, state, span, cursors, tails, fire_depth_boost, failed, locals>>

\* The deadline has passed.  Unless ShortDeadline, it is longer than everything
\* in flight takes: it passes only once waiting any longer changes nothing, all
\* doorbells rung, the engine parked and what has arrived noticed.
Settled == /\ st = "IDLE" /\ n_fired = n_qsub
           /\ n_ready < n_fired => ~Arrived(n_ready)
Late(t) == pc[t] = "need_late" /\ (ShortDeadline \/ Settled)

\* Mutant: a transfer that was lost is never started again.
CanRekick_never(t) == FALSE
CanRekick(t) == ~rekicked[t] /\ state[arg[t]] = "SUBMIT"

\* A submitted group is started once more, and the wait gets one more period.
NeedRekick(t) ==
  /\ Late(t) /\ CanRekick(t)
  /\ \E ok \in BOOLEAN :
       /\ DmWaitStart(dfirst(arg[t]), ok)
       /\ IF ok
          THEN /\ fire_tail' = dlast(arg[t])
               /\ fire_tail_pred' = IF span[arg[t]] > 1 THEN dlast(arg[t]) - 1 ELSE NULL
               /\ rekicked' = [rekicked EXCEPT ![t] = TRUE]
               /\ Goto(t, "need_top")
               /\ UNCHANGED <<arg, upto>>
          ELSE /\ NeedReturns(t, FALSE)
               /\ UNCHANGED tails
  /\ UNCHANGED <<state, span, cursors, fire_depth_boost, failed>>

NeedGivesUp(t) ==
  /\ Late(t) /\ ~CanRekick(t)
  /\ NeedReturns(t, FALSE)
  /\ UNCHANGED <<engVars, state, span, cursors, tails, fire_depth_boost, failed>>

-----------------------------------------------------------------------------
\* ring_drain_to(g): need and release every group from n_rel to g.
ring_drain_to(t) ==
  /\ pc[t] = "idle"
  /\ \E g \in 0 .. n_enq - 1 : upto' = [upto EXCEPT ![t] = g]
  /\ arg' = [arg EXCEPT ![t] = n_rel]
  /\ Goto(t, "drain_top")
  /\ UNCHANGED <<engVars, state, span, cursors, tails, fire_depth_boost, failed, rekicked>>

DrainNext(t) ==
  /\ pc[t] = "drain_top"
  /\ IF arg[t] <= upto[t] /\ ~failed
     THEN /\ Goto(t, "need_top")
          /\ rekicked' = [rekicked EXCEPT ![t] = FALSE]
          /\ UNCHANGED <<arg, upto>>
     ELSE Leave(t)
  /\ UNCHANGED <<engVars, state, span, cursors, tails, fire_depth_boost, failed>>

\* Mutant: the loop of ring_drain_to does not advance.
DrainRelease_same(t) ==
  /\ pc[t] = "drain_rel"
  /\ Release(t, arg[t], "drain_top")
  /\ UNCHANGED locals

DrainRelease(t) ==
  /\ pc[t] = "drain_rel"
  /\ Release(t, arg[t], "drain_top")
  /\ arg' = [arg EXCEPT ![t] = @ + 1]
  /\ UNCHANGED <<upto, rekicked>>

-----------------------------------------------------------------------------
\* The engine moves while the clock does: between calls, during the spin of a
\* wait and during the time a doorbell takes.
ClockRuns == \E t \in Callers : pc[t] \in {"idle", "spin", "rung"}

Engine == /\ ClockRuns
          /\ EngComplete \/ EngRetire
          /\ UNCHANGED ringVars

Call(t) == \/ ring_enqueue(t) \/ ring_release(t) \/ ring_on_serial_phase(t)
           \/ ring_need(t) \/ ring_drain_to(t)

Step(t) == \/ FirePoll(t) \/ FireRing(t) \/ FireCommit(t) \/ SerialFireAgain(t)
           \/ NeedTop(t) \/ NeedClaim(t) \/ NeedSpin(t) \/ Spun(t)
           \/ NeedRekick(t) \/ NeedGivesUp(t)
           \/ DrainNext(t) \/ DrainRelease(t)

Next == Engine \/ \E t \in Callers : Call(t) \/ Step(t)

Spec == Init /\ [][Next]_vars

\* A caller inside a call keeps running.  Every spin and every doorbell advances
\* the clock by a fixed amount, so a transfer that is waited for ends and a
\* deadline that is waited for passes, although neither is enabled all the time.
Deadline(t) == NeedRekick(t) \/ NeedGivesUp(t)
FairSpec == /\ Spec
            /\ SF_vars(Engine)
            /\ \A t \in Callers : WF_vars(Step(t)) /\ SF_vars(Deadline(t))

-----------------------------------------------------------------------------
TypeOK ==
  /\ st \in {"IDLE", "RUN", "RETIRE"}
  /\ {head, cur, fire_tail, fire_tail_pred} \subseteq Pool \cup {NULL}
  /\ nxt \in [Pool -> Pool \cup {NULL}]
  /\ done \in [Pool -> BOOLEAN]
  /\ src \in [Pool -> Groups \cup {NULL}]
  /\ single_shot \in BOOLEAN
  /\ law \in {0, 1, 5, 6, 7}
  /\ lost \in 0 .. MaxLost
  /\ mem \in [Units -> (Groups \cup {NULL}) \X (0 .. DpSlot - 1)]
  /\ state \in [Groups -> States]
  /\ span \in [Groups -> Nat \ {0}]
  /\ {n_enq, n_qsub, n_fired, n_ready, n_rel} \subseteq 0 .. MaxGroups
  /\ fire_depth_boost \in BOOLEAN
  /\ failed \in BOOLEAN
  /\ pc \in [Callers -> Labels]
  /\ ret \in [Callers -> Labels]
  /\ arg \in [Callers -> 0 .. MaxGroups]
  /\ upto \in [Callers -> Groups \cup {NULL}]
  /\ rekicked \in [Callers -> BOOLEAN]

\* ring_check_invariants finds nothing (I1, I2, I5): the cursors stay in order,
\* no more groups hold a slot than there are slots, and the tail that the next
\* dmlink will write to is a descriptor of the pool.
RingInvariants ==
  /\ n_rel <= n_ready /\ n_ready <= n_fired /\ n_fired <= n_qsub /\ n_qsub <= n_enq
  /\ n_qsub - n_rel <= NSlots
  /\ fire_tail # NULL => in_pool(fire_tail)

\* The doorbell discipline of fire and of the re-kick keeps every law of the
\* engine: the assertion layer of ring_sim.c never freezes it, whatever calls are
\* made, whatever doorbells are deferred or lost.
LawsKept == law = 0

\* claim never rewrites a descriptor that the engine has still to walk: what the
\* engine is going to execute was submitted (or is being submitted now).
InFlight == IF st = "RUN" THEN Chain(cur) ELSE {}
Submitting(g) == g = n_fired /\ \E t \in Callers : pc[t] = "rung"
NoReuseInFlight ==
  \A d \in InFlight :
    \E g \in Groups : /\ d \in Descs(g) /\ src[d] = g
                      /\ state[g] \in {"SUBMIT", "READY"} \/ Submitting(g)

\* A group that ring_need has reported READY stays readable in its slot until it
\* is released, provided the groups fit their slots: no later group and no
\* repeated transfer overwrites it.
FitSlots == \A g \in 0 .. n_enq - 1 : span[g] = 1
Intact(g) == \A d \in Descs(g) : mem[Dst(d)] = <<g, d % DpSlot>>
ReadyIntact == FitSlots => \A g \in Groups : state[g] = "READY" => Intact(g)

\* Waiting drives the ring: a ring_need for the oldest group not yet delivered,
\* with a slot free for it, always brings it in (unless the ring has failed),
\* although doorbells are deferred and one of them may be lost.
NeedDelivers ==
  \A t \in Callers, g \in Groups :
    (pc[t] = "need_top" /\ arg[t] = g /\ g = n_ready /\ g - n_rel < NSlots)
      ~> (state[g] \in {"READY", "GONE"} \/ failed)

\* Every call of the library returns.
CallsReturn == \A t \in Callers : pc[t] # "idle" ~> pc[t] = "idle"
=============================================================================
