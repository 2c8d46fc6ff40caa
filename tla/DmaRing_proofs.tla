--------------------------- MODULE DmaRing_proofs ----------------------------
(***************************************************************************)
(* Proofs about the prefetch ring, for any number of slots, descriptors    *)
(* and groups.  They are about one caller: ring_policy.h has doorbells go  *)
(* through a serializer, fire itself has none, and with two callers both   *)
(* could commit the same doorbell.                                         *)
(***************************************************************************)
EXTENDS DmaRing, WellFoundedInduction, TLAPS

OneCaller == \A s, t \in Callers : s = t

\* The types that the argument needs.
Types ==
  /\ n_enq \in Nat /\ n_qsub \in Nat /\ n_fired \in Nat /\ n_ready \in Nat /\ n_rel \in Nat
  /\ n_enq <= MaxGroups
  /\ state \in [Groups -> States]
  /\ span \in [Groups -> Nat \ {0}]
  /\ pc \in [Callers -> Labels] /\ ret \in [Callers -> Labels]
  /\ arg \in [Callers -> Nat] /\ upto \in [Callers -> Groups \cup {NULL}]

\* The cursors are in order and cut the groups by their state.
Order == n_rel <= n_ready /\ n_ready <= n_fired /\ n_fired <= n_qsub /\ n_qsub <= n_enq
Window == n_qsub - n_rel <= NSlots
Shape ==
  \A g \in Groups :
    /\ g < n_ready => state[g] \in {"READY", "GONE"}
    /\ n_ready <= g /\ g < n_fired => state[g] = "SUBMIT"
    /\ n_fired <= g /\ g < n_qsub => state[g] = "QUEUED"
    /\ n_qsub <= g => state[g] = "PENDING"

\* A claimed group fits its slot, so the tails are descriptors of the pool.
Fits == \A g \in Groups : g < n_qsub => span[g] <= DpSlot
Tails == fire_tail = NULL \/ in_pool(fire_tail)

\* A caller that rings a doorbell has a group to ring it for, and a caller that
\* waits for a group waits for an enqueued one.
Firing == {"link", "start", "rung"}
Needing == {"need_top", "need_claim", "need_late", "spin"}
Waits(t) == \/ pc[t] \in Needing \cup {"drain_rel"}
            \/ pc[t] \in Firing \cup {"fire"} /\ ret[t] \in Needing
CallAt(t) ==
  /\ pc[t] \in Firing => n_fired < n_qsub
  /\ pc[t] \in Firing \cup {"fire"} =>
       ret[t] \in {"idle", "serial2", "need_claim", "need_late", "drain_top"}
  /\ Waits(t) => arg[t] < n_enq
  /\ upto[t] < n_enq
Calls == \A t \in Callers : CallAt(t)

RingInd == Types /\ Order /\ Window /\ Shape /\ Fits /\ Tails /\ Calls

-----------------------------------------------------------------------------
\* The last descriptor of a group that fits its slot is in the pool.
LEMMA LastInPool ==
  ASSUME NEW g \in Nat, NEW n \in 1 .. DpSlot
  PROVE  dfirst(g) + n - 1 \in Pool
<1>1. g % NSlots \in 0 .. NSlots - 1
  BY EngineAssumption
<1>2. ASSUME NEW x \in 0 .. NSlots - 1
      PROVE  x * DpSlot + n - 1 \in 0 .. NSlots * DpSlot - 1
  BY EngineAssumption, SMT
<1>3. QED
  BY <1>1, <1>2 DEF dfirst, Pool, NDesc

\* What claim does to the groups, whatever its caller has just assigned.
LEMMA ClaimEffect ==
  ASSUME Types, Window, n_qsub <= n_enq,
         NEW enq \in Nat, n_enq <= enq,
         NEW rel \in Nat, n_rel <= rel,
         NEW spn, NEW stt, NEW boost,
         claim(enq, rel, spn, stt, boost)
  PROVE  /\ n_qsub' \in Nat /\ n_qsub <= n_qsub' /\ n_qsub' <= enq
         /\ n_qsub' - rel <= NSlots
         /\ state' = [g \in Groups |-> IF n_qsub <= g /\ g < n_qsub' THEN "QUEUED"
                                       ELSE stt[g]]
         /\ \A g \in Groups : n_qsub <= g /\ g < n_qsub' => spn[g] <= DpSlot
<1>1. PICK q \in n_qsub .. enq :
        /\ \A k \in n_qsub .. q - 1 : Claimable(k, enq, rel, boost) /\ spn[k] <= DpSlot
        /\ state' = [g \in Groups |-> IF g \in n_qsub .. q - 1 THEN "QUEUED" ELSE stt[g]]
        /\ n_qsub' = q
  BY DEF claim
<1>2. q \in Nat /\ n_qsub <= q /\ q <= enq
  BY DEF Types
<1>3. q - rel <= NSlots
  <2>1. CASE q = n_qsub
    BY <2>1, EngineAssumption DEF Types, Window
  <2>2. CASE q > n_qsub
    <3>1. q - 1 \in n_qsub .. q - 1
      BY <1>2, <2>2 DEF Types
    <3>2. (q - 1) - rel < NSlots
      BY <1>1, <3>1 DEF Claimable
    <3>3. QED
      BY <1>2, <3>2, EngineAssumption
  <2>3. QED
    BY <1>2, <2>1, <2>2 DEF Types
<1>4. \A g \in Groups : g \in n_qsub .. q - 1 <=> n_qsub <= g /\ g < q
  BY <1>2, RingAssumption DEF Groups, Types
<1>5. QED
  BY <1>1, <1>2, <1>3, <1>4

\* A step that leaves the groups, the cursors and the tails alone.
LEMMA LocalStep ==
  ASSUME RingInd, UNCHANGED <<state, span, cursors, fire_tail>>
  PROVE  Order' /\ Window' /\ Shape' /\ Fits' /\ Tails'
  BY DEF RingInd, cursors, Order, Window, Shape, Fits, Tails, in_pool

\* How the steps move a caller, when there is only one.
LEMMA GotoTypes ==
  ASSUME Types, NEW t \in Callers, NEW label \in Labels, Goto(t, label)
  PROVE  /\ pc' \in [Callers -> Labels] /\ ret' \in [Callers -> Labels]
         /\ pc'[t] = label /\ ret'[t] = ret[t]
  BY DEF Goto, Types

LEMMA CallFireTypes ==
  ASSUME Types, NEW t \in Callers, NEW back \in Labels, CallFire(t, back)
  PROVE  /\ pc' \in [Callers -> Labels] /\ ret' \in [Callers -> Labels]
         /\ pc'[t] = "fire" /\ ret'[t] = back
  BY DEF CallFire, Types, Labels

LEMMA LeaveTypes ==
  ASSUME Types, NEW t \in Callers, Leave(t)
  PROVE  /\ pc' \in [Callers -> Labels] /\ ret' \in [Callers -> Labels]
         /\ arg' \in [Callers -> Nat] /\ upto' \in [Callers -> Groups \cup {NULL}]
         /\ pc'[t] = "idle" /\ upto'[t] = NULL
  BY DEF Leave, Goto, Types, Labels

-----------------------------------------------------------------------------
\* The steps that only move the caller.
LEMMA FirePollInd ==
  ASSUME RingInd, OneCaller, NEW t \in Callers, FirePoll(t) PROVE RingInd'
<1> USE DEF RingInd
<1>1. UNCHANGED <<state, span, cursors, fire_tail, arg, upto>>
  BY DEF FirePoll, tails, locals
<1>2. ret[t] \in {"idle", "serial2", "need_claim", "need_late", "drain_top"}
  BY DEF FirePoll, Calls, CallAt, Firing
<1>3. \/ Goto(t, ret[t])
      \/ Goto(t, "link") /\ n_fired < n_qsub
      \/ Goto(t, "start") /\ n_fired < n_qsub
  BY DEF FirePoll, Types
<1>4. /\ pc' \in [Callers -> Labels] /\ ret' \in [Callers -> Labels] /\ ret'[t] = ret[t]
      /\ \/ pc'[t] = ret[t]
         \/ pc'[t] \in {"link", "start"} /\ n_fired < n_qsub
  BY <1>2, <1>3, GotoTypes DEF Labels
<1>5. Types'
  BY <1>1, <1>4 DEF Types, cursors
<1>6. CallAt(t)'
  BY <1>1, <1>2, <1>4 DEF FirePoll, Calls, CallAt, Waits, Firing, Needing, cursors
<1>7. QED
  BY <1>1, <1>5, <1>6, LocalStep DEF OneCaller, Calls

LEMMA FireRingInd ==
  ASSUME RingInd, OneCaller, NEW t \in Callers, FireRing(t) PROVE RingInd'
<1> USE DEF RingInd
<1>1. UNCHANGED <<state, span, cursors, fire_tail, arg, upto>>
  BY DEF FireRing, tails, locals
<1>2. pc[t] \in {"link", "start"} /\ (Goto(t, "rung") \/ Goto(t, ret[t]))
  BY DEF FireRing
<1>3. /\ ret[t] \in {"idle", "serial2", "need_claim", "need_late", "drain_top"}
      /\ n_fired < n_qsub
  BY <1>2 DEF Calls, CallAt, Firing
<1>4. /\ pc' \in [Callers -> Labels] /\ ret' \in [Callers -> Labels] /\ ret'[t] = ret[t]
      /\ pc'[t] \in {"rung", ret[t]}
  BY <1>2, <1>3, GotoTypes DEF Labels
<1>5. Types'
  BY <1>1, <1>4 DEF Types, cursors
<1>6. CallAt(t)'
  BY <1>1, <1>2, <1>3, <1>4 DEF Calls, CallAt, Waits, Firing, Needing, cursors
<1>7. QED
  BY <1>1, <1>5, <1>6, LocalStep DEF OneCaller, Calls

LEMMA SpinInd ==
  ASSUME RingInd, OneCaller, NEW t \in Callers,
         SerialFireAgain(t) \/ NeedSpin(t) \/ Spun(t)
  PROVE  RingInd'
<1> USE DEF RingInd
<1>1. UNCHANGED <<state, span, cursors, fire_tail, arg, upto>>
  BY DEF SerialFireAgain, NeedSpin, Spun, tails, locals
<1>2. \/ CallFire(t, "idle")
      \/ pc[t] \in Needing /\ (Goto(t, "spin") \/ Goto(t, "need_top"))
  BY DEF SerialFireAgain, NeedSpin, Spun, Needing
<1>3. /\ pc' \in [Callers -> Labels] /\ ret' \in [Callers -> Labels]
      /\ \/ pc'[t] = "fire" /\ ret'[t] = "idle"
         \/ pc[t] \in Needing /\ pc'[t] \in {"spin", "need_top"}
  BY <1>2, GotoTypes, CallFireTypes DEF Labels
<1>4. Types'
  BY <1>1, <1>3 DEF Types, cursors
<1>5. CallAt(t)'
  BY <1>1, <1>3 DEF Calls, CallAt, Waits, Firing, Needing, cursors
<1>6. QED
  BY <1>1, <1>4, <1>5, LocalStep DEF OneCaller, Calls

LEMMA EntryInd ==
  ASSUME RingInd, OneCaller, NEW t \in Callers, ring_need(t) \/ ring_drain_to(t)
  PROVE  RingInd'
<1> USE DEF RingInd
<1>1. UNCHANGED <<state, span, cursors, fire_tail>>
  BY DEF ring_need, ring_drain_to, tails
<1>2. CASE ring_need(t)
  <2>1. PICK g \in 0 .. n_enq - 1 : arg' = [arg EXCEPT ![t] = g]
    BY <1>2 DEF ring_need
  <2>2. /\ pc' \in [Callers -> Labels] /\ ret' \in [Callers -> Labels]
        /\ pc'[t] = "need_top" /\ upto' = upto
    BY <1>2, GotoTypes DEF ring_need, Labels
  <2>3. arg' \in [Callers -> Nat] /\ arg'[t] < n_enq
    BY <2>1 DEF Types
  <2>4. Types' /\ CallAt(t)'
    BY <1>1, <2>2, <2>3 DEF Types, Calls, CallAt, Waits, Firing, Needing, cursors
  <2>5. QED
    BY <1>1, <2>4, LocalStep DEF OneCaller, Calls
<1>3. CASE ring_drain_to(t)
  <2>1. PICK g \in 0 .. n_enq - 1 : upto' = [upto EXCEPT ![t] = g]
    BY <1>3 DEF ring_drain_to
  <2>2. /\ pc' \in [Callers -> Labels] /\ ret' \in [Callers -> Labels]
        /\ pc'[t] = "drain_top" /\ arg' \in [Callers -> Nat]
    BY <1>3, GotoTypes DEF ring_drain_to, Labels, Types
  <2>3. upto' \in [Callers -> Groups \cup {NULL}] /\ upto'[t] < n_enq
    BY <2>1, RingAssumption DEF Types, Groups
  <2>4. Types' /\ CallAt(t)'
    BY <1>1, <2>2, <2>3 DEF Types, Calls, CallAt, Waits, Firing, Needing, cursors
  <2>5. QED
    BY <1>1, <2>4, LocalStep DEF OneCaller, Calls
<1>4. QED
  BY <1>2, <1>3

\* A return of ring_need: on to the next step of ring_drain_to, or out of the call.
LEMMA ReturnInd ==
  ASSUME RingInd, OneCaller, NEW t \in Callers, NEW ready,
         pc[t] \in Needing, NeedReturns(t, ready), n_enq' = n_enq
  PROVE  /\ pc' \in [Callers -> Labels] /\ ret' \in [Callers -> Labels]
         /\ arg' \in [Callers -> Nat] /\ upto' \in [Callers -> Groups \cup {NULL}]
         /\ CallAt(t)'
<1>1. CASE Leave(t)
  <2>1. NULL < n_enq
    BY DEF RingInd, Types, NULL
  <2>2. QED
    BY <1>1, <2>1, LeaveTypes DEF RingInd, CallAt, Waits, Firing, Needing
<1>2. CASE Goto(t, "drain_rel") /\ UNCHANGED locals
  BY <1>2, GotoTypes DEF RingInd, Types, Calls, CallAt, Waits, Firing, Needing, locals, Labels
<1>3. QED
  BY <1>1, <1>2 DEF NeedReturns

LEMMA NeedGivesUpInd ==
  ASSUME RingInd, OneCaller, NEW t \in Callers, NeedGivesUp(t) PROVE RingInd'
<1> USE DEF RingInd
<1>1. UNCHANGED <<state, span, cursors, fire_tail>> /\ n_enq' = n_enq
  BY DEF NeedGivesUp, tails, cursors
<1>2. pc[t] \in Needing /\ NeedReturns(t, FALSE)
  BY DEF NeedGivesUp, Late, Needing
<1>3. Types' /\ CallAt(t)'
  BY <1>1, <1>2, ReturnInd DEF Types, cursors
<1>4. QED
  BY <1>1, <1>3, LocalStep DEF OneCaller, Calls

LEMMA DrainNextInd ==
  ASSUME RingInd, OneCaller, NEW t \in Callers, DrainNext(t) PROVE RingInd'
<1> USE DEF RingInd
<1>1. UNCHANGED <<state, span, cursors, fire_tail>>
  BY DEF DrainNext, tails
<1>2. CASE Leave(t)
  <2>1. NULL < n_enq
    BY DEF Types, NULL
  <2>2. Types' /\ CallAt(t)'
    BY <1>1, <1>2, <2>1, LeaveTypes DEF Types, CallAt, Waits, Firing, Needing, cursors
  <2>3. QED
    BY <1>1, <2>2, LocalStep DEF OneCaller, Calls
<1>3. CASE arg[t] <= upto[t] /\ Goto(t, "need_top") /\ UNCHANGED <<arg, upto>>
  <2>1. arg[t] < n_enq /\ upto[t] < n_enq
    <3>1. arg[t] \in Nat /\ upto[t] \in Int /\ n_enq \in Nat /\ upto[t] < n_enq
      BY RingAssumption DEF Types, Calls, CallAt, Groups, NULL
    <3>2. QED
      BY <1>3, <3>1
  <2>2. Types' /\ CallAt(t)'
    BY <1>1, <1>3, <2>1, GotoTypes
       DEF Types, CallAt, Waits, Firing, Needing, cursors, Labels
  <2>3. QED
    BY <1>1, <2>2, LocalStep DEF OneCaller, Calls
<1>4. QED
  BY <1>2, <1>3 DEF DrainNext

-----------------------------------------------------------------------------
\* The steps that claim groups.  What claim leaves behind when its caller has set
\* the cursors enq and rel, the spans and the states to proper values.
LEMMA ClaimInd ==
  ASSUME RingInd, n_enq' \in Nat, n_enq <= n_enq', n_enq' <= MaxGroups,
         n_rel' \in Nat, n_rel <= n_rel', n_rel' <= n_ready,
         span' \in [Groups -> Nat \ {0}],
         \A g \in Groups : g < n_qsub => span'[g] = span[g],
         NEW stt \in [Groups -> States],
         \A g \in Groups : \/ stt[g] = state[g]
                           \/ g < n_ready /\ stt[g] = "GONE",
         NEW boost,
         claim(n_enq', n_rel', span', stt, boost),
         UNCHANGED <<n_fired, n_ready, fire_tail>>
  PROVE  /\ Order' /\ Window' /\ Shape' /\ Fits' /\ Tails'
         /\ n_qsub' \in Nat /\ n_qsub <= n_qsub' /\ state' \in [Groups -> States]
<1>1. /\ n_qsub' \in Nat /\ n_qsub <= n_qsub' /\ n_qsub' <= n_enq'
      /\ n_qsub' - n_rel' <= NSlots
      /\ state' = [g \in Groups |-> IF n_qsub <= g /\ g < n_qsub' THEN "QUEUED" ELSE stt[g]]
      /\ \A g \in Groups : n_qsub <= g /\ g < n_qsub' => span'[g] <= DpSlot
  BY ClaimEffect DEF RingInd, Order
<1>2. Order' /\ Window' /\ Tails'
  BY <1>1 DEF RingInd, Types, Order, Window, Tails, in_pool
<1>3. state' \in [Groups -> States]
  BY <1>1 DEF States
<1>4. Shape'
  <2> SUFFICES ASSUME NEW g \in Groups
               PROVE  /\ g < n_ready => state'[g] \in {"READY", "GONE"}
                      /\ n_ready <= g /\ g < n_fired => state'[g] = "SUBMIT"
                      /\ n_fired <= g /\ g < n_qsub' => state'[g] = "QUEUED"
                      /\ n_qsub' <= g => state'[g] = "PENDING"
    BY DEF Shape
  <2>1. g \in Int /\ n_qsub \in Nat /\ n_fired \in Nat /\ n_ready \in Nat
        /\ n_ready <= n_fired /\ n_fired <= n_qsub
    BY RingAssumption DEF RingInd, Types, Order, Groups
  <2>2. n_qsub' \in Nat /\ n_qsub <= n_qsub'
    BY <1>1
  <2>4. state'[g] = IF n_qsub <= g /\ g < n_qsub' THEN "QUEUED" ELSE stt[g]
    BY <1>1
  <2>5. stt[g] = state[g] \/ (g < n_ready /\ stt[g] = "GONE")
    OBVIOUS
  <2>6. /\ g < n_ready => state[g] \in {"READY", "GONE"}
        /\ n_ready <= g /\ g < n_fired => state[g] = "SUBMIT"
        /\ n_fired <= g /\ g < n_qsub => state[g] = "QUEUED"
        /\ n_qsub <= g => state[g] = "PENDING"
    BY DEF RingInd, Shape
  <2>7. QED
    BY <2>1, <2>2, <2>4, <2>5, <2>6
<1>5. Fits'
  <2> SUFFICES ASSUME NEW g \in Groups, g < n_qsub' PROVE span'[g] <= DpSlot
    BY DEF Fits
  <2>1. g \in Int /\ n_qsub \in Nat
    BY RingAssumption DEF RingInd, Types, Groups
  <2>2. CASE g < n_qsub
    BY <2>2 DEF RingInd, Fits
  <2>3. CASE n_qsub <= g
    BY <1>1, <2>3
  <2>4. QED
    BY <2>1, <2>2, <2>3
<1>6. QED
  BY <1>1, <1>2, <1>3, <1>4, <1>5

LEMMA EnqueueInd ==
  ASSUME RingInd, OneCaller, NEW t \in Callers, ring_enqueue(t) PROVE RingInd'
<1> USE DEF RingInd
<1>1. PICK n \in Spans : span' = [span EXCEPT ![n_enq] = n]
  BY DEF ring_enqueue
<1>2. /\ n_enq < MaxGroups /\ n_enq' = n_enq + 1
      /\ claim(n_enq + 1, n_rel, span', state, fire_depth_boost)
      /\ CallFire(t, "idle")
      /\ UNCHANGED <<n_fired, n_ready, n_rel, fire_tail, arg, upto>>
  BY DEF ring_enqueue, CanEnqueue, tails, locals
<1>3. /\ n_enq' \in Nat /\ n_enq <= n_enq' /\ n_enq' <= MaxGroups
      /\ n_rel' \in Nat /\ n_rel <= n_rel' /\ n_rel' <= n_ready
      /\ span' \in [Groups -> Nat \ {0}]
      /\ \A g \in Groups : g < n_qsub => span'[g] = span[g]
  BY <1>1, <1>2, RingAssumption DEF Types, Order, Groups
<1>4. /\ Order' /\ Window' /\ Shape' /\ Fits' /\ Tails'
      /\ n_qsub' \in Nat /\ n_qsub <= n_qsub' /\ state' \in [Groups -> States]
  <2>1. claim(n_enq', n_rel', span', state, fire_depth_boost)
    BY <1>2
  <2>2. state \in [Groups -> States]
    BY DEF Types
  <2>3. QED
    BY <1>2, <1>3, <2>1, <2>2, ClaimInd
<1>5. Types'
  BY <1>2, <1>3, <1>4, CallFireTypes DEF Types, Labels
<1>6. CallAt(t)'
  <2>1. pc'[t] = "fire" /\ ret'[t] = "idle"
    BY <1>2, CallFireTypes DEF Labels
  <2>2. upto[t] \in Int /\ upto[t] < n_enq /\ n_enq \in Nat
    BY RingAssumption DEF Types, Calls, CallAt, Groups, NULL
  <2>3. upto'[t] < n_enq'
    BY <1>2, <2>2
  <2>4. QED
    BY <2>1, <2>3 DEF CallAt, Waits, Firing, Needing
<1>7. QED
  BY <1>4, <1>5, <1>6 DEF OneCaller, Calls

\* ring_on_serial_phase and the claim inside the wait loop.
LEMMA ClaimAgainInd ==
  ASSUME RingInd, OneCaller, NEW t \in Callers, ring_on_serial_phase(t) \/ NeedClaim(t)
  PROVE  RingInd'
<1> USE DEF RingInd
<1>1. /\ UNCHANGED <<span, n_enq, n_fired, n_ready, n_rel, fire_tail, arg, upto>>
      /\ \/ CallFire(t, "serial2")
         \/ pc[t] \in Needing /\ CallFire(t, "need_late")
  BY DEF ring_on_serial_phase, NeedClaim, tails, locals, Needing
<1>2. PICK boost : claim(n_enq, n_rel, span, state, boost)
  BY DEF ring_on_serial_phase, NeedClaim
<1>3. /\ Order' /\ Window' /\ Shape' /\ Fits' /\ Tails'
      /\ n_qsub' \in Nat /\ n_qsub <= n_qsub' /\ state' \in [Groups -> States]
  <2>1. claim(n_enq', n_rel', span', state, boost)
    BY <1>1, <1>2
  <2>2. /\ state \in [Groups -> States] /\ span' \in [Groups -> Nat \ {0}]
        /\ n_enq' \in Nat /\ n_enq <= n_enq' /\ n_enq' <= MaxGroups
        /\ n_rel' \in Nat /\ n_rel <= n_rel' /\ n_rel' <= n_ready
    BY <1>1 DEF Types, Order
  <2>3. QED
    BY <1>1, <2>1, <2>2, ClaimInd
<1>4. Types'
  BY <1>1, <1>3, CallFireTypes DEF Types, Labels
<1>5. CallAt(t)'
  BY <1>1, <1>3, CallFireTypes DEF Types, Labels, Calls, CallAt, Waits, Firing, Needing
<1>6. QED
  BY <1>3, <1>4, <1>5 DEF OneCaller, Calls

LEMMA ReleaseInd ==
  ASSUME RingInd, OneCaller, NEW t \in Callers, NEW g \in Groups, NEW back \in Labels,
         Release(t, g, back)
  PROVE  /\ Order' /\ Window' /\ Shape' /\ Fits' /\ Tails'
         /\ n_rel' \in Nat /\ n_qsub' \in Nat /\ state' \in [Groups -> States]
         /\ UNCHANGED <<span, n_enq, n_fired, n_ready>>
         /\ CallFire(t, back)
<1> USE DEF RingInd
<1> DEFINE stt == IF Releasable(g) THEN [state EXCEPT ![g] = "GONE"] ELSE state
<1>1. PICK r \in n_rel .. n_enq :
        /\ \A k \in n_rel .. r - 1 : stt[k] = "GONE"
        /\ n_rel' = r
        /\ claim(n_enq, r, span, stt, fire_depth_boost)
        /\ CallFire(t, back)
        /\ UNCHANGED <<span, n_enq, n_fired, n_ready, tails>>
  BY DEF Release
<1>2. stt \in [Groups -> States]
  BY DEF Types, States
<1>3. \A k \in Groups : stt[k] = state[k] \/ (k < n_ready /\ stt[k] = "GONE")
  <2>1. Releasable(g) => g < n_ready
    <3>1. g \in Int /\ n_ready \in Nat /\ n_fired \in Nat /\ n_qsub \in Nat
      BY RingAssumption DEF Types, Groups
    <3>2. n_ready <= g => state[g] \in {"SUBMIT", "QUEUED", "PENDING"}
      BY <3>1 DEF Shape
    <3>3. QED
      BY <3>1, <3>2 DEF Releasable
  <2>2. QED
    BY <2>1 DEF Types
<1>4. r <= n_ready
  <2> SUFFICES ASSUME n_ready < r PROVE FALSE
    BY DEF Types
  <2>1. n_ready \in n_rel .. r - 1 /\ n_ready \in Groups
    BY RingAssumption DEF Types, Order, Groups
  <2>2. state[n_ready] \in {"SUBMIT", "QUEUED", "PENDING"}
    BY <2>1 DEF Types, Order, Shape
  <2>3. ~(n_ready < n_ready)
    BY DEF Types
  <2>4. QED
    BY <1>1, <1>3, <2>1, <2>2, <2>3
<1>5. claim(n_enq', n_rel', span', stt, fire_depth_boost)
  BY <1>1
<1>6. /\ n_enq' \in Nat /\ n_enq <= n_enq' /\ n_enq' <= MaxGroups
      /\ n_rel' \in Nat /\ n_rel <= n_rel' /\ n_rel' <= n_ready
      /\ span' \in [Groups -> Nat \ {0}] /\ span' = span
      /\ UNCHANGED <<n_fired, n_ready, fire_tail>>
  BY <1>1, <1>4 DEF Types, tails
<1> HIDE DEF stt
<1>7. QED
  BY <1>1, <1>2, <1>3, <1>5, <1>6, ClaimInd

LEMMA ReleaseCallInd ==
  ASSUME RingInd, OneCaller, NEW t \in Callers, ring_release(t) \/ DrainRelease(t)
  PROVE  RingInd'
<1> USE DEF RingInd
<1>1. /\ \E g \in Groups, back \in {"idle", "drain_top"} : Release(t, g, back)
      /\ arg' \in [Callers -> Nat] /\ upto' = upto
  <2>1. CASE ring_release(t)
    BY <2>1, RingAssumption DEF ring_release, Types, Groups, locals
  <2>2. CASE DrainRelease(t)
    <3>1. arg[t] \in Groups
      BY <2>2, RingAssumption DEF DrainRelease, Types, Calls, CallAt, Waits, Groups
    <3>2. QED
      BY <2>2, <3>1 DEF DrainRelease, Types
  <2>3. QED
    BY <2>1, <2>2
<1>2. PICK g \in Groups, back \in {"idle", "drain_top"} : Release(t, g, back)
  BY <1>1
<1>3. back \in Labels
  BY DEF Labels
<1>4. /\ Order' /\ Window' /\ Shape' /\ Fits' /\ Tails'
      /\ n_rel' \in Nat /\ n_qsub' \in Nat /\ state' \in [Groups -> States]
      /\ UNCHANGED <<span, n_enq, n_fired, n_ready>>
      /\ CallFire(t, back)
  BY <1>2, <1>3, ReleaseInd
<1>5. /\ pc' \in [Callers -> Labels] /\ ret' \in [Callers -> Labels]
      /\ pc'[t] = "fire" /\ ret'[t] = back
  BY <1>3, <1>4, CallFireTypes
<1>6. Types'
  BY <1>1, <1>4, <1>5 DEF Types
<1>7. CallAt(t)'
  BY <1>1, <1>4, <1>5 DEF Calls, CallAt, Waits, Firing, Needing
<1>8. QED
  BY <1>4, <1>6, <1>7 DEF OneCaller, Calls

-----------------------------------------------------------------------------
\* The steps that submit a group, notice its arrival or start it again.
LEMMA FireCommitInd ==
  ASSUME RingInd, OneCaller, NEW t \in Callers, FireCommit(t) PROVE RingInd'
<1> USE DEF RingInd
<1>1. /\ n_fired < n_qsub /\ n_fired \in Groups
      /\ ret[t] \in {"idle", "serial2", "need_claim", "need_late", "drain_top"}
  BY RingAssumption DEF FireCommit, Calls, CallAt, Firing, Types, Order, Groups
<1>2. /\ state' = [state EXCEPT ![n_fired] = "SUBMIT"] /\ n_fired' = n_fired + 1
      /\ fire_tail' = dlast(n_fired)
      /\ UNCHANGED <<span, n_enq, n_qsub, n_ready, n_rel, arg, upto>>
      /\ Goto(t, "fire") /\ pc[t] = "rung"
  BY DEF FireCommit, locals
<1>3. Order' /\ Window'
  BY <1>1, <1>2 DEF Types, Order, Window
<1>4. Shape'
  <2> SUFFICES ASSUME NEW g \in Groups
               PROVE  /\ g < n_ready => state'[g] \in {"READY", "GONE"}
                      /\ n_ready <= g /\ g < n_fired + 1 => state'[g] = "SUBMIT"
                      /\ n_fired + 1 <= g /\ g < n_qsub => state'[g] = "QUEUED"
                      /\ n_qsub <= g => state'[g] = "PENDING"
    BY <1>2 DEF Shape
  <2>1. g \in Int /\ n_fired \in Nat /\ n_ready \in Nat /\ n_qsub \in Nat
        /\ n_ready <= n_fired
    BY RingAssumption DEF Types, Order, Groups
  <2>2. state'[g] = IF g = n_fired THEN "SUBMIT" ELSE state[g]
    BY <1>2 DEF Types
  <2>3. QED
    BY <1>1, <2>1, <2>2 DEF Shape
<1>5. Fits'
  BY <1>2 DEF Fits
<1>6. Tails'
  <2>1. span[n_fired] \in 1 .. DpSlot /\ n_fired \in Nat
    BY <1>1, EngineAssumption DEF Fits, Types
  <2>2. QED
    BY <1>2, <2>1, LastInPool DEF Tails, in_pool, dlast
<1>7. /\ pc' \in [Callers -> Labels] /\ ret' \in [Callers -> Labels]
      /\ pc'[t] = "fire" /\ ret'[t] = ret[t]
  BY <1>2, GotoTypes DEF Labels
<1>8. Types'
  <2>1. state' \in [Groups -> States]
    BY <1>2 DEF Types, States
  <2>2. n_fired' \in Nat
    BY <1>2 DEF Types
  <2>3. QED
    BY <1>2, <1>7, <2>1, <2>2 DEF Types
<1>9. CallAt(t)'
  BY <1>1, <1>2, <1>7 DEF Calls, CallAt, Waits, Firing, Needing
<1>10. QED
  BY <1>3, <1>4, <1>5, <1>6, <1>8, <1>9 DEF OneCaller, Calls

LEMMA NeedTopInd ==
  ASSUME RingInd, OneCaller, NEW t \in Callers, NeedTop(t) PROVE RingInd'
<1> USE DEF RingInd
<1>1. PICK r \in n_ready .. n_fired :
        /\ n_ready' = r
        /\ state' = [g \in Groups |->
                       IF g \in n_ready .. r - 1 /\ state[g] = "SUBMIT" THEN "READY"
                       ELSE state[g]]
  BY DEF NeedTop, advance_ready
<1>2. /\ UNCHANGED <<span, n_enq, n_qsub, n_fired, n_rel, fire_tail>>
      /\ pc[t] = "need_top" /\ n_enq' = n_enq
      /\ \/ \E ready \in BOOLEAN : NeedReturns(t, ready)
         \/ CallFire(t, "need_claim") /\ UNCHANGED locals
  BY DEF NeedTop, tails
<1>3. r \in Nat /\ n_ready <= r /\ r <= n_fired
  BY DEF Types
<1>4. Order' /\ Window' /\ Fits' /\ Tails'
  BY <1>1, <1>2, <1>3 DEF Types, Order, Window, Fits, Tails, in_pool
<1>5. Shape'
  <2> SUFFICES ASSUME NEW g \in Groups
               PROVE  /\ g < r => state'[g] \in {"READY", "GONE"}
                      /\ r <= g /\ g < n_fired => state'[g] = "SUBMIT"
                      /\ n_fired <= g /\ g < n_qsub => state'[g] = "QUEUED"
                      /\ n_qsub <= g => state'[g] = "PENDING"
    BY <1>1, <1>2 DEF Shape
  <2>1. g \in Int /\ n_fired \in Nat /\ n_ready \in Nat /\ n_qsub \in Nat
        /\ n_fired <= n_qsub
    BY RingAssumption DEF Types, Order, Groups
  <2>2. g \in n_ready .. r - 1 <=> n_ready <= g /\ g < r
    BY <1>3, <2>1
  <2>3. state'[g] = IF g \in n_ready .. r - 1 /\ state[g] = "SUBMIT" THEN "READY"
                    ELSE state[g]
    BY <1>1
  <2>4. QED
    BY <1>3, <2>1, <2>2, <2>3 DEF Shape
<1>6. state' \in [Groups -> States]
  BY <1>1 DEF Types, States
<1>7. /\ pc' \in [Callers -> Labels] /\ ret' \in [Callers -> Labels]
      /\ arg' \in [Callers -> Nat] /\ upto' \in [Callers -> Groups \cup {NULL}]
      /\ CallAt(t)'
  <2>1. CASE \E ready \in BOOLEAN : NeedReturns(t, ready)
    BY <1>2, <2>1, ReturnInd DEF Needing
  <2>2. CASE CallFire(t, "need_claim") /\ UNCHANGED locals
    BY <1>2, <2>2, CallFireTypes
       DEF Types, Calls, CallAt, Waits, Firing, Needing, locals, Labels
  <2>3. QED
    BY <1>2, <2>1, <2>2
<1>8. Types'
  BY <1>1, <1>2, <1>3, <1>6, <1>7 DEF Types
<1>9. QED
  BY <1>4, <1>5, <1>7, <1>8 DEF OneCaller, Calls

LEMMA NeedRekickInd ==
  ASSUME RingInd, OneCaller, NEW t \in Callers, NeedRekick(t) PROVE RingInd'
<1> USE DEF RingInd
<1>1. /\ UNCHANGED <<state, span, cursors>> /\ n_enq' = n_enq
      /\ pc[t] \in Needing /\ state[arg[t]] = "SUBMIT"
  BY DEF NeedRekick, Late, CanRekick, Needing, cursors
<1>2. Order' /\ Window' /\ Shape' /\ Fits'
  BY <1>1 DEF cursors, Order, Window, Shape, Fits
<1>3. CASE /\ fire_tail' = dlast(arg[t])
           /\ Goto(t, "need_top") /\ UNCHANGED <<arg, upto>>
  <2>1. arg[t] \in Groups /\ arg[t] \in Nat
    BY <1>1, RingAssumption DEF Types, Calls, CallAt, Waits, Groups
  <2>2. arg[t] < n_qsub
    BY <1>1, <2>1 DEF Types, Shape
  <2>3. span[arg[t]] \in 1 .. DpSlot
    BY <2>1, <2>2, EngineAssumption DEF Fits, Types
  <2>4. Tails'
    BY <1>3, <2>1, <2>3, LastInPool DEF Tails, in_pool, dlast
  <2>5. Types' /\ CallAt(t)'
    BY <1>1, <1>3, GotoTypes
       DEF Types, Calls, CallAt, Waits, Firing, Needing, cursors, Labels
  <2>6. QED
    BY <1>2, <2>4, <2>5 DEF OneCaller, Calls
<1>4. CASE NeedReturns(t, FALSE) /\ UNCHANGED tails
  <2>1. Types' /\ CallAt(t)'
    BY <1>1, <1>4, ReturnInd DEF Types, cursors
  <2>2. Tails'
    BY <1>4 DEF Tails, tails, in_pool
  <2>3. QED
    BY <1>2, <2>1, <2>2 DEF OneCaller, Calls
<1>5. QED
  BY <1>3, <1>4 DEF NeedRekick

LEMMA StutterInd == ASSUME RingInd, UNCHANGED ringVars PROVE RingInd'
  BY DEF RingInd, ringVars, cursors, tails, locals, Types, Order, Window, Shape, Fits,
         Tails, in_pool, Calls, CallAt, Waits

-----------------------------------------------------------------------------
LEMMA RingInit == Init => RingInd
<1> SUFFICES ASSUME Init PROVE RingInd
  OBVIOUS
<1>1. Types
  BY RingAssumption DEF Init, Types, Groups, States, Labels, NULL
<1>2. Order /\ Window /\ Fits /\ Tails
  BY EngineAssumption, RingAssumption DEF Init, Order, Window, Fits, Tails, Groups
<1>3. Shape
  BY RingAssumption DEF Init, Shape, Groups
<1>4. Calls
  BY DEF Init, Calls, CallAt, Waits, Firing, Needing, NULL
<1>5. QED
  BY <1>1, <1>2, <1>3, <1>4 DEF RingInd

LEMMA RingStep == ASSUME OneCaller, RingInd, [Next]_vars PROVE RingInd'
<1>1. CASE UNCHANGED vars
  BY <1>1, StutterInd DEF vars
<1>2. CASE Engine
  BY <1>2, StutterInd DEF Engine
<1>3. ASSUME NEW t \in Callers, Call(t) PROVE RingInd'
  BY <1>3, EnqueueInd, ReleaseCallInd, ClaimAgainInd, EntryInd DEF Call
<1>4. ASSUME NEW t \in Callers, Step(t) PROVE RingInd'
  BY <1>4, FirePollInd, FireRingInd, FireCommitInd, SpinInd, NeedTopInd, ClaimAgainInd,
     NeedRekickInd, NeedGivesUpInd, DrainNextInd, ReleaseCallInd DEF Step
<1>5. QED
  BY <1>1, <1>2, <1>3, <1>4 DEF Next

\* With one caller, the ring keeps the invariants that ring_check_invariants tests,
\* for any number of slots, descriptors, groups and lost doorbells and for
\* deadlines of any length: the cursors stay in order, at most NSlots groups hold a
\* slot, and the tail of the doorbell chain is a descriptor of the pool.
THEOREM RingCorrect == ASSUME OneCaller PROVE Spec => []RingInvariants
<1>1. Init => RingInd
  BY RingInit
<1>2. RingInd /\ [Next]_vars => RingInd'
  BY RingStep
<1>3. RingInd => RingInvariants
  BY DEF RingInd, Order, Window, Tails, RingInvariants
<1>4. QED
  BY <1>1, <1>2, <1>3, PTL DEF Spec
-----------------------------------------------------------------------------
(***************************************************************************)
(* The ring and its engine together: the doorbells keep the laws, no       *)
(* descriptor in flight is rewritten and a delivered group stays readable, *)
(* for any number of slots, descriptors, groups and lost doorbells.  This  *)
(* is about one caller, too, and about deadlines that outlast the          *)
(* transfers: with shorter ones the re-kick breaks law L1.                 *)
(***************************************************************************)
Generous == OneCaller /\ ~ShortDeadline

\* A doorbell has been rung that is not in the books yet.
Rung == \E t \in Callers : pc[t] = "rung"

\* The last group whose doorbell has been rung.
Top == IF Rung THEN n_fired ELSE n_fired - 1

\* The groups whose descriptors are still in the pool, and those of them that
\* have been submitted.
Held == {g \in Groups : g < n_qsub /\ n_qsub <= g + NSlots}
Fired == {g \in Held : g <= Top}

\* What has become of a group: the engine has not come to it, or is through.
Pure(g) == \A d \in Descs(g) : ~done[d]
Delivered(g) == \A d \in Descs(g) : done[d]

\* Nothing of it is done and nothing hangs on it: not submitted, or its doorbell
\* was lost.
Untouched(g) == Pure(g) /\ nxt[dlast(g)] = NULL

\* Delivered, as is the group that was linked behind it.
Over(g) ==
  /\ Delivered(g)
  /\ \/ nxt[dlast(g)] = NULL
     \/ \E h \in Fired : g < h /\ Delivered(h) /\ nxt[dlast(g)] = dfirst(h)

Rested(g) == Over(g) \/ Untouched(g)

\* What claim has written and nobody changes: the inside of a chain.
Filled == \A g \in Held : \A d \in Descs(g) : src[d] = g /\ (d < dlast(g) => nxt[d] = d + 1)
Fresh == \A g \in Held : Top < g => Untouched(g)
Counted == \A g \in Held : g < n_ready => Delivered(g)

(***************************************************************************)
(* The line of groups that a running engine walks: it was started at the   *)
(* group o, y was the first group linked behind o, and from y on every     *)
(* group is linked behind the one before it, up to Top.                    *)
(***************************************************************************)
Line(o, y) == {o} \cup (y .. Top)
After(o, y, k) == IF k = o THEN y ELSE k + 1
Before(o, y, k) == IF k = y THEN o ELSE k - 1
Last(o, y) == IF y <= Top THEN Top ELSE o

Begun(o, y) ==
  o < y /\ o <= Top /\ y <= Top + 1 /\ y <= o + NSlots /\ head = dfirst(o)

\* The engine is in the group e of the line, at the descriptor cur.
At(o, y, e) ==
  /\ e \in Line(o, y) /\ n_ready <= e
  /\ cur \in Descs(e)
  /\ \A d \in Descs(e) : done[d] <=> d < cur

\* What is before e is delivered, what is behind it has to come.
Linked(o, y, e) ==
  \A k \in Line(o, y) : k \in Fired =>
    /\ nxt[dlast(k)] = IF After(o, y, k) <= Top THEN dfirst(After(o, y, k)) ELSE NULL
    /\ k < e => Delivered(k)
    /\ e < k => Pure(k)

Beside(o, y) == \A g \in Fired : g \notin Line(o, y) => Rested(g)

\* The tails are the end of the line and the descriptor before it, as far as
\* the line has one.
TailsKnown(o, y) ==
  LET k == Last(o, y)
  IN  /\ Rung => k = Top /\ (k # o => fire_tail = dlast(Before(o, y, k)))
      /\ ~Rung => /\ fire_tail = dlast(k)
                  /\ span[k] > 1 => fire_tail_pred = dlast(k) - 1
                  /\ span[k] = 1 /\ k # o => fire_tail_pred = dlast(Before(o, y, k))

Running(o, y, e) ==
  Begun(o, y) /\ At(o, y, e) /\ Linked(o, y, e) /\ Beside(o, y) /\ TailsKnown(o, y)

\* The engine walks once more over groups that are delivered already: the re-kick
\* was for a group behind one whose doorbell was lost.
Rerun(e) ==
  /\ \A g \in Fired : Rested(g)
  /\ n_ready \in Fired /\ Untouched(n_ready)
  /\ e \in Fired /\ n_ready <= e /\ Delivered(e) /\ cur \in Descs(e)
  /\ \E h \in Fired : n_ready <= h /\ Delivered(h) /\ fire_tail = dlast(h)
  /\ \A t \in Callers : pc[t] \notin Firing

EngineAt ==
  \/ st # "RUN" /\ \A g \in Fired : Rested(g)
  \/ st = "RUN" /\ \E o \in Nat, y \in Nat, e \in Nat : Running(o, y, e)
  \/ st = "RUN" /\ \E e \in Nat : Rerun(e)

\* The poll before a doorbell still holds when it is rung.
Polled ==
  \A t \in Callers : /\ pc[t] = "link" => st = "RUN" /\ slack2
                     /\ pc[t] = "start" => st # "RUN"

EngTypes ==
  /\ st \in {"IDLE", "RUN", "RETIRE"}
  /\ head \in Pool \cup {NULL}
  /\ cur \in Pool \cup {NULL}
  /\ nxt \in [Pool -> Pool \cup {NULL}]
  /\ done \in [Pool -> BOOLEAN]
  /\ src \in [Pool -> Groups \cup {NULL}]
  /\ single_shot = FALSE /\ law = 0

DescTypes ==
  /\ nxt \in [Pool -> Pool \cup {NULL}]
  /\ done \in [Pool -> BOOLEAN]
  /\ src \in [Pool -> Groups \cup {NULL}]

ChainInv == EngTypes /\ Filled /\ Fresh /\ Counted /\ EngineAt /\ Polled

-----------------------------------------------------------------------------
(***************************************************************************)
(* The places of the descriptors.                                          *)
(***************************************************************************)
\* Groups less than a ring apart have different slots.
LEMMA SlotsDiffer ==
  ASSUME NEW g \in Nat, NEW h \in Nat, g < h, h - g < NSlots
  PROVE  g % NSlots # h % NSlots
<1>1. PICK n \in Nat \ {0} : n = NSlots
  BY EngineAssumption
<1>2. g = n * (g \div n) + (g % n) /\ h = n * (h \div n) + (h % n)
      /\ g \div n \in Int /\ h \div n \in Int
  BY <1>1, SMT
<1>3. ASSUME NEW p \in Int, NEW q \in Int, NEW r \in Int, g = n * p + r, h = n * q + r PROVE FALSE
  <2>1. n * (q - p) = h - g
    BY <1>3, SMT
  <2>2. q - p > 0
    BY <2>1, SMT
  <2>3. n * (q - p) >= n
    BY <2>2, SMT
  <2> QED BY <1>1, <2>1, <2>3
<1>4. g % n \in Int
  BY <1>1, SMT
<1> QED BY <1>1, <1>2, <1>3, <1>4

\* So their descriptors are different ones.
LEMMA Apart ==
  ASSUME NEW g \in Nat, NEW h \in Nat, g # h, g - h < NSlots, h - g < NSlots,
         NEW m \in 1 .. DpSlot, NEW n \in 1 .. DpSlot
  PROVE  \A d \in dfirst(g) .. dfirst(g) + m - 1 : d \notin dfirst(h) .. dfirst(h) + n - 1
<1>1. g % NSlots # h % NSlots
  BY SlotsDiffer
<1>2. g % NSlots \in Nat /\ h % NSlots \in Nat
  BY EngineAssumption
<1>3. ASSUME NEW x \in Nat, NEW y \in Nat, x # y
      PROVE  \A d \in x * DpSlot .. x * DpSlot + m - 1 : d \notin y * DpSlot .. y * DpSlot + n - 1
  <2>0. PICK s \in Nat \ {0} : s = DpSlot
    BY EngineAssumption
  <2>1. x * s \in Nat /\ y * s \in Nat
    BY SMT
  <2>2. x * s + s <= y * s \/ y * s + s <= x * s
    <3>1. ASSUME NEW a \in Nat, NEW b \in Nat, a < b PROVE a * s + s <= b * s
      <4>1. PICK c \in Nat : b = a + 1 + c
        <5>1. b - a - 1 \in Nat /\ b = a + 1 + (b - a - 1)
          BY <3>1
        <5> QED BY <5>1
      <4>2. b * s = a * s + s + c * s /\ c * s \in Nat
        BY <4>1, SMT
      <4>3. a * s \in Nat
        BY SMT
      <4> QED BY <4>2, <4>3
    <3>2. x < y \/ y < x
      BY <1>3
    <3> QED BY <3>1, <3>2
  <2> QED BY <2>0, <2>1, <2>2
<1> QED BY <1>1, <1>2, <1>3 DEF dfirst

\* The descriptors of the groups held.
LEMMA HeldFacts ==
  ASSUME RingInd, NEW g \in Held
  PROVE  /\ g \in Nat /\ g \in Groups /\ g < n_qsub /\ n_qsub <= g + NSlots
         /\ span[g] \in 1 .. DpSlot /\ span[g] \in Nat
         /\ dfirst(g) \in Nat /\ dlast(g) \in Nat /\ dfirst(g) <= dlast(g)
         /\ dlast(g) = dfirst(g) + span[g] - 1
         /\ Descs(g) \subseteq Pool /\ dfirst(g) \in Descs(g) /\ dlast(g) \in Descs(g)
         /\ dfirst(g) # NULL
<1>1. g \in Nat /\ g \in Groups /\ g < n_qsub /\ n_qsub <= g + NSlots
  BY RingAssumption DEF Held, Groups
<1>2. span[g] \in 1 .. DpSlot
  BY <1>1, EngineAssumption DEF RingInd, Types, Fits
<1>3. dfirst(g) \in Nat
  <2>1. g % NSlots \in Nat
    BY <1>1, EngineAssumption
  <2>2. \A x \in Nat : x * DpSlot \in Nat
    BY EngineAssumption, SMT
  <2> QED BY <2>1, <2>2 DEF dfirst
<1>4. dlast(g) = dfirst(g) + span[g] - 1
  BY DEF dlast
<1>5. \A d \in Descs(g) : d \in Pool
  <2> SUFFICES ASSUME NEW d \in Descs(g) PROVE d \in Pool
    OBVIOUS
  <2>1. d - dfirst(g) + 1 \in 1 .. DpSlot /\ d = dfirst(g) + (d - dfirst(g) + 1) - 1
    BY <1>2, <1>3, <1>4, EngineAssumption DEF Descs
  <2> QED BY <1>1, <2>1, LastInPool
<1> QED BY <1>1, <1>2, <1>3, <1>4, <1>5, EngineAssumption DEF Descs, NULL

LEMMA HeldApart ==
  ASSUME RingInd, NEW g \in Held, NEW h \in Held, g # h, NEW d \in Descs(g)
  PROVE  d \notin Descs(h)
<1>1. /\ g \in Nat /\ h \in Nat /\ g - h < NSlots /\ h - g < NSlots
      /\ span[g] \in 1 .. DpSlot /\ span[h] \in 1 .. DpSlot
  <2>1. n_qsub \in Nat /\ NSlots \in Nat
    BY EngineAssumption DEF RingInd, Types
  <2> QED BY <2>1, HeldFacts
<1> QED BY <1>1, Apart DEF Descs, dlast

\* The groups from n_ready on are held.
LEMMA WindowHeld ==
  ASSUME RingInd, NEW g \in Int, n_ready <= g, g < n_qsub PROVE g \in Held
  BY RingAssumption, EngineAssumption DEF RingInd, Types, Order, Window, Held, Groups

LEMMA TopFacts ==
  ASSUME RingInd
  PROVE  /\ Top \in Int /\ Top < n_qsub /\ n_fired - 1 <= Top /\ Top <= n_fired
         /\ (Rung => Top = n_fired) /\ (~Rung => Top = n_fired - 1)
         /\ Fired \subseteq Held /\ n_qsub \in Nat /\ n_fired \in Nat /\ n_ready \in Nat
<1>1. n_fired \in Nat /\ n_qsub \in Nat /\ n_fired <= n_qsub /\ n_ready \in Nat
  BY DEF RingInd, Types, Order
<1>2. Rung => n_fired < n_qsub
  BY DEF Rung, RingInd, Calls, CallAt, Firing
<1> QED BY <1>1, <1>2 DEF Top, Fired

\* A step that moves nothing but the caller.
LEMMA QuietStep ==
  ASSUME ChainInv, UNCHANGED <<engVars, span, n_qsub, n_fired, n_ready, tails>>,
         Rung' <=> Rung, Polled',
         st = "RUN" /\ (\E e \in Nat : Rerun(e)) => \A t \in Callers : pc'[t] \notin Firing
  PROVE  ChainInv'
<1>1. /\ UNCHANGED <<st, head, cur, nxt, done, src, single_shot, law, lost, mem>>
      /\ UNCHANGED <<span, n_qsub, n_fired, n_ready, fire_tail, fire_tail_pred>>
  BY DEF engVars, tails
<1>2. Top' = Top
  BY <1>1 DEF Top
<1>3. Held' = Held /\ Fired' = Fired
  BY <1>1, <1>2 DEF Held, Fired
<1>4. \A g : Pure(g)' = Pure(g) /\ Delivered(g)' = Delivered(g) /\ Untouched(g)' = Untouched(g)
             /\ Descs(g)' = Descs(g) /\ dlast(g)' = dlast(g)
  BY <1>1 DEF Pure, Delivered, Untouched, Descs, dlast
<1>5. \A g : Rested(g)' = Rested(g)
  BY <1>1, <1>3, <1>4 DEF Rested, Over
<1>6. EngTypes' /\ Filled' /\ Fresh' /\ Counted'
  BY <1>1, <1>2, <1>3, <1>4 DEF ChainInv, EngTypes, Filled, Fresh, Counted
<1>7. ASSUME NEW o \in Nat, NEW y \in Nat, NEW e \in Nat, Running(o, y, e) PROVE Running(o, y, e)'
  <2>1. Line(o, y)' = Line(o, y) /\ Last(o, y)' = Last(o, y)
    BY <1>2 DEF Line, Last
  <2>2. Begun(o, y)' /\ At(o, y, e)'
    BY <1>1, <1>2, <1>4, <1>7, <2>1 DEF Running, Begun, At
  <2>3. Linked(o, y, e)'
    BY <1>1, <1>2, <1>3, <1>4, <1>7, <2>1 DEF Running, Linked, After
  <2>4. Beside(o, y)'
    BY <1>3, <1>5, <1>7, <2>1 DEF Running, Beside
  <2>5. TailsKnown(o, y)'
    BY <1>1, <1>2, <1>4, <1>7, <2>1 DEF Running, TailsKnown, Before
  <2> QED BY <2>2, <2>3, <2>4, <2>5 DEF Running
<1>8. ASSUME NEW e \in Nat, st = "RUN", Rerun(e) PROVE Rerun(e)'
  BY <1>1, <1>3, <1>4, <1>5, <1>8 DEF Rerun
<1>9. EngineAt'
  BY <1>1, <1>3, <1>5, <1>7, <1>8 DEF ChainInv, EngineAt
<1> QED BY <1>6, <1>9 DEF ChainInv

LEMMA OneRung ==
  ASSUME OneCaller, NEW t \in Callers
  PROVE  (Rung <=> pc[t] = "rung") /\ (Rung' <=> pc'[t] = "rung")
  BY DEF OneCaller, Rung

\* The one caller is at no doorbell, before the step and after it.
LEMMA QuietCaller ==
  ASSUME OneCaller, ChainInv, NEW t \in Callers, pc[t] \notin Firing, pc'[t] \notin Firing,
         UNCHANGED <<engVars, span, n_qsub, n_fired, n_ready, tails>>
  PROVE  ChainInv'
<1>1. \A s \in Callers : s = t
  BY DEF OneCaller
<1>2. ~Rung /\ ~Rung'
  BY OneRung DEF Firing
<1>3. Polled'
  BY <1>1 DEF Polled, Firing
<1> QED BY <1>1, <1>2, <1>3, QuietStep

LEMMA QuietCalls ==
  ASSUME OneCaller, RingInd, ChainInv, NEW t \in Callers,
         \/ SerialFireAgain(t) \/ NeedSpin(t) \/ Spun(t) \/ ring_need(t) \/ ring_drain_to(t)
         \/ NeedGivesUp(t) \/ DrainNext(t)
  PROVE  ChainInv'
<1>1. UNCHANGED <<engVars, span, n_qsub, n_fired, n_ready, tails>>
  BY DEF SerialFireAgain, NeedSpin, Spun, ring_need, ring_drain_to, NeedGivesUp, DrainNext, cursors
<1>2. pc[t] \notin Firing
  BY DEF SerialFireAgain, NeedSpin, Spun, ring_need, ring_drain_to, NeedGivesUp, DrainNext, Late, Firing
<1>3. pc'[t] \in {"fire", "spin", "need_top", "drain_top", "drain_rel", "idle"}
  <2>1. pc \in [Callers -> Labels]
    BY DEF RingInd, Types
  <2> QED BY <2>1 DEF SerialFireAgain, NeedSpin, Spun, ring_need, ring_drain_to, NeedGivesUp,
          DrainNext, NeedReturns, Leave, Goto, CallFire
<1> QED BY <1>1, <1>2, <1>3, QuietCaller DEF Firing

LEMMA FirePollChain ==
  ASSUME OneCaller, RingInd, ChainInv, NEW t \in Callers, FirePoll(t) PROVE ChainInv'
<1>1. UNCHANGED <<engVars, span, n_qsub, n_fired, n_ready, tails>> /\ pc[t] = "fire"
  BY DEF FirePoll, cursors
<1>2. /\ pc \in [Callers -> Labels] /\ ret[t] \in {"idle", "serial2", "need_claim", "need_late", "drain_top"}
  BY <1>1 DEF RingInd, Types, Calls, CallAt
<1>3. \/ pc'[t] = ret[t]
      \/ pc'[t] = "link" /\ DmPoll = "RUN" /\ slack2
      \/ pc'[t] = "start" /\ DmPoll = "IDLE"
  BY <1>2 DEF FirePoll, Goto
<1>4. CASE pc'[t] = ret[t]
  BY <1>1, <1>2, <1>4, QuietCaller DEF Firing
<1>5. \A s \in Callers : s = t
  BY DEF OneCaller
<1>6. CASE pc'[t] = "link" /\ DmPoll = "RUN" /\ slack2
  <2>1. st = "RUN"
    BY <1>6 DEF DmPoll
  <2>2. ~Rung /\ ~Rung'
    BY <1>1, <1>6, OneRung
  <2>3. slack2'
    BY <1>1, <1>6 DEF slack2, engVars, tails
  <2>4. Polled'
    BY <1>1, <1>5, <1>6, <2>1, <2>3 DEF Polled, engVars
  <2>5. ASSUME NEW e \in Nat, Rerun(e) PROVE FALSE
    <3>1. PICK h \in Fired : Delivered(h) /\ fire_tail = dlast(h)
      BY <2>5 DEF Rerun
    <3>2. h \in Held /\ dlast(h) \in Descs(h)
      BY TopFacts, HeldFacts
    <3> QED BY <1>6, <3>1, <3>2 DEF slack2, Delivered
  <2> QED BY <1>1, <2>2, <2>4, <2>5, QuietStep
<1>7. CASE pc'[t] = "start" /\ DmPoll = "IDLE"
  <2>1. st # "RUN"
    BY <1>7 DEF DmPoll
  <2>2. ~Rung /\ ~Rung'
    BY <1>1, <1>7, OneRung
  <2>4. Polled'
    BY <1>1, <1>5, <1>7, <2>1 DEF Polled, engVars
  <2> QED BY <1>1, <2>1, <2>2, <2>4, QuietStep
<1> QED BY <1>3, <1>4, <1>6, <1>7

-----------------------------------------------------------------------------
(***************************************************************************)
(* The engine.                                                             *)
(***************************************************************************)
LEMMA RetireChain ==
  ASSUME ChainInv, EngRetire, UNCHANGED ringVars PROVE ChainInv'
<1>1. /\ st = "RETIRE" /\ st' = "IDLE"
      /\ UNCHANGED <<head, cur, nxt, done, src, single_shot, law, lost, mem>>
      /\ UNCHANGED <<span, n_qsub, n_fired, n_ready, fire_tail, fire_tail_pred, pc>>
  BY DEF EngRetire, ringVars, tails, cursors
<1>2. Top' = Top
  BY <1>1 DEF Top, Rung
<1>3. Held' = Held /\ Fired' = Fired
  BY <1>1, <1>2 DEF Held, Fired
<1>4. \A g : Pure(g)' = Pure(g) /\ Delivered(g)' = Delivered(g) /\ Untouched(g)' = Untouched(g)
             /\ Descs(g)' = Descs(g) /\ dlast(g)' = dlast(g)
  BY <1>1 DEF Pure, Delivered, Untouched, Descs, dlast
<1>5. \A g : Rested(g)' = Rested(g)
  BY <1>1, <1>3, <1>4 DEF Rested, Over
<1>6. EngTypes' /\ Filled' /\ Fresh' /\ Counted'
  BY <1>1, <1>2, <1>3, <1>4 DEF ChainInv, EngTypes, Filled, Fresh, Counted
<1>7. EngineAt' /\ Polled'
  BY <1>1, <1>3, <1>5 DEF ChainInv, EngineAt, Polled
<1> QED BY <1>6, <1>7 DEF ChainInv

\* Everything between a submitted group and Top is submitted and held.
LEMMA FiredUp ==
  ASSUME RingInd, NEW g \in Fired, NEW h \in Int, g <= h, h <= Top PROVE h \in Fired
<1>1. g \in Nat /\ g <= Top /\ n_qsub <= g + NSlots /\ NSlots \in Nat /\ n_qsub \in Nat
  BY TopFacts, HeldFacts, EngineAssumption DEF Fired
<1>2. h < n_qsub /\ n_qsub <= MaxGroups
  <2>1. Top < n_qsub /\ n_qsub <= n_enq /\ n_enq <= MaxGroups /\ n_enq \in Nat /\ Top \in Int
    BY TopFacts DEF RingInd, Types, Order
  <2> QED BY <1>1, <2>1, RingAssumption
<1> QED BY <1>1, <1>2, RingAssumption DEF Fired, Held, Groups

LEMMA ReadyFired ==
  ASSUME RingInd, NEW h \in Int, n_ready <= h, h <= Top PROVE h \in Fired
<1>1. h < n_qsub
  BY TopFacts
<1> QED BY <1>1, WindowHeld DEF Fired

\* The members of the line, and the order in which they follow each other.
LEMMA LineFacts ==
  ASSUME RingInd, NEW o \in Nat, NEW y \in Nat, NEW e \in Nat, Begun(o, y), e \in Line(o, y)
  PROVE  /\ e <= Top
         /\ e < After(o, y, e) /\ After(o, y, e) \in Nat
         /\ After(o, y, e) <= Top => After(o, y, e) \in Line(o, y)
         /\ \A k \in Line(o, y) : k \in Nat /\ k <= Top /\ (e < k => After(o, y, e) <= k)
         /\ e <= Last(o, y) /\ Last(o, y) \in Line(o, y) /\ Last(o, y) \in Nat
         /\ After(o, y, e) > Top => e = Last(o, y)
         /\ After(o, y, Last(o, y)) = Top + 1 \/ Last(o, y) = o
  BY TopFacts DEF Begun, Line, After, Last

\* What the completion of a descriptor leaves as it was.
LEMMA CompleteEffect ==
  ASSUME RingInd, ChainInv, EngComplete, UNCHANGED ringVars, NEW e \in Held, cur \in Descs(e)
  PROVE  /\ Top' = Top /\ Held' = Held /\ Fired' = Fired /\ (Rung' <=> Rung)
         /\ UNCHANGED <<head, nxt, src, law, span, n_qsub, n_fired, n_ready, fire_tail, fire_tail_pred, pc>>
         /\ single_shot' = FALSE
         /\ \A g : Descs(g)' = Descs(g) /\ dlast(g)' = dlast(g)
         /\ done' \in [Pool -> BOOLEAN]
         /\ \A d \in Pool : done'[d] <=> done[d] \/ d = cur
         /\ \A g \in Held : Delivered(g) => Delivered(g)'
         /\ \A g \in Held : g # e => /\ Pure(g) => Pure(g)'
                                     /\ Untouched(g) => Untouched(g)'
         /\ \A g \in Fired : Over(g) => Over(g)'
<1>1. /\ UNCHANGED <<head, nxt, src, law, span, n_qsub, n_fired, n_ready, fire_tail, fire_tail_pred, pc>>
      /\ done' = [done EXCEPT ![cur] = TRUE] /\ single_shot' = FALSE
  BY DEF EngComplete, ringVars, cursors, tails, ChainInv, EngTypes
<1>2. Top' = Top /\ (Rung' <=> Rung)
  BY <1>1 DEF Top, Rung
<1>3. Held' = Held /\ Fired' = Fired
  BY <1>1, <1>2 DEF Held, Fired
<1>4. \A g : Descs(g)' = Descs(g) /\ dlast(g)' = dlast(g)
  BY <1>1 DEF Descs, dlast
<1>5. done' \in [Pool -> BOOLEAN] /\ \A d \in Pool : done'[d] <=> done[d] \/ d = cur
  BY <1>1 DEF ChainInv, EngTypes
<1>6. \A g \in Held : Delivered(g) => Delivered(g)'
  BY <1>4, <1>5, HeldFacts DEF Delivered
<1>7. ASSUME NEW g \in Held, g # e, Pure(g) PROVE Pure(g)'
  <2>1. cur \notin Descs(g)
    BY <1>7, HeldApart
  <2> QED BY <1>4, <1>5, <1>7, <2>1, HeldFacts DEF Pure
<1>8. ASSUME NEW g \in Fired, Over(g) PROVE Over(g)'
  <2>1. Fired \subseteq Held
    BY DEF Fired
  <2> QED BY <1>1, <1>3, <1>4, <1>6, <1>8, <2>1 DEF Over
<1> QED BY <1>1, <1>2, <1>3, <1>4, <1>5, <1>6, <1>7, <1>8 DEF Untouched

LEMMA CompleteRunning ==
  ASSUME RingInd, ChainInv, EngComplete, UNCHANGED ringVars,
         NEW o \in Nat, NEW y \in Nat, NEW e \in Nat, Running(o, y, e)
  PROVE  EngineAt'
<1> DEFINE n == After(o, y, e)
<1>1. Begun(o, y) /\ At(o, y, e) /\ Linked(o, y, e) /\ Beside(o, y) /\ TailsKnown(o, y)
  BY DEF Running
<1>2. e \in Line(o, y) /\ n_ready <= e /\ cur \in Descs(e) /\ \A d \in Descs(e) : done[d] <=> d < cur
  BY <1>1 DEF At
<1>3. e \in Fired /\ e \in Held
  BY <1>1, <1>2, LineFacts, ReadyFired DEF Fired
<1>4. /\ Top' = Top /\ Held' = Held /\ Fired' = Fired /\ (Rung' <=> Rung)
      /\ UNCHANGED <<head, nxt, span, n_ready, fire_tail, fire_tail_pred>>
      /\ \A g : Descs(g)' = Descs(g) /\ dlast(g)' = dlast(g)
      /\ \A d \in Pool : done'[d] <=> done[d] \/ d = cur
      /\ \A g \in Held : Delivered(g) => Delivered(g)'
      /\ \A g \in Held : g # e => /\ Pure(g) => Pure(g)'
                                  /\ Untouched(g) => Untouched(g)'
      /\ \A g \in Fired : Over(g) => Over(g)'
  BY <1>2, <1>3, CompleteEffect
<1>5. Fired \subseteq Held /\ n_ready \in Nat /\ Top \in Int
  BY TopFacts
<1>6. Line(o, y)' = Line(o, y) /\ Last(o, y)' = Last(o, y) /\ Begun(o, y)'
  BY <1>1, <1>4 DEF Line, Last, Begun
<1>7. Beside(o, y)'
  <2> SUFFICES ASSUME NEW g \in Fired, g \notin Line(o, y) PROVE Rested(g)'
    BY <1>4, <1>6 DEF Beside
  <2>1. Rested(g) /\ g # e /\ g \in Held
    BY <1>1, <1>2, <1>5 DEF Beside
  <2> QED BY <1>4, <2>1 DEF Rested
<1>8. TailsKnown(o, y)'
  BY <1>1, <1>4, <1>6 DEF TailsKnown, Before
<1>9. /\ e <= Top /\ e < n /\ n \in Nat
      /\ n <= Top => n \in Line(o, y)
      /\ \A k \in Line(o, y) : k \in Nat /\ k <= Top /\ (e < k => n <= k)
  BY <1>1, <1>2, LineFacts
<1>10. /\ dfirst(e) \in Nat /\ dlast(e) \in Nat /\ dfirst(e) <= dlast(e)
       /\ Descs(e) \subseteq Pool /\ Descs(e) = dfirst(e) .. dlast(e)
  BY <1>3, HeldFacts DEF Descs
<1>11. /\ cur < dlast(e) => nxt[cur] = cur + 1
       /\ nxt[dlast(e)] = IF n <= Top THEN dfirst(n) ELSE NULL
  BY <1>1, <1>2, <1>3 DEF Linked, ChainInv, Filled
<1>12. /\ st = "RUN" /\ single_shot = FALSE
       /\ (nxt[cur] # NULL => cur' = nxt[cur] /\ st' = "RUN")
       /\ (nxt[cur] = NULL => st' = "RETIRE")
  BY DEF EngComplete, ChainInv, EngTypes
<1>13. CASE cur < dlast(e)
  <2>1. cur' = cur + 1 /\ st' = "RUN"
    BY <1>2, <1>10, <1>11, <1>12, <1>13 DEF NULL
  <2>2. At(o, y, e)'
    <3>1. cur + 1 \in Descs(e)
      BY <1>2, <1>10, <1>13
    <3>2. ASSUME NEW d \in Descs(e) PROVE done'[d] <=> d < cur + 1
      BY <1>2, <1>4, <1>10
    <3> QED BY <1>2, <1>4, <1>6, <2>1, <3>1, <3>2 DEF At
  <2>3. Linked(o, y, e)'
    <3> SUFFICES ASSUME NEW k \in Line(o, y), k \in Fired
                 PROVE  /\ nxt[dlast(k)] = IF After(o, y, k) <= Top THEN dfirst(After(o, y, k)) ELSE NULL
                        /\ k < e => Delivered(k)'
                        /\ e < k => Pure(k)'
      BY <1>4, <1>6 DEF Linked, After
    <3>1. k \in Held /\ k \in Nat
      BY <1>5, <1>9
    <3> QED BY <1>1, <1>4, <3>1 DEF Linked
  <2> QED BY <1>6, <1>7, <1>8, <2>1, <2>2, <2>3 DEF EngineAt, Running
<1>14. CASE cur = dlast(e)
  <2>1. Delivered(e)'
    <3>1. \A d \in Descs(e) : done'[d]
      BY <1>2, <1>4, <1>10, <1>14
    <3> QED BY <1>4, <3>1 DEF Delivered
  <2>2. CASE n <= Top
    <3>1. n \in Line(o, y) /\ n \in Fired /\ n \in Held /\ n_ready <= n /\ n # e
      BY <1>2, <1>3, <1>5, <1>9, <2>2, FiredUp
    <3>2. cur' = dfirst(n) /\ st' = "RUN"
      BY <1>11, <1>12, <1>14, <2>2, <3>1, HeldFacts
    <3>3. Pure(n)'
      BY <1>1, <1>4, <1>9, <3>1 DEF Linked
    <3>4. At(o, y, n)'
      <4>1. dfirst(n) \in Descs(n) /\ dfirst(n) \in Nat
        BY <3>1, HeldFacts
      <4>2. \A d \in Descs(n) : ~done'[d] /\ ~(d < dfirst(n))
        BY <1>4, <3>3, <4>1 DEF Pure, Descs
      <4> QED BY <1>4, <1>6, <3>1, <3>2, <4>1, <4>2 DEF At
    <3>5. Linked(o, y, n)'
      <4> SUFFICES ASSUME NEW k \in Line(o, y), k \in Fired
                   PROVE  /\ nxt[dlast(k)] = IF After(o, y, k) <= Top THEN dfirst(After(o, y, k)) ELSE NULL
                          /\ k < n => Delivered(k)'
                          /\ n < k => Pure(k)'
        BY <1>4, <1>6 DEF Linked, After
      <4>1. k \in Held /\ k \in Nat /\ (e < k => n <= k)
        BY <1>5, <1>9
      <4>2. CASE k < e
        BY <1>1, <1>4, <1>9, <4>1, <4>2 DEF Linked
      <4>3. CASE k = e
        BY <1>1, <1>9, <2>1, <4>1, <4>3 DEF Linked
      <4>4. CASE e < k
        BY <1>1, <1>4, <1>9, <4>1, <4>4 DEF Linked
      <4> QED BY <4>1, <4>2, <4>3, <4>4
    <3> HIDE DEF n
    <3> QED BY <1>6, <1>7, <1>8, <1>9, <3>2, <3>4, <3>5 DEF EngineAt, Running
  <2>3. CASE ~(n <= Top)
    <3>1. st' = "RETIRE" /\ nxt[dlast(e)] = NULL
      BY <1>11, <1>12, <1>14, <2>3
    <3>2. ASSUME NEW k \in Fired, k \in Line(o, y) PROVE Over(k)'
      <4>1. k \in Nat /\ k <= e /\ k \in Held
        <5> HIDE DEF n
        <5>1. k \in Nat /\ k <= Top /\ (e < k => n <= k) /\ n \in Nat
          BY <1>9, <3>2
        <5> QED BY <1>5, <2>3, <5>1
      <4>2. CASE k = e
        BY <1>4, <2>1, <3>1, <4>2 DEF Over
      <4>3. CASE k < e
        <5> DEFINE h == After(o, y, k)
        <5>1. k < h /\ h <= e /\ h \in Nat /\ h \in Line(o, y) /\ h <= Top
          <6>1. /\ k < h /\ h \in Nat /\ (h <= Top => h \in Line(o, y))
                /\ \A j \in Line(o, y) : k < j => h <= j
            BY <1>1, <3>2, <4>1, LineFacts
          <6> HIDE DEF h
          <6>2. h <= e
            BY <1>2, <4>3, <6>1
          <6> QED BY <1>5, <1>9, <6>1, <6>2
        <5>2. h \in Fired /\ h \in Held
          BY <1>5, <4>1, <5>1, FiredUp
        <5>3. Delivered(h)'
          <6>1. CASE h = e
            BY <2>1, <6>1
          <6>2. CASE h < e
            BY <1>1, <1>4, <5>1, <5>2, <6>2 DEF Linked
          <6> QED BY <5>1, <6>1, <6>2
        <5>4. Delivered(k)' /\ nxt[dlast(k)] = dfirst(h)
          BY <1>1, <1>4, <3>2, <4>1, <4>3, <5>1 DEF Linked
        <5> HIDE DEF h
        <5> QED BY <1>4, <5>1, <5>2, <5>3, <5>4 DEF Over
      <4> QED BY <4>1, <4>2, <4>3
    <3>3. \A g \in Fired' : Rested(g)'
      BY <1>4, <1>6, <1>7, <3>2 DEF Beside, Rested
    <3> QED BY <3>1, <3>3 DEF EngineAt
  <2> QED BY <2>2, <2>3
<1> QED BY <1>2, <1>10, <1>13, <1>14

LEMMA CompleteRerun ==
  ASSUME RingInd, ChainInv, EngComplete, UNCHANGED ringVars, NEW e \in Nat, Rerun(e)
  PROVE  EngineAt'
<1>1. /\ e \in Fired /\ n_ready <= e /\ Delivered(e) /\ cur \in Descs(e)
      /\ \A g \in Fired : Rested(g)
      /\ n_ready \in Fired /\ Untouched(n_ready)
  BY DEF Rerun
<1>2. Fired \subseteq Held /\ n_ready \in Nat /\ e \in Held
  BY <1>1, TopFacts
<1>3. /\ Fired' = Fired /\ UNCHANGED <<nxt, n_ready, fire_tail, pc>>
      /\ \A g : Descs(g)' = Descs(g) /\ dlast(g)' = dlast(g)
      /\ done' \in [Pool -> BOOLEAN]
      /\ \A d \in Pool : done'[d] <=> done[d] \/ d = cur
  BY <1>1, <1>2, CompleteEffect
<1>4. done' = done
  <2>1. cur \in Pool /\ done[cur] /\ done \in [Pool -> BOOLEAN]
    BY <1>1, <1>2, HeldFacts DEF Delivered, ChainInv, EngTypes
  <2> QED BY <1>3, <2>1
<1>5. \A g : Pure(g)' = Pure(g) /\ Delivered(g)' = Delivered(g) /\ Untouched(g)' = Untouched(g)
  BY <1>3, <1>4 DEF Pure, Delivered, Untouched
<1>6. \A g : Rested(g)' = Rested(g)
  BY <1>3, <1>5 DEF Rested, Over
<1>7. /\ st = "RUN" /\ single_shot = FALSE
      /\ (nxt[cur] # NULL => cur' = nxt[cur] /\ st' = "RUN")
      /\ (nxt[cur] = NULL => st' = "RETIRE")
  BY DEF EngComplete, ChainInv, EngTypes
<1>8. /\ dfirst(e) \in Nat /\ dlast(e) \in Nat /\ dlast(e) \in Descs(e)
      /\ Descs(e) = dfirst(e) .. dlast(e)
  BY <1>2, HeldFacts DEF Descs
<1>9. ASSUME NEW h \in Nat, h \in Fired, n_ready <= h, Delivered(h), cur' \in Descs(h), st' = "RUN"
      PROVE  EngineAt'
  BY <1>1, <1>3, <1>5, <1>6, <1>9 DEF EngineAt, Rerun
<1>10. CASE cur < dlast(e)
  <2>1. nxt[cur] = cur + 1
    BY <1>1, <1>2, <1>10 DEF ChainInv, Filled
  <2>2. cur + 1 \in Descs(e) /\ cur + 1 # NULL
    BY <1>1, <1>8, <1>10 DEF NULL
  <2> QED BY <1>1, <1>7, <1>9, <2>1, <2>2
<1>11. CASE cur = dlast(e) /\ nxt[cur] = NULL
  BY <1>1, <1>3, <1>6, <1>7, <1>11 DEF EngineAt
<1>12. CASE cur = dlast(e) /\ nxt[cur] # NULL
  <2>1. Over(e)
    BY <1>1, <1>8 DEF Rested, Untouched, Pure, Delivered
  <2>2. PICK h \in Fired : e < h /\ Delivered(h) /\ nxt[dlast(e)] = dfirst(h)
    BY <1>12, <2>1 DEF Over
  <2>3. h \in Nat /\ dfirst(h) \in Descs(h) /\ n_ready <= h
    BY <1>1, <1>2, <2>2, HeldFacts
  <2> QED BY <1>7, <1>9, <1>12, <2>2, <2>3
<1> QED BY <1>1, <1>8, <1>10, <1>11, <1>12

LEMMA EngineChain ==
  ASSUME OneCaller, RingInd, ChainInv, Engine PROVE ChainInv'
<1>1. CASE EngRetire
  BY <1>1, RetireChain DEF Engine
<1>2. CASE EngComplete
  <2>1. EngComplete /\ UNCHANGED ringVars /\ st = "RUN"
    BY <1>2 DEF Engine, EngComplete
  <2>2. PICK e \in Fired : cur \in Descs(e)
    <3>1. CASE \E o \in Nat, y \in Nat, e \in Nat : Running(o, y, e)
      BY <3>1, LineFacts, ReadyFired DEF Running, At
    <3>2. CASE \E e \in Nat : Rerun(e)
      BY <3>2 DEF Rerun
    <3> QED BY <2>1, <3>1, <3>2 DEF ChainInv, EngineAt
  <2>3. e \in Held /\ e <= Top /\ e \in Nat /\ Top \in Int /\ cur \in Pool
    BY <2>2, TopFacts, HeldFacts DEF Fired
  <2>4. /\ Top' = Top /\ Held' = Held
        /\ UNCHANGED <<head, nxt, src, law, n_ready, pc>>
        /\ single_shot' = FALSE
        /\ \A g : Descs(g)' = Descs(g) /\ dlast(g)' = dlast(g)
        /\ done' \in [Pool -> BOOLEAN]
        /\ \A g \in Held : Delivered(g) => Delivered(g)'
        /\ \A g \in Held : g # e => (Untouched(g) => Untouched(g)')
    BY <2>1, <2>2, <2>3, CompleteEffect
  <2>5. EngTypes'
    BY <2>1, <2>3, <2>4 DEF ChainInv, EngTypes, EngComplete
  <2>6. Filled' /\ Counted'
    BY <2>4 DEF ChainInv, Filled, Counted
  <2>7. Fresh'
    <3>1. ASSUME NEW g \in Held, Top < g PROVE Untouched(g)'
      BY <2>3, <2>4, <3>1 DEF ChainInv, Fresh
    <3> QED BY <2>4, <3>1 DEF Fresh
  <2>8. Polled'
    <3>1. \A t \in Callers : pc[t] \notin {"link", "start"}
      BY DEF Engine, ClockRuns, OneCaller
    <3> QED BY <2>4, <3>1 DEF Polled
  <2>9. EngineAt'
    BY <2>1, CompleteRunning, CompleteRerun DEF ChainInv, EngineAt
  <2> QED BY <2>5, <2>6, <2>7, <2>8, <2>9 DEF ChainInv
<1> QED BY <1>1, <1>2 DEF Engine

-----------------------------------------------------------------------------
(***************************************************************************)
(* The steps of fire and of the wait loop.                                 *)
(***************************************************************************)
LEMMA CommitChain ==
  ASSUME OneCaller, RingInd, ChainInv, NEW t \in Callers, FireCommit(t) PROVE ChainInv'
<1>1. /\ UNCHANGED <<st, head, cur, nxt, done, src, single_shot, law, span, n_qsub, n_ready>>
      /\ n_fired' = n_fired + 1 /\ pc[t] = "rung"
      /\ fire_tail_pred' = (IF span[n_fired] > 1 THEN dlast(n_fired) - 1 ELSE fire_tail)
      /\ fire_tail' = dlast(n_fired)
  BY DEF FireCommit, engVars
<1>2. Rung /\ ~Rung' /\ pc'[t] = "fire"
  <2>1. pc'[t] = "fire"
    BY DEF FireCommit, Goto, RingInd, Types
  <2> QED BY <1>1, <2>1, OneRung
<1>3. n_fired \in Nat /\ Top = n_fired /\ Top' = Top
  BY <1>1, <1>2, TopFacts DEF Top
<1>4. Held' = Held /\ Fired' = Fired
  BY <1>1, <1>3 DEF Held, Fired
<1>5. \A g : Pure(g)' = Pure(g) /\ Delivered(g)' = Delivered(g) /\ Untouched(g)' = Untouched(g)
             /\ Descs(g)' = Descs(g) /\ dlast(g)' = dlast(g)
  BY <1>1 DEF Pure, Delivered, Untouched, Descs, dlast
<1>6. \A g : Rested(g)' = Rested(g)
  BY <1>1, <1>4, <1>5 DEF Rested, Over
<1>7. EngTypes' /\ Filled' /\ Fresh' /\ Counted'
  BY <1>1, <1>3, <1>4, <1>5 DEF ChainInv, EngTypes, Filled, Fresh, Counted
<1>8. Polled'
  BY <1>2 DEF Polled, OneCaller
<1>9. ASSUME NEW o \in Nat, NEW y \in Nat, NEW e \in Nat, Running(o, y, e) PROVE Running(o, y, e)'
  <2>1. Line(o, y)' = Line(o, y) /\ Last(o, y)' = Last(o, y)
    BY <1>3 DEF Line, Last
  <2>2. Begun(o, y)' /\ At(o, y, e)'
    BY <1>1, <1>3, <1>5, <1>9, <2>1 DEF Running, Begun, At
  <2>3. Linked(o, y, e)'
    BY <1>1, <1>3, <1>4, <1>5, <1>9, <2>1 DEF Running, Linked, After
  <2>4. Beside(o, y)'
    BY <1>4, <1>6, <1>9, <2>1 DEF Running, Beside
  <2>5. TailsKnown(o, y)'
    <3>1. /\ Last(o, y) = n_fired
          /\ Last(o, y) # o => fire_tail = dlast(Before(o, y, Last(o, y)))
      BY <1>2, <1>3, <1>9 DEF Running, TailsKnown
    <3> QED BY <1>1, <1>2, <1>5, <2>1, <3>1 DEF TailsKnown, Before
  <2> QED BY <2>2, <2>3, <2>4, <2>5 DEF Running
<1>10. ASSUME NEW e \in Nat, Rerun(e) PROVE FALSE
  BY <1>1, <1>10 DEF Rerun, Firing
<1>11. EngineAt'
  BY <1>1, <1>4, <1>6, <1>9, <1>10 DEF ChainInv, EngineAt
<1> QED BY <1>7, <1>8, <1>11 DEF ChainInv

\* The groups that advance_ready counts are not the one the engine is at.
LEMMA NeedTopChain ==
  ASSUME OneCaller, RingInd, ChainInv, NEW t \in Callers, NeedTop(t) PROVE ChainInv'
<1>1. PICK r \in n_ready .. n_fired :
        /\ \A k \in n_ready .. r - 1 : Arrived(k)
        /\ r < n_fired => ~Arrived(r)
        /\ n_ready' = r
  BY DEF NeedTop, advance_ready
<1>2. /\ UNCHANGED <<st, head, cur, nxt, done, src, single_shot, law, span, n_qsub, n_fired, fire_tail, fire_tail_pred>>
      /\ pc[t] = "need_top"
  BY DEF NeedTop, engVars, tails
<1>3. pc'[t] \in {"idle", "drain_rel", "fire"}
  BY DEF NeedTop, NeedReturns, Leave, Goto, CallFire, RingInd, Types
<1>4. ~Rung /\ ~Rung' /\ Top' = Top /\ Top = n_fired - 1
  <2>1. ~Rung /\ ~Rung'
    BY <1>2, <1>3, OneRung
  <2> QED BY <1>2, <2>1 DEF Top
<1>5. Held' = Held /\ Fired' = Fired
  BY <1>2, <1>4 DEF Held, Fired
<1>6. \A g : Pure(g)' = Pure(g) /\ Delivered(g)' = Delivered(g) /\ Untouched(g)' = Untouched(g)
             /\ Descs(g)' = Descs(g) /\ dlast(g)' = dlast(g)
  BY <1>2 DEF Pure, Delivered, Untouched, Descs, dlast
<1>7. \A g : Rested(g)' = Rested(g)
  BY <1>2, <1>5, <1>6 DEF Rested, Over
<1>8. r \in Nat /\ n_ready \in Nat /\ n_fired \in Nat /\ n_ready <= r /\ r <= n_fired /\ n_fired <= n_qsub /\ n_qsub \in Nat
  BY DEF RingInd, Types, Order
<1>9. ASSUME NEW g \in Held, n_ready <= g, g < r PROVE Delivered(g)
  <2>1. g \in Nat /\ g \in Groups
    BY HeldFacts
  <2>2. Arrived(g) /\ state[g] = "SUBMIT"
    BY <1>1, <1>8, <1>9, <2>1 DEF RingInd, Shape
  <2> QED BY <2>2 DEF Arrived, Delivered
<1>10. EngTypes' /\ Filled' /\ Fresh' /\ Polled'
  BY <1>2, <1>3, <1>4, <1>5, <1>6 DEF ChainInv, EngTypes, Filled, Fresh, Polled, OneCaller
<1>11. Counted'
  <2>1. ASSUME NEW g \in Held, g < r PROVE Delivered(g)
    <3>1. g \in Nat
      BY HeldFacts
    <3> QED BY <1>8, <1>9, <2>1, <3>1 DEF ChainInv, Counted
  <2> QED BY <1>1, <1>5, <1>6, <2>1 DEF Counted
<1>12. ASSUME NEW g \in Nat, n_ready <= g, g <= Top, ~Delivered(g) PROVE r <= g
  <2>1. g \in Held
    BY <1>12, ReadyFired DEF Fired
  <2> QED BY <1>8, <1>9, <1>12, <2>1
<1>13. ASSUME NEW o \in Nat, NEW y \in Nat, NEW e \in Nat, Running(o, y, e) PROVE Running(o, y, e)'
  <2>1. Line(o, y)' = Line(o, y) /\ Last(o, y)' = Last(o, y)
    BY <1>4 DEF Line, Last
  <2>2. r <= e
    <3>1. e <= Top /\ n_ready <= e /\ cur \in Descs(e) /\ ~(cur < cur) /\ (done[cur] <=> cur < cur)
      <4>1. /\ Begun(o, y) /\ e \in Line(o, y) /\ n_ready <= e /\ cur \in Descs(e)
            /\ \A d \in Descs(e) : done[d] <=> d < cur
        BY <1>13 DEF Running, At
      <4>2. e \in Fired
        BY <4>1, LineFacts, ReadyFired
      <4>3. cur \in Int
        BY <4>1, <4>2, TopFacts, HeldFacts DEF Pool
      <4> QED BY <4>1, <4>3, LineFacts
    <3> QED BY <1>12, <3>1 DEF Delivered
  <2>3. Begun(o, y)' /\ At(o, y, e)'
    BY <1>1, <1>2, <1>4, <1>6, <1>13, <2>1, <2>2 DEF Running, Begun, At
  <2>4. Linked(o, y, e)'
    BY <1>2, <1>4, <1>5, <1>6, <1>13, <2>1 DEF Running, Linked, After
  <2>5. Beside(o, y)'
    BY <1>5, <1>7, <1>13, <2>1 DEF Running, Beside
  <2>6. TailsKnown(o, y)'
    BY <1>2, <1>4, <1>6, <1>13, <2>1 DEF Running, TailsKnown, Before
  <2> QED BY <2>3, <2>4, <2>5, <2>6 DEF Running
<1>14. ASSUME NEW e \in Nat, Rerun(e) PROVE Rerun(e)'
  <2>1. n_ready \in Fired /\ Untouched(n_ready)
    BY <1>14 DEF Rerun
  <2>2. n_ready \in Held /\ n_ready <= Top /\ dfirst(n_ready) \in Descs(n_ready)
    BY <2>1, HeldFacts DEF Fired
  <2>3. ~Delivered(n_ready)
    BY <2>1, <2>2 DEF Untouched, Pure, Delivered
  <2>4. r = n_ready
    BY <1>8, <1>12, <2>2, <2>3
  <2> QED BY <1>1, <1>2, <1>3, <1>5, <1>6, <1>7, <1>14, <2>4 DEF Rerun, Firing, OneCaller
<1>15. EngineAt'
  BY <1>2, <1>5, <1>7, <1>13, <1>14 DEF ChainInv, EngineAt
<1> QED BY <1>10, <1>11, <1>15 DEF ChainInv

-----------------------------------------------------------------------------
(***************************************************************************)
(* The steps that claim groups.                                            *)
(***************************************************************************)
\* claim writes the descriptors of the groups it takes, and no others that are
\* still held.
LEMMA ClaimDescs ==
  ASSUME RingInd, RingInd', DescTypes, NEW stt, NEW boost,
         claim(n_enq', n_rel', span', stt, boost), n_qsub <= n_qsub',
         \A g \in Groups : g < n_qsub => span'[g] = span[g], n_ready' = n_ready
  PROVE  /\ UNCHANGED <<st, head, cur, single_shot, law>>
         /\ nxt' \in [Pool -> Pool \cup {NULL}] /\ done' \in [Pool -> BOOLEAN]
         /\ src' \in [Pool -> Groups \cup {NULL}]
         /\ \A g \in Held' : g < n_qsub =>
              /\ g \in Held /\ Descs(g)' = Descs(g) /\ dlast(g)' = dlast(g)
              /\ \A d \in Descs(g) : nxt'[d] = nxt[d] /\ done'[d] = done[d] /\ src'[d] = src[d]
         /\ \A g \in Held' : n_qsub <= g =>
              dlast(g)' \in Descs(g)' /\ \A d \in Descs(g)' : /\ ~done'[d] /\ src'[d] = g
                                   /\ nxt'[d] = IF d = dlast(g)' THEN NULL ELSE d + 1
         /\ \A g \in Int : n_ready <= g /\ g < n_qsub => g \in Held'
<1> DEFINE q == n_qsub'
           new == n_qsub .. q - 1
           In(g) == dfirst(g) .. dfirst(g) + span'[g] - 1
           fill == {d \in Pool : \E g \in new : d \in In(g)}
           owner(d) == CHOOSE g \in new : d \in In(g)
           last(d) == d = dfirst(owner(d)) + span'[owner(d)] - 1
<1>1. /\ UNCHANGED <<st, head, cur, single_shot, law>>
      /\ nxt' = [d \in Pool |-> IF d \notin fill THEN nxt[d] ELSE IF last(d) THEN NULL ELSE d + 1]
      /\ done' = [d \in Pool |-> d \notin fill /\ done[d]]
      /\ src' = [d \in Pool |-> IF d \in fill THEN owner(d) ELSE src[d]]
  BY DEF claim
<1>2. /\ q \in Nat /\ n_qsub \in Nat /\ n_ready \in Nat /\ n_rel' \in Nat /\ n_rel' <= n_ready
      /\ n_ready <= n_qsub /\ n_qsub <= q /\ q <= MaxGroups /\ q - n_rel' <= NSlots
      /\ NSlots \in Nat /\ DpSlot \in Nat
  <2>1. /\ n_enq' \in Nat /\ n_qsub' \in Nat /\ n_rel' \in Nat
        /\ n_qsub' <= n_enq' /\ n_enq' <= MaxGroups /\ n_rel' <= n_ready' /\ n_qsub' - n_rel' <= NSlots
    BY DEF RingInd, Types, Order, Window
  <2>2. n_qsub \in Nat /\ n_ready \in Nat /\ n_ready <= n_fired /\ n_fired <= n_qsub /\ n_fired \in Nat
    BY DEF RingInd, Types, Order
  <2>3. NSlots \in Nat /\ DpSlot \in Nat /\ MaxGroups \in Nat
    BY RingAssumption, EngineAssumption
  <2>4. q <= MaxGroups /\ n_ready <= n_qsub
    BY <2>1, <2>2, <2>3
  <2> QED BY <2>1, <2>2, <2>3, <2>4
<1>2a. \A k \in Int : n_ready <= k /\ k < q => k \in Nat /\ q <= k + NSlots
  <2> SUFFICES ASSUME NEW k \in Int, n_ready <= k PROVE k \in Nat /\ q <= k + NSlots
    OBVIOUS
  <2> DEFINE r == n_rel'
  <2>1. q \in Nat /\ r \in Nat /\ n_ready \in Nat /\ r <= n_ready /\ q - r <= NSlots /\ NSlots \in Nat
    BY <1>2
  <2> HIDE DEF q, r
  <2> QED BY <2>1
<1>2b. \A k \in new : k \in Nat /\ k < q /\ q <= k + NSlots /\ n_qsub <= k
  <2> SUFFICES ASSUME NEW k \in new PROVE k \in Nat /\ k < q /\ q <= k + NSlots /\ n_qsub <= k
    OBVIOUS
  <2>1. k \in Int /\ n_qsub <= k /\ k < q /\ n_ready <= k
    <3>1. q \in Nat /\ n_qsub \in Nat /\ n_ready \in Nat /\ n_ready <= n_qsub
      BY <1>2
    <3> HIDE DEF q
    <3> QED BY <3>1
  <2> QED BY <1>2a, <2>1
<1>3. \A g \in Nat : g < q => g \in Groups /\ span'[g] \in 1 .. DpSlot
  BY <1>2, RingAssumption DEF Groups, RingInd, Types, Fits
<1>4. ASSUME NEW g \in Nat, NEW k \in new, g < q, g # k, q <= g + NSlots, NEW d \in In(g)
      PROVE  d \notin In(k)
  <2>1. k \in Nat /\ k < q /\ q <= k + NSlots
    BY <1>2b
  <2>2. g - k < NSlots /\ k - g < NSlots
    BY <1>2, <1>4, <2>1
  <2> HIDE DEF new, q
  <2> QED BY <1>3, <1>4, <2>1, <2>2, Apart
<1>5. ASSUME NEW g \in new, NEW d \in In(g) PROVE d \in fill /\ owner(d) = g
  <2>1. g \in Nat /\ g < q /\ q <= g + NSlots
    BY <1>2b
  <2>2. d \in Pool
    <3>1. d - dfirst(g) + 1 \in 1 .. DpSlot /\ d = dfirst(g) + (d - dfirst(g) + 1) - 1
      <4>1. dfirst(g) \in Int
        <5>1. g % NSlots \in Nat
          BY <2>1, EngineAssumption
        <5>2. \A x \in Nat : x * DpSlot \in Nat
          BY EngineAssumption, SMT
        <5> QED BY <5>1, <5>2 DEF dfirst
      <4>2. span'[g] \in 1 .. DpSlot
        BY <1>3, <2>1
      <4> QED BY <1>2, <4>1, <4>2
    <3> QED BY <2>1, <3>1, LastInPool
  <2>3. \A k \in new : d \in In(k) => k = g
    BY <1>4, <2>1
  <2> HIDE DEF new, In
  <2> QED BY <2>2, <2>3
<1>6. ASSUME NEW d \in fill PROVE owner(d) \in new /\ d \in In(owner(d))
  <2>1. \E g \in new : d \in In(g)
    OBVIOUS
  <2> HIDE DEF new, In
  <2> QED BY <2>1
<1>7. new \subseteq Groups /\ new \subseteq Nat
  BY <1>2b, <1>3
<1>8. nxt' \in [Pool -> Pool \cup {NULL}]
  <2>1. ASSUME NEW d \in fill, ~last(d) PROVE d + 1 \in Pool
    <3> DEFINE k == owner(d)
    <3>1. k \in new /\ d \in In(k) /\ d # dfirst(k) + span'[k] - 1
      BY <1>6, <2>1
    <3> HIDE DEF k
    <3>2. k \in Nat /\ k < q
      BY <1>2b, <3>1
    <3>3. span'[k] \in 1 .. DpSlot
      BY <1>3, <3>2
    <3>4. dfirst(k) + span'[k] - 1 \in Pool
      BY <3>2, <3>3, LastInPool
    <3>5. d \in Pool
      OBVIOUS
    <3>6. d <= dfirst(k) + span'[k] - 1
      BY <3>1
    <3> QED
      <4> DEFINE z == dfirst(k) + span'[k] - 1
      <4>1. d \in 0 .. NDesc - 1 /\ z \in 0 .. NDesc - 1 /\ d <= z /\ d # z
        BY <3>1, <3>4, <3>5, <3>6 DEF Pool
      <4> HIDE DEF z
      <4>2. NDesc \in Int
        BY EngineAssumption DEF NDesc
      <4> QED BY <4>1, <4>2 DEF Pool
  <2>2. nxt \in [Pool -> Pool \cup {NULL}]
    BY DEF DescTypes
  <2> HIDE DEF fill, last
  <2> QED BY <1>1, <2>1, <2>2
<1>9. done' \in [Pool -> BOOLEAN]
  <2> HIDE DEF fill
  <2> QED BY <1>1 DEF DescTypes
<1>10. src' \in [Pool -> Groups \cup {NULL}]
  <2>1. \A d \in fill : owner(d) \in Groups
    BY <1>6, <1>7
  <2> HIDE DEF fill, owner
  <2> QED BY <1>1, <2>1 DEF DescTypes
<1>11. ASSUME NEW g \in Held', g < n_qsub
       PROVE  /\ g \in Held /\ Descs(g)' = Descs(g) /\ dlast(g)' = dlast(g)
              /\ \A d \in Descs(g) : nxt'[d] = nxt[d] /\ done'[d] = done[d] /\ src'[d] = src[d]
  <2>1. g \in Groups /\ g \in Nat /\ g < q /\ q <= g + NSlots
    BY RingAssumption DEF Held, Groups
  <2>2. g \in Held
    BY <1>2, <1>11, <2>1 DEF Held
  <2>3. Descs(g)' = Descs(g) /\ dlast(g)' = dlast(g) /\ In(g) = Descs(g)
    BY <1>11, <2>1 DEF Descs, dlast
  <2>4. ASSUME NEW d \in Descs(g) PROVE d \notin fill /\ d \in Pool
    <3>1. \A k \in new : k # g
      BY <1>2, <1>11
    <3>2. \A k \in new : d \notin In(k)
      BY <1>4, <2>1, <2>3, <3>1
    <3>3. d \in Pool
      BY <2>2, HeldFacts
    <3> QED BY <3>2, <3>3
  <2> HIDE DEF fill, owner, last
  <2>5. \A d \in Descs(g) : nxt'[d] = nxt[d] /\ done'[d] = done[d] /\ src'[d] = src[d]
    BY <1>1, <2>4 DEF DescTypes
  <2> QED BY <2>2, <2>3, <2>5
<1>12. ASSUME NEW g \in Held', n_qsub <= g, NEW d \in Descs(g)'
       PROVE  /\ ~done'[d] /\ src'[d] = g
              /\ nxt'[d] = IF d = dlast(g)' THEN NULL ELSE d + 1
  <2>1. g \in Groups /\ g \in Nat /\ g < q /\ Descs(g)' = In(g) /\ dlast(g)' = dfirst(g) + span'[g] - 1
    BY RingAssumption DEF Held, Groups, Descs, dlast
  <2>2. g \in new
    <3> HIDE DEF q
    <3> QED BY <1>2, <1>12, <2>1
  <2>3. d \in fill /\ owner(d) = g /\ d \in Pool
    BY <1>5, <1>12, <2>1, <2>2
  <2>4. last(d) <=> d = dlast(g)'
    BY <2>1, <2>3
  <2> HIDE DEF fill, owner, last
  <2> QED BY <1>1, <2>3, <2>4
<1>12a. ASSUME NEW g \in Held' PROVE dlast(g)' \in Descs(g)'
  <2>1. g \in Nat /\ g < q
    BY RingAssumption DEF Held, Groups
  <2>2. dfirst(g) \in Int
    <3>1. g % NSlots \in Nat
      BY <2>1, EngineAssumption
    <3>2. \A x \in Nat : x * DpSlot \in Nat
      BY EngineAssumption, SMT
    <3> QED BY <3>1, <3>2 DEF dfirst
  <2>3. span'[g] \in 1 .. DpSlot
    BY <1>3, <2>1
  <2> QED BY <1>2, <2>2, <2>3 DEF Descs, dlast
<1>13. ASSUME NEW g \in Int, n_ready <= g, g < n_qsub PROVE g \in Held'
  <2>1. g \in Nat /\ g < q /\ q <= g + NSlots
    <3>1. q \in Nat /\ n_qsub \in Nat /\ n_qsub <= q
      BY <1>2
    <3>2. g < q
      <4> HIDE DEF q
      <4> QED BY <1>13, <3>1
    <3> QED BY <1>2a, <1>13, <3>2
  <2> QED BY <1>3, <2>1 DEF Held
<1> QED BY <1>1, <1>8, <1>9, <1>10, <1>11, <1>12, <1>12a, <1>13

LEMMA ClaimChain ==
  ASSUME OneCaller, RingInd, RingInd', ChainInv, NEW t \in Callers, pc[t] \notin Firing, pc'[t] \notin Firing,
         NEW stt, NEW boost, claim(n_enq', n_rel', span', stt, boost), n_qsub <= n_qsub',
         \A g \in Groups : g < n_qsub => span'[g] = span[g],
         UNCHANGED <<n_fired, n_ready, tails>>
  PROVE  ChainInv'
<1>1. /\ UNCHANGED <<st, head, cur, single_shot, law>>
      /\ nxt' \in [Pool -> Pool \cup {NULL}] /\ done' \in [Pool -> BOOLEAN]
      /\ src' \in [Pool -> Groups \cup {NULL}]
      /\ \A g \in Held' : g < n_qsub =>
           /\ g \in Held /\ Descs(g)' = Descs(g) /\ dlast(g)' = dlast(g)
           /\ \A d \in Descs(g) : nxt'[d] = nxt[d] /\ done'[d] = done[d] /\ src'[d] = src[d]
      /\ \A g \in Held' : n_qsub <= g =>
           dlast(g)' \in Descs(g)' /\ \A d \in Descs(g)' : /\ ~done'[d] /\ src'[d] = g
                                /\ nxt'[d] = IF d = dlast(g)' THEN NULL ELSE d + 1
      /\ \A g \in Int : n_ready <= g /\ g < n_qsub => g \in Held'
  <2>1. DescTypes
    BY DEF ChainInv, EngTypes, DescTypes
  <2> QED BY <2>1, ClaimDescs
<1>2. ~Rung /\ ~Rung' /\ Top' = Top /\ Top = n_fired - 1 /\ UNCHANGED <<fire_tail, fire_tail_pred>>
  <2>1. ~Rung /\ ~Rung'
    BY OneRung DEF Firing
  <2> QED BY <2>1 DEF Top, tails
<1>3. Top \in Int /\ n_qsub \in Nat /\ n_ready \in Nat /\ Top < n_qsub /\ n_ready <= n_qsub
  BY TopFacts DEF RingInd, Order, Types
<1>4. ASSUME NEW g \in Held', g < n_qsub
      PROVE  /\ g \in Held /\ Pure(g)' = Pure(g) /\ Delivered(g)' = Delivered(g)
             /\ nxt'[dlast(g)'] = nxt[dlast(g)] /\ Untouched(g)' = Untouched(g)
  <2>1. g \in Held /\ dlast(g) \in Descs(g)
    BY <1>1, <1>4, HeldFacts
  <2>2. Pure(g)' = Pure(g) /\ Delivered(g)' = Delivered(g)
    BY <1>1, <1>4 DEF Pure, Delivered
  <2>3. nxt'[dlast(g)'] = nxt[dlast(g)]
    BY <1>1, <1>4, <2>1
  <2> QED BY <2>1, <2>2, <2>3 DEF Untouched
<1>5. \A g \in Fired' : g \in Fired /\ g \in Held' /\ g \in Nat /\ g < n_qsub /\ g <= Top
  <2> SUFFICES ASSUME NEW g \in Fired' PROVE g \in Fired /\ g \in Held' /\ g \in Nat /\ g < n_qsub /\ g <= Top
    OBVIOUS
  <2>1. g \in Held' /\ g <= Top /\ g \in Nat
    BY <1>2, RingAssumption DEF Fired, Held, Groups
  <2>2. g < n_qsub
    BY <1>3, <2>1
  <2> QED BY <1>4, <2>1, <2>2 DEF Fired
<1>6. ASSUME NEW g \in Fired', NEW h \in Fired, g < h PROVE h \in Fired'
  <2>1. h \in Groups /\ h \in Nat /\ h <= Top /\ h < n_qsub
    BY TopFacts, HeldFacts DEF Fired
  <2>2. g \in Nat /\ n_qsub' <= g + NSlots
    BY <1>5 DEF Held
  <2>3. n_qsub' \in Nat /\ NSlots \in Nat
    BY EngineAssumption DEF RingInd, Types
  <2>4. h < n_qsub' /\ n_qsub' <= h + NSlots
    BY <1>3, <1>6, <2>1, <2>2, <2>3
  <2> QED BY <1>2, <2>1, <2>4 DEF Fired, Held
<1>7. ASSUME NEW g \in Fired', Rested(g) PROVE Rested(g)'
  <2>1. CASE Untouched(g)
    BY <1>4, <1>5, <2>1 DEF Rested
  <2>2. CASE Over(g)
    <3>1. Delivered(g)' /\ nxt'[dlast(g)'] = nxt[dlast(g)]
      BY <1>4, <1>5, <2>2 DEF Over
    <3>2. ASSUME NEW h \in Fired, g < h, Delivered(h), nxt[dlast(g)] = dfirst(h) PROVE Over(g)'
      <4>1. h \in Fired' /\ Delivered(h)'
        BY <1>4, <1>5, <1>6, <3>2
      <4> QED BY <3>1, <3>2, <4>1 DEF Over
    <3> QED BY <2>2, <3>1, <3>2 DEF Over, Rested
  <2> QED BY <1>7, <2>1, <2>2 DEF Rested
<1>8. \A g \in Int : n_ready <= g /\ g <= Top => g \in Fired'
  <2> SUFFICES ASSUME NEW g \in Int, n_ready <= g, g <= Top PROVE g \in Fired'
    OBVIOUS
  <2>1. g \in Held'
    BY <1>1, <1>3
  <2> QED BY <1>2, <2>1 DEF Fired
<1>9. EngTypes'
  BY <1>1 DEF ChainInv, EngTypes
<1>10. ASSUME NEW g \in Held' PROVE g < n_qsub \/ n_qsub <= g
  BY <1>3, RingAssumption DEF Held, Groups
<1>11. Filled'
  <2> SUFFICES ASSUME NEW g \in Held', NEW d \in Descs(g)'
               PROVE  src'[d] = g /\ (d < dlast(g)' => nxt'[d] = d + 1)
    BY DEF Filled
  <2>1. CASE g < n_qsub
    BY <1>1, <2>1 DEF ChainInv, Filled
  <2>2. CASE n_qsub <= g
    <3>1. ~(d < d)
      BY DEF Descs
    <3> QED BY <1>1, <2>2, <3>1
  <2> QED BY <1>10, <2>1, <2>2
<1>12. Fresh'
  <2> SUFFICES ASSUME NEW g \in Held', Top < g PROVE Untouched(g)'
    BY <1>2 DEF Fresh
  <2>1. CASE g < n_qsub
    BY <1>4, <2>1 DEF ChainInv, Fresh
  <2>2. CASE n_qsub <= g
    BY <1>1, <2>2 DEF Untouched, Pure
  <2> QED BY <1>10, <2>1, <2>2
<1>13. Counted'
  <2> SUFFICES ASSUME NEW g \in Held', g < n_ready PROVE Delivered(g)'
    BY DEF Counted
  <2>1. g < n_qsub
    BY <1>3, RingAssumption DEF Held, Groups
  <2> QED BY <1>4, <2>1 DEF ChainInv, Counted
<1>14. Polled'
  BY DEF Polled, OneCaller, Firing
<1>15. ASSUME NEW o \in Nat, NEW y \in Nat, NEW e \in Nat, Running(o, y, e) PROVE Running(o, y, e)'
  <2>1. Line(o, y)' = Line(o, y) /\ Last(o, y)' = Last(o, y)
    BY <1>2 DEF Line, Last
  <2>2. Begun(o, y) /\ e \in Line(o, y) /\ n_ready <= e /\ e <= Top
    <3>1. Begun(o, y) /\ e \in Line(o, y) /\ n_ready <= e
      BY <1>15 DEF Running, At
    <3> QED BY <3>1, LineFacts
  <2>3. Begun(o, y)'
    BY <1>1, <1>2, <2>2 DEF Begun
  <2>4. At(o, y, e)'
    <3>1. e \in Held' /\ e < n_qsub
      BY <1>5, <1>8, <2>2
    <3> QED BY <1>1, <1>15, <2>1, <3>1 DEF Running, At
  <2>5. Linked(o, y, e)'
    <3> SUFFICES ASSUME NEW k \in Line(o, y), k \in Fired'
                 PROVE  /\ nxt'[dlast(k)'] = IF After(o, y, k) <= Top THEN dfirst(After(o, y, k)) ELSE NULL
                        /\ k < e => Delivered(k)'
                        /\ e < k => Pure(k)'
      BY <1>2, <2>1 DEF Linked, After
    <3> QED BY <1>4, <1>5, <1>15 DEF Running, Linked
  <2>6. Beside(o, y)'
    BY <1>5, <1>7, <1>15, <2>1 DEF Running, Beside
  <2>7. TailsKnown(o, y)'
    <3> DEFINE k == Last(o, y)
               b == Before(o, y, k)
    <3>1. k \in Groups /\ k < n_qsub
      <4>1. k \in Nat /\ k <= Top
        BY <2>2, LineFacts
      <4> HIDE DEF k
      <4>2. k < n_qsub /\ n_qsub <= n_enq /\ n_enq <= MaxGroups /\ n_enq \in Nat
        BY <1>3, <4>1 DEF RingInd, Types, Order
      <4> QED BY <1>3, <4>1, <4>2, RingAssumption DEF Groups
    <3>2. k # o => b \in Groups /\ b < n_qsub
      <4>1. k # o => o < k
        BY <1>3, <2>2 DEF Begun, Last
      <4>2. k # o => b \in {o, k - 1}
        BY DEF Before
      <4> HIDE DEF k, b
      <4> QED BY <1>3, <3>1, <4>1, <4>2, RingAssumption DEF Groups
    <3>3. Last(o, y)' = k /\ k' = k /\ b' = b
      BY <2>1 DEF Before
    <3>4. dlast(k)' = dlast(k) /\ span'[k] = span[k] /\ (k # o => dlast(b)' = dlast(b))
      <4>1. span'[k] = span[k] /\ (k # o => span'[b] = span[b])
        BY <3>1, <3>2
      <4> QED BY <3>3, <4>1 DEF dlast
    <3>5. /\ fire_tail = dlast(k)
          /\ span[k] > 1 => fire_tail_pred = dlast(k) - 1
          /\ span[k] = 1 /\ k # o => fire_tail_pred = dlast(b)
      BY <1>2, <1>15 DEF Running, TailsKnown
    <3> QED BY <1>2, <3>3, <3>4, <3>5 DEF TailsKnown
  <2> QED BY <2>3, <2>4, <2>5, <2>6, <2>7 DEF Running
<1>16. ASSUME NEW e \in Nat, Rerun(e) PROVE Rerun(e)'
  <2>1. /\ \A g \in Fired : Rested(g)
        /\ n_ready \in Fired /\ Untouched(n_ready)
        /\ e \in Fired /\ n_ready <= e /\ Delivered(e) /\ cur \in Descs(e)
    BY <1>16 DEF Rerun
  <2>2. PICK h \in Fired : n_ready <= h /\ Delivered(h) /\ fire_tail = dlast(h)
    BY <1>16 DEF Rerun
  <2>3. \A g \in Fired : g \in Int /\ g <= Top
    BY RingAssumption DEF Fired, Held, Groups
  <2>4. n_ready \in Fired' /\ e \in Fired' /\ h \in Fired'
    BY <1>3, <1>8, <2>1, <2>2, <2>3
  <2>5. Untouched(n_ready)' /\ Delivered(e)' /\ cur' \in Descs(e)' /\ Delivered(h)' /\ fire_tail' = dlast(h)'
    <3>1. Untouched(n_ready)'
      BY <1>4, <1>5, <2>1, <2>4
    <3>2. Delivered(e)' /\ cur' \in Descs(e)'
      BY <1>1, <1>4, <1>5, <2>1, <2>4
    <3>3. Delivered(h)' /\ fire_tail' = dlast(h)'
      BY <1>1, <1>2, <1>4, <1>5, <2>2, <2>4
    <3> QED BY <3>1, <3>2, <3>3
  <2>6. \A g \in Fired' : Rested(g)'
    BY <1>5, <1>7, <2>1
  <2>7. \A s \in Callers : pc'[s] \notin Firing
    BY DEF OneCaller
  <2> QED BY <2>1, <2>2, <2>4, <2>5, <2>6, <2>7 DEF Rerun
<1>17. EngineAt'
  BY <1>1, <1>5, <1>7, <1>15, <1>16 DEF ChainInv, EngineAt
<1> QED BY <1>9, <1>11, <1>12, <1>13, <1>14, <1>17 DEF ChainInv

\* The calls that claim groups, and what they may change besides.
Claims(t) == \/ ring_enqueue(t) \/ ring_release(t) \/ ring_on_serial_phase(t)
             \/ NeedClaim(t) \/ DrainRelease(t)

LEMMA ClaimsEffect ==
  ASSUME RingInd, NEW t \in Callers, Claims(t)
  PROVE  /\ pc[t] \notin Firing /\ pc'[t] = "fire" /\ UNCHANGED <<n_fired, n_ready, tails>>
         /\ n_qsub <= n_qsub' /\ n_enq <= n_enq'
         /\ \A g \in Groups : g < n_enq => span'[g] = span[g]
         /\ \E stt, boost :
              /\ claim(n_enq', n_rel', span', stt, boost)
              /\ \A g \in Groups : g < n_rel' => stt[g] = "GONE" \/ (g < n_rel /\ stt[g] = state[g])
<1>1. pc[t] \notin Firing /\ pc'[t] = "fire" /\ UNCHANGED <<n_fired, n_ready, tails>>
  <2>1. pc \in [Callers -> Labels]
    BY DEF RingInd, Types
  <2> QED BY <2>1 DEF Claims, ring_enqueue, ring_release, ring_on_serial_phase, NeedClaim, DrainRelease,
          Release, CallFire, Firing
<1>2. \E stt, boost :
        /\ claim(n_enq', n_rel', span', stt, boost)
        /\ \A g \in Groups : g < n_rel' => stt[g] = "GONE" \/ (g < n_rel /\ stt[g] = state[g])
  <2>1. CASE ring_enqueue(t) \/ ring_on_serial_phase(t) \/ NeedClaim(t)
    <3>1. n_rel' = n_rel
      BY <2>1 DEF ring_enqueue, ring_on_serial_phase, NeedClaim
    <3>2. \E boost : claim(n_enq', n_rel', span', state, boost)
      BY <2>1 DEF ring_enqueue, ring_on_serial_phase, NeedClaim
    <3> QED BY <3>1, <3>2
  <2>2. ASSUME NEW g \in Nat, NEW back, Release(t, g, back)
        PROVE  \E stt, boost :
                 /\ claim(n_enq', n_rel', span', stt, boost)
                 /\ \A k \in Groups : k < n_rel' => stt[k] = "GONE" \/ (k < n_rel /\ stt[k] = state[k])
    <3> DEFINE stt == IF Releasable(g) THEN [state EXCEPT ![g] = "GONE"] ELSE state
    <3>1. PICK r \in n_rel .. n_enq :
            /\ \A k \in n_rel .. r - 1 : stt[k] = "GONE"
            /\ n_rel' = r /\ claim(n_enq', r, span', stt, fire_depth_boost)
      BY <2>2 DEF Release
    <3>2. \A k \in Groups : stt[k] = "GONE" \/ stt[k] = state[k]
      BY DEF RingInd, Types
    <3>3. \A k \in Groups : k < r => k < n_rel \/ k \in n_rel .. r - 1
      BY RingAssumption DEF RingInd, Types, Groups
    <3> HIDE DEF stt
    <3> QED BY <3>1, <3>2, <3>3
  <2>3. CASE ring_release(t)
    <3>1. \E g \in 0 .. n_enq - 1 : Release(t, g, "idle")
      BY <2>3 DEF ring_release
    <3>2. \A g \in 0 .. n_enq - 1 : g \in Nat
      BY DEF RingInd, Types
    <3> QED BY <2>2, <3>1, <3>2
  <2>4. CASE DrainRelease(t)
    <3>1. Release(t, arg[t], "drain_top") /\ arg[t] \in Nat
      BY <2>4 DEF DrainRelease, RingInd, Types
    <3> QED BY <2>2, <3>1
  <2> QED BY <2>1, <2>3, <2>4 DEF Claims
<1>3. n_qsub <= n_qsub'
  <2>1. PICK stt, boost : claim(n_enq', n_rel', span', stt, boost)
    BY <1>2
  <2>2. \E q \in n_qsub .. n_enq' : n_qsub' = q
    BY <2>1 DEF claim
  <2> QED BY <2>2 DEF RingInd, Types
<1>4. n_enq <= n_enq' /\ \A g \in Groups : g < n_enq => span'[g] = span[g]
  <2>0. n_enq \in Nat /\ span \in [Groups -> Nat \ {0}]
    BY DEF RingInd, Types
  <2>1. CASE ring_enqueue(t)
    <3>1. n_enq' = n_enq + 1 /\ \E n \in Spans : span' = [span EXCEPT ![n_enq] = n]
      BY <2>1 DEF ring_enqueue
    <3>2. \A g \in Groups : g < n_enq => g # n_enq
      BY <2>0, RingAssumption DEF Groups
    <3> QED BY <2>0, <3>1, <3>2
  <2>2. CASE ~ring_enqueue(t)
    <3>1. span' = span /\ n_enq' = n_enq
      BY <2>2 DEF Claims, ring_release, ring_on_serial_phase, NeedClaim, DrainRelease, Release
    <3> QED BY <2>0, <3>1
  <2> QED BY <2>1, <2>2
<1> QED BY <1>1, <1>2, <1>3, <1>4

LEMMA ClaimCalls ==
  ASSUME OneCaller, RingInd, RingInd', ChainInv, NEW t \in Callers, Claims(t) PROVE ChainInv'
<1>1. PICK stt, boost : claim(n_enq', n_rel', span', stt, boost)
  BY ClaimsEffect
<1>2. \A g \in Groups : g < n_qsub => span'[g] = span[g]
  <2>1. \A g \in Groups : g < n_qsub => g < n_enq
    BY RingAssumption DEF Groups, RingInd, Types, Order
  <2> QED BY <2>1, ClaimsEffect
<1>3. pc[t] \notin Firing /\ pc'[t] \notin Firing /\ UNCHANGED <<n_fired, n_ready, tails>> /\ n_qsub <= n_qsub'
  BY ClaimsEffect DEF Firing
<1> QED BY <1>1, <1>2, <1>3, ClaimChain

-----------------------------------------------------------------------------
(***************************************************************************)
(* The doorbells.                                                          *)
(***************************************************************************)
\* An engine that has parked is started at a group of which nothing is done and
\* on which nothing hangs, or its wake-up is lost.
LEMMA StartEffect ==
  ASSUME EngTypes, st # "RUN", NEW d \in Pool, NEW ok \in BOOLEAN, DmWaitStart(d, ok)
  PROVE  /\ ok /\ UNCHANGED <<nxt, done, src, mem>> /\ single_shot' = FALSE /\ law' = 0
         /\ \/ st' = "IDLE" /\ UNCHANGED <<head, cur>>
            \/ st' = "RUN" /\ head' = d /\ cur' = d
<1>1. DmWait = "IDLE"
  BY DEF DmWait, EngTypes
<1> QED BY <1>1 DEF DmWaitStart, EngTypes, in_pool

LEMMA StartChain ==
  ASSUME OneCaller, RingInd, ChainInv, NEW t \in Callers, pc[t] = "start", FireRing(t)
  PROVE  ChainInv'
<1> DEFINE g == n_fired
<1>1. PICK ok \in BOOLEAN :
        /\ DmWaitStart(dfirst(g), ok)
        /\ Goto(t, IF ok THEN "rung" ELSE ret[t])
        /\ UNCHANGED <<span, cursors, tails>>
  BY DEF FireRing
<1>2. st # "RUN" /\ EngTypes /\ n_fired < n_qsub /\ ~Rung
  BY OneRung DEF ChainInv, Polled, RingInd, Calls, CallAt, Firing
<1>3. g \in Nat /\ n_ready \in Nat /\ n_ready <= g /\ g < n_qsub /\ g \in Held /\ Top = g - 1
  <2>1. g \in Nat /\ n_ready \in Nat /\ n_ready <= g /\ g < n_qsub
    BY <1>2 DEF RingInd, Types, Order
  <2> QED BY <1>2, <2>1, WindowHeld, TopFacts
<1>4. dfirst(g) \in Descs(g) /\ dfirst(g) \in Pool /\ dlast(g) \in Descs(g) /\ dfirst(g) \in Nat
  BY <1>3, HeldFacts
<1>5. /\ ok /\ UNCHANGED <<nxt, done, src>> /\ single_shot' = FALSE /\ law' = 0
      /\ \/ st' = "IDLE" /\ UNCHANGED <<head, cur>>
         \/ st' = "RUN" /\ head' = dfirst(g) /\ cur' = dfirst(g)
  BY <1>1, <1>2, <1>4, StartEffect
<1>6. Rung' /\ pc'[t] = "rung" /\ UNCHANGED <<span, n_qsub, n_fired, n_ready, fire_tail, fire_tail_pred>>
  <2>1. pc'[t] = "rung"
    BY <1>1, <1>5 DEF Goto, RingInd, Types
  <2> QED BY <1>1, <2>1, OneRung DEF cursors, tails
<1>7. Top' = g /\ Held' = Held /\ Fired' = Fired \cup {g}
  <2>1. Top' = g /\ Held' = Held
    BY <1>6 DEF Top, Held
  <2>2. \A h \in Held : h <= g <=> h <= g - 1 \/ h = g
    BY <1>3, HeldFacts
  <2>3. Fired = {h \in Held : h <= g - 1} /\ Fired' = {h \in Held : h <= g}
    BY <1>3, <2>1 DEF Fired
  <2> QED BY <1>3, <2>1, <2>2, <2>3
<1>8. \A h : Pure(h)' = Pure(h) /\ Delivered(h)' = Delivered(h) /\ Untouched(h)' = Untouched(h)
             /\ Descs(h)' = Descs(h) /\ dlast(h)' = dlast(h)
  BY <1>5, <1>6 DEF Pure, Delivered, Untouched, Descs, dlast
<1>9. Untouched(g)
  BY <1>3 DEF ChainInv, Fresh
<1>10. \A h \in Fired' : Rested(h)'
  <2> SUFFICES ASSUME NEW h \in Fired' PROVE Rested(h)'
    OBVIOUS
  <2>1. CASE h = g
    BY <1>6, <1>8, <1>9, <2>1 DEF Rested
  <2>2. CASE h \in Fired
    <3>1. Rested(h)
      BY <1>2, <2>2 DEF ChainInv, EngineAt
    <3>2. \A k \in Fired : k \in Fired'
      BY <1>7
    <3> QED BY <1>5, <1>8, <3>1, <3>2 DEF Rested, Over
  <2> QED BY <1>7, <2>1, <2>2
<1>11. EngTypes'
  BY <1>2, <1>4, <1>5 DEF EngTypes
<1>12. Filled' /\ Counted'
  BY <1>5, <1>6, <1>7, <1>8 DEF ChainInv, Filled, Counted
<1>13. Fresh'
  <2>1. \A h \in Held : g < h => Top < h
    BY <1>3, HeldFacts
  <2> QED BY <1>7, <1>8, <2>1 DEF ChainInv, Fresh
<1>14. Polled'
  BY <1>6 DEF Polled, OneCaller
<1>15. CASE st' = "RUN" /\ head' = dfirst(g) /\ cur' = dfirst(g)
  <2>1. Line(g, g + 1)' = {g} /\ Last(g, g + 1)' = g
    BY <1>3, <1>6, <1>7 DEF Line, Last
  <2>2. Begun(g, g + 1)'
    BY <1>3, <1>6, <1>7, <1>15, EngineAssumption DEF Begun
  <2>3. At(g, g + 1, g)'
    <3>1. \A d \in Descs(g) : ~done[d] /\ ~(d < dfirst(g))
      BY <1>4, <1>9 DEF Untouched, Pure, Descs
    <3> QED BY <1>3, <1>4, <1>5, <1>6, <1>8, <1>15, <2>1, <3>1 DEF At
  <2>4. Linked(g, g + 1, g)'
    <3>1. nxt'[dlast(g)'] = NULL /\ ~(g < g) /\ ~(g + 1 <= g) /\ g' = g
      BY <1>3, <1>5, <1>6, <1>8, <1>9 DEF Untouched
    <3> QED BY <1>7, <2>1, <3>1 DEF Linked, After
  <2>5. Beside(g, g + 1)'
    BY <1>10 DEF Beside
  <2>6. TailsKnown(g, g + 1)'
    BY <1>6, <1>7, <2>1 DEF TailsKnown
  <2>7. Running(g, g + 1, g)'
    BY <2>2, <2>3, <2>4, <2>5, <2>6 DEF Running
  <2>8. g' \in Nat /\ (g + 1)' \in Nat
    BY <1>3, <1>6
  <2>9. \E o \in Nat, y \in Nat, e \in Nat : Running(o, y, e)'
    BY <2>7, <2>8
  <2>10. EngineAt'
    BY <1>15, <2>9 DEF EngineAt
  <2> QED BY <1>11, <1>12, <1>13, <1>14, <2>10 DEF ChainInv
<1>16. CASE st' = "IDLE"
  BY <1>10, <1>11, <1>12, <1>13, <1>14, <1>16 DEF ChainInv, EngineAt
<1> QED BY <1>5, <1>15, <1>16

LEMMA RekickChain ==
  ASSUME Generous, RingInd, ChainInv, NEW t \in Callers, NeedRekick(t) PROVE ChainInv'
<1> DEFINE a == arg[t]
<1>1. PICK ok \in BOOLEAN :
        /\ DmWaitStart(dfirst(a), ok)
        /\ ok => /\ fire_tail' = dlast(a)
                 /\ fire_tail_pred' = IF span[a] > 1 THEN dlast(a) - 1 ELSE NULL
                 /\ Goto(t, "need_top")
  BY DEF NeedRekick
<1>2. /\ UNCHANGED <<span, n_qsub, n_fired, n_ready>>
      /\ pc[t] = "need_late" /\ st = "IDLE" /\ state[a] = "SUBMIT"
      /\ n_ready < n_fired => ~Arrived(n_ready)
  BY DEF NeedRekick, cursors, Late, Settled, CanRekick, Generous
<1>3. OneCaller /\ EngTypes /\ ~Rung
  BY <1>2, OneRung DEF Generous, ChainInv
<1>4. a \in Nat /\ n_ready \in Nat /\ n_ready <= a /\ a < n_fired /\ n_fired \in Nat
  <2>1. a \in Nat /\ a \in Groups
    BY <1>2, RingAssumption DEF RingInd, Types, Calls, CallAt, Waits, Needing, Groups
  <2> QED BY <1>2, <2>1 DEF RingInd, Types, Order, Shape
<1>5. Top = n_fired - 1 /\ a <= Top /\ a \in Fired /\ a \in Held /\ n_ready \in Fired
  <2>1. Top = n_fired - 1
    BY <1>3, TopFacts
  <2>2. a <= Top /\ n_ready <= Top /\ n_ready <= n_ready
    BY <1>4, <2>1
  <2> QED BY <1>4, <2>1, <2>2, ReadyFired DEF Fired
<1>6. dfirst(a) \in Descs(a) /\ dfirst(a) \in Pool /\ dlast(a) \in Descs(a) /\ dfirst(a) \in Nat
  BY <1>5, HeldFacts
<1>7. /\ ok /\ UNCHANGED <<nxt, done, src>> /\ single_shot' = FALSE /\ law' = 0
      /\ \/ st' = "IDLE" /\ UNCHANGED <<head, cur>>
         \/ st' = "RUN" /\ head' = dfirst(a) /\ cur' = dfirst(a)
  BY <1>1, <1>2, <1>3, <1>6, StartEffect
<1>8. ~Rung' /\ pc'[t] = "need_top" /\ Top' = Top
  <2>1. pc'[t] = "need_top"
    BY <1>1, <1>7 DEF Goto, RingInd, Types
  <2> QED BY <1>2, <1>3, <2>1, OneRung DEF Top
<1>9. Held' = Held /\ Fired' = Fired
  BY <1>2, <1>8 DEF Held, Fired
<1>10. \A g : Pure(g)' = Pure(g) /\ Delivered(g)' = Delivered(g) /\ Untouched(g)' = Untouched(g)
              /\ Descs(g)' = Descs(g)
  BY <1>2, <1>7 DEF Pure, Delivered, Untouched, Descs, dlast
<1>11. \A g : span'[g] = span[g] /\ dfirst(g) + span'[g] - 1 = dlast(g)
  BY <1>2 DEF dlast
<1>12. \A g \in Fired : Rested(g) /\ Rested(g)'
  <2>1. \A g : Rested(g)' = Rested(g)
    BY <1>2, <1>7, <1>9, <1>10 DEF Rested, Over, dlast
  <2> QED BY <1>2, <2>1 DEF ChainInv, EngineAt
<1>13. EngTypes' /\ Filled' /\ Fresh' /\ Counted' /\ Polled'
  <2>1. EngTypes'
    BY <1>3, <1>6, <1>7 DEF EngTypes
  <2>2. Filled' /\ Fresh' /\ Counted'
    BY <1>2, <1>7, <1>8, <1>9, <1>10 DEF ChainInv, Filled, Fresh, Counted, dlast
  <2>3. Polled'
    BY <1>3, <1>8 DEF Polled, OneCaller
  <2> QED BY <2>1, <2>2, <2>3
<1>14. CASE st' = "IDLE"
  BY <1>9, <1>12, <1>13, <1>14 DEF ChainInv, EngineAt
<1>15. ASSUME st' = "RUN", head' = dfirst(a), cur' = dfirst(a), Untouched(a) PROVE ChainInv'
  <2> DEFINE y == Top + 1
  <2>0. Top \in Nat /\ y \in Nat /\ a < y /\ ~(y <= Top)
    BY <1>4, <1>5
  <2>1. PICK u \in Nat, z \in Nat : u = a /\ z = y
    BY <1>4, <2>0
  <2> HIDE DEF y
  <2>2. Line(u, z)' = {u} /\ Last(u, z)' = u
    BY <1>4, <1>8, <2>0, <2>1 DEF Line, Last
  <2>3. Begun(u, z)'
    <3>1. y <= a + NSlots
      <4>1. n_qsub <= a + NSlots /\ Top < n_qsub /\ n_qsub \in Nat /\ NSlots \in Nat
        BY <1>5, TopFacts, HeldFacts, EngineAssumption
      <4> QED BY <1>4, <2>0, <4>1 DEF y
    <3> QED BY <1>5, <1>8, <1>15, <2>0, <2>1, <3>1 DEF Begun, y
  <2>4. At(u, z, u)'
    <3>1. \A d \in Descs(a) : ~done[d] /\ ~(d < dfirst(a))
      BY <1>6, <1>15 DEF Untouched, Pure, Descs
    <3> QED BY <1>2, <1>4, <1>6, <1>7, <1>10, <1>15, <2>1, <2>2, <3>1 DEF At
  <2>5. Linked(u, z, u)'
    <3>1. nxt[dlast(u)] = NULL /\ ~(u < u) /\ ~(z <= Top) /\ dlast(u)' = dlast(u)
      BY <1>2, <1>15, <2>0, <2>1 DEF Untouched, dlast
    <3> QED BY <1>7, <1>8, <2>2, <3>1 DEF Linked, After
  <2>6. Beside(u, z)'
    BY <1>9, <1>12 DEF Beside
  <2>7. TailsKnown(u, z)'
    <3>1. dlast(u)' = dlast(u) /\ span'[u] = span[u]
      BY <1>2 DEF dlast
    <3> QED BY <1>1, <1>7, <1>8, <2>1, <2>2, <3>1 DEF TailsKnown
  <2>8. Running(u, z, u)'
    BY <2>3, <2>4, <2>5, <2>6, <2>7 DEF Running
  <2>9. EngineAt'
    BY <1>15, <2>8 DEF EngineAt
  <2> QED BY <1>13, <2>9 DEF ChainInv
<1>16. ASSUME st' = "RUN", cur' = dfirst(a), Delivered(a) PROVE ChainInv'
  <2>1. ~Delivered(n_ready) /\ Untouched(n_ready)
    <3>1. ~Arrived(n_ready)
      BY <1>2, <1>4
    <3> QED BY <1>5, <1>12, <3>1 DEF Arrived, Delivered, Rested, Over
  <2>2. PICK u \in Nat : u = a
    BY <1>4
  <2>3. Rerun(u)'
    <3>1. \A g \in Fired' : Rested(g)'
      BY <1>9, <1>12
    <3>2. n_ready' \in Fired' /\ Untouched(n_ready)'
      BY <1>2, <1>5, <1>9, <1>10, <2>1
    <3>3. u \in Fired' /\ n_ready' <= u /\ Delivered(u)' /\ cur' \in Descs(u)'
      BY <1>2, <1>4, <1>5, <1>6, <1>9, <1>10, <1>16, <2>2
    <3>4. fire_tail' = dlast(u)'
      BY <1>1, <1>2, <1>7, <2>2 DEF dlast
    <3>5. \A s \in Callers : pc'[s] \notin Firing
      BY <1>3, <1>8 DEF OneCaller, Firing
    <3> QED BY <3>1, <3>2, <3>3, <3>4, <3>5 DEF Rerun
  <2>4. EngineAt'
    BY <1>16, <2>3 DEF EngineAt
  <2> QED BY <1>13, <2>4 DEF ChainInv
<1>17. Untouched(a) \/ Delivered(a)
  BY <1>5, <1>12 DEF Rested, Over
<1> QED BY <1>7, <1>14, <1>15, <1>16, <1>17

-----------------------------------------------------------------------------
(***************************************************************************)
(* Following a chain: a set that the chain does not leave has all of it,   *)
(* and a chain along which something grows has an end.                     *)
(***************************************************************************)
LEMMA MetWithin ==
  ASSUME NEW next, NEW stop, NEW S \in SUBSET Pool, NEW d \in S,
         \A e \in S : e # stop /\ next[e] # NULL => next[e] \in S
  PROVE  Met(d, next, stop) \subseteq S
  BY DEF Met

LEMMA MetFollows ==
  ASSUME NEW next \in [Pool -> Pool \cup {NULL}], NEW stop, NEW d,
         NEW e \in Met(d, next, stop), next[e] \notin {NULL, stop}
  PROVE  e \in Pool /\ next[e] \in Met(d, next, stop)
<1>1. e \in Pool /\ e # stop
  BY DEF Met
<1>2. next[e] \in Pool \ {stop}
  BY <1>1
<1>3. ASSUME NEW S \in SUBSET Pool, d # NULL => d \in S,
             \A f \in S : f # stop /\ next[f] # NULL => next[f] \in S
      PROVE  next[e] \in S
  <2>1. e \in S
    BY <1>3 DEF Met
  <2> QED BY <1>1, <1>3, <2>1
<1> QED BY <1>1, <1>2, <1>3 DEF Met

LEMMA Greatest ==
  ASSUME NEW S, S # {}, NEW B \in Nat, NEW rank \in [S -> 0 .. B]
  PROVE  \E p \in S : \A q \in S : rank[q] <= rank[p]
<1> DEFINE R == {B - rank[p] : p \in S}
<1>1. R \in SUBSET Nat /\ R # {}
  <2>1. \A p \in S : B - rank[p] \in Nat
    OBVIOUS
  <2> QED BY <2>1
<1>2. \E x \in R : \A y \in R : ~ (<<y, x>> \in OpToRel(<, Nat))
  BY <1>1, NatLessThanWellFounded, WFMin, Zenon
<1>3. PICK x \in R : \A y \in R : ~ (<<y, x>> \in OpToRel(<, Nat))
  BY <1>2
<1>4. ASSUME NEW y \in R PROVE x <= y
  <2>1. ~ (<<y, x>> \in {ss \in Nat \X Nat : ss[1] < ss[2]})
    BY <1>3 DEF OpToRel
  <2> QED BY <1>1, <2>1
<1>5. PICK p \in S : x = B - rank[p]
  OBVIOUS
<1>6. ASSUME NEW q \in S PROVE rank[q] <= rank[p]
  <2>1. x <= B - rank[q]
    BY <1>4
  <2> QED BY <1>5, <2>1
<1> QED BY <1>6

\* What law L7 asks of a dmlink behind c, when the chain from E.head stays in S.
LEMMA PredSafe ==
  ASSUME NEW next \in [Pool -> Pool \cup {NULL}], NEW c \in Pool,
         NEW S \in SUBSET Pool, head \in S, NEW B \in Nat, NEW rank \in [S -> 0 .. B],
         \A e \in S : e # c /\ next[e] # NULL => next[e] \in S /\ rank[e] < rank[next[e]],
         \A p \in S : p # c /\ next[p] \in {NULL, c} => ~done[p]
  PROVE  PredOf(c, next) = NULL \/ ~done[PredOf(c, next)]
<1> DEFINE met == Met(head, next, c)
<1>1. met \subseteq S /\ c \notin met
  BY MetWithin DEF Met
<1>2. CASE met = {}
  BY <1>2 DEF PredOf
<1>3. CASE met # {}
  <2>1. [p \in met |-> rank[p]] \in [met -> 0 .. B]
    BY <1>1
  <2>2. PICK p \in met : \A q \in met : rank[q] <= rank[p]
    <3> HIDE DEF met
    <3>1. \E p \in met : \A q \in met : [r \in met |-> rank[r]][q] <= [r \in met |-> rank[r]][p]
      BY <1>3, <2>1, Greatest
    <3> QED BY <3>1
  <2>3. next[p] \in {NULL, c}
    <3> SUFFICES ASSUME next[p] \notin {NULL, c} PROVE FALSE
      OBVIOUS
    <3>1. next[p] \in met
      BY MetFollows
    <3>2. rank[p] < rank[next[p]] /\ rank[next[p]] <= rank[p] /\ rank[p] \in Nat /\ rank[next[p]] \in Nat
      BY <1>1, <2>2, <3>1
    <3> QED BY <3>2
  <2>4. PredOf(c, next) \in met /\ next[PredOf(c, next)] \in {NULL, c}
    BY <1>3, <2>3 DEF PredOf
  <2> QED BY <1>1, <2>4
<1> QED BY <1>2, <1>3

-----------------------------------------------------------------------------
\* The group that lives in the slot of o now.
LEMMA Tenant ==
  ASSUME RingInd, NEW o \in Nat, o < n_qsub
  PROVE  \E h \in Held : dfirst(h) = dfirst(o) /\ (h = o \/ o + NSlots <= h)
<1>1. PICK n \in Nat \ {0} : n = NSlots
  BY EngineAssumption
<1>2. PICK q \in Nat : q = n_qsub
  BY DEF RingInd, Types
<1> DEFINE x == q - 1 - o
<1>3. x \in Nat
  BY <1>2
<1>4. x = n * (x \div n) + (x % n) /\ x \div n \in Nat /\ x % n \in 0 .. n - 1
  BY <1>3, SMT
<1>5. PICK p \in Nat, r \in 0 .. n - 1 : x = n * p + r
  BY <1>4
<1> DEFINE h == o + n * p
<1>6. n * p \in Nat /\ h \in Nat
  BY SMT
<1>7. h < q /\ q <= h + n
  BY <1>5, <1>6
<1>8. p = 0 \/ n <= n * p
  BY SMT
<1>9. h = o \/ o + n <= h
  <2>1. p = 0 => n * p = 0
    BY SMT
  <2> QED BY <1>6, <1>8, <2>1
<1>10. h % n = o % n
  <2>1. /\ h = n * (h \div n) + (h % n) /\ h \div n \in Int /\ h % n \in 0 .. n - 1
        /\ o = n * (o \div n) + (o % n) /\ o \div n \in Int /\ o % n \in 0 .. n - 1
    BY <1>6, SMT
  <2>2. ASSUME NEW a \in Int, NEW b \in Int, NEW u \in 0 .. n - 1, NEW v \in 0 .. n - 1,
               h = n * a + u, o = n * b + v
        PROVE  u = v
    <3>1. n * (a - b - p) = v - u
      BY <2>2, SMT
    <3>2. PICK z \in Int : z = a - b - p
      OBVIOUS
    <3>3. n * z = v - u
      BY <3>1, <3>2
    <3>4. z > 0 => n * z >= n
      BY SMT
    <3>5. z < 0 => n * z <= -n
      BY SMT
    <3>6. z = 0 => n * z = 0
      BY SMT
    <3> QED BY <3>2, <3>3, <3>4, <3>5, <3>6
  <2> HIDE DEF h
  <2> QED BY <2>1, <2>2
<1>11. h \in Held
  <2>1. n_qsub <= MaxGroups
    BY RingAssumption DEF RingInd, Types, Order
  <2> QED BY <1>1, <1>2, <1>6, <1>7, <2>1, RingAssumption DEF Held, Groups
<1> QED BY <1>1, <1>9, <1>10, <1>11 DEF dfirst

\* The place of a descriptor in the order of the groups and inside its group.
LEMMA RankFacts ==
  ASSUME NEW a \in Groups, NEW b \in Groups, NEW d \in Pool, NEW f \in Pool
  PROVE  /\ a * NDesc + d \in 0 .. MaxGroups * NDesc + NDesc
         /\ MaxGroups * NDesc + NDesc \in Nat
         /\ a < b => a * NDesc + d < b * NDesc + f
         /\ a * NDesc + d < a * NDesc + (d + 1)
<1>1. PICK n \in Nat : n = NDesc
  <2>1. NSlots * DpSlot \in Nat
    BY EngineAssumption, SMT
  <2> QED BY <2>1 DEF NDesc
<1>2. d \in 0 .. n - 1 /\ f \in 0 .. n - 1
  BY <1>1 DEF Pool
<1>3. a \in Nat /\ b \in Nat /\ MaxGroups \in Nat /\ a < MaxGroups
  BY RingAssumption DEF Groups
<1>4. ASSUME NEW x \in Nat, NEW z \in Nat, x < z
      PROVE  x * n + n <= z * n /\ x * n \in Nat /\ z * n \in Nat
  <2>1. PICK c \in Nat : z = x + 1 + c
    <3>1. z - x - 1 \in Nat /\ z = x + 1 + (z - x - 1)
      BY <1>4
    <3> QED BY <3>1
  <2>2. z * n = x * n + n + c * n /\ c * n \in Nat /\ x * n \in Nat
    BY <2>1, SMT
  <2> QED BY <2>2
<1>5. a * n + n <= MaxGroups * n /\ a * n \in Nat /\ MaxGroups * n \in Nat
  BY <1>3, <1>4
<1>6. a < b => a * n + n <= b * n /\ b * n \in Nat
  BY <1>3, <1>4
<1> QED BY <1>1, <1>2, <1>5, <1>6

LEMMA LastFired ==
  ASSUME RingInd, NEW o \in Nat, NEW y \in Nat, NEW e \in Nat, Running(o, y, e)
  PROVE  /\ Last(o, y) \in Nat /\ Last(o, y) \in Fired /\ Last(o, y) \in Held
         /\ Last(o, y) \in Line(o, y) /\ e \in Fired /\ e \in Held
<1>1. Begun(o, y) /\ e \in Line(o, y) /\ n_ready <= e
  BY DEF Running, At
<1>2. e <= Last(o, y) /\ Last(o, y) \in Line(o, y) /\ Last(o, y) \in Nat /\ Last(o, y) <= Top /\ e <= Top
  BY <1>1, LineFacts
<1>3. n_ready <= Last(o, y)
  BY <1>1, <1>2 DEF RingInd, Types
<1> QED BY <1>1, <1>2, <1>3, ReadyFired DEF Fired

\* The doorbell that extends a walk with slack for it keeps law L7.
LEMMA LinkSafe ==
  ASSUME RingInd, ChainInv, ~Rung, slack2, n_fired < n_qsub,
         NEW o \in Nat, NEW y \in Nat, NEW e \in Nat, Running(o, y, e)
  PROVE  LET next == [nxt EXCEPT ![fire_tail] = dfirst(n_fired)]
         IN  PredOf(fire_tail, next) = NULL \/ ~done[PredOf(fire_tail, next)]
<1> DEFINE T == Last(o, y)
           c == fire_tail
           next == [nxt EXCEPT ![c] = dfirst(n_fired)]
           B == MaxGroups * NDesc + NDesc
<1>1. /\ T \in Nat /\ T \in Fired /\ T \in Held /\ T \in Line(o, y)
  BY LastFired
<1>2. Begun(o, y) /\ Linked(o, y, e)
  BY DEF Running
<1>3. c = dlast(T) /\ (span[T] > 1 => fire_tail_pred = dlast(T) - 1)
      /\ (span[T] = 1 /\ T # o => fire_tail_pred = dlast(Before(o, y, T)))
  BY DEF Running, TailsKnown
<1>4. n_fired \in Held
  BY WindowHeld DEF RingInd, Types, Order
<1>5. c \in Pool /\ c \in Descs(T) /\ next \in [Pool -> Pool \cup {NULL}]
  <2>1. c \in Pool /\ c \in Descs(T) /\ dfirst(n_fired) \in Pool
    BY <1>1, <1>3, <1>4, HeldFacts
  <2> QED BY <2>1 DEF ChainInv, EngTypes
<1>6. \A d \in Pool : d # c => next[d] = nxt[d]
  BY <1>5 DEF ChainInv, EngTypes
<1>7. Top \in Int /\ Top < n_qsub /\ n_qsub \in Nat
  BY TopFacts
<1>8. PICK h \in Held : dfirst(h) = dfirst(o) /\ (h = o \/ o + NSlots <= h)
  BY <1>2, <1>7, Tenant DEF Begun
<1>9. h \in Nat /\ head = dfirst(h) /\ head \in Descs(h)
  BY <1>2, <1>8, HeldFacts DEF Begun
<1>10. \A g \in Held : \A d \in Descs(g) :
         /\ d \in Pool /\ d \in Nat /\ g \in Groups /\ src[d] = g /\ dlast(g) \in Nat
         /\ (d < dlast(g) => nxt[d] = d + 1 /\ d + 1 \in Descs(g))
         /\ (d < dlast(g) \/ d = dlast(g))
  <2> SUFFICES ASSUME NEW g \in Held, NEW d \in Descs(g)
               PROVE  /\ d \in Pool /\ d \in Nat /\ g \in Groups /\ src[d] = g /\ dlast(g) \in Nat
                      /\ (d < dlast(g) => nxt[d] = d + 1 /\ d + 1 \in Descs(g))
                      /\ (d < dlast(g) \/ d = dlast(g))
    OBVIOUS
  <2>1. dfirst(g) \in Nat /\ dlast(g) \in Nat /\ Descs(g) \subseteq Pool /\ g \in Groups
    BY HeldFacts
  <2>2. src[d] = g /\ (d < dlast(g) => nxt[d] = d + 1)
    BY DEF ChainInv, Filled
  <2> QED BY <2>1, <2>2 DEF Descs
<1> HIDE DEF T, c, next
<1>11. CASE h <= Top
  <2> DEFINE K == {k \in Line(o, y) : h <= k}
             S == UNION {Descs(k) : k \in K}
             rank == [d \in S |-> src[d] * NDesc + d]
  <2>1. h \in Line(o, y)
    <3>1. h = o \/ y <= h
      BY <1>2, <1>8, <1>9, EngineAssumption DEF Begun
    <3> QED BY <1>7, <1>9, <1>11, <3>1 DEF Line
  <2>2. \A k \in K : k \in Nat /\ k \in Line(o, y) /\ k \in Fired /\ k \in Held
    <3> SUFFICES ASSUME NEW k \in K PROVE k \in Nat /\ k \in Line(o, y) /\ k \in Fired /\ k \in Held
      OBVIOUS
    <3>1. k \in Nat /\ k <= Top /\ k \in Line(o, y) /\ h <= k
      BY <1>2, <1>9, <2>1, LineFacts
    <3>2. h \in Fired
      BY <1>11 DEF Fired
    <3> QED BY <3>1, <3>2, FiredUp DEF Fired
  <2>3. head \in S
    BY <1>9, <2>1
  <2>4. S \subseteq Pool
    BY <1>10, <2>2
  <2>5. ASSUME NEW k \in K, NEW d \in Descs(k), d # c, next[d] # NULL
        PROVE  \/ next[d] = d + 1 /\ d + 1 \in Descs(k)
               \/ /\ d = dlast(k) /\ next[d] = dfirst(After(o, y, k)) /\ k < After(o, y, k)
                  /\ After(o, y, k) \in K
    <3>1. k \in Held /\ k \in Fired /\ k \in Line(o, y) /\ d \in Pool /\ next[d] = nxt[d]
      BY <1>6, <1>10, <2>2, <2>5
    <3>2. CASE d < dlast(k)
      BY <1>10, <3>1, <3>2
    <3>3. CASE d = dlast(k)
      <4>1. nxt[d] = IF After(o, y, k) <= Top THEN dfirst(After(o, y, k)) ELSE NULL
        BY <1>2, <3>1, <3>3 DEF Linked
      <4>2. After(o, y, k) <= Top /\ nxt[d] = dfirst(After(o, y, k))
        BY <2>5, <3>1, <4>1
      <4>3. k < After(o, y, k) /\ After(o, y, k) \in Nat /\ After(o, y, k) \in Line(o, y)
        BY <1>2, <2>2, <3>1, <4>2, LineFacts
      <4>4. h <= k /\ k \in Nat
        BY <2>2
      <4>5. h <= After(o, y, k)
        BY <1>9, <4>3, <4>4
      <4> QED BY <3>1, <3>3, <4>2, <4>3, <4>5
    <3> QED BY <1>10, <3>1, <3>2, <3>3
  <2>6. rank \in [S -> 0 .. B] /\ B \in Nat
    <3> SUFFICES ASSUME NEW k \in K, NEW d \in Descs(k) PROVE src[d] * NDesc + d \in 0 .. B /\ B \in Nat
      <4>1. dfirst(h) \in Descs(h) /\ h \in K
        BY <1>9, <2>1
      <4> QED BY <4>1
    <3>1. k \in Groups /\ d \in Pool /\ src[d] = k
      BY <1>10, <2>2
    <3> QED BY <3>1, RankFacts
  <2>7. ASSUME NEW d \in S, d # c, next[d] # NULL PROVE next[d] \in S /\ rank[d] < rank[next[d]]
    <3>1. PICK k \in K : d \in Descs(k)
      OBVIOUS
    <3>2. k \in Groups /\ d \in Pool /\ src[d] = k
      BY <1>10, <2>2, <3>1
    <3>3. CASE next[d] = d + 1 /\ d + 1 \in Descs(k)
      <4>1. d + 1 \in S /\ src[d + 1] = k
        BY <1>10, <2>2, <3>3
      <4>2. rank[d] = k * NDesc + d /\ rank[d + 1] = k * NDesc + (d + 1)
        BY <3>2, <4>1
      <4>3. k * NDesc + d < k * NDesc + (d + 1)
        BY <3>2, RankFacts
      <4> HIDE DEF rank, S
      <4> QED BY <3>3, <4>1, <4>2, <4>3
    <3>4. ASSUME d = dlast(k), NEW a \in K, a = After(o, y, k), next[d] = dfirst(a), k < a
          PROVE  next[d] \in S /\ rank[d] < rank[next[d]]
      <4>1. a \in Held /\ dfirst(a) \in Descs(a)
        BY <2>2, HeldFacts
      <4>2. dfirst(a) \in S /\ src[dfirst(a)] = a /\ a \in Groups /\ dfirst(a) \in Pool
        BY <1>10, <4>1
      <4>3. rank[d] = k * NDesc + d /\ rank[dfirst(a)] = a * NDesc + dfirst(a)
        BY <3>2, <4>2
      <4>4. k * NDesc + d < a * NDesc + dfirst(a)
        BY <3>2, <3>4, <4>2, RankFacts
      <4> HIDE DEF rank, S
      <4> QED BY <3>4, <4>2, <4>3, <4>4
    <3> QED BY <2>5, <2>7, <3>1, <3>3, <3>4
  <2>8. ASSUME NEW d \in S, d # c, next[d] \in {NULL, c} PROVE ~done[d]
    <3>1. PICK k \in K : d \in Descs(k)
      OBVIOUS
    <3>2. k \in Held /\ k \in Line(o, y) /\ k \in Fired /\ k \in Nat /\ d \in Pool /\ next[d] = nxt[d]
      BY <1>6, <1>10, <2>2, <2>8, <3>1
    <3>3. d = fire_tail_pred
      <4>1. CASE d < dlast(k)
        <5>1. nxt[d] = d + 1 /\ d + 1 \in Descs(k) /\ d + 1 # NULL /\ d \in Nat /\ dlast(k) \in Nat
          BY <1>10, <3>1, <3>2, <4>1 DEF NULL
        <5>2. c = d + 1
          BY <2>8, <3>2, <5>1
        <5>3. k = T
          BY <1>1, <1>5, <3>2, <5>1, <5>2, HeldApart
        <5>4. span[T] > 1
          <6>1. dlast(k) = dfirst(k) + span[k] - 1 /\ dfirst(k) \in Nat /\ span[k] \in Nat /\ dfirst(k) <= d
            BY <3>1, <3>2, HeldFacts DEF Descs
          <6> QED BY <4>1, <5>1, <5>3, <6>1
        <5> QED BY <1>3, <5>1, <5>2, <5>4
      <4>2. CASE d = dlast(k)
        <5> DEFINE a == After(o, y, k)
        <5>1. k # T
          BY <1>3, <2>8, <4>2
        <5>2. a <= Top /\ k < a /\ a \in Nat /\ a \in Line(o, y)
          <6>1. ~(a > Top) /\ k < a /\ a \in Nat /\ (a <= Top => a \in Line(o, y))
            BY <1>2, <3>2, <5>1, LineFacts DEF T
          <6> QED BY <1>7, <6>1
        <5>3. nxt[d] = dfirst(a)
          BY <1>2, <3>2, <4>2, <5>2 DEF Linked
        <5>4. a \in Held /\ dfirst(a) \in Descs(a) /\ dfirst(a) # NULL
          <6>1. h <= k /\ h \in Nat /\ k \in Nat
            BY <1>9, <3>2
          <6>2. h <= a
            BY <5>2, <6>1
          <6>3. a \in K
            BY <5>2, <6>2
          <6> QED BY <2>2, <6>3, HeldFacts
        <5>5. dfirst(a) = c
          BY <2>8, <3>2, <5>3, <5>4
        <5>6. a = T
          BY <1>1, <1>5, <5>4, <5>5, HeldApart
        <5>7. span[T] = 1
          <6>1. dlast(T) = dfirst(T) + span[T] - 1 /\ dfirst(T) \in Nat /\ span[T] \in Nat
            BY <1>1, HeldFacts
          <6> QED BY <1>3, <5>5, <5>6, <6>1
        <5>8. T # o /\ Before(o, y, T) = k
          <6>1. a = IF k = o THEN y ELSE k + 1
            BY DEF After
          <6>2. k = o \/ (y <= k /\ k <= Top)
            BY <3>2 DEF Line
          <6>3. o < y
            BY <1>2 DEF Begun
          <6> HIDE DEF a
          <6> QED BY <3>2, <5>6, <6>1, <6>2, <6>3 DEF Before
        <5> QED BY <1>3, <4>2, <5>7, <5>8
      <4> QED BY <1>10, <3>1, <3>2, <4>1, <4>2
    <3>4. d # NULL
      BY <3>1, <3>2, <1>10 DEF NULL
    <3> QED BY <3>3, <3>4 DEF slack2
  <2> HIDE DEF S, rank, B
  <2> QED BY <1>5, <2>3, <2>4, <2>6, <2>7, <2>8, PredSafe DEF c, next
<1>12. CASE Top < h
  <2> DEFINE S == Descs(h)
             rank == [d \in S |-> src[d] * NDesc + d]
  <2>1. Untouched(h) /\ h # T
    BY <1>1, <1>7, <1>9, <1>12 DEF ChainInv, Fresh, Fired
  <2>2. \A d \in S : d \in Pool /\ d # c /\ next[d] = nxt[d] /\ ~done[d]
    BY <1>1, <1>5, <1>6, <1>10, <2>1, HeldApart DEF Untouched, Pure
  <2>3. rank \in [S -> 0 .. B] /\ B \in Nat
    <3> SUFFICES ASSUME NEW d \in S PROVE src[d] * NDesc + d \in 0 .. B /\ B \in Nat
      BY <1>9
    <3>1. h \in Groups /\ d \in Pool /\ src[d] = h
      BY <1>10
    <3> QED BY <3>1, RankFacts
  <2>4. ASSUME NEW d \in S, next[d] # NULL PROVE next[d] \in S /\ rank[d] < rank[next[d]]
    <3>1. next[d] = nxt[d] /\ h \in Groups /\ d \in Pool /\ src[d] = h
      BY <1>10, <2>2
    <3>2. d < dlast(h)
      <4>1. d = dlast(h) => nxt[d] = NULL
        BY <2>1 DEF Untouched
      <4> QED BY <1>10, <2>4, <3>1, <4>1
    <3>3. nxt[d] = d + 1 /\ d + 1 \in S /\ src[d + 1] = h
      BY <1>10, <3>2
    <3>4. rank[d] = h * NDesc + d /\ rank[d + 1] = h * NDesc + (d + 1)
      BY <3>1, <3>3
    <3>5. h * NDesc + d < h * NDesc + (d + 1)
      BY <3>1, RankFacts
    <3> HIDE DEF rank, S
    <3> QED BY <3>1, <3>3, <3>4, <3>5
  <2>5. S \subseteq Pool /\ head \in S
    BY <1>9, <2>2
  <2> HIDE DEF S, rank, B
  <2> QED BY <1>5, <2>2, <2>3, <2>4, <2>5, PredSafe DEF c, next
<1> QED BY <1>7, <1>9, <1>11, <1>12

LEMMA LinkChain ==
  ASSUME OneCaller, RingInd, ChainInv, NEW t \in Callers, pc[t] = "link", FireRing(t)
  PROVE  ChainInv'
<1>1. PICK ok \in BOOLEAN :
        /\ DmLink(fire_tail, dfirst(n_fired), ok)
        /\ Goto(t, IF ok THEN "rung" ELSE ret[t])
        /\ UNCHANGED <<span, cursors, tails>>
  BY DEF FireRing
<1>2. st = "RUN" /\ slack2 /\ EngTypes /\ n_fired < n_qsub /\ ~Rung
  BY OneRung DEF ChainInv, Polled, RingInd, Calls, CallAt, Firing
<1>3. PICK o \in Nat, y \in Nat, e \in Nat : Running(o, y, e)
  BY <1>2 DEF ChainInv, EngineAt, Rerun, Firing
<1>4. PICK u \in Nat : u = n_fired
  BY DEF RingInd, Types
<1>5. PICK T \in Nat : T = Last(o, y) /\ T \in Fired /\ T \in Held /\ T \in Line(o, y)
  BY <1>3, LastFired
<1>6. u \in Held /\ Top \in Int /\ u = Top + 1 /\ T <= Top /\ T # u
  <2>1. u \in Held
    BY <1>2, <1>4, WindowHeld DEF RingInd, Types, Order
  <2>2. Top \in Int /\ u = Top + 1
    BY <1>2, <1>4, TopFacts
  <2> QED BY <1>5, <2>1, <2>2 DEF Fired
<1>7. fire_tail = dlast(T) /\ fire_tail \in Pool /\ dfirst(u) \in Pool
  <2>1. fire_tail = dlast(T)
    BY <1>2, <1>3, <1>5 DEF Running, TailsKnown
  <2> QED BY <1>5, <1>6, <2>1, HeldFacts
<1>8. /\ ok /\ law' = 0 /\ UNCHANGED <<st, head, cur, done, src, single_shot>>
      /\ nxt' = [nxt EXCEPT ![dlast(T)] = dfirst(u)]
  <2>1. /\ nxt' = [nxt EXCEPT ![fire_tail] = dfirst(n_fired)]
        /\ ok = (~done[fire_tail] /\ (PredOf(fire_tail, nxt') = NULL \/ ~done[PredOf(fire_tail, nxt')]))
        /\ law' = IF ok THEN 0 ELSE 7
        /\ UNCHANGED <<st, head, cur, done, src, single_shot>>
    BY <1>1, <1>2, <1>4, <1>7 DEF DmLink, EngTypes, in_pool
  <2>2. PredOf(fire_tail, nxt') = NULL \/ ~done[PredOf(fire_tail, nxt')]
    BY <1>2, <1>3, <2>1, LinkSafe
  <2>3. ~done[fire_tail]
    BY <1>2 DEF slack2
  <2> QED BY <1>4, <1>7, <2>1, <2>2, <2>3
<1>9. Rung' /\ pc'[t] = "rung" /\ UNCHANGED <<span, n_qsub, n_fired, n_ready, fire_tail, fire_tail_pred>>
  <2>1. pc'[t] = "rung"
    BY <1>1, <1>8 DEF Goto, RingInd, Types
  <2> QED BY <1>1, <2>1, OneRung DEF cursors, tails
<1>10. Top' = u /\ Held' = Held /\ Fired' = Fired \cup {u}
  <2>1. Top' = u /\ Held' = Held
    BY <1>4, <1>9 DEF Top, Held
  <2>2. \A h \in Held : h <= u <=> h <= Top \/ h = u
    BY <1>6, HeldFacts
  <2>3. Fired = {h \in Held : h <= Top} /\ Fired' = {h \in Held : h <= u}
    BY <2>1 DEF Fired
  <2> QED BY <1>6, <2>1, <2>2, <2>3
<1>11. \A h : Pure(h)' = Pure(h) /\ Delivered(h)' = Delivered(h)
              /\ Descs(h)' = Descs(h) /\ dlast(h)' = dlast(h)
  BY <1>8, <1>9 DEF Pure, Delivered, Descs, dlast
<1>12. \A d \in Pool : d # dlast(T) => nxt'[d] = nxt[d]
  BY <1>2, <1>8 DEF EngTypes
<1>13. nxt'[dlast(T)] = dfirst(u) /\ nxt' \in [Pool -> Pool \cup {NULL}]
  BY <1>2, <1>7, <1>8 DEF EngTypes
<1>14. ASSUME NEW h \in Held, h # T
       PROVE  nxt'[dlast(h)] = nxt[dlast(h)] /\ Untouched(h)' = Untouched(h)
  <2>1. dlast(h) \in Pool /\ dlast(h) # dlast(T)
    BY <1>5, <1>14, HeldApart, HeldFacts
  <2> QED BY <1>11, <1>12, <2>1 DEF Untouched
<1>15. Untouched(u)
  BY <1>6 DEF ChainInv, Fresh
<1>16. EngTypes'
  BY <1>2, <1>8, <1>13 DEF EngTypes
<1>17. Filled'
  <2> SUFFICES ASSUME NEW h \in Held, NEW d \in Descs(h)
               PROVE  src[d] = h /\ (d < dlast(h) => nxt'[d] = d + 1)
    BY <1>8, <1>10, <1>11 DEF Filled
  <2>1. src[d] = h /\ (d < dlast(h) => nxt[d] = d + 1)
    BY DEF ChainInv, Filled
  <2>2. d < dlast(h) => d # dlast(T)
    <3>1. h # T => d # dlast(T)
      BY <1>5, HeldApart, HeldFacts
    <3>2. d < dlast(h) => d # dlast(h)
      BY HeldFacts
    <3> QED BY <3>1, <3>2
  <2> QED BY <1>12, <2>1, <2>2, HeldFacts
<1>18. Fresh'
  <2> SUFFICES ASSUME NEW h \in Held, u < h PROVE Untouched(h)'
    BY <1>10 DEF Fresh
  <2>1. Top < h /\ h # T
    BY <1>6, HeldFacts
  <2> QED BY <1>14, <2>1 DEF ChainInv, Fresh
<1>19. Counted'
  BY <1>9, <1>10, <1>11 DEF ChainInv, Counted
<1>20. Polled'
  BY <1>9 DEF Polled, OneCaller
<1>21. Begun(o, y) /\ At(o, y, e) /\ Linked(o, y, e) /\ Beside(o, y)
       /\ o < y /\ o <= Top /\ y <= u /\ e <= Top
  <2>1. Begun(o, y) /\ At(o, y, e) /\ Linked(o, y, e) /\ Beside(o, y)
    BY <1>3 DEF Running
  <2>2. e \in Line(o, y)
    BY <2>1 DEF At
  <2> QED BY <1>6, <2>1, <2>2, LineFacts DEF Begun
<1>22. Line(o, y)' = Line(o, y) \cup {u} /\ Last(o, y)' = u
  <2>1. y .. u = (y .. Top) \cup {u}
    BY <1>6, <1>21
  <2> QED BY <1>10, <1>21, <2>1 DEF Line, Last
<1>23. Begun(o, y)'
  BY <1>6, <1>8, <1>10, <1>21 DEF Begun
<1>24. At(o, y, e)'
  BY <1>8, <1>9, <1>11, <1>21, <1>22 DEF At
<1>25. Linked(o, y, e)'
  <2> SUFFICES ASSUME NEW k \in Line(o, y) \cup {u}, k \in Fired'
               PROVE  /\ nxt'[dlast(k)] = IF After(o, y, k) <= u THEN dfirst(After(o, y, k)) ELSE NULL
                      /\ k < e => Delivered(k)
                      /\ e < k => Pure(k)
    BY <1>10, <1>11, <1>22 DEF Linked, After
  <2>1. CASE k = u
    <3>1. ~(After(o, y, u) <= u) /\ ~(u < e)
      BY <1>6, <1>21 DEF After
    <3> QED BY <1>6, <1>14, <1>15, <2>1, <3>1 DEF Untouched
  <2>2. CASE k = T
    <3>1. After(o, y, T) = u
      BY <1>5, <1>6, <1>21 DEF After, Last
    <3> QED BY <1>5, <1>13, <1>21, <2>2, <3>1 DEF Linked
  <2>3. CASE k # u /\ k # T
    <3>1. k \in Line(o, y) /\ k \in Fired /\ k \in Held /\ k \in Nat
      BY <1>10, <2>3, TopFacts, HeldFacts
    <3>2. After(o, y, k) \in Nat /\ ~(After(o, y, k) > Top)
      BY <1>5, <1>21, <2>3, <3>1, LineFacts
    <3>3. After(o, y, k) <= Top /\ After(o, y, k) <= u
      BY <1>6, <3>2
    <3> QED BY <1>14, <1>21, <2>3, <3>1, <3>3 DEF Linked
  <2> QED BY <2>1, <2>2, <2>3
<1>26. Beside(o, y)'
  <2> SUFFICES ASSUME NEW g \in Fired', g \notin Line(o, y)' PROVE Rested(g)'
    BY DEF Beside
  <2>1. g \in Fired /\ g \notin Line(o, y) /\ g # T /\ g \in Held
    BY <1>5, <1>10, <1>22, TopFacts
  <2>2. Rested(g)
    BY <1>21, <2>1 DEF Beside
  <2>3. nxt'[dlast(g)] = nxt[dlast(g)] /\ Untouched(g)' = Untouched(g)
    BY <1>14, <2>1
  <2> QED BY <1>10, <1>11, <2>2, <2>3 DEF Rested, Over
<1>27. TailsKnown(o, y)'
  <2>1. Before(o, y, u) = T
    BY <1>5, <1>6, <1>21 DEF Before, Last
  <2>2. fire_tail' = dlast(T)'
    BY <1>7, <1>9, <1>11
  <2> QED BY <1>9, <1>10, <1>22, <2>1, <2>2 DEF TailsKnown, Before
<1>28. Running(o, y, e)'
  BY <1>23, <1>24, <1>25, <1>26, <1>27 DEF Running
<1>29. EngineAt'
  BY <1>2, <1>8, <1>28 DEF EngineAt
<1> QED BY <1>16, <1>17, <1>18, <1>19, <1>20, <1>29 DEF ChainInv

-----------------------------------------------------------------------------
LEMMA StutterChain == ASSUME ChainInv, UNCHANGED vars PROVE ChainInv'
<1>1. UNCHANGED <<engVars, span, n_qsub, n_fired, n_ready, tails, pc>>
  BY DEF vars, ringVars, cursors
<1>2. Rung' <=> Rung
  BY <1>1 DEF Rung
<1>3. Polled'
  BY <1>1 DEF ChainInv, Polled, slack2, engVars, tails
<1> QED BY <1>1, <1>2, <1>3, QuietStep DEF Rerun

LEMMA ChainInit == Init => ChainInv
<1> SUFFICES ASSUME Init PROVE ChainInv
  OBVIOUS
<1>1. Held = {} /\ Fired = {}
  <2>1. \A g \in Groups : ~(g < n_qsub)
    BY RingAssumption DEF Init, Groups
  <2> QED BY <2>1 DEF Held, Fired
<1>2. EngTypes
  BY DEF Init, EngInit, EngTypes
<1>3. Filled /\ Fresh /\ Counted /\ EngineAt
  BY <1>1 DEF Filled, Fresh, Counted, EngineAt, Init, EngInit
<1>4. Polled
  BY DEF Polled, Init
<1> QED BY <1>2, <1>3, <1>4 DEF ChainInv

LEMMA ChainStep ==
  ASSUME Generous, RingInd, RingInd', ChainInv, [Next]_vars PROVE ChainInv'
<1>1. OneCaller
  BY DEF Generous
<1>2. CASE UNCHANGED vars
  BY <1>2, StutterChain
<1>3. CASE Engine
  BY <1>1, <1>3, EngineChain
<1>4. ASSUME NEW t \in Callers, Call(t) PROVE ChainInv'
  BY <1>1, <1>4, ClaimCalls, QuietCalls DEF Call, Claims
<1>5. ASSUME NEW t \in Callers, Step(t) PROVE ChainInv'
  <2>1. CASE FireRing(t)
    <3>1. pc[t] = "link" \/ pc[t] = "start"
      BY <2>1 DEF FireRing
    <3> QED BY <1>1, <2>1, <3>1, LinkChain, StartChain
  <2> QED BY <1>1, <1>5, <2>1, FirePollChain, CommitChain, NeedTopChain, ClaimCalls, QuietCalls,
             RekickChain DEF Step, Claims
<1> QED BY <1>2, <1>3, <1>4, <1>5 DEF Next

\* The invariant that the theorems below rest on.
THEOREM ChainCorrect == ASSUME Generous PROVE Spec => [](RingInd /\ ChainInv)
<1>1. Init => RingInd /\ ChainInv
  BY RingInit, ChainInit
<1>2. RingInd /\ ChainInv /\ [Next]_vars => (RingInd /\ ChainInv)'
  BY RingStep, ChainStep DEF Generous
<1> QED BY <1>1, <1>2, PTL DEF Spec

\* With one caller and deadlines that outlast the transfers, no doorbell of fire
\* and no re-kick breaks a law of the engine, whatever doorbells are lost: a start
\* finds the engine parked (L1, L6), every pointer is in the pool (L5), and a link
\* finds the tail and the descriptor before it still to come (L7).
THEOREM LawsCorrect == ASSUME Generous PROVE Spec => []LawsKept
<1>1. RingInd /\ ChainInv => LawsKept
  BY DEF ChainInv, EngTypes, LawsKept
<1> QED BY <1>1, ChainCorrect, PTL

\* The groups that a running engine has still to walk are submitted ones.
LEMMA FlightGroups ==
  ASSUME RingInd, ChainInv, st = "RUN"
  PROVE  \E K \in SUBSET Fired :
           /\ \A k \in K : n_ready <= k
           /\ \E k \in K : cur \in Descs(k)
           /\ \A k \in K : nxt[dlast(k)] = NULL \/ \E h \in K : nxt[dlast(k)] = dfirst(h)
<1>1. ASSUME NEW o \in Nat, NEW y \in Nat, NEW e \in Nat, Running(o, y, e)
      PROVE  \E K \in SUBSET Fired :
               /\ \A k \in K : n_ready <= k
               /\ \E k \in K : cur \in Descs(k)
               /\ \A k \in K : nxt[dlast(k)] = NULL \/ \E h \in K : nxt[dlast(k)] = dfirst(h)
  <2> DEFINE K == {k \in Line(o, y) : e <= k}
  <2>1. Begun(o, y) /\ e \in Line(o, y) /\ n_ready <= e /\ cur \in Descs(e) /\ Linked(o, y, e)
    BY <1>1 DEF Running, At
  <2>2. \A k \in K : k \in Nat /\ k \in Line(o, y) /\ e <= k /\ n_ready <= k /\ k \in Fired
    <3> SUFFICES ASSUME NEW k \in K
                 PROVE  k \in Nat /\ k \in Line(o, y) /\ e <= k /\ n_ready <= k /\ k \in Fired
      OBVIOUS
    <3>1. k \in Nat /\ k <= Top /\ k \in Line(o, y) /\ e <= k
      BY <2>1, LineFacts
    <3>2. n_ready <= k
      BY <2>1, <3>1 DEF RingInd, Types
    <3> QED BY <3>1, <3>2, ReadyFired
  <2>3. ASSUME NEW k \in K, nxt[dlast(k)] # NULL PROVE \E h \in K : nxt[dlast(k)] = dfirst(h)
    <3> DEFINE a == After(o, y, k)
    <3>1. a <= Top /\ nxt[dlast(k)] = dfirst(a)
      BY <2>1, <2>2, <2>3 DEF Linked
    <3>2. a \in Line(o, y) /\ k < a /\ a \in Nat
      BY <2>1, <2>2, <3>1, LineFacts
    <3>3. e <= a
      BY <2>2, <3>2
    <3> QED BY <3>1, <3>2, <3>3
  <2>4. e \in K /\ K \in SUBSET Fired
    <3>1. e <= e
      OBVIOUS
    <3>2. \A k \in K : k \in Fired
      BY <2>2
    <3> QED BY <2>1, <3>1, <3>2
  <2> HIDE DEF K
  <2> QED BY <2>1, <2>2, <2>3, <2>4
<1>2. ASSUME NEW e \in Nat, Rerun(e)
      PROVE  \E K \in SUBSET Fired :
               /\ \A k \in K : n_ready <= k
               /\ \E k \in K : cur \in Descs(k)
               /\ \A k \in K : nxt[dlast(k)] = NULL \/ \E h \in K : nxt[dlast(k)] = dfirst(h)
  <2> DEFINE K == {k \in Fired : n_ready <= k /\ Delivered(k)}
  <2>1. e \in K /\ cur \in Descs(e) /\ \A g \in Fired : Rested(g)
    BY <1>2 DEF Rerun
  <2>2. ASSUME NEW k \in K, nxt[dlast(k)] # NULL PROVE \E h \in K : nxt[dlast(k)] = dfirst(h)
    <3>1. PICK h \in Fired : k < h /\ Delivered(h) /\ nxt[dlast(k)] = dfirst(h)
      BY <2>1, <2>2 DEF Rested, Over, Untouched
    <3>2. n_ready <= k /\ n_ready \in Nat /\ k \in Nat /\ h \in Nat
      BY TopFacts, HeldFacts
    <3>3. n_ready <= h
      BY <3>1, <3>2
    <3> QED BY <3>1, <3>3
  <2>3. K \in SUBSET Fired /\ \A k \in K : n_ready <= k
    OBVIOUS
  <2> HIDE DEF K
  <2> QED BY <2>1, <2>2, <2>3
<1> QED BY <1>1, <1>2 DEF ChainInv, EngineAt

LEMMA InFlightSubmitted == ASSUME RingInd, ChainInv PROVE NoReuseInFlight
<1> SUFFICES ASSUME st = "RUN", NEW d \in Chain(cur)
             PROVE  \E g \in Groups : /\ d \in Descs(g) /\ src[d] = g
                                      /\ state[g] \in {"SUBMIT", "READY"} \/ Submitting(g)
  BY DEF NoReuseInFlight, InFlight
<1>1. PICK K \in SUBSET Fired :
        /\ \A k \in K : n_ready <= k
        /\ \E k \in K : cur \in Descs(k)
        /\ \A k \in K : nxt[dlast(k)] = NULL \/ \E h \in K : nxt[dlast(k)] = dfirst(h)
  BY FlightGroups
<1> DEFINE S == UNION {Descs(k) : k \in K}
<1>2. \A k \in K : k \in Held /\ k \in Fired
  BY TopFacts
<1>3. S \in SUBSET Pool /\ cur \in S
  BY <1>1, <1>2, HeldFacts
<1>4. ASSUME NEW f \in S, nxt[f] # NULL PROVE nxt[f] \in S
  <2>1. PICK k \in K : f \in Descs(k)
    OBVIOUS
  <2>2. dfirst(k) \in Nat /\ dlast(k) \in Nat
    BY <1>2, HeldFacts
  <2>3. f < dlast(k) \/ f = dlast(k)
    BY <2>1, <2>2 DEF Descs
  <2>4. CASE f < dlast(k)
    <3>1. nxt[f] = f + 1
      BY <1>2, <2>1, <2>4 DEF ChainInv, Filled
    <3>2. f + 1 \in Descs(k)
      BY <2>1, <2>2, <2>4 DEF Descs
    <3> QED BY <3>1, <3>2
  <2>5. CASE f = dlast(k)
    <3>1. PICK h \in K : nxt[f] = dfirst(h)
      BY <1>1, <1>4, <2>5
    <3>2. dfirst(h) \in Descs(h)
      BY <1>2, HeldFacts
    <3> QED BY <3>1, <3>2
  <2> QED BY <2>3, <2>4, <2>5
<1>5. d \in S
  <2> HIDE DEF S
  <2>1. Met(cur, nxt, NULL) \subseteq S
    BY <1>3, <1>4, MetWithin
  <2> QED BY <2>1 DEF Chain
<1>6. PICK g \in K : d \in Descs(g)
  BY <1>5
<1>7. g \in Groups /\ g \in Nat /\ src[d] = g /\ n_ready <= g /\ g <= Top
  <2>1. g \in Groups /\ g \in Nat
    BY <1>2, HeldFacts
  <2>2. src[d] = g
    BY <1>2, <1>6 DEF ChainInv, Filled
  <2> QED BY <1>1, <1>2, <2>1, <2>2 DEF Fired
<1>8. state[g] = "SUBMIT" \/ Submitting(g)
  <2>1. CASE g < n_fired
    BY <1>7, <2>1 DEF RingInd, Shape
  <2>2. CASE ~(g < n_fired)
    <3>1. g = n_fired /\ Rung
      BY <1>7, <2>2, TopFacts
    <3> QED BY <3>1 DEF Submitting, Rung
  <2> QED BY <2>1, <2>2
<1> QED BY <1>6, <1>7, <1>8

\* Under the same hypotheses, claim never rewrites a descriptor that the engine has
\* still to walk: each one belongs to the group that claim filled it for, and that
\* group is submitted or being submitted, never one that waits in the ring or one
\* that has been given back.
THEOREM InFlightCorrect == ASSUME Generous PROVE Spec => []NoReuseInFlight
<1>1. RingInd /\ ChainInv => NoReuseInFlight
  BY InFlightSubmitted
<1> QED BY <1>1, ChainCorrect, PTL

-----------------------------------------------------------------------------
(***************************************************************************)
(* Types.  They do not depend on the deadlines.                            *)
(***************************************************************************)
MemType == mem \in [Units -> (Groups \cup {NULL}) \X (0 .. DpSlot - 1)]
EngState ==
  /\ st \in {"IDLE", "RUN", "RETIRE"}
  /\ head \in Pool \cup {NULL} /\ cur \in Pool \cup {NULL}
  /\ st = "RUN" => cur \in Pool
  /\ DescTypes
  /\ single_shot \in BOOLEAN
  /\ law \in {0, 1, 5, 6, 7}
  /\ lost \in 0 .. MaxLost
  /\ MemType
CallState ==
  /\ fire_tail_pred \in Pool \cup {NULL}
  /\ fire_depth_boost \in BOOLEAN /\ failed \in BOOLEAN
  /\ arg \in [Callers -> 0 .. MaxGroups]
  /\ rekicked \in [Callers -> BOOLEAN]

LEMMA EngineTypes == ASSUME EngState, EngComplete \/ EngRetire PROVE EngState'
<1>1. CASE EngRetire
  BY <1>1 DEF EngState, EngRetire, DescTypes, MemType
<1>2. CASE EngComplete
  <2>1. cur \in Pool /\ nxt \in [Pool -> Pool \cup {NULL}] /\ done \in [Pool -> BOOLEAN]
        /\ src \in [Pool -> Groups \cup {NULL}] /\ st = "RUN"
    BY <1>2 DEF EngState, EngComplete, DescTypes
  <2>2. UNCHANGED <<head, nxt, src, law, lost>> /\ done' = [done EXCEPT ![cur] = TRUE]
    BY <1>2 DEF EngComplete
  <2>3. DescTypes'
    BY <2>1, <2>2 DEF DescTypes
  <2>4. MemType'
    <3>1. cur % DpSlot \in 0 .. DpSlot - 1
      <4>1. cur \in Int
        BY <2>1 DEF Pool
      <4> QED BY <4>1, EngineAssumption
    <3>2. <<src[cur], cur % DpSlot>> \in (Groups \cup {NULL}) \X (0 .. DpSlot - 1)
      BY <2>1, <3>1
    <3>3. mem' = [mem EXCEPT ![Dst(cur)] = <<src[cur], cur % DpSlot>>]
      BY <1>2 DEF EngComplete
    <3> QED BY <3>2, <3>3 DEF EngState, MemType
  <2>5. st' \in {"IDLE", "RUN", "RETIRE"} /\ cur' \in Pool /\ single_shot' \in BOOLEAN
    <3>1. nxt[cur] \in Pool \cup {NULL}
      BY <2>1
    <3> QED BY <1>2, <2>1, <3>1 DEF EngState, EngComplete
  <2> QED BY <2>2, <2>3, <2>4, <2>5 DEF EngState
<1> QED BY <1>1, <1>2

LEMMA StartTypes ==
  ASSUME EngState, NEW d, NEW ok \in BOOLEAN, DmWaitStart(d, ok) PROVE EngState'
<1>1. DescTypes' /\ MemType'
  BY DEF DmWaitStart, EngState, DescTypes, MemType
<1>2. st' \in {"IDLE", "RUN", "RETIRE"} /\ head' \in Pool \cup {NULL} /\ cur' \in Pool \cup {NULL}
      /\ (st' = "RUN" => cur' \in Pool) /\ single_shot' \in BOOLEAN /\ law' \in {0, 1, 5, 6, 7}
  BY DEF DmWaitStart, EngState, DmWait, in_pool
<1>3. lost' \in 0 .. MaxLost
  BY EngineAssumption DEF DmWaitStart, EngState
<1> QED BY <1>1, <1>2, <1>3 DEF EngState

LEMMA LinkTypes ==
  ASSUME EngState, NEW c, NEW d, NEW ok \in BOOLEAN, DmLink(c, d, ok) PROVE EngState'
<1>1. UNCHANGED <<done, src, mem>>
  BY DEF DmLink
<1>2. nxt' = nxt \/ (c \in Pool /\ d \in Pool /\ nxt' = [nxt EXCEPT ![c] = d])
  BY DEF DmLink, in_pool
<1>3. DescTypes' /\ MemType'
  BY <1>1, <1>2 DEF EngState, DescTypes, MemType
<1>4. lost' \in 0 .. MaxLost
  <2>1. lost' = lost \/ (lost < MaxLost /\ lost' = lost + 1)
    BY DEF DmLink
  <2> QED BY <2>1, EngineAssumption DEF EngState
<1>5. law' \in {0, 1, 5, 6, 7}
  BY DEF DmLink, EngState
<1>6. \/ UNCHANGED <<st, head, cur, single_shot>>
      \/ st' = "RUN" /\ single_shot' = TRUE /\ head' \in {c, d} /\ cur' = head' /\ c \in Pool /\ d \in Pool
  BY DEF DmLink, in_pool
<1> QED BY <1>3, <1>4, <1>5, <1>6 DEF EngState

LEMMA ClaimTypes ==
  ASSUME RingInd, RingInd', EngState, NEW t \in Callers, Claims(t)
  PROVE  EngState' /\ (failed \in BOOLEAN => failed' \in BOOLEAN)
<1>1. PICK stt, boost : claim(n_enq', n_rel', span', stt, boost)
  BY ClaimsEffect
<1>2. \A g \in Groups : g < n_qsub => span'[g] = span[g]
  <2>1. \A g \in Groups : g < n_qsub => g < n_enq
    BY RingAssumption DEF Groups, RingInd, Types, Order
  <2> QED BY <2>1, ClaimsEffect
<1>3. n_qsub <= n_qsub' /\ n_ready' = n_ready
  BY ClaimsEffect
<1>4. DescTypes'
  BY <1>1, <1>2, <1>3, ClaimDescs DEF EngState, DescTypes
<1>5. UNCHANGED <<st, head, cur, single_shot, law, lost, mem>>
  BY <1>1 DEF claim
<1>6. failed' \in BOOLEAN
  BY <1>1 DEF claim
<1> QED BY <1>4, <1>5, <1>6 DEF EngState, MemType

\* The descriptor before the last one of a group with more than one.
LEMMA PredInPool ==
  ASSUME RingInd, NEW g \in Groups, g < n_qsub
  PROVE  span[g] > 1 => dlast(g) - 1 \in Pool
<1> SUFFICES ASSUME span[g] > 1 PROVE dlast(g) - 1 \in Pool
  OBVIOUS
<1>1. g \in Nat /\ span[g] \in Nat /\ span[g] <= DpSlot /\ DpSlot \in Nat
  BY RingAssumption, EngineAssumption DEF Groups, RingInd, Types, Fits
<1>2. span[g] - 1 \in 1 .. DpSlot
  BY <1>1
<1>3. dfirst(g) + (span[g] - 1) - 1 \in Pool
  BY <1>1, <1>2, LastInPool
<1>4. dfirst(g) \in Int
  <2>1. g % NSlots \in Nat
    BY <1>1, EngineAssumption
  <2>2. \A x \in Nat : x * DpSlot \in Nat
    BY EngineAssumption, SMT
  <2> QED BY <2>1, <2>2 DEF dfirst
<1>5. dlast(g) - 1 = dfirst(g) + (span[g] - 1) - 1
  BY <1>1, <1>4 DEF dlast
<1> QED BY <1>3, <1>5

LEMMA ReturnTypes ==
  ASSUME CallState, NEW t \in Callers, NEW ready, NeedReturns(t, ready)
  PROVE  arg' \in [Callers -> 0 .. MaxGroups] /\ rekicked' \in [Callers -> BOOLEAN]
<1>1. 0 \in 0 .. MaxGroups
  BY RingAssumption
<1>2. CASE UNCHANGED locals
  BY <1>2 DEF CallState, locals
<1>3. CASE Leave(t)
  BY <1>1, <1>3 DEF CallState, Leave
<1> QED BY <1>2, <1>3 DEF NeedReturns

LEMMA CallTypes ==
  ASSUME RingInd, RingInd', EngState, CallState, NEW t \in Callers, Call(t) \/ Step(t)
  PROVE  EngState' /\ CallState'
<1>0. n_enq \in Nat /\ n_enq <= MaxGroups /\ MaxGroups \in Nat /\ n_rel \in 0 .. MaxGroups
  BY RingAssumption DEF RingInd, Types, Order
<1>1. CASE Claims(t)
  <2>1. EngState' /\ failed' \in BOOLEAN
    BY <1>1, ClaimTypes DEF CallState
  <2>2. fire_depth_boost' \in BOOLEAN /\ fire_tail_pred' = fire_tail_pred /\ rekicked' = rekicked
    BY <1>1 DEF Claims, ring_enqueue, ring_release, ring_on_serial_phase, NeedClaim, DrainRelease, Release,
            CallState, tails, locals
  <2>3. arg' \in [Callers -> 0 .. MaxGroups]
    <3>1. CASE DrainRelease(t)
      <4>1. pc[t] = "drain_rel" /\ arg' = [arg EXCEPT ![t] = arg[t] + 1]
        BY <3>1 DEF DrainRelease
      <4>2. arg[t] < n_enq /\ arg[t] \in 0 .. MaxGroups
        BY <4>1 DEF RingInd, Calls, CallAt, Waits, CallState
      <4>3. arg[t] + 1 \in 0 .. MaxGroups
        BY <1>0, <4>2
      <4> QED BY <4>1, <4>3 DEF CallState
    <3>2. CASE ~DrainRelease(t)
      BY <1>1, <3>2 DEF Claims, ring_enqueue, ring_release, ring_on_serial_phase, NeedClaim, CallState, locals
    <3> QED BY <3>1, <3>2
  <2> QED BY <2>1, <2>2, <2>3 DEF CallState
<1>2. CASE FirePoll(t) \/ SerialFireAgain(t) \/ NeedSpin(t) \/ Spun(t)
  BY <1>2 DEF FirePoll, SerialFireAgain, NeedSpin, Spun, engVars, tails, locals, EngState, CallState,
          DescTypes, MemType
<1>3. CASE FireRing(t)
  <2>1. EngState'
    BY <1>3, StartTypes, LinkTypes DEF FireRing
  <2>2. CallState'
    BY <1>3 DEF FireRing, CallState, tails, locals
  <2> QED BY <2>1, <2>2
<1>4. CASE FireCommit(t)
  <2>1. n_fired \in Groups /\ n_fired < n_qsub
    <3>1. pc[t] \in Firing
      BY <1>4 DEF FireCommit, Firing
    <3>2. n_fired < n_qsub
      BY <3>1 DEF RingInd, Calls, CallAt
    <3> QED BY <3>2, RingAssumption DEF RingInd, Types, Order, Groups
  <2>2. fire_tail_pred' \in Pool \cup {NULL}
    BY <1>4, <2>1, PredInPool DEF FireCommit, RingInd, Tails, in_pool
  <2>3. UNCHANGED <<engVars, fire_depth_boost, failed, arg, rekicked>>
    BY <1>4 DEF FireCommit, locals
  <2> QED BY <2>2, <2>3 DEF EngState, CallState, engVars, DescTypes, MemType
<1>5. CASE NeedTop(t) \/ NeedGivesUp(t)
  <2>1. UNCHANGED <<engVars, failed, fire_tail_pred>> /\ fire_depth_boost' \in BOOLEAN
    BY <1>5 DEF NeedTop, NeedGivesUp, tails, CallState
  <2>2. arg' \in [Callers -> 0 .. MaxGroups] /\ rekicked' \in [Callers -> BOOLEAN]
    <3>1. (\E ready \in BOOLEAN : NeedReturns(t, ready)) \/ UNCHANGED locals
      BY <1>5 DEF NeedTop, NeedGivesUp
    <3> QED BY <3>1, ReturnTypes DEF CallState, locals
  <2> QED BY <2>1, <2>2 DEF EngState, CallState, engVars, DescTypes, MemType
<1>6. CASE NeedRekick(t)
  <2>1. PICK ok \in BOOLEAN :
          /\ DmWaitStart(dfirst(arg[t]), ok)
          /\ IF ok
             THEN /\ fire_tail_pred' = IF span[arg[t]] > 1 THEN dlast(arg[t]) - 1 ELSE NULL
                  /\ rekicked' = [rekicked EXCEPT ![t] = TRUE]
                  /\ UNCHANGED arg
             ELSE NeedReturns(t, FALSE) /\ UNCHANGED fire_tail_pred
    BY <1>6 DEF NeedRekick, tails
  <2>2. arg[t] \in Groups /\ arg[t] < n_qsub
    <3>1. pc[t] = "need_late" /\ state[arg[t]] = "SUBMIT"
      BY <1>6 DEF NeedRekick, Late, CanRekick
    <3>2. arg[t] < n_enq /\ arg[t] \in Nat
      BY <3>1 DEF RingInd, Types, Calls, CallAt, Waits, Needing
    <3>3. arg[t] \in Groups
      BY <1>0, <3>2 DEF Groups
    <3> QED BY <3>1, <3>2, <3>3 DEF RingInd, Types, Shape
  <2>3. fire_tail_pred' \in Pool \cup {NULL}
    BY <2>1, <2>2, PredInPool DEF CallState
  <2>4. arg' \in [Callers -> 0 .. MaxGroups] /\ rekicked' \in [Callers -> BOOLEAN]
    BY <2>1, ReturnTypes DEF CallState
  <2>5. UNCHANGED <<fire_depth_boost, failed>> /\ EngState'
    BY <1>6, <2>1, StartTypes DEF NeedRekick
  <2> QED BY <2>3, <2>4, <2>5 DEF CallState
<1>7. CASE ring_need(t) \/ ring_drain_to(t) \/ DrainNext(t)
  <2>1. UNCHANGED <<engVars, tails, fire_depth_boost, failed>>
    BY <1>7 DEF ring_need, ring_drain_to, DrainNext
  <2>2. arg' \in [Callers -> 0 .. MaxGroups] /\ rekicked' \in [Callers -> BOOLEAN]
    <3>1. CASE ring_need(t)
      <4>1. \A g \in 0 .. n_enq - 1 : g \in 0 .. MaxGroups
        BY <1>0
      <4> QED BY <3>1, <4>1 DEF ring_need, CallState
    <3>2. CASE ring_drain_to(t)
      BY <1>0, <3>2 DEF ring_drain_to, CallState
    <3>3. CASE DrainNext(t)
      <4>1. 0 \in 0 .. MaxGroups
        BY <1>0
      <4> QED BY <3>3, <4>1 DEF DrainNext, Leave, CallState
    <3> QED BY <1>7, <3>1, <3>2, <3>3
  <2> QED BY <2>1, <2>2 DEF EngState, CallState, engVars, tails, DescTypes, MemType
<1> QED BY <1>1, <1>2, <1>3, <1>4, <1>5, <1>6, <1>7 DEF Call, Step, Claims

LEMMA TypesInit == Init => EngState /\ CallState
<1> SUFFICES ASSUME Init PROVE EngState /\ CallState
  OBVIOUS
<1>1. MemType
  BY EngineAssumption DEF Init, EngInit, MemType, Nothing
<1>2. lost \in 0 .. MaxLost
  BY EngineAssumption DEF Init, EngInit
<1>3. DescTypes
  BY DEF Init, EngInit, DescTypes
<1>4. EngState
  BY <1>1, <1>2, <1>3 DEF Init, EngInit, EngState
<1>5. CallState
  <2>1. 0 \in 0 .. MaxGroups
    BY RingAssumption
  <2> QED BY <2>1 DEF Init, CallState
<1> QED BY <1>4, <1>5

LEMMA TypesStep ==
  ASSUME RingInd, RingInd', EngState, CallState, [Next]_vars PROVE EngState' /\ CallState'
<1>1. CASE UNCHANGED vars
  BY <1>1 DEF vars, engVars, ringVars, tails, locals, EngState, CallState, DescTypes, MemType
<1>2. CASE Engine
  <2>1. EngState'
    BY <1>2, EngineTypes DEF Engine
  <2>2. CallState'
    BY <1>2 DEF Engine, ringVars, tails, locals, CallState
  <2> QED BY <2>1, <2>2
<1>3. ASSUME NEW t \in Callers, Call(t) \/ Step(t) PROVE EngState' /\ CallState'
  BY <1>3, CallTypes
<1> QED BY <1>1, <1>2, <1>3 DEF Next

LEMMA TypesFull == ASSUME RingInd, EngState, CallState PROVE TypeOK
<1>1. /\ n_enq \in 0 .. MaxGroups /\ n_qsub \in 0 .. MaxGroups /\ n_fired \in 0 .. MaxGroups
      /\ n_ready \in 0 .. MaxGroups /\ n_rel \in 0 .. MaxGroups
  BY RingAssumption DEF RingInd, Types, Order
<1>2. fire_tail \in Pool \cup {NULL}
  BY DEF RingInd, Tails, in_pool
<1>3. state \in [Groups -> States] /\ span \in [Groups -> Nat \ {0}] /\ pc \in [Callers -> Labels]
      /\ ret \in [Callers -> Labels] /\ upto \in [Callers -> Groups \cup {NULL}]
  BY DEF RingInd, Types
<1> QED BY <1>1, <1>2, <1>3 DEF TypeOK, EngState, CallState, DescTypes, MemType

\* With one caller, and for deadlines of any length, every variable of the ring and
\* of the engine keeps its type: the cursors stay in the group table, the pointers
\* in the descriptor pool, and no more doorbells are lost than the fault swallows.
THEOREM TypesCorrect == ASSUME OneCaller PROVE Spec => []TypeOK
<1>1. Init => RingInd /\ EngState /\ CallState
  BY RingInit, TypesInit
<1>2. (RingInd /\ EngState /\ CallState) /\ [Next]_vars => (RingInd /\ EngState /\ CallState)'
  BY RingStep, TypesStep
<1>3. RingInd /\ EngState /\ CallState => TypeOK
  BY TypesFull
<1> QED BY <1>1, <1>2, <1>3, PTL DEF Spec

-----------------------------------------------------------------------------
(***************************************************************************)
(* What the staging memory holds.                                          *)
(***************************************************************************)
\* The groups given back are gone, and what a held group has transferred is in
\* its slot.
RelGone == \A g \in Groups : g < n_rel => state[g] = "GONE"
MemOK == FitSlots => \A g \in Held : done[dfirst(g)] => mem[g % NSlots] = <<g, 0>>
ReadInv == RelGone /\ MemOK

\* Where the only descriptor of a group writes.
LEMMA DstFirst ==
  ASSUME NEW g \in Nat
  PROVE  Dst(dfirst(g)) = g % NSlots /\ dfirst(g) % DpSlot = 0 /\ g % NSlots \in Units
<1>1. g % NSlots \in 0 .. NSlots - 1
  BY EngineAssumption
<1>2. PICK s \in Nat \ {0} : s = DpSlot
  BY EngineAssumption
<1>3. PICK x \in Nat : x = g % NSlots
  BY <1>1, EngineAssumption
<1>4. PICK z \in Int : z = x * s
  BY SMT
<1>5. z = s * (z \div s) + (z % s) /\ z % s \in 0 .. s - 1 /\ z \div s \in Int
  BY SMT
<1>6. ASSUME NEW p \in Int, NEW r \in 0 .. s - 1, x * s = s * p + r PROVE p = x /\ r = 0
  <2>1. s * (x - p) = r
    BY <1>6, SMT
  <2>2. PICK w \in Int : w = x - p
    OBVIOUS
  <2>3. (w > 0 => s * w >= s) /\ (w < 0 => s * w < 0) /\ (w = 0 => s * w = 0)
    BY SMT
  <2> QED BY <2>1, <2>2, <2>3
<1>7. z \div s = x /\ z % s = 0
  BY <1>4, <1>5, <1>6
<1> QED BY <1>1, <1>2, <1>3, <1>4, <1>7, EngineAssumption DEF dfirst, Dst, Units

\* The steps that neither claim nor complete leave what the invariant looks at,
\* except for the state of groups that are not given back.
LEMMA ReadKept ==
  ASSUME ReadInv, UNCHANGED <<done, mem, span, n_enq, n_qsub, n_rel>>,
         \A g \in Groups : g < n_rel /\ state[g] = "GONE" => state'[g] = "GONE"
  PROVE  ReadInv'
  BY DEF ReadInv, RelGone, MemOK, FitSlots, Held

LEMMA ReadCall ==
  ASSUME RingInd, ReadInv, NEW t \in Callers,
         \/ FirePoll(t) \/ FireRing(t) \/ SerialFireAgain(t) \/ NeedSpin(t) \/ Spun(t)
         \/ NeedRekick(t) \/ NeedGivesUp(t) \/ DrainNext(t) \/ ring_need(t) \/ ring_drain_to(t)
  PROVE  ReadInv'
<1>1. UNCHANGED <<done, mem, span, n_enq, n_qsub, n_rel, state>>
  BY DEF FirePoll, FireRing, SerialFireAgain, NeedSpin, Spun, NeedRekick, NeedGivesUp, DrainNext,
         ring_need, ring_drain_to, DmLink, DmWaitStart, engVars, cursors
<1> QED BY <1>1, ReadKept

LEMMA ReadCommit ==
  ASSUME RingInd, ReadInv, NEW t \in Callers, FireCommit(t) \/ NeedTop(t) PROVE ReadInv'
<1>1. UNCHANGED <<done, mem, span, n_enq, n_qsub, n_rel>>
  BY DEF FireCommit, NeedTop, engVars
<1>2. ASSUME NEW g \in Groups, g < n_rel, state[g] = "GONE" PROVE state'[g] = "GONE"
  <2>1. g # n_fired
    BY <1>2, RingAssumption DEF Groups, RingInd, Types, Order
  <2>2. CASE FireCommit(t)
    BY <1>2, <2>1, <2>2 DEF FireCommit, RingInd, Types
  <2>3. CASE NeedTop(t)
    <3>1. \E r \in n_ready .. n_fired :
            state' = [h \in Groups |-> IF h \in n_ready .. r - 1 /\ state[h] = "SUBMIT" THEN "READY"
                                       ELSE state[h]]
      BY <2>3 DEF NeedTop, advance_ready
    <3> QED BY <1>2, <3>1
  <2> QED BY <2>2, <2>3
<1> QED BY <1>1, <1>2, ReadKept

LEMMA ReadClaim ==
  ASSUME RingInd, RingInd', ChainInv, ReadInv, NEW t \in Callers, Claims(t) PROVE ReadInv'
<1>1. PICK stt, boost :
        /\ claim(n_enq', n_rel', span', stt, boost)
        /\ \A g \in Groups : g < n_rel' => stt[g] = "GONE" \/ (g < n_rel /\ stt[g] = state[g])
  BY ClaimsEffect
<1>2. /\ UNCHANGED <<n_fired, n_ready, tails>> /\ n_qsub <= n_qsub' /\ n_enq <= n_enq'
      /\ \A g \in Groups : g < n_enq => span'[g] = span[g]
  BY ClaimsEffect
<1>3. n_enq \in Nat /\ n_enq' \in Nat /\ n_enq' <= MaxGroups /\ n_qsub \in Nat /\ n_rel' \in Nat
      /\ n_qsub <= n_enq /\ n_rel' <= n_qsub /\ MaxGroups \in Nat
  <2>1. n_rel' \in Nat /\ n_enq' \in Nat /\ n_enq' <= MaxGroups /\ n_rel' <= n_ready
    BY <1>2 DEF RingInd, Types, Order
  <2>2. n_ready \in Nat /\ n_fired \in Nat /\ n_enq \in Nat /\ n_qsub \in Nat /\ n_ready <= n_fired
        /\ n_fired <= n_qsub /\ n_qsub <= n_enq
    BY DEF RingInd, Types, Order
  <2> DEFINE r == n_rel'
             m == n_enq'
  <2> HIDE DEF r, m
  <2>3. r \in Nat /\ m \in Nat /\ m <= MaxGroups /\ r <= n_ready
    BY <2>1 DEF r, m
  <2>4. r <= n_qsub
    BY <2>2, <2>3
  <2> QED BY <2>1, <2>2, <2>4, RingAssumption DEF r, m
<1>4. RelGone'
  <2> SUFFICES ASSUME NEW g \in Groups, g < n_rel' PROVE state'[g] = "GONE"
    BY DEF RelGone
  <2>1. g < n_qsub
    <3> DEFINE r == n_rel'
    <3>1. r \in Nat /\ g < r /\ r <= n_qsub /\ g \in Int
      BY <1>3, RingAssumption DEF Groups
    <3> HIDE DEF r
    <3> QED BY <1>3, <3>1
  <2>2. \E q \in n_qsub .. n_enq' :
          state' = [h \in Groups |-> IF h \in n_qsub .. q - 1 THEN "QUEUED" ELSE stt[h]]
    BY <1>1 DEF claim
  <2>3. state'[g] = stt[g]
    BY <1>3, <2>1, <2>2, RingAssumption DEF Groups
  <2> QED BY <1>1, <2>3 DEF ReadInv, RelGone
<1>5. FitSlots' => FitSlots
  <2>1. \A g \in 0 .. n_enq - 1 : g \in 0 .. n_enq' - 1 /\ g \in Groups /\ g < n_enq
    <3> DEFINE m == n_enq'
    <3>1. m \in Nat /\ n_enq <= m /\ m <= MaxGroups
      BY <1>2, <1>3
    <3> HIDE DEF m
    <3>2. \A g \in 0 .. n_enq - 1 : g \in 0 .. m - 1 /\ g \in Groups /\ g < n_enq
      BY <1>3, <3>1 DEF Groups
    <3> QED BY <3>2 DEF m
  <2> QED BY <1>2, <2>1 DEF FitSlots
<1>6. /\ \A g \in Held' : g < n_qsub =>
           g \in Held /\ \A d \in Descs(g) : done'[d] = done[d]
      /\ \A g \in Held' : n_qsub <= g => \A d \in Descs(g)' : ~done'[d]
  <2>1. DescTypes
    BY DEF ChainInv, EngTypes, DescTypes
  <2>2. \A g \in Groups : g < n_qsub => span'[g] = span[g]
    <3>1. \A g \in Groups : g < n_qsub => g < n_enq
      BY <1>3, RingAssumption DEF Groups
    <3> QED BY <1>2, <3>1
  <2> QED BY <1>1, <1>2, <2>1, <2>2, ClaimDescs
<1>7. MemOK'
  <2> SUFFICES ASSUME FitSlots', NEW g \in Held', done'[dfirst(g)] PROVE mem'[g % NSlots] = <<g, 0>>
    BY DEF MemOK
  <2>1. mem' = mem
    BY <1>1 DEF claim
  <2>2. g \in Nat /\ g \in Groups /\ dfirst(g) \in Descs(g)'
    <3>1. g \in Nat /\ g \in Groups /\ g < n_qsub'
      BY RingAssumption DEF Held, Groups
    <3>2. span'[g] \in Nat \ {0}
      BY <3>1 DEF RingInd, Types
    <3>3. dfirst(g) \in Nat
      <4>1. g % NSlots \in Nat
        BY <3>1, EngineAssumption
      <4>2. \A x \in Nat : x * DpSlot \in Nat
        BY EngineAssumption, SMT
      <4> QED BY <4>1, <4>2 DEF dfirst
    <3> QED BY <3>1, <3>2, <3>3 DEF Descs, dlast
  <2>3. g < n_qsub
    <3>1. ~(n_qsub <= g)
      BY <1>6, <2>2
    <3> QED BY <1>3, <2>2, <3>1
  <2>4. g \in Held /\ done[dfirst(g)]
    <3>1. g \in Held
      BY <1>6, <2>3
    <3>2. dfirst(g) \in Descs(g)
      BY <3>1, HeldFacts
    <3> QED BY <1>6, <2>3, <3>1, <3>2
  <2> QED BY <1>5, <2>1, <2>4 DEF ReadInv, MemOK
<1> QED BY <1>4, <1>7 DEF ReadInv

LEMMA ReadEngine ==
  ASSUME MemType, RingInd, ChainInv, ReadInv, Engine PROVE ReadInv'
<1>1. /\ UNCHANGED <<state, span, n_enq, n_qsub, n_rel>>
  BY DEF Engine, ringVars, cursors
<1>2. CASE EngRetire
  BY <1>1, <1>2, ReadKept DEF EngRetire
<1>3. CASE EngComplete
  <2>1. st = "RUN" /\ done' = [done EXCEPT ![cur] = TRUE]
        /\ mem' = [mem EXCEPT ![Dst(cur)] = <<src[cur], cur % DpSlot>>]
    BY <1>3 DEF EngComplete
  <2>2. PICK e \in Held : cur \in Descs(e)
    BY <2>1, FlightGroups, TopFacts
  <2>3. RelGone' /\ Held' = Held /\ FitSlots' = FitSlots
    BY <1>1 DEF ReadInv, RelGone, Held, FitSlots
  <2>4. ASSUME FitSlots, NEW g \in Held, done'[dfirst(g)] PROVE mem'[g % NSlots] = <<g, 0>>
    <3>1. g \in Nat /\ e \in Nat /\ dfirst(g) \in Descs(g) /\ dfirst(g) \in Pool
      BY HeldFacts
    <3>2. cur = dfirst(e)
      <4>1. e \in 0 .. n_enq - 1
        <5>1. e < n_qsub
          BY HeldFacts
        <5> QED BY <3>1, <5>1 DEF RingInd, Types, Order
      <4>2. span[e] = 1 /\ dfirst(e) \in Nat /\ dlast(e) = dfirst(e) + span[e] - 1
        BY <2>4, <4>1, HeldFacts DEF FitSlots
      <4> QED BY <2>2, <4>2 DEF Descs
    <3>3. mem' = [mem EXCEPT ![e % NSlots] = <<e, 0>>]
      <4>1. src[cur] = e
        BY <2>2 DEF ChainInv, Filled
      <4> QED BY <2>1, <3>1, <3>2, <4>1, DstFirst
    <3>4. g % NSlots \in Units /\ e % NSlots \in Units
      BY <3>1, DstFirst
    <3>5. CASE g = e
      BY <3>3, <3>4, <3>5 DEF MemType
    <3>6. CASE g # e
      <4>1. g % NSlots # e % NSlots
        <5>1. g - e < NSlots /\ e - g < NSlots
          <6>1. /\ g < n_qsub /\ n_qsub <= g + NSlots /\ e < n_qsub /\ n_qsub <= e + NSlots
                /\ n_qsub \in Nat /\ NSlots \in Nat
            BY HeldFacts, EngineAssumption DEF RingInd, Types
          <6> QED BY <3>1, <6>1
        <5> QED BY <3>1, <3>6, <5>1, SlotsDiffer
      <4>2. mem'[g % NSlots] = mem[g % NSlots]
        BY <3>3, <3>4, <4>1 DEF MemType
      <4>3. dfirst(g) # cur
        BY <2>2, <3>1, <3>6, HeldApart
      <4>4. done[dfirst(g)]
        BY <2>1, <2>4, <3>1, <4>3 DEF ChainInv, EngTypes
      <4> QED BY <2>4, <4>2, <4>4 DEF ReadInv, MemOK
    <3> QED BY <3>5, <3>6
  <2> QED BY <2>3, <2>4 DEF ReadInv, MemOK
<1> QED BY <1>2, <1>3 DEF Engine

LEMMA ReadInit == Init => ReadInv
  BY RingAssumption DEF Init, EngInit, ReadInv, RelGone, MemOK, Held, Groups

LEMMA ReadStep ==
  ASSUME RingInd, RingInd', ChainInv, MemType, ReadInv, [Next]_vars PROVE ReadInv'
<1>1. CASE UNCHANGED vars
  BY <1>1, ReadKept DEF vars, engVars, ringVars, cursors
<1>2. CASE Engine
  BY <1>2, ReadEngine
<1>3. ASSUME NEW t \in Callers, Call(t) PROVE ReadInv'
  BY <1>3, ReadClaim, ReadCall DEF Call, Claims
<1>4. ASSUME NEW t \in Callers, Step(t) PROVE ReadInv'
  BY <1>4, ReadClaim, ReadCall, ReadCommit DEF Step, Claims
<1> QED BY <1>1, <1>2, <1>3, <1>4 DEF Next

LEMMA ReadFull == ASSUME RingInd, ChainInv, ReadInv PROVE ReadyIntact
<1> SUFFICES ASSUME FitSlots, NEW g \in Groups, state[g] = "READY", NEW d \in Descs(g)
             PROVE  mem[Dst(d)] = <<g, d % DpSlot>>
  BY DEF ReadyIntact, Intact
<1>1. g \in Nat /\ n_rel <= g /\ g < n_ready /\ g < n_qsub /\ n_qsub <= g + NSlots /\ g < n_enq
  <2>1. g \in Nat /\ NSlots \in Nat
    BY RingAssumption, EngineAssumption DEF Groups
  <2>2. /\ n_rel \in Nat /\ n_ready \in Nat /\ n_fired \in Nat /\ n_qsub \in Nat /\ n_enq \in Nat
        /\ n_ready <= n_fired /\ n_fired <= n_qsub /\ n_qsub <= n_enq /\ n_qsub - n_rel <= NSlots
    BY DEF RingInd, Types, Order, Window
  <2>3. ~(g < n_rel)
    BY DEF ReadInv, RelGone
  <2>4. ~(n_qsub <= g) /\ ~(n_fired <= g /\ g < n_qsub) /\ ~(n_ready <= g /\ g < n_fired)
    BY DEF RingInd, Shape
  <2> QED BY <2>1, <2>2, <2>3, <2>4
<1>2. g \in Held
  BY <1>1 DEF Held
<1>3. dfirst(g) \in Descs(g) /\ dfirst(g) \in Nat /\ dlast(g) = dfirst(g) + span[g] - 1
  BY <1>2, HeldFacts
<1>4. d = dfirst(g)
  <2>1. g \in 0 .. n_enq - 1
    BY <1>1 DEF RingInd, Types
  <2>2. span[g] = 1
    BY <2>1 DEF FitSlots
  <2> QED BY <1>3, <2>2 DEF Descs
<1>5. done[dfirst(g)]
  BY <1>1, <1>2, <1>3 DEF ChainInv, Counted, Delivered
<1>6. mem[g % NSlots] = <<g, 0>>
  BY <1>2, <1>5 DEF ReadInv, MemOK
<1> QED BY <1>1, <1>4, <1>6, DstFirst

\* With one caller and deadlines that outlast the transfers, a group that ring_need
\* has reported READY stays readable in its slot until it is released, if the
\* groups fit their slots: no later group and no repeated transfer overwrites it.
THEOREM ReadyCorrect == ASSUME Generous PROVE Spec => []ReadyIntact
<1>1. Init => RingInd /\ ChainInv /\ EngState /\ CallState /\ ReadInv
  BY RingInit, ChainInit, TypesInit, ReadInit
<1>2. (RingInd /\ ChainInv /\ EngState /\ CallState /\ ReadInv) /\ [Next]_vars
        => (RingInd /\ ChainInv /\ EngState /\ CallState /\ ReadInv)'
  BY RingStep, ChainStep, TypesStep, ReadStep DEF Generous, EngState
<1>3. RingInd /\ ChainInv /\ EngState /\ CallState /\ ReadInv => ReadyIntact
  BY ReadFull
<1> QED BY <1>1, <1>2, <1>3, PTL DEF Spec
=============================================================================
