------------------------------- MODULE MemPlan -------------------------------
(***************************************************************************)
(* The compiler's memory plan: GraphPrepare::do_prepare2_late makes the    *)
(* scheduler's order the execution order, and compute_ddr_offsets gives    *)
(* every tensor a place for the time it is live, first in the VTCM pool,   *)
(* then in the DDR pool, else in the spill area.  Both pools are filled by *)
(* FancyAllocator::allocate_with_lifetime.                                 *)
(*                                                                         *)
(* Sizes are in units of 128 bytes, to which compute_ddr_offsets rounds    *)
(* them.  A tensor is live from the position of its producer, so no two    *)
(* have the same life_begin and the allocator's groups have one member.    *)
(* Ids that dead code removal left in the order are left out: they go to   *)
(* its end and every later loop skips them.                                *)
(***************************************************************************)
EXTENDS Lists, SequencesExt

CONSTANTS
  NOps,      \* operations of the graph, numbered as they were built
  Sizes,     \* sizes of tensors
  Budgets,   \* pairs <<plan_ddr_budget_, plan_vtcm_budget_>>; DDR 0: no plan
  AnyOrder   \* whether the scheduler may put a consumer before its producer

ASSUME PlanAssumption ==
  /\ NOps \in Nat \ {0} /\ Sizes \subseteq Nat \ {0}
  /\ Budgets \subseteq Nat \X Nat /\ AnyOrder \in BOOLEAN

VARIABLES
  ins, size,                       \* the graph
  phase,
  sched, indeg, ready, topo,       \* Kahn's algorithm
  order,                           \* plan_order_
  budget, pool, todo, rest,        \* the two runs of the allocator,
  active, free_list, high_water,   \* ... and its state
  plan                             \* MemPlan: the place of each tensor

graphVars == <<ins, size>>
orderVars == <<sched, indeg, ready, topo>>
poolVars == <<pool, todo, rest, active, free_list, high_water>>
planVars == <<graphVars, orderVars, poolVars, phase, order, budget, plan>>

Ops == 1 .. NOps
InOrder(S) == Select([o \in Ops |-> o], S)   \* operations in the order of ids
Out == NOps                        \* the producer of the graph's output
Consumers(o) == {c \in Ops : o \in ins[c]}
Pos(seq, o) == (CHOOSE i \in DOMAIN seq : seq[i] = o) - 1
Topological(seq) == \A o \in Ops : \A s \in ins[o] : Pos(seq, s) < Pos(seq, o)

-----------------------------------------------------------------------------
\* The order.  An edge counts if its producer was met before its consumer.
Edge(seq, s, o) == s \in ins[o] /\ Pos(seq, s) < Pos(seq, o)
Indegree(seq) == [o \in Ops |-> Cardinality({s \in ins[o] : Edge(seq, s, o)})]
Roots(seq) == InOrder({o \in Ops : Indegree(seq)[o] = 0})

StartKahn(seq) ==
  /\ sched' = seq /\ indeg' = Indegree(seq)
  /\ ready' = Roots(seq) /\ topo' = <<>>

\* A successor is ready as soon as one of its producers is done.
MKahnPopEager ==
  LET id == Last(ready)
      succ == {i \in DOMAIN sched : Edge(sched, id, sched[i])}
  IN /\ ready # <<>>
     /\ topo' = Append(topo, id)
     /\ indeg' = [o \in Ops |-> IF Edge(sched, id, o) THEN 0 ELSE indeg[o]]
     /\ ready' = Front(ready) \o Select(sched, {i \in succ : indeg[sched[i]] > 0})
     /\ UNCHANGED sched

KahnPop ==
  LET id == Last(ready)
      succ == {i \in DOMAIN sched : Edge(sched, id, sched[i])}
  IN /\ ready # <<>>
     /\ topo' = Append(topo, id)
     /\ indeg' = [o \in Ops |-> IF Edge(sched, id, o) THEN indeg[o] - 1 ELSE indeg[o]]
     /\ ready' = Front(ready) \o Select(sched, {i \in succ : indeg[sched[i]] = 1})
     /\ UNCHANGED sched

KahnResult == IF Len(topo) = Len(sched) THEN topo ELSE sched
EndKahn == sched' = <<>> /\ indeg' = <<>> /\ topo' = <<>> /\ UNCHANGED ready

OrderStep ==
  /\ phase = "order" /\ KahnPop
  /\ UNCHANGED <<graphVars, poolVars, phase, order, budget, plan>>

-----------------------------------------------------------------------------
\* Lifetimes: from the producer to behind the last consumer; the output's
\* consumer is not in the order.
LifeBegin(o) == Pos(order, o)
LifeEnd(o) ==
  IF o = Out THEN NOps
  ELSE CHOOSE e \in 1 .. NOps :
         /\ \E c \in Consumers(o) \cup {o} : e = Pos(order, c) + 1
         /\ \A c \in Consumers(o) \cup {o} : Pos(order, c) + 1 <= e

EmptyPool == active' = <<>> /\ free_list' = <<>> /\ high_water' = 0

OrderDone ==
  /\ phase = "order" /\ ready = <<>>
  /\ order' = KahnResult
  /\ EndKahn
  /\ \E b \in Budgets :
       /\ budget' = b
       /\ phase' = IF b[1] = 0 THEN "planned" ELSE "place"
       /\ pool' = IF b[2] = 0 THEN "ddr" ELSE "vtcm"
       /\ todo' = IF b[1] = 0 THEN <<>> ELSE order'
  /\ rest' = <<>> /\ EmptyPool
  /\ UNCHANGED <<graphVars, plan>>

Limit(p) == IF p = "vtcm" THEN budget[2] ELSE budget[1]

\* The allocations that died before o begins give their ranges back.
\* A tensor is taken for dead while its last consumer runs.
MIsDeadEarly(a, o) == a.end <= LifeBegin(o) + 1
IsDead(a, o) == a.end < LifeBegin(o)
Freed(o) ==
  LET dead == Select(active, {i \in DOMAIN active : IsDead(active[i], o)})
  IN free_list \o [i \in DOMAIN dead |-> [lo |-> dead[i].off, hi |-> dead[i].off + dead[i].size]]
Alive(o) == Select(active, {i \in DOMAIN active : ~IsDead(active[i], o)})

Holes(fl, need) == {i \in DOMAIN fl : fl[i].hi - fl[i].lo >= need}
FirstFit(fl, need) == CHOOSE i \in Holes(fl, need) : \A j \in Holes(fl, need) : i <= j
\* A hole that was used stays a hole.
MCarveKeeps(fl, i, need) == fl
Carve(fl, i, need) ==
  IF fl[i].lo + need >= fl[i].hi THEN RemoveAt(fl, i)
  ELSE [fl EXCEPT ![i].lo = @ + need]

Settle(o, off) ==
  /\ plan' = [x \in DOMAIN plan \cup {o} |->
                IF x = o THEN [pool |-> pool, off |-> off] ELSE plan[x]]
  /\ active' = Append(Alive(o), [off |-> off, size |-> size[o], end |-> LifeEnd(o)])
  /\ rest' = rest

Place ==
  /\ phase = "place" /\ todo # <<>>
  /\ todo' = Tail(todo)
  /\ LET o == Head(todo)
         fl == Freed(o)
     IN \/ /\ Holes(fl, size[o]) # {}
           /\ LET i == FirstFit(fl, size[o])
              IN free_list' = Carve(fl, i, size[o]) /\ Settle(o, fl[i].lo)
           /\ UNCHANGED high_water
        \/ /\ Holes(fl, size[o]) = {} /\ high_water + size[o] <= Limit(pool)
           /\ free_list' = fl /\ high_water' = high_water + size[o]
           /\ Settle(o, high_water)
        \/ /\ Holes(fl, size[o]) = {} /\ high_water + size[o] > Limit(pool)
           /\ rest' = Append(rest, o)
           /\ free_list' = fl /\ active' = Alive(o)
           /\ UNCHANGED <<plan, high_water>>
  /\ UNCHANGED <<graphVars, orderVars, phase, order, budget, pool>>

\* finalize_spills: what fits no pool gets the spill area, in the order of ids.
SpillOffset(o) == SumTo([x \in Ops |-> IF x \in Range(rest) THEN size[x] ELSE 0], o - 1)

PoolDone ==
  /\ phase = "place" /\ todo = <<>>
  /\ IF pool = "vtcm"
     THEN /\ pool' = "ddr" /\ todo' = rest
          /\ UNCHANGED <<phase, plan>>
     ELSE /\ phase' = "planned"
          /\ plan' = [o \in DOMAIN plan \cup Range(rest) |->
                        IF o \in Range(rest) THEN [pool |-> "spill", off |-> SpillOffset(o)]
                        ELSE plan[o]]
          /\ UNCHANGED <<pool, todo>>
  /\ rest' = <<>> /\ EmptyPool
  /\ UNCHANGED <<graphVars, orderVars, order, budget>>

-----------------------------------------------------------------------------
\* After dead code removal every operation but the output's has a consumer.
Graphs == {f \in [Ops -> SUBSET Ops] :
             /\ \A o \in Ops : f[o] \subseteq 1 .. o - 1
             /\ \A o \in Ops \ {Out} : \E c \in Ops : o \in f[c]}

PlanInit ==
  /\ ins \in Graphs /\ size \in [Ops -> Sizes]
  /\ phase = "order" /\ order = <<>> /\ budget = <<0, 0>>
  /\ sched \in {s \in SetToSeqs(Ops) : AnyOrder \/ Topological(s)}
  /\ indeg = Indegree(sched) /\ ready = Roots(sched) /\ topo = <<>>
  /\ pool = "ddr" /\ todo = <<>> /\ rest = <<>>
  /\ active = <<>> /\ free_list = <<>> /\ high_water = 0
  /\ plan = <<>>

PlanNext == OrderStep \/ OrderDone \/ Place \/ PoolDone

Planned == budget[1] # 0
Spills == {o \in DOMAIN plan : plan[o].pool = "spill"}

-----------------------------------------------------------------------------
\* The plan of compute_ddr_offsets gives two tensors that are live at the same
\* time no common byte of a pool, and no two tensors a common byte of the spill
\* area: the assertion validate_no_overlap never aborts, whatever was recycled.
Together(a, b) ==
  \/ plan[a].pool = "spill"
  \/ LifeBegin(a) < LifeEnd(b) /\ LifeBegin(b) < LifeEnd(a)
Apart(a, b) ==
  plan[a].off + size[a] <= plan[b].off \/ plan[b].off + size[b] <= plan[a].off
NoLiveOverlap ==
  \A a, b \in DOMAIN plan :
    a # b /\ plan[a].pool = plan[b].pool /\ Together(a, b) => Apart(a, b)

\* Every tensor ends up with a place inside the budget of its pool, and no range
\* is both on the free list of allocate_with_lifetime and in use.
PlanFits ==
  /\ \A o \in DOMAIN plan : plan[o].pool # "spill" => plan[o].off + size[o] <= Limit(plan[o].pool)
  /\ phase = "planned" /\ Planned => DOMAIN plan = Ops
  /\ \A i \in DOMAIN free_list : \A j \in DOMAIN active :
       \/ free_list[i].hi <= active[j].off
       \/ active[j].off + active[j].size <= free_list[i].lo

\* The topological sort of do_prepare2_late, which works on an explicit stack,
\* turns a scheduler's order that respects the edges into another one that does.
OrderKept == [][OrderDone /\ Topological(sched) => Topological(order')]_planVars
=============================================================================
