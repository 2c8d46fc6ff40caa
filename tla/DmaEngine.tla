------------------------------ MODULE DmaEngine ------------------------------
(***************************************************************************)
(* The DMA engine behind engine_adapter.h, as ring_sim.c defines it: the   *)
(* state machine IDLE -> RUN -> RETIRE -> IDLE, the descriptor pool and    *)
(* the doorbell laws L1, L5, L6 and L7, whose violation freezes the        *)
(* engine.  Virtual time is abstracted: a clock advance completes any      *)
(* number of descriptors, so EngComplete and EngRetire may happen whenever *)
(* a caller lets the clock run.  Law L4 (a minimum gap between doorbells)  *)
(* is left out: note_doorbell itself advances the clock by more than the   *)
(* gap.                                                                    *)
(***************************************************************************)
EXTENDS Integers

CONSTANTS
  NSlots,   \* slots of the ring, n_slots
  DpSlot,   \* descriptors per slot, dp_slot
  MaxLost   \* how many wake-ups the fault SIM_FAULT_F2_DOORBELL_LOST swallows

ASSUME EngineAssumption ==
  /\ NSlots \in Nat \ {0}
  /\ DpSlot \in Nat \ {0}
  /\ MaxLost \in Nat

VARIABLES
  st,           \* E.st
  head, cur,    \* E.head, E.cur
  nxt, done,    \* the fields next and done of every descriptor
  src,          \* the group whose bytes a descriptor moves
  single_shot,  \* E.single_shot (law 2)
  law,          \* E.rep.law; the engine is frozen when it is not 0
  lost,         \* wake-ups swallowed so far
  mem           \* what the staging memory holds

engVars == <<st, head, cur, nxt, done, src, single_shot, law, lost, mem>>

\* A descriptor is its index in the pool; NULL is the null pointer.
NDesc == NSlots * DpSlot
Pool == 0 .. NDesc - 1
NULL == -1

in_pool(d) == d \in Pool

\* Memory is counted in units of slot_bytes.  Descriptor i of a span writes
\* i units after the start of its slot, past the last slot if it has to.
Units == 0 .. NSlots + DpSlot - 2
Dst(d) == (d \div DpSlot) + (d % DpSlot)
Nothing == <<NULL, 0>>

EngInit ==
  /\ st = "IDLE"
  /\ head = NULL /\ cur = NULL
  /\ nxt = [d \in Pool |-> NULL]
  /\ done = [d \in Pool |-> FALSE]
  /\ src = [d \in Pool |-> NULL]
  /\ single_shot = FALSE
  /\ law = 0
  /\ lost = 0
  /\ mem = [u \in Units |-> Nothing]

-----------------------------------------------------------------------------
\* The descriptors met when the chain is followed from d on, up to its end or to
\* the descriptor stop, which is not one of them.
Met(d, next, stop) ==
  LET follows(S) == \A e \in S : e # stop /\ next[e] # NULL => next[e] \in S
  IN  {e \in Pool \ {stop} : \A S \in SUBSET Pool : (d # NULL => d \in S) /\ follows(S) => e \in S}

Chain(d) == Met(d, nxt, NULL)

\* The descriptor before c on the chain that starts at E.head; the last one of
\* the chain when c is not on it.
PredOf(c, next) ==
  LET met == Met(head, next, c)
  IN  IF met = {} THEN NULL ELSE CHOOSE p \in met : next[p] \in {NULL, c}

-----------------------------------------------------------------------------
\* settle: the current descriptor completes; its bytes land and the engine goes
\* on along the chain, or parks (single_shot parks after one).
EngComplete ==
  /\ st = "RUN"
  /\ done' = [done EXCEPT ![cur] = TRUE]
  /\ mem' = [mem EXCEPT ![Dst(cur)] = <<src[cur], cur % DpSlot>>]
  /\ \/ /\ nxt[cur] # NULL /\ ~single_shot
        /\ cur' = nxt[cur]
        /\ UNCHANGED <<st, single_shot>>
     \/ /\ nxt[cur] = NULL \/ single_shot
        /\ st' = "RETIRE"
        /\ single_shot' = FALSE
        /\ UNCHANGED cur
  /\ UNCHANGED <<head, nxt, src, law, lost>>

\* sim_advance past retire_end: the engine is really idle.
EngRetire ==
  /\ st = "RETIRE"
  /\ st' = "IDLE"
  /\ UNCHANGED <<head, cur, nxt, done, src, single_shot, law, lost, mem>>

\* dmpoll answers IDLE during the RETIRE window.
DmPoll == IF st = "RUN" THEN "RUN" ELSE "IDLE"

\* dmwait: sleeps through the RETIRE window, and only through that.
DmWait == IF st = "RETIRE" THEN "IDLE" ELSE st

\* dmwait followed by dmstart(d); ok says whether dmstart returned 0.
DmWaitStart(d, ok) ==
  /\ \/ /\ law # 0 /\ ~ok                                       \* frozen
        /\ st' = DmWait
        /\ UNCHANGED <<head, cur, law, lost, single_shot>>
     \/ /\ law = 0 /\ ~ok
        /\ \/ ~in_pool(d) /\ law' = 5
           \/ in_pool(d) /\ DmWait = "RETIRE" /\ law' = 6
           \/ in_pool(d) /\ DmWait = "RUN" /\ law' = 1
        /\ st' = DmWait
        /\ single_shot' = FALSE
        /\ UNCHANGED <<head, cur, lost>>
     \/ /\ law = 0 /\ ok
        /\ in_pool(d) /\ DmWait = "IDLE"
        /\ single_shot' = FALSE
        /\ \/ /\ lost < MaxLost                                 \* F2
              /\ lost' = lost + 1
              /\ st' = DmWait
              /\ UNCHANGED <<head, cur>>
           \/ /\ st' = "RUN" /\ head' = d /\ cur' = d
              /\ UNCHANGED lost
        /\ UNCHANGED law
  /\ UNCHANGED <<nxt, done, src, mem>>

\* dmlink(c, d): extends the walk of a running engine (law 3); wakes an idle one
\* for a single descriptor (law 2).
DmLink(c, d, ok) ==
  /\ \/ /\ law # 0 /\ ~ok
        /\ UNCHANGED <<st, head, cur, nxt, single_shot, law, lost>>
     \/ /\ law = 0 /\ ~ok
        /\ ~(in_pool(c) /\ in_pool(d)) \/ st = "RETIRE"
        /\ law' = IF in_pool(c) /\ in_pool(d) THEN 6 ELSE 5
        /\ UNCHANGED <<st, head, cur, nxt, single_shot, lost>>
     \/ /\ law = 0 /\ in_pool(c) /\ in_pool(d) /\ st = "RUN"
        /\ nxt' = [nxt EXCEPT ![c] = d]
        /\ LET p == PredOf(c, nxt')
           IN  /\ ok = (~done[c] /\ (p = NULL \/ ~done[p]))
               /\ law' = IF ok THEN 0 ELSE 7
        /\ UNCHANGED <<st, head, cur, single_shot, lost>>
     \/ /\ law = 0 /\ ok /\ in_pool(c) /\ in_pool(d) /\ st = "IDLE"
        /\ nxt' = [nxt EXCEPT ![c] = d]
        /\ \/ /\ lost < MaxLost                                 \* F2
              /\ lost' = lost + 1
              /\ UNCHANGED <<st, head, cur, single_shot>>
           \/ /\ st' = "RUN" /\ single_shot' = TRUE
              /\ head' = IF done[c] THEN d ELSE c
              /\ cur' = head'
              /\ UNCHANGED lost
        /\ UNCHANGED law
  /\ UNCHANGED <<done, src, mem>>
=============================================================================
