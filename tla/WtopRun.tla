------------------------------- MODULE WtopRun -------------------------------
(***************************************************************************)
(* From the plan to the device: wtop_emit gives every tensor a temp,       *)
(* writes the op list and the table of temp offsets, and oplist_exec.c     *)
(* runs it, again and again with the same temps.                           *)
(*                                                                         *)
(* An operation reads the whole of its inputs and writes the whole of its  *)
(* output.  A byte holds the operation and the run that wrote it, or       *)
(* Garbage when that operation did not read what its producers wrote.      *)
(* Scratch temps of single operations and the weights are left out.        *)
(***************************************************************************)
EXTENDS MemPlan

CONSTANTS
  MinReserve,   \* the least space behind the static part of the DDR pool
  MaxRuns

ASSUME RunAssumption == MinReserve \in Nat /\ MaxRuns \in Nat

VARIABLES
  dma_runlist,                    \* spills are DMA operations (an option)
  eorder, pos,                    \* the order of emission, and where it is
  op_temp, free_temps, next_temp, \* Emitter
  tab,                            \* ddr_temp_tab, the TEMPOFF slot
  code,                           \* the op list
  run, ip,                        \* the run, and its next operation
  temps, temp_bytes,              \* wt_exec
  pool_used,
  mem

emitVars == <<dma_runlist, eorder, pos, op_temp, free_temps, next_temp, tab, code>>
execVars == <<run, ip, temps, temp_bytes, pool_used, mem>>
vars == <<planVars, emitVars, execVars>>

Garbage == <<0, 0>>
Put(f, x, v) == [y \in DOMAIN f \cup {x} |-> IF y = x THEN v ELSE f[y]]

-----------------------------------------------------------------------------
\* wtop_emit: an order that is not topological is sorted once more.
StartEmit ==
  /\ phase = "planned"
  /\ dma_runlist' \in IF Spills = {} THEN {FALSE} ELSE BOOLEAN
  /\ IF Topological(order)
     THEN phase' = "emit" /\ eorder' = order /\ UNCHANGED orderVars
     ELSE phase' = "reorder" /\ StartKahn(order) /\ UNCHANGED eorder
  /\ UNCHANGED <<graphVars, poolVars, order, budget, plan, execVars>>
  /\ UNCHANGED <<pos, op_temp, free_temps, next_temp, tab, code>>

ReorderStep ==
  /\ phase = "reorder"
  /\ \/ KahnPop /\ UNCHANGED <<phase, eorder>>
     \/ ready = <<>> /\ phase' = "emit" /\ eorder' = KahnResult /\ EndKahn
  /\ UNCHANGED <<graphVars, poolVars, order, budget, plan, execVars>>
  /\ UNCHANGED <<dma_runlist, pos, op_temp, free_temps, next_temp, tab, code>>

LastUse(o) ==
  IF o = Out THEN NOps
  ELSE CHOOSE p \in 0 .. NOps : /\ \E c \in Consumers(o) : p = Pos(eorder, c)
                                /\ \A c \in Consumers(o) : Pos(eorder, c) <= p

\* fresh_temp: a temp given back is used again; a temp gets the static place
\* of the first tensor that has one.
FreshTemp == IF free_temps = <<>> THEN next_temp ELSE Last(free_temps)
\* A temp is taken without being taken off the list.
MTempsLeftPeek == free_temps
TempsLeft == IF free_temps = <<>> THEN <<>> ELSE Front(free_temps)
HasPlace(o) == o \in DOMAIN plan \ Spills
Register(o, t) == HasPlace(o) /\ t \notin DOMAIN tab

\* A temp whose tensor is still needed is given back.
MReleaseFirst(o) == InOrder(ins[o])

\* release_at, for every input: the temps of tensors with no later consumer.
Release(o) == InOrder({s \in ins[o] : LastUse(s) <= pos})

\* Where a spilled tensor is kept; a DMA operation leaves the offset out.
SpillAt(o) == IF dma_runlist THEN 0 ELSE plan[o].off
Fills(o) ==
  LET spilled == InOrder(ins[o] \cap Spills)
  IN [i \in DOMAIN spilled |->
        [kind |-> "fill", temp |-> op_temp[spilled[i]], off |-> SpillAt(spilled[i]),
         size |-> size[spilled[i]]]]
\* The producer of a spilled tensor does not save it.
MSpillOfNone(o, t) == <<>>
SpillOf(o, t) ==
  IF o \in Spills THEN <<[kind |-> "spill", temp |-> t, off |-> SpillAt(o), size |-> size[o]]>>
  ELSE <<>>

Emit ==
  LET o == eorder[pos + 1]
      t == FreshTemp
      gone == Release(o)
  IN /\ phase = "emit" /\ pos < NOps
     /\ ins[o] \subseteq DOMAIN op_temp
     /\ code' = code \o Fills(o)
                \o <<[kind |-> "op", op |-> o, temp |-> t, size |-> size[o],
                      from |-> [s \in ins[o] |-> op_temp[s]]]>>
                \o SpillOf(o, t)
     /\ tab' = IF Register(o, t) THEN Put(tab, t, plan[o]) ELSE tab
     /\ next_temp' = IF free_temps = <<>> THEN next_temp + 1 ELSE next_temp
     /\ free_temps' = TempsLeft \o [i \in DOMAIN gone |-> op_temp[gone[i]]]
     /\ op_temp' = [s \in (DOMAIN op_temp \cup {o}) \ Range(gone) |-> Put(op_temp, o, t)[s]]
     /\ pos' = pos + 1
     /\ UNCHANGED <<planVars, execVars, dma_runlist, eorder>>

\* "no temp for op": the tool gives up.
EmitFails ==
  /\ phase = "emit" /\ pos < NOps
  /\ ~ ins[eorder[pos + 1]] \subseteq DOMAIN op_temp
  /\ phase' = "failed"
  /\ UNCHANGED <<graphVars, orderVars, poolVars, order, budget, plan, emitVars, execVars>>

-----------------------------------------------------------------------------
\* The executor.  wt_exec_load_tempoff parses the table on the first run
\* after a shutdown: the static part of the pool is [0, cap), the rest of it
\* behind that.
Cap == budget[1]
Reserve == IF Cap \div 4 > MinReserve THEN Cap \div 4 ELSE MinReserve

BeginRun ==
  /\ \/ phase = "emit" /\ pos = NOps
     \/ phase \in {"ran", "error"}
  /\ run < MaxRuns
  /\ phase' = "run" /\ run' = run + 1 /\ ip' = 1
  /\ pool_used' = IF Planned /\ pool_used = 0 THEN Cap ELSE pool_used
  /\ UNCHANGED <<graphVars, orderVars, poolVars, order, budget, plan, emitVars>>
  /\ UNCHANGED <<temps, temp_bytes, mem>>

\* temp_get: a static place, else the temp's last area if it is large enough,
\* else a new area.  Without a plan the pool grows and the old one is kept.
Static(t) == Planned /\ t \in DOMAIN tab
Grows(t, n) == t \in DOMAIN temps => temp_bytes[t] < n
NoRoom(t, n) ==
  IF Static(t)
  THEN tab[t].off + n > IF tab[t].pool = "vtcm" THEN Limit("vtcm") ELSE pool_used
  ELSE Planned /\ Grows(t, n) /\ pool_used + n > Cap + Reserve
AddrOf(t, n) ==
  IF Static(t) THEN <<tab[t].pool, tab[t].off>>
  ELSE IF Grows(t, n) THEN <<"ddr", pool_used>> ELSE temps[t]

\* Growth is decided by what the temp last held, not by what it can hold.
MTempGetShrinks(t, n) ==
  /\ ~NoRoom(t, n)
  /\ temps' = Put(temps, t, AddrOf(t, n))
  /\ temp_bytes' = Put(temp_bytes, t, n)
  /\ pool_used' = IF ~Static(t) /\ Grows(t, n) THEN pool_used + n ELSE pool_used

TempGet(t, n) ==
  /\ ~NoRoom(t, n)
  /\ temps' = Put(temps, t, AddrOf(t, n))
  /\ temp_bytes' = IF Static(t) \/ Grows(t, n) THEN Put(temp_bytes, t, n) ELSE temp_bytes
  /\ pool_used' = IF ~Static(t) /\ Grows(t, n) THEN pool_used + n ELSE pool_used

Bytes(addr, n) == {<<addr[1], addr[2] + i>> : i \in 0 .. n - 1}
Holds(o, addr) == \A b \in Bytes(addr, size[o]) : b \in DOMAIN mem /\ mem[b] = <<o, run>>
Write(f) == mem' = [b \in DOMAIN mem \cup DOMAIN f |-> IF b \in DOMAIN f THEN f[b] ELSE mem[b]]
Copy(from, to, n) ==
  Write([b \in Bytes(to, n) |->
           LET s == <<from[1], from[2] + (b[2] - to[2])>>
           IN IF s \in DOMAIN mem THEN mem[s] ELSE Garbage])

Instr == code[ip]
Running(k) == phase = "run" /\ ip <= Len(code) /\ Instr.kind = k
Advance ==
  /\ ip' = ip + 1
  /\ UNCHANGED <<planVars, emitVars, run>>

\* An operation takes the addresses of its inputs, then that of its output.
ReadsRight(out) ==
  \A s \in DOMAIN Instr.from :
    LET a == temps[Instr.from[s]]
    IN Holds(s, a) /\ Bytes(a, size[s]) \cap Bytes(out, Instr.size) = {}
RunOp ==
  LET out == AddrOf(Instr.temp, Instr.size)
      value == IF ReadsRight(out) THEN <<Instr.op, run>> ELSE Garbage
  IN /\ Running("op") /\ TempGet(Instr.temp, Instr.size)
     /\ Write([b \in Bytes(out, Instr.size) |-> value])
     /\ Advance

RunSpill ==
  /\ Running("spill")
  /\ Copy(temps[Instr.temp], <<"spill", Instr.off>>, Instr.size)
  /\ UNCHANGED <<temps, temp_bytes, pool_used>>
  /\ Advance

RunFill ==
  /\ Running("fill") /\ TempGet(Instr.temp, Instr.size)
  /\ Copy(<<"spill", Instr.off>>, AddrOf(Instr.temp, Instr.size), Instr.size)
  /\ Advance

\* temp_get returned NULL: the run ends with the number of the operation.
RunFails ==
  /\ phase = "run" /\ ip <= Len(code)
  /\ Instr.kind # "spill" /\ NoRoom(Instr.temp, Instr.size)
  /\ phase' = "error"
  /\ UNCHANGED <<graphVars, orderVars, poolVars, order, budget, plan, emitVars, execVars>>

\* All operations are done; run_io copies the output's temp to the caller.
RunDone ==
  /\ phase = "run" /\ ip > Len(code)
  /\ phase' = "ran"
  /\ UNCHANGED <<graphVars, orderVars, poolVars, order, budget, plan, emitVars, execVars>>

\* wt_exec_shutdown between two runs.
Shutdown ==
  /\ phase \in {"ran", "error"} /\ run < MaxRuns /\ pool_used # 0
  /\ pool_used' = 0 /\ temps' = <<>> /\ temp_bytes' = <<>>
  /\ mem' = [b \in {x \in DOMAIN mem : x[1] = "spill"} |-> mem[b]]
  /\ UNCHANGED <<planVars, emitVars, run, ip>>

-----------------------------------------------------------------------------
Init ==
  /\ PlanInit
  /\ dma_runlist = FALSE /\ eorder = <<>> /\ pos = 0
  /\ op_temp = <<>> /\ free_temps = <<>> /\ next_temp = 0
  /\ tab = <<>> /\ code = <<>>
  /\ run = 0 /\ ip = 0 /\ temps = <<>> /\ temp_bytes = <<>> /\ pool_used = 0
  /\ mem = <<>>

Next ==
  \/ PlanNext /\ UNCHANGED <<emitVars, execVars>>
  \/ StartEmit \/ ReorderStep \/ Emit \/ EmitFails
  \/ BeginRun \/ RunOp \/ RunSpill \/ RunFill \/ RunFails \/ RunDone
  \/ Shutdown

Spec == Init /\ [][Next]_vars

-----------------------------------------------------------------------------
Temps == 0 .. NOps - 1
Places == [pool : {"vtcm", "ddr", "spill"}, off : Nat]
Addrs == {"vtcm", "ddr", "spill"} \X Nat

\* Every variable keeps its type: the emitter never has more temps than tensors
\* (fresh_temp), and no temp is on the list of free ones twice (release_at).
TypeOK ==
  /\ phase \in {"order", "place", "planned", "reorder", "emit", "failed", "run", "ran", "error"}
  /\ DOMAIN plan \subseteq Ops /\ \A o \in DOMAIN plan : plan[o] \in Places
  /\ DOMAIN op_temp \subseteq Ops
  /\ Range(free_temps) \cup DOMAIN tab \cup DOMAIN temps \subseteq Temps
  /\ Cardinality(Range(free_temps)) = Len(free_temps)
  /\ \A t \in DOMAIN temps : temps[t] \in Addrs
  /\ ip \in 0 .. Len(code) + 1 /\ run \in 0 .. MaxRuns

\* In wt_exec_run every operation of every run reads what its producers wrote in
\* that run, through temps that are recycled, spills and fills, and the output
\* is intact when wt_exec_run_io copies it to the caller.
ValuesIntact ==
  /\ \A b \in DOMAIN mem : mem[b] # Garbage
  /\ phase = "run" /\ ip > Len(code) /\ Out \in DOMAIN op_temp => Holds(Out, temps[op_temp[Out]])

\* The same, for the op lists in which TEMPOFF gives every tensor the place that
\* the plan gave it, or without a plan, and at most one tensor is spilled by DMA.
\* With a plan the order must be the one that the lifetimes were computed for:
\* wtop_emit did not have to sort it again.
OpsOf == {i \in DOMAIN code : code[i].kind = "op"}
TableAgrees ==
  \A i \in OpsOf : code[i].temp \in DOMAIN tab =>
    HasPlace(code[i].op) /\ tab[code[i].temp] = plan[code[i].op]
PlanMeant ==
  /\ TableAgrees /\ (Planned => Topological(order))
  /\ dma_runlist => Cardinality(Spills) <= 1
ValuesRight == PlanMeant => ValuesIntact

\* wtop_emit gives up ("no temp for op") only on an order that puts a consumer
\* before its producer: no temp is released while it is still needed.
EmitsAll == phase = "failed" => ~Topological(order)

\* temp_get takes from the pool only where a temp is asked for more than ever
\* before, so the runs after the first take nothing more: the pool, whose areas
\* are never given back, does not grow with the number of tokens.
Asks(t) == {i \in DOMAIN code : code[i].temp = t /\ code[i].kind # "spill" /\ ~Static(t)}
Records(t) == {i \in Asks(t) : \A j \in Asks(t) : j < i => code[j].size < code[i].size}
Takes(i) == \E t \in Temps : i \in Records(t)
PoolSteady ==
  pool_used <= (IF Planned THEN Cap ELSE 0)
               + SumTo([i \in DOMAIN code |-> IF Takes(i) THEN code[i].size ELSE 0], Len(code))
=============================================================================
