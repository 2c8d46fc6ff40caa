----------------------------- MODULE DeviceService -----------------------------
(***************************************************************************)
(* What the serving layer expects of the resident device program: a call   *)
(* is open from its invocation to its end, the device carries it out at    *)
(* most once and while it is open, and a call that returns, returns the    *)
(* answer to itself.  A call may fail whether or not the device has        *)
(* carried it out; once it has ended it has no further effect.             *)
(*                                                                         *)
(* The state of the model on the device (KV cache and SSM state) is        *)
(* abstracted to the number of steps since it was cleared; the answer to a *)
(* run is the state it produced.                                           *)
(***************************************************************************)
EXTENDS Naturals

CONSTANTS Callers,   \* the threads of the host that call the device
          MaxCalls   \* bound on the number of calls

VARIABLES open,      \* the call each thread waits for, 0 when none
          opOf,      \* the operation of each call made so far
          answer,    \* what the device answered to each call
          kv,        \* steps the device state has taken since its last reset
          result     \* how each call ended

dsVars == <<open, opOf, answer, kv, result>>

CallIds == 1..MaxCalls
Ops == {"run", "reset", "ping", "shutdown"}
NoOp == "none"
Pending == [kind |-> "pending", tok |-> 0]
Failed == [kind |-> "failed", tok |-> 0]
Ok(tok) == [kind |-> "ok", tok |-> tok]

\* The device state an operation may leave behind, and its answer.  A run that
\* fails on the device leaves the state before or after the step.
Outcomes(op, s) ==
  CASE op = "run" -> {<<s + 1, Ok(s + 1)>>, <<s, Failed>>, <<s + 1, Failed>>}
    [] op = "reset" -> {<<0, Ok(0)>>}
    [] OTHER -> {<<s, Ok(0)>>}

DSInit ==
  /\ open = [c \in Callers |-> 0]
  /\ opOf = [i \in CallIds |-> NoOp]
  /\ answer = [i \in CallIds |-> Pending]
  /\ kv = 0
  /\ result = [i \in CallIds |-> Pending]

Invoke(c) == \E i \in CallIds, op \in Ops :
  /\ open[c] = 0
  /\ opOf[i] = NoOp
  /\ open' = [open EXCEPT ![c] = i]
  /\ opOf' = [opOf EXCEPT ![i] = op]
  /\ UNCHANGED <<answer, kv, result>>

Execute(c) ==
  /\ open[c] # 0
  /\ answer[open[c]] = Pending
  /\ \E out \in Outcomes(opOf[open[c]], kv) :
       /\ kv' = out[1]
       /\ answer' = [answer EXCEPT ![open[c]] = out[2]]
  /\ UNCHANGED <<open, opOf, result>>

Return(c) ==
  /\ open[c] # 0
  /\ answer[open[c]].kind = "ok"
  /\ result' = [result EXCEPT ![open[c]] = answer[open[c]]]
  /\ open' = [open EXCEPT ![c] = 0]
  /\ UNCHANGED <<opOf, answer, kv>>

Fail(c) ==
  /\ open[c] # 0
  /\ result' = [result EXCEPT ![open[c]] = Failed]
  /\ open' = [open EXCEPT ![c] = 0]
  /\ UNCHANGED <<opOf, answer, kv>>

\* The device program ends; its successor starts from the initial state.
Lose ==
  /\ kv' = 0
  /\ UNCHANGED <<open, opOf, answer, result>>

DSNext == Lose \/ \E c \in Callers : Invoke(c) \/ Execute(c) \/ Return(c) \/ Fail(c)

DSSpec == DSInit /\ [][DSNext]_dsVars
=============================================================================
