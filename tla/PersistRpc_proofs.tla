-------------------------- MODULE PersistRpc_proofs --------------------------
(***************************************************************************)
(* Proofs that the file-queue RPC gives a call its own answer and          *)
(* implements DeviceService, for one calling thread and an environment     *)
(* without the two faults, for any number of calls and of ends of the      *)
(* device program.                                                         *)
(***************************************************************************)
EXTENDS PersistRpc, TLAPS

\* One thread uses the runtime, and neither fault happens.
OneCaller == \E c : Callers = {c}
Usual == OneCaller /\ Faults = {}

\* The first n calls have been made, the last one may still be open, and the
\* device has taken no more steps than there were calls.
CallsMade(n) ==
  /\ \A i \in CallIds : opOf[i] # NoOp <=> i <= n
  /\ \A i \in CallIds : i > n => answer[i] = Pending
  /\ \A c \in Callers : /\ cid[c] \in {0, n}
                        /\ cid[c] # 0 /\ answer[cid[c]] = Pending => kv < n
  /\ kv <= n

InOrder == \E n \in 0 .. MaxCalls : CallsMade(n)

\* A thread has a call between its beginning and its end, and pushes the parts
\* of its own request.
HostPlaces ==
  \A c \in Callers :
    /\ pc[c] \in {"idle", "retry", "waitdown"} <=> cid[c] = 0
    /\ pc[c] = "push" => got[c] <= Full(opOf[cid[c]]) /\ answer[cid[c]] = Pending
    /\ pc[c] = "rm" => answer[cid[c]] = Pending

\* The device works on nothing, or only writes what nobody waits for any more.
AtRest == dpc \in {"down", "boot", "load", "serve", "wbody"}

\* Before the first part of a request is there, the device has nothing to read:
\* a request left behind is one that a program to come will remove.
Quiet(c) == pc[c] \in {"idle", "rm", "retry", "waitdown"} \/ (pc[c] = "push" /\ got[c] = 0)
QuietInv ==
  \A c \in Callers : Quiet(c) =>
    /\ AtRest
    /\ req.got > 0 => dpc \in {"down", "boot"}
    /\ pc[c] = "push" => resp = NoResp

\* The file is the request of c, up to the part n.
Holds(f, c, n) == f.id = cid[c] /\ f.op = opOf[cid[c]] /\ f.got = n

\* While the request is being pushed, the device may have read a part of it or
\* have answered with an error that it stayed incomplete.
PushInv ==
  \A c \in Callers : pc[c] = "push" /\ got[c] > 0 =>
    /\ req = NoFile \/ Holds(req, c, got[c] - 1)
    /\ AtRest \/ (dpc \in {"hdr", "body", "open", "whdr"} /\ got[c] > 1)
    /\ dpc \in {"hdr", "body"} => req # NoFile
    /\ dpc \in {"open", "whdr"} => req = NoFile /\ dout.ans = Failed /\ resp.got = 0
    /\ req # NoFile => resp = NoResp
    /\ resp # NoResp => resp.ans = Failed

\* A success in a response file is the answer to the call of c.
Right(f, c) == f.ans.kind = "ok" => f.id = cid[c] /\ f.ans = answer[cid[c]]

\* While its answer is waited for, the request is in the file, or on the device,
\* or answered, or lost, and it is carried out once.
PollInv ==
  \A c \in Callers : pc[c] = "poll" =>
    /\ req = NoFile \/ Holds(req, c, Full(opOf[cid[c]]))
    /\ req # NoFile => resp = NoResp /\ answer[cid[c]] = Pending
    /\ dpc \in {"hdr", "body", "claim"} => req # NoFile
    /\ dpc = "claim" => dreq = req
    /\ dpc = "handle" => /\ req = NoFile /\ resp = NoResp /\ answer[cid[c]] = Pending
                         /\ Holds(dreq, c, Full(opOf[cid[c]]))
    /\ dpc \in {"open", "whdr"} => req = NoFile /\ Right(dout, c) /\ resp.got = 0
    /\ Right(resp, c)

\* The answer is being fetched.
FetchInv ==
  \A c \in Callers : pc[c] \in {"pull", "take"} =>
    /\ AtRest /\ req = NoFile
    /\ Right(resp, c)
    /\ pc[c] = "take" => Right(taken[c], c)

\* The answer about to be written has nothing written of it.
OpenEmpty == dpc = "open" => dout.got = 0

IndInv == TypeOK /\ InOrder /\ HostPlaces /\ QuietInv /\ PushInv /\ PollInv /\ FetchInv /\ OpenEmpty

-----------------------------------------------------------------------------
\* What the types say about the files, in the form the steps need.
LEMMA FileTypes ==
  /\ NoFile \in ReqFiles /\ NoResp \in RespFiles
  /\ NoFile.got = 0 /\ NoFile.id = 0 /\ NoFile.op = NoOp
  /\ NoResp.got = 0 /\ NoResp.id = 0 /\ NoResp.ans = Pending
  /\ Pending \in Answers /\ Failed \in Answers /\ Ok(0) \in Answers
  /\ Pending.kind # "ok" /\ Failed.kind # "ok" /\ Pending # Failed
  /\ \A t \in Nat : Ok(t).kind = "ok" /\ Ok(t) # Pending /\ Ok(t) # Failed
  /\ \A a \in Answers : a # Failed /\ a.kind # "ok" => a = Pending
BY RpcAssumption DEF NoFile, NoResp, ReqFiles, RespFiles, Pending, Failed, Ok, Answers, NoOp

LEMMA InitInd == Init => IndInv
<1> SUFFICES ASSUME Init PROVE IndInv
  OBVIOUS
<1> USE RpcAssumption DEF Init
<1>1. TypeOK
  BY FileTypes DEF TypeOK, HostPcs, DevPcs, CallIds, Ops, NoOp
<1>2. InOrder
  <2>1. CallsMade(0)
    BY DEF CallsMade, CallIds
  <2>2. QED
    BY <2>1 DEF InOrder
<1>3. HostPlaces /\ QuietInv /\ PushInv /\ PollInv /\ FetchInv
  BY FileTypes DEF HostPlaces, QuietInv, AtRest, PushInv, PollInv, FetchInv
<1>4. OpenEmpty
  BY DEF OpenEmpty
<1>5. QED
  BY <1>1, <1>2, <1>3, <1>4 DEF IndInv

\* A new call has the first number not used.
LEMMA NextCall ==
  ASSUME NEW n \in 0 .. MaxCalls, CallsMade(n), CanCall
  PROVE  n < MaxCalls /\ UnusedCall = n + 1 /\ n + 1 \in CallIds
<1> USE RpcAssumption DEF CallIds
<1>1. n < MaxCalls
  BY DEF CanCall, CallsMade
<1>2. /\ n + 1 \in CallIds /\ opOf[n + 1] = NoOp
      /\ \A j \in 1 .. (n + 1) - 1 : opOf[j] # NoOp
  BY <1>1 DEF CallsMade
<1>3. ASSUME NEW i \in CallIds, opOf[i] = NoOp, \A j \in 1 .. (i - 1) : opOf[j] # NoOp
      PROVE  i = n + 1
  <2>1. i > n
    BY <1>3 DEF CallsMade
  <2>2. ~(n + 1 < i)
    BY <1>1, <1>2, <1>3
  <2>3. QED
    BY <2>1, <2>2
<1>4. QED
  BY <1>1, <1>2, <1>3 DEF UnusedCall

-----------------------------------------------------------------------------
(***************************************************************************)
(* Steps of the host                                                       *)
(***************************************************************************)
LEMMA BeginInd ==
  ASSUME IndInv, OneCaller, NEW c \in Callers, pc[c] \in {"idle", "retry"},
         NEW op \in Ops, NEW m \in {"user", "start", "attach", "stop"}, Begin(c, op, m),
         UNCHANGED <<devVars, got, taken, result, req, resp>>
  PROVE  IndInv'
<1> USE RpcAssumption DEF IndInv, devVars
<1>1. PICK n \in 0 .. MaxCalls : CallsMade(n)
  BY DEF InOrder
<1>2. n < MaxCalls /\ UnusedCall = n + 1 /\ n + 1 \in CallIds /\ n + 1 \in 1 .. MaxCalls
  BY <1>1, NextCall DEF Begin, CallIds
<1>3. /\ pc' = [pc EXCEPT ![c] = "rm"] /\ mode' = [mode EXCEPT ![c] = m]
      /\ cid' = [cid EXCEPT ![c] = n + 1] /\ opOf' = [opOf EXCEPT ![n + 1] = op]
  BY <1>2 DEF Begin
<1>4. \A d \in Callers : d = c
  BY DEF OneCaller
<1>5. /\ pc' \in [Callers -> HostPcs] /\ pc'[c] = "rm" /\ cid'[c] = n + 1 /\ cid[c] = 0
      /\ cid' \in [Callers -> 0 .. MaxCalls]
  BY <1>2, <1>3 DEF TypeOK, HostPcs, HostPlaces
<1>6. TypeOK'
  <2>1. /\ mode' \in [Callers -> {"user", "start", "attach", "stop"}]
        /\ opOf' \in [CallIds -> Ops \cup {NoOp}]
    BY <1>2, <1>3 DEF TypeOK
  <2>2. QED
    BY <1>5, <2>1 DEF TypeOK
<1>7. InOrder'
  <2>1. CallsMade(n + 1)'
    <3>1. \A i \in CallIds : opOf'[i] # NoOp <=> i <= n + 1
      BY <1>1, <1>2, <1>3 DEF CallsMade, CallIds, TypeOK, Ops, NoOp
    <3>2. \A i \in CallIds : i > n + 1 => answer'[i] = Pending
      BY <1>1 DEF CallsMade, CallIds
    <3>3. kv' <= n + 1 /\ kv' < n + 1
      BY <1>1 DEF CallsMade, TypeOK
    <3>4. QED
      BY <1>4, <1>5, <3>1, <3>2, <3>3 DEF CallsMade
  <2>2. QED
    BY <1>2, <2>1 DEF InOrder
<1>8. HostPlaces'
  <2>1. answer[n + 1] = Pending
    BY <1>1, <1>2 DEF CallsMade
  <2>2. QED
    BY <1>2, <1>4, <1>5, <2>1 DEF HostPlaces
<1>9. QuietInv'
  BY <1>4, <1>5 DEF QuietInv, Quiet, AtRest
<1>10. PushInv' /\ PollInv' /\ FetchInv'
  BY <1>4, <1>5 DEF PushInv, PollInv, FetchInv
<1>11. OpenEmpty'
  BY DEF OpenEmpty
<1>12. QED
  BY <1>6, <1>7, <1>8, <1>9, <1>10, <1>11

\* The end of a call, however it comes about, leaves nothing to the device.
LEMMA EndInd ==
  ASSUME IndInv, OneCaller, NEW c \in Callers, cid[c] # 0, NEW r \in Answers, End(c, r),
         AtRest, req.got > 0 => dpc \in {"down", "boot"}, resp' \in {resp, NoResp},
         UNCHANGED <<devVars, mode, got, opOf, req>>
  PROVE  IndInv'
<1> USE RpcAssumption DEF IndInv, devVars
<1>1. PICK x \in {"waitdown", "retry", "idle"} : pc' = [pc EXCEPT ![c] = x]
  BY DEF End
<1>2. /\ result' = [result EXCEPT ![cid[c]] = r] /\ cid' = [cid EXCEPT ![c] = 0]
      /\ taken' = [taken EXCEPT ![c] = NoResp]
  BY DEF End
<1>3. \A d \in Callers : d = c
  BY DEF OneCaller
<1>4. /\ pc' \in [Callers -> HostPcs] /\ pc'[c] = x /\ cid'[c] = 0
      /\ cid' \in [Callers -> 0 .. MaxCalls]
  BY <1>1, <1>2 DEF TypeOK, HostPcs
<1>5. TypeOK'
  <2>1. taken' \in [Callers -> RespFiles] /\ resp' \in RespFiles
    BY <1>2, FileTypes DEF TypeOK
  <2>2. result' \in [CallIds -> Answers]
    BY <1>2 DEF TypeOK, CallIds
  <2>3. QED
    BY <1>4, <2>1, <2>2 DEF TypeOK
<1>6. InOrder'
  <2>1. PICK n \in 0 .. MaxCalls : CallsMade(n)
    BY DEF InOrder
  <2>2. CallsMade(n)'
    BY <1>3, <1>4, <2>1 DEF CallsMade
  <2>3. QED
    BY <2>2 DEF InOrder
<1>7. HostPlaces' /\ PushInv' /\ PollInv' /\ FetchInv'
  BY <1>3, <1>4 DEF HostPlaces, PushInv, PollInv, FetchInv
<1>8. QuietInv'
  BY <1>3, <1>4 DEF QuietInv, Quiet, AtRest
<1>9. OpenEmpty'
  BY DEF OpenEmpty
<1>10. QED
  BY <1>5, <1>6, <1>7, <1>8, <1>9

\* The calls are the same ones while a thread only moves on.
LEMMA SameCalls ==
  ASSUME InOrder, UNCHANGED <<opOf, answer, cid>>, kv' = kv
  PROVE  InOrder'
<1>1. PICK n \in 0 .. MaxCalls : CallsMade(n)
  BY DEF InOrder
<1>2. CallsMade(n)'
  BY <1>1 DEF CallsMade
<1>3. QED
  BY <1>2 DEF InOrder

LEMMA RmRespInd == ASSUME IndInv, OneCaller, NEW c \in Callers, RmResp(c) PROVE IndInv'
<1> USE RpcAssumption DEF IndInv, devVars
<1>1. /\ pc[c] = "rm" /\ resp' = NoResp /\ pc' = [pc EXCEPT ![c] = "push"] /\ got' = [got EXCEPT ![c] = 0]
      /\ UNCHANGED <<devVars, mode, cid, taken, result, opOf, req>>
  BY DEF RmResp
<1>2. \A d \in Callers : d = c
  BY DEF OneCaller
<1>3. pc' \in [Callers -> HostPcs] /\ pc'[c] = "push" /\ got' \in [Callers -> 0 .. 3] /\ got'[c] = 0
  BY <1>1 DEF TypeOK, HostPcs
<1>4. TypeOK'
  BY <1>1, <1>3, FileTypes DEF TypeOK
<1>5. InOrder'
  BY <1>1, SameCalls
<1>6. HostPlaces'
  BY <1>1, <1>2, <1>3 DEF HostPlaces, Full
<1>7. QuietInv'
  BY <1>1, <1>2, <1>3 DEF QuietInv, Quiet, AtRest
<1>8. PushInv' /\ PollInv' /\ FetchInv'
  BY <1>2, <1>3 DEF PushInv, PollInv, FetchInv
<1>9. OpenEmpty'
  BY <1>1 DEF OpenEmpty
<1>10. QED
  BY <1>4, <1>5, <1>6, <1>7, <1>8, <1>9

LEMMA PushInd == ASSUME IndInv, OneCaller, NEW c \in Callers, Push(c) PROVE IndInv'
<1> USE RpcAssumption DEF IndInv, devVars
<1> DEFINE mine == [id |-> cid[c], op |-> opOf[cid[c]], got |-> got[c]]
           full == Full(opOf[cid[c]])
<1>1. /\ pc[c] = "push" /\ UNCHANGED <<devVars, mode, cid, taken, result, opOf, resp>>
      /\ req' = IF got[c] = 0 \/ req.id = cid[c] THEN mine ELSE req
  BY DEF Push
<1>2. \A d \in Callers : d = c
  BY DEF OneCaller
<1>3. /\ cid[c] # 0 /\ cid[c] \in CallIds /\ got[c] \in 0 .. 3 /\ full \in {2, 3} /\ got[c] <= full
      /\ answer[cid[c]] = Pending /\ opOf[cid[c]] \in Ops \cup {NoOp}
  <2>1. cid[c] # 0 /\ got[c] <= full /\ answer[cid[c]] = Pending
    BY <1>1 DEF HostPlaces
  <2>2. cid[c] \in CallIds /\ got[c] \in 0 .. 3
    BY <2>1 DEF TypeOK, CallIds
  <2>3. opOf[cid[c]] \in Ops \cup {NoOp}
    BY <2>2 DEF TypeOK
  <2>4. full \in {2, 3}
    BY DEF Full
  <2>5. QED
    BY <2>1, <2>2, <2>3, <2>4
<1>4. \/ got[c] = full /\ pc' = [pc EXCEPT ![c] = "poll"] /\ got' = [got EXCEPT ![c] = 0]
      \/ got[c] < full /\ got' = [got EXCEPT ![c] = got[c] + 1] /\ pc' = pc
  BY <1>3 DEF Push
<1> HIDE DEF full
<1>5. /\ pc' \in [Callers -> HostPcs] /\ got' \in [Callers -> 0 .. 3]
      /\ \/ got[c] = full /\ pc'[c] = "poll"
         \/ got[c] < full /\ pc'[c] = "push" /\ got'[c] = got[c] + 1 /\ got'[c] > 0
  BY <1>1, <1>3, <1>4 DEF TypeOK, HostPcs
<1>6. mine \in ReqFiles /\ mine # NoFile /\ Holds(mine, c, got[c])
  BY <1>3 DEF ReqFiles, NoFile, Holds, CallIds
<1> HIDE DEF mine
<1>7. TypeOK'
  BY <1>1, <1>5, <1>6 DEF TypeOK
<1>8. InOrder'
  BY <1>1, SameCalls
<1>9. HostPlaces'
  BY <1>1, <1>2, <1>3, <1>5 DEF HostPlaces, full
<1>10. QuietInv'
  BY <1>2, <1>5 DEF QuietInv, Quiet
<1>11. /\ req' = NoFile \/ Holds(req', c, got[c])
       /\ AtRest \/ (dpc \in {"hdr", "body", "open", "whdr"} /\ got[c] > 1)
       /\ dpc \in {"hdr", "body"} => req' # NoFile
       /\ dpc \in {"open", "whdr"} => req' = NoFile /\ dout.ans = Failed /\ resp.got = 0
       /\ req' # NoFile => resp = NoResp
       /\ resp # NoResp => resp.ans = Failed
  <2>1. CASE got[c] = 0
    <3>1. AtRest /\ resp = NoResp
      BY <1>1, <2>1 DEF QuietInv, Quiet
    <3>2. req' = mine
      BY <1>1, <2>1
    <3>3. QED
      BY <1>6, <3>1, <3>2 DEF AtRest
  <2>2. CASE got[c] > 0
    <3>1. /\ req = NoFile \/ Holds(req, c, got[c] - 1)
          /\ AtRest \/ (dpc \in {"hdr", "body", "open", "whdr"} /\ got[c] > 1)
          /\ dpc \in {"hdr", "body"} => req # NoFile
          /\ dpc \in {"open", "whdr"} => req = NoFile /\ dout.ans = Failed /\ resp.got = 0
          /\ req # NoFile => resp = NoResp
          /\ resp # NoResp => resp.ans = Failed
      BY <1>1, <2>2 DEF PushInv
    <3>2. CASE req = NoFile
      <4>1. req' = NoFile
        BY <1>1, <1>3, <2>2, <3>2, FileTypes
      <4>2. QED
        BY <3>1, <3>2, <4>1
    <3>3. CASE req # NoFile
      <4>1. req' = mine
        BY <1>1, <3>1, <3>3 DEF Holds
      <4>2. QED
        BY <1>6, <3>1, <3>3, <4>1
    <3>4. QED
      BY <3>2, <3>3
  <2>3. QED
    BY <1>3, <2>1, <2>2
<1>12. PushInv'
  <2>1. CASE pc'[c] = "poll"
    BY <1>2, <2>1 DEF PushInv
  <2>2. CASE pc'[c] = "push"
    <3>1. got'[c] - 1 = got[c] /\ got'[c] = got[c] + 1
      BY <1>3, <1>5, <2>2
    <3>2. Holds(req', c, got[c]) => Holds(req, c, got[c] - 1)'
      BY <1>1, <3>1 DEF Holds
    <3>3. /\ req' = NoFile \/ Holds(req, c, got[c] - 1)'
          /\ AtRest' \/ (dpc' \in {"hdr", "body", "open", "whdr"} /\ got'[c] > 1)
      BY <1>1, <1>3, <1>11, <3>1, <3>2 DEF AtRest
    <3>4. QED
      BY <1>1, <1>2, <1>11, <3>3 DEF PushInv
  <2>3. QED
    BY <1>5, <2>1, <2>2
<1>13. PollInv'
  <2>1. CASE pc'[c] = "push"
    BY <1>2, <2>1 DEF PollInv
  <2>2. CASE pc'[c] = "poll"
    <3>1. got[c] = full
      BY <1>5, <2>2
    <3>2. /\ Holds(req', c, got[c]) => Holds(req, c, Full(opOf[cid[c]]))'
      BY <1>1, <3>1 DEF Holds, full
    <3>3. Right(resp, c)' /\ (dpc \in {"open", "whdr"} => Right(dout, c)')
      BY <1>1, <1>11, FileTypes DEF Right
    <3>4. dpc' \notin {"claim", "handle"}
      BY <1>1, <1>11 DEF AtRest
    <3>5. QED
      BY <1>1, <1>2, <1>3, <1>11, <3>2, <3>3, <3>4 DEF PollInv
  <2>3. QED
    BY <1>5, <2>1, <2>2
<1>14. FetchInv'
  BY <1>2, <1>5 DEF FetchInv
<1>15. OpenEmpty'
  BY <1>1 DEF OpenEmpty
<1>16. QED
  BY <1>7, <1>8, <1>9, <1>10, <1>12, <1>13, <1>14, <1>15

LEMMA PollInd == ASSUME IndInv, OneCaller, NEW c \in Callers, Poll(c) PROVE IndInv'
<1> USE RpcAssumption DEF IndInv, devVars
<1>1. /\ pc[c] = "poll" /\ resp.got > 0 /\ pc' = [pc EXCEPT ![c] = "pull"]
      /\ UNCHANGED <<devVars, mode, cid, got, taken, result, opOf, req, resp>>
  BY DEF Poll
<1>2. \A d \in Callers : d = c
  BY DEF OneCaller
<1>3. pc' \in [Callers -> HostPcs] /\ pc'[c] = "pull"
  BY <1>1 DEF TypeOK, HostPcs
<1>4. resp # NoResp /\ resp.got # 0
  BY <1>1, FileTypes DEF TypeOK, RespFiles
<1>5. req = NoFile /\ AtRest /\ Right(resp, c)
  BY <1>1, <1>4 DEF PollInv, AtRest, TypeOK, DevPcs
<1>6. TypeOK'
  BY <1>1, <1>3 DEF TypeOK
<1>7. InOrder'
  BY <1>1, SameCalls
<1>8. HostPlaces' /\ QuietInv' /\ PushInv' /\ PollInv'
  BY <1>1, <1>2, <1>3 DEF HostPlaces, QuietInv, Quiet, PushInv, PollInv
<1>9. FetchInv'
  BY <1>1, <1>2, <1>3, <1>5 DEF FetchInv, AtRest, Right
<1>10. OpenEmpty'
  BY <1>1 DEF OpenEmpty
<1>11. QED
  BY <1>6, <1>7, <1>8, <1>9, <1>10

LEMMA PullInd == ASSUME IndInv, OneCaller, NEW c \in Callers, Pull(c) PROVE IndInv'
<1> USE RpcAssumption DEF IndInv
<1>1. pc[c] = "pull" /\ UNCHANGED <<devVars, mode, got, opOf, req, resp>>
  BY DEF Pull
<1>2. AtRest /\ req = NoFile /\ Right(resp, c) /\ cid[c] # 0
  BY <1>1 DEF FetchInv, HostPlaces
<1>3. CASE End(c, Failed)
  BY <1>1, <1>2, <1>3, EndInd, FileTypes
<1>4. CASE /\ taken' = [taken EXCEPT ![c] = resp]
           /\ pc' = [pc EXCEPT ![c] = "take"]
           /\ UNCHANGED <<cid, result>>
  <2> USE DEF devVars
  <2>1. \A d \in Callers : d = c
    BY DEF OneCaller
  <2>2. pc' \in [Callers -> HostPcs] /\ pc'[c] = "take" /\ taken' \in [Callers -> RespFiles] /\ taken'[c] = resp
    BY <1>4 DEF TypeOK, HostPcs
  <2>3. TypeOK'
    BY <1>1, <1>4, <2>2 DEF TypeOK
  <2>4. InOrder'
    BY <1>1, <1>4, SameCalls
  <2>5. HostPlaces' /\ QuietInv' /\ PushInv' /\ PollInv'
    BY <1>1, <1>4, <2>1, <2>2 DEF HostPlaces, QuietInv, Quiet, PushInv, PollInv
  <2>6. FetchInv'
    BY <1>1, <1>2, <1>4, <2>1, <2>2 DEF FetchInv, AtRest, Right
  <2>7. OpenEmpty'
    BY <1>1 DEF OpenEmpty
  <2>8. QED
    BY <2>3, <2>4, <2>5, <2>6, <2>7
<1>5. QED
  BY <1>3, <1>4 DEF Pull

LEMMA RpcEndsInd ==
  ASSUME IndInv, Usual, NEW c \in Callers, PushFails(c) \/ Take(c) \/ RmFails(c) \/ Deadline(c)
  PROVE  IndInv'
<1> USE RpcAssumption DEF IndInv
<1>1. OneCaller /\ Faults = {}
  BY DEF Usual
<1>2. CASE PushFails(c)
  <2>1. pc[c] = "push" /\ got[c] <= 1 /\ got[c] \in 0 .. 3 /\ cid[c] # 0
    BY <1>1, <1>2 DEF PushFails, HostPlaces, TypeOK
  <2>2. AtRest /\ (req.got > 0 => dpc \in {"down", "boot"})
    <3>1. CASE got[c] = 0
      BY <2>1, <3>1 DEF QuietInv, Quiet
    <3>2. CASE got[c] = 1
      BY <2>1, <3>2, FileTypes DEF PushInv, Holds
    <3>3. QED
      BY <2>1, <3>1, <3>2
  <2>3. QED
    BY <1>1, <1>2, <2>1, <2>2, EndInd, FileTypes DEF PushFails
<1>3. CASE Take(c)
  <2>1. pc[c] = "take" /\ AtRest /\ req = NoFile /\ cid[c] # 0 /\ taken[c].ans \in Answers
    BY <1>3 DEF Take, FetchInv, HostPlaces, TypeOK, RespFiles
  <2>2. PICK r \in {Failed, taken[c].ans} : End(c, r)
    BY <1>3 DEF Take
  <2>3. r \in Answers /\ NoFile.got = 0
    BY <2>1, FileTypes
  <2>4. QED
    BY <1>1, <1>3, <2>1, <2>2, <2>3, EndInd DEF Take
<1>4. CASE RmFails(c)
  <2>1. pc[c] \in {"rm", "take"} /\ cid[c] # 0
    BY <1>4 DEF RmFails, HostPlaces
  <2>2. AtRest /\ (req.got > 0 => dpc \in {"down", "boot"})
    BY <2>1, FileTypes DEF QuietInv, Quiet, FetchInv
  <2>3. QED
    BY <1>1, <1>4, <2>1, <2>2, EndInd, FileTypes DEF RmFails
<1>5. CASE Deadline(c)
  <2>1. pc[c] = "poll" /\ ~Coming /\ cid[c] # 0
    BY <1>5 DEF Deadline, HostPlaces
  <2>2. AtRest /\ (req.got > 0 => dpc \in {"down", "boot"})
    BY <1>1, <2>1 DEF Coming, DevBusy, AtRest, TypeOK, DevPcs
  <2>3. QED
    BY <1>1, <1>5, <2>1, <2>2, EndInd, FileTypes DEF Deadline
<1>6. QED
  BY <1>2, <1>3, <1>4, <1>5

LEMMA StartStopInd ==
  ASSUME IndInv, OneCaller, NEW c \in Callers, Launch(c) \/ StartFails(c) \/ Stopped(c)
  PROVE  IndInv'
<1> USE RpcAssumption DEF IndInv
<1>1. \A d \in Callers : d = c
  BY DEF OneCaller
<1>2. /\ pc[c] \in {"idle", "retry", "waitdown"} /\ cid[c] = 0
      /\ UNCHANGED <<cid, got, taken, result, answer, downs, opOf, req, resp>>
      /\ mode' \in [Callers -> {"user", "start", "attach", "stop"}]
      /\ dpc' \in {dpc, "down"} \/ (dpc = "down" /\ dpc' = "boot")
      /\ kv' \in {kv, 0}
      /\ \/ UNCHANGED <<dreq, dwant, dout>>
         \/ NoLocals
  BY DEF Launch, StartFails, Stopped, devVars, HostPlaces, TypeOK
<1>3. \E x \in {"retry", "idle"} : pc' = [pc EXCEPT ![c] = x]
  BY DEF Launch, StartFails, Stopped
<1>4. pc' \in [Callers -> HostPcs] /\ pc'[c] \in {"retry", "idle"}
  BY <1>3 DEF TypeOK, HostPcs
<1>5. AtRest /\ (req.got > 0 => dpc \in {"down", "boot"})
  BY <1>2 DEF QuietInv, Quiet
<1>6. TypeOK'
  <2>1. dreq' \in ReqFiles /\ dout' \in RespFiles /\ dwant' \in (Ops \cup {NoOp}) \X (Ops \cup {NoOp})
    BY <1>2, FileTypes DEF TypeOK, NoLocals
  <2>2. dpc' \in DevPcs /\ kv' \in 0 .. MaxCalls
    BY <1>2 DEF TypeOK, DevPcs
  <2>3. QED
    BY <1>2, <1>4, <2>1, <2>2 DEF TypeOK
<1>7. InOrder'
  <2>1. PICK n \in 0 .. MaxCalls : CallsMade(n)
    BY DEF InOrder
  <2>2. CallsMade(n)'
    BY <1>1, <1>2, <2>1 DEF CallsMade
  <2>3. QED
    BY <2>2 DEF InOrder
<1>8. HostPlaces' /\ PushInv' /\ PollInv' /\ FetchInv'
  BY <1>1, <1>2, <1>4 DEF HostPlaces, PushInv, PollInv, FetchInv
<1>9. QuietInv'
  BY <1>1, <1>2, <1>4, <1>5 DEF QuietInv, Quiet, AtRest
<1>10. OpenEmpty'
  BY <1>2, <1>5 DEF OpenEmpty, AtRest
<1>11. QED
  BY <1>6, <1>7, <1>8, <1>9, <1>10

-----------------------------------------------------------------------------
(***************************************************************************)
(* Steps of the device                                                     *)
(***************************************************************************)
\* A program that starts, or looks at a request without changing anything.
LEMMA DevReadsInd ==
  ASSUME IndInv, Boot \/ Loaded \/ TakeRequest \/ HeaderRead
  PROVE  IndInv'
<1> USE RpcAssumption DEF IndInv, hostVars
<1>1. /\ UNCHANGED <<hostVars, opOf, downs, dreq, dout, kv, answer>>
      /\ dwant' \in (Ops \cup {NoOp}) \X (Ops \cup {NoOp})
      /\ \/ dpc = "boot" /\ dpc' = "load" /\ req' = NoFile /\ resp' = NoResp
         \/ dpc = "load" /\ dpc' = "serve" /\ UNCHANGED <<req, resp>>
         \/ dpc = "serve" /\ dpc' = "hdr" /\ req.got > 0 /\ UNCHANGED <<req, resp>>
         \/ dpc = "hdr" /\ dpc' = "body" /\ UNCHANGED <<req, resp>>
  BY DEF Boot, Loaded, TakeRequest, HeaderRead, DevGoto, TypeOK, ReqFiles
<1>2. TypeOK'
  <2>1. dpc' \in DevPcs /\ req' \in ReqFiles /\ resp' \in RespFiles
    BY <1>1, FileTypes DEF TypeOK, DevPcs
  <2>2. QED
    BY <1>1, <2>1 DEF TypeOK
<1>3. InOrder'
  BY <1>1, SameCalls
<1>4. HostPlaces'
  BY <1>1 DEF HostPlaces
<1>5. req.got > 0 => req # NoFile
  BY FileTypes
<1>6. QuietInv'
  <2> SUFFICES ASSUME NEW c \in Callers, Quiet(c)
               PROVE  /\ AtRest' /\ (pc'[c] = "push" => resp' = NoResp)
                      /\ req'.got > 0 => dpc' \in {"down", "boot"}
    BY <1>1 DEF QuietInv, Quiet
  <2>1. AtRest /\ (pc[c] = "push" => resp = NoResp) /\ (req.got > 0 => dpc \in {"down", "boot"})
    BY DEF QuietInv
  <2>2. QED
    BY <1>1, <2>1, FileTypes DEF AtRest
<1>7. PushInv'
  <2> SUFFICES ASSUME NEW c \in Callers, pc[c] = "push", got[c] > 0
               PROVE  /\ req' = NoFile \/ Holds(req', c, got[c] - 1)
                      /\ AtRest' \/ (dpc' \in {"hdr", "body", "open", "whdr"} /\ got[c] > 1)
                      /\ dpc' \in {"hdr", "body"} => req' # NoFile
                      /\ dpc' \in {"open", "whdr"} => req' = NoFile /\ dout'.ans = Failed /\ resp'.got = 0
                      /\ req' # NoFile => resp' = NoResp
                      /\ resp' # NoResp => resp'.ans = Failed
    BY <1>1 DEF PushInv, Holds
  <2>1. /\ req = NoFile \/ Holds(req, c, got[c] - 1)
        /\ AtRest \/ (dpc \in {"hdr", "body", "open", "whdr"} /\ got[c] > 1)
        /\ dpc \in {"hdr", "body"} => req # NoFile
        /\ req # NoFile => resp = NoResp
        /\ resp # NoResp => resp.ans = Failed
    BY DEF PushInv
  <2>2. req.got > 0 => got[c] > 1
    BY <1>5, <2>1 DEF Holds, TypeOK
  <2>3. QED
    BY <1>1, <1>5, <2>1, <2>2 DEF AtRest
<1>8. PollInv'
  <2> SUFFICES ASSUME NEW c \in Callers, pc[c] = "poll"
               PROVE  /\ req' = NoFile \/ Holds(req', c, Full(opOf[cid[c]]))
                      /\ req' # NoFile => resp' = NoResp /\ answer[cid[c]] = Pending
                      /\ dpc' \in {"hdr", "body"} => req' # NoFile
                      /\ dpc' \notin {"claim", "handle", "open", "whdr"}
                      /\ Right(resp', c)
    BY <1>1 DEF PollInv, Holds, Right
  <2>1. Right(NoResp, c)
    BY FileTypes DEF Right
  <2>2. QED
    BY <1>1, <1>5, <2>1 DEF PollInv
<1>9. FetchInv'
  <2> SUFFICES ASSUME NEW c \in Callers, pc[c] \in {"pull", "take"}
               PROVE  AtRest' /\ req' = NoFile /\ Right(resp', c) /\ (pc[c] = "take" => Right(taken[c], c))
    BY <1>1 DEF FetchInv, Right
  <2>1. AtRest /\ req = NoFile /\ Right(resp, c) /\ (pc[c] = "take" => Right(taken[c], c))
    BY DEF FetchInv
  <2>2. Right(NoResp, c)
    BY FileTypes DEF Right
  <2>3. QED
    BY <1>1, <1>5, <2>1, <2>2 DEF AtRest
<1>10. OpenEmpty'
  BY <1>1 DEF OpenEmpty
<1>11. QED
  BY <1>2, <1>3, <1>4, <1>6, <1>7, <1>8, <1>9, <1>10

\* The program reads a request, or finds one it cannot read: only while its
\* caller pushes it or waits for the answer.
LEMMA DevTakesInd ==
  ASSUME IndInv, BodyRead \/ Claim \/ BadRequest
  PROVE  IndInv'
<1> USE RpcAssumption DEF IndInv, hostVars
<1> DEFINE err == [id |-> 0, ans |-> Failed, got |-> 0]
<1>1. err \in RespFiles /\ err.ans = Failed /\ err.ans.kind # "ok"
  BY FileTypes DEF RespFiles
<1>2. /\ UNCHANGED <<hostVars, opOf, downs, dwant, kv, answer, resp>>
      /\ \/ /\ dpc = "body" /\ dpc' = "claim" /\ dreq' = req /\ UNCHANGED <<dout, req>>
            /\ req.got = Full(req.op)
         \/ dpc = "claim" /\ dpc' = "handle" /\ req' = NoFile /\ UNCHANGED <<dreq, dout>>
         \/ dpc \in {"hdr", "body"} /\ dpc' = "open" /\ req' = NoFile /\ dreq' = NoFile /\ dout' = err
  BY DEF BodyRead, Claim, BadRequest, DevGoto, SizeFits
<1> HIDE DEF err
<1>3. TypeOK'
  <2>1. dpc' \in DevPcs /\ req' \in ReqFiles /\ dreq' \in ReqFiles /\ dout' \in RespFiles
    BY <1>1, <1>2, FileTypes DEF TypeOK, DevPcs
  <2>2. QED
    BY <1>2, <2>1 DEF TypeOK
<1>4. InOrder'
  BY <1>2, SameCalls
<1>5. HostPlaces'
  BY <1>2 DEF HostPlaces
<1>6. QuietInv'
  BY <1>2 DEF QuietInv, Quiet, AtRest
<1>7. PushInv'
  <2> SUFFICES ASSUME NEW c \in Callers, pc[c] = "push", got[c] > 0
               PROVE  /\ req' = NoFile \/ Holds(req', c, got[c] - 1)
                      /\ AtRest' \/ (dpc' \in {"hdr", "body", "open", "whdr"} /\ got[c] > 1)
                      /\ dpc' \in {"hdr", "body"} => req' # NoFile
                      /\ dpc' \in {"open", "whdr"} => req' = NoFile /\ dout'.ans = Failed /\ resp'.got = 0
                      /\ req' # NoFile => resp' = NoResp
                      /\ resp' # NoResp => resp'.ans = Failed
    BY <1>2 DEF PushInv, Holds
  <2>1. /\ req = NoFile \/ Holds(req, c, got[c] - 1)
        /\ AtRest \/ (dpc \in {"hdr", "body", "open", "whdr"} /\ got[c] > 1)
        /\ dpc \in {"hdr", "body"} => req # NoFile
        /\ req # NoFile => resp = NoResp
    BY DEF PushInv
  <2>2. dpc \in {"hdr", "body"} /\ req # NoFile /\ resp = NoResp /\ got[c] > 1
    BY <1>2, <2>1 DEF AtRest
  <2>3. req.got # Full(req.op)
    <3>1. /\ req.op = opOf[cid[c]] /\ req.got = got[c] - 1 /\ got[c] <= Full(opOf[cid[c]])
          /\ got[c] \in 0 .. 3
      BY <2>1, <2>2 DEF Holds, HostPlaces, TypeOK
    <3>2. Full(req.op) \in {2, 3}
      BY DEF Full
    <3>3. QED
      BY <3>1, <3>2
  <2>4. dpc' = "open" /\ req' = NoFile /\ dout' = err /\ resp' = NoResp
    BY <1>2, <2>2, <2>3
  <2>5. QED
    BY <1>1, <2>2, <2>4, FileTypes
<1>8. PollInv'
  <2> SUFFICES ASSUME NEW c \in Callers, pc[c] = "poll"
               PROVE  /\ req' = NoFile \/ Holds(req', c, Full(opOf[cid[c]]))
                      /\ req' # NoFile => resp' = NoResp /\ answer[cid[c]] = Pending
                      /\ dpc' \in {"hdr", "body", "claim"} => req' # NoFile
                      /\ dpc' = "claim" => dreq' = req'
                      /\ dpc' = "handle" => /\ req' = NoFile /\ resp' = NoResp /\ answer[cid[c]] = Pending
                                            /\ Holds(dreq', c, Full(opOf[cid[c]]))
                      /\ dpc' \in {"open", "whdr"} => req' = NoFile /\ Right(dout', c) /\ resp'.got = 0
                      /\ Right(resp', c)
    BY <1>2 DEF PollInv, Holds, Right
  <2>1. /\ Holds(req, c, Full(opOf[cid[c]])) /\ req # NoFile /\ resp = NoResp /\ answer[cid[c]] = Pending
        /\ dpc = "claim" => dreq = req
    BY <1>2 DEF PollInv
  <2>2. Right(err, c) /\ Right(NoResp, c)
    BY <1>1, FileTypes DEF Right
  <2>3. QED
    BY <1>2, <2>1, <2>2, FileTypes
<1>9. FetchInv'
  BY <1>2 DEF FetchInv, AtRest
<1>10. OpenEmpty'
  BY <1>2 DEF OpenEmpty, err
<1>11. QED
  BY <1>3, <1>4, <1>5, <1>6, <1>7, <1>8, <1>9, <1>10

\* The request is carried out: its caller waits for the answer.
LEMMA HandleRequestInd == ASSUME IndInv, OneCaller, HandleRequest PROVE IndInv'
<1> USE RpcAssumption DEF IndInv, hostVars
<1>1. PICK c \in Callers : \A d \in Callers : d = c
  BY DEF OneCaller
<1>2. dpc = "handle" /\ dpc' = "open" /\ UNCHANGED <<hostVars, opOf, downs, dreq, dwant, req, resp>>
  BY DEF HandleRequest, DevGoto
<1>3. pc[c] = "poll"
  BY <1>2 DEF QuietInv, Quiet, AtRest, PushInv, FetchInv, TypeOK, HostPcs
<1>4. /\ dreq.id = cid[c] /\ dreq.op = opOf[cid[c]] /\ answer[cid[c]] = Pending
      /\ req = NoFile /\ resp = NoResp /\ cid[c] # 0 /\ cid[c] \in CallIds
  <2>1. cid[c] # 0 /\ cid[c] \in CallIds
    <3>1. cid[c] # 0 /\ cid[c] \in 0 .. MaxCalls
      BY <1>3 DEF HostPlaces, TypeOK
    <3>2. QED
      BY <3>1 DEF CallIds
  <2>2. Holds(dreq, c, Full(opOf[cid[c]])) /\ answer[cid[c]] = Pending /\ req = NoFile /\ resp = NoResp
    BY <1>2, <1>3 DEF PollInv
  <2>3. QED
    BY <2>1, <2>2 DEF Holds
<1>5. PICK out \in Outcomes(dreq.op, kv) :
        /\ kv' = out[1]
        /\ dout' = [id |-> dreq.id, ans |-> out[2], got |-> 0]
        /\ answer' = [answer EXCEPT ![dreq.id] = out[2]]
  BY DEF HandleRequest
<1>6. PICK n \in 0 .. MaxCalls : CallsMade(n)
  BY DEF InOrder
<1>7. cid[c] = n /\ kv \in 0 .. n - 1 /\ n \in 1 .. MaxCalls
  BY <1>4, <1>6 DEF CallsMade, TypeOK
<1>8. kv' \in 0 .. n /\ out[2] \in Answers /\ out[2] # Pending
  <2>1. Ok(kv + 1) \in Answers /\ Ok(kv + 1) # Pending /\ Ok(0) # Pending
    BY <1>7, FileTypes DEF Answers
  <2>2. out \in {<<kv + 1, Ok(kv + 1)>>, <<kv, Failed>>, <<kv + 1, Failed>>, <<0, Ok(0)>>, <<kv, Ok(0)>>}
    BY <1>5 DEF Outcomes
  <2>3. QED
    BY <1>5, <1>7, <2>1, <2>2, FileTypes
<1>9. /\ dout' \in RespFiles /\ dout'.id = cid[c] /\ dout'.ans = out[2]
      /\ answer' \in [CallIds -> Answers] /\ answer'[cid[c]] = out[2]
      /\ \A i \in CallIds : i # cid[c] => answer'[i] = answer[i]
  BY <1>4, <1>5, <1>8 DEF TypeOK, RespFiles, CallIds
<1>10. TypeOK'
  <2>1. kv' \in 0 .. MaxCalls /\ dpc' \in DevPcs
    BY <1>2, <1>7, <1>8 DEF DevPcs
  <2>2. QED
    BY <1>2, <1>9, <2>1 DEF TypeOK
<1>11. InOrder'
  <2>1. CallsMade(n)'
    <3>1. \A i \in CallIds : i > n => answer'[i] = Pending
      BY <1>6, <1>7, <1>9 DEF CallsMade, CallIds
    <3>2. kv' <= n
      BY <1>7, <1>8
    <3>3. QED
      BY <1>1, <1>2, <1>6, <1>8, <1>9, <3>1, <3>2 DEF CallsMade
  <2>2. QED
    BY <2>1 DEF InOrder
<1>12. HostPlaces' /\ QuietInv' /\ PushInv' /\ FetchInv'
  BY <1>1, <1>2, <1>3, <1>4 DEF HostPlaces, QuietInv, Quiet, PushInv, FetchInv
<1>13. PollInv'
  <2>1. Right(dout, c)' /\ Right(resp, c)'
    BY <1>2, <1>4, <1>9, FileTypes DEF Right
  <2>2. QED
    BY <1>1, <1>2, <1>3, <1>4, <2>1, FileTypes DEF PollInv
<1>14. OpenEmpty'
  BY <1>9, <1>5 DEF OpenEmpty
<1>15. QED
  BY <1>10, <1>11, <1>12, <1>13, <1>14

\* The answer is written part by part, or not at all.
LEMMA DevWritesInd == ASSUME IndInv, WriteResp \/ WriteFails PROVE IndInv'
<1> USE RpcAssumption DEF IndInv, hostVars
<1>1. /\ UNCHANGED <<hostVars, opOf, downs, kv, answer, req>>
      /\ UNCHANGED <<dreq, dwant, dout>> \/ NoLocals
      /\ \/ dpc = "open" /\ dpc' = "whdr" /\ resp' = dout /\ dout' = dout
         \/ dpc = "whdr" /\ dpc' = "wbody" /\ (resp' = resp \/ (resp # NoResp /\ resp' = [resp EXCEPT !.got = 1]))
         \/ dpc = "wbody" /\ dpc' = "serve" /\ (resp' = resp \/ (resp # NoResp /\ resp' = [resp EXCEPT !.got = 2]))
         \/ dpc \in {"open", "whdr", "wbody"} /\ dpc' = "serve" /\ resp' = resp
  BY DEF WriteResp, WriteFails, DevGoto, DevServe
<1>2. resp \in RespFiles /\ dout \in RespFiles
  BY DEF TypeOK
<1>3. \/ resp' = dout /\ dpc = "open" /\ dpc' = "whdr"
      \/ /\ resp' \in RespFiles /\ resp'.id = resp.id /\ resp'.ans = resp.ans
         /\ resp = NoResp => resp' = NoResp
         /\ dpc' \in {"wbody", "serve"}
  BY <1>1, <1>2 DEF RespFiles
<1>4. TypeOK'
  <2>1. dpc' \in DevPcs /\ resp' \in RespFiles
    BY <1>1, <1>2, <1>3 DEF DevPcs
  <2>2. dreq' \in ReqFiles /\ dout' \in RespFiles /\ dwant' \in (Ops \cup {NoOp}) \X (Ops \cup {NoOp})
    BY <1>1, FileTypes DEF TypeOK, NoLocals
  <2>3. QED
    BY <1>1, <2>1, <2>2 DEF TypeOK
<1>5. InOrder' /\ HostPlaces'
  BY <1>1, SameCalls DEF HostPlaces
<1>6. QuietInv'
  BY <1>1, <1>3 DEF QuietInv, Quiet, AtRest
<1>7. PushInv'
  <2> SUFFICES ASSUME NEW c \in Callers, pc[c] = "push", got[c] > 0
               PROVE  /\ req = NoFile \/ Holds(req, c, got[c] - 1)
                      /\ AtRest' \/ (dpc' \in {"hdr", "body", "open", "whdr"} /\ got[c] > 1)
                      /\ dpc' \in {"hdr", "body"} => req # NoFile
                      /\ dpc' \in {"open", "whdr"} => req = NoFile /\ dout'.ans = Failed /\ resp'.got = 0
                      /\ req # NoFile => resp' = NoResp
                      /\ resp' # NoResp => resp'.ans = Failed
    BY <1>1 DEF PushInv, Holds
  <2>1. CASE resp' = dout /\ dpc = "open" /\ dpc' = "whdr"
    <3>1. /\ dout' = dout /\ req = NoFile /\ dout.ans = Failed /\ got[c] > 1
      BY <1>1, <2>1 DEF PushInv, AtRest
    <3>2. dout.got = 0
      BY <2>1 DEF OpenEmpty
    <3>3. QED
      BY <2>1, <3>1, <3>2
  <2>2. CASE ~(resp' = dout /\ dpc = "open" /\ dpc' = "whdr")
    <3>1. resp' # NoResp => resp # NoResp /\ resp'.ans = resp.ans
      BY <1>3, <2>2
    <3>2. QED
      BY <1>3, <2>2, <3>1 DEF PushInv, AtRest
  <2>3. QED
    BY <2>1, <2>2
<1>8. PollInv'
  <2> SUFFICES ASSUME NEW c \in Callers, pc[c] = "poll"
               PROVE  /\ req = NoFile \/ Holds(req, c, Full(opOf[cid[c]]))
                      /\ req # NoFile => resp' = NoResp /\ answer[cid[c]] = Pending
                      /\ dpc' \notin {"hdr", "body", "claim", "handle", "open"}
                      /\ dpc' = "whdr" => req = NoFile /\ Right(dout', c) /\ resp'.got = 0
                      /\ Right(resp', c)
    BY <1>1 DEF PollInv, Holds, Right
  <2>1. CASE resp' = dout /\ dpc = "open" /\ dpc' = "whdr"
    <3>1. /\ dout' = dout /\ req = NoFile /\ Right(dout, c)
      BY <1>1, <2>1 DEF PollInv
    <3>2. dout.got = 0
      BY <2>1 DEF OpenEmpty
    <3>3. QED
      BY <2>1, <3>1, <3>2
  <2>2. CASE ~(resp' = dout /\ dpc = "open" /\ dpc' = "whdr")
    <3>1. Right(resp, c) => Right(resp', c)
      BY <1>3, <2>2 DEF Right
    <3>2. QED
      BY <1>3, <2>2, <3>1 DEF PollInv
  <2>3. QED
    BY <2>1, <2>2
<1>9. FetchInv'
  <2> SUFFICES ASSUME NEW c \in Callers, pc[c] \in {"pull", "take"}
               PROVE  AtRest' /\ req = NoFile /\ Right(resp', c) /\ (pc[c] = "take" => Right(taken[c], c))
    BY <1>1 DEF FetchInv, Right
  <2>1. AtRest /\ req = NoFile /\ Right(resp, c) /\ (pc[c] = "take" => Right(taken[c], c))
    BY DEF FetchInv
  <2>2. QED
    BY <1>3, <2>1 DEF AtRest, Right
<1>10. OpenEmpty'
  BY <1>1 DEF OpenEmpty
<1>11. QED
  BY <1>4, <1>5, <1>6, <1>7, <1>8, <1>9, <1>10

\* The program ends, at whatever it was.
LEMMA DevEndsInd == ASSUME IndInv, ShutDown \/ Down PROVE IndInv'
<1> USE RpcAssumption DEF IndInv, hostVars
<1>1. /\ UNCHANGED <<hostVars, opOf, answer, req>> /\ dpc' = "down" /\ kv' = 0 /\ NoLocals
      /\ downs' \in 0 .. MaxDown
      /\ resp' = resp \/ (resp # NoResp /\ resp' = [resp EXCEPT !.got = 2])
  BY DEF ShutDown, Down, DevEnds, TypeOK
<1>2. /\ resp' \in RespFiles /\ resp'.id = resp.id /\ resp'.ans = resp.ans
      /\ resp = NoResp => resp' = NoResp
  BY <1>1 DEF RespFiles, TypeOK
<1>3. TypeOK'
  <2>1. dreq' \in ReqFiles /\ dout' \in RespFiles /\ dwant' \in (Ops \cup {NoOp}) \X (Ops \cup {NoOp})
    BY <1>1, FileTypes DEF NoLocals
  <2>2. dpc' \in DevPcs /\ kv' \in 0 .. MaxCalls
    BY <1>1 DEF DevPcs
  <2>3. QED
    BY <1>1, <1>2, <2>1, <2>2 DEF TypeOK
<1>4. InOrder'
  <2>1. PICK n \in 0 .. MaxCalls : CallsMade(n)
    BY DEF InOrder
  <2>2. CallsMade(n)'
    BY <1>1, <2>1 DEF CallsMade, TypeOK
  <2>3. QED
    BY <2>2 DEF InOrder
<1>5. HostPlaces' /\ QuietInv'
  BY <1>1, <1>2 DEF HostPlaces, QuietInv, Quiet, AtRest
<1>6. PushInv'
  BY <1>1, <1>2 DEF PushInv, Holds, AtRest
<1>7. PollInv' /\ FetchInv'
  BY <1>1, <1>2 DEF PollInv, FetchInv, Holds, Right, AtRest
<1>8. OpenEmpty'
  BY <1>1 DEF OpenEmpty
<1>9. QED
  BY <1>3, <1>4, <1>5, <1>6, <1>7, <1>8

LEMMA StutterInd == ASSUME IndInv, UNCHANGED vars PROVE IndInv'
<1> USE DEF IndInv, vars, hostVars, devVars
<1>1. TypeOK' /\ InOrder' /\ HostPlaces'
  BY SameCalls DEF TypeOK, HostPlaces
<1>2. QuietInv' /\ PushInv' /\ PollInv' /\ FetchInv' /\ OpenEmpty'
  BY DEF QuietInv, Quiet, PushInv, PollInv, FetchInv, Holds, Right, AtRest, OpenEmpty
<1>3. QED
  BY <1>1, <1>2

LEMMA NextInd == ASSUME IndInv, Usual, [Next]_vars PROVE IndInv'
<1>1. OneCaller
  BY DEF Usual
<1>2. ASSUME NEW c \in Callers, RpcStep(c) PROVE IndInv'
  BY <1>1, <1>2, RmRespInd, PushInd, PollInd, PullInd, RpcEndsInd DEF RpcStep
<1>3. ASSUME NEW c \in Callers, Call(c) \/ Attach(c) \/ Retry(c) \/ Stop(c) PROVE IndInv'
  <2>1. PICK op \in Ops, m \in {"user", "start", "attach", "stop"} :
          /\ pc[c] \in {"idle", "retry"} /\ Begin(c, op, m)
          /\ UNCHANGED <<devVars, got, taken, result, req, resp>>
    BY <1>3 DEF Call, Attach, Retry, Stop, Ops
  <2>2. QED
    BY <1>1, <2>1, BeginInd
<1>4. ASSUME NEW c \in Callers, Launch(c) \/ StartFails(c) \/ Stopped(c) PROVE IndInv'
  BY <1>1, <1>4, StartStopInd
<1>5. ASSUME NEW c \in Callers, HostStep(c) PROVE IndInv'
  BY <1>2, <1>3, <1>4, <1>5 DEF HostStep
<1>6. CASE DevStep
  BY <1>1, <1>6, DevReadsInd, DevTakesInd, HandleRequestInd, DevWritesInd DEF DevStep
<1>7. CASE ShutDown \/ Down
  BY <1>7, DevEndsInd
<1>8. CASE Finished \/ UNCHANGED vars
  BY <1>8, StutterInd DEF Finished
<1>9. QED
  BY <1>5, <1>6, <1>7, <1>8 DEF Next

\* The inductive invariant, from which the properties follow.
THEOREM Invariance == Usual => (Spec => []IndInv)
<1> SUFFICES ASSUME Usual PROVE Spec => []IndInv
  OBVIOUS
<1>1. Init => IndInv
  BY InitInd
<1>2. IndInv /\ [Next]_vars => IndInv'
  BY NextInd
<1>3. QED
  BY <1>1, <1>2, PTL DEF Spec

-----------------------------------------------------------------------------
(***************************************************************************)
(* Refinement of DeviceService                                             *)
(***************************************************************************)
\* The end of a call as a failure.
LEMMA EndFails ==
  ASSUME NEW c \in Callers, cid[c] # 0, End(c, Failed), UNCHANGED <<devVars, opOf>>
  PROVE  DS!Fail(c)
BY DEF End, devVars, DS!Fail, DS!Failed, Failed

\* Every step of the host is a step of the service or invisible to it.
LEMMA HostRefines ==
  ASSUME IndInv, NEW c \in Callers, HostStep(c)
  PROVE  DS!DSNext \/ UNCHANGED DS!dsVars
<1> USE DEF IndInv
<1>1. CASE Call(c) \/ Attach(c) \/ Retry(c) \/ Stop(c)
  <2>1. PICK op \in Ops, m \in {"user", "start", "attach", "stop"} :
          /\ pc[c] \in {"idle", "retry"} /\ Begin(c, op, m)
          /\ UNCHANGED <<devVars, got, taken, result, req, resp>>
    BY <1>1 DEF Call, Attach, Retry, Stop, Ops
  <2>2. PICK n \in 0 .. MaxCalls : CallsMade(n)
    BY DEF InOrder
  <2>3. UnusedCall = n + 1 /\ n + 1 \in CallIds /\ n + 1 > n
    BY <2>1, <2>2, NextCall DEF Begin
  <2>4. opOf[n + 1] = NoOp
    BY <2>2, <2>3 DEF CallsMade
  <2>5. cid[c] = 0
    BY <2>1 DEF HostPlaces
  <2>6. DS!Invoke(c)
    BY <2>1, <2>3, <2>4, <2>5 DEF Begin, devVars, DS!Invoke, DS!CallIds, DS!Ops, DS!NoOp, CallIds, Ops, NoOp
  <2>7. QED
    BY <2>6 DEF DS!DSNext
<1>2. CASE RmResp(c) \/ Push(c) \/ Poll(c) \/ Launch(c) \/ StartFails(c)
  BY <1>2 DEF RmResp, Push, Poll, Launch, StartFails, devVars, DS!dsVars
<1>3. CASE Stopped(c)
  BY <1>3 DEF Stopped, DS!DSNext, DS!Lose
<1>4. CASE PushFails(c) \/ RmFails(c) \/ Deadline(c)
  <2>1. cid[c] # 0 /\ End(c, Failed) /\ UNCHANGED <<devVars, opOf>>
    BY <1>4 DEF PushFails, RmFails, Deadline, HostPlaces
  <2>2. QED
    BY <2>1, EndFails DEF DS!DSNext
<1>5. CASE Pull(c)
  <2>1. cid[c] # 0 /\ UNCHANGED <<devVars, opOf>>
    BY <1>5 DEF Pull, HostPlaces
  <2>2. CASE End(c, Failed)
    BY <2>1, <2>2, EndFails DEF DS!DSNext
  <2>3. CASE UNCHANGED <<cid, result>>
    BY <2>1, <2>3 DEF devVars, DS!dsVars
  <2>4. QED
    BY <1>5, <2>2, <2>3 DEF Pull
<1>6. CASE Take(c)
  <2>1. cid[c] # 0 /\ Right(taken[c], c) /\ UNCHANGED <<devVars, opOf>>
    BY <1>6 DEF Take, HostPlaces, FetchInv
  <2>2. CASE taken[c].got < 2 \/ taken[c].ans.kind # "ok"
    <3>1. End(c, Failed)
      BY <1>6, <2>2 DEF Take
    <3>2. QED
      BY <2>1, <3>1, EndFails DEF DS!DSNext
  <2>3. CASE ~(taken[c].got < 2 \/ taken[c].ans.kind # "ok")
    <3>1. End(c, taken[c].ans)
      BY <1>6, <2>3 DEF Take
    <3>2. taken[c].ans = answer[cid[c]] /\ answer[cid[c]].kind = "ok"
      BY <2>1, <2>3 DEF Right
    <3>3. DS!Return(c)
      BY <2>1, <3>1, <3>2 DEF End, devVars, DS!Return
    <3>4. QED
      BY <3>3 DEF DS!DSNext
  <2>4. QED
    BY <2>2, <2>3
<1>7. QED
  BY <1>1, <1>2, <1>3, <1>4, <1>5, <1>6 DEF HostStep, RpcStep

\* So is every step of the device.
LEMMA DeviceRefines ==
  ASSUME IndInv, OneCaller, DevStep \/ ShutDown \/ Down
  PROVE  DS!DSNext \/ UNCHANGED DS!dsVars
<1> USE DEF IndInv
<1>1. CASE ShutDown \/ Down
  BY <1>1 DEF ShutDown, Down, DevEnds, hostVars, DS!DSNext, DS!Lose
<1>2. CASE DevStep /\ ~HandleRequest
  BY <1>2 DEF DevStep, Boot, Loaded, TakeRequest, HeaderRead, BodyRead, Claim, BadRequest, WriteResp, WriteFails,
              DevGoto, DevServe, hostVars, DS!dsVars
<1>3. CASE HandleRequest
  <2>1. PICK c \in Callers : \A d \in Callers : d = c
    BY DEF OneCaller
  <2>2. pc[c] = "poll" /\ dpc = "handle"
    BY <1>3 DEF HandleRequest, QuietInv, Quiet, AtRest, PushInv, FetchInv, TypeOK, HostPcs
  <2>3. Holds(dreq, c, Full(opOf[cid[c]])) /\ answer[cid[c]] = Pending
    BY <2>2 DEF PollInv
  <2>4. cid[c] # 0
    BY <2>2 DEF HostPlaces
  <2>5. UNCHANGED <<cid, opOf, result>>
    BY <1>3 DEF HandleRequest, DevGoto, hostVars
  <2>6. \A op, k : Outcomes(op, k) = DS!Outcomes(op, k)
    BY DEF Outcomes, DS!Outcomes, Ok, DS!Ok, Failed, DS!Failed
  <2>7. Pending = DS!Pending
    BY DEF Pending, DS!Pending
  <2>8. DS!Execute(c)
    BY <1>3, <2>3, <2>4, <2>5, <2>6, <2>7 DEF HandleRequest, Holds, DS!Execute
  <2>9. QED
    BY <2>8 DEF DS!DSNext
<1>4. QED
  BY <1>1, <1>2, <1>3

\* Every step of the RPC is a step of the service or invisible to it.
LEMMA StepRefines ==
  ASSUME IndInv, Usual, [Next]_vars
  PROVE  [DS!DSNext]_(DS!dsVars)
<1>1. OneCaller
  BY DEF Usual
<1>2. CASE Finished \/ UNCHANGED vars
  BY <1>2 DEF Finished, vars, hostVars, devVars, DS!dsVars
<1>3. QED
  BY <1>1, <1>2, HostRefines, DeviceRefines DEF Next

\* The initial states are those of the service.
LEMMA InitRefines == Init => DS!DSInit
BY DEF Init, DS!DSInit, CallIds, DS!CallIds, Pending, DS!Pending, NoOp, DS!NoOp

-----------------------------------------------------------------------------
(***************************************************************************)
(* The variables keep their types; the state on the device never counts    *)
(* more steps than there were calls.                                       *)
(***************************************************************************)
THEOREM Types == Usual => (Spec => []TypeOK)
<1> SUFFICES ASSUME Usual PROVE Spec => []TypeOK
  OBVIOUS
<1>1. IndInv => TypeOK
  BY DEF IndInv
<1>2. QED
  BY <1>1, Invariance, PTL

(***************************************************************************)
(* One caller never takes a late, a stale or a partial answer for the      *)
(* answer to its call, whenever adb commands fail and the device program   *)
(* dies or restarts (_rpc, write_resp).                                    *)
(***************************************************************************)
THEOREM OwnAnswer == Usual => (Spec => []AnswerMatches)
<1> SUFFICES ASSUME Usual PROVE Spec => []AnswerMatches
  OBVIOUS
<1>1. IndInv => AnswerMatches
  BY DEF IndInv, FetchInv, Right, AnswerMatches
<1>2. QED
  BY <1>1, Invariance, PTL

(***************************************************************************)
(* Then a reset that succeeds has cleared the device (reset).              *)
(***************************************************************************)
THEOREM ResetIsDone == Usual => (Spec => []ResetDone)
<1> SUFFICES ASSUME Usual PROVE Spec => []ResetDone
  OBVIOUS
<1>1. IndInv => ResetDone
  BY DEF IndInv, FetchInv, Right, ResetDone
<1>2. QED
  BY <1>1, Invariance, PTL

(***************************************************************************)
(* With one caller the RPC over two files implements DeviceService: a call *)
(* is carried out at most once and only while it is open, and returns what *)
(* the device computed for it (_rpc, take_request, handle_request).        *)
(***************************************************************************)
THEOREM Refinement == Usual => (Spec => Implements)
<1> SUFFICES ASSUME Usual PROVE Spec => Implements
  OBVIOUS
<1>1. Init => DS!DSInit
  BY InitRefines
<1>2. IndInv /\ [Next]_vars => [DS!DSNext]_(DS!dsVars)
  BY StepRefines
<1>3. Spec => []IndInv
  BY Invariance
<1>4. QED
  BY <1>1, <1>2, <1>3, PTL DEF Spec, Implements, DS!DSSpec

=============================================================================
