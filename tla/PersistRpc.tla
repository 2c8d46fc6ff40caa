------------------------------ MODULE PersistRpc ------------------------------
(***************************************************************************)
(* The file-queue RPC between the host (scripts/persistent_runtime.py) and *)
(* the program resident on the device (42_gehtp_persistent/main.c).  The   *)
(* host pushes req.bin; the device claims it by unlinking it, carries it   *)
(* out and writes resp.bin; the host pulls and removes that.  Both sides   *)
(* poll, neither file carries an identification of the call, and every     *)
(* adb command and every file operation of the device is a step of its     *)
(* own.                                                                    *)
(*                                                                         *)
(* Files are modelled by what they hold and how much of it is there.  The  *)
(* id of a call is a history variable: it exists on neither side.          *)
(***************************************************************************)
EXTENDS Naturals

CONSTANTS Callers,    \* host threads that use the runtime
          MaxCalls,   \* bound on the number of calls
          MaxDown,    \* bound on the number of times the device program ends
          Faults      \* what the environment may do beyond the usual, see below

\* "slow_load": loading the blob may outlast the timeout of a ping.
\* "push_fails": adb push may fail and leave any part of the request behind.
ASSUME RpcAssumption == /\ MaxCalls \in Nat \ {0}
                        /\ MaxDown \in Nat
                        /\ Faults \subseteq {"slow_load", "push_fails"}

VARIABLES
  pc,       \* where each thread is in _rpc, "idle" outside
  mode,     \* what it calls _rpc for: "user", "start", "attach", "stop"
  cid,      \* its current call, 0 outside _rpc
  got,      \* how much of its request the push has written
  taken,    \* what it has pulled
  opOf, answer, result,      \* per call, as in DeviceService
  req, resp,                 \* the two files
  dpc,      \* where the device program is
  dreq,     \* the request it has read
  dwant,    \* what take_request believes about the size of the request
  dout,     \* the answer it writes
  kv,       \* the model state on the device
  downs     \* how often the device program has ended

hostVars == <<pc, mode, cid, got, taken, result>>
devVars == <<dpc, dreq, dwant, dout, kv, answer, downs>>
vars == <<hostVars, devVars, opOf, req, resp>>

CallIds == 1..MaxCalls
Ops == {"run", "reset", "ping", "shutdown"}
NoOp == "none"
Pending == [kind |-> "pending", tok |-> 0]
Failed == [kind |-> "failed", tok |-> 0]
Ok(tok) == [kind |-> "ok", tok |-> tok]

\* A request file: 0 is less than the length prefix, 1 less than the header,
\* 2 the header without all of the body, 3 all.  Only a run has a body.
NoFile == [id |-> 0, op |-> NoOp, got |-> 0]
Full(op) == IF op = "run" THEN 3 ELSE 2

\* A response file: 0 is empty, 1 the length prefix, 2 all.
NoResp == [id |-> 0, ans |-> Pending, got |-> 0]

UnusedCall == CHOOSE i \in CallIds : opOf[i] = NoOp /\ \A j \in 1..(i-1) : opOf[j] # NoOp
CanCall == \E i \in CallIds : opOf[i] = NoOp

Init ==
  /\ pc = [c \in Callers |-> "idle"]
  /\ mode = [c \in Callers |-> "user"]
  /\ cid = [c \in Callers |-> 0]
  /\ got = [c \in Callers |-> 0]
  /\ taken = [c \in Callers |-> NoResp]
  /\ opOf = [i \in CallIds |-> NoOp]
  /\ answer = [i \in CallIds |-> Pending]
  /\ result = [i \in CallIds |-> Pending]
  /\ req = NoFile /\ resp = NoResp
  /\ dpc = "down" /\ dreq = NoFile /\ dwant = <<NoOp, NoOp>> /\ dout = NoResp
  /\ kv = 0 /\ downs = 0

\* The locals of take_request and handle_request, out of scope between requests.
NoLocals == dreq' = NoFile /\ dwant' = <<NoOp, NoOp>> /\ dout' = NoResp

----------------------------------------------------------------------------
(***************************************************************************)
(* Host: _rpc                                                              *)
(***************************************************************************)
\* The call begins; m is what it is made for.
Begin(c, op, m) ==
  /\ CanCall
  /\ pc' = [pc EXCEPT ![c] = "rm"]
  /\ mode' = [mode EXCEPT ![c] = m]
  /\ cid' = [cid EXCEPT ![c] = UnusedCall]
  /\ opOf' = [opOf EXCEPT ![UnusedCall] = op]

\* The call ends.  A failed ping of start_server's loop and the shutdown of
\* stop_server are followed by more work; all else ends the operation.
End(c, r) ==
  /\ result' = [result EXCEPT ![cid[c]] = r]
  /\ cid' = [cid EXCEPT ![c] = 0]
  /\ taken' = [taken EXCEPT ![c] = NoResp]
  /\ pc' = [pc EXCEPT ![c] = IF mode[c] = "stop" THEN "waitdown"
                             ELSE IF mode[c] = "start" /\ r = Failed THEN "retry"
                             ELSE "idle"]

\* run, reset and health call _rpc once.
Call(c) ==
  /\ pc[c] = "idle"
  /\ \E op \in {"run", "reset", "ping"} : Begin(c, op, "user")
  /\ UNCHANGED <<devVars, got, taken, result, req, resp>>

MRmRespSkipped(c) ==
  /\ pc[c] = "rm"
  /\ pc' = [pc EXCEPT ![c] = "push"]
  /\ got' = [got EXCEPT ![c] = 0]
  /\ UNCHANGED <<devVars, mode, cid, taken, result, opOf, req, resp>>

\* adb shell rm -f resp.bin
RmResp(c) ==
  /\ pc[c] = "rm"
  /\ resp' = NoResp
  /\ pc' = [pc EXCEPT ![c] = "push"]
  /\ got' = [got EXCEPT ![c] = 0]
  /\ UNCHANGED <<devVars, mode, cid, taken, result, opOf, req>>

\* adb push req.bin, part by part: the first part replaces the file, the others
\* reach it only while the device has not unlinked it.
Push(c) ==
  LET mine == [id |-> cid[c], op |-> opOf[cid[c]], got |-> got[c]] IN
  /\ pc[c] = "push"
  /\ req' = IF got[c] = 0 \/ req.id = cid[c] THEN mine ELSE req
  /\ IF got[c] = Full(opOf[cid[c]])
       THEN pc' = [pc EXCEPT ![c] = "poll"] /\ got' = [got EXCEPT ![c] = 0]
       ELSE got' = [got EXCEPT ![c] = @ + 1] /\ UNCHANGED pc
  /\ UNCHANGED <<devVars, mode, cid, taken, result, opOf, resp>>

\* The push fails; without the fault, before four bytes have been written.
PushFails(c) ==
  /\ pc[c] = "push"
  /\ got[c] <= 1 \/ "push_fails" \in Faults
  /\ End(c, Failed)
  /\ UNCHANGED <<devVars, mode, got, opOf, req, resp>>

\* test -s resp.bin
Poll(c) ==
  /\ pc[c] = "poll"
  /\ resp.got > 0
  /\ pc' = [pc EXCEPT ![c] = "pull"]
  /\ UNCHANGED <<devVars, mode, cid, got, taken, result, opOf, req, resp>>

\* adb pull resp.bin takes what is there at the time, and fails when another
\* thread has removed the file or the link is down: resp.bin is then not removed.
Pull(c) ==
  /\ pc[c] = "pull"
  /\ \/ /\ resp # NoResp
        /\ taken' = [taken EXCEPT ![c] = resp]
        /\ pc' = [pc EXCEPT ![c] = "take"]
        /\ UNCHANGED <<cid, result>>
     \/ End(c, Failed)
  /\ UNCHANGED <<devVars, mode, got, opOf, req, resp>>

MTakeUnchecked(c) ==
  /\ pc[c] = "take"
  /\ resp' = NoResp
  /\ End(c, IF taken[c].ans.kind # "ok" \/ taken[c].got < 2 THEN Ok(0) ELSE taken[c].ans)
  /\ UNCHANGED <<devVars, mode, got, opOf, req>>

\* adb shell rm -f resp.bin, then the length checks and the return code.
Take(c) ==
  /\ pc[c] = "take"
  /\ resp' = NoResp
  /\ End(c, IF taken[c].got < 2 \/ taken[c].ans.kind # "ok" THEN Failed ELSE taken[c].ans)
  /\ UNCHANGED <<devVars, mode, got, opOf, req>>

\* One of the two rm commands fails: nothing is removed.
RmFails(c) ==
  /\ pc[c] \in {"rm", "take"}
  /\ End(c, Failed)
  /\ UNCHANGED <<devVars, mode, got, opOf, req, resp>>

DevBusy == dpc \in {"hdr", "body", "claim", "handle", "open", "whdr", "wbody"}

\* The timeouts (30 s for a ping, 180 s else) are longer than the device takes
\* for a request, so the deadline passes when no answer is on its way.
Coming ==
  \/ resp.got > 0
  \/ DevBusy
  \/ dpc = "serve" /\ req.got > 0
  \/ dpc = "load" /\ req.got > 0 /\ "slow_load" \notin Faults

MDeadlineEarly(c) ==
  /\ pc[c] = "poll"
  /\ End(c, Failed)
  /\ UNCHANGED <<devVars, mode, got, opOf, req, resp>>

MDeadlineNever(c) ==
  /\ FALSE
  /\ UNCHANGED vars

Deadline(c) ==
  /\ pc[c] = "poll"
  /\ ~Coming
  /\ End(c, Failed)
  /\ UNCHANGED <<devVars, mode, got, opOf, req, resp>>

RpcStep(c) == \/ RmResp(c) \/ Push(c) \/ PushFails(c) \/ Poll(c) \/ Pull(c) \/ Take(c)
              \/ RmFails(c) \/ Deadline(c)

----------------------------------------------------------------------------
(***************************************************************************)
(* Host: start_server and stop_server                                      *)
(***************************************************************************)
\* A running program is taken over if it answers a ping.
Attach(c) ==
  /\ pc[c] = "idle"
  /\ dpc # "down"
  /\ Begin(c, "ping", "attach")
  /\ UNCHANGED <<devVars, got, taken, result, req, resp>>

\* Otherwise it is launched and pinged until it answers.
Launch(c) ==
  /\ pc[c] = "idle"
  /\ dpc = "down"
  /\ CanCall
  /\ dpc' = "boot"
  /\ pc' = [pc EXCEPT ![c] = "retry"]
  /\ mode' = [mode EXCEPT ![c] = "start"]
  /\ UNCHANGED <<cid, got, taken, result, dreq, dwant, dout, kv, answer, downs, opOf, req, resp>>

Retry(c) ==
  /\ pc[c] = "retry"
  /\ dpc # "down"
  /\ Begin(c, "ping", "start")
  /\ UNCHANGED <<devVars, got, taken, result, req, resp>>

\* start_server gives up: the program has died, or STARTUP_TIMEOUT has passed,
\* which is longer than a program that has loaded takes to answer one ping.
StartFails(c) ==
  /\ pc[c] = "retry"
  /\ dpc \in {"down", "boot", "load"} \/ ~CanCall
  /\ pc' = [pc EXCEPT ![c] = "idle"]
  /\ UNCHANGED <<devVars, mode, cid, got, taken, result, opOf, req, resp>>

Stop(c) ==
  /\ pc[c] = "idle"
  /\ Begin(c, "shutdown", "stop")
  /\ UNCHANGED <<devVars, got, taken, result, req, resp>>

\* stop_server sees the program gone, or kills it after 10 s.
Stopped(c) ==
  /\ pc[c] = "waitdown"
  /\ dpc' = "down"
  /\ kv' = 0
  /\ NoLocals
  /\ pc' = [pc EXCEPT ![c] = "idle"]
  /\ UNCHANGED <<mode, cid, got, taken, result, answer, downs, opOf, req, resp>>

----------------------------------------------------------------------------
(***************************************************************************)
(* Device: main, take_request, handle_request, write_resp                  *)
(***************************************************************************)
DevGoto(next) == dpc' = next /\ UNCHANGED <<hostVars, opOf, downs>>

\* Back to the top of main's loop.
DevServe == DevGoto("serve") /\ NoLocals

MBootKeepsFiles ==
  /\ dpc = "boot"
  /\ DevGoto("load")
  /\ UNCHANGED <<dreq, dwant, dout, kv, answer, req, resp>>

\* main removes both files before it loads the model.
Boot ==
  /\ dpc = "boot"
  /\ req' = NoFile /\ resp' = NoResp
  /\ DevGoto("load")
  /\ UNCHANGED <<dreq, dwant, dout, kv, answer>>

Loaded ==
  /\ dpc = "load"
  /\ DevGoto("serve")
  /\ UNCHANGED <<dreq, dwant, dout, kv, answer, req, resp>>

\* take_request finds a file with a length prefix; dwant[1] is the operation
\* whose header length it has read.
TakeRequest ==
  /\ dpc = "serve"
  /\ req.got > 0
  /\ dwant' = <<req.op, NoOp>>
  /\ DevGoto("hdr")
  /\ UNCHANGED <<dreq, dout, kv, answer, req, resp>>

\* The header is there: dwant[2] is the operation it names.
\* (A file that is gone would be a request the host withdrew; no host removes
\* req.bin, so from TakeRequest to Claim there is one.)
HeaderRead ==
  /\ dpc = "hdr"
  /\ req.got >= 2
  /\ dwant' = [dwant EXCEPT ![2] = req.op]
  /\ DevGoto("body")
  /\ UNCHANGED <<dreq, dout, kv, answer, req, resp>>

\* The size fits what was read of the header.  A file that replaced another
\* with a header of a different length does not fit.
SizeFits ==
  /\ req # NoFile
  /\ req.got = Full(req.op)
  /\ dwant[1] = req.op
  /\ (dwant[2] = "run") = (req.op = "run")

BodyRead ==
  /\ dpc = "body"
  /\ SizeFits
  /\ dreq' = req
  /\ DevGoto("claim")
  /\ UNCHANGED <<dwant, dout, kv, answer, req, resp>>

MClaimKeepsRequest ==
  /\ dpc = "claim"
  /\ DevGoto("handle")
  /\ UNCHANGED <<dreq, dwant, dout, kv, answer, req, resp>>

\* unlink after reading: it removes what has the name now.
Claim ==
  /\ dpc = "claim"
  /\ req' = NoFile
  /\ DevGoto("handle")
  /\ UNCHANGED <<dreq, dwant, dout, kv, answer, resp>>

\* The file has not become complete within REQ_STABLE_US, or is too long: it is
\* removed and an error is the answer.
BadRequest ==
  /\ \/ dpc = "hdr" /\ req # NoFile /\ req.got < 2
     \/ dpc = "body" /\ req # NoFile /\ ~SizeFits
  /\ req' = NoFile
  /\ dout' = [id |-> 0, ans |-> Failed, got |-> 0]
  /\ dreq' = NoFile
  /\ DevGoto("open")
  /\ UNCHANGED <<dwant, kv, answer, resp>>

\* handle_request up to the response: <<state afterwards, answer>>.
Outcomes(op, s) ==
  CASE op = "run" -> {<<s + 1, Ok(s + 1)>>, <<s, Failed>>, <<s + 1, Failed>>}
    [] op = "reset" -> {<<0, Ok(0)>>}
    [] OTHER -> {<<s, Ok(0)>>}

HandleRequest ==
  /\ dpc = "handle"
  /\ \E out \in Outcomes(dreq.op, kv) :
       /\ kv' = out[1]
       /\ dout' = [id |-> dreq.id, ans |-> out[2], got |-> 0]
       /\ answer' = [answer EXCEPT ![dreq.id] = out[2]]
  /\ DevGoto("open")
  /\ UNCHANGED <<dreq, dwant, req, resp>>

\* write_resp: create or truncate, length prefix, body.  Once the host has
\* removed the file the writes go to the removed file.
WriteResp ==
  \/ /\ dpc = "open"
     /\ resp' = dout
     /\ DevGoto("whdr")
     /\ UNCHANGED <<dreq, dwant, dout, kv, answer, req>>
  \/ /\ dpc = "whdr"
     /\ resp' = IF resp = NoResp THEN resp ELSE [resp EXCEPT !.got = 1]
     /\ DevGoto("wbody")
     /\ UNCHANGED <<dreq, dwant, dout, kv, answer, req>>
  \/ /\ dpc = "wbody" /\ dreq.op # "shutdown"
     /\ resp' = IF resp = NoResp THEN resp ELSE [resp EXCEPT !.got = 2]
     /\ DevServe
     /\ UNCHANGED <<kv, answer, req>>

\* open or a write fails: write_resp's result is ignored.
WriteFails ==
  /\ dpc \in {"open", "whdr", "wbody"} /\ dreq.op # "shutdown"
  /\ DevServe
  /\ UNCHANGED <<kv, answer, req, resp>>

DevStep == \/ Boot \/ Loaded \/ TakeRequest \/ HeaderRead \/ BodyRead
           \/ Claim \/ BadRequest \/ HandleRequest \/ WriteResp \/ WriteFails

DevEnds ==
  /\ dpc' = "down"
  /\ kv' = 0
  /\ NoLocals
  /\ UNCHANGED <<hostVars, opOf, answer, req>>

\* The shutdown has been answered (as far as the write went), or not.
ShutDown ==
  /\ dreq.op = "shutdown" /\ dpc \in {"open", "whdr", "wbody"}
  /\ resp' = IF dpc = "wbody" /\ resp # NoResp THEN [resp EXCEPT !.got = 2] ELSE resp
  /\ UNCHANGED downs
  /\ DevEnds

\* Loading fails, nobody calls for idle_exit_s, or the program dies.
Down ==
  /\ dpc # "down" /\ downs < MaxDown
  /\ downs' = downs + 1
  /\ UNCHANGED resp
  /\ DevEnds

HostStep(c) == \/ Call(c) \/ RpcStep(c) \/ Attach(c) \/ Launch(c) \/ Retry(c)
               \/ StartFails(c) \/ Stop(c) \/ Stopped(c)

\* Every call there may be has been made and nobody waits.
Finished == ~CanCall /\ (\A c \in Callers : pc[c] = "idle") /\ UNCHANGED vars

Next == DevStep \/ ShutDown \/ Down \/ Finished \/ \E c \in Callers : HostStep(c)

Spec == Init /\ [][Next]_vars

\* A thread in an operation goes on, and the device program goes on while it
\* lives; neither has to begin anything, and nothing has to fail.
Fairness == /\ \A c \in Callers : WF_vars(RpcStep(c) \/ Retry(c) \/ StartFails(c) \/ Stopped(c))
            /\ WF_vars(DevStep \/ ShutDown)

FairSpec == Spec /\ Fairness

----------------------------------------------------------------------------
(***************************************************************************)
(* Properties                                                              *)
(***************************************************************************)
HostPcs == {"idle", "rm", "push", "poll", "pull", "take", "retry", "waitdown"}
DevPcs == {"down", "boot", "load", "serve", "hdr", "body", "claim", "handle", "open", "whdr", "wbody"}
Answers == {Pending, Failed} \cup {Ok(t) : t \in 0..MaxCalls}
ReqFiles == [id : 0..MaxCalls, op : Ops \cup {NoOp}, got : 0..3]
RespFiles == [id : 0..MaxCalls, ans : Answers, got : 0..2]

(***************************************************************************)
(* Every variable keeps its type; the model state on the device never      *)
(* counts more steps than there were calls.                                *)
(***************************************************************************)
TypeOK ==
  /\ pc \in [Callers -> HostPcs] /\ mode \in [Callers -> {"user", "start", "attach", "stop"}]
  /\ cid \in [Callers -> 0..MaxCalls] /\ got \in [Callers -> 0..3]
  /\ taken \in [Callers -> RespFiles]
  /\ opOf \in [CallIds -> Ops \cup {NoOp}]
  /\ answer \in [CallIds -> Answers] /\ result \in [CallIds -> Answers]
  /\ req \in ReqFiles /\ resp \in RespFiles
  /\ dpc \in DevPcs /\ dreq \in ReqFiles /\ dout \in RespFiles
  /\ dwant \in (Ops \cup {NoOp}) \X (Ops \cup {NoOp})
  /\ kv \in 0..MaxCalls /\ downs \in 0..MaxDown

(***************************************************************************)
(* What a thread has pulled and will return as a success is the whole      *)
(* answer to its own call, not that of an earlier one which came late and  *)
(* not a part (_rpc against write_resp).                                   *)
(***************************************************************************)
AnswerMatches ==
  \A c \in Callers :
    pc[c] = "take" /\ taken[c].got = 2 /\ taken[c].ans.kind = "ok" => taken[c].id = cid[c]

(***************************************************************************)
(* A reset that succeeds has cleared the device: the device has carried it *)
(* out by the time the host takes its answer (reset of the runtime).       *)
(***************************************************************************)
ResetDone ==
  \A c \in Callers :
    pc[c] = "take" /\ opOf[cid[c]] = "reset" /\ taken[c].got = 2 /\ taken[c].ans.kind = "ok"
      => answer[cid[c]].kind = "ok"

(***************************************************************************)
(* The RPC implements DeviceService: the device carries out a call at most *)
(* once and only while its caller waits, and a call that succeeds returns  *)
(* what the device computed for it; crashes, restarts, lost requests,      *)
(* half-written answers and stale files included.                          *)
(***************************************************************************)
DS == INSTANCE DeviceService WITH open <- cid

Implements == DS!DSSpec

(***************************************************************************)
(* Every call of _rpc, start_server and stop_server comes to an end.       *)
(***************************************************************************)
CallsEnd == \A c \in Callers : pc[c] # "idle" ~> pc[c] = "idle"
=============================================================================
