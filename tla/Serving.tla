-------------------------------- MODULE Serving --------------------------------
(***************************************************************************)
(* The serving layer (scripts/gehtp_server.py, sessions.py,                *)
(* model_registry.py, device_runtime.py): chat requests wait for one of a  *)
(* few permits, get a session, and step the model on the device slot,      *)
(* streaming or not; clients go away; the model is loaded and unloaded     *)
(* meanwhile.                                                              *)
(*                                                                         *)
(* All handlers run on one event loop and are interleaved where they       *)
(* await; a device step runs in a thread of its own and goes on when its   *)
(* handler is gone.  What is called on the loop without an await (cancel   *)
(* and reset of the slot) holds the loop, while threads go on.             *)
(***************************************************************************)
EXTENDS Naturals, Sequences, FiniteSets, SequencesExt

CONSTANTS Requests,        \* the chat requests
          Plain,           \* those that do not stream and whose client stays
          MAX_CONCURRENT,  \* permits of the request queue
          MAX_QUEUED,      \* requests that may wait for one
          MaxSteps         \* bound on the device steps of each request

Nobody == "nobody"

ASSUME ServingAssumption == /\ IsFiniteSet(Requests) /\ Nobody \notin Requests
                            /\ Plain \subseteq Requests
                            /\ MAX_CONCURRENT \in Nat \ {0}
                            /\ MAX_QUEUED \in Nat
                            /\ MaxSteps \in [Requests -> Nat \ {0}]

VARIABLES
  pc,        \* where each request's handler is
  stream,    \* whether it streams
  left,      \* clients that have gone
  outcome,   \* how it ended
  free, waiters, queued,     \* RequestQueue: semaphore value, its waiters, _queued
  session,   \* status of each request's session
  kvh,       \* requests whose session has its KV handle
  steps,     \* device steps taken
  thr,       \* the thread of each request's device step
  slot,      \* the device slot the generation works on
  loop,      \* the request that holds the event loop, or Nobody
  status, devSlot,           \* of the model
  handles, cancelled,        \* of the device runtime
  load,      \* where the thread that loads the model is
  mix,       \* whose tokens are in the state on the device
  met        \* those each request met there, all of them when its reset failed

queueVars == <<free, waiters, queued>>
modelVars == <<status, devSlot, handles, load>>
devVars == <<cancelled, mix, met>>
reqVars == <<pc, stream, left, outcome, session, kvh, steps, thr, slot, loop>>
vars == <<reqVars, queueVars, modelVars, devVars>>

NoSlot == "none"
TheSlot == "slot"

Init ==
  /\ pc = [r \in Requests |-> "new"]
  /\ stream = [r \in Requests |-> FALSE]
  /\ left = {}
  /\ outcome = [r \in Requests |-> "none"]
  /\ free = MAX_CONCURRENT /\ waiters = <<>> /\ queued = 0
  /\ session = [r \in Requests |-> "none"]
  /\ kvh = {}
  /\ steps = [r \in Requests |-> 0]
  /\ thr = [r \in Requests |-> "none"]
  /\ slot = [r \in Requests |-> NoSlot]
  /\ loop = Nobody
  /\ status = "loading" /\ devSlot = NoSlot /\ handles = {} /\ load = "begin"
  /\ cancelled = {} /\ mix = {} /\ met = [r \in Requests |-> {}]

Ended(r) == pc[r] = "ended"
\* The requests that have a permit, and those that may step the device.
Holders == {r \in Requests : pc[r] \notin {"new", "queued", "ended"}}
Stepping == {r \in Requests : thr[r] \in {"begun", "checked"}}
Active == {r \in Requests : pc[r] \notin {"new", "queued", "granted", "unstarted", "gen", "ended"}} \cup Stepping
\* The requests that ended without giving back what they had.
Lost == {r \in Requests : outcome[r] \in {"unstarted", "escaped", "cancelled"}}
\* r comes to the device and meets those that are there, and S.
Meet(r, S) == [q \in Requests |-> met[q] \cup (IF q = r THEN S \cup (Active \ {r})
                                               ELSE IF q \in Active THEN {r} ELSE {})]

----------------------------------------------------------------------------
(***************************************************************************)
(* RequestQueue and SessionManager                                         *)
(***************************************************************************)
\* release of asyncio.Semaphore hands the permit to the first waiter.
ReleasePermit ==
  IF waiters = <<>>
    THEN free' = free + 1 /\ UNCHANGED waiters
    ELSE waiters' = Tail(waiters) /\ UNCHANGED free

\* What the handlers do when they have released the permit: the woken waiter
\* has it, the handler is over.
Wake(r) == [q \in Requests |-> IF q = r THEN "ended"
                               ELSE IF waiters # <<>> /\ q = Head(waiters) THEN "granted"
                               ELSE pc[q]]

\* The locals of the handler go out of scope.
HandlerOver(r, how) ==
  /\ outcome' = [outcome EXCEPT ![r] = how]
  /\ met' = [met EXCEPT ![r] = {}]
  /\ stream' = [stream EXCEPT ![r] = FALSE]
  /\ left' = left \ {r}
  /\ steps' = [steps EXCEPT ![r] = 0]

MEndKeepsPermit(r, st, how) ==
  /\ session' = [session EXCEPT ![r] = st]
  /\ kvh' = kvh \ {r}
  /\ HandlerOver(r, how)
  /\ UNCHANGED <<free, waiters>>
  /\ pc' = [pc EXCEPT ![r] = "ended"]

\* session_manager.release, request_queue.release and the end of the handler.
EndWith(r, st, how) ==
  /\ session' = [session EXCEPT ![r] = st]
  /\ kvh' = kvh \ {r}
  /\ HandlerOver(r, how)
  /\ ReleasePermit
  /\ pc' = Wake(r)

\* The end of a handler that passes both releases by: permit, session and KV
\* handle stay taken.
EndWithout(r, how) ==
  /\ HandlerOver(r, how)
  /\ pc' = [pc EXCEPT ![r] = "ended"]
  /\ UNCHANGED <<session, kvh, free, waiters>>

\* session_manager.create; the generator of a stream exists but has not begun.
Admit(r, s) ==
  /\ session' = [session EXCEPT ![r] = "active"]
  /\ kvh' = kvh \cup {r}
  /\ pc' = [pc EXCEPT ![r] = IF s THEN "unstarted" ELSE "gen"]

LoopFree == loop = Nobody

MArriveBound(r) == \E s \in BOOLEAN :
  /\ LoopFree /\ pc[r] = "new"
  /\ stream' = [stream EXCEPT ![r] = s]
  /\ waiters' = Append(waiters, r)
  /\ queued' = queued + 1
  /\ pc' = [pc EXCEPT ![r] = "queued"]
  /\ UNCHANGED <<free, session, kvh, outcome, left, steps, thr, slot, loop, modelVars, devVars>>

\* chat_completions up to the end of acquire: an invalid request, a model that is
\* not available and a full queue are refused.
Arrive(r) == \E s \in (IF r \in Plain THEN {FALSE} ELSE BOOLEAN) :
  /\ LoopFree /\ pc[r] = "new"
  /\ \/ /\ pc' = [pc EXCEPT ![r] = "ended"]
        /\ outcome' = [outcome EXCEPT ![r] = "refused"]
        /\ UNCHANGED <<queueVars, session, kvh, stream>>
     \/ /\ status = "available" /\ queued < MAX_QUEUED
        /\ free > 0
        /\ free' = free - 1
        /\ Admit(r, s)
        /\ stream' = [stream EXCEPT ![r] = s]
        /\ UNCHANGED <<waiters, queued, outcome>>
     \/ /\ status = "available" /\ queued < MAX_QUEUED
        /\ free = 0
        /\ waiters' = Append(waiters, r)
        /\ queued' = queued + 1
        /\ stream' = [stream EXCEPT ![r] = s]
        /\ pc' = [pc EXCEPT ![r] = "queued"]
        /\ UNCHANGED <<free, session, kvh, outcome>>
  /\ UNCHANGED <<left, steps, thr, slot, loop, modelVars, devVars>>

\* A woken waiter goes on after acquire.
Resume(r) ==
  /\ LoopFree /\ pc[r] = "granted"
  /\ queued' = queued - 1
  /\ Admit(r, stream[r])
  /\ UNCHANGED <<stream, left, outcome, free, waiters, steps, thr, slot, loop, modelVars, devVars>>

\* The handler of a client that has left is cancelled where it awaits (by the
\* server that runs it).  acquire passes a permit it was just given on; the
\* generation that is not streamed has no clean-up for CancelledError, which is
\* no Exception, and its step goes on in its thread.
CancelHandler(r) ==
  /\ LoopFree /\ r \in left
  /\ \/ /\ pc[r] = "queued"
        /\ \E i \in DOMAIN waiters : waiters[i] = r /\ waiters' = RemoveAt(waiters, i)
        /\ pc' = [pc EXCEPT ![r] = "ended"]
        /\ queued' = queued - 1
        /\ HandlerOver(r, "left")
        /\ UNCHANGED <<free, session, kvh, thr>>
     \/ /\ pc[r] = "granted"
        /\ ReleasePermit
        /\ pc' = Wake(r)
        /\ queued' = queued - 1
        /\ HandlerOver(r, "left")
        /\ UNCHANGED <<session, kvh, thr>>
     \/ /\ pc[r] \in {"check", "step"} /\ ~stream[r]
        /\ EndWithout(r, "cancelled")
        /\ thr' = [thr EXCEPT ![r] = IF r \in Stepping THEN @ ELSE "none"]
        /\ UNCHANGED queued
  /\ UNCHANGED <<slot, loop, modelVars, cancelled, mix>>

\* The client goes away.
Leave(r) ==
  /\ r \notin left \cup Plain /\ pc[r] \notin {"new", "ended"}
  /\ left' = left \cup {r}
  /\ UNCHANGED <<pc, stream, outcome, session, kvh, steps, thr, slot, loop, queueVars, modelVars, devVars>>

----------------------------------------------------------------------------
(***************************************************************************)
(* DeviceRuntime                                                           *)
(***************************************************************************)
\* cancel marks the slot; an unknown slot is an error the callers ignore.
CancelSlot(s) == cancelled' = IF s \in handles THEN cancelled \cup {s} ELSE cancelled

\* reset clears the mark, then the state on the device.  It may fail with a
\* DeviceRuntimeError, which its callers ignore, or with what adb raises when it
\* takes too long (subprocess.TimeoutExpired), which they do not catch; the device
\* may have done it all the same.  An unknown slot is a DeviceRuntimeError.
ResetSlot(s, out) ==
  /\ out \in {"ok", "raised"} => s \in handles
  /\ cancelled' = cancelled \ {s}
  /\ mix' \in IF out = "ok" THEN {{}} ELSE IF s \in handles THEN {mix, {}} ELSE {mix}

ResetOutcomes == {"ok", "failed", "raised"}

\* What becomes of a thread's result: nothing when the handler is gone.
Result(r, res) == [thr EXCEPT ![r] = IF pc[r] = "step" THEN res ELSE "none"]

\* run, up to the call of the device: the slot is known and not cancelled.
ThreadCheck(r) ==
  /\ thr[r] = "begun"
  /\ thr' = IF slot[r] \in handles \ cancelled THEN [thr EXCEPT ![r] = "checked"] ELSE Result(r, "err")
  /\ cancelled' = cancelled \ {slot[r]}
  /\ UNCHANGED <<pc, stream, left, outcome, session, kvh, steps, slot, loop, queueVars, modelVars, mix, met>>

\* The step on the device; it may fail before or after it has changed the state.
ThreadRun(r) ==
  /\ thr[r] = "checked"
  /\ \/ mix' = mix \cup {r} /\ thr' = Result(r, "ok")
     \/ mix' \in {mix, mix \cup {r}} /\ thr' = Result(r, "err")
  /\ UNCHANGED <<pc, stream, left, outcome, session, kvh, steps, slot, loop, queueVars, modelVars, cancelled, met>>

----------------------------------------------------------------------------
(***************************************************************************)
(* _run_generation, generate and the rest of chat_completions              *)
(***************************************************************************)
\* The server begins to iterate the stream, and the first chunk is sent.  When
\* the client is gone by then the generator never begins, nor does its finally.
StreamBegin(r) ==
  /\ LoopFree /\ pc[r] = "unstarted"
  /\ IF r \in left
       THEN EndWithout(r, "unstarted")
       ELSE /\ pc' = [pc EXCEPT ![r] = "gen"]
            /\ UNCHANGED <<outcome, stream, left, steps, met, session, kvh, free, waiters>>
  /\ UNCHANGED <<queued, thr, slot, loop, modelVars, cancelled, mix>>

MGenNoReset(r) ==
  /\ LoopFree /\ pc[r] = "gen"
  /\ slot' = [slot EXCEPT ![r] = devSlot]
  /\ met' = Meet(r, {})
  /\ pc' = [pc EXCEPT ![r] = "check"]
  /\ UNCHANGED <<stream, left, outcome, session, kvh, steps, thr, loop, queueVars, modelVars, cancelled, mix>>

\* The generation begins with a reset of the slot; what it lets out goes to the
\* clauses around the generation.
Generate(r) == \E out \in ResetOutcomes :
  /\ LoopFree /\ pc[r] = "gen"
  /\ slot' = [slot EXCEPT ![r] = devSlot]
  /\ ResetSlot(devSlot, out)
  /\ met' = Meet(r, IF out = "ok" THEN {} ELSE Requests)
  /\ pc' = [pc EXCEPT ![r] = IF out = "raised" THEN "finally" ELSE "check"]
  /\ loop' = IF out = "raised" THEN r ELSE Nobody
  /\ UNCHANGED <<stream, left, outcome, session, kvh, steps, thr, queueVars, modelVars>>

\* Before each step: is_disconnected, else the step starts in a thread.
Check(r) ==
  /\ LoopFree /\ pc[r] = "check"
  /\ IF r \in left
       THEN /\ CancelSlot(slot[r])
            /\ pc' = [pc EXCEPT ![r] = "cancel"]
            /\ loop' = r
            /\ UNCHANGED thr
       ELSE /\ thr' = [thr EXCEPT ![r] = "begun"]
            /\ pc' = [pc EXCEPT ![r] = "step"]
            /\ UNCHANGED <<cancelled, loop>>
  /\ UNCHANGED <<stream, left, outcome, session, kvh, steps, slot, queueVars, modelVars, mix, met>>

\* reset after that cancel and session.fail; a stream goes on to its finally.
CancelDone(r) == \E out \in ResetOutcomes :
  /\ pc[r] = "cancel"
  /\ ResetSlot(slot[r], out)
  /\ IF out = "raised" \/ stream[r]
       THEN /\ session' = [session EXCEPT ![r] = IF out = "raised" THEN @ ELSE "error"]
            /\ pc' = [pc EXCEPT ![r] = "finally"]
            /\ UNCHANGED <<loop, kvh, outcome, stream, left, steps, met, free, waiters>>
       ELSE EndWith(r, "error", "left") /\ loop' = Nobody
  /\ UNCHANGED <<thr, slot, queued, modelVars>>

\* What a reset let out of a generation that is not streamed: except Exception
\* gives session and permit back, the session as it is.
Abort(r) ==
  /\ pc[r] = "finally" /\ ~stream[r]
  /\ EndWith(r, session[r], "aborted")
  /\ loop' = Nobody
  /\ UNCHANGED <<thr, slot, queued, modelVars, cancelled, mix>>

\* The step has ended: an error ends the request, a token is passed on.
StepDone(r) ==
  /\ LoopFree /\ pc[r] = "step" /\ thr[r] \in {"ok", "err"}
  /\ thr' = [thr EXCEPT ![r] = "none"]
  /\ \/ /\ thr[r] = "ok"
        /\ steps' = [steps EXCEPT ![r] = @ + 1]
        /\ pc' \in {[pc EXCEPT ![r] = next] :
                     next \in {"final"} \cup (IF steps'[r] < MaxSteps[r] THEN {"check"} ELSE {})}
        /\ UNCHANGED <<session, kvh, outcome, stream, left, met, free, waiters>>
     \/ /\ thr[r] = "err" /\ stream[r]
        /\ session' = [session EXCEPT ![r] = "error"]
        /\ pc' = [pc EXCEPT ![r] = "errored"]
        /\ UNCHANGED <<steps, kvh, outcome, stream, left, met, free, waiters>>
     \/ /\ thr[r] = "err" /\ ~stream[r]
        /\ EndWith(r, "error", "error")
  /\ UNCHANGED <<slot, loop, queued, modelVars, cancelled, mix>>

\* The last chunks have been sent: the session is finished and all given back.
Complete(r) ==
  /\ LoopFree /\ pc[r] \in {"final", "errored"}
  /\ IF pc[r] = "final" THEN EndWith(r, "finished", "ok") ELSE EndWith(r, "error", "error")
  /\ UNCHANGED <<thr, slot, loop, queued, modelVars, cancelled, mix>>

\* The generator is closed where it waits, because the client is gone.  With
\* completed or errored set, finally only gives back session and permit.
CloseLate(r) ==
  /\ LoopFree /\ r \in left /\ stream[r] /\ pc[r] \in {"final", "errored"}
  /\ EndWith(r, session[r], IF pc[r] = "final" THEN "late" ELSE "left")
  /\ UNCHANGED <<thr, slot, loop, queued, modelVars, cancelled, mix>>

\* Otherwise finally cancels and resets the model's slot.  A step in its thread
\* goes on.
Close(r) ==
  /\ \/ LoopFree /\ r \in left /\ stream[r] /\ pc[r] \in {"gen", "check", "step"}
     \/ pc[r] = "finally" /\ stream[r]
  /\ CancelSlot(devSlot)
  /\ met' = Meet(r, {})
  /\ loop' = r
  /\ pc' = [pc EXCEPT ![r] = "fcancel"]
  /\ thr' = [thr EXCEPT ![r] = IF r \in Stepping THEN @ ELSE "none"]
  /\ UNCHANGED <<stream, left, outcome, session, kvh, steps, slot, queueVars, modelVars, mix>>

MCloseNoReset(r) ==
  /\ pc[r] = "fcancel"
  /\ EndWith(r, "error", "left")
  /\ loop' = Nobody
  /\ UNCHANGED <<thr, slot, queued, modelVars, cancelled, mix>>

MCloseNoFail(r) == \E out \in ResetOutcomes :
  /\ pc[r] = "fcancel"
  /\ ResetSlot(devSlot, out)
  /\ IF out = "raised" THEN EndWithout(r, "escaped") ELSE EndWith(r, session[r], "left")
  /\ loop' = Nobody
  /\ UNCHANGED <<thr, slot, queued, modelVars>>

\* What that reset lets out leaves the generator before its releases.
CloseDone(r) == \E out \in ResetOutcomes :
  /\ pc[r] = "fcancel"
  /\ ResetSlot(devSlot, out)
  /\ IF out = "raised" THEN EndWithout(r, "escaped") ELSE EndWith(r, "error", IF r \in left THEN "left" ELSE "error")
  /\ loop' = Nobody
  /\ UNCHANGED <<thr, slot, queued, modelVars>>

----------------------------------------------------------------------------
(***************************************************************************)
(* ModelRegistry and the life of the server                                *)
(***************************************************************************)
\* load, up to device_runtime.init: a bad manifest is an error, a failed init
\* makes the model unavailable (and may leave the handle behind).
LoadInit ==
  /\ load = "begin"
  /\ \/ load' = "slot" /\ handles' = handles \cup {TheSlot} /\ UNCHANGED status
     \/ load' = "done" /\ status' \in {"error", "unavailable"} /\ handles' \in {handles, handles \cup {TheSlot}}
  /\ UNCHANGED <<reqVars, queueVars, devSlot, devVars>>

\* The slot and the status are set in two sections of the registry's lock.
LoadSlot ==
  /\ load = "slot"
  /\ devSlot' = TheSlot
  /\ load' = "available"
  /\ UNCHANGED <<reqVars, queueVars, status, handles, devVars>>

LoadAvailable ==
  /\ load = "available"
  /\ status' = "available"
  /\ load' = "tokenizer"
  /\ UNCHANGED <<reqVars, queueVars, devSlot, handles, devVars>>

\* The tokenizer is loaded after the model became available; failing, it
\* makes the model an error.
LoadTokenizer ==
  /\ load = "tokenizer"
  /\ load' = "done"
  /\ status' \in {status, "error"}
  /\ UNCHANGED <<reqVars, queueVars, devSlot, handles, devVars>>

\* unload, at any time: the slot is taken from the model, then released.  Between
\* LoadSlot and LoadAvailable it leaves a model that is available and has no slot.
Unload ==
  /\ LoopFree /\ load # "stopped"
  /\ devSlot' = NoSlot
  /\ status' = "unavailable"
  /\ handles' = handles \ {devSlot}
  /\ cancelled' = cancelled \ {devSlot}
  /\ UNCHANGED <<reqVars, queueVars, load, mix, met>>

\* lifespan, after the last handler has ended.
Shutdown ==
  /\ LoopFree /\ load = "done"
  /\ \A r \in Requests : pc[r] \in {"new", "ended"} /\ r \notin Stepping
  /\ kvh' = {}
  /\ status' = IF devSlot = NoSlot THEN status ELSE "unavailable"
  /\ devSlot' = NoSlot /\ handles' = {} /\ cancelled' = {}
  /\ load' = "stopped"
  /\ pc' = [r \in Requests |-> "ended"]
  /\ UNCHANGED <<stream, left, outcome, session, steps, thr, slot, loop, queueVars, mix, met>>

Stopped == load = "stopped" /\ UNCHANGED vars

Handler(r) == \/ Resume(r) \/ StreamBegin(r) \/ Generate(r) \/ Check(r) \/ CancelDone(r) \/ Abort(r)
              \/ StepDone(r) \/ Complete(r) \/ CloseLate(r) \/ Close(r) \/ CloseDone(r)
Thread(r) == ThreadCheck(r) \/ ThreadRun(r)
Client(r) == Arrive(r) \/ CancelHandler(r) \/ Leave(r)
Loader == LoadInit \/ LoadSlot \/ LoadAvailable \/ LoadTokenizer

Next == \/ Loader \/ Unload \/ Shutdown \/ Stopped
        \/ \E r \in Requests : Handler(r) \/ Thread(r) \/ Client(r)

Spec == Init /\ [][Next]_vars

\* The event loop runs every handler that can go on, and threads run.
Fairness == /\ \A r \in Requests : WF_vars(Handler(r)) /\ WF_vars(Thread(r))
            /\ WF_vars(Loader)

FairSpec == Spec /\ Fairness

----------------------------------------------------------------------------
(***************************************************************************)
(* Properties                                                              *)
(***************************************************************************)
Pcs == {"new", "queued", "granted", "unstarted", "gen", "check", "step", "cancel",
        "finally", "fcancel", "final", "errored", "ended"}

Outcomes == {"none", "refused", "ok", "error", "left", "late", "aborted",
             "unstarted", "escaped", "cancelled"}

(***************************************************************************)
(* Every variable keeps its type; the waiters are distinct requests, and   *)
(* never more than MAX_QUEUED wait (RequestQueue.acquire).                 *)
(***************************************************************************)
TypeOK ==
  /\ pc \in [Requests -> Pcs] /\ stream \in [Requests -> BOOLEAN] /\ left \subseteq Requests
  /\ outcome \in [Requests -> Outcomes]
  /\ free \in 0..MAX_CONCURRENT /\ queued \in 0..MAX_QUEUED
  /\ waiters \in Seq(Requests) /\ IsInjective(waiters)
  /\ session \in [Requests -> {"none", "active", "finished", "error"}] /\ kvh \subseteq Requests
  /\ steps \in [Requests -> Nat] /\ \A r \in Requests : steps[r] <= MaxSteps[r]
  /\ thr \in [Requests -> {"none", "begun", "checked", "ok", "err"}]
  /\ slot \in [Requests -> {NoSlot, TheSlot}] /\ loop \in Requests \cup {Nobody}
  /\ status \in {"loading", "available", "unavailable", "error"}
  /\ devSlot \in {NoSlot, TheSlot} /\ handles \subseteq {TheSlot} /\ cancelled \subseteq handles
  /\ load \in {"begin", "slot", "available", "tokenizer", "done", "stopped"}
  /\ mix \subseteq Requests /\ met \in [Requests -> SUBSET Requests]

(***************************************************************************)
(* Permits are accounted for: the free ones, those of the requests being   *)
(* served and one for each request that ended past its releases are        *)
(* MAX_CONCURRENT.  A request ends so in three ways only: its client is    *)
(* gone before its stream begins, the reset in the finally of its stream   *)
(* raises what is not caught, or its handler is cancelled while a          *)
(* generation that is not streamed awaits.  Nobody waits while a permit is *)
(* free, and _queued counts exactly those that wait or have been woken     *)
(* (RequestQueue).                                                         *)
(***************************************************************************)
PermitsConserved ==
  /\ free + Cardinality(Holders) + Cardinality(Lost) = MAX_CONCURRENT
  /\ waiters # <<>> => free = 0
  /\ ToSet(waiters) = {r \in Requests : pc[r] = "queued"}
  /\ queued = Cardinality({r \in Requests : pc[r] \in {"queued", "granted"}})

(***************************************************************************)
(* What the documentation says of clients that go away: whatever they do,  *)
(* the free permits and those of the requests being served are all there   *)
(* are (docs/GEHTP_OPENAI_SERVING.md, section 5, the clean-up in finally). *)
(***************************************************************************)
PermitsReturned == free + Cardinality(Holders) = MAX_CONCURRENT

(***************************************************************************)
(* A request that has ended has given its KV handle back, unless it ended  *)
(* past its releases, and its session is no longer counted as active,      *)
(* unless it ended so, the client left during the last chunks              *)
(* (gehtp_server.py:662 sets completed before they are sent) or a reset    *)
(* raised in a generation that is not streamed (gehtp_server.py:760).      *)
(***************************************************************************)
SessionsClosed ==
  \A r \in Requests : Ended(r) =>
    /\ r \in kvh => r \in Lost
    /\ session[r] = "active" => r \in Lost \/ outcome[r] \in {"late", "aborted"}

(***************************************************************************)
(* Whatever clients leave when, no cancel mark stays on the slot for a     *)
(* later request to trip over: none is set while the event loop is free    *)
(* (the comment at gehtp_server.py:710).                                   *)
(***************************************************************************)
NoPoison == LoopFree => cancelled = {}

(***************************************************************************)
(* When a step of a request returns, the state on the device holds only    *)
(* its own tokens and those of requests it met there, and just its own     *)
(* when it met nobody: whatever ran, failed, was dropped or was lost       *)
(* before its reset (gehtp_server.py:274), and every thread that goes on   *)
(* after its handler, is told apart.  A reset that failed is excepted.     *)
(***************************************************************************)
Isolated ==
  \A r \in Requests : pc[r] = "step" /\ thr[r] = "ok" =>
    /\ mix \subseteq {r} \cup met[r]
    /\ met[r] = {} => mix = {r}

(***************************************************************************)
(* Every request that has arrived comes to an end (it is refused, gets a   *)
(* permit and is served, fails or is dropped): again and again there is    *)
(* nobody who waits or is being served, unless every permit has been lost. *)
(***************************************************************************)
RequestsEnd == []<>(\/ \A r \in Requests : pc[r] \in {"new", "ended"}
                    \/ Cardinality(Lost) = MAX_CONCURRENT)
=============================================================================
