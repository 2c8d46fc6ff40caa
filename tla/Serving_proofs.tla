--------------------------- MODULE Serving_proofs ----------------------------
(***************************************************************************)
(* Proofs of the safety properties of the serving layer, for any finite    *)
(* set of requests, any numbers of permits and of places in the queue, and *)
(* any number of device steps of a request.                                *)
(***************************************************************************)
EXTENDS Serving, FiniteSetTheorems, SequenceTheorems, TLAPS

\* The requests in the queue, and those that _queued counts.
InQueue == {r \in Requests : pc[r] = "queued"}
Waiting == {r \in Requests : pc[r] \in {"queued", "granted"}}

\* The conservation of permits, in terms of these sets.
Permits ==
  /\ free + Cardinality(Holders) + Cardinality(Lost) = MAX_CONCURRENT
  /\ waiters # <<>> => free = 0
  /\ ToSet(waiters) = InQueue
  /\ queued = Cardinality(Waiting)

\* What the place of a handler says about its locals and its session.
Places ==
  \A r \in Requests :
    /\ pc[r] = "unstarted" => stream[r]
    /\ pc[r] = "new" => r \notin left
    /\ pc[r] # "ended" => outcome[r] = "none"
    /\ pc[r] \in {"new", "queued", "granted"} => r \notin kvh /\ session[r] = "none"
    /\ pc[r] = "errored" => session[r] = "error"
    /\ pc[r] \in {"new", "queued", "granted", "unstarted", "gen", "check", "step"} => steps[r] < MaxSteps[r]

\* The event loop is held by the one handler that is between cancel and reset,
\* and the only mark there may be is the one that this reset removes.
LoopHeld ==
  /\ \A r \in Requests : loop = r <=> pc[r] \in {"cancel", "finally", "fcancel"}
  /\ loop = Nobody => cancelled = {}
  /\ \A r \in Requests : /\ pc[r] = "cancel" => cancelled \subseteq {slot[r]}
                         /\ pc[r] = "finally" => cancelled = {}
                         /\ pc[r] = "fcancel" => cancelled \subseteq {devSlot}

\* The requests whose generation has begun.
Begun == {r \in Requests : pc[r] \in {"check", "step", "cancel", "finally", "fcancel", "final", "errored"}}

\* Those on the device know of each other, and the state there is made of the
\* tokens of those that a request has met.
Known ==
  /\ \A r \in Requests : /\ thr[r] \in {"ok", "err"} => pc[r] = "step"
                         /\ r \in Stepping => pc[r] \in {"step", "fcancel", "ended"}
  /\ \A r \in Begun : (Begun \cup Stepping) \ {r} \subseteq met[r]
  /\ \A r \in Requests : pc[r] \in {"check", "step"} =>
       /\ mix \subseteq {r} \cup met[r]
       /\ thr[r] = "ok" /\ met[r] = {} => mix = {r}

IndInv == TypeOK /\ Permits /\ Places /\ SessionsClosed /\ LoopHeld /\ Known

-----------------------------------------------------------------------------
(***************************************************************************)
(* Sequences without repetition                                            *)
(***************************************************************************)
\* What is left when one element is removed from the middle.
LEMMA RemoveAtFacts ==
  ASSUME NEW S, NEW s \in Seq(S), IsInjective(s), NEW i \in 1 .. Len(s)
  PROVE  /\ RemoveAt(s, i) \in Seq(S)
         /\ IsInjective(RemoveAt(s, i))
         /\ ToSet(RemoveAt(s, i)) = ToSet(s) \ {s[i]}
<1> DEFINE a == SubSeq(s, 1, i-1)
           b == SubSeq(s, i+1, Len(s))
<1>1. Len(s) \in Nat /\ DOMAIN s = 1 .. Len(s) /\ \A k \in 1 .. Len(s) : s[k] \in S
  BY LenProperties, ElementOfSeq
<1>2. /\ a \in Seq(S) /\ Len(a) = i - 1
      /\ \A k \in 1 .. i - 1 : a[k] = s[k]
  BY <1>1, SubSeqProperties
<1>3. /\ b \in Seq(S) /\ Len(b) = Len(s) - i
      /\ \A k \in 1 .. Len(s) - i : b[k] = s[i + k]
  <2> DEFINE n == Len(s)
  <2>1. i + 1 \in Int /\ n \in Int /\ \A k \in i + 1 .. n : s[k] \in S
    BY <1>1
  <2>2. /\ b \in Seq(S)
        /\ Len(b) = IF i + 1 <= n THEN n - (i + 1) + 1 ELSE 0
        /\ \A k \in 1 .. n - (i + 1) + 1 : b[k] = s[(i + 1) + k - 1]
    BY <2>1, SubSeqProperties
  <2> HIDE DEF b, n
  <2>3. n \in Nat /\ i \in Nat /\ i <= n
    BY <1>1 DEF n
  <2>4. (IF i + 1 <= n THEN n - (i + 1) + 1 ELSE 0) = n - i /\ n - (i + 1) + 1 = n - i
    BY <2>3
  <2>5. \A k \in 1 .. n - i : (i + 1) + k - 1 = i + k
    BY <2>3
  <2>6. QED
    BY <2>2, <2>4, <2>5 DEF n
<1>4. /\ RemoveAt(s, i) \in Seq(S) /\ Len(RemoveAt(s, i)) = Len(s) - 1
      /\ \A k \in 1 .. Len(s) - 1 : RemoveAt(s, i)[k] = IF k < i THEN s[k] ELSE s[k + 1]
  <2> DEFINE t == a \o b
             n == Len(s)
  <2>1. RemoveAt(s, i) = t
    BY DEF RemoveAt
  <2> HIDE DEF a, b
  <2>2. /\ t \in Seq(S)
        /\ Len(t) = Len(a) + Len(b)
        /\ \A k \in 1 .. Len(a) + Len(b) : t[k] = IF k <= Len(a) THEN a[k] ELSE b[k - Len(a)]
    BY <1>2, <1>3, ConcatProperties
  <2>3. n \in Nat /\ i \in 1 .. n /\ (i - 1) + (n - i) = n - 1
    BY <1>1
  <2> HIDE DEF t, n
  <2>4. Len(a) + Len(b) = n - 1
    BY <1>2, <1>3, <2>3 DEF n
  <2>5. ASSUME NEW k \in 1 .. n - 1
        PROVE  t[k] = IF k < i THEN s[k] ELSE s[k + 1]
    <3>1. t[k] = IF k <= i - 1 THEN a[k] ELSE b[k - (i - 1)]
      BY <1>2, <2>2, <2>4
    <3>2. CASE k < i
      <4>1. k \in 1 .. i - 1 /\ k <= i - 1
        BY <2>3, <3>2
      <4>2. QED
        BY <1>2, <3>1, <3>2, <4>1
    <3>3. CASE ~(k < i)
      <4>1. k - (i - 1) \in 1 .. n - i /\ ~(k <= i - 1) /\ i + (k - (i - 1)) = k + 1
        BY <2>3, <3>3
      <4>2. b[k - (i - 1)] = s[k + 1]
        BY <1>3, <4>1 DEF n
      <4>3. QED
        BY <3>1, <3>3, <4>1, <4>2
    <3>4. QED
      BY <3>2, <3>3
  <2>6. QED
    BY <2>1, <2>2, <2>4, <2>5 DEF n
<1>5. DOMAIN RemoveAt(s, i) = 1 .. Len(s) - 1
  BY <1>4, LenProperties
<1>6. IsInjective(RemoveAt(s, i))
  <2> DEFINE r == RemoveAt(s, i)
             n == Len(s)
             at(k) == IF k < i THEN k ELSE k + 1
  <2> HIDE DEF r, n
  <2> SUFFICES ASSUME NEW j \in 1 .. n - 1, NEW k \in 1 .. n - 1, r[j] = r[k] PROVE j = k
    BY <1>5 DEF IsInjective, r, n
  <2>1. n \in Nat /\ i \in 1 .. n
    BY <1>1 DEF n
  <2>2. at(j) \in 1 .. n /\ at(k) \in 1 .. n
    BY <2>1
  <2>3. r[j] = s[at(j)] /\ r[k] = s[at(k)]
    BY <1>4 DEF r, n
  <2>4. at(j) = at(k)
    <3> HIDE DEF at
    <3> QED BY <1>1, <2>2, <2>3 DEF IsInjective, n
  <2>5. QED
    BY <2>1, <2>4
<1>7. ToSet(RemoveAt(s, i)) = ToSet(s) \ {s[i]}
  <2>1. ASSUME NEW x \in ToSet(RemoveAt(s, i))
        PROVE  x \in ToSet(s) \ {s[i]}
    <3>1. PICK k \in 1 .. Len(s) - 1 : RemoveAt(s, i)[k] = x
      BY <1>5, <2>1 DEF ToSet
    <3>2. PICK j \in 1 .. Len(s) : x = s[j] /\ j # i
      BY <1>1, <1>4, <3>1
    <3>3. QED
      BY <1>1, <3>2 DEF IsInjective, ToSet
  <2>2. ASSUME NEW x \in ToSet(s) \ {s[i]}
        PROVE  x \in ToSet(RemoveAt(s, i))
    <3>1. PICK k \in 1 .. Len(s) : s[k] = x /\ k # i
      BY <1>1 DEF ToSet
    <3>2. CASE k < i
      <4>1. k \in 1 .. Len(s) - 1 /\ RemoveAt(s, i)[k] = x
        BY <1>1, <1>4, <3>1, <3>2
      <4>2. QED
        BY <4>1, <1>5 DEF ToSet
    <3>3. CASE k > i
      <4>1. k - 1 \in 1 .. Len(s) - 1 /\ ~(k - 1 < i) /\ (k - 1) + 1 = k
        BY <1>1, <3>1, <3>3
      <4>2. RemoveAt(s, i)[k - 1] = x
        BY <1>4, <3>1, <4>1
      <4>3. QED
        BY <4>1, <4>2, <1>5 DEF ToSet
    <3>4. QED
      BY <3>1, <3>2, <3>3
  <2>3. QED
    BY <2>1, <2>2
<1>8. QED
  BY <1>4, <1>6, <1>7

\* What is left when the first element is removed.
LEMMA TailFacts ==
  ASSUME NEW S, NEW s \in Seq(S), IsInjective(s), s # <<>>
  PROVE  /\ Head(s) \in ToSet(s)
         /\ Tail(s) \in Seq(S)
         /\ IsInjective(Tail(s))
         /\ ToSet(Tail(s)) = ToSet(s) \ {Head(s)}
<1>1. Len(s) \in Nat \ {0} /\ DOMAIN s = 1 .. Len(s) /\ 1 \in 1 .. Len(s)
  BY LenProperties, EmptySeq
<1>2. Tail(s) = RemoveAt(s, 1)
  <2>1. SubSeq(s, 1, 1 - 1) = <<>>
    BY SubSeqEmpty
  <2>2. SubSeq(s, 1 + 1, Len(s)) = Tail(s) /\ Tail(s) \in Seq(S)
    BY TailIsSubSeq, HeadTailProperties
  <2>3. <<>> \o Tail(s) = Tail(s)
    BY <2>2, ConcatEmptySeq
  <2>4. QED
    BY <2>1, <2>2, <2>3 DEF RemoveAt
<1>3. Head(s) = s[1]
  BY <1>1
<1>4. s[1] \in ToSet(s)
  BY <1>1 DEF ToSet
<1>5. /\ RemoveAt(s, 1) \in Seq(S) /\ IsInjective(RemoveAt(s, 1))
      /\ ToSet(RemoveAt(s, 1)) = ToSet(s) \ {s[1]}
  BY <1>1, RemoveAtFacts
<1>6. QED
  BY <1>2, <1>3, <1>4, <1>5

\* What a new last element adds.
LEMMA AppendFacts ==
  ASSUME NEW S, NEW s \in Seq(S), IsInjective(s), NEW x \in S, x \notin ToSet(s)
  PROVE  /\ Append(s, x) \in Seq(S)
         /\ IsInjective(Append(s, x))
         /\ ToSet(Append(s, x)) = ToSet(s) \cup {x}
<1>1. /\ Append(s, x) \in Seq(S) /\ Len(Append(s, x)) = Len(s) + 1
      /\ \A i \in 1 .. Len(s) : Append(s, x)[i] = s[i]
      /\ Append(s, x)[Len(s) + 1] = x
  BY AppendProperties
<1>2. /\ Len(s) \in Nat /\ DOMAIN s = 1 .. Len(s)
      /\ DOMAIN Append(s, x) = 1 .. Len(s) + 1
  BY <1>1, LenProperties
<1>3. \A i \in 1 .. Len(s) + 1 : i \in 1 .. Len(s) \/ i = Len(s) + 1
  BY <1>2
<1>4. \A i \in 1 .. Len(s) : i \in 1 .. Len(s) + 1
  BY <1>2
<1>5. IsInjective(Append(s, x))
  BY <1>1, <1>2, <1>3 DEF IsInjective, ToSet
<1>6. ToSet(Append(s, x)) = ToSet(s) \cup {x}
  <2>1. Len(s) + 1 \in 1 .. Len(s) + 1
    BY <1>2
  <2>2. ASSUME NEW y \in ToSet(Append(s, x)) PROVE y \in ToSet(s) \cup {x}
    BY <1>1, <1>2, <1>3 DEF ToSet
  <2>3. ASSUME NEW y \in ToSet(s) \cup {x} PROVE y \in ToSet(Append(s, x))
    BY <1>1, <1>2, <1>4, <2>1 DEF ToSet
  <2>4. QED
    BY <2>2, <2>3
<1>7. QED
  BY <1>1, <1>5, <1>6

-----------------------------------------------------------------------------
(***************************************************************************)
(* Permits                                                                 *)
(***************************************************************************)
\* The counts are counts of finite sets.
LEMMA Finite ==
  /\ IsFiniteSet(Holders) /\ Cardinality(Holders) \in Nat
  /\ IsFiniteSet(Waiting) /\ Cardinality(Waiting) \in Nat
  /\ IsFiniteSet(Lost) /\ Cardinality(Lost) \in Nat
<1>1. Holders \in SUBSET Requests /\ Waiting \in SUBSET Requests /\ Lost \in SUBSET Requests
  BY DEF Holders, Waiting, Lost
<1>2. IsFiniteSet(Holders) /\ IsFiniteSet(Waiting) /\ IsFiniteSet(Lost)
  BY <1>1, FS_Subset, ServingAssumption
<1>3. QED
  BY <1>2, FS_CardinalityType

\* release, as the handlers use it: the permit of r goes to the first waiter or
\* becomes free, whoever else is where.
LEMMA Release ==
  ASSUME TypeOK, Permits, NEW r \in Holders, ReleasePermit, pc' = Wake(r), Lost' = Lost,
         queued' = IF pc[r] = "granted" THEN queued - 1 ELSE queued
  PROVE  /\ Permits'
         /\ pc' \in [Requests -> Pcs] /\ pc'[r] = "ended"
         /\ \A q \in Requests \ {r} : pc'[q] = pc[q] \/ (pc[q] = "queued" /\ pc'[q] = "granted")
         /\ free' \in 0 .. MAX_CONCURRENT /\ queued' \in 0 .. MAX_QUEUED
         /\ waiters' \in Seq(Requests) /\ IsInjective(waiters')
<1> USE ServingAssumption
<1>1. /\ r \in Requests /\ pc[r] \notin {"new", "queued", "ended"}
      /\ pc \in [Requests -> Pcs] /\ waiters \in Seq(Requests) /\ IsInjective(waiters)
      /\ free \in Nat /\ queued \in 0 .. MAX_QUEUED /\ MAX_CONCURRENT \in Nat
  BY DEF Holders, TypeOK
<1>2. /\ IsFiniteSet(Holders) /\ Cardinality(Holders) \in Nat
      /\ IsFiniteSet(Waiting) /\ Cardinality(Waiting) \in Nat /\ Cardinality(Lost) \in Nat
  BY Finite
<1>3. /\ IsFiniteSet(Holders \ {r}) /\ Cardinality(Holders \ {r}) = Cardinality(Holders) - 1
      /\ Cardinality(Waiting \ {r}) = IF r \in Waiting THEN Cardinality(Waiting) - 1 ELSE Cardinality(Waiting)
  BY <1>2, FS_RemoveElement
<1>4. /\ queued' = Cardinality(Waiting \ {r}) /\ queued' \in 0 .. MAX_QUEUED
  <2>1. r \in Waiting <=> pc[r] = "granted"
    BY <1>1 DEF Waiting
  <2>2. CASE r \in Waiting
    <3>1. Cardinality(Waiting) # 0
      BY <1>2, <2>2, FS_EmptySet
    <3>2. QED
      BY <1>1, <1>2, <1>3, <2>1, <2>2, <3>1 DEF Permits
  <2>3. CASE r \notin Waiting
    BY <1>1, <1>2, <1>3, <2>1, <2>3 DEF Permits
  <2>4. QED
    BY <2>2, <2>3
<1>5. CASE waiters = <<>>
  <2>1. /\ free' = free + 1 /\ waiters' = waiters
        /\ pc' = [pc EXCEPT ![r] = "ended"]
    BY <1>1, <1>5 DEF ReleasePermit, Wake
  <2>2. /\ Holders' = Holders \ {r} /\ Waiting' = Waiting \ {r} /\ InQueue' = InQueue
    BY <1>1, <2>1 DEF Holders, Waiting, InQueue
  <2>3. free' + Cardinality(Holders') = free + Cardinality(Holders)
    BY <1>1, <1>2, <1>3, <2>1, <2>2
  <2>4. Permits'
    BY <1>4, <1>5, <2>1, <2>2, <2>3 DEF Permits
  <2>5. free' \in 0 .. MAX_CONCURRENT
    <3>1. Cardinality(Holders) - 1 \in Nat
      BY <1>2, <1>3, FS_CardinalityType
    <3>2. QED
      BY <1>1, <1>2, <2>1, <3>1 DEF Permits
  <2>6. pc' \in [Requests -> Pcs] /\ pc'[r] = "ended" /\ \A q \in Requests \ {r} : pc'[q] = pc[q]
    BY <1>1, <2>1 DEF Pcs
  <2>7. QED
    BY <1>1, <1>4, <2>1, <2>4, <2>5, <2>6
<1>6. CASE waiters # <<>>
  <2> DEFINE h == Head(waiters)
  <2>1. /\ free' = free /\ waiters' = Tail(waiters)
    BY <1>6 DEF ReleasePermit
  <2>2. /\ h \in ToSet(waiters) /\ waiters' \in Seq(Requests) /\ IsInjective(waiters')
        /\ ToSet(waiters') = ToSet(waiters) \ {h}
    BY <1>1, <1>6, <2>1, TailFacts
  <2>3. h \in Requests /\ pc[h] = "queued" /\ h # r
    BY <1>1, <2>2 DEF Permits, InQueue
  <2> HIDE DEF h
  <2>4. pc' = [q \in Requests |-> IF q = r THEN "ended" ELSE IF q = h THEN "granted" ELSE pc[q]]
    BY <1>6 DEF Wake, h
  <2>5. /\ Holders' = (Holders \ {r}) \cup {h} /\ h \notin Holders
        /\ Waiting' = Waiting \ {r} /\ InQueue' = InQueue \ {h}
    BY <1>1, <2>3, <2>4 DEF Holders, Waiting, InQueue
  <2>6. Cardinality(Holders') = Cardinality(Holders)
    <3>1. Cardinality((Holders \ {r}) \cup {h}) = Cardinality(Holders \ {r}) + 1
      BY <1>3, <2>5, FS_AddElement
    <3>2. QED
      BY <1>2, <1>3, <2>5, <3>1
  <2>7. Permits'
    BY <1>4, <1>6, <2>1, <2>2, <2>5, <2>6 DEF Permits
  <2>8. pc' \in [Requests -> Pcs] /\ pc'[r] = "ended"
    BY <1>1, <2>3, <2>4 DEF Pcs
  <2>9. \A q \in Requests \ {r} : pc'[q] = pc[q] \/ (pc[q] = "queued" /\ pc'[q] = "granted")
    BY <1>1, <2>3, <2>4
  <2>10. free' \in 0 .. MAX_CONCURRENT
    BY <2>1 DEF TypeOK
  <2>11. QED
    BY <1>4, <2>2, <2>7, <2>8, <2>9, <2>10
<1>7. QED
  BY <1>5, <1>6

\* A handler that has its permit goes on with it.
LEMMA GoOn ==
  ASSUME TypeOK, Permits, UNCHANGED queueVars, NEW r \in Holders, pc[r] # "granted",
         NEW x \in {"gen", "check", "step", "cancel", "finally", "fcancel", "final", "errored"},
         pc' = [pc EXCEPT ![r] = x], outcome' = outcome
  PROVE  /\ Permits'
         /\ pc' \in [Requests -> Pcs] /\ pc'[r] = x /\ \A q \in Requests \ {r} : pc'[q] = pc[q]
<1>1. r \in Requests /\ pc[r] \notin {"new", "queued", "ended"} /\ pc \in [Requests -> Pcs]
  BY DEF Holders, TypeOK
<1>2. Holders' = Holders /\ Waiting' = Waiting /\ InQueue' = InQueue /\ Lost' = Lost
  BY <1>1 DEF Holders, Waiting, InQueue, Lost
<1>3. Permits'
  BY <1>2 DEF Permits, queueVars
<1>4. QED
  BY <1>1, <1>3 DEF Pcs

-----------------------------------------------------------------------------
(***************************************************************************)
(* Every step keeps the invariant                                          *)
(***************************************************************************)
LEMMA InitInd == Init => IndInv
<1> SUFFICES ASSUME Init PROVE IndInv
  OBVIOUS
<1> USE ServingAssumption DEF Init
<1>1. waiters \in Seq(Requests) /\ IsInjective(waiters) /\ ToSet(waiters) = {}
  BY EmptySeq DEF IsInjective, ToSet
<1>2. TypeOK
  BY <1>1 DEF TypeOK, Pcs, Outcomes, NoSlot, TheSlot
<1>3. Permits
  <2>1. Holders = {} /\ Waiting = {} /\ InQueue = {} /\ Lost = {}
    BY DEF Holders, Waiting, InQueue, Lost
  <2>2. Cardinality({}) = 0
    BY FS_EmptySet
  <2>3. QED
    BY <1>1, <2>1, <2>2 DEF Permits
<1>4. Places /\ SessionsClosed /\ LoopHeld
  BY DEF Places, SessionsClosed, Ended, Lost, LoopHeld, Nobody
<1>5. Known
  BY DEF Known, Begun, Stepping
<1>6. QED
  BY <1>2, <1>3, <1>4, <1>5 DEF IndInv

\* The end of a handler that has its permit, however it comes about.
LEMMA EndInd ==
  ASSUME IndInv, NEW r \in Begun, NEW st \in {"none", "active", "finished", "error"},
         NEW how \in {"ok", "error", "left", "late", "aborted"},
         EndWith(r, st, how), st = "active" => how \in {"late", "aborted"},
         thr' \in {thr, [thr EXCEPT ![r] = "none"]},
         pc[r] = "step" => thr' = [thr EXCEPT ![r] = "none"],
         loop \in {Nobody, r}, loop' = Nobody, cancelled' = {}, mix' \in {mix, {}},
         UNCHANGED <<slot, queued, modelVars>>
  PROVE  IndInv'
<1> USE ServingAssumption DEF IndInv
<1>1. /\ r \in Requests /\ pc[r] \in {"check", "step", "cancel", "finally", "fcancel", "final", "errored"}
      /\ r \in Holders /\ outcome[r] = "none"
  BY DEF Begun, Holders, Places
<1>2. /\ ReleasePermit /\ pc' = Wake(r) /\ queued' = queued
  BY DEF EndWith
<1>3. /\ Permits'
      /\ pc' \in [Requests -> Pcs] /\ pc'[r] = "ended"
      /\ \A q \in Requests \ {r} : pc'[q] = pc[q] \/ (pc[q] = "queued" /\ pc'[q] = "granted")
      /\ free' \in 0 .. MAX_CONCURRENT /\ queued' \in 0 .. MAX_QUEUED
      /\ waiters' \in Seq(Requests) /\ IsInjective(waiters')
  <2>1. outcome' = [outcome EXCEPT ![r] = how]
    BY DEF EndWith, HandlerOver
  <2>2. Lost' = Lost
    BY <1>1, <2>1 DEF Lost, TypeOK
  <2>3. QED
    BY <1>1, <1>2, <2>2, Release
<1>4. /\ session' = [session EXCEPT ![r] = st] /\ kvh' = kvh \ {r}
      /\ outcome' = [outcome EXCEPT ![r] = how] /\ stream' = [stream EXCEPT ![r] = FALSE]
      /\ left' = left \ {r} /\ steps' = [steps EXCEPT ![r] = 0] /\ met' = [met EXCEPT ![r] = {}]
  BY DEF EndWith, HandlerOver
<1>5. /\ thr' \in [Requests -> {"none", "begun", "checked", "ok", "err"}]
      /\ \A q \in Requests : thr'[q] = thr[q] \/ (q = r /\ thr'[q] = "none")
  BY DEF TypeOK
<1>6. TypeOK'
  <2>1. /\ stream' \in [Requests -> BOOLEAN] /\ left' \subseteq Requests /\ kvh' \subseteq Requests
        /\ outcome' \in [Requests -> Outcomes]
        /\ session' \in [Requests -> {"none", "active", "finished", "error"}]
    BY <1>1, <1>4 DEF TypeOK, Outcomes
  <2>2. steps' \in [Requests -> Nat] /\ (\A q \in Requests : steps'[q] <= MaxSteps[q]) /\ mix' \subseteq Requests
        /\ met' \in [Requests -> SUBSET Requests]
    BY <1>1, <1>4 DEF TypeOK
  <2>3. QED
    BY <1>3, <1>5, <2>1, <2>2 DEF TypeOK, modelVars
<1>7. Places'
  BY <1>1, <1>3, <1>4 DEF Places, TypeOK
<1>8. SessionsClosed'
  BY <1>1, <1>3, <1>4 DEF SessionsClosed, Ended, Lost, TypeOK
<1>9. LoopHeld'
  BY <1>1, <1>3 DEF LoopHeld
<1>10. Known'
  <2>1. \A q \in Requests : /\ thr'[q] \in {"ok", "err"} => q # r /\ thr[q] = thr'[q]
                            /\ q \in Stepping' => q \in Stepping
    BY <1>1, <1>5 DEF Known, Stepping, TypeOK
  <2>2. Begun' = Begun \ {r} /\ Stepping' \subseteq Stepping /\ Begun \subseteq Requests
    BY <1>1, <1>3, <2>1 DEF Begun, Stepping
  <2>3. \A q \in Begun' : met'[q] = met[q] /\ r \in met[q] /\ pc'[q] = pc[q]
    <3>1. \A q \in Begun \ {r} : met'[q] = met[q]
      BY <1>4, <2>2 DEF TypeOK
    <3>2. QED
      BY <1>3, <2>2, <3>1 DEF Known, Begun
  <2>4. \A q \in Requests : pc'[q] \in {"check", "step"} => q \in Begun'
    BY DEF Begun
  <2>5. \A q \in Requests : /\ thr'[q] \in {"ok", "err"} => pc'[q] = "step"
                            /\ q \in Stepping' => pc'[q] \in {"step", "fcancel", "ended"}
    BY <1>1, <1>3, <2>1 DEF Known
  <2>6. \A q \in Begun' : (Begun' \cup Stepping') \ {q} \subseteq met'[q]
    BY <2>2, <2>3 DEF Known
  <2>7. \A q \in Begun' : pc'[q] \in {"check", "step"} => mix' \subseteq {q} \cup met'[q]
    BY <2>2, <2>3 DEF Known
  <2>8. QED
    BY <2>3, <2>4, <2>5, <2>6, <2>7 DEF Known
<1>11. QED
  BY <1>3, <1>6, <1>7, <1>8, <1>9, <1>10

\* The end of a handler that passes its releases by: the permit it keeps is one
\* of a lost request.
LEMMA LoseInd ==
  ASSUME IndInv, NEW r \in Holders, pc[r] # "granted",
         NEW how \in {"unstarted", "escaped", "cancelled"},
         EndWithout(r, how),
         thr' = [thr EXCEPT ![r] = IF r \in Stepping THEN @ ELSE "none"],
         loop \in {Nobody, r}, loop' = Nobody, cancelled' = {}, mix' \in {mix, {}},
         mix' = mix \/ r \in Begun,
         UNCHANGED <<slot, queued, modelVars>>
  PROVE  IndInv'
<1> USE ServingAssumption DEF IndInv
<1>1. /\ r \in Requests /\ pc[r] \notin {"new", "queued", "granted", "ended"}
      /\ outcome[r] = "none" /\ pc \in [Requests -> Pcs]
  BY DEF Holders, Places, TypeOK
<1>2. /\ pc' = [pc EXCEPT ![r] = "ended"]
      /\ outcome' = [outcome EXCEPT ![r] = how] /\ stream' = [stream EXCEPT ![r] = FALSE]
      /\ left' = left \ {r} /\ steps' = [steps EXCEPT ![r] = 0] /\ met' = [met EXCEPT ![r] = {}]
      /\ UNCHANGED <<session, kvh, free, waiters>>
  BY DEF EndWithout, HandlerOver
<1>3. pc' \in [Requests -> Pcs] /\ pc'[r] = "ended" /\ \A q \in Requests \ {r} : pc'[q] = pc[q]
  BY <1>1, <1>2 DEF Pcs
<1>4. Permits'
  <2>1. Holders' = Holders \ {r} /\ Waiting' = Waiting /\ InQueue' = InQueue
    BY <1>1, <1>3 DEF Holders, Waiting, InQueue
  <2>2. Lost' = Lost \cup {r} /\ r \notin Lost
    BY <1>1, <1>2 DEF Lost, TypeOK
  <2>3. /\ Cardinality(Holders') = Cardinality(Holders) - 1 /\ Cardinality(Holders) \in Nat
        /\ Cardinality(Lost') = Cardinality(Lost) + 1 /\ Cardinality(Lost) \in Nat
    BY <2>1, <2>2, Finite, FS_RemoveElement, FS_AddElement
  <2>4. free + (Cardinality(Holders) - 1) + (Cardinality(Lost) + 1) = MAX_CONCURRENT
    BY <2>3 DEF Permits, TypeOK
  <2>5. QED
    BY <1>2, <2>1, <2>3, <2>4 DEF Permits
<1>5. /\ thr' \in [Requests -> {"none", "begun", "checked", "ok", "err"}]
      /\ \A q \in Requests \ {r} : thr'[q] = thr[q]
      /\ thr'[r] \notin {"ok", "err"} /\ Stepping' = Stepping
  BY <1>1 DEF TypeOK, Stepping
<1>6. TypeOK'
  <2>1. /\ stream' \in [Requests -> BOOLEAN] /\ left' \subseteq Requests
        /\ outcome' \in [Requests -> Outcomes]
    BY <1>2 DEF TypeOK, Outcomes
  <2>2. steps' \in [Requests -> Nat] /\ (\A q \in Requests : steps'[q] <= MaxSteps[q]) /\ mix' \subseteq Requests
        /\ met' \in [Requests -> SUBSET Requests]
    BY <1>1, <1>2 DEF TypeOK
  <2>3. QED
    BY <1>2, <1>3, <1>5, <2>1, <2>2 DEF TypeOK, modelVars
<1>7. Places' /\ SessionsClosed'
  BY <1>1, <1>2, <1>3 DEF Places, SessionsClosed, Ended, Lost, TypeOK
<1>8. LoopHeld'
  BY <1>1, <1>3 DEF LoopHeld
<1>9. Known'
  <2>1. Begun' = Begun \ {r}
    BY <1>1, <1>3 DEF Begun
  <2>2. \A q \in Requests : /\ thr'[q] \in {"ok", "err"} => pc'[q] = "step"
                            /\ q \in Stepping' => pc'[q] \in {"step", "fcancel", "ended"}
    BY <1>3, <1>5 DEF Known
  <2>3. \A q \in Requests : pc'[q] \in {"check", "step"} => q \in Begun' /\ pc[q] = pc'[q] /\ thr'[q] = thr[q]
    BY <1>3, <1>5 DEF Begun
  <2>4. \A q \in Begun' : met'[q] = met[q] /\ q \in Begun /\ (r \in Begun => r \in met[q])
    <3>1. \A q \in Begun' : q \in Requests \ {r} /\ q \in Begun
      BY <2>1 DEF Begun
    <3>2. \A q \in Requests \ {r} : met'[q] = met[q]
      BY <1>2 DEF TypeOK
    <3>3. QED
      BY <3>1, <3>2 DEF Known
  <2>5. \A q \in Begun' : (Begun' \cup Stepping') \ {q} \subseteq met'[q]
    BY <1>5, <2>1, <2>4 DEF Known
  <2>6. \A q \in Requests : pc'[q] \in {"check", "step"} =>
          /\ mix' \subseteq {q} \cup met'[q]
          /\ thr'[q] = "ok" /\ met'[q] = {} => mix' = {q}
    BY <2>3, <2>4 DEF Known
  <2>7. QED
    BY <2>2, <2>5, <2>6 DEF Known
<1>10. QED
  BY <1>4, <1>6, <1>7, <1>8, <1>9

\* The actions that end a handler that has begun its generation.
LEMMA CompleteInd == ASSUME IndInv, NEW r \in Requests, Complete(r) PROVE IndInv'
<1>1. r \in Begun /\ pc[r] # "step" /\ loop = Nobody /\ cancelled = {}
  BY DEF Complete, Begun, LoopFree, IndInv, LoopHeld
<1>2. UNCHANGED <<slot, queued, modelVars, thr, loop, cancelled, mix>>
  BY DEF Complete
<1>3. CASE pc[r] = "final"
  <2>1. EndWith(r, "finished", "ok")
    BY <1>3 DEF Complete
  <2>2. QED
    BY <1>1, <1>2, <2>1, EndInd
<1>4. CASE pc[r] # "final"
  <2>1. EndWith(r, "error", "error")
    BY <1>4 DEF Complete
  <2>2. QED
    BY <1>1, <1>2, <2>1, EndInd
<1>5. QED
  BY <1>3, <1>4

LEMMA CloseLateInd == ASSUME IndInv, NEW r \in Requests, CloseLate(r) PROVE IndInv'
<1> DEFINE how == IF pc[r] = "final" THEN "late" ELSE "left"
<1>1. r \in Begun /\ pc[r] # "step" /\ loop = Nobody /\ cancelled = {}
  BY DEF CloseLate, Begun, LoopFree, IndInv, LoopHeld
<1>2. UNCHANGED <<slot, queued, modelVars, thr, loop, cancelled, mix>>
  BY DEF CloseLate
<1>3. /\ EndWith(r, session[r], how)
      /\ session[r] \in {"none", "active", "finished", "error"}
      /\ session[r] = "active" => how = "late"
  BY <1>1 DEF CloseLate, IndInv, Places, Begun, TypeOK
<1>4. how \in {"ok", "error", "left", "late", "aborted"}
  BY <1>3
<1> HIDE DEF how
<1>5. QED
  BY <1>1, <1>2, <1>3, <1>4, EndInd

LEMMA CloseDoneInd == ASSUME IndInv, NEW r \in Requests, CloseDone(r) PROVE IndInv'
<1>1. /\ r \in Begun /\ r \in Holders /\ pc[r] = "fcancel" /\ loop = r /\ cancelled \subseteq {devSlot}
  BY DEF CloseDone, Begun, Holders, IndInv, LoopHeld
<1>2. PICK out \in ResetOutcomes :
        /\ ResetSlot(devSlot, out)
        /\ IF out = "raised" THEN EndWithout(r, "escaped")
           ELSE EndWith(r, "error", IF r \in left THEN "left" ELSE "error")
  BY DEF CloseDone
<1>3. UNCHANGED <<slot, queued, modelVars, thr>> /\ loop' = Nobody
  BY DEF CloseDone
<1>4. cancelled' = {} /\ mix' \in {mix, {}}
  BY <1>1, <1>2 DEF ResetSlot
<1>5. CASE out = "raised"
  <2>1. EndWithout(r, "escaped")
    BY <1>2, <1>5
  <2>2. thr' = [thr EXCEPT ![r] = IF r \in Stepping THEN @ ELSE "none"]
    <3>1. thr[r] \in {"none", "begun", "checked"} /\ thr \in [Requests -> {"none", "begun", "checked", "ok", "err"}]
      BY <1>1 DEF IndInv, Known, TypeOK
    <3>2. thr[r] = IF r \in Stepping THEN thr[r] ELSE "none"
      BY <3>1 DEF Stepping
    <3>3. QED
      BY <1>3, <3>1, <3>2
  <2>3. QED
    BY <1>1, <1>3, <1>4, <2>1, <2>2, LoseInd
<1>6. CASE out # "raised"
  <2> DEFINE how == IF r \in left THEN "left" ELSE "error"
  <2>1. EndWith(r, "error", how)
    BY <1>2, <1>6
  <2>2. how \in {"ok", "error", "left", "late", "aborted"}
    OBVIOUS
  <2> HIDE DEF how
  <2>3. QED
    BY <1>1, <1>3, <1>4, <2>1, <2>2, EndInd
<1>7. QED
  BY <1>5, <1>6

LEMMA AbortInd == ASSUME IndInv, NEW r \in Requests, Abort(r) PROVE IndInv'
<1>1. r \in Begun /\ pc[r] # "step" /\ loop = r /\ cancelled = {}
  BY DEF Abort, Begun, IndInv, LoopHeld
<1>2. UNCHANGED <<slot, queued, modelVars, thr, cancelled, mix>> /\ loop' = Nobody
  BY DEF Abort
<1>3. EndWith(r, session[r], "aborted") /\ session[r] \in {"none", "active", "finished", "error"}
  BY DEF Abort, IndInv, TypeOK
<1>4. QED
  BY <1>1, <1>2, <1>3, EndInd

LEMMA CancelDoneInd == ASSUME IndInv, NEW r \in Requests, CancelDone(r) PROVE IndInv'
<1> USE ServingAssumption
<1>1. /\ r \in Begun /\ r \in Holders /\ pc[r] = "cancel" /\ loop = r /\ cancelled \subseteq {slot[r]}
  BY DEF CancelDone, Begun, Holders, IndInv, LoopHeld
<1>2. /\ UNCHANGED <<slot, queued, modelVars, thr>>
      /\ cancelled' = {} /\ mix' \in {mix, {}}
  BY <1>1 DEF CancelDone, ResetSlot
<1>3. CASE EndWith(r, "error", "left") /\ loop' = Nobody
  BY <1>1, <1>2, <1>3, EndInd
<1>4. CASE ~(EndWith(r, "error", "left") /\ loop' = Nobody)
  <2> USE DEF IndInv
  <2>1. /\ session' \in {session, [session EXCEPT ![r] = "error"]} /\ pc' = [pc EXCEPT ![r] = "finally"]
        /\ UNCHANGED <<loop, kvh, outcome, stream, left, steps, met, free, waiters, queued>>
    <3>1. PICK out \in ResetOutcomes :
            /\ session' = [session EXCEPT ![r] = IF out = "raised" THEN @ ELSE "error"]
            /\ pc' = [pc EXCEPT ![r] = "finally"]
            /\ UNCHANGED <<loop, kvh, outcome, stream, left, steps, met, free, waiters>>
      BY <1>4 DEF CancelDone
    <3>2. session \in [Requests -> {"none", "active", "finished", "error"}]
      BY DEF TypeOK
    <3>3. QED
      BY <1>2, <3>1, <3>2
  <2>2. /\ Permits'
        /\ pc' \in [Requests -> Pcs] /\ pc'[r] = "finally" /\ \A q \in Requests \ {r} : pc'[q] = pc[q]
    BY <1>1, <2>1, GoOn DEF queueVars
  <2>3. session' \in [Requests -> {"none", "active", "finished", "error"}] /\ mix' \subseteq Requests
    BY <1>2, <2>1 DEF TypeOK
  <2>4. TypeOK'
    BY <1>2, <2>1, <2>2, <2>3 DEF TypeOK, modelVars
  <2>5. Places' /\ SessionsClosed'
    BY <1>1, <2>1, <2>2 DEF Places, SessionsClosed, Ended, Lost, TypeOK
  <2>6. LoopHeld'
    BY <1>1, <1>2, <2>1, <2>2 DEF LoopHeld
  <2>7. Known'
    <3>1. Begun' = Begun /\ Stepping' = Stepping
      BY <1>1, <1>2, <2>2 DEF Begun, Stepping
    <3>2. \A q \in Requests : pc'[q] \in {"check", "step"} => q \in Begun /\ q # r /\ pc[q] = pc'[q]
      BY <2>2 DEF Begun
    <3>3. \A q \in Begun \ {r} : r \in met[q]
      BY <1>1 DEF Known
    <3>4. QED
      BY <1>1, <1>2, <2>1, <2>2, <3>1, <3>2, <3>3 DEF Known, Stepping
  <2>8. QED
    BY <2>2, <2>4, <2>5, <2>6, <2>7
<1>5. QED
  BY <1>3, <1>4

LEMMA StepDoneInd == ASSUME IndInv, NEW r \in Requests, StepDone(r) PROVE IndInv'
<1> USE ServingAssumption
<1>1. /\ r \in Begun /\ r \in Holders /\ pc[r] = "step" /\ loop = Nobody /\ cancelled = {}
      /\ thr[r] \in {"ok", "err"} /\ steps[r] \in Nat /\ steps[r] < MaxSteps[r]
  BY DEF StepDone, Begun, Holders, LoopFree, IndInv, LoopHeld, Places, TypeOK
<1>2. /\ UNCHANGED <<slot, queued, modelVars, loop, cancelled, mix>>
      /\ thr' = [thr EXCEPT ![r] = "none"]
  BY DEF StepDone
<1>3. CASE thr[r] = "err" /\ ~stream[r]
  <2>1. EndWith(r, "error", "error")
    BY <1>3 DEF StepDone
  <2>2. QED
    BY <1>1, <1>2, <2>1, EndInd
<1>4. CASE thr[r] = "ok" \/ stream[r]
  <2> USE DEF IndInv
  <2>1. PICK next \in {"final", "check", "errored"} :
          /\ pc' = [pc EXCEPT ![r] = next]
          /\ UNCHANGED <<kvh, outcome, stream, left, met, free, waiters>>
          /\ next = "errored" => session' = [session EXCEPT ![r] = "error"] /\ steps' = steps
          /\ next # "errored" => session' = session /\ steps' = [steps EXCEPT ![r] = @ + 1]
          /\ next = "check" => steps'[r] < MaxSteps[r]
    <3>1. CASE thr[r] = "ok"
      <4>1. PICK next \in {"final"} \cup (IF steps'[r] < MaxSteps[r] THEN {"check"} ELSE {}) :
              pc' = [pc EXCEPT ![r] = next]
        BY <3>1 DEF StepDone
      <4>2. next \in {"final", "check"} /\ (next = "check" => steps'[r] < MaxSteps[r])
        BY <4>1
      <4>3. QED
        BY <3>1, <4>1, <4>2 DEF StepDone
    <3>2. CASE thr[r] = "err"
      BY <1>4, <3>2 DEF StepDone
    <3>3. QED
      BY <1>1, <3>1, <3>2
  <2>2. /\ Permits'
        /\ pc' \in [Requests -> Pcs] /\ pc'[r] = next /\ \A q \in Requests \ {r} : pc'[q] = pc[q]
    BY <1>1, <1>2, <2>1, GoOn DEF queueVars
  <2>3. /\ session' \in [Requests -> {"none", "active", "finished", "error"}]
        /\ thr' \in [Requests -> {"none", "begun", "checked", "ok", "err"}]
    BY <1>2, <2>1 DEF TypeOK
  <2>4. /\ steps' \in [Requests -> Nat] /\ \A q \in Requests : steps'[q] <= MaxSteps[q]
        /\ \A q \in Requests \ {r} : steps'[q] = steps[q]
    <3>1. /\ steps[r] + 1 \in Nat /\ steps[r] + 1 <= MaxSteps[r] /\ steps \in [Requests -> Nat]
          /\ \A q \in Requests : steps[q] <= MaxSteps[q]
      BY <1>1 DEF TypeOK
    <3>2. steps' = steps \/ steps' = [steps EXCEPT ![r] = steps[r] + 1]
      BY <2>1
    <3>3. QED
      BY <3>1, <3>2
  <2>5. TypeOK'
    BY <1>2, <2>1, <2>2, <2>3, <2>4 DEF TypeOK, modelVars
  <2>6. Places' /\ SessionsClosed'
    BY <1>1, <2>1, <2>2, <2>4 DEF Places, SessionsClosed, Ended, Lost, TypeOK
  <2>7. LoopHeld'
    BY <1>1, <1>2, <2>1, <2>2 DEF LoopHeld, modelVars
  <2>8. Known'
    <3>1. /\ Begun' = Begun /\ Stepping' = Stepping
          /\ thr'[r] = "none" /\ \A q \in Requests \ {r} : thr'[q] = thr[q]
      BY <1>1, <1>2, <2>1, <2>2 DEF Begun, Stepping, TypeOK
    <3>2. QED
      BY <1>1, <1>2, <2>1, <2>2, <3>1 DEF Known, Stepping
  <2>9. QED
    BY <2>2, <2>5, <2>6, <2>7, <2>8
<1>5. QED
  BY <1>1, <1>3, <1>4

\* Those on the device are the requests whose generation has begun and the steps
\* that go on.
LEMMA ActiveFacts == ASSUME pc \in [Requests -> Pcs] PROVE Begun \cup Stepping = Active
BY DEF Begun, Active, Pcs

\* Whoever comes to the device is known to those on it, and they to it.
LEMMA MeetFacts ==
  ASSUME met \in [Requests -> SUBSET Requests], NEW r \in Requests, NEW S \in SUBSET Requests,
         met' = Meet(r, S)
  PROVE  /\ met' \in [Requests -> SUBSET Requests]
         /\ Active \ {r} \subseteq met'[r] /\ (S = Requests => met'[r] = Requests)
         /\ \A q \in Requests \ {r} : met[q] \subseteq met'[q] /\ (q \in Active => r \in met'[q])
         /\ met[r] \subseteq met'[r]
<1>1. Active \subseteq Requests
  BY DEF Active, Stepping
<1> DEFINE new(q) == met[q] \cup (IF q = r THEN S \cup (Active \ {r}) ELSE IF q \in Active THEN {r} ELSE {})
<1>2. \A q \in Requests : new(q) \in SUBSET Requests
  BY <1>1
<1>3. met' = [q \in Requests |-> new(q)]
  BY DEF Meet
<1>4. \A q \in Requests : met'[q] = new(q)
  BY <1>3
<1>5. met' \in [Requests -> SUBSET Requests]
  <2> HIDE DEF new
  <2> QED BY <1>2, <1>3
<1>6. QED
  BY <1>1, <1>4, <1>5

\* The actions of a generation that goes on.
LEMMA GenerateInd == ASSUME IndInv, NEW r \in Requests, Generate(r) PROVE IndInv'
<1> USE ServingAssumption DEF IndInv
<1>1. PICK out \in ResetOutcomes :
        /\ ResetSlot(devSlot, out)
        /\ met' = Meet(r, IF out = "ok" THEN {} ELSE Requests)
        /\ pc' = [pc EXCEPT ![r] = IF out = "raised" THEN "finally" ELSE "check"]
        /\ loop' = IF out = "raised" THEN r ELSE Nobody
  BY DEF Generate
<1> DEFINE x == IF out = "raised" THEN "finally" ELSE "check"
<1>2. /\ r \in Holders /\ pc[r] = "gen" /\ loop = Nobody /\ cancelled = {}
      /\ slot' = [slot EXCEPT ![r] = devSlot]
      /\ UNCHANGED <<stream, left, outcome, session, kvh, steps, thr, queueVars, modelVars>>
  BY DEF Generate, Holders, LoopFree, LoopHeld
<1>3. cancelled' = {} /\ mix' \in {mix, {}} /\ (out = "ok" => mix' = {})
  BY <1>1, <1>2 DEF ResetSlot
<1>4. pc' = [pc EXCEPT ![r] = x] /\ x \in {"check", "finally"} /\ (x = "finally" <=> out = "raised")
  BY <1>1
<1> HIDE DEF x
<1>5. /\ Permits'
      /\ pc' \in [Requests -> Pcs] /\ pc'[r] = x /\ \A q \in Requests \ {r} : pc'[q] = pc[q]
  BY <1>2, <1>4, GoOn
<1>6. /\ met' \in [Requests -> SUBSET Requests]
      /\ Active \ {r} \subseteq met'[r] /\ (out # "ok" => met'[r] = Requests)
      /\ \A q \in Requests \ {r} : met[q] \subseteq met'[q] /\ (q \in Active => r \in met'[q])
  <2> DEFINE S == IF out = "ok" THEN {} ELSE Requests
  <2>1. S \subseteq Requests /\ (out # "ok" => S = Requests) /\ met' = Meet(r, S)
    BY <1>1
  <2> HIDE DEF S
  <2>2. QED
    BY <2>1, MeetFacts DEF TypeOK
<1>7. TypeOK'
  <2>1. slot' \in [Requests -> {NoSlot, TheSlot}] /\ mix' \subseteq Requests /\ loop' \in Requests \cup {Nobody}
    BY <1>1, <1>2, <1>3 DEF TypeOK
  <2>2. QED
    BY <1>2, <1>3, <1>5, <1>6, <2>1 DEF TypeOK, modelVars, queueVars
<1>8. Places' /\ SessionsClosed'
  BY <1>2, <1>4, <1>5 DEF Places, SessionsClosed, Ended, Lost
<1>9. LoopHeld'
  <2>1. \A q \in Requests : pc[q] \notin {"cancel", "finally", "fcancel"}
    BY <1>2 DEF LoopHeld
  <2>2. QED
    BY <1>1, <1>2, <1>3, <1>4, <1>5, <2>1 DEF LoopHeld
<1>10. Known'
  <2>1. /\ Begun' = Begun \cup {r} /\ Stepping' = Stepping /\ Begun \subseteq Requests
        /\ Begun \cup Stepping = Active
    BY <1>2, <1>4, <1>5, ActiveFacts DEF Begun, Stepping, TypeOK
  <2>2. thr[r] \notin {"ok", "err"} /\ r \notin Stepping /\ r \notin Begun
    BY <1>2 DEF Known, Begun
  <2>3. \A q \in Requests : /\ thr'[q] \in {"ok", "err"} => pc'[q] = "step"
                            /\ q \in Stepping' => pc'[q] \in {"step", "fcancel", "ended"}
    BY <1>2, <1>5, <2>1, <2>2 DEF Known
  <2>4. \A q \in Begun' : (Begun' \cup Stepping') \ {q} \subseteq met'[q]
    BY <1>6, <2>1 DEF Known
  <2>5. \A q \in Requests \ {r} : pc'[q] \in {"check", "step"} =>
          mix' \subseteq {q} \cup met'[q] /\ met'[q] # {}
    <3>1. \A q \in Requests \ {r} : pc'[q] \in {"check", "step"} => q \in Active /\ pc[q] \in {"check", "step"}
      BY <1>5, <2>1 DEF Begun
    <3>2. QED
      BY <1>3, <1>6, <3>1 DEF Known
  <2>6. mix' \subseteq {r} \cup met'[r] /\ thr'[r] # "ok"
    BY <1>2, <1>3, <1>6, <2>2 DEF TypeOK
  <2>7. QED
    BY <2>3, <2>4, <2>5, <2>6 DEF Known
<1>11. QED
  BY <1>5, <1>7, <1>8, <1>9, <1>10

LEMMA CheckInd == ASSUME IndInv, NEW r \in Requests, Check(r) PROVE IndInv'
<1> USE ServingAssumption DEF IndInv
<1>1. /\ r \in Holders /\ r \in Begun /\ pc[r] = "check" /\ loop = Nobody /\ cancelled = {}
      /\ UNCHANGED <<stream, left, outcome, session, kvh, steps, slot, queueVars, modelVars, mix, met>>
  BY DEF Check, Holders, Begun, LoopFree, LoopHeld
<1>2. PICK x \in {"cancel", "step"} :
        /\ pc' = [pc EXCEPT ![r] = x]
        /\ x = "cancel" => thr' = thr /\ loop' = r /\ CancelSlot(slot[r])
        /\ x = "step" => thr' = [thr EXCEPT ![r] = "begun"] /\ loop' = Nobody /\ cancelled' = {}
  BY <1>1 DEF Check
<1>3. cancelled' \subseteq {slot[r]} /\ cancelled' \subseteq handles
  BY <1>1, <1>2 DEF CancelSlot
<1>4. /\ Permits'
      /\ pc' \in [Requests -> Pcs] /\ pc'[r] = x /\ \A q \in Requests \ {r} : pc'[q] = pc[q]
  BY <1>1, <1>2, GoOn
<1>5. /\ thr' \in [Requests -> {"none", "begun", "checked", "ok", "err"}]
      /\ \A q \in Requests \ {r} : thr'[q] = thr[q]
      /\ x = "step" => thr'[r] = "begun"
  <2>1. thr \in [Requests -> {"none", "begun", "checked", "ok", "err"}]
    BY DEF TypeOK
  <2>2. thr' = thr \/ thr' = [thr EXCEPT ![r] = "begun"]
    BY <1>2
  <2>3. QED
    BY <1>2, <2>1, <2>2
<1>6. TypeOK'
  <2>1. loop' \in Requests \cup {Nobody}
    BY <1>2
  <2>2. QED
    BY <1>1, <1>3, <1>4, <1>5, <2>1 DEF TypeOK, modelVars, queueVars
<1>7. Places' /\ SessionsClosed'
  BY <1>1, <1>2, <1>4 DEF Places, SessionsClosed, Ended, Lost
<1>8. LoopHeld'
  BY <1>1, <1>2, <1>3, <1>4 DEF LoopHeld, modelVars
<1>9. Known'
  <2>1. Begun' = Begun /\ Stepping' \subseteq Stepping \cup {r}
    BY <1>1, <1>2, <1>4, <1>5 DEF Begun, Stepping
  <2>2. thr[r] \notin {"ok", "err"} /\ r \notin Stepping
    BY <1>1 DEF Known
  <2>3. x = "cancel" => thr'[r] = thr[r]
    BY <1>2
  <2>4. \A q \in Begun' : (Begun' \cup Stepping') \ {q} \subseteq met'[q]
    BY <1>1, <2>1 DEF Known
  <2>5. \A q \in Requests : /\ thr'[q] \in {"ok", "err"} => pc'[q] = "step"
                            /\ q \in Stepping' => pc'[q] \in {"step", "fcancel", "ended"}
    BY <1>1, <1>2, <1>4, <1>5, <2>1, <2>2, <2>3 DEF Known, Stepping
  <2>6. QED
    BY <1>1, <1>2, <1>4, <1>5, <2>4, <2>5 DEF Known
<1>10. QED
  BY <1>4, <1>6, <1>7, <1>8, <1>9

LEMMA CloseInd == ASSUME IndInv, NEW r \in Requests, Close(r) PROVE IndInv'
<1> USE ServingAssumption DEF IndInv
<1>1. /\ pc[r] \in {"gen", "check", "step", "finally"} /\ r \in Holders
      /\ loop \in {Nobody, r} /\ cancelled = {}
  BY DEF Close, Holders, LoopFree, LoopHeld
<1>2. /\ CancelSlot(devSlot) /\ met' = Meet(r, {}) /\ loop' = r
      /\ pc' = [pc EXCEPT ![r] = "fcancel"]
      /\ thr' = [thr EXCEPT ![r] = IF r \in Stepping THEN @ ELSE "none"]
      /\ UNCHANGED <<stream, left, outcome, session, kvh, steps, slot, queueVars, modelVars, mix>>
  BY DEF Close
<1>3. cancelled' \subseteq {devSlot} /\ cancelled' \subseteq handles
  BY <1>1, <1>2 DEF CancelSlot
<1>4. /\ Permits'
      /\ pc' \in [Requests -> Pcs] /\ pc'[r] = "fcancel" /\ \A q \in Requests \ {r} : pc'[q] = pc[q]
  BY <1>1, <1>2, GoOn
<1>5. /\ thr' \in [Requests -> {"none", "begun", "checked", "ok", "err"}]
      /\ \A q \in Requests \ {r} : thr'[q] = thr[q]
      /\ thr'[r] \notin {"ok", "err"} /\ Stepping' = Stepping
  BY <1>2 DEF TypeOK, Stepping
<1>6. /\ met' \in [Requests -> SUBSET Requests]
      /\ Active \ {r} \subseteq met'[r]
      /\ \A q \in Requests \ {r} : met[q] \subseteq met'[q] /\ (q \in Active => r \in met'[q])
  BY <1>2, MeetFacts DEF TypeOK
<1>7. TypeOK'
  BY <1>2, <1>3, <1>4, <1>5, <1>6 DEF TypeOK, modelVars, queueVars
<1>8. Places' /\ SessionsClosed'
  BY <1>1, <1>2, <1>4 DEF Places, SessionsClosed, Ended, Lost
<1>9. LoopHeld'
  BY <1>1, <1>2, <1>3, <1>4 DEF LoopHeld, modelVars
<1>10. Known'
  <2>1. /\ Begun' = Begun \cup {r} /\ Stepping' = Stepping /\ Begun \subseteq Requests
        /\ Begun \cup Stepping = Active
    BY <1>1, <1>4, <1>5, ActiveFacts DEF Begun, TypeOK
  <2>2. \A q \in Begun' : (Begun' \cup Stepping') \ {q} \subseteq met'[q]
    BY <1>6, <2>1 DEF Known
  <2>3. \A q \in Requests : /\ thr'[q] \in {"ok", "err"} => pc'[q] = "step"
                            /\ q \in Stepping' => pc'[q] \in {"step", "fcancel", "ended"}
    BY <1>1, <1>4, <1>5 DEF Known
  <2>4. \A q \in Requests : pc'[q] \in {"check", "step"} => q # r /\ q \in Active /\ pc[q] = pc'[q]
    BY <1>4, <2>1 DEF Begun
  <2>5. \A q \in Requests : pc'[q] \in {"check", "step"} => mix' \subseteq {q} \cup met'[q] /\ met'[q] # {}
    BY <1>2, <1>6, <2>4 DEF Known
  <2>6. QED
    BY <2>2, <2>3, <2>5 DEF Known
<1>11. QED
  BY <1>4, <1>7, <1>8, <1>9, <1>10

\* A request that moves before its generation begins does not touch the device.
LEMMA BeforeDevice ==
  ASSUME LoopHeld, Known, UNCHANGED <<thr, slot, loop, modelVars, cancelled, mix>>,
         \A q \in Begun : met'[q] = met[q],
         \A q \in Requests : \/ pc'[q] = pc[q]
                             \/ /\ pc[q] \in {"new", "queued", "granted", "unstarted"}
                                /\ pc'[q] \in {"queued", "granted", "unstarted", "gen", "ended"}
  PROVE  LoopHeld' /\ Known'
<1>1. LoopHeld'
  BY DEF LoopHeld, modelVars
<1>2. Begun' = Begun /\ Stepping' = Stepping
  BY DEF Begun, Stepping
<1>3. \A q \in Requests : thr[q] \in {"ok", "err", "begun", "checked"} => pc'[q] = pc[q]
  BY DEF Known, Stepping
<1>4. \A q \in Requests : pc'[q] \in {"check", "step"} => pc[q] = pc'[q] /\ q \in Begun
  BY DEF Begun
<1>5. Known'
  <2>1. \A q \in Requests : /\ thr'[q] \in {"ok", "err"} => pc'[q] = "step"
                            /\ q \in Stepping' => pc'[q] \in {"step", "fcancel", "ended"}
    BY <1>2, <1>3 DEF Known, Stepping
  <2>2. QED
    BY <1>2, <1>4, <2>1 DEF Known
<1>6. QED
  BY <1>1, <1>5

LEMMA StreamBeginInd == ASSUME IndInv, NEW r \in Requests, StreamBegin(r) PROVE IndInv'
<1> USE ServingAssumption DEF IndInv
<1>1. /\ r \in Holders /\ pc[r] = "unstarted" /\ pc \in [Requests -> Pcs]
      /\ loop = Nobody /\ cancelled = {}
      /\ UNCHANGED <<queued, thr, slot, loop, modelVars, cancelled, mix>>
  BY DEF StreamBegin, Holders, TypeOK, LoopFree, LoopHeld
<1>2. CASE r \notin left
  <2>1. pc' = [pc EXCEPT ![r] = "gen"] /\ UNCHANGED <<outcome, stream, left, steps, met, session, kvh, free, waiters>>
    BY <1>2 DEF StreamBegin
  <2>2. /\ Permits'
        /\ pc' \in [Requests -> Pcs] /\ pc'[r] = "gen" /\ \A q \in Requests \ {r} : pc'[q] = pc[q]
    BY <1>1, <2>1, GoOn DEF queueVars
  <2>3. TypeOK'
    BY <1>1, <2>1, <2>2 DEF TypeOK, modelVars
  <2>4. Places' /\ SessionsClosed'
    BY <1>1, <2>1, <2>2 DEF Places, SessionsClosed, Ended, Lost
  <2>5. LoopHeld' /\ Known'
    BY <1>1, <2>1, <2>2, BeforeDevice
  <2>6. QED
    BY <2>2, <2>3, <2>4, <2>5
<1>3. CASE r \in left
  <2>1. EndWithout(r, "unstarted")
    BY <1>3 DEF StreamBegin
  <2>2. thr' = [thr EXCEPT ![r] = IF r \in Stepping THEN @ ELSE "none"]
    <3>1. thr[r] = "none" /\ r \notin Stepping /\ thr \in [Requests -> {"none", "begun", "checked", "ok", "err"}]
      BY <1>1 DEF Known, Stepping, TypeOK
    <3>2. QED
      BY <1>1, <3>1
  <2>3. QED
    BY <1>1, <2>1, <2>2, LoseInd
<1>4. QED
  BY <1>2, <1>3

LEMMA ArriveInd == ASSUME IndInv, NEW r \in Requests, Arrive(r) PROVE IndInv'
<1> USE ServingAssumption DEF IndInv
<1>1. /\ pc[r] = "new" /\ r \notin Holders /\ r \notin Waiting /\ r \notin InQueue
      /\ r \notin left /\ r \notin kvh /\ session[r] = "none" /\ pc \in [Requests -> Pcs] /\ outcome[r] = "none"
      /\ UNCHANGED <<left, steps, thr, slot, loop, modelVars, devVars>>
  BY DEF Arrive, Holders, Waiting, InQueue, Places, TypeOK
<1>2. IsFiniteSet(Holders) /\ Cardinality(Holders) \in Nat /\ IsFiniteSet(Waiting) /\ Cardinality(Waiting) \in Nat
  BY Finite
<1>3. PICK s \in BOOLEAN :
      \/ /\ pc' = [pc EXCEPT ![r] = "ended"]
         /\ outcome' = [outcome EXCEPT ![r] = "refused"]
         /\ UNCHANGED <<queueVars, session, kvh, stream>>
      \/ /\ free > 0 /\ free' = free - 1 /\ Admit(r, s)
         /\ stream' = [stream EXCEPT ![r] = s]
         /\ UNCHANGED <<waiters, queued, outcome>>
      \/ /\ queued < MAX_QUEUED /\ free = 0
         /\ waiters' = Append(waiters, r) /\ queued' = queued + 1
         /\ stream' = [stream EXCEPT ![r] = s]
         /\ pc' = [pc EXCEPT ![r] = "queued"]
         /\ UNCHANGED <<free, session, kvh, outcome>>
  BY DEF Arrive
<1>4. CASE /\ pc' = [pc EXCEPT ![r] = "ended"]
           /\ outcome' = [outcome EXCEPT ![r] = "refused"]
           /\ UNCHANGED <<queueVars, session, kvh, stream>>
  <2>1. pc' \in [Requests -> Pcs] /\ pc'[r] = "ended" /\ \A q \in Requests \ {r} : pc'[q] = pc[q]
    BY <1>1, <1>4 DEF Pcs
  <2>2. Holders' = Holders /\ Waiting' = Waiting /\ InQueue' = InQueue /\ Lost' = Lost
    BY <1>1, <1>4, <2>1 DEF Holders, Waiting, InQueue, Lost, TypeOK
  <2>3. Permits'
    BY <1>4, <2>2 DEF Permits, queueVars
  <2>4. TypeOK'
    BY <1>1, <1>4, <2>1 DEF TypeOK, modelVars, queueVars, devVars, Outcomes
  <2>5. Places' /\ SessionsClosed'
    BY <1>1, <1>4, <2>1 DEF Places, SessionsClosed, Ended, Lost, TypeOK
  <2>6. LoopHeld' /\ Known'
    BY <1>1, <2>1, BeforeDevice DEF devVars
  <2>7. QED
    BY <2>3, <2>4, <2>5, <2>6
<1>5. CASE /\ free > 0 /\ free' = free - 1 /\ Admit(r, s)
           /\ stream' = [stream EXCEPT ![r] = s]
           /\ UNCHANGED <<waiters, queued, outcome>>
  <2>1. PICK x \in {"unstarted", "gen"} : pc' = [pc EXCEPT ![r] = x] /\ (x = "unstarted" => s)
    BY <1>5 DEF Admit
  <2>2. pc' \in [Requests -> Pcs] /\ pc'[r] = x /\ \A q \in Requests \ {r} : pc'[q] = pc[q]
    BY <1>1, <2>1 DEF Pcs
  <2>3. /\ session' = [session EXCEPT ![r] = "active"] /\ kvh' = kvh \cup {r}
    BY <1>5 DEF Admit
  <2>4. Holders' = Holders \cup {r} /\ Waiting' = Waiting /\ InQueue' = InQueue /\ Lost' = Lost
    BY <1>1, <1>5, <2>2 DEF Holders, Waiting, InQueue, Lost
  <2>5. Cardinality(Holders') = Cardinality(Holders) + 1
    BY <1>1, <1>2, <2>4, FS_AddElement
  <2>6. free \in Nat /\ free' \in 0 .. MAX_CONCURRENT /\ (free - 1) + (Cardinality(Holders) + 1) = free + Cardinality(Holders)
    BY <1>2, <1>5 DEF TypeOK
  <2>7. waiters = <<>>
    BY <1>5, <2>6 DEF Permits
  <2>8. Permits'
    BY <1>5, <2>4, <2>5, <2>6, <2>7 DEF Permits
  <2>9. TypeOK'
    <3>1. /\ stream' \in [Requests -> BOOLEAN] /\ kvh' \subseteq Requests
          /\ session' \in [Requests -> {"none", "active", "finished", "error"}]
      BY <1>5, <2>3 DEF TypeOK
    <3>2. QED
      BY <1>1, <1>5, <2>2, <2>6, <3>1 DEF TypeOK, modelVars, devVars
  <2>10. Places' /\ SessionsClosed'
    BY <1>1, <1>5, <2>1, <2>2, <2>3 DEF Places, SessionsClosed, Ended, Lost, TypeOK
  <2>11. LoopHeld' /\ Known'
    BY <1>1, <2>2, BeforeDevice DEF devVars
  <2>12. QED
    BY <2>8, <2>9, <2>10, <2>11
<1>6. CASE /\ queued < MAX_QUEUED /\ free = 0
           /\ waiters' = Append(waiters, r) /\ queued' = queued + 1
           /\ stream' = [stream EXCEPT ![r] = s]
           /\ pc' = [pc EXCEPT ![r] = "queued"]
           /\ UNCHANGED <<free, session, kvh, outcome>>
  <2>1. pc' \in [Requests -> Pcs] /\ pc'[r] = "queued" /\ \A q \in Requests \ {r} : pc'[q] = pc[q]
    BY <1>1, <1>6 DEF Pcs
  <2>2. Holders' = Holders /\ Waiting' = Waiting \cup {r} /\ InQueue' = InQueue \cup {r} /\ Lost' = Lost
    BY <1>1, <1>6, <2>1 DEF Holders, Waiting, InQueue, Lost
  <2>3. Cardinality(Waiting') = Cardinality(Waiting) + 1
    BY <1>1, <1>2, <2>2, FS_AddElement
  <2>4. /\ waiters' \in Seq(Requests) /\ IsInjective(waiters')
        /\ ToSet(waiters') = ToSet(waiters) \cup {r}
    BY <1>1, <1>6, AppendFacts DEF TypeOK, Permits
  <2>5. queued' \in 0 .. MAX_QUEUED
    BY <1>6 DEF TypeOK
  <2>6. Permits'
    BY <1>6, <2>2, <2>3, <2>4 DEF Permits
  <2>7. TypeOK'
    BY <1>1, <1>6, <2>1, <2>4, <2>5 DEF TypeOK, modelVars, devVars
  <2>8. Places' /\ SessionsClosed'
    BY <1>1, <1>6, <2>1 DEF Places, SessionsClosed, Ended, Lost, TypeOK
  <2>9. LoopHeld' /\ Known'
    BY <1>1, <2>1, BeforeDevice DEF devVars
  <2>10. QED
    BY <2>6, <2>7, <2>8, <2>9
<1>7. QED
  BY <1>3, <1>4, <1>5, <1>6

LEMMA ResumeInd == ASSUME IndInv, NEW r \in Requests, Resume(r) PROVE IndInv'
<1> USE ServingAssumption DEF IndInv
<1>1. /\ pc[r] = "granted" /\ r \in Holders /\ r \in Waiting /\ pc \in [Requests -> Pcs]
      /\ queued' = queued - 1 /\ Admit(r, stream[r])
      /\ UNCHANGED <<stream, left, outcome, free, waiters, steps, thr, slot, loop, modelVars, devVars>>
  BY DEF Resume, Holders, Waiting, TypeOK
<1>2. PICK x \in {"unstarted", "gen"} : pc' = [pc EXCEPT ![r] = x] /\ (x = "unstarted" => stream[r])
  BY <1>1 DEF Admit
<1>3. pc' \in [Requests -> Pcs] /\ pc'[r] = x /\ \A q \in Requests \ {r} : pc'[q] = pc[q]
  BY <1>1, <1>2 DEF Pcs
<1>4. session' = [session EXCEPT ![r] = "active"] /\ kvh' = kvh \cup {r}
  BY <1>1 DEF Admit
<1>5. Holders' = Holders /\ Waiting' = Waiting \ {r} /\ InQueue' = InQueue /\ Lost' = Lost
  BY <1>1, <1>3 DEF Holders, Waiting, InQueue, Lost
<1>6. /\ Cardinality(Waiting') = Cardinality(Waiting) - 1 /\ queued' \in 0 .. MAX_QUEUED
  <2>1. Cardinality(Waiting \ {r}) = Cardinality(Waiting) - 1 /\ Cardinality(Waiting) \in Nat
    BY <1>1, Finite, FS_RemoveElement
  <2>2. Cardinality(Waiting) # 0
    BY <1>1, Finite, FS_EmptySet
  <2>3. QED
    BY <1>1, <1>5, <2>1, <2>2 DEF Permits, TypeOK
<1>7. Permits'
  BY <1>1, <1>5, <1>6 DEF Permits
<1>8. TypeOK'
  <2>1. /\ kvh' \subseteq Requests
        /\ session' \in [Requests -> {"none", "active", "finished", "error"}]
    BY <1>4 DEF TypeOK
  <2>2. QED
    BY <1>1, <1>3, <1>6, <2>1 DEF TypeOK, modelVars, devVars
<1>9. Places' /\ SessionsClosed'
  BY <1>1, <1>2, <1>3, <1>4 DEF Places, SessionsClosed, Ended, Lost, TypeOK
<1>10. LoopHeld' /\ Known'
  BY <1>1, <1>3, BeforeDevice DEF devVars
<1>11. QED
  BY <1>7, <1>8, <1>9, <1>10

LEMMA CancelWaitInd ==
  ASSUME IndInv, NEW r \in Requests, CancelHandler(r), pc[r] \in {"queued", "granted"}
  PROVE  IndInv'
<1> USE ServingAssumption DEF IndInv
<1>1. /\ pc \in [Requests -> Pcs] /\ queued' = queued - 1
      /\ r \notin kvh /\ session[r] = "none" /\ outcome[r] = "none"
      /\ UNCHANGED <<session, kvh, thr, slot, loop, modelVars, cancelled, mix>>
  BY DEF CancelHandler, Places, TypeOK
<1>2. /\ outcome' = [outcome EXCEPT ![r] = "left"] /\ stream' = [stream EXCEPT ![r] = FALSE]
      /\ left' = left \ {r} /\ steps' = [steps EXCEPT ![r] = 0] /\ met' = [met EXCEPT ![r] = {}]
  BY DEF CancelHandler, HandlerOver
<1>3. /\ Permits'
      /\ pc' \in [Requests -> Pcs] /\ pc'[r] = "ended"
      /\ \A q \in Requests \ {r} : pc'[q] = pc[q] \/ (pc[q] = "queued" /\ pc'[q] = "granted")
      /\ free' \in 0 .. MAX_CONCURRENT /\ queued' \in 0 .. MAX_QUEUED
      /\ waiters' \in Seq(Requests) /\ IsInjective(waiters')
  <2>1. CASE pc[r] = "granted"
    <3>1. r \in Holders /\ ReleasePermit /\ pc' = Wake(r)
      BY <2>1 DEF CancelHandler, Holders
    <3>2. Lost' = Lost
      BY <1>1, <1>2 DEF Lost, TypeOK
    <3>3. QED
      BY <1>1, <2>1, <3>1, <3>2, Release
  <2>2. CASE pc[r] = "queued"
    <3>1. PICK i \in DOMAIN waiters : waiters[i] = r /\ waiters' = RemoveAt(waiters, i)
      BY <2>2 DEF CancelHandler
    <3>2. pc' = [pc EXCEPT ![r] = "ended"] /\ free' = free
      BY <2>2 DEF CancelHandler
    <3>3. waiters \in Seq(Requests) /\ IsInjective(waiters) /\ i \in 1 .. Len(waiters)
      BY <3>1, LenProperties DEF TypeOK
    <3>4. /\ waiters' \in Seq(Requests) /\ IsInjective(waiters') /\ ToSet(waiters') = ToSet(waiters) \ {r}
      BY <3>1, <3>3, RemoveAtFacts
    <3>5. Holders' = Holders /\ Waiting' = Waiting \ {r} /\ InQueue' = InQueue \ {r} /\ Lost' = Lost
      BY <1>1, <1>2, <2>2, <3>2 DEF Holders, Waiting, InQueue, Lost, TypeOK
    <3>6. r \in Waiting
      BY <1>1 DEF Waiting
    <3>7. /\ Cardinality(Waiting \ {r}) = Cardinality(Waiting) - 1 /\ Cardinality(Waiting) \in Nat
          /\ Cardinality(Waiting) # 0
      BY <3>6, Finite, FS_RemoveElement, FS_EmptySet
    <3>8. queued' \in 0 .. MAX_QUEUED /\ queued' = Cardinality(Waiting')
      <4>1. queued = Cardinality(Waiting) /\ queued \in 0 .. MAX_QUEUED /\ MAX_QUEUED \in Nat
        BY DEF Permits, TypeOK
      <4>2. Cardinality(Waiting') = Cardinality(Waiting) - 1 /\ queued' = queued - 1
        BY <1>1, <3>5, <3>7
      <4>3. QED
        BY <3>7, <4>1, <4>2
    <3>9. free = 0
      <4>1. waiters # <<>>
        BY <3>1, <3>3, EmptySeq
      <4>2. QED
        BY <4>1 DEF Permits
    <3>10. Permits'
      BY <3>2, <3>4, <3>5, <3>8, <3>9 DEF Permits
    <3>11. pc' \in [Requests -> Pcs] /\ pc'[r] = "ended" /\ \A q \in Requests \ {r} : pc'[q] = pc[q]
      BY <1>1, <3>2 DEF Pcs
    <3>12. QED
      BY <3>2, <3>4, <3>8, <3>10, <3>11 DEF TypeOK
  <2>3. QED
    BY <1>1, <2>1, <2>2
<1>4. TypeOK'
  <2>1. /\ stream' \in [Requests -> BOOLEAN] /\ left' \subseteq Requests
        /\ outcome' \in [Requests -> Outcomes]
    BY <1>2 DEF TypeOK, Outcomes
  <2>2. /\ steps' \in [Requests -> Nat] /\ (\A q \in Requests : steps'[q] <= MaxSteps[q])
        /\ met' \in [Requests -> SUBSET Requests]
    BY <1>2 DEF TypeOK
  <2>3. QED
    BY <1>1, <1>3, <2>1, <2>2 DEF TypeOK, modelVars
<1>5. Places' /\ SessionsClosed'
  BY <1>1, <1>2, <1>3 DEF Places, SessionsClosed, Ended, Lost, TypeOK
<1>6. LoopHeld' /\ Known'
  <2>1. \A q \in Begun : met'[q] = met[q]
    BY <1>2 DEF Begun, TypeOK
  <2>2. QED
    BY <1>1, <1>3, <2>1, BeforeDevice
<1>7. QED
  BY <1>3, <1>4, <1>5, <1>6

LEMMA CancelHandlerInd == ASSUME IndInv, NEW r \in Requests, CancelHandler(r) PROVE IndInv'
<1>1. CASE pc[r] \in {"queued", "granted"}
  BY <1>1, CancelWaitInd
<1>2. CASE pc[r] \notin {"queued", "granted"}
  <2>1. /\ pc[r] \in {"check", "step"} /\ EndWithout(r, "cancelled")
        /\ thr' = [thr EXCEPT ![r] = IF r \in Stepping THEN @ ELSE "none"]
        /\ loop = Nobody
        /\ UNCHANGED <<queued, slot, loop, modelVars, cancelled, mix>>
    BY <1>2 DEF CancelHandler, LoopFree
  <2>2. r \in Holders /\ pc[r] # "granted" /\ cancelled = {}
    BY <2>1 DEF Holders, IndInv, LoopHeld
  <2>3. QED
    BY <2>1, <2>2, LoseInd
<1>3. QED
  BY <1>1, <1>2

LEMMA LeaveInd == ASSUME IndInv, NEW r \in Requests, Leave(r) PROVE IndInv'
<1> USE DEF IndInv
<1>1. /\ pc[r] \notin {"new", "ended"} /\ left' = left \cup {r}
      /\ UNCHANGED <<pc, stream, outcome, session, kvh, steps, thr, slot, loop, queueVars, modelVars, devVars>>
  BY DEF Leave
<1>2. TypeOK'
  BY <1>1 DEF TypeOK, queueVars, modelVars, devVars
<1>3. Holders' = Holders /\ Waiting' = Waiting /\ InQueue' = InQueue /\ Lost' = Lost
  BY <1>1 DEF Holders, Waiting, InQueue, Lost
<1>4. Permits'
  BY <1>1, <1>3 DEF Permits, queueVars
<1>5. Places' /\ SessionsClosed'
  BY <1>1 DEF Places, SessionsClosed, Ended, Lost
<1>6. LoopHeld' /\ Known'
  BY <1>1, BeforeDevice DEF devVars
<1>7. QED
  BY <1>2, <1>4, <1>5, <1>6

\* The steps on the device, in their threads.
LEMMA ThreadInd == ASSUME IndInv, NEW r \in Requests, Thread(r) PROVE IndInv'
<1> USE DEF IndInv
<1>1. /\ r \in Stepping
      /\ UNCHANGED <<pc, stream, left, outcome, session, kvh, steps, slot, loop, queueVars, modelVars, met>>
      /\ cancelled' \in {cancelled, cancelled \ {slot[r]}}
      /\ mix' \in {mix, mix \cup {r}}
      /\ \E x \in {"checked", "ok", "err", "none"} :
           /\ thr' = [thr EXCEPT ![r] = x]
           /\ x \in {"ok", "err"} => pc[r] = "step"
           /\ x = "ok" => mix' = mix \cup {r}
  BY DEF Thread, ThreadCheck, ThreadRun, Stepping, Result
<1>2. PICK x \in {"checked", "ok", "err", "none"} :
           /\ thr' = [thr EXCEPT ![r] = x]
           /\ x \in {"ok", "err"} => pc[r] = "step"
           /\ x = "ok" => mix' = mix \cup {r}
  BY <1>1
<1>3. /\ thr' \in [Requests -> {"none", "begun", "checked", "ok", "err"}] /\ thr'[r] = x
      /\ \A q \in Requests \ {r} : thr'[q] = thr[q]
  BY <1>2 DEF TypeOK
<1>4. TypeOK'
  BY <1>1, <1>3 DEF TypeOK, queueVars, modelVars
<1>5. Permits'
  <2>1. Holders' = Holders /\ Waiting' = Waiting /\ InQueue' = InQueue /\ Lost' = Lost
    BY <1>1 DEF Holders, Waiting, InQueue, Lost
  <2>2. QED
    BY <1>1, <2>1 DEF Permits, queueVars
<1>6. Places' /\ SessionsClosed'
  BY <1>1 DEF Places, SessionsClosed, Ended, Lost
<1>7. LoopHeld'
  BY <1>1 DEF LoopHeld, modelVars
<1>8. Known'
  <2>1. Begun' = Begun /\ Stepping' \subseteq Stepping
    BY <1>1, <1>3 DEF Begun, Stepping
  <2>2. \A q \in Begun : q = r \/ r \in met[q]
    BY <1>1 DEF Known
  <2>3. \A q \in Requests : /\ thr'[q] \in {"ok", "err"} => pc'[q] = "step"
                            /\ q \in Stepping' => pc'[q] \in {"step", "fcancel", "ended"}
    BY <1>1, <1>2, <1>3, <2>1 DEF Known
  <2>4. \A q \in Requests : pc[q] \in {"check", "step"} => q \in Begun
    BY DEF Begun
  <2>5. \A q \in Begun' : (Begun' \cup Stepping') \ {q} \subseteq met'[q]
    BY <1>1, <2>1 DEF Known
  <2>6. \A q \in Requests : pc'[q] \in {"check", "step"} =>
          /\ mix' \subseteq {q} \cup met'[q]
          /\ thr'[q] = "ok" /\ met'[q] = {} => mix' = {q}
    <3>1. ASSUME NEW q \in Requests, pc'[q] \in {"check", "step"}
          PROVE  mix' \subseteq {q} \cup met'[q]
      BY <1>1, <2>2, <2>4, <3>1 DEF Known
    <3>2. ASSUME NEW q \in Requests, pc'[q] \in {"check", "step"}, thr'[q] = "ok", met'[q] = {}
          PROVE  mix' = {q}
      <4>1. q = r
        BY <1>1, <2>2, <2>4, <3>2
      <4>2. x = "ok" /\ mix' = mix \cup {r}
        BY <1>2, <1>3, <3>2, <4>1
      <4>3. QED
        BY <3>1, <3>2, <4>1, <4>2
    <3>3. QED
      BY <3>1, <3>2
  <2>7. QED
    BY <2>3, <2>5, <2>6 DEF Known
<1>9. QED
  BY <1>4, <1>5, <1>6, <1>7, <1>8

\* The model is loaded and unloaded.
LEMMA ModelInd == ASSUME IndInv, Loader \/ Unload PROVE IndInv'
<1> USE DEF IndInv
<1>1. /\ UNCHANGED <<reqVars, queueVars, mix, met>>
      /\ handles' \in {handles, handles \cup {TheSlot}, handles \ {devSlot}}
      /\ cancelled' \subseteq cancelled /\ cancelled' \subseteq handles'
      /\ devSlot' = devSlot \/ cancelled' = {} \/ devSlot = NoSlot
      /\ devSlot' \in {NoSlot, TheSlot}
      /\ status' \in {"loading", "available", "unavailable", "error"}
      /\ load' \in {"begin", "slot", "available", "tokenizer", "done", "stopped"}
  BY DEF Loader, LoadInit, LoadSlot, LoadAvailable, LoadTokenizer, Unload, devVars, TypeOK, LoopFree, LoopHeld,
         TheSlot, NoSlot
<1>2. TypeOK'
  BY <1>1 DEF TypeOK, reqVars, queueVars
<1>3. Permits'
  <2>1. Holders' = Holders /\ Waiting' = Waiting /\ InQueue' = InQueue /\ Lost' = Lost
    BY <1>1 DEF Holders, Waiting, InQueue, Lost, reqVars
  <2>2. QED
    BY <1>1, <2>1 DEF Permits, queueVars
<1>4. Places' /\ SessionsClosed'
  BY <1>1 DEF Places, SessionsClosed, Ended, Lost, reqVars
<1>5. LoopHeld'
  <2>1. cancelled \subseteq {NoSlot} => cancelled = {}
    BY DEF TypeOK, TheSlot, NoSlot
  <2>2. \A q \in Requests : pc[q] = "fcancel" => cancelled' \subseteq {devSlot'}
    BY <1>1, <2>1 DEF LoopHeld
  <2>3. QED
    BY <1>1, <2>2 DEF LoopHeld, reqVars
<1>6. Known'
  <2>1. Begun' = Begun /\ Stepping' = Stepping
    BY <1>1 DEF Begun, Stepping, reqVars
  <2>2. QED
    BY <1>1, <2>1 DEF Known, reqVars
<1>7. QED
  BY <1>2, <1>3, <1>4, <1>5, <1>6

LEMMA ShutdownInd == ASSUME IndInv, Shutdown PROVE IndInv'
<1> USE DEF IndInv
<1>1. /\ loop = Nobody /\ \A q \in Requests : pc[q] \in {"new", "ended"} /\ q \notin Stepping
      /\ kvh' = {} /\ handles' = {} /\ cancelled' = {} /\ devSlot' = NoSlot /\ load' = "stopped"
      /\ status' \in {status, "unavailable"} /\ pc' = [q \in Requests |-> "ended"]
      /\ UNCHANGED <<stream, left, outcome, session, steps, thr, slot, loop, queueVars, mix, met>>
  BY DEF Shutdown, LoopFree
<1>2. TypeOK'
  BY <1>1 DEF TypeOK, queueVars, Pcs
<1>3. Permits'
  <2>1. Holders' = Holders /\ Waiting' = Waiting /\ InQueue' = InQueue /\ Lost' = Lost
    BY <1>1 DEF Holders, Waiting, InQueue, Lost
  <2>2. QED
    BY <1>1, <2>1 DEF Permits, queueVars
<1>4. Places' /\ SessionsClosed'
  BY <1>1 DEF Places, SessionsClosed, Ended, Lost
<1>5. LoopHeld'
  BY <1>1 DEF LoopHeld
<1>6. Known'
  BY <1>1 DEF Known, Begun, Stepping
<1>7. QED
  BY <1>2, <1>3, <1>4, <1>5, <1>6

LEMMA StutterInd == ASSUME IndInv, UNCHANGED vars PROVE IndInv'
<1> USE DEF IndInv, vars, reqVars, queueVars, modelVars, devVars
<1>1. TypeOK' /\ Places' /\ SessionsClosed' /\ LoopHeld'
  BY DEF TypeOK, Places, SessionsClosed, Ended, Lost, LoopHeld
<1>2. Permits'
  BY DEF Permits, Holders, Waiting, InQueue, Lost
<1>3. Known'
  BY DEF Known, Begun, Stepping
<1>4. QED
  BY <1>1, <1>2, <1>3

LEMMA NextInd == ASSUME IndInv, [Next]_vars PROVE IndInv'
<1>1. CASE \E r \in Requests : Handler(r)
  BY <1>1, ResumeInd, StreamBeginInd, GenerateInd, CheckInd, CancelDoneInd, AbortInd, StepDoneInd, CompleteInd,
     CloseLateInd, CloseInd, CloseDoneInd DEF Handler
<1>2. CASE \E r \in Requests : Thread(r)
  BY <1>2, ThreadInd
<1>3. CASE \E r \in Requests : Client(r)
  BY <1>3, ArriveInd, CancelHandlerInd, LeaveInd DEF Client
<1>4. CASE Loader \/ Unload
  BY <1>4, ModelInd
<1>5. CASE Shutdown
  BY <1>5, ShutdownInd
<1>6. CASE Stopped \/ UNCHANGED vars
  BY <1>6, StutterInd DEF Stopped
<1>7. QED
  BY <1>1, <1>2, <1>3, <1>4, <1>5, <1>6 DEF Next

\* The inductive invariant, from which all safety properties follow.
THEOREM Invariance == Spec => []IndInv
<1>1. Init => IndInv
  BY InitInd
<1>2. IndInv /\ [Next]_vars => IndInv'
  BY NextInd
<1>3. QED
  BY <1>1, <1>2, PTL DEF Spec

-----------------------------------------------------------------------------
(***************************************************************************)
(* The variables keep their types; in particular never more than           *)
(* MAX_QUEUED requests wait and never more than MAX_CONCURRENT permits are *)
(* free (RequestQueue).                                                    *)
(***************************************************************************)
THEOREM Types == Spec => []TypeOK
<1>1. IndInv => TypeOK
  BY DEF IndInv
<1>2. QED
  BY <1>1, Invariance, PTL

(***************************************************************************)
(* However requests end, the free permits, those of the requests being     *)
(* served and those of the requests that ended past their releases are all *)
(* there are: no other way loses a permit or makes one (RequestQueue and   *)
(* the ends of chat_completions).                                          *)
(***************************************************************************)
THEOREM NoPermitLost == Spec => []PermitsConserved
<1>1. IndInv => PermitsConserved
  BY DEF IndInv, Permits, PermitsConserved, InQueue, Waiting
<1>2. QED
  BY <1>1, Invariance, PTL

(***************************************************************************)
(* A request that has ended has given back its KV handle and its session   *)
(* is closed, but for the requests that ended past their releases, and for *)
(* the sessions left active when the client left during the last chunks or *)
(* when a reset raised in a generation that is not streamed.               *)
(***************************************************************************)
THEOREM SessionsAreClosed == Spec => []SessionsClosed
<1>1. IndInv => SessionsClosed
  BY DEF IndInv
<1>2. QED
  BY <1>1, Invariance, PTL

(***************************************************************************)
(* No cancel mark outlives the handler that set it, whenever clients leave *)
(* and the model is loaded or unloaded (cancel and reset of the slot).     *)
(***************************************************************************)
THEOREM NoMarkLeft == Spec => []NoPoison
<1>1. IndInv => NoPoison
  BY DEF IndInv, LoopHeld, NoPoison, LoopFree
<1>2. QED
  BY <1>1, Invariance, PTL

(***************************************************************************)
(* The state on the device that a request sees holds only its own tokens   *)
(* and those of the requests it met there since its reset, just its own    *)
(* when it met none: what ran, failed or was dropped before that leaves    *)
(* nothing behind for it (the reset at the beginning of _run_generation;   *)
(* a reset that failed is excepted).                                       *)
(***************************************************************************)
THEOREM RequestsIsolated == Spec => []Isolated
<1>1. IndInv => Isolated
  BY DEF IndInv, Known, Isolated
<1>2. QED
  BY <1>1, Invariance, PTL

=============================================================================
