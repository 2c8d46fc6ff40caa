---------------------------- MODULE DCache_proofs ----------------------------
(***************************************************************************)
(* Proofs about the cache of derived formats, for any number of readers,   *)
(* writers, buffers, blocks, formats and entries.  What it returns is made *)
(* from the current bytes of the buffer when the writers are CPU writers   *)
(* that call the hook after their store.  Whatever the writers are, its    *)
(* types hold, its byte count is that of the valid entries, and entries    *)
(* made from an old version are dropped before any other.                  *)
(***************************************************************************)
EXTENDS DCache, BTrack_proofs

\* What Coherent and ReturnsCurrent take: a DMA write advances the version before
\* its data lands, and a write known to another source advances none.
CpuWrites == Kinds \subseteq {"cpu"}

\* Somebody has stored into the buffer and not advanced its version yet.
InFlight(b) == \E w \in Writers : wr[w].pc \in {"mark", "bump"} /\ Extent(w) \cap BufBlocks[b] # {}

WritersOK == \A w \in Writers : wr[w].kind = "cpu" /\ wr[w].pc \in {"idle", "data", "mark", "bump"}

\* Versions only grow, so one that is current still has seen no write end; and a
\* write that has changed the bytes meanwhile is still in flight.
MadeFrom(b, v, data) ==
  /\ v \in Nat /\ v <= ver[b]
  /\ v = ver[b] /\ ~InFlight(b) => \A x \in DOMAIN data : data[x] = content[x]

\* The private copies.
Copies == UNION {[S -> Nat] : S \in SUBSET MemBlocks}

\* A call that has not hit.
CallType == [pc : {"version", "lookup", "copy", "check", "publish"}, buf : Bufs, fmt : Fmts,
             attempt : Int, v0 : Nat, copy : Copies]

CallOK(c) ==
  /\ c \in CallType
  /\ DOMAIN c.copy \subseteq BufBlocks[c.buf]
  /\ c.pc \in {"version", "lookup"} => DOMAIN c.copy = {}
  /\ c.pc \in {"check", "publish"} => DOMAIN c.copy = BufBlocks[c.buf]
  /\ MadeFrom(c.buf, c.v0, c.copy)

EntryOK(e) ==
  /\ e.buf \in Bufs /\ e.data \in Copies /\ DOMAIN e.data = BufBlocks[e.buf]
  /\ MadeFrom(e.buf, e.ver, e.data)

CacheInv ==
  /\ TrackInv /\ WritersOK
  /\ content \in [MemBlocks -> Nat]
  /\ \A i \in Slots : ent[i].valid => EntryOK(ent[i])
  /\ DOMAIN rd = Readers
  /\ \A r \in Readers : rd[r].pc \in {"idle", "hit"} \/ CallOK(rd[r])

-----------------------------------------------------------------------------
LEMMA CopyFacts ==
  /\ \A f \in Copies : /\ f = [x \in DOMAIN f |-> f[x]] /\ DOMAIN f \subseteq MemBlocks
                       /\ \A x \in DOMAIN f : f[x] \in Nat
  /\ \A S \in SUBSET MemBlocks : \A f \in [S -> Nat] : f \in Copies
  /\ <<>> \in Copies /\ DOMAIN <<>> = {}
<1>1. ASSUME NEW f \in Copies
      PROVE  /\ f = [x \in DOMAIN f |-> f[x]] /\ DOMAIN f \subseteq MemBlocks
             /\ \A x \in DOMAIN f : f[x] \in Nat
  <2>1. PICK S \in SUBSET MemBlocks : f \in [S -> Nat]
    BY DEF Copies
  <2> QED BY <2>1
<1>2. ASSUME NEW S \in SUBSET MemBlocks, NEW f \in [S -> Nat] PROVE f \in Copies
  BY DEF Copies
<1>3. DOMAIN <<>> = {} /\ <<>> \in [{} -> Nat]
  OBVIOUS
<1>4. <<>> \in Copies
  BY <1>2, <1>3
<1> QED BY <1>1, <1>2, <1>3, <1>4

LEMMA BufFacts == \A b \in Bufs : BufBlocks[b] \subseteq MemBlocks /\ BufBlocks[b] \subseteq Nat
<1>1. \A b \in Bufs : BufBlocks[b] \subseteq 0 .. NBlocks + TailBlocks - 1
  BY TrackAssumption
<1> QED BY <1>1, Sizes DEF MemBlocks

-----------------------------------------------------------------------------
(***************************************************************************)
(* The writers.                                                            *)
(***************************************************************************)
\* The steps that a CPU writer takes.
LEMMA CpuSteps ==
  ASSUME CpuWrites, CacheInv, NEW w \in Writers, BeginWrite(w) \/ WriterStep(w)
  PROVE  /\ \A q \in Writers \ {w} : wr'[q] = wr[q]
         /\ wr'[w].kind = "cpu"
         /\ \/ wr[w].pc = "idle" /\ wr'[w].pc = "data" /\ ver' = ver
            \/ /\ wr[w].pc = "data" /\ wr'[w].pc = "mark" /\ ver' = ver
               /\ wr'[w].lo = wr[w].lo /\ wr'[w].hi = wr[w].hi
            \/ /\ wr[w].pc = "mark" /\ wr'[w].pc \in {"mark", "bump"} /\ ver' = ver
               /\ wr'[w].lo = wr[w].lo /\ wr'[w].hi = wr[w].hi
            \/ /\ wr[w].pc = "bump" /\ wr'[w].pc = "idle"
               /\ ver' = [b \in Bufs |-> IF Overlaps(w, b) THEN ver[b] + 1 ELSE ver[b]]
<1>1. wr[w] \in WrType /\ wr \in [Writers -> WrType]
      /\ wr[w].kind = "cpu" /\ wr[w].pc \in {"idle", "data", "mark", "bump"}
  BY DEF CacheInv, TrackInv, TrackTypeOK, WrType, WritersOK
<1>2. CASE BeginWrite(w)
  BY <1>1, <1>2 DEF BeginWrite, CpuWrites
<1>3. CASE WriteData(w)
  BY <1>1, <1>3 DEF WriteData, WrType
<1>4. CASE MarkBits(w)
  <2> DEFINE after == [wr[w] EXCEPT !.pc = "bump"]
  <2>1. wr[w].pc = "mark" /\ OrBits(w, after) /\ ver' = ver
    BY <1>4 DEF MarkBits
  <2>2. after \in WrType
    BY <1>1 DEF WrType
  <2>3. \/ wr' = [wr EXCEPT ![w] = after]
        \/ wr' = [wr EXCEPT ![w] = [wr[w] EXCEPT !.word = wr[w].word + 1]]
    BY <2>1, <2>2, OrBitsFacts DEF CacheInv, TrackInv
  <2> QED BY <1>1, <2>1, <2>3 DEF WrType
<1>5. CASE Bump(w)
  BY <1>1, <1>5 DEF Bump, Idle
<1> QED BY <1>1, <1>2, <1>3, <1>4, <1>5 DEF WriterStep, bt_merge, FindToken, OpenToken, Land, bt_dma_complete

\* The memory changes when a writer that has not called the hook yet stores.
LEMMA ContentStep ==
  ASSUME CacheInv, NEW w \in Writers, Write(w)
  PROVE  /\ content' \in [MemBlocks -> Nat]
         /\ wr[w].pc # "data" => content' = content
         /\ \A x \in MemBlocks \ Extent(w) : content'[x] = content[x]
<1>1. content \in [MemBlocks -> Nat] /\ wr[w].pc # "landing"
  BY DEF CacheInv, WritersOK
<1>2. CASE Stores(w)
  <2>1. wr[w].pc = "data" /\ content' = [b \in MemBlocks |-> IF b \in Extent(w) THEN content[b] + 1 ELSE content[b]]
    BY <1>1, <1>2 DEF Write, Stores
  <2> QED BY <1>1, <2>1
<1>3. CASE ~Stores(w)
  <2>1. content' = content
    BY <1>3 DEF Write
  <2> QED BY <1>1, <2>1
<1> QED BY <1>2, <1>3

\* What was made from a version still was.
LEMMA MadeKept ==
  ASSUME CpuWrites, CacheInv, NEW w \in Writers, Write(w),
         NEW b \in Bufs, NEW v, NEW data, DOMAIN data \subseteq BufBlocks[b], MadeFrom(b, v, data)
  PROVE  /\ v \in Nat /\ v <= ver'[b]
         /\ v = ver'[b] /\ ~InFlight(b)' => \A x \in DOMAIN data : data[x] = content'[x]
<1>1. BeginWrite(w) \/ WriterStep(w)
  BY DEF Write
<1>2. ver[b] \in Nat /\ v \in Nat /\ v <= ver[b] /\ ver \in [Bufs -> 0 .. MaxWrites]
  BY Sizes DEF CacheInv, TrackInv, TrackTypeOK, MadeFrom
<1>3. \A q \in Writers \ {w} : wr'[q] = wr[q] /\ Extent(q)' = Extent(q)
  BY <1>1, CpuSteps DEF Extent
<1>4. CASE wr[w].pc = "idle" \/ wr[w].pc = "mark"
  <2>1. ver' = ver /\ content' = content
    BY <1>1, <1>4, CpuSteps, ContentStep
  <2>2. wr[w].pc = "mark" => wr'[w].pc \in {"mark", "bump"} /\ Extent(w)' = Extent(w)
    BY <1>1, CpuSteps DEF Extent
  <2>3. InFlight(b) => InFlight(b)'
    <3> SUFFICES ASSUME NEW q \in Writers, wr[q].pc \in {"mark", "bump"}, Extent(q) \cap BufBlocks[b] # {}
                 PROVE  wr'[q].pc \in {"mark", "bump"} /\ Extent(q)' \cap BufBlocks[b] # {}
      BY DEF InFlight
    <3> QED BY <1>3, <1>4, <2>2
  <2> QED BY <1>2, <2>1, <2>3 DEF MadeFrom
<1>5. CASE wr[w].pc = "data"
  <2>1. ver' = ver /\ wr'[w].pc = "mark" /\ Extent(w)' = Extent(w)
    BY <1>1, <1>5, CpuSteps DEF Extent
  <2>2. CASE Extent(w) \cap BufBlocks[b] # {}
    <3>1. InFlight(b)'
      BY <2>1, <2>2 DEF InFlight
    <3> QED BY <1>2, <2>1, <3>1
  <2>3. CASE Extent(w) \cap BufBlocks[b] = {}
    <3>1. InFlight(b) => InFlight(b)'
      <4> SUFFICES ASSUME NEW q \in Writers, wr[q].pc \in {"mark", "bump"}, Extent(q) \cap BufBlocks[b] # {}
                   PROVE  wr'[q].pc \in {"mark", "bump"} /\ Extent(q)' \cap BufBlocks[b] # {}
        BY DEF InFlight
      <4> QED BY <1>3, <1>5
    <3>2. \A x \in BufBlocks[b] : content'[x] = content[x]
      BY <2>3, BufFacts, ContentStep
    <3> QED BY <1>2, <2>1, <3>1, <3>2 DEF MadeFrom
  <2> QED BY <2>2, <2>3
<1>6. CASE wr[w].pc = "bump"
  <2>1. ver' = [c \in Bufs |-> IF Overlaps(w, c) THEN ver[c] + 1 ELSE ver[c]] /\ content' = content
    BY <1>1, <1>6, CpuSteps, ContentStep
  <2>2. CASE Overlaps(w, b)
    <3>1. ver'[b] = ver[b] + 1
      BY <2>1, <2>2
    <3> QED BY <1>2, <3>1
  <2>3. CASE ~Overlaps(w, b)
    <3>1. ver'[b] = ver[b] /\ Extent(w) \cap BufBlocks[b] = {}
      BY <2>1, <2>3 DEF Overlaps
    <3>2. InFlight(b) => InFlight(b)'
      <4> SUFFICES ASSUME NEW q \in Writers, wr[q].pc \in {"mark", "bump"}, Extent(q) \cap BufBlocks[b] # {}
                   PROVE  wr'[q].pc \in {"mark", "bump"} /\ Extent(q)' \cap BufBlocks[b] # {}
        BY DEF InFlight
      <4> QED BY <1>3, <3>1
    <3> QED BY <1>2, <2>1, <3>1, <3>2 DEF MadeFrom
  <2> QED BY <2>2, <2>3
<1> QED BY <1>4, <1>5, <1>6 DEF CacheInv, WritersOK

LEMMA WriteKeeps ==
  ASSUME CpuWrites, CacheInv, NEW w \in Writers, Write(w)
  PROVE  CacheInv'
<1>1. BeginWrite(w) \/ WriterStep(w)
  BY DEF Write
<1>2. UNCHANGED <<ent, rd>>
  BY DEF Write, cacheVars
<1>3. TrackInv' /\ content' \in [MemBlocks -> Nat]
  BY <1>1, WriterOK, ContentStep DEF CacheInv
<1>4. WritersOK'
  BY <1>1, CpuSteps DEF CacheInv, WritersOK
<1>5. ASSUME NEW i \in Slots, ent[i].valid PROVE EntryOK(ent[i])'
  <2>1. EntryOK(ent[i])
    BY <1>5 DEF CacheInv
  <2>2. /\ ent[i].ver \in Nat /\ ent[i].ver <= ver'[ent[i].buf]
        /\ ent[i].ver = ver'[ent[i].buf] /\ ~InFlight(ent[i].buf)'
             => \A x \in DOMAIN ent[i].data : ent[i].data[x] = content'[x]
    BY <1>2, <2>1, MadeKept DEF EntryOK, InFlight
  <2> QED BY <1>2, <2>1, <2>2 DEF EntryOK, MadeFrom
<1>6. ASSUME NEW r \in Readers, CallOK(rd[r]) PROVE CallOK(rd[r])'
  <2>1. /\ rd[r].v0 \in Nat /\ rd[r].v0 <= ver'[rd[r].buf]
        /\ rd[r].v0 = ver'[rd[r].buf] /\ ~InFlight(rd[r].buf)'
             => \A x \in DOMAIN rd[r].copy : rd[r].copy[x] = content'[x]
    <3>1. rd[r].buf \in Bufs
      BY <1>6 DEF CallOK, CallType
    <3> QED BY <1>2, <1>6, <3>1, MadeKept DEF CallOK, InFlight
  <2> QED BY <1>2, <1>6, <2>1 DEF CallOK, MadeFrom
<1> QED BY <1>2, <1>3, <1>4, <1>5, <1>6 DEF CacheInv

-----------------------------------------------------------------------------
(***************************************************************************)
(* The readers.                                                            *)
(***************************************************************************)
\* A step that leaves memory and tracker alone, and entries and calls in order.
LEMMA CacheMoves ==
  ASSUME CacheInv, UNCHANGED <<trackVars, content>>,
         \A i \in Slots : ent'[i].valid => EntryOK(ent'[i]),
         DOMAIN rd' = Readers,
         \A r \in Readers : rd'[r].pc \in {"idle", "hit"} \/ CallOK(rd'[r])
  PROVE  CacheInv'
<1>1. TrackInv'
  <2>1. bits \subseteq Blocks /\ unflushed \subseteq MemBlocks /\ suspect \in BOOLEAN
    BY DEF CacheInv, TrackInv, TrackTypeOK
  <2> QED BY <2>1, OthersOK DEF CacheInv, trackVars
<1>2. wr' = wr /\ ver' = ver /\ content' = content
  BY DEF trackVars
<1>3. WritersOK' /\ content' \in [MemBlocks -> Nat]
  BY <1>2 DEF CacheInv, WritersOK
<1>4. ASSUME NEW i \in Slots, ent'[i].valid PROVE EntryOK(ent[i])'
  BY <1>2, <1>4 DEF EntryOK, MadeFrom, InFlight, Extent
<1>5. ASSUME NEW r \in Readers, CallOK(rd'[r]) PROVE CallOK(rd[r])'
  BY <1>2, <1>5 DEF CallOK, MadeFrom, InFlight, Extent
<1> QED BY <1>1, <1>3, <1>4, <1>5 DEF CacheInv

\* Reader r goes on to c and the entries stay.
LEMMA CallMoves ==
  ASSUME CacheInv, UNCHANGED <<trackVars, content, ent>>, NEW r \in Readers,
         NEW c, rd' = [rd EXCEPT ![r] = c], c.pc \in {"idle", "hit"} \/ CallOK(c)
  PROVE  CacheInv'
<1>1. DOMAIN rd' = Readers
  BY DEF CacheInv
<1>2. \A q \in Readers : rd'[q].pc \in {"idle", "hit"} \/ CallOK(rd'[q])
  <2> SUFFICES ASSUME NEW q \in Readers PROVE rd'[q].pc \in {"idle", "hit"} \/ CallOK(rd'[q])
    OBVIOUS
  <2>1. CASE q = r
    <3>1. rd'[q] = c
      BY <2>1 DEF CacheInv
    <3> QED BY <3>1
  <2>2. CASE q # r
    <3>1. rd'[q] = rd[q]
      BY <2>2 DEF CacheInv
    <3> QED BY <3>1 DEF CacheInv
  <2> QED BY <2>1, <2>2
<1>3. \A i \in Slots : ent'[i].valid => EntryOK(ent'[i])
  BY DEF CacheInv
<1> QED BY <1>1, <1>2, <1>3, CacheMoves

LEMMA CallKeeps ==
  ASSUME CacheInv, NEW r \in Readers, dc_get_or_convert(r)
  PROVE  CacheInv'
<1>1. PICK b \in Bufs, f \in Fmts :
        rd' = [rd EXCEPT ![r] = [pc |-> "version", buf |-> b, fmt |-> f,
                                 attempt |-> 1, v0 |-> 0, copy |-> <<>>]]
  BY DEF dc_get_or_convert
<1> DEFINE c == [pc |-> "version", buf |-> b, fmt |-> f, attempt |-> 1, v0 |-> 0, copy |-> <<>>]
<1>2. c \in CallType
  BY CopyFacts DEF CallType
<1>3. MadeFrom(b, 0, <<>>)
  BY CopyFacts, Sizes DEF MadeFrom, CacheInv, TrackInv, TrackTypeOK
<1>4. CallOK(c)
  BY <1>2, <1>3, CopyFacts DEF CallOK
<1>5. UNCHANGED <<trackVars, content, ent>>
  BY DEF dc_get_or_convert
<1> QED BY <1>1, <1>4, <1>5, CallMoves

LEMMA VersionKeeps ==
  ASSUME CacheInv, NEW r \in Readers, ReadVersion(r)
  PROVE  CacheInv'
<1> DEFINE c == [rd[r] EXCEPT !.pc = "lookup", !.v0 = ver[rd[r].buf]]
<1>1. rd[r].pc = "version" /\ CallOK(rd[r]) /\ UNCHANGED <<trackVars, content, ent>>
  BY DEF ReadVersion, CacheInv
<1>2. rd' = [rd EXCEPT ![r] = c]
  BY DEF ReadVersion, CacheInv
<1>3. ver[rd[r].buf] \in Nat /\ rd[r] \in CallType
  BY <1>1, Sizes DEF CacheInv, TrackInv, TrackTypeOK, CallOK, CallType
<1>4. c \in CallType /\ c.pc = "lookup" /\ c.buf = rd[r].buf /\ c.v0 = ver[rd[r].buf] /\ c.copy = rd[r].copy
  BY <1>3 DEF CallType
<1>5. CallOK(c)
  <2>1. DOMAIN rd[r].copy = {}
    BY <1>1 DEF CallOK
  <2>2. MadeFrom(rd[r].buf, ver[rd[r].buf], rd[r].copy)
    BY <1>3, <2>1 DEF MadeFrom
  <2> HIDE DEF c
  <2> QED BY <1>4, <2>1, <2>2 DEF CallOK
<1> QED BY <1>1, <1>2, <1>5, CallMoves

\* A call of which only the place and the attempt change.
LEMMA PlaceMoves ==
  ASSUME NEW c, CallOK(c), NEW p \in {"version", "lookup", "copy", "check", "publish"},
         p \in {"version", "lookup"} => c.pc = "lookup",
         p \in {"check", "publish"} => DOMAIN c.copy = BufBlocks[c.buf]
  PROVE  CallOK([c EXCEPT !.pc = p])
<1> DEFINE d == [c EXCEPT !.pc = p]
<1>1. c \in CallType
  BY DEF CallOK
<1>2. d \in CallType /\ d.pc = p /\ d.buf = c.buf /\ d.v0 = c.v0 /\ d.copy = c.copy
  BY <1>1 DEF CallType
<1> HIDE DEF d
<1>3. CallOK(d)
  BY <1>2 DEF CallOK
<1> QED BY <1>3 DEF d

LEMMA LookupKeeps ==
  ASSUME CacheInv, NEW r \in Readers, Lookup(r)
  PROVE  CacheInv'
<1>1. rd[r].pc = "lookup" /\ CallOK(rd[r]) /\ UNCHANGED <<trackVars, content, ent>>
  BY Zenon DEF Lookup, CacheInv
<1>2. \/ rd' = [rd EXCEPT ![r].pc = "copy"]
      \/ \E i : rd' = [rd EXCEPT ![r] = [pc |-> "hit", slot |-> i]]
      \/ rd' = [rd EXCEPT ![r] = NotCalling]
      \/ rd' = [rd EXCEPT ![r] = [rd[r] EXCEPT !.pc = "version", !.attempt = rd[r].attempt + 1, !.v0 = 0]]
  BY Zenon DEF Lookup
<1>3. CASE rd' = [rd EXCEPT ![r].pc = "copy"]
  <2>1. rd' = [rd EXCEPT ![r] = [rd[r] EXCEPT !.pc = "copy"]]
    BY <1>3 DEF CacheInv
  <2>2. CallOK([rd[r] EXCEPT !.pc = "copy"])
    BY <1>1, PlaceMoves
  <2> QED BY <1>1, <2>1, <2>2, CallMoves
<1>4. ASSUME NEW i, rd' = [rd EXCEPT ![r] = [pc |-> "hit", slot |-> i]] PROVE CacheInv'
  <2>1. [pc |-> "hit", slot |-> i].pc = "hit"
    OBVIOUS
  <2> QED BY <1>1, <1>4, <2>1, CallMoves
<1>5. CASE rd' = [rd EXCEPT ![r] = NotCalling]
  <2>1. NotCalling.pc = "idle"
    BY DEF NotCalling
  <2> QED BY <1>1, <1>5, <2>1, CallMoves
<1>6. CASE rd' = [rd EXCEPT ![r] = [rd[r] EXCEPT !.pc = "version", !.attempt = rd[r].attempt + 1, !.v0 = 0]]
  <2> DEFINE d == [rd[r] EXCEPT !.pc = "version", !.attempt = rd[r].attempt + 1, !.v0 = 0]
  <2>1. rd[r] \in CallType
    BY <1>1 DEF CallOK
  <2>2. rd[r].attempt + 1 \in Int
    BY <2>1 DEF CallType
  <2>3. d \in CallType /\ d.pc = "version" /\ d.buf = rd[r].buf /\ d.v0 = 0 /\ d.copy = rd[r].copy
    BY <2>1, <2>2 DEF CallType
  <2>4. DOMAIN rd[r].copy = {} /\ rd[r].buf \in Bufs
    BY <1>1, <2>1 DEF CallOK, CallType
  <2>5. MadeFrom(rd[r].buf, 0, rd[r].copy)
    BY <2>4, Sizes DEF MadeFrom, CacheInv, TrackInv, TrackTypeOK
  <2> HIDE DEF d
  <2>6. CallOK(d)
    BY <2>3, <2>4, <2>5 DEF CallOK
  <2> QED BY <1>1, <1>6, <2>6, CallMoves DEF d
<1> QED BY <1>2, <1>3, <1>4, <1>5, <1>6

LEMMA CopyKeeps ==
  ASSUME CacheInv, NEW r \in Readers, CopyBlock(r)
  PROVE  CacheInv'
<1> DEFINE c == rd[r]
           left == BufBlocks[c.buf] \ DOMAIN c.copy
           m == Min(left)
           copy == [x \in DOMAIN c.copy \cup {m} |-> IF x = m THEN content[x] ELSE c.copy[x]]
<1>1. c.pc = "copy" /\ CallOK(c) /\ c \in CallType /\ UNCHANGED <<trackVars, content, ent>>
  BY DEF CopyBlock, CacheInv, CallOK
<1>2. CASE ~Copied(c) /\ rd' = [rd EXCEPT ![r].copy = copy]
  <2>1. c.buf \in Bufs /\ c.copy \in Copies
    BY <1>1 DEF CallType
  <2>2. left \subseteq BufBlocks[c.buf] /\ left # {} /\ left \subseteq Nat
    BY <1>2, <2>1, BufFacts DEF Copied
  <2>3. m \in left
    <3> HIDE DEF left
    <3> QED BY <2>2, LeastElement
  <2>4. m \in BufBlocks[c.buf] /\ m \notin DOMAIN c.copy /\ m \in MemBlocks
    BY <2>1, <2>3, BufFacts
  <2> HIDE DEF m
  <2>5. copy \in [DOMAIN c.copy \cup {m} -> Nat] /\ DOMAIN c.copy \cup {m} \subseteq MemBlocks
    <3>1. \A x \in DOMAIN c.copy : c.copy[x] \in Nat /\ x \in MemBlocks
      BY <2>1, CopyFacts
    <3>2. content[m] \in Nat
      BY <2>4 DEF CacheInv
    <3> QED BY <3>1, <3>2, <2>4
  <2>6. copy \in Copies /\ DOMAIN copy = DOMAIN c.copy \cup {m}
    BY <2>5, CopyFacts
  <2>7. MadeFrom(c.buf, c.v0, copy)
    BY <1>1, <2>4 DEF CallOK, MadeFrom
  <2> DEFINE d == [rd[r] EXCEPT !.copy = copy]
  <2> HIDE DEF copy
  <2>8. d \in CallType /\ d.pc = "copy" /\ d.buf = c.buf /\ d.v0 = c.v0 /\ d.copy = copy
    BY <1>1, <2>6 DEF CallType
  <2>9. rd' = [rd EXCEPT ![r] = d]
    BY <1>2 DEF CacheInv
  <2>10. DOMAIN copy \subseteq BufBlocks[c.buf]
    BY <1>1, <2>4, <2>6 DEF CallOK
  <2> HIDE DEF d
  <2>11. CallOK(d)
    BY <2>7, <2>8, <2>10 DEF CallOK
  <2> QED BY <1>1, <2>9, <2>11, CallMoves
<1>3. CASE Copied(c) /\ rd' = [rd EXCEPT ![r].pc = "check"]
  <2>1. rd' = [rd EXCEPT ![r] = [c EXCEPT !.pc = "check"]]
    BY <1>3 DEF CacheInv
  <2>2. DOMAIN c.copy = BufBlocks[c.buf]
    BY <1>1, <1>3 DEF Copied, CallOK
  <2>3. CallOK([c EXCEPT !.pc = "check"])
    BY <1>1, <2>2, PlaceMoves
  <2> QED BY <1>1, <2>1, <2>3, CallMoves
<1>4. CASE rd' = [rd EXCEPT ![r] = NotCalling]
  <2>1. NotCalling.pc = "idle"
    BY DEF NotCalling
  <2> QED BY <1>1, <1>4, <2>1, CallMoves
<1> QED BY <1>2, <1>3, <1>4 DEF CopyBlock

LEMMA CheckKeeps ==
  ASSUME CacheInv, NEW r \in Readers, Recheck(r) \/ ConvertFails(r) \/ ReturnHit(r)
  PROVE  CacheInv'
<1>1. UNCHANGED <<trackVars, content, ent>>
  BY DEF Recheck, ConvertFails, ReturnHit
<1>2. CASE rd' = [rd EXCEPT ![r] = NotCalling]
  <2>1. NotCalling.pc = "idle"
    BY DEF NotCalling
  <2> QED BY <1>1, <1>2, <2>1, CallMoves
<1>3. CASE rd[r].pc = "check" /\ rd' = [rd EXCEPT ![r] = [rd[r] EXCEPT !.pc = "publish"]]
  <2>1. CallOK(rd[r])
    BY <1>3 DEF CacheInv
  <2>2. DOMAIN rd[r].copy = BufBlocks[rd[r].buf]
    BY <1>3, <2>1 DEF CallOK
  <2>3. CallOK([rd[r] EXCEPT !.pc = "publish"])
    BY <2>1, <2>2, PlaceMoves
  <2> QED BY <1>1, <1>3, <2>3, CallMoves
<1> QED BY <1>2, <1>3 DEF Recheck, ConvertFails, ReturnHit

\* An entry that is published holds the copy of the call, and the others are
\* dropped or left alone.
LEMMA PublishKeeps ==
  ASSUME CacheInv, NEW r \in Readers, Publish(r)
  PROVE  CacheInv'
<1> DEFINE c == rd[r]
           new == [valid |-> TRUE, buf |-> c.buf, ver |-> c.v0, fmt |-> c.fmt, data |-> c.copy]
<1>1. /\ c.pc = "publish" /\ CallOK(c) /\ UNCHANGED <<trackVars, content>>
      /\ rd' = [rd EXCEPT ![r] = NotCalling]
  BY Zenon DEF Publish, CacheInv
<1>2. \A i \in Slots : ent'[i] \in {new, Empty, ent[i]}
  <2> DEFINE size == Size[c.fmt]
             room(h) == MakeRoom(Valid \ h.drop, bytes_used - Bytes(h.drop), size)
             fits(h) == bytes_used - Bytes(h.drop) - Bytes(room(h)) + size <= MaxBytes
  <2>1. \E h \in ChosenSlot(c) :
          ent' = [i \in Slots |-> IF fits(h) /\ i = h.slot THEN new
                                  ELSE IF i \in h.drop \cup room(h) THEN Empty ELSE ent[i]]
    BY Zenon DEF Publish
  <2> QED BY <2>1
<1>3. EntryOK(new)
  <2>1. c \in CallType
    BY <1>1 DEF CallOK
  <2>2. new.buf = c.buf /\ new.data = c.copy /\ new.ver = c.v0 /\ c.buf \in Bufs /\ c.copy \in Copies
    BY <2>1 DEF CallType
  <2> QED BY <1>1, <2>2 DEF CallOK, EntryOK
<1>4. \A i \in Slots : ent'[i].valid => EntryOK(ent'[i])
  <2> SUFFICES ASSUME NEW i \in Slots, ent'[i].valid PROVE EntryOK(ent'[i])
    OBVIOUS
  <2>1. CASE ent'[i] = new
    BY <1>3, <2>1
  <2>2. CASE ent'[i] = Empty
    BY <2>2 DEF Empty
  <2>3. CASE ent'[i] = ent[i]
    BY <2>3 DEF CacheInv
  <2> QED BY <1>2, <2>1, <2>2, <2>3
<1>5. /\ DOMAIN rd' = Readers
      /\ \A q \in Readers : rd'[q].pc \in {"idle", "hit"} \/ CallOK(rd'[q])
  BY <1>1 DEF CacheInv, NotCalling
<1> QED BY <1>1, <1>4, <1>5, CacheMoves

LEMMA InvalidateKeeps ==
  ASSUME CacheInv, NEW b \in Bufs, dcache_invalidate(b)
  PROVE  CacheInv'
<1>1. UNCHANGED <<trackVars, content, rd>>
  BY Zenon DEF dcache_invalidate
<1>2. \A i \in Slots : ent'[i] \in {Empty, ent[i]}
  <2>1. \E D : ent' = [i \in Slots |-> IF i \in D THEN Empty ELSE ent[i]]
    BY Zenon DEF dcache_invalidate
  <2> QED BY <2>1
<1>3. \A i \in Slots : ent'[i].valid => EntryOK(ent'[i])
  BY <1>2 DEF CacheInv, Empty
<1>4. /\ DOMAIN rd' = Readers
      /\ \A q \in Readers : rd'[q].pc \in {"idle", "hit"} \/ CallOK(rd'[q])
  BY <1>1 DEF CacheInv
<1> QED BY <1>1, <1>3, <1>4, CacheMoves

-----------------------------------------------------------------------------
LEMMA CacheInit == Init => CacheInv
<1> SUFFICES ASSUME Init PROVE CacheInv
  OBVIOUS
<1>1. TrackInv
  BY TrackInitOK DEF Init
<1>2. WritersOK
  BY DEF Init, TrackInit, WritersOK, Idle
<1>3. content \in [MemBlocks -> Nat]
  BY DEF Init
<1>4. \A i \in Slots : ~ent[i].valid
  BY DEF Init, Empty
<1>5. DOMAIN rd = Readers /\ \A r \in Readers : rd[r].pc = "idle"
  BY DEF Init, NotCalling
<1> QED BY <1>1, <1>2, <1>3, <1>4, <1>5 DEF CacheInv

LEMMA CacheStep ==
  ASSUME CpuWrites, CacheInv, [Next]_vars
  PROVE  CacheInv'
<1>1. CASE UNCHANGED vars
  <2>1. UNCHANGED <<trackVars, content, ent, rd>>
    BY <1>1 DEF vars, cacheVars
  <2>2. /\ \A i \in Slots : ent'[i].valid => EntryOK(ent'[i])
        /\ DOMAIN rd' = Readers
        /\ \A r \in Readers : rd'[r].pc \in {"idle", "hit"} \/ CallOK(rd'[r])
    BY <2>1 DEF CacheInv
  <2> QED BY <2>1, <2>2, CacheMoves
<1>2. ASSUME NEW w \in Writers, Write(w) PROVE CacheInv'
  BY <1>2, WriteKeeps
<1>3. ASSUME NEW r \in Readers, Read(r) PROVE CacheInv'
  BY <1>3, CallKeeps, VersionKeeps, LookupKeeps, CopyKeeps, CheckKeeps, PublishKeeps DEF Read
<1>4. ASSUME NEW b \in Bufs, dcache_invalidate(b) PROVE CacheInv'
  BY <1>4, InvalidateKeeps
<1> QED BY <1>1, <1>2, <1>3, <1>4 DEF Next

\* Every reachable state satisfies CacheInv when all writers are CPU writers.
THEOREM Invariance == CpuWrites => (Spec => []CacheInv)
<1> SUFFICES ASSUME CpuWrites PROVE Spec => []CacheInv
  OBVIOUS
<1> QED BY CacheInit, CacheStep, PTL DEF Spec

\* Nobody is writing the buffer: what was made from its current version is what
\* the buffer holds.
LEMMA MadeIsCurrent ==
  ASSUME CacheInv, NEW b \in Bufs, NEW data \in Copies, DOMAIN data = BufBlocks[b],
         MadeFrom(b, ver[b], data), ~Writing(b)
  PROVE  data = Source(b)
<1>1. ~InFlight(b)
  BY DEF Writing, InFlight
<1>2. \A x \in BufBlocks[b] : data[x] = content[x]
  BY <1>1 DEF MadeFrom
<1>3. data = [x \in BufBlocks[b] |-> data[x]]
  BY CopyFacts
<1> QED BY <1>2, <1>3 DEF Source

LEMMA EntryIsCurrent ==
  ASSUME CacheInv, NEW i \in Slots, ent[i].valid, ent[i].ver = ver[ent[i].buf], ~Writing(ent[i].buf)
  PROVE  ent[i].data = Source(ent[i].buf)
<1>1. EntryOK(ent[i])
  BY DEF CacheInv
<1> QED BY <1>1, MadeIsCurrent DEF EntryOK

\* An entry of the current version of a buffer that nobody is writing was made
\* from the buffer's current bytes, for any number of concurrent calls of
\* dc_get_or_convert and of CPU writers.
THEOREM EntriesCoherent == CpuWrites => (Spec => []Coherent)
<1> SUFFICES ASSUME CpuWrites PROVE Spec => []Coherent
  OBVIOUS
<1>1. CacheInv => Coherent
  BY EntryIsCurrent DEF Coherent, Corpse, Valid
<1> QED BY <1>1, Invariance, PTL

\* The step that decides what a call returns.
LEMMA ReturnStep ==
  ASSUME CacheInv, [Next]_vars, NEW r \in Readers, rd[r].pc \in {"lookup", "check"}, ~Writing(rd[r].buf)
  PROVE  /\ rd'[r].pc = "publish" => rd[r].copy = Source(rd[r].buf)
         /\ rd'[r].pc = "hit" => ent[rd'[r].slot].data = Source(rd[r].buf)
<1>1. CallOK(rd[r]) /\ DOMAIN rd = Readers
  BY DEF CacheInv
<1>2. rd[r] \in CallType /\ rd[r].buf \in Bufs /\ rd[r].copy \in Copies
  BY <1>1 DEF CallOK, CallType
<1>3. CASE Recheck(r)
  <2>1. CASE Unchanged(rd[r])
    <3>1. rd[r].pc = "check" /\ rd' = [rd EXCEPT ![r] = [rd[r] EXCEPT !.pc = "publish"]]
      BY <1>3, <2>1 DEF Recheck
    <3>2. rd'[r].pc = "publish"
      BY <1>1, <1>2, <3>1 DEF CallType
    <3>3. rd[r].copy = Source(rd[r].buf)
      BY <1>1, <1>2, <2>1, <3>1, MadeIsCurrent DEF Unchanged, CallOK
    <3> QED BY <3>2, <3>3
  <2>2. CASE ~Unchanged(rd[r])
    BY <1>1, <1>3, <2>2 DEF Recheck, NotCalling
  <2> QED BY <2>1, <2>2
<1>4. CASE Lookup(r)
  <2> DEFINE hit == {i \in Slots : Matches(i, rd[r])}
  <2>1. \/ rd' = [rd EXCEPT ![r].pc = "copy"]
        \/ hit # {} /\ ver[rd[r].buf] = rd[r].v0 /\ rd' = [rd EXCEPT ![r] = [pc |-> "hit", slot |-> Min(hit)]]
        \/ rd' = [rd EXCEPT ![r] = NotCalling]
        \/ rd' = [rd EXCEPT ![r] = [rd[r] EXCEPT !.pc = "version", !.attempt = rd[r].attempt + 1, !.v0 = 0]]
    BY <1>4, Zenon DEF Lookup
  <2>2. CASE rd' = [rd EXCEPT ![r].pc = "copy"]
    BY <1>1, <1>2, <2>2 DEF CallType
  <2>3. CASE hit # {} /\ ver[rd[r].buf] = rd[r].v0 /\ rd' = [rd EXCEPT ![r] = [pc |-> "hit", slot |-> Min(hit)]]
    <3>1. rd'[r].pc = "hit" /\ rd'[r].slot = Min(hit)
      BY <1>1, <2>3
    <3>2. Min(hit) \in hit
      <4>1. hit \subseteq Nat
        BY CacheAssumption DEF Slots
      <4> HIDE DEF hit
      <4> QED BY <2>3, <4>1, LeastElement
    <3>3. /\ Min(hit) \in Slots /\ ent[Min(hit)].valid /\ ent[Min(hit)].buf = rd[r].buf
          /\ ent[Min(hit)].ver = ver[rd[r].buf]
      BY <2>3, <3>2 DEF Matches
    <3> HIDE DEF hit
    <3>4. ent[Min(hit)].data = Source(rd[r].buf)
      BY <3>3, EntryIsCurrent
    <3> QED BY <3>1, <3>4
  <2>4. CASE rd' = [rd EXCEPT ![r] = NotCalling]
    BY <1>1, <2>4 DEF NotCalling
  <2>5. CASE rd' = [rd EXCEPT ![r] = [rd[r] EXCEPT !.pc = "version", !.attempt = rd[r].attempt + 1, !.v0 = 0]]
    BY <1>1, <1>2, <2>5 DEF CallType
  <2> QED BY <2>1, <2>2, <2>3, <2>4, <2>5
<1>5. CASE ConvertFails(r)
  BY <1>1, <1>5 DEF ConvertFails, NotCalling
<1>6. CASE rd'[r] = rd[r]
  BY <1>6
<1>7. ASSUME NEW q \in Readers, q # r, Read(q) PROVE rd'[r] = rd[r]
  <2>1. CASE dc_get_or_convert(q) \/ ReadVersion(q) \/ ReturnHit(q) \/ Recheck(q) \/ ConvertFails(q)
    BY <1>1, <1>7, <2>1 DEF dc_get_or_convert, ReadVersion, ReturnHit, Recheck, ConvertFails
  <2>2. CASE Lookup(q)
    <3>1. \/ rd' = [rd EXCEPT ![q].pc = "copy"]
          \/ \E d : rd' = [rd EXCEPT ![q] = d]
      BY <2>2, Zenon DEF Lookup
    <3> QED BY <1>1, <1>7, <3>1
  <2>3. CASE CopyBlock(q)
    BY <1>1, <1>7, <2>3 DEF CopyBlock
  <2>4. CASE Publish(q)
    <3>1. rd' = [rd EXCEPT ![q] = NotCalling]
      BY <2>4, Zenon DEF Publish
    <3> QED BY <1>1, <1>7, <3>1
  <2> QED BY <1>7, <2>1, <2>2, <2>3, <2>4 DEF Read
<1>8. CASE Read(r)
  <2>1. Lookup(r) \/ Recheck(r) \/ ConvertFails(r)
    <3>1. ~Publish(r)
      BY Zenon DEF Publish
    <3> QED BY <1>8, <3>1 DEF Read, dc_get_or_convert, ReadVersion, ReturnHit, CopyBlock
  <2> QED BY <1>3, <1>4, <1>5, <2>1
<1>9. ASSUME NEW b \in Bufs, dcache_invalidate(b) PROVE rd' = rd
  BY <1>9, Zenon DEF dcache_invalidate
<1>10. ASSUME NEW w \in Writers, Write(w) PROVE rd' = rd
  BY <1>10 DEF Write, cacheVars
<1>11. CASE UNCHANGED vars
  BY <1>6, <1>11 DEF vars, cacheVars
<1> QED BY <1>6, <1>7, <1>8, <1>9, <1>10, <1>11 DEF Next

\* What dc_get_or_convert returns is made from the current bytes of the buffer: a
\* hit, by the version compared under the lock; a converted copy, by the version
\* compared after the conversion, however often writers have torn it.
THEOREM CallsReturnCurrent == CpuWrites => (Spec => ReturnsCurrent)
<1> SUFFICES ASSUME CpuWrites PROVE Spec => ReturnsCurrent
  OBVIOUS
<1>1. CacheInv /\ [Next]_vars =>
        [\A r \in Readers :
           rd[r].pc \in {"lookup", "check"} /\ ~Writing(rd[r].buf) =>
             /\ rd'[r].pc = "publish" => rd[r].copy = Source(rd[r].buf)
             /\ rd'[r].pc = "hit" => ent[rd'[r].slot].data = Source(rd[r].buf)]_vars
  BY ReturnStep
<1> QED BY <1>1, Invariance, PTL DEF Spec, ReturnsCurrent

-----------------------------------------------------------------------------
(***************************************************************************)
(* The books of the cache.  Nothing below takes CpuWrites.                 *)
(***************************************************************************)
\* What the slots of I take up when each takes w[i].
Cells(w, I) == UNION {{i} \X (1 .. w[i]) : i \in I}
Weigh(w, I) == Cardinality(Cells(w, I))

LEMMA CellsFinite ==
  ASSUME NEW w \in [Slots -> Nat], NEW I \in SUBSET Slots
  PROVE  IsFiniteSet(Cells(w, I)) /\ Weigh(w, I) \in Nat
<1>1. IsFiniteSet(Slots)
  BY CacheAssumption, FS_Interval DEF Slots
<1>2. IsFiniteSet(I)
  BY <1>1, FS_Subset
<1> DEFINE P == {{i} \X (1 .. w[i]) : i \in I}
           f == [i \in I |-> {i} \X (1 .. w[i])]
<1>3. f \in Surjection(I, P)
  BY DEF Surjection
<1>4. IsFiniteSet(P)
  <2> HIDE DEF f, P
  <2> QED BY <1>2, <1>3, FS_Surjection
<1>5. ASSUME NEW i \in I PROVE IsFiniteSet({i} \X (1 .. w[i]))
  <2>1. w[i] \in Int
    OBVIOUS
  <2>2. IsFiniteSet({i})
    BY FS_Singleton
  <2>3. IsFiniteSet(1 .. w[i])
    BY <2>1, FS_Interval
  <2> QED BY <2>2, <2>3, FS_Product
<1>6. \A T \in P : IsFiniteSet(T)
  BY <1>5
<1>7. IsFiniteSet(UNION P)
  <2> HIDE DEF P
  <2> QED BY <1>4, <1>6, FS_UNION
<1>8. IsFiniteSet(Cells(w, I))
  BY <1>7 DEF Cells
<1> QED BY <1>8, FS_CardinalityType DEF Weigh

\* Disjoint slots add up.
LEMMA WeighUnion ==
  ASSUME NEW w \in [Slots -> Nat], NEW I \in SUBSET Slots, NEW J \in SUBSET Slots, I \cap J = {}
  PROVE  Weigh(w, I \cup J) = Weigh(w, I) + Weigh(w, J)
<1>1. Cells(w, I \cup J) = Cells(w, I) \cup Cells(w, J)
  BY DEF Cells
<1>2. Cells(w, I) \cap Cells(w, J) = {}
  <2> SUFFICES ASSUME NEW p, p \in Cells(w, I), p \in Cells(w, J) PROVE FALSE
    OBVIOUS
  <2>1. PICK i \in I : p \in {i} \X (1 .. w[i])
    BY DEF Cells
  <2>2. PICK j \in J : p \in {j} \X (1 .. w[j])
    BY DEF Cells
  <2>3. p[1] = i /\ p[1] = j
    BY <2>1, <2>2
  <2> QED BY <2>3
<1>3. /\ IsFiniteSet(Cells(w, I)) /\ Weigh(w, I) \in Nat
      /\ IsFiniteSet(Cells(w, J)) /\ Weigh(w, J) \in Nat
  BY CellsFinite
<1>4. Cardinality(Cells(w, I) \cup Cells(w, J)) = Cardinality(Cells(w, I)) + Cardinality(Cells(w, J)) - Cardinality({})
  BY <1>2, <1>3, FS_Union
<1>5. Weigh(w, I \cup J) = Weigh(w, I) + Weigh(w, J) - 0
  BY <1>1, <1>4, FS_EmptySet DEF Weigh
<1> QED BY <1>3, <1>5

LEMMA WeighOne ==
  ASSUME NEW w \in [Slots -> Nat], NEW i \in Slots
  PROVE  Weigh(w, {i}) = w[i]
<1>1. Cells(w, {i}) = {i} \X (1 .. w[i])
  BY DEF Cells
<1>2. w[i] \in Nat
  OBVIOUS
<1>3. PICK n \in Nat : n = w[i]
  BY <1>2
<1>4. IsFiniteSet({i}) /\ Cardinality({i}) = 1
  BY FS_Singleton
<1>5. IsFiniteSet(1 .. n) /\ Cardinality(1 .. n) = n
  BY FS_Interval
<1>6. Cardinality({i} \X (1 .. n)) = Cardinality({i}) * Cardinality(1 .. n)
  <2> DEFINE S == {i}
             T == 1 .. n
  <2>1. IsFiniteSet(S) /\ IsFiniteSet(T)
    BY <1>4, <1>5
  <2> HIDE DEF S, T
  <2>2. Cardinality(S \X T) = Cardinality(S) * Cardinality(T)
    BY <2>1, FS_Product
  <2> QED BY <2>2 DEF S, T
<1>7. Weigh(w, {i}) = Cardinality({i}) * Cardinality(1 .. n)
  BY <1>1, <1>3, <1>6 DEF Weigh
<1>8. Weigh(w, {i}) = 1 * n
  BY <1>4, <1>5, <1>7
<1> QED BY <1>3, <1>8

\* What is left when some go, and fewer weigh less.
LEMMA WeighPart ==
  ASSUME NEW w \in [Slots -> Nat], NEW I \in SUBSET Slots, NEW J \in SUBSET I
  PROVE  Weigh(w, I \ J) = Weigh(w, I) - Weigh(w, J) /\ Weigh(w, J) <= Weigh(w, I)
<1>1. (I \ J) \cup J = I /\ (I \ J) \cap J = {} /\ I \ J \in SUBSET Slots /\ J \in SUBSET Slots
  OBVIOUS
<1>2. Weigh(w, I) = Weigh(w, I \ J) + Weigh(w, J)
  BY <1>1, WeighUnion
<1>3. Weigh(w, I) \in Nat /\ Weigh(w, J) \in Nat /\ Weigh(w, I \ J) \in Nat
  BY <1>1, CellsFinite
<1> QED BY <1>2, <1>3

\* Only the slots of I matter.
LEMMA WeighSame ==
  ASSUME NEW w, NEW v, NEW I, \A i \in I : w[i] = v[i]
  PROVE  Weigh(w, I) = Weigh(v, I)
<1>1. Cells(w, I) = Cells(v, I)
  BY DEF Cells
<1> QED BY <1>1 DEF Weigh

-----------------------------------------------------------------------------
\* R puts the elements of V in a row.
IsOrder(R, V) ==
  /\ R \subseteq V \X V
  /\ \A i, j \in V : i # j => (<<i, j>> \in R <=> <<j, i>> \notin R)
  /\ \A i, j, k \in V : <<i, j>> \in R /\ <<j, k>> \in R => <<i, k>> \in R /\ i # k

LEMMA OrderForget ==
  ASSUME NEW R, NEW V, IsOrder(R, V), NEW D
  PROVE  IsOrder({p \in R : p[1] \notin D /\ p[2] \notin D}, V \ D)
<1> DEFINE Q == {p \in R : p[1] \notin D /\ p[2] \notin D}
<1>1. \A i, j \in V \ D : <<i, j>> \in Q <=> <<i, j>> \in R
  OBVIOUS
<1>2. Q \subseteq (V \ D) \X (V \ D)
  BY DEF IsOrder
<1> HIDE DEF Q
<1>3. IsOrder(Q, V \ D)
  BY <1>1, <1>2 DEF IsOrder
<1> QED BY <1>3 DEF Q

LEMMA OrderAppend ==
  ASSUME NEW R, NEW V, IsOrder(R, V), NEW s, s \notin V
  PROVE  IsOrder(R \cup (V \X {s}), V \cup {s})
<1> DEFINE Q == R \cup (V \X {s})
           W == V \cup {s}
<1>1. \A i, j \in W : <<i, j>> \in Q <=> (i \in V /\ j \in V /\ <<i, j>> \in R) \/ (i \in V /\ j = s)
  BY DEF IsOrder
<1>2. Q \subseteq W \X W
  BY DEF IsOrder
<1> HIDE DEF Q
<1>3. \A i, j \in W : i # j => (<<i, j>> \in Q <=> <<j, i>> \notin Q)
  BY <1>1 DEF IsOrder
<1>4. \A i, j, k \in W : <<i, j>> \in Q /\ <<j, k>> \in Q => <<i, k>> \in Q /\ i # k
  BY <1>1 DEF IsOrder
<1>5. IsOrder(Q, W)
  BY <1>2, <1>3, <1>4 DEF IsOrder
<1> QED BY <1>5 DEF Q

-----------------------------------------------------------------------------
\* A write stores once: a DMA write behind its hook, any other before it.
KindOK(c) == /\ c.pc = "data" => c.kind # "dma"
             /\ c.pc \in {"token", "found", "landing", "complete"} => c.kind = "dma"
WillStore(c) == \/ c.pc = "data"
                \/ c.kind = "dma" /\ c.pc \in {"mark", "bump", "token", "found", "landing"}
ToStore == {w \in Writers : WillStore(wr[w])}

StoresBounded ==
  /\ \A w \in Writers : KindOK(wr[w])
  /\ content \in [MemBlocks -> Nat]
  /\ \A x \in MemBlocks : content[x] + Cardinality(ToStore) <= nwrites

LEMMA WriterPath ==
  ASSUME TrackInv, \A q \in Writers : KindOK(wr[q]), NEW w \in Writers, BeginWrite(w) \/ WriterStep(w)
  PROVE  /\ \A q \in Writers \ {w} : wr'[q] = wr[q]
         /\ KindOK(wr'[w])
         /\ \/ nwrites' = nwrites + 1 /\ ~Stores(w)
            \/ nwrites' = nwrites /\ (WillStore(wr'[w]) => WillStore(wr[w]))
         /\ Stores(w) => WillStore(wr[w]) /\ ~WillStore(wr'[w])
<1>1. wr[w] \in WrType /\ wr \in [Writers -> WrType] /\ KindOK(wr[w]) /\ HooksOnly
  BY DEF TrackInv, TrackTypeOK, WrType
<1>2. CASE BeginWrite(w)
  BY <1>1, <1>2 DEF BeginWrite, KindOK, Stores
<1>3. CASE WriteData(w)
  BY <1>1, <1>3 DEF WriteData, KindOK, WillStore, Stores, WrType
<1>4. CASE MarkBits(w) \/ bt_merge(w)
  <2> DEFINE after == IF wr[w].kind = "ext" THEN Idle ELSE [wr[w] EXCEPT !.pc = "bump"]
  <2>1. wr[w].pc = "mark" /\ OrBits(w, after) /\ nwrites' = nwrites
    BY <1>4 DEF MarkBits, bt_merge
  <2>2. after \in WrType
    BY <1>1, Sizes DEF WrType, Idle
  <2>3. \/ wr' = [wr EXCEPT ![w] = after]
        \/ wr' = [wr EXCEPT ![w] = [wr[w] EXCEPT !.word = wr[w].word + 1]]
    BY <2>1, <2>2, OrBitsFacts DEF TrackInv
  <2> QED BY <1>1, <2>1, <2>3 DEF WrType, Idle, KindOK, WillStore, Stores
<1>5. CASE Bump(w)
  <2>1. wr[w].pc = "bump" /\ wr[w].kind # "ext" /\ nwrites' = nwrites
    BY <1>1, <1>5 DEF Bump, HooksOnly
  <2>2. wr' = [wr EXCEPT ![w] = IF wr[w].kind = "cpu" THEN Idle ELSE [wr[w] EXCEPT !.pc = "token"]]
    BY <1>5 DEF Bump
  <2> QED BY <1>1, <2>1, <2>2 DEF WrType, Idle, KindOK, WillStore, Stores
<1>6. CASE FindToken(w)
  <2>1. wr[w].pc = "token" /\ wr[w].kind = "dma" /\ nwrites' = nwrites
    BY <1>1, <1>6 DEF FindToken, KindOK
  <2>2. \/ wr' = [wr EXCEPT ![w] = Idle]
        \/ \E p \in {"landing", "found"} : \E t : wr' = [wr EXCEPT ![w].pc = p, ![w].token = t]
    BY <1>6 DEF FindToken
  <2> QED BY <1>1, <2>1, <2>2 DEF WrType, Idle, KindOK, WillStore, Stores
<1>7. CASE OpenToken(w)
  BY <1>1, <1>7 DEF OpenToken, KindOK, WillStore, Stores, WrType
<1>8. CASE Land(w)
  BY <1>1, <1>8 DEF Land, KindOK, WillStore, Stores, WrType
<1>9. CASE bt_dma_complete(w)
  BY <1>1, <1>9 DEF bt_dma_complete, KindOK, WillStore, Stores, WrType, Idle
<1> QED BY <1>2, <1>3, <1>4, <1>5, <1>6, <1>7, <1>8, <1>9 DEF WriterStep

LEMMA ToStoreFinite ==
  /\ IsFiniteSet(ToStore) /\ Cardinality(ToStore) \in Nat
  /\ IsFiniteSet(ToStore') /\ Cardinality(ToStore') \in Nat
<1>1. ToStore \subseteq Writers /\ ToStore' \subseteq Writers
  BY DEF ToStore
<1> QED BY <1>1, TrackAssumption, FS_Subset, FS_CardinalityType

\* No block changes more often than there are writes.
LEMMA StoresStep ==
  ASSUME TrackInv, StoresBounded, NEW w \in Writers, Write(w)
  PROVE  StoresBounded'
<1>1. /\ \A q \in Writers \ {w} : wr'[q] = wr[q]
      /\ KindOK(wr'[w])
      /\ \/ nwrites' = nwrites + 1 /\ ~Stores(w)
         \/ nwrites' = nwrites /\ (WillStore(wr'[w]) => WillStore(wr[w]))
      /\ Stores(w) => WillStore(wr[w]) /\ ~WillStore(wr'[w])
  BY WriterPath DEF Write, StoresBounded
<1>2. \A q \in Writers : KindOK(wr'[q])
  BY <1>1 DEF StoresBounded
<1>3. content \in [MemBlocks -> Nat] /\ nwrites \in Nat
      /\ (\A x \in MemBlocks : content[x] + Cardinality(ToStore) <= nwrites)
  BY Sizes DEF StoresBounded, TrackInv, TrackTypeOK
<1>4. CASE Stores(w)
  <2>1. content' = [b \in MemBlocks |-> IF b \in Extent(w) THEN content[b] + 1 ELSE content[b]]
    BY <1>4 DEF Write
  <2>2. ToStore' \subseteq ToStore \ {w} /\ w \in ToStore /\ nwrites' = nwrites
    BY <1>1, <1>4 DEF ToStore
  <2>3. IsFiniteSet(ToStore \ {w}) /\ Cardinality(ToStore \ {w}) = Cardinality(ToStore) - 1
    BY <2>2, ToStoreFinite, FS_RemoveElement
  <2>4. Cardinality(ToStore') <= Cardinality(ToStore) - 1
    BY <2>2, <2>3, FS_Subset
  <2>5. ASSUME NEW x \in MemBlocks PROVE content'[x] \in Nat /\ content'[x] + Cardinality(ToStore') <= nwrites'
    <3>1. content'[x] \in {content[x], content[x] + 1} /\ content[x] \in Nat
          /\ content[x] + Cardinality(ToStore) <= nwrites
      BY <1>3, <2>1
    <3> QED BY <1>3, <2>2, <2>4, <3>1, ToStoreFinite
  <2>6. content' \in [MemBlocks -> Nat]
    BY <2>1, <2>5
  <2> QED BY <1>2, <2>5, <2>6 DEF StoresBounded
<1>5. CASE ~Stores(w)
  <2>1. content' = content
    BY <1>5 DEF Write
  <2>2. Cardinality(ToStore') - nwrites' <= Cardinality(ToStore) - nwrites
    <3>1. CASE nwrites' = nwrites + 1
      <4>1. ToStore' \subseteq ToStore \cup {w}
        BY <1>1 DEF ToStore
      <4>2. /\ IsFiniteSet(ToStore \cup {w})
            /\ Cardinality(ToStore \cup {w}) = IF w \in ToStore THEN Cardinality(ToStore) ELSE Cardinality(ToStore) + 1
        BY ToStoreFinite, FS_AddElement
      <4>3. Cardinality(ToStore') <= Cardinality(ToStore \cup {w})
        BY <4>1, <4>2, FS_Subset
      <4>4. Cardinality(ToStore') <= Cardinality(ToStore) + 1
        BY <4>2, <4>3, ToStoreFinite
      <4> QED BY <1>3, <3>1, <4>4, ToStoreFinite
    <3>2. CASE nwrites' = nwrites /\ (WillStore(wr'[w]) => WillStore(wr[w]))
      <4>1. ToStore' \subseteq ToStore
        BY <1>1, <3>2 DEF ToStore
      <4>2. Cardinality(ToStore') <= Cardinality(ToStore)
        BY <4>1, ToStoreFinite, FS_Subset
      <4> QED BY <1>3, <3>2, <4>2, ToStoreFinite
    <3> QED BY <1>1, <3>1, <3>2
  <2>3. nwrites' \in Nat
    BY <1>1, <1>3
  <2>4. \A x \in MemBlocks : content[x] + Cardinality(ToStore') <= nwrites'
    <3> SUFFICES ASSUME NEW x \in MemBlocks PROVE content[x] + Cardinality(ToStore') <= nwrites'
      OBVIOUS
    <3>1. content[x] \in Nat /\ content[x] + Cardinality(ToStore) <= nwrites
      BY <1>3
    <3> QED BY <1>3, <2>2, <2>3, <3>1, ToStoreFinite
  <2> QED BY <1>2, <1>3, <2>1, <2>4 DEF StoresBounded
<1> QED BY <1>4, <1>5

-----------------------------------------------------------------------------
\* Entries and calls hold nothing newer than the last write.
EntryTyped(e) ==
  \/ e = Empty
  \/ /\ e.valid /\ e.buf \in Bufs /\ e.fmt \in Fmts /\ e.ver \in 0 .. MaxWrites
     /\ e.data \in [BufBlocks[e.buf] -> 0 .. MaxWrites]

CallTyped(c) ==
  /\ c \in CallType /\ c.v0 <= MaxWrites
  /\ DOMAIN c.copy \subseteq BufBlocks[c.buf]
  /\ \A x \in DOMAIN c.copy : c.copy[x] <= MaxWrites
  /\ c.pc \in {"check", "publish"} => DOMAIN c.copy = BufBlocks[c.buf]

DataOK ==
  /\ TrackInv /\ StoresBounded
  /\ \A i \in Slots : EntryTyped(ent[i])
  /\ DOMAIN rd = Readers
  /\ \A r \in Readers : rd[r].pc \in {"idle", "hit"} \/ CallTyped(rd[r])

\* The valid entries in the order of their use, and what they take up.
BooksOK ==
  /\ IsOrder(older, Valid)
  /\ bytes_used = Bytes(Valid) /\ bytes_used <= MaxBytes
  /\ replacement \in Replacements

BooksInv == DataOK /\ BooksOK

LEMMA ContentBound ==
  ASSUME TrackInv, StoresBounded, NEW x \in MemBlocks
  PROVE  content[x] \in Nat /\ content[x] <= MaxWrites
<1>1. content[x] \in Nat /\ content[x] + Cardinality(ToStore) <= nwrites
  BY DEF StoresBounded
<1>2. nwrites \in Nat /\ nwrites <= MaxWrites
  BY Sizes DEF TrackInv, TrackTypeOK
<1> QED BY <1>1, <1>2, Sizes, ToStoreFinite

\* A step that leaves memory and tracker alone.
LEMMA DataMoves ==
  ASSUME DataOK, UNCHANGED <<trackVars, content>>,
         \A i \in Slots : EntryTyped(ent'[i]),
         DOMAIN rd' = Readers,
         \A r \in Readers : rd'[r].pc \in {"idle", "hit"} \/ CallTyped(rd'[r])
  PROVE  DataOK'
<1>1. TrackInv'
  <2>1. bits \subseteq Blocks /\ unflushed \subseteq MemBlocks /\ suspect \in BOOLEAN
    BY DEF DataOK, TrackInv, TrackTypeOK
  <2> QED BY <2>1, OthersOK DEF DataOK, trackVars
<1>2. StoresBounded'
  <2>1. wr' = wr /\ nwrites' = nwrites /\ content' = content
    BY DEF trackVars
  <2> QED BY <2>1 DEF DataOK, StoresBounded, ToStore
<1> QED BY <1>1, <1>2 DEF DataOK, EntryTyped, CallTyped

LEMMA CallGoesOn ==
  ASSUME DataOK, UNCHANGED <<trackVars, content, ent>>, NEW r \in Readers,
         NEW c, rd' = [rd EXCEPT ![r] = c], c.pc \in {"idle", "hit"} \/ CallTyped(c)
  PROVE  DataOK'
<1>1. DOMAIN rd' = Readers
  BY DEF DataOK
<1>2. ASSUME NEW q \in Readers PROVE rd'[q].pc \in {"idle", "hit"} \/ CallTyped(rd'[q])
  <2>1. CASE q = r
    <3>1. rd'[q] = c
      BY <2>1 DEF DataOK
    <3> QED BY <3>1
  <2>2. CASE q # r
    <3>1. rd'[q] = rd[q]
      BY <2>2 DEF DataOK
    <3> QED BY <3>1 DEF DataOK
  <2> QED BY <2>1, <2>2
<1>3. \A i \in Slots : EntryTyped(ent'[i])
  BY DEF DataOK
<1> QED BY <1>1, <1>2, <1>3, DataMoves

LEMMA PlaceTyped ==
  ASSUME NEW c, CallTyped(c), NEW p \in {"version", "lookup", "copy", "check", "publish"},
         p \in {"check", "publish"} => DOMAIN c.copy = BufBlocks[c.buf]
  PROVE  CallTyped([c EXCEPT !.pc = p])
<1> DEFINE d == [c EXCEPT !.pc = p]
<1>1. c \in CallType
  BY DEF CallTyped
<1>2. d \in CallType /\ d.pc = p /\ d.buf = c.buf /\ d.v0 = c.v0 /\ d.copy = c.copy
  BY <1>1 DEF CallType
<1> HIDE DEF d
<1>3. CallTyped(d)
  BY <1>2 DEF CallTyped
<1> QED BY <1>3 DEF d

LEMMA CallData ==
  ASSUME DataOK, NEW r \in Readers, dc_get_or_convert(r)
  PROVE  DataOK'
<1>1. PICK b \in Bufs, f \in Fmts :
        rd' = [rd EXCEPT ![r] = [pc |-> "version", buf |-> b, fmt |-> f,
                                 attempt |-> 1, v0 |-> 0, copy |-> <<>>]]
  BY DEF dc_get_or_convert
<1> DEFINE c == [pc |-> "version", buf |-> b, fmt |-> f, attempt |-> 1, v0 |-> 0, copy |-> <<>>]
<1>2. c \in CallType
  BY CopyFacts DEF CallType
<1>3. CallTyped(c)
  BY <1>2, CopyFacts, Sizes DEF CallTyped
<1>4. UNCHANGED <<trackVars, content, ent>>
  BY DEF dc_get_or_convert
<1> QED BY <1>1, <1>3, <1>4, CallGoesOn

LEMMA VersionData ==
  ASSUME DataOK, NEW r \in Readers, ReadVersion(r)
  PROVE  DataOK'
<1> DEFINE c == [rd[r] EXCEPT !.pc = "lookup", !.v0 = ver[rd[r].buf]]
<1>1. rd[r].pc = "version" /\ CallTyped(rd[r]) /\ UNCHANGED <<trackVars, content, ent>>
  BY DEF ReadVersion, DataOK
<1>2. rd' = [rd EXCEPT ![r] = c]
  BY DEF ReadVersion, DataOK
<1>3. ver[rd[r].buf] \in 0 .. MaxWrites /\ ver[rd[r].buf] \in Nat /\ rd[r] \in CallType
  BY <1>1, Sizes DEF DataOK, TrackInv, TrackTypeOK, CallTyped, CallType
<1>4. c \in CallType /\ c.pc = "lookup" /\ c.buf = rd[r].buf /\ c.v0 = ver[rd[r].buf] /\ c.copy = rd[r].copy
  BY <1>3 DEF CallType
<1> HIDE DEF c
<1>5. CallTyped(c)
  BY <1>1, <1>3, <1>4, Sizes DEF CallTyped
<1> QED BY <1>1, <1>2, <1>5, CallGoesOn

LEMMA LookupData ==
  ASSUME DataOK, NEW r \in Readers, Lookup(r)
  PROVE  DataOK'
<1>1. rd[r].pc = "lookup" /\ CallTyped(rd[r]) /\ UNCHANGED <<trackVars, content, ent>>
  BY Zenon DEF Lookup, DataOK
<1>2. \/ rd' = [rd EXCEPT ![r].pc = "copy"]
      \/ \E i : rd' = [rd EXCEPT ![r] = [pc |-> "hit", slot |-> i]]
      \/ rd' = [rd EXCEPT ![r] = NotCalling]
      \/ rd' = [rd EXCEPT ![r] = [rd[r] EXCEPT !.pc = "version", !.attempt = rd[r].attempt + 1, !.v0 = 0]]
  BY Zenon DEF Lookup
<1>3. CASE rd' = [rd EXCEPT ![r].pc = "copy"]
  <2>1. rd' = [rd EXCEPT ![r] = [rd[r] EXCEPT !.pc = "copy"]]
    BY <1>3 DEF DataOK
  <2>2. CallTyped([rd[r] EXCEPT !.pc = "copy"])
    BY <1>1, PlaceTyped
  <2> QED BY <1>1, <2>1, <2>2, CallGoesOn
<1>4. ASSUME NEW i, rd' = [rd EXCEPT ![r] = [pc |-> "hit", slot |-> i]] PROVE DataOK'
  <2>1. [pc |-> "hit", slot |-> i].pc = "hit"
    OBVIOUS
  <2> QED BY <1>1, <1>4, <2>1, CallGoesOn
<1>5. CASE rd' = [rd EXCEPT ![r] = NotCalling]
  <2>1. NotCalling.pc = "idle"
    BY DEF NotCalling
  <2> QED BY <1>1, <1>5, <2>1, CallGoesOn
<1>6. CASE rd' = [rd EXCEPT ![r] = [rd[r] EXCEPT !.pc = "version", !.attempt = rd[r].attempt + 1, !.v0 = 0]]
  <2> DEFINE d == [rd[r] EXCEPT !.pc = "version", !.attempt = rd[r].attempt + 1, !.v0 = 0]
  <2>1. rd[r] \in CallType
    BY <1>1 DEF CallTyped
  <2>2. rd[r].attempt + 1 \in Int
    BY <2>1 DEF CallType
  <2>3. d \in CallType /\ d.pc = "version" /\ d.buf = rd[r].buf /\ d.v0 = 0 /\ d.copy = rd[r].copy
    BY <2>1, <2>2 DEF CallType
  <2> HIDE DEF d
  <2>4. CallTyped(d)
    BY <1>1, <2>3, Sizes DEF CallTyped
  <2> QED BY <1>1, <1>6, <2>4, CallGoesOn DEF d
<1> QED BY <1>2, <1>3, <1>4, <1>5, <1>6

LEMMA CopyData ==
  ASSUME DataOK, NEW r \in Readers, CopyBlock(r)
  PROVE  DataOK'
<1> DEFINE c == rd[r]
           left == BufBlocks[c.buf] \ DOMAIN c.copy
           m == Min(left)
           copy == [x \in DOMAIN c.copy \cup {m} |-> IF x = m THEN content[x] ELSE c.copy[x]]
<1>1. c.pc = "copy" /\ CallTyped(c) /\ c \in CallType /\ UNCHANGED <<trackVars, content, ent>>
  BY DEF CopyBlock, DataOK, CallTyped
<1>2. CASE ~Copied(c) /\ rd' = [rd EXCEPT ![r].copy = copy]
  <2>1. c.buf \in Bufs /\ c.copy \in Copies
    BY <1>1 DEF CallType
  <2>2. left \subseteq BufBlocks[c.buf] /\ left # {} /\ left \subseteq Nat
    BY <1>2, <2>1, BufFacts DEF Copied
  <2>3. m \in left
    <3> HIDE DEF left
    <3> QED BY <2>2, LeastElement
  <2>4. m \in BufBlocks[c.buf] /\ m \notin DOMAIN c.copy /\ m \in MemBlocks
    BY <2>1, <2>3, BufFacts
  <2> HIDE DEF m
  <2>5. content[m] \in Nat /\ content[m] <= MaxWrites
    BY <2>4, ContentBound DEF DataOK
  <2>6. copy \in [DOMAIN c.copy \cup {m} -> Nat] /\ DOMAIN c.copy \cup {m} \subseteq MemBlocks
    <3>1. \A x \in DOMAIN c.copy : c.copy[x] \in Nat /\ x \in MemBlocks
      BY <2>1, CopyFacts
    <3> QED BY <3>1, <2>4, <2>5
  <2>7. copy \in Copies /\ DOMAIN copy = DOMAIN c.copy \cup {m}
    BY <2>6, CopyFacts
  <2>8. \A x \in DOMAIN copy : copy[x] <= MaxWrites
    BY <1>1, <2>5 DEF CallTyped
  <2> DEFINE d == [rd[r] EXCEPT !.copy = copy]
  <2> HIDE DEF copy
  <2>9. d \in CallType /\ d.pc = "copy" /\ d.buf = c.buf /\ d.v0 = c.v0 /\ d.copy = copy
    BY <1>1, <2>7 DEF CallType
  <2>10. rd' = [rd EXCEPT ![r] = d]
    BY <1>2 DEF DataOK
  <2>11. DOMAIN copy \subseteq BufBlocks[c.buf]
    BY <1>1, <2>4, <2>7 DEF CallTyped
  <2> HIDE DEF d
  <2>12. CallTyped(d)
    BY <1>1, <2>8, <2>9, <2>11 DEF CallTyped
  <2> QED BY <1>1, <2>10, <2>12, CallGoesOn
<1>3. CASE Copied(c) /\ rd' = [rd EXCEPT ![r].pc = "check"]
  <2>1. rd' = [rd EXCEPT ![r] = [c EXCEPT !.pc = "check"]]
    BY <1>3 DEF DataOK
  <2>2. DOMAIN c.copy = BufBlocks[c.buf]
    BY <1>1, <1>3 DEF Copied, CallTyped
  <2>3. CallTyped([c EXCEPT !.pc = "check"])
    BY <1>1, <2>2, PlaceTyped
  <2> QED BY <1>1, <2>1, <2>3, CallGoesOn
<1>4. CASE rd' = [rd EXCEPT ![r] = NotCalling]
  <2>1. NotCalling.pc = "idle"
    BY DEF NotCalling
  <2> QED BY <1>1, <1>4, <2>1, CallGoesOn
<1> QED BY <1>2, <1>3, <1>4 DEF CopyBlock

LEMMA CheckData ==
  ASSUME DataOK, NEW r \in Readers, Recheck(r) \/ ConvertFails(r) \/ ReturnHit(r)
  PROVE  DataOK'
<1>1. UNCHANGED <<trackVars, content, ent>>
  BY DEF Recheck, ConvertFails, ReturnHit
<1>2. CASE rd' = [rd EXCEPT ![r] = NotCalling]
  <2>1. NotCalling.pc = "idle"
    BY DEF NotCalling
  <2> QED BY <1>1, <1>2, <2>1, CallGoesOn
<1>3. CASE rd[r].pc = "check" /\ rd' = [rd EXCEPT ![r] = [rd[r] EXCEPT !.pc = "publish"]]
  <2>1. CallTyped(rd[r])
    BY <1>3 DEF DataOK
  <2>2. DOMAIN rd[r].copy = BufBlocks[rd[r].buf]
    BY <1>3, <2>1 DEF CallTyped
  <2>3. CallTyped([rd[r] EXCEPT !.pc = "publish"])
    BY <2>1, <2>2, PlaceTyped
  <2> QED BY <1>1, <1>3, <2>3, CallGoesOn
<1> QED BY <1>2, <1>3 DEF Recheck, ConvertFails, ReturnHit

-----------------------------------------------------------------------------
\* What each entry takes up.
SizeOf(e) == [i \in Slots |-> IF e[i].valid THEN Size[e[i].fmt] ELSE 0]

LEMMA SizeFacts ==
  ASSUME NEW e, \A i \in Slots : EntryTyped(e[i])
  PROVE  /\ SizeOf(e) \in [Slots -> Nat]
         /\ \A I \in SUBSET {i \in Slots : e[i].valid} :
              Cardinality(UNION {{i} \X (1 .. Size[e[i].fmt]) : i \in I}) = Weigh(SizeOf(e), I)
<1>1. ASSUME NEW i \in Slots, e[i].valid PROVE e[i].fmt \in Fmts
  BY <1>1 DEF EntryTyped, Empty
<1>2. SizeOf(e) \in [Slots -> Nat]
  BY <1>1, CacheAssumption DEF SizeOf
<1>3. ASSUME NEW I \in SUBSET {i \in Slots : e[i].valid}
      PROVE  UNION {{i} \X (1 .. Size[e[i].fmt]) : i \in I} = Cells(SizeOf(e), I)
  <2>1. \A i \in I : SizeOf(e)[i] = Size[e[i].fmt]
    BY DEF SizeOf
  <2> QED BY <2>1 DEF Cells
<1> QED BY <1>2, <1>3 DEF Weigh

LEMMA BytesFacts ==
  ASSUME DataOK
  PROVE  /\ SizeOf(ent) \in [Slots -> Nat] /\ Valid \in SUBSET Slots
         /\ \A I \in SUBSET Valid : Bytes(I) = Weigh(SizeOf(ent), I)
<1>1. \A i \in Slots : EntryTyped(ent[i])
  BY DEF DataOK
<1>2. \A I \in SUBSET Valid : Bytes(I) = Weigh(SizeOf(ent), I)
  BY <1>1, SizeFacts DEF Bytes, Valid
<1>3. SizeOf(ent) \in [Slots -> Nat]
  BY <1>1, SizeFacts
<1> QED BY <1>2, <1>3 DEF Valid

LEMMA BytesAfter ==
  ASSUME DataOK'
  PROVE  /\ SizeOf(ent') \in [Slots -> Nat]
         /\ Bytes(Valid)' = Weigh(SizeOf(ent'), Valid')
<1>1. \A i \in Slots : EntryTyped(ent'[i])
  BY DEF DataOK, EntryTyped
<1>2. Valid' = {i \in Slots : ent'[i].valid}
  BY DEF Valid
<1>3. Bytes(Valid)' = Cardinality(UNION {{i} \X (1 .. Size[ent'[i].fmt]) : i \in Valid'})
  BY DEF Bytes
<1> QED BY <1>1, <1>2, <1>3, SizeFacts

\* The books after a step that drops D and, if full, puts e into slot s.
LEMMA BooksMove ==
  ASSUME DataOK, BooksOK, DataOK', replacement' = replacement,
         NEW D \in SUBSET Valid, NEW s \in Slots, s \notin Valid \ D, NEW e, e.valid, NEW full \in BOOLEAN,
         \A i \in Slots : ent'[i] = IF full /\ i = s THEN e ELSE IF i \in D THEN Empty ELSE ent[i],
         older' = Forget(D) \cup (IF full THEN (Valid \ D) \X {s} ELSE {}),
         bytes_used' = IF full THEN Weigh(SizeOf(ent), Valid \ D) + Size[e.fmt] ELSE Weigh(SizeOf(ent), Valid \ D),
         full => bytes_used' <= MaxBytes
  PROVE  BooksOK'
<1>1. SizeOf(ent) \in [Slots -> Nat] /\ Valid \in SUBSET Slots /\ bytes_used = Weigh(SizeOf(ent), Valid)
  BY BytesFacts DEF BooksOK
<1>2. SizeOf(ent') \in [Slots -> Nat] /\ Bytes(Valid)' = Weigh(SizeOf(ent'), Valid')
  BY BytesAfter
<1>3. Valid' = IF full THEN (Valid \ D) \cup {s} ELSE Valid \ D
  BY DEF Valid, Empty
<1>4. IsOrder(Forget(D), Valid \ D)
  BY OrderForget DEF BooksOK, Forget
<1>5. IsOrder(older', Valid')
  <2>1. CASE full
    BY <1>3, <1>4, <2>1, OrderAppend
  <2>2. CASE ~full
    <3>1. older' = Forget(D) /\ Valid' = Valid \ D
      BY <1>3, <2>2
    <3> QED BY <1>4, <3>1
  <2> QED BY <2>1, <2>2
<1>6. Weigh(SizeOf(ent'), Valid \ D) = Weigh(SizeOf(ent), Valid \ D)
  <2>1. \A i \in Valid \ D : ent'[i] = ent[i] /\ i \in Slots
    BY <1>1
  <2>2. \A i \in Valid \ D : SizeOf(ent')[i] = SizeOf(ent)[i]
    BY <2>1 DEF SizeOf
  <2> QED BY <2>2, WeighSame
<1>7. /\ Weigh(SizeOf(ent), Valid \ D) \in Nat /\ Weigh(SizeOf(ent), D) \in Nat /\ Weigh(SizeOf(ent), Valid) \in Nat
      /\ Weigh(SizeOf(ent), Valid \ D) = Weigh(SizeOf(ent), Valid) - Weigh(SizeOf(ent), D)
  BY <1>1, CellsFinite, WeighPart
<1>8. bytes_used' = Bytes(Valid)' /\ bytes_used' <= MaxBytes
  <2>1. CASE full
    <3>1. ent'[s] = e /\ SizeOf(ent')[s] = Size[e.fmt]
      BY <2>1 DEF SizeOf
    <3>2. Weigh(SizeOf(ent'), {s}) = Size[e.fmt]
      BY <1>2, <3>1, WeighOne
    <3>3. Weigh(SizeOf(ent'), (Valid \ D) \cup {s}) = Weigh(SizeOf(ent'), Valid \ D) + Weigh(SizeOf(ent'), {s})
      <4>1. Valid \ D \in SUBSET Slots /\ {s} \in SUBSET Slots /\ (Valid \ D) \cap {s} = {}
        BY <1>1
      <4> QED BY <1>2, <4>1, WeighUnion
    <3> QED BY <1>2, <1>3, <1>6, <2>1, <3>2, <3>3
  <2>2. CASE ~full
    <3>1. bytes_used' = Bytes(Valid)' /\ bytes_used' = Weigh(SizeOf(ent), Valid \ D)
      BY <1>2, <1>3, <1>6, <2>2
    <3> QED BY <1>1, <1>7, <3>1, CacheAssumption DEF BooksOK
  <2> QED BY <2>1, <2>2
<1> QED BY <1>5, <1>8 DEF BooksOK

\* A step that touches no entry.
LEMMA BooksKept ==
  ASSUME BooksOK, UNCHANGED <<ent, older, bytes_used, replacement>>
  PROVE  BooksOK'
  BY DEF BooksOK, Valid, Bytes

\* A hit makes its entry the last one used.
LEMMA LookupBooks ==
  ASSUME DataOK, BooksOK, NEW r \in Readers, Lookup(r)
  PROVE  BooksOK'
<1> DEFINE hit == {i \in Slots : Matches(i, rd[r])}
<1>1. UNCHANGED <<ent, bytes_used, replacement>>
  BY Zenon DEF Lookup
<1>2. \/ older' = older
      \/ hit # {} /\ older' = Forget({Min(hit)}) \cup ((Valid \ {Min(hit)}) \X {Min(hit)})
  BY Zenon DEF Lookup
<1>3. CASE older' = older
  BY <1>1, <1>3, BooksKept
<1>4. CASE hit # {} /\ older' = Forget({Min(hit)}) \cup ((Valid \ {Min(hit)}) \X {Min(hit)})
  <2>1. hit \in SUBSET Nat /\ hit \subseteq Valid
    BY CacheAssumption DEF Slots, Matches, Valid
  <2> HIDE DEF hit
  <2>2. PICK m \in Valid : m = Min(hit)
    BY <1>4, <2>1, LeastElement
  <2>3. IsOrder(Forget({m}), Valid \ {m})
    BY OrderForget DEF BooksOK, Forget
  <2>4. IsOrder(Forget({m}) \cup ((Valid \ {m}) \X {m}), (Valid \ {m}) \cup {m})
    BY <2>3, OrderAppend
  <2>5. (Valid \ {m}) \cup {m} = Valid /\ Valid' = Valid
    BY <1>1 DEF Valid
  <2>6. IsOrder(older', Valid')
    BY <1>4, <2>2, <2>4, <2>5
  <2>7. Bytes(Valid)' = Bytes(Valid)
    BY <1>1, <2>5 DEF Bytes
  <2> QED BY <1>1, <2>6, <2>7 DEF BooksOK
<1> QED BY <1>2, <1>3, <1>4

-----------------------------------------------------------------------------
\* What Publish chooses and drops.
LEMMA ChosenFacts ==
  ASSUME NEW c, NEW h \in ChosenSlot(c)
  PROVE  /\ h.slot \in Slots
         /\ \/ h.drop = {} /\ h.slot \notin Valid
            \/ h.drop = {h.slot} /\ h.slot \in Valid
         /\ h.drop # {} /\ replacement = "LRU" =>
              \/ ent[h.slot].buf = c.buf /\ ent[h.slot].ver # c.v0
              \/ \A j \in Valid : ~Sooner(j, h.slot)
<1> DEFINE old == {i \in Valid : ent[i].buf = c.buf /\ ent[i].fmt = c.fmt /\ ent[i].ver # c.v0}
           s == IF old # {} THEN {Min(old)} ELSE IF replacement = "LRU" THEN pick_victim(Valid) ELSE Slots
<1>0. Slots \in SUBSET Nat /\ Valid \in SUBSET Slots
  BY CacheAssumption DEF Slots, Valid
<1>1. CASE Valid # Slots
  <2>1. h = [slot |-> Min(Slots \ Valid), drop |-> {}]
    BY <1>1 DEF ChosenSlot
  <2>2. Min(Slots \ Valid) \in Slots \ Valid
    BY <1>0, <1>1, LeastElement
  <2> QED BY <2>1, <2>2
<1>2. CASE Valid = Slots
  <2>1. h \in {[slot |-> i, drop |-> {i}] : i \in s}
    BY <1>2, Zenon DEF ChosenSlot
  <2>2. PICK i \in s : h = [slot |-> i, drop |-> {i}]
    BY <2>1
  <2>3. CASE old # {}
    <3>1. old \in SUBSET Nat
      BY <1>0
    <3>2. i \in old
      <4>1. i = Min(old)
        BY <2>3
      <4> HIDE DEF old
      <4> QED BY <2>3, <3>1, <4>1, LeastElement
    <3> QED BY <1>2, <2>2, <3>2
  <2>4. CASE old = {} /\ replacement = "LRU"
    <3>1. i \in pick_victim(Valid)
      BY <2>4
    <3> QED BY <1>2, <2>2, <3>1 DEF pick_victim
  <2>5. CASE old = {} /\ replacement # "LRU"
    BY <1>2, <2>2, <2>5
  <2> QED BY <2>3, <2>4, <2>5
<1> QED BY <1>1, <1>2

\* The parts of Publish.
Published(r, h, room, used, fits, new) ==
  /\ room = MakeRoom(Valid \ h.drop, bytes_used - Bytes(h.drop), Size[rd[r].fmt])
  /\ used = bytes_used - Bytes(h.drop) - Bytes(room)
  /\ fits \in BOOLEAN /\ (fits <=> used + Size[rd[r].fmt] <= MaxBytes)
  /\ new = [valid |-> TRUE, buf |-> rd[r].buf, ver |-> rd[r].v0, fmt |-> rd[r].fmt, data |-> rd[r].copy]
  /\ \A i \in Slots : ent'[i] = IF fits /\ i = h.slot THEN new
                                ELSE IF i \in h.drop \cup room THEN Empty ELSE ent[i]
  /\ older' = Forget(h.drop \cup room) \cup (IF fits THEN (Valid \ (h.drop \cup room)) \X {h.slot} ELSE {})
  /\ bytes_used' = IF fits THEN used + Size[rd[r].fmt] ELSE used

LEMMA PublishParts ==
  ASSUME NEW r \in Readers, Publish(r)
  PROVE  \E h \in ChosenSlot(rd[r]) : \E room, used, fits, new : Published(r, h, room, used, fits, new)
<1> DEFINE c == rd[r]
           new == [valid |-> TRUE, buf |-> c.buf, ver |-> c.v0, fmt |-> c.fmt, data |-> c.copy]
           room(h) == MakeRoom(Valid \ h.drop, bytes_used - Bytes(h.drop), Size[c.fmt])
           used(h) == bytes_used - Bytes(h.drop) - Bytes(room(h))
           fits(h) == used(h) + Size[c.fmt] <= MaxBytes
<1>1. PICK h \in ChosenSlot(c) :
        /\ ent' = [i \in Slots |-> IF fits(h) /\ i = h.slot THEN new
                                   ELSE IF i \in h.drop \cup room(h) THEN Empty ELSE ent[i]]
        /\ older' = Forget(h.drop \cup room(h)) \cup (IF fits(h) THEN (Valid \ (h.drop \cup room(h))) \X {h.slot} ELSE {})
        /\ bytes_used' = IF fits(h) THEN used(h) + Size[c.fmt] ELSE used(h)
  BY Zenon DEF Publish
<1> HIDE DEF new, room, used, fits
<1>2. PICK R, U, F, N : R = room(h) /\ U = used(h) /\ (F <=> fits(h)) /\ N = new /\ F \in BOOLEAN
  <2>1. \E F \in BOOLEAN : F <=> fits(h)
    OBVIOUS
  <2> QED BY <2>1
<1>3. /\ \A i \in Slots : ent'[i] = IF F /\ i = h.slot THEN N
                                    ELSE IF i \in h.drop \cup R THEN Empty ELSE ent[i]
      /\ older' = Forget(h.drop \cup R) \cup (IF F THEN (Valid \ (h.drop \cup R)) \X {h.slot} ELSE {})
      /\ bytes_used' = IF F THEN U + Size[c.fmt] ELSE U
  BY <1>1, <1>2
<1>4. /\ R = MakeRoom(Valid \ h.drop, bytes_used - Bytes(h.drop), Size[c.fmt])
      /\ U = bytes_used - Bytes(h.drop) - Bytes(R)
      /\ F \in BOOLEAN /\ (F <=> U + Size[c.fmt] <= MaxBytes)
      /\ N = [valid |-> TRUE, buf |-> c.buf, ver |-> c.v0, fmt |-> c.fmt, data |-> c.copy]
  BY <1>2, Zenon DEF new, room, used, fits
<1> WITNESS h \in ChosenSlot(rd[r])
<1> WITNESS R, U, F, N
<1> QED BY <1>3, <1>4 DEF Published

LEMMA RoomFacts ==
  ASSUME DataOK, BooksOK, NEW D \in SUBSET Valid, NEW R \in SUBSET (Valid \ D)
  PROVE  /\ D \cup R \in SUBSET Valid
         /\ bytes_used - Bytes(D) - Bytes(R) = Weigh(SizeOf(ent), Valid \ (D \cup R))
<1>1. /\ SizeOf(ent) \in [Slots -> Nat] /\ Valid \in SUBSET Slots
      /\ Bytes(D) = Weigh(SizeOf(ent), D) /\ Bytes(R) = Weigh(SizeOf(ent), R)
      /\ bytes_used = Weigh(SizeOf(ent), Valid)
  BY BytesFacts DEF BooksOK
<1>2. Weigh(SizeOf(ent), Valid \ D) = Weigh(SizeOf(ent), Valid) - Weigh(SizeOf(ent), D)
  BY <1>1, WeighPart
<1>3. Weigh(SizeOf(ent), (Valid \ D) \ R) = Weigh(SizeOf(ent), Valid \ D) - Weigh(SizeOf(ent), R)
  <2>1. Valid \ D \in SUBSET Slots
    BY <1>1
  <2> QED BY <1>1, <2>1, WeighPart
<1>4. (Valid \ D) \ R = Valid \ (D \cup R)
  OBVIOUS
<1> QED BY <1>1, <1>2, <1>3, <1>4

LEMMA PublishStep ==
  ASSUME DataOK, BooksOK, NEW r \in Readers, Publish(r)
  PROVE  DataOK' /\ BooksOK'
<1>1. /\ rd[r].pc = "publish" /\ CallTyped(rd[r]) /\ UNCHANGED <<trackVars, content, replacement>>
      /\ rd' = [rd EXCEPT ![r] = NotCalling]
  BY Zenon DEF Publish, DataOK
<1>2. PICK h \in ChosenSlot(rd[r]) : \E room, used, fits, new : Published(r, h, room, used, fits, new)
  BY PublishParts
<1>3. PICK room, used, fits, new : Published(r, h, room, used, fits, new)
  BY <1>2
<1>4. /\ h.slot \in Slots /\ h.drop \in SUBSET Valid
      /\ h.slot \notin Valid \ h.drop
  BY ChosenFacts
<1>5. room \in SUBSET (Valid \ h.drop)
  BY <1>3 DEF MakeRoom, Published
<1>6. PICK D \in SUBSET Valid : D = h.drop \cup room
  BY <1>4, <1>5
<1>7. used = Weigh(SizeOf(ent), Valid \ D)
  BY <1>3, <1>4, <1>5, <1>6, RoomFacts DEF Published
<1>8. new.valid /\ new.fmt = rd[r].fmt /\ EntryTyped(new)
  <2>1. rd[r] \in CallType
    BY <1>1 DEF CallTyped
  <2>2. /\ rd[r].buf \in Bufs /\ rd[r].fmt \in Fmts /\ rd[r].v0 \in Nat /\ rd[r].copy \in Copies
    BY <2>1 DEF CallType
  <2>3. rd[r].copy \in [BufBlocks[rd[r].buf] -> 0 .. MaxWrites]
    <3>1. DOMAIN rd[r].copy = BufBlocks[rd[r].buf] /\ \A x \in DOMAIN rd[r].copy : rd[r].copy[x] <= MaxWrites
      BY <1>1 DEF CallTyped
    <3>2. /\ rd[r].copy = [x \in DOMAIN rd[r].copy |-> rd[r].copy[x]]
          /\ \A x \in DOMAIN rd[r].copy : rd[r].copy[x] \in Nat
      BY <2>2, CopyFacts
    <3>3. \A x \in DOMAIN rd[r].copy : rd[r].copy[x] \in 0 .. MaxWrites
      BY <3>1, <3>2, Sizes
    <3> QED BY <3>1, <3>2, <3>3
  <2>4. rd[r].v0 \in 0 .. MaxWrites
    BY <1>1, <2>2, Sizes DEF CallTyped
  <2> QED BY <1>3, <2>2, <2>3, <2>4 DEF EntryTyped, Published
<1>9. \A i \in Slots : ent'[i] = IF fits /\ i = h.slot THEN new ELSE IF i \in D THEN Empty ELSE ent[i]
  BY <1>3, <1>6 DEF Published
<1>10. DataOK'
  <2>1. \A i \in Slots : EntryTyped(ent'[i])
    <3> SUFFICES ASSUME NEW i \in Slots PROVE EntryTyped(ent'[i])
      OBVIOUS
    <3>1. ent'[i] = new \/ ent'[i] = Empty \/ ent'[i] = ent[i]
      BY <1>9
    <3> QED BY <1>8, <3>1 DEF DataOK, EntryTyped
  <2>2. DOMAIN rd' = Readers /\ \A q \in Readers : rd'[q].pc \in {"idle", "hit"} \/ CallTyped(rd'[q])
    <3>1. DOMAIN rd' = Readers
      BY <1>1 DEF DataOK
    <3>2. ASSUME NEW q \in Readers PROVE rd'[q].pc \in {"idle", "hit"} \/ CallTyped(rd'[q])
      <4>1. rd'[q] = NotCalling \/ rd'[q] = rd[q]
        BY <1>1 DEF DataOK
      <4> QED BY <4>1 DEF DataOK, NotCalling
    <3> QED BY <3>1, <3>2
  <2> QED BY <1>1, <2>1, <2>2, DataMoves
<1>11. BooksOK'
  <2>0. PICK s \in Slots : s = h.slot
    BY <1>4
  <2>1. PICK full \in BOOLEAN : full = fits
    BY <1>3 DEF Published
  <2>2. /\ older' = Forget(D) \cup (IF full THEN (Valid \ D) \X {s} ELSE {})
        /\ bytes_used' = IF full THEN Weigh(SizeOf(ent), Valid \ D) + Size[new.fmt] ELSE Weigh(SizeOf(ent), Valid \ D)
        /\ full => bytes_used' <= MaxBytes
    BY <1>3, <1>6, <1>7, <1>8, <2>0, <2>1 DEF Published
  <2>3. s \notin Valid \ D /\ new.valid /\ replacement' = replacement
    BY <1>1, <1>4, <1>6, <1>8, <2>0
  <2>4. \A i \in Slots : ent'[i] = IF full /\ i = s THEN new ELSE IF i \in D THEN Empty ELSE ent[i]
    BY <1>9, <2>0, <2>1
  <2> QED BY <1>10, <2>2, <2>3, <2>4, BooksMove
<1> QED BY <1>10, <1>11

LEMMA InvalidateStep ==
  ASSUME DataOK, BooksOK, NEW b \in Bufs, dcache_invalidate(b)
  PROVE  DataOK' /\ BooksOK'
<1>1. PICK D \in SUBSET Valid :
        /\ D # {} /\ ent' = [i \in Slots |-> IF i \in D THEN Empty ELSE ent[i]]
        /\ older' = Forget(D) /\ bytes_used' = bytes_used - Bytes(D)
        /\ UNCHANGED <<trackVars, content, replacement, rd>>
  BY Zenon DEF dcache_invalidate
<1>2. DataOK'
  <2>1. \A i \in Slots : EntryTyped(ent'[i])
    <3> SUFFICES ASSUME NEW i \in Slots PROVE EntryTyped(ent'[i])
      OBVIOUS
    <3>1. ent'[i] = Empty \/ ent'[i] = ent[i]
      BY <1>1
    <3> QED BY <3>1 DEF DataOK, EntryTyped
  <2>2. DOMAIN rd' = Readers /\ \A q \in Readers : rd'[q].pc \in {"idle", "hit"} \/ CallTyped(rd'[q])
    BY <1>1 DEF DataOK
  <2> QED BY <1>1, <2>1, <2>2, DataMoves
<1>3. bytes_used' = Weigh(SizeOf(ent), Valid \ D)
  <2>1. SizeOf(ent) \in [Slots -> Nat] /\ Valid \in SUBSET Slots
        /\ bytes_used = Weigh(SizeOf(ent), Valid) /\ Bytes(D) = Weigh(SizeOf(ent), D)
    BY BytesFacts DEF BooksOK
  <2> QED BY <1>1, <2>1, WeighPart
<1>4. BooksOK'
  <2> DEFINE e == [valid |-> TRUE, fmt |-> 0]
  <2>1. PICK s \in Slots : s \notin Valid \ D
    BY <1>1 DEF Valid
  <2>2. e.valid
    OBVIOUS
  <2> HIDE DEF e
  <2>3. PICK full \in BOOLEAN : full = FALSE
    OBVIOUS
  <2>4. /\ \A i \in Slots : ent'[i] = IF full /\ i = s THEN e ELSE IF i \in D THEN Empty ELSE ent[i]
        /\ older' = Forget(D) \cup (IF full THEN (Valid \ D) \X {s} ELSE {})
        /\ bytes_used' = IF full THEN Weigh(SizeOf(ent), Valid \ D) + Size[e.fmt] ELSE Weigh(SizeOf(ent), Valid \ D)
        /\ full => bytes_used' <= MaxBytes
    BY <1>1, <1>3, <2>3
  <2> QED BY <1>1, <1>2, <2>1, <2>2, <2>4, BooksMove
<1> QED BY <1>2, <1>4

LEMMA BooksInit == Init => DataOK /\ BooksOK
<1> SUFFICES ASSUME Init PROVE DataOK /\ BooksOK
  OBVIOUS
<1>1. TrackInv
  BY TrackInitOK DEF Init
<1>2. /\ \A w \in Writers : wr[w] = Idle
      /\ content = [x \in MemBlocks |-> 0] /\ nwrites = 0
  BY DEF Init, TrackInit
<1>3. StoresBounded
  <2>1. ToStore = {}
    BY <1>2 DEF ToStore, WillStore, Idle
  <2>2. \A x \in MemBlocks : content[x] + Cardinality(ToStore) <= nwrites
    BY <1>2, <2>1, FS_EmptySet
  <2> QED BY <1>2, <2>2 DEF StoresBounded, KindOK, Idle
<1>4. \A i \in Slots : ent[i] = Empty
  BY DEF Init
<1>5. DOMAIN rd = Readers /\ \A r \in Readers : rd[r].pc = "idle"
  BY DEF Init, NotCalling
<1>6. DataOK
  BY <1>1, <1>3, <1>4, <1>5 DEF DataOK, EntryTyped
<1>7. Valid = {}
  BY <1>4 DEF Valid, Empty
<1>8. Bytes(Valid) = 0
  <2>1. UNION {{i} \X (1 .. Size[ent[i].fmt]) : i \in {}} = {}
    OBVIOUS
  <2> QED BY <1>7, <2>1, FS_EmptySet DEF Bytes
<1>9. IsOrder(older, Valid)
  BY <1>7 DEF Init, IsOrder
<1>10. BooksOK
  BY <1>8, <1>9, CacheAssumption DEF Init, BooksOK
<1> QED BY <1>6, <1>10

LEMMA BooksStep ==
  ASSUME DataOK, BooksOK, [Next]_vars
  PROVE  DataOK' /\ BooksOK'
<1>1. CASE UNCHANGED vars
  <2>1. UNCHANGED <<trackVars, content, ent, older, bytes_used, replacement, rd>>
    BY <1>1 DEF vars, cacheVars
  <2>2. /\ \A i \in Slots : EntryTyped(ent'[i])
        /\ DOMAIN rd' = Readers
        /\ \A r \in Readers : rd'[r].pc \in {"idle", "hit"} \/ CallTyped(rd'[r])
    BY <2>1 DEF DataOK
  <2> QED BY <2>1, <2>2, DataMoves, BooksKept
<1>2. ASSUME NEW w \in Writers, Write(w) PROVE DataOK' /\ BooksOK'
  <2>1. UNCHANGED <<ent, older, bytes_used, replacement, rd>> /\ (BeginWrite(w) \/ WriterStep(w))
    BY <1>2 DEF Write, cacheVars
  <2>2. TrackInv' /\ StoresBounded'
    BY <1>2, <2>1, WriterOK, StoresStep DEF DataOK
  <2>3. DataOK'
    BY <2>1, <2>2 DEF DataOK, EntryTyped, CallTyped
  <2> QED BY <2>1, <2>3, BooksKept
<1>3. ASSUME NEW r \in Readers,
             dc_get_or_convert(r) \/ ReadVersion(r) \/ CopyBlock(r) \/ Recheck(r) \/ ConvertFails(r) \/ ReturnHit(r)
      PROVE  DataOK' /\ BooksOK'
  <2>1. UNCHANGED <<ent, older, bytes_used, replacement>>
    BY <1>3 DEF dc_get_or_convert, ReadVersion, CopyBlock, Recheck, ConvertFails, ReturnHit
  <2> QED BY <1>3, <2>1, BooksKept, CallData, VersionData, CopyData, CheckData
<1>4. ASSUME NEW r \in Readers, Lookup(r) PROVE DataOK' /\ BooksOK'
  BY <1>4, LookupData, LookupBooks
<1>5. ASSUME NEW r \in Readers, Publish(r) PROVE DataOK' /\ BooksOK'
  BY <1>5, PublishStep
<1>6. ASSUME NEW b \in Bufs, dcache_invalidate(b) PROVE DataOK' /\ BooksOK'
  BY <1>6, InvalidateStep
<1> QED BY <1>1, <1>2, <1>3, <1>4, <1>5, <1>6 DEF Next, Read

\* BooksInv holds in every state, whatever kinds of writers there are.
THEOREM BooksKeptAlways == Spec => []BooksInv
<1>1. Init => BooksInv
  BY BooksInit DEF BooksInv
<1>2. BooksInv /\ [Next]_vars => BooksInv'
  BY BooksStep DEF BooksInv
<1> QED BY <1>1, <1>2, PTL DEF Spec

\* Every variable of the cache keeps its type: entries hold whole buffers of a
\* version that exists, and e->lru orders exactly the valid entries.
THEOREM CacheTypes == Spec => []TypeOK
<1>1. ASSUME BooksInv PROVE TypeOK
  <2>1. TrackTypeOK /\ replacement \in Replacements
    BY <1>1 DEF BooksInv, DataOK, BooksOK, TrackInv
  <2>2. content \in [MemBlocks -> 0 .. MaxWrites]
    <3>1. content \in [MemBlocks -> Nat]
      BY <1>1 DEF BooksInv, DataOK, StoresBounded
    <3>2. \A x \in MemBlocks : content[x] \in Nat /\ content[x] <= MaxWrites
      BY <1>1, ContentBound DEF BooksInv, DataOK
    <3>3. \A x \in MemBlocks : content[x] \in 0 .. MaxWrites
      BY <3>2, Sizes
    <3> QED BY <3>1, <3>3
  <2>3. \A i \in Slots : EntryTyped(ent[i])
    BY <1>1 DEF BooksInv, DataOK
  <2>4. IsOrder(older, Valid)
    BY <1>1 DEF BooksInv, BooksOK
  <2>5. bytes_used \in 0 .. MaxBytes
    <3>1. bytes_used = Weigh(SizeOf(ent), Valid) /\ bytes_used <= MaxBytes
          /\ SizeOf(ent) \in [Slots -> Nat] /\ Valid \in SUBSET Slots
      BY <1>1, BytesFacts DEF BooksInv, BooksOK
    <3>2. bytes_used \in Nat
      BY <3>1, CellsFinite
    <3> QED BY <3>1, <3>2, CacheAssumption
  <2> QED BY <2>1, <2>2, <2>3, <2>4, <2>5 DEF TypeOK, EntryTyped, IsOrder
<1> QED BY <1>1, BooksKeptAlways, PTL

\* bytes_used is always the sum over the valid entries, through the drops and the
\* insertion of Publish and through dcache_invalidate, and never above
\* max_total_bytes.
THEOREM BooksBalance == Spec => []BytesAccounted
<1>1. BooksInv => BytesAccounted
  BY DEF BooksInv, BooksOK, BytesAccounted
<1> QED BY <1>1, BooksKeptAlways, PTL

-----------------------------------------------------------------------------
\* An entry of an old version is a victim before any other, and what goes before it
\* goes before any other too.
LEMMA CorpseSooner ==
  ASSUME NEW i, ~Corpse(i), NEW j, Corpse(j)
  PROVE  Sooner(j, i) /\ \A k : Sooner(k, j) => Sooner(k, i)
  BY DEF Sooner

LEMMA DropsCorpses ==
  ASSUME DataOK, BooksOK, NEW r \in Readers, Publish(r), Current(r), replacement = "LRU",
         NEW i \in Slots, Dropped(i), ~Corpse(i), NEW j \in Slots, ent[j].valid, Corpse(j)
  PROVE  Dropped(j)
<1>1. rd[r].pc = "publish" /\ CallTyped(rd[r])
  BY Zenon DEF Publish, DataOK
<1>2. PICK h \in ChosenSlot(rd[r]) : \E room, used, fits, new : Published(r, h, room, used, fits, new)
  BY PublishParts
<1>3. PICK room, used, fits, new : Published(r, h, room, used, fits, new)
  BY <1>2
<1>4. /\ h.slot \in Slots /\ h.drop \in SUBSET Valid
      /\ \/ h.drop = {} /\ h.slot \notin Valid
         \/ h.drop = {h.slot} /\ h.slot \in Valid
      /\ h.drop # {} =>
              \/ ent[h.slot].buf = rd[r].buf /\ ent[h.slot].ver # rd[r].v0
              \/ \A k \in Valid : ~Sooner(k, h.slot)
  BY ChosenFacts
<1>5. i \in Valid /\ j \in Valid
  BY DEF Dropped, Valid
<1>6. i \in h.drop \cup room
  BY <1>3, <1>4, <1>5 DEF Dropped, Published
<1>7. j \in h.drop \cup room
  <2>1. CASE i \in h.drop
    <3>1. i = h.slot
      BY <1>4, <2>1
    <3>2. ~(ent[i].buf = rd[r].buf /\ ent[i].ver # rd[r].v0)
      BY DEF Corpse, Current
    <3>3. \A k \in Valid : ~Sooner(k, i)
      BY <1>4, <2>1, <3>1, <3>2
    <3> QED BY <1>5, <3>3, CorpseSooner
  <2>2. CASE i \in room /\ j \notin h.drop
    <3> DEFINE I == Valid \ h.drop
               before(k) == {l \in I : Sooner(l, k)}
               have == bytes_used - Bytes(h.drop)
    <3>1. room = {k \in I : have - Bytes(before(k)) + Size[rd[r].fmt] > MaxBytes}
      BY <1>3 DEF MakeRoom, Published
    <3>2. before(j) \subseteq before(i) /\ before(i) \in SUBSET Valid /\ before(j) \in SUBSET Valid
      BY CorpseSooner
    <3>3. /\ SizeOf(ent) \in [Slots -> Nat] /\ Valid \in SUBSET Slots
          /\ \A J \in SUBSET Valid : Bytes(J) = Weigh(SizeOf(ent), J)
          /\ bytes_used = Bytes(Valid)
      BY BytesFacts DEF BooksOK
    <3> HIDE DEF before
    <3>4. Bytes(before(j)) \in Nat /\ Bytes(before(i)) \in Nat /\ Bytes(before(j)) <= Bytes(before(i))
      <4>1. before(i) \in SUBSET Slots /\ before(j) \in SUBSET Slots /\ before(j) \in SUBSET before(i)
        BY <3>2, <3>3
      <4>2. Weigh(SizeOf(ent), before(j)) <= Weigh(SizeOf(ent), before(i))
        BY <3>3, <4>1, WeighPart
      <4>3. Weigh(SizeOf(ent), before(j)) \in Nat /\ Weigh(SizeOf(ent), before(i)) \in Nat
        BY <3>3, <4>1, CellsFinite
      <4> QED BY <3>2, <3>3, <4>2, <4>3
    <3>5. have \in Int
      <4>1. h.drop \in SUBSET Slots
        BY <1>4, <3>3
      <4>2. Bytes(Valid) \in Nat /\ Bytes(h.drop) \in Nat
        BY <1>4, <3>3, <4>1, CellsFinite
      <4> QED BY <3>3, <4>2
    <3>6. Size[rd[r].fmt] \in Nat
      BY <1>1, CacheAssumption DEF CallTyped, CallType
    <3>7. have - Bytes(before(i)) + Size[rd[r].fmt] > MaxBytes
      BY <2>2, <3>1
    <3> HIDE DEF have
    <3>8. have - Bytes(before(j)) + Size[rd[r].fmt] > MaxBytes
      BY <3>4, <3>5, <3>6, <3>7, CacheAssumption
    <3> QED BY <1>5, <2>2, <3>1, <3>8
  <2> QED BY <1>6, <2>1, <2>2
<1>8. CASE fits /\ j = h.slot
  <2>1. ent'[j] = new
    BY <1>3, <1>8 DEF Published
  <2>2. new.ver = rd[r].v0 /\ new.buf = rd[r].buf
    BY <1>3 DEF Published
  <2>3. ent[j] # new
    BY <2>2 DEF Corpse, Current
  <2> QED BY <2>1, <2>3 DEF Dropped
<1>9. CASE ~(fits /\ j = h.slot)
  <2>1. ent'[j] = Empty
    BY <1>3, <1>7, <1>9 DEF Published
  <2> QED BY <2>1 DEF Dropped, Empty
<1> QED BY <1>8, <1>9

\* pick_victim spends the entries of old versions first: with LRU replacement, a
\* publisher of the current version drops an entry that is still of use only if
\* it drops every entry of an old version with it.
THEOREM CorpsesGoFirst == Spec => CorpsesFirst
<1>1. BooksInv /\ [Next]_vars =>
        [(\E r \in Readers : Publish(r) /\ Current(r)) /\ replacement = "LRU" =>
           ((\E i \in Slots : Dropped(i) /\ ~Corpse(i)) =>
              \A i \in Slots : ent[i].valid /\ Corpse(i) => Dropped(i))]_vars
  BY DropsCorpses DEF BooksInv
<1> QED BY <1>1, BooksKeptAlways, PTL DEF Spec, CorpsesFirst
=============================================================================
