---------------------------- MODULE BFlush_proofs ----------------------------
(***************************************************************************)
(* Proofs about the boundary of bflush.c, for any number of writers,       *)
(* blocks and bitmap words: the types, the superset property of the        *)
(* snapshot in every concurrency mode, and where a dirty block can go.     *)
(***************************************************************************)
EXTENDS BFlush, BTrack_proofs

\* The first pass has read the words before fword; nothing clears a bit while the
\* snapshot is taken.
SnapshotGrows ==
  /\ fpc \in {"pass1", "pass2"} => start \subseteq bits
  /\ fpc = "pass1" => \A b \in start : WordOf(b) < fword => b \in snap
  /\ fpc \in {"pass2", "flush"} => start \subseteq snap

BaseInv == TrackInv /\ TypeOK /\ SnapshotGrows

\* The blocks of a write under way whose bits its hook has set.
Marked(w) == IF wr[w].pc \in {"data", "mark"} THEN {b \in Extent(w) : WordOf(b) < wr[w].word}
             ELSE IF wr[w].pc = "idle" THEN {} ELSE Extent(w)

\* What a hook has set is not cleared under it, other than by a boundary that has
\* the block in its snapshot.
MarksKept ==
  \A w \in Writers : Marked(w) \cap Blocks \subseteq bits \cup raced \cup (touched \cap snap)

\* The snapshot is of bits that are set until the flush, and what the flush has
\* left of it was left out of the ranges or is written meanwhile.
SnapshotUsed ==
  /\ fpc \in {"idle", "pass1", "pass2", "flush", "clear"}
  /\ fpc = "idle" => snap = {}
  /\ fpc = "clear" => Busy \subseteq touched
  /\ fpc \in {"pass1", "pass2", "flush"} => snap \subseteq bits
  /\ fpc = "clear" => unflushed \cap snap \subseteq touched \cup missed

DirtyInv == DirtyAccounted /\ MarksKept /\ SnapshotUsed

-----------------------------------------------------------------------------
LEMMA WordsFacts ==
  /\ LastWord \in Nat /\ Words = 0 .. LastWord
  /\ \A b \in Blocks : WordOf(b) \in Words
<1>1. NBlocks - 1 \in Nat /\ LastWord = WordOf(NBlocks - 1) /\ Words = 0 .. LastWord
  BY Sizes DEF LastWord, WordOf, Words
<1>2. LastWord \in Nat
  BY <1>1, WordFacts
<1>3. ASSUME NEW b \in Blocks PROVE WordOf(b) \in 0 .. LastWord
  <2>1. b \in Nat /\ b <= NBlocks - 1
    BY Sizes DEF Blocks
  <2>2. WordOf(b) \in Nat /\ WordOf(b) <= LastWord
    BY <1>1, <2>1, WordFacts
  <2> QED BY <1>2, <2>2
<1> QED BY <1>1, <1>2, <1>3

LEMMA InitBase == Init => BaseInv
<1> SUFFICES ASSUME Init PROVE BaseInv
  OBVIOUS
<1>1. TrackInv
  BY TrackInitOK DEF Init
<1>2. TypeOK
  BY <1>1, WordsFacts DEF Init, TypeOK, TrackInv
<1>3. SnapshotGrows
  BY DEF Init, SnapshotGrows
<1> QED BY <1>1, <1>2, <1>3 DEF BaseInv

LEMMA BaseWriter ==
  ASSUME NEW w \in Writers, BaseInv, Begin(w) \/ Writing(w)
  PROVE  BaseInv'
<1>1. BeginWrite(w) \/ WriterStep(w)
  BY DEF Begin, Writing
<1>2. TrackInv' /\ bits \subseteq bits'
  BY <1>1, WriterOK, WriterBits DEF BaseInv
<1>3. UNCHANGED <<fpc, fword, loaded, snap, start>>
  BY DEF Begin, Writing, flushVars
<1>4. touched' \subseteq MemBlocks /\ raced' \subseteq MemBlocks /\ missed' \subseteq Blocks
  <2>1. wr'[w].lo .. wr'[w].hi \subseteq MemBlocks
    BY <1>2, ExtentFactsPrime DEF TrackInv
  <2> QED BY <2>1 DEF Begin, Writing, flushVars, BaseInv, TypeOK
<1>5. TypeOK'
  BY <1>2, <1>3, <1>4 DEF BaseInv, TypeOK, TrackInv
<1>6. SnapshotGrows'
  BY <1>2, <1>3 DEF BaseInv, SnapshotGrows
<1> QED BY <1>2, <1>5, <1>6 DEF BaseInv

LEMMA BaseRead ==
  ASSUME BaseInv, ReadWord
  PROVE  BaseInv'
<1>1. /\ fpc \in {"pass1", "pass2"} /\ snap' = snap \cup (bits \cap InWord(fword))
      /\ UNCHANGED <<trackVars, loaded, start, touched, raced, missed>>
      /\ fword' = IF fword < LastWord THEN fword + 1 ELSE 0
      /\ fpc' = IF fword < LastWord THEN fpc ELSE IF fpc = "pass1" THEN "pass2" ELSE "flush"
  BY DEF ReadWord
<1>2. TrackInv'
  <2>1. bits \subseteq Blocks /\ unflushed \subseteq MemBlocks /\ suspect \in BOOLEAN
    BY DEF BaseInv, TrackInv, TrackTypeOK
  <2> QED BY <1>1, <2>1, OthersOK DEF BaseInv, trackVars
<1>3. LastWord \in Nat /\ fword \in Nat /\ fword <= LastWord
  BY WordsFacts DEF BaseInv, TypeOK
<1>4. fword' \in Words
  BY <1>1, <1>3, WordsFacts
<1>5. snap' \subseteq Blocks
  BY <1>1 DEF BaseInv, TypeOK, InWord
<1>6. TypeOK'
  BY <1>1, <1>2, <1>4, <1>5 DEF BaseInv, TypeOK, TrackInv
<1>7. ASSUME NEW b \in start, fpc = "pass1", WordOf(b) <= fword PROVE b \in snap'
  <2>1. b \in bits /\ b \in Blocks /\ WordOf(b) \in Nat
    BY <1>7, WordsFacts DEF BaseInv, SnapshotGrows, TypeOK
  <2>2. CASE WordOf(b) < fword
    BY <2>2, <1>1, <1>7 DEF BaseInv, SnapshotGrows
  <2>3. CASE WordOf(b) = fword
    BY <2>1, <2>3, <1>1 DEF InWord
  <2> QED BY <2>1, <2>2, <2>3, <1>3, <1>7
<1>8. SnapshotGrows'
  <2>1. CASE fpc = "pass1" /\ fword < LastWord
    <3>1. fpc' = "pass1" /\ fword' = fword + 1 /\ start' = start /\ bits' = bits
      BY <1>1, <2>1 DEF trackVars
    <3>2. ASSUME NEW b \in start, WordOf(b) < fword + 1 PROVE b \in snap'
      <4>1. WordOf(b) \in Nat
        BY WordsFacts DEF BaseInv, TypeOK
      <4> QED BY <4>1, <3>2, <2>1, <1>3, <1>7
    <3> QED BY <3>1, <3>2, <2>1 DEF BaseInv, SnapshotGrows
  <2>2. CASE fpc = "pass1" /\ ~(fword < LastWord)
    <3>1. fpc' = "pass2" /\ start' = start /\ bits' = bits /\ fword = LastWord
      BY <1>1, <1>3, <2>2 DEF trackVars
    <3>2. ASSUME NEW b \in start PROVE b \in snap'
      <4>1. WordOf(b) \in Nat /\ WordOf(b) <= LastWord
        BY WordsFacts DEF BaseInv, TypeOK
      <4> QED BY <4>1, <3>1, <2>2, <1>7
    <3> QED BY <3>1, <3>2, <2>2 DEF BaseInv, SnapshotGrows
  <2>3. CASE fpc = "pass2"
    BY <1>1, <2>3 DEF BaseInv, SnapshotGrows, trackVars
  <2> QED BY <1>1, <2>1, <2>2, <2>3
<1> QED BY <1>2, <1>6, <1>8 DEF BaseInv

LEMMA BaseClear ==
  ASSUME BaseInv, ClearBits
  PROVE  BaseInv'
<1>1. /\ fpc \in {"clear", "load", "store"}
      /\ UNCHANGED <<mode, ver, tok, suspect, wr, unflushed, nwrites, missed>>
  BY DEF ClearBits
<1>2. bits' \subseteq Blocks /\ loaded' \subseteq Blocks
  <2>1. bits' \in {bits, (bits \ InWord(fword)) \cup (loaded \ snap), Cleared(Words), Cleared({fword})}
    BY <1>1 DEF ClearBits
  <2>2. loaded' \in {bits \cap InWord(fword), {}}
    BY DEF ClearBits
  <2> QED BY <2>1, <2>2 DEF BaseInv, TypeOK, TrackTypeOK, Cleared
<1>3. TrackInv'
  <2>1. unflushed' \subseteq MemBlocks /\ suspect' \in BOOLEAN
    BY <1>1 DEF BaseInv, TypeOK, TrackTypeOK
  <2> QED BY <1>1, <1>2, <2>1, OthersOK DEF BaseInv
<1>4. LastWord \in Nat /\ fword \in Nat /\ fword <= LastWord /\ Words = 0 .. LastWord
  BY WordsFacts DEF BaseInv, TypeOK
<1>5. CASE fpc = "load"
  <2>1. fpc' = "store" /\ UNCHANGED <<fword, snap, start, touched, raced>>
    BY <1>5 DEF ClearBits
  <2>2. TypeOK'
    BY <2>1, <1>1, <1>2, <1>3 DEF BaseInv, TypeOK, TrackInv
  <2> QED BY <2>1, <2>2, <1>3 DEF BaseInv, SnapshotGrows
<1>6. CASE fpc # "load" /\ mode # "LOCK" /\ fword < LastWord
  <2>1. /\ fpc' \in {"load", "clear"} /\ fword' = fword + 1
        /\ UNCHANGED <<snap, start, touched, raced>>
    BY <1>4, <1>6 DEF ClearBits
  <2>2. fword' \in Words
    BY <2>1, <1>4, <1>6
  <2>3. TypeOK'
    BY <2>1, <2>2, <1>1, <1>2, <1>3 DEF BaseInv, TypeOK, TrackInv
  <2> QED BY <2>1, <2>3, <1>3 DEF BaseInv, SnapshotGrows
<1>7. CASE fpc # "load" /\ (mode = "LOCK" \/ fword = LastWord)
  <2>1. /\ fpc' = "idle" /\ fword' = 0 /\ snap' = {} /\ start' = start /\ touched' = {}
        /\ raced' = raced \cup (touched \cap snap)
    BY <1>4, <1>7 DEF ClearBits
  <2>2. fword' \in Words
    BY <2>1, <1>4
  <2>3. TypeOK'
    BY <2>1, <2>2, <1>1, <1>2, <1>3 DEF BaseInv, TypeOK, TrackInv
  <2> QED BY <2>1, <2>3, <1>3 DEF BaseInv, SnapshotGrows
<1> QED BY <1>4, <1>5, <1>6, <1>7

LEMMA BaseOthers ==
  ASSUME BaseInv, Suspicion \/ FullFallback \/ bf_boundary \/ Flush \/ FlushPart
  PROVE  BaseInv'
<1>1. /\ UNCHANGED <<mode, bits, ver, tok, wr, nwrites>>
      /\ unflushed' \subseteq unflushed /\ suspect' \in BOOLEAN
  <2>1. suspect \in BOOLEAN
    BY DEF BaseInv, TypeOK, TrackTypeOK
  <2>2. CASE Suspicion
    BY <2>2 DEF Suspicion, bt_flag_suspect
  <2>3. CASE FullFallback
    BY <2>1, <2>3 DEF FullFallback
  <2>4. CASE bf_boundary
    BY <2>1, <2>4 DEF bf_boundary, trackVars
  <2>5. CASE Flush
    BY <2>1, <2>5 DEF Flush
  <2>6. CASE FlushPart
    BY <2>1, <2>6 DEF FlushPart
  <2> QED BY <2>2, <2>3, <2>4, <2>5, <2>6
<1>2. TrackInv'
  <2>1. bits' \subseteq Blocks /\ unflushed' \subseteq MemBlocks
    BY <1>1 DEF BaseInv, TypeOK, TrackTypeOK
  <2> QED BY <1>1, <2>1, OthersOK DEF BaseInv
<1>3. Busy \subseteq MemBlocks
  BY ExtentFacts DEF BaseInv, TypeOK, Busy
<1>4. CASE Suspicion \/ FullFallback
  <2>1. /\ UNCHANGED <<fpc, fword, loaded, snap, start, touched>>
        /\ raced' \subseteq raced /\ missed' \subseteq missed
    BY <1>4 DEF Suspicion, FullFallback, flushVars
  <2> QED BY <2>1, <1>1, <1>2 DEF BaseInv, TypeOK, TrackInv, SnapshotGrows
<1>5. CASE bf_boundary
  <2>1. /\ start' = bits /\ fword' = 0 /\ UNCHANGED <<loaded, touched, raced, missed>>
        /\ (fpc' = "pass1" /\ snap' = {}) \/ (fpc' = "flush" /\ snap' = bits)
    BY <1>5 DEF bf_boundary
  <2>3. fword' \in Words
    BY <2>1, WordsFacts
  <2>4. TypeOK'
    BY <2>1, <2>3, <1>2 DEF BaseInv, TypeOK, TrackTypeOK, TrackInv
  <2>5. SnapshotGrows'
    <3>1. CASE fpc' = "pass1"
      <4>1. \A b \in bits : WordOf(b) \in Nat
        BY WordsFacts DEF BaseInv, TypeOK, TrackTypeOK
      <4>2. \A b \in bits : ~(WordOf(b) < 0)
        BY <4>1
      <4> QED BY <2>1, <3>1, <4>2, <1>1 DEF SnapshotGrows
    <3>2. CASE fpc' = "flush" /\ snap' = bits
      BY <2>1, <3>2 DEF SnapshotGrows
    <3> QED BY <3>1, <3>2, <2>1
  <2> QED BY <2>4, <2>5, <1>2 DEF BaseInv
<1>6. CASE Flush \/ FlushPart
  <2>1. /\ fpc' \in {"load", "clear"} /\ snap' \subseteq snap /\ start' = {} /\ touched' = Busy
        /\ raced' \subseteq raced /\ UNCHANGED <<fword, loaded>>
    BY <1>6 DEF Flush, FlushPart
  <2>2. missed' \subseteq missed \cup snap
    BY <1>6 DEF Flush, FlushPart
  <2>3. TypeOK'
    BY <2>1, <2>2, <1>2, <1>3 DEF BaseInv, TypeOK, TrackInv
  <2>4. SnapshotGrows'
    BY <2>1 DEF SnapshotGrows
  <2> QED BY <2>3, <2>4, <1>2 DEF BaseInv
<1> QED BY <1>4, <1>5, <1>6

LEMMA BaseStep == BaseInv /\ [Next]_vars => BaseInv'
<1> SUFFICES ASSUME BaseInv, [Next]_vars PROVE BaseInv'
  OBVIOUS
<1>1. CASE UNCHANGED vars
  <2>1. UNCHANGED flushVars /\ UNCHANGED trackVars
    BY <1>1 DEF vars
  <2>2. bits \subseteq Blocks /\ unflushed \subseteq MemBlocks /\ suspect \in BOOLEAN
    BY DEF BaseInv, TypeOK, TrackTypeOK
  <2>3. TrackInv'
    BY <2>1, <2>2, OthersOK DEF trackVars, BaseInv
  <2> QED BY <2>1, <2>3 DEF BaseInv, TypeOK, TrackInv, SnapshotGrows, flushVars, trackVars
<1> QED BY <1>1, BaseWriter, BaseRead, BaseClear, BaseOthers DEF Next

\* Every reachable state satisfies BaseInv.
THEOREM Invariance == Spec => []BaseInv
  BY InitBase, BaseStep, PTL DEF Spec

\* The tracker and the boundary keep their types: versions, words and tokens stay
\* within their bounds whatever the writers and the boundary do.
THEOREM Types == Spec => []TypeOK
<1>1. BaseInv => TypeOK
  BY DEF BaseInv
<1> QED BY <1>1, Invariance, PTL

\* The two unlocked passes of bt_snapshot_dirty, and the copy under the lock, see
\* every block that was dirty when the snapshot began.
THEOREM SnapshotIsSuperset == Spec => []SnapshotSuperset
<1>1. BaseInv => SnapshotSuperset
  BY DEF BaseInv, SnapshotGrows, SnapshotSuperset
<1> QED BY <1>1, Invariance, PTL

-----------------------------------------------------------------------------
(***************************************************************************)
(* Where a dirty block can go.                                             *)
(***************************************************************************)
LEMMA BusyFacts ==
  ASSUME NEW w \in Writers, wr[w].pc # "idle"
  PROVE  Extent(w) \subseteq Busy
  BY DEF Busy

LEMMA MarkedBusy == \A w \in Writers : Marked(w) \subseteq Busy
  BY DEF Marked, Busy

\* What the bits and the write under way are after a step of its writer.
LEMMA MarkingFacts ==
  ASSUME NEW w \in Writers, TrackInv, NEW after \in WrType,
         wr[w].pc = "mark", OrBits(w, after), after.pc \in {"idle", "bump"},
         after.pc = "bump" => after.lo = wr[w].lo /\ after.hi = wr[w].hi
  PROVE  /\ Marked(w)' \cap Blocks \subseteq Marked(w) \cup bits'
         /\ wr'[w].pc = "idle" => Extent(w) \cap Blocks \subseteq Marked(w) \cup bits'
         /\ wr'[w].pc # "idle" => Extent(w)' = Extent(w)
<1> DEFINE left == {b \in wr[w].lo .. b_hi(w) : WordOf(b) >= wr[w].word}
           now == IF mode = "LOCK" THEN left ELSE left \cap InWord(wr[w].word)
<1>1. /\ wr[w].lo \in Nat /\ wr[w].hi \in Nat /\ wr[w].word \in Nat /\ wr \in [Writers -> WrType]
      /\ Extent(w) = wr[w].lo .. wr[w].hi
  <2>1. wr \in [Writers -> WrType]
    BY DEF TrackInv, TrackTypeOK, WrType
  <2>2. wr[w].lo \in MemBlocks /\ wr[w].hi \in MemBlocks /\ wr[w].word \in 0 .. NBlocks
    BY <2>1 DEF WrType
  <2>3. wr[w].lo \in Nat /\ wr[w].hi \in Nat
    BY <2>2, Sizes
  <2>4. wr[w].word \in Nat
    BY <2>2, Sizes
  <2> QED BY <2>1, <2>3, <2>4, Zenon DEF Extent
<1>2. ASSUME NEW b \in Extent(w) \cap Blocks PROVE b \in wr[w].lo .. b_hi(w) /\ WordOf(b) \in Nat
  <2>1. b \in Nat /\ NBlocks \in Nat /\ b <= NBlocks - 1 /\ wr[w].lo <= b /\ b <= wr[w].hi
    BY <1>1, Sizes DEF Blocks
  <2>2. b_hi(w) \in Int /\ b <= b_hi(w)
    BY <2>1, <1>1 DEF b_hi
  <2> QED BY <2>1, <2>2, <1>1, WordFacts
<1>5. /\ bits' = bits \cup now
      /\ wr' = [wr EXCEPT ![w] = IF now = left THEN after
                                 ELSE [wr[w] EXCEPT !.word = wr[w].word + 1]]
  BY Zenon DEF OrBits
<1>6. CASE now = left
  <2>1. wr' = [wr EXCEPT ![w] = after]
    BY <1>5, <1>6, Zenon
  <2>2. wr'[w] = after
    BY <1>1, <2>1
  <2>3. ASSUME NEW b \in Extent(w) \cap Blocks PROVE b \in Marked(w) \cup bits'
    <3>1. CASE WordOf(b) < wr[w].word
      BY <3>1 DEF Marked
    <3>2. CASE WordOf(b) >= wr[w].word
      BY <3>2, <1>2, <1>5, <1>6
    <3> QED BY <3>1, <3>2, <1>1, <1>2
  <2>4. wr'[w].pc = "bump" => wr'[w].lo .. wr'[w].hi = Extent(w)
    BY <2>2, <1>1
  <2>5. wr'[w].pc = "bump" => Extent(w)' = Extent(w)
    BY <2>4 DEF Extent
  <2>6. Marked(w)' \subseteq Extent(w)
    BY <2>2, <2>5 DEF Marked
  <2> QED BY <2>2, <2>3, <2>5, <2>6
<1>7. CASE now # left
  <2>1. wr' = [wr EXCEPT ![w] = [wr[w] EXCEPT !.word = wr[w].word + 1]]
    BY <1>5, <1>7, Zenon
  <2>2. /\ wr'[w].pc = "mark" /\ wr'[w].lo = wr[w].lo /\ wr'[w].hi = wr[w].hi
        /\ wr'[w].word = wr[w].word + 1
    BY <1>1, <2>1 DEF WrType
  <2>3. Extent(w)' = Extent(w)
    BY <2>2 DEF Extent
  <2>4. mode # "LOCK" /\ now = left \cap InWord(wr[w].word)
    BY <1>7
  <2>5. ASSUME NEW b \in Extent(w) \cap Blocks, WordOf(b) < wr[w].word + 1
        PROVE  b \in Marked(w) \cup bits'
    <3>1. CASE WordOf(b) < wr[w].word
      BY <3>1 DEF Marked
    <3>2. CASE WordOf(b) = wr[w].word
      <4>1. b \in left /\ b \in InWord(wr[w].word)
        BY <3>2, <1>1, <1>2 DEF InWord
      <4> QED BY <4>1, <2>4, <1>5
    <3> QED BY <3>1, <3>2, <2>5, <1>1, <1>2
  <2>6. Marked(w)' = {b \in Extent(w) : WordOf(b) < wr[w].word + 1}
    BY <2>2, <2>3 DEF Marked
  <2> QED BY <2>2, <2>3, <2>5, <2>6
<1> QED BY <1>6, <1>7

LEMMA WriterMarks ==
  ASSUME NEW w \in Writers, TrackInv, WriterStep(w)
  PROVE  /\ Marked(w)' \cap Blocks \subseteq Marked(w) \cup bits'
         /\ wr'[w].pc = "idle" => Extent(w) \cap Blocks \subseteq Marked(w) \cup bits'
         /\ wr'[w].pc # "idle" => Extent(w)' = Extent(w)
         /\ wr[w].pc # "idle" /\ unflushed \subseteq unflushed' /\ unflushed' \subseteq unflushed \cup Extent(w)
         /\ \A v \in Writers \ {w} : wr'[v] = wr[v]
<1>1. wr[w] \in WrType /\ wr \in [Writers -> WrType]
  BY DEF TrackInv, TrackTypeOK, WrType
<1>2. CASE MarkBits(w)
  <2>1. [wr[w] EXCEPT !.pc = "bump"] \in WrType
    BY <1>1 DEF WrType
  <2>2. wr[w].pc = "mark" /\ OrBits(w, [wr[w] EXCEPT !.pc = "bump"]) /\ unflushed' = unflushed
    BY <1>2 DEF MarkBits
  <2>3. /\ [wr[w] EXCEPT !.pc = "bump"].pc = "bump"
        /\ [wr[w] EXCEPT !.pc = "bump"].lo = wr[w].lo /\ [wr[w] EXCEPT !.pc = "bump"].hi = wr[w].hi
    BY <1>1 DEF WrType
  <2>4. \A v \in Writers \ {w} : wr'[v] = wr[v]
    BY <1>1, <2>2 DEF OrBits
  <2> QED BY <2>1, <2>2, <2>3, <2>4, MarkingFacts
<1>3. CASE bt_merge(w)
  <2>1. Idle \in WrType /\ Idle.pc = "idle"
    BY Sizes DEF WrType, Idle
  <2>2. wr[w].pc = "mark" /\ OrBits(w, Idle) /\ unflushed' = unflushed
    BY <1>3 DEF bt_merge
  <2>3. \A v \in Writers \ {w} : wr'[v] = wr[v]
    BY <1>1, <2>2 DEF OrBits
  <2> QED BY <2>1, <2>2, <2>3, MarkingFacts
<1>4. CASE WriteData(w)
  <2>1. wr[w].pc = "data" /\ wr' = [wr EXCEPT ![w].pc = "mark"] /\ unflushed' = unflushed \cup Extent(w)
    BY <1>4 DEF WriteData, Store
  <2>2. /\ wr'[w].pc = "mark" /\ wr'[w].lo = wr[w].lo /\ wr'[w].hi = wr[w].hi
        /\ wr'[w].word = wr[w].word /\ \A v \in Writers \ {w} : wr'[v] = wr[v]
    BY <1>1, <2>1 DEF WrType
  <2>3. Extent(w)' = Extent(w)
    BY <2>2 DEF Extent
  <2>4. Marked(w)' = Marked(w)
    BY <2>1, <2>2, <2>3 DEF Marked
  <2> QED BY <2>1, <2>2, <2>3, <2>4
<1>5. CASE Bump(w) \/ FindToken(w) \/ OpenToken(w) \/ Land(w) \/ bt_dma_complete(w)
  <2>1. wr[w].pc \in {"bump", "token", "found", "landing", "complete"}
    BY <1>5 DEF Bump, FindToken, OpenToken, Land, bt_dma_complete
  <2>2. Marked(w) = Extent(w)
    BY <2>1 DEF Marked
  <2>3. /\ \A v \in Writers \ {w} : wr'[v] = wr[v]
        /\ wr'[w].pc # "idle" => wr'[w].lo = wr[w].lo /\ wr'[w].hi = wr[w].hi
    <3>1. CASE Bump(w)
      BY <1>1, <3>1 DEF Bump, Idle, WrType
    <3>2. CASE FindToken(w)
      BY <1>1, <3>2 DEF FindToken, Idle, WrType
    <3>3. CASE OpenToken(w) \/ Land(w) \/ bt_dma_complete(w)
      BY <1>1, <3>3 DEF OpenToken, Land, bt_dma_complete, Idle, WrType
    <3> QED BY <3>1, <3>2, <3>3, <1>5
  <2>4. wr'[w].pc # "idle" => Extent(w)' = Extent(w)
    BY <2>3 DEF Extent
  <2>5. Marked(w)' \subseteq Extent(w)
    BY <2>4 DEF Marked
  <2>6. unflushed \subseteq unflushed' /\ unflushed' \subseteq unflushed \cup Extent(w)
    BY <1>5 DEF Bump, FindToken, OpenToken, Land, bt_dma_complete, Store
  <2> QED BY <2>1, <2>2, <2>3, <2>4, <2>5, <2>6
<1> QED BY <1>2, <1>3, <1>4, <1>5 DEF WriterStep

\* The marks and the blocks of the writers that do not move.
LEMMA OthersStay ==
  ASSUME NEW v \in Writers, wr'[v] = wr[v]
  PROVE  Marked(v)' = Marked(v) /\ Extent(v)' = Extent(v) /\ (wr'[v].pc = "idle" <=> wr[v].pc = "idle")
  BY DEF Marked, Extent

LEMMA DirtyWriting ==
  ASSUME mode # "SHARD", NEW w \in Writers, BaseInv, DirtyInv, Writing(w)
  PROVE  DirtyInv'
<1>1. WriterStep(w) /\ UNCHANGED <<fpc, snap, touched, raced, missed>> /\ TrackInv
  BY DEF Writing, flushVars, BaseInv
<1>2. bits \subseteq bits'
  BY <1>1, WriterBits
<1>3. Extent(w) \subseteq Busy
  BY <1>1, WriterMarks, BusyFacts
<1>4. MarksKept'
  <2> SUFFICES ASSUME NEW v \in Writers
               PROVE  Marked(v)' \cap Blocks \subseteq bits' \cup raced \cup (touched \cap snap)
    BY <1>1 DEF MarksKept
  <2>1. Marked(v) \cap Blocks \subseteq bits \cup raced \cup (touched \cap snap)
    BY DEF DirtyInv, MarksKept
  <2>2. Marked(v)' \cap Blocks \subseteq Marked(v) \cup bits'
    BY <1>1, WriterMarks, OthersStay
  <2> QED BY <2>1, <2>2, <1>2
<1>5. Busy' \subseteq Busy
  <2> SUFFICES ASSUME NEW v \in Writers, wr'[v].pc # "idle", NEW b \in Extent(v)' PROVE b \in Busy
    BY DEF Busy
  <2>1. Extent(v)' = Extent(v) /\ wr[v].pc # "idle"
    BY <1>1, WriterMarks, OthersStay
  <2> QED BY <2>1, BusyFacts
<1>6. Busy \cap Blocks \subseteq Busy' \cup bits' \cup raced \cup (touched \cap snap)
  <2> SUFFICES ASSUME NEW v \in Writers, wr[v].pc # "idle", NEW b \in Extent(v) \cap Blocks
               PROVE  b \in Busy' \cup bits' \cup raced \cup (touched \cap snap)
    BY DEF Busy
  <2>1. CASE wr'[v].pc # "idle"
    <3>1. Extent(v)' = Extent(v)
      BY <2>1, <1>1, WriterMarks, OthersStay
    <3> QED BY <3>1, <2>1 DEF Busy
  <2>2. CASE wr'[v].pc = "idle"
    <3>1. v = w
      BY <2>2, <1>1, WriterMarks, OthersStay
    <3>2. b \in Marked(w) \cup bits'
      BY <3>1, <2>2, <1>1, WriterMarks
    <3>3. Marked(w) \cap Blocks \subseteq bits \cup raced \cup (touched \cap snap)
      BY DEF DirtyInv, MarksKept
    <3> QED BY <3>2, <3>3, <1>2
  <2> QED BY <2>1, <2>2
<1>7. DirtyAccounted'
  <2>1. unflushed' \subseteq unflushed \cup Busy
    BY <1>1, <1>3, WriterMarks
  <2>2. unflushed' \cap Blocks
          \subseteq bits' \cup Busy' \cup raced \cup (touched \cap snap) \cup missed
    BY <2>1, <1>2, <1>6 DEF DirtyInv, DirtyAccounted
  <2> QED BY <2>2, <1>1 DEF DirtyAccounted
<1>8. SnapshotUsed'
  <2>1. unflushed' \subseteq unflushed \cup Extent(w)
    BY <1>1, WriterMarks
  <2> QED BY <2>1, <1>1, <1>2, <1>3, <1>5 DEF DirtyInv, SnapshotUsed
<1> QED BY <1>4, <1>7, <1>8 DEF DirtyInv

LEMMA DirtyBegin ==
  ASSUME mode # "SHARD", NEW w \in Writers, BaseInv, DirtyInv, Begin(w)
  PROVE  DirtyInv'
<1> DEFINE extent == wr'[w].lo .. wr'[w].hi
<1>1. /\ BeginWrite(w) /\ UNCHANGED <<fpc, snap, bits, unflushed>> /\ wr[w].pc = "idle"
      /\ raced' = raced \ (extent \ Busy) /\ missed' = missed \ extent
      /\ touched \subseteq touched' /\ (fpc = "clear" => touched' = touched \cup extent)
  BY DEF Begin, BeginWrite
<1>2. TrackInv' /\ TrackInv
  BY <1>1, BeginOK DEF BaseInv
<1>3. /\ wr'[w].pc \in {"data", "mark"} /\ wr'[w].word = WordOf(wr'[w].lo)
      /\ \A v \in Writers \ {w} : wr'[v] = wr[v]
  <2>1. wr \in [Writers -> WrType]
    BY <1>2 DEF TrackInv, TrackTypeOK, WrType
  <2> QED BY <1>1, <2>1 DEF BeginWrite
<1>4. Marked(w)' = {}
  <2>1. wr'[w].lo \in MemBlocks /\ wr'[w].hi \in MemBlocks
    BY <1>2 DEF TrackInv, TrackTypeOK
  <2>2. ASSUME NEW b \in extent PROVE ~(WordOf(b) < WordOf(wr'[w].lo))
    <3>1. wr'[w].lo \in Nat /\ wr'[w].hi \in Nat
      BY <2>1, Sizes
    <3>2. b \in Nat /\ wr'[w].lo <= b
      BY <3>1
    <3>3. WordOf(wr'[w].lo) <= WordOf(b) /\ WordOf(b) \in Nat /\ WordOf(wr'[w].lo) \in Nat
      BY <3>1, <3>2, WordFacts
    <3> QED BY <3>3
  <2> QED BY <2>2, <1>3 DEF Marked, Extent
<1>5. Busy' = Busy \cup extent
  <2>1. ASSUME NEW v \in Writers, wr'[v].pc # "idle", NEW b \in Extent(v)' PROVE b \in Busy \cup extent
    <3>1. CASE v = w
      BY <3>1, <2>1 DEF Extent
    <3>2. CASE v # w
      BY <3>2, <2>1, <1>3, OthersStay, BusyFacts
    <3> QED BY <3>1, <3>2
  <2>2. ASSUME NEW v \in Writers, wr[v].pc # "idle", NEW b \in Extent(v) PROVE b \in Busy'
    <3>1. v # w /\ wr'[v].pc # "idle" /\ Extent(v)' = Extent(v)
      BY <2>2, <1>1, <1>3, OthersStay
    <3> QED BY <2>2, <3>1 DEF Busy
  <2>3. extent \subseteq Busy'
    BY <1>3 DEF Busy, Extent
  <2>4. Busy' \subseteq Busy \cup extent
    BY <2>1 DEF Busy
  <2>5. Busy \subseteq Busy'
    BY <2>2 DEF Busy
  <2> QED BY <2>3, <2>4, <2>5
<1>6. MarksKept'
  <2> SUFFICES ASSUME NEW v \in Writers
               PROVE  Marked(v)' \cap Blocks \subseteq bits \cup raced' \cup (touched' \cap snap)
    BY <1>1 DEF MarksKept
  <2>1. CASE v = w
    BY <2>1, <1>4
  <2>2. CASE v # w
    <3>1. Marked(v)' = Marked(v)
      BY <2>2, <1>3, OthersStay
    <3>2. Marked(v) \subseteq Busy
      BY MarkedBusy
    <3>3. Marked(v) \cap Blocks \subseteq bits \cup raced \cup (touched \cap snap)
      BY DEF DirtyInv, MarksKept
    <3> QED BY <3>1, <3>2, <3>3, <1>1
  <2> QED BY <2>1, <2>2
<1>7. DirtyAccounted'
  BY <1>1, <1>5 DEF DirtyInv, DirtyAccounted
<1>8. SnapshotUsed'
  BY <1>1, <1>5 DEF DirtyInv, SnapshotUsed
<1> QED BY <1>6, <1>7, <1>8 DEF DirtyInv

LEMMA DirtyBoundary ==
  ASSUME mode # "SHARD", BaseInv, DirtyInv,
         Suspicion \/ FullFallback \/ bf_boundary \/ ReadWord \/ Flush \/ FlushPart
  PROVE  DirtyInv'
<1>1. UNCHANGED <<bits, wr>> /\ unflushed' \subseteq unflushed
  BY DEF Suspicion, bt_flag_suspect, FullFallback, bf_boundary, ReadWord, Flush, FlushPart, trackVars, flushVars
<1>2. Busy' = Busy /\ \A v \in Writers : Marked(v)' = Marked(v)
  BY <1>1 DEF Busy, Marked, Extent
<1>3. ASSUME touched \cap snap \subseteq bits \cup (touched' \cap snap'),
             raced \cap (unflushed' \cup Busy) \subseteq raced',
             missed \cap unflushed' \subseteq missed'
      PROVE  DirtyAccounted' /\ MarksKept'
  <2>1. unflushed' \cap Blocks
          \subseteq bits \cup Busy \cup raced' \cup (touched' \cap snap') \cup missed'
    BY <1>1, <1>3 DEF DirtyInv, DirtyAccounted
  <2>2. DirtyAccounted'
    BY <2>1, <1>1, <1>2 DEF DirtyAccounted
  <2>3. ASSUME NEW v \in Writers
        PROVE  Marked(v)' \cap Blocks \subseteq bits' \cup raced' \cup (touched' \cap snap')
    <3>1. Marked(v) \subseteq Busy
      BY MarkedBusy
    <3>2. Marked(v) \cap Blocks \subseteq bits \cup raced \cup (touched \cap snap)
      BY DEF DirtyInv, MarksKept
    <3> QED BY <3>1, <3>2, <1>1, <1>2, <1>3
  <2>4. MarksKept'
    BY <2>3 DEF MarksKept
  <2> QED BY <2>2, <2>4
<1>4. CASE Suspicion \/ FullFallback
  <2>1. /\ UNCHANGED <<fpc, snap, touched>>
        /\ (UNCHANGED <<raced, missed, unflushed>> \/ (unflushed' = {} /\ raced' = raced \cap Busy))
    BY <1>4 DEF Suspicion, bt_flag_suspect, FullFallback, flushVars
  <2> QED BY <2>1, <1>1, <1>2, <1>3 DEF DirtyInv, SnapshotUsed
<1>5. CASE bf_boundary
  <2>1. /\ fpc = "idle" /\ fpc' \in {"pass1", "flush"} /\ snap' \subseteq bits
        /\ UNCHANGED <<touched, raced, missed>>
    BY <1>5 DEF bf_boundary
  <2>2. snap = {}
    BY <2>1 DEF DirtyInv, SnapshotUsed
  <2> QED BY <2>1, <2>2, <1>1, <1>2, <1>3 DEF DirtyInv, SnapshotUsed
<1>6. CASE ReadWord
  <2>1. /\ fpc \in {"pass1", "pass2"} /\ fpc' \in {"pass1", "pass2", "flush"}
        /\ snap' = snap \cup (bits \cap InWord(fword)) /\ UNCHANGED <<touched, raced, missed>>
    BY <1>6 DEF ReadWord
  <2> QED BY <2>1, <1>1, <1>2, <1>3 DEF DirtyInv, SnapshotUsed
<1>7. CASE Flush \/ FlushPart
  <2>1. /\ fpc = "flush" /\ fpc' = "clear" /\ touched' = Busy
        /\ raced' = raced \cap (unflushed' \cup Busy)
    BY <1>7 DEF Flush, FlushPart
  <2>2. snap \subseteq bits
    BY <2>1 DEF DirtyInv, SnapshotUsed
  <2>3. missed \cap unflushed' \subseteq missed' /\ unflushed' \cap snap' \subseteq missed'
    <3>1. CASE Flush
      <4>1. PICK t \in Tunings :
              LET covered == Covered(build_ranges(snap, t.decide_gran), t.decide_gran)
              IN  \/ /\ unflushed' = unflushed \ covered
                     /\ missed' = (missed \cup (snap \cap unflushed)) \ covered
                  \/ unflushed' = {} /\ missed' = {}
        BY <3>1, Zenon DEF Flush
      <4>2. snap' = snap
        BY <3>1 DEF Flush
      <4> QED BY <4>1, <4>2, Zenon
    <3>2. CASE FlushPart
      <4>1. PICK part \in Parts :
              unflushed' = unflushed \ part /\ snap' = snap \cap part /\ missed' = missed \ part
        BY <3>2 DEF FlushPart
      <4> QED BY <4>1
    <3> QED BY <1>7, <3>1, <3>2
  <2> QED BY <2>1, <2>2, <2>3, <1>1, <1>2, <1>3 DEF DirtyInv, SnapshotUsed
<1> QED BY <1>4, <1>5, <1>6, <1>7

LEMMA DirtyClear ==
  ASSUME mode # "SHARD", BaseInv, DirtyInv, ClearBits
  PROVE  DirtyInv'
<1>1. fpc = "clear" /\ UNCHANGED <<wr, unflushed, missed>>
  BY DEF ClearBits, DirtyInv, SnapshotUsed
<1>2. bits' \subseteq bits /\ bits \subseteq bits' \cup snap
  <2>1. bits' \in {Cleared(Words), Cleared({fword})}
    BY <1>1 DEF ClearBits
  <2> QED BY <2>1 DEF Cleared
<1>3. Busy' = Busy /\ \A v \in Writers : Marked(v)' = Marked(v)
  BY <1>1 DEF Busy, Marked, Extent
<1>4. Busy \subseteq touched /\ unflushed \cap snap \subseteq touched \cup missed
  BY <1>1 DEF DirtyInv, SnapshotUsed
<1>5. ASSUME raced \cup (touched \cap snap) \subseteq raced' \cup (touched' \cap snap')
      PROVE  DirtyAccounted' /\ MarksKept'
  <2>1. unflushed \cap Blocks
          \subseteq bits' \cup Busy \cup raced' \cup (touched' \cap snap') \cup missed
    BY <1>2, <1>4, <1>5 DEF DirtyInv, DirtyAccounted
  <2>2. DirtyAccounted'
    BY <2>1, <1>1, <1>3 DEF DirtyAccounted
  <2>3. ASSUME NEW v \in Writers
        PROVE  Marked(v) \cap Blocks \subseteq bits' \cup raced' \cup (touched' \cap snap')
    <3>1. Marked(v) \subseteq touched
      BY <1>4, MarkedBusy
    <3>2. Marked(v) \cap Blocks \subseteq bits \cup raced \cup (touched \cap snap)
      BY DEF DirtyInv, MarksKept
    <3> QED BY <3>1, <3>2, <1>2, <1>5
  <2>4. MarksKept'
    BY <2>3, <1>3 DEF MarksKept
  <2> QED BY <2>2, <2>4
<1>6. CASE UNCHANGED <<snap, touched, raced>> /\ fpc' = "clear"
  <2>1. SnapshotUsed'
    BY <1>1, <1>3, <1>4, <1>6 DEF SnapshotUsed
  <2> QED BY <2>1, <1>5, <1>6 DEF DirtyInv
<1>7. CASE fpc' = "idle" /\ snap' = {} /\ touched' = {} /\ raced' = raced \cup (touched \cap snap)
  <2>1. SnapshotUsed'
    BY <1>7 DEF SnapshotUsed
  <2> QED BY <2>1, <1>5, <1>7 DEF DirtyInv
<1> QED BY <1>1, <1>6, <1>7 DEF ClearBits

LEMMA DirtyStep ==
  ASSUME mode # "SHARD", BaseInv, DirtyInv, [Next]_vars
  PROVE  DirtyInv'
<1>1. CASE UNCHANGED vars
  <2>1. UNCHANGED <<mode, bits, wr, unflushed, fpc, snap, touched, raced, missed>>
    BY <1>1 DEF vars, trackVars, flushVars
  <2>2. Busy' = Busy /\ \A v \in Writers : Marked(v)' = Marked(v)
    BY <2>1 DEF Busy, Marked, Extent
  <2> QED BY <2>1, <2>2 DEF DirtyInv, DirtyAccounted, MarksKept, SnapshotUsed
<1> QED BY <1>1, DirtyBegin, DirtyWriting, DirtyBoundary, DirtyClear DEF Next

\* The concurrency mode is chosen once.
LEMMA ModeFixed == [Next]_vars => mode' = mode
<1> SUFFICES ASSUME [Next]_vars PROVE mode' = mode
  OBVIOUS
<1>1. CASE UNCHANGED vars
  BY <1>1 DEF vars, trackVars
<1>2. ASSUME NEW w \in Writers, Begin(w) \/ Writing(w) PROVE mode' = mode
  <2>1. CASE Begin(w)
    BY <2>1 DEF Begin, BeginWrite
  <2>2. CASE Writing(w)
    BY <2>2 DEF Writing, WriterStep, WriteData, MarkBits, bt_merge, Bump, FindToken,
                OpenToken, Land, bt_dma_complete
  <2> QED BY <1>2, <2>1, <2>2
<1>3. CASE Suspicion \/ FullFallback \/ bf_boundary \/ ReadWord \/ Flush \/ FlushPart \/ ClearBits
  BY <1>3 DEF Suspicion, bt_flag_suspect, FullFallback, bf_boundary, ReadWord, Flush, FlushPart,
              ClearBits, trackVars
<1> QED BY <1>1, <1>2, <1>3 DEF Next

LEMMA InitDirty == Init => DirtyInv
<1> SUFFICES ASSUME Init PROVE DirtyInv
  OBVIOUS
<1>1. \A w \in Writers : wr[w].pc = "idle"
  BY DEF Init, TrackInit, Idle
<1>2. Busy = {} /\ \A w \in Writers : Marked(w) = {}
  BY <1>1 DEF Busy, Marked
<1> QED BY <1>2 DEF Init, TrackInit, DirtyInv, DirtyAccounted, MarksKept, SnapshotUsed

\* However many writers there are and however their hooks interleave with the
\* boundary, whatever build_ranges returns and whether or not the memory ends in a
\* part of a block: a block that has a bit and was written and not flushed since has
\* its bit set, is being written, was written between the flush of a boundary and
\* its clear, or was left out by the ranges.  The protocol of snapshot, flush and
\* masked clear loses no block of its own.
THEOREM DirtyIsKept == Spec => []DirtyAccounted
<1> DEFINE Kept == mode = "SHARD" \/ DirtyInv
<1>1. Init => BaseInv /\ Kept
  BY InitBase, InitDirty
<1>2. BaseInv /\ Kept /\ [Next]_vars => (BaseInv /\ Kept)'
  BY BaseStep, DirtyStep, ModeFixed
<1>3. Kept => DirtyAccounted
  BY DEF DirtyInv, DirtyAccounted
<1> QED BY <1>1, <1>2, <1>3, PTL DEF Spec
=============================================================================
