---------------------------- MODULE BTrack_proofs ----------------------------
(***************************************************************************)
(* Facts about the write tracker that the proofs of the boundary and of    *)
(* the cache share: the steps of its writers keep its types, for any       *)
(* number of writers, blocks, words and tokens.                            *)
(***************************************************************************)
EXTENDS BTrack, FiniteSetTheorems, WellFoundedInduction, TLAPS

\* The writers that have still to advance the versions of what they overlap.
Pending == {w \in Writers : wr[w].pc \in {"data", "mark", "bump"} /\ wr[w].kind # "ext"}

\* Every write advances a version at most once.
VersionsBounded == \A b \in Bufs : ver[b] + Cardinality(Pending) <= nwrites

\* What another source knows goes no further than the bitmap.
HooksOnly == \A w \in Writers : wr[w].pc \notin {"idle", "data", "mark"} => wr[w].kind # "ext"

TrackInv == TrackTypeOK /\ VersionsBounded /\ HooksOnly

\* What a writer can be doing.
WrType == [pc : {"idle", "data", "mark", "bump", "token", "found", "landing", "complete"},
           kind : {"cpu", "dma", "ext"}, lo : MemBlocks, hi : MemBlocks,
           word : 0 .. NBlocks, token : 0 .. MaxTokens]

-----------------------------------------------------------------------------
(***************************************************************************)
(* Numbers.                                                                *)
(***************************************************************************)
\* Every set of naturals that has an element has a least one, and Min is that one
\* (the first free token of bt_mark_dma_write, the first free slot of the cache).
LEMMA LeastElement ==
  ASSUME NEW S \in SUBSET Nat, S # {}
  PROVE  Min(S) \in S /\ \A y \in S : Min(S) <= y
<1>1. \E x \in S : \A y \in S : ~ (<<y, x>> \in OpToRel(<, Nat))
  BY NatLessThanWellFounded, WFMin, Zenon
<1>2. PICK x \in S : \A y \in S : ~ (<<y, x>> \in OpToRel(<, Nat))
  BY <1>1
<1>3. ASSUME NEW y \in S PROVE x <= y
  <2>1. ~ (<<y, x>> \in {ss \in Nat \X Nat : ss[1] < ss[2]})
    BY <1>2 DEF OpToRel
  <2> QED BY <2>1
<1> QED BY <1>3 DEF Min

LEMMA DivMonotone ==
  ASSUME NEW a \in Nat, NEW b \in Nat, NEW n \in Nat \ {0}, a <= b
  PROVE  a \div n <= b \div n
  BY SMT

\* The word of a block: not past its number, and in the order of the blocks.
LEMMA WordFacts ==
  /\ \A b \in Nat : WordOf(b) \in Nat /\ WordOf(b) <= b
  /\ \A a, b \in Nat : a <= b => WordOf(a) <= WordOf(b)
<1>1. WordBits \in Nat \ {0}
  BY TrackAssumption
<1>2. ASSUME NEW b \in Nat PROVE b \div WordBits \in Nat /\ b \div WordBits <= b
  BY <1>1
<1>3. ASSUME NEW a \in Nat, NEW b \in Nat, a <= b PROVE a \div WordBits <= b \div WordBits
  BY <1>1, <1>3, DivMonotone
<1> QED BY <1>2, <1>3 DEF WordOf

\* Sizes of the memory and of the bitmap.
LEMMA Sizes ==
  /\ NBlocks \in Nat \ {0} /\ NBlocks + TailBlocks - 1 \in Nat
  /\ NBlocks + TailBlocks - 1 <= NBlocks
  /\ Blocks \subseteq MemBlocks /\ MemBlocks \subseteq Nat
  /\ 0 \in Blocks
  /\ MaxTokens \in Nat /\ MaxWrites \in Nat
  BY TrackAssumption DEF Blocks, MemBlocks

\* The blocks of a write are blocks of the memory.
LEMMA IntervalFacts ==
  ASSUME NEW lo \in MemBlocks, NEW hi \in MemBlocks
  PROVE  lo .. hi \subseteq MemBlocks
<1>1. lo \in Nat /\ hi \in Nat /\ hi <= NBlocks + TailBlocks - 1
  BY Sizes DEF MemBlocks
<1>2. lo .. hi \subseteq 0 .. NBlocks + TailBlocks - 1
  BY <1>1, Sizes
<1> QED BY <1>2 DEF MemBlocks

LEMMA ExtentFacts ==
  ASSUME NEW w \in Writers, TrackTypeOK
  PROVE  Extent(w) \subseteq MemBlocks
<1>1. wr[w].lo \in MemBlocks /\ wr[w].hi \in MemBlocks
  BY DEF TrackTypeOK
<1> QED BY <1>1, IntervalFacts DEF Extent

LEMMA ExtentFactsPrime ==
  ASSUME NEW w \in Writers, TrackTypeOK'
  PROVE  wr'[w].lo .. wr'[w].hi \subseteq MemBlocks
<1>1. wr'[w].lo \in MemBlocks /\ wr'[w].hi \in MemBlocks
  BY DEF TrackTypeOK
<1> QED BY <1>1, IntervalFacts

LEMMA PendingFinite == IsFiniteSet(Pending) /\ Cardinality(Pending) \in Nat
<1>1. Pending \subseteq Writers
  BY DEF Pending
<1> QED BY <1>1, TrackAssumption, FS_Subset, FS_CardinalityType

LEMMA PendingFinitePrime == IsFiniteSet(Pending') /\ Cardinality(Pending') \in Nat
<1>1. Pending' \subseteq Writers
  BY DEF Pending
<1> QED BY <1>1, TrackAssumption, FS_Subset, FS_CardinalityType

-----------------------------------------------------------------------------
(***************************************************************************)
(* The steps of a writer.                                                  *)
(***************************************************************************)
LEMMA TrackInitOK == TrackInit => TrackInv
<1> SUFFICES ASSUME TrackInit PROVE TrackInv
  OBVIOUS
<1>1. Idle \in WrType
  BY Sizes DEF Idle, WrType
<1>2. TrackTypeOK
  <2>1. bits \subseteq Blocks /\ unflushed \subseteq MemBlocks /\ mode \in Modes
    BY DEF TrackInit
  <2>2. ver \in [Bufs -> 0 .. MaxWrites] /\ nwrites \in 0 .. MaxWrites
    BY Sizes DEF TrackInit
  <2>3. tok \in [Tokens -> {"free", "open", "closed"}] /\ suspect \in BOOLEAN
    BY DEF TrackInit
  <2>4. wr \in [Writers -> WrType]
    BY <1>1 DEF TrackInit
  <2> QED BY <2>1, <2>2, <2>3, <2>4 DEF TrackTypeOK, WrType
<1>3. Pending = {}
  BY DEF TrackInit, Pending, Idle
<1>4. VersionsBounded
  BY <1>3, FS_EmptySet, Sizes DEF TrackInit, VersionsBounded
<1>5. HooksOnly
  BY DEF TrackInit, HooksOnly, Idle
<1> QED BY <1>2, <1>4, <1>5 DEF TrackInv

\* A writer goes on to c.
LEMMA MovedOn ==
  ASSUME NEW w \in Writers, TrackInv, NEW c \in WrType, wr' = [wr EXCEPT ![w] = c],
         c.pc \notin {"idle", "data", "mark"} => c.kind # "ext"
  PROVE  wr' \in [Writers -> WrType] /\ HooksOnly'
  BY DEF TrackInv, TrackTypeOK, HooksOnly, WrType

\* It does so without advancing a version, and without passing the place where it
\* would.
LEMMA SamePending ==
  ASSUME NEW w \in Writers, TrackInv, UNCHANGED <<ver, nwrites>>,
         NEW c \in WrType, wr' = [wr EXCEPT ![w] = c],
         (c.pc \in {"data", "mark", "bump"} /\ c.kind # "ext")
           <=> (wr[w].pc \in {"data", "mark", "bump"} /\ wr[w].kind # "ext")
  PROVE  VersionsBounded'
<1>1. \A v \in Writers : v \in Pending' <=> v \in Pending
  BY DEF Pending, TrackInv, TrackTypeOK
<1>2. Pending' = Pending
  BY <1>1 DEF Pending
<1> QED BY <1>2 DEF VersionsBounded, TrackInv

LEMMA BeginOK ==
  ASSUME NEW w \in Writers, TrackInv, BeginWrite(w)
  PROVE  TrackInv'
<1>1. PICK kind \in Kinds, lo \in MemBlocks : \E hi \in lo .. NBlocks + TailBlocks - 1 :
        wr' = [wr EXCEPT ![w] =
                [pc |-> IF kind = "dma" THEN "mark" ELSE "data",
                 kind |-> kind, lo |-> lo, hi |-> hi, word |-> WordOf(lo), token |-> 0]]
  BY DEF BeginWrite
<1>2. PICK hi \in lo .. NBlocks + TailBlocks - 1 :
        wr' = [wr EXCEPT ![w] =
                [pc |-> IF kind = "dma" THEN "mark" ELSE "data",
                 kind |-> kind, lo |-> lo, hi |-> hi, word |-> WordOf(lo), token |-> 0]]
  BY <1>1
<1> DEFINE c == [pc |-> IF kind = "dma" THEN "mark" ELSE "data",
                 kind |-> kind, lo |-> lo, hi |-> hi, word |-> WordOf(lo), token |-> 0]
<1>3. hi \in MemBlocks
  BY Sizes DEF MemBlocks
<1>4. WordOf(lo) \in 0 .. NBlocks
  <2>1. lo \in Nat /\ lo <= NBlocks + TailBlocks - 1
    BY Sizes DEF MemBlocks
  <2>2. WordOf(lo) \in Nat /\ WordOf(lo) <= lo
    BY <2>1, WordFacts
  <2> QED BY <2>1, <2>2, Sizes
<1>5. kind \in {"cpu", "dma", "ext"}
  BY TrackAssumption
<1>6. c \in WrType
  BY <1>3, <1>4, <1>5, Sizes DEF WrType
<1>7. wr' = [wr EXCEPT ![w] = c] /\ wr \in [Writers -> WrType]
  BY <1>2 DEF TrackInv, TrackTypeOK, WrType
<1>8. wr' \in [Writers -> WrType] /\ HooksOnly'
  BY <1>6, <1>7, MovedOn
<1>9. nwrites' = nwrites + 1 /\ nwrites' \in 0 .. MaxWrites /\ ver' = ver
  BY Sizes DEF BeginWrite, TrackInv, TrackTypeOK
<1>10. TrackTypeOK'
  BY <1>8, <1>9 DEF TrackInv, TrackTypeOK, BeginWrite, WrType
<1>11. Pending' \subseteq Pending \cup {w} /\ w \notin Pending
  BY <1>7 DEF Pending, BeginWrite
<1>12. Cardinality(Pending') <= Cardinality(Pending) + 1
  <2>1. IsFiniteSet(Pending \cup {w}) /\ Cardinality(Pending \cup {w}) = Cardinality(Pending) + 1
    BY <1>11, PendingFinite, FS_AddElement
  <2>2. Cardinality(Pending') <= Cardinality(Pending \cup {w})
    BY <1>11, <2>1, FS_Subset
  <2> QED BY <2>1, <2>2
<1>13. VersionsBounded'
  <2> SUFFICES ASSUME NEW b \in Bufs PROVE ver[b] + Cardinality(Pending') <= nwrites + 1
    BY <1>9 DEF VersionsBounded
  <2>1. ver[b] \in Nat /\ nwrites \in Nat /\ ver[b] + Cardinality(Pending) <= nwrites
    BY Sizes DEF TrackInv, TrackTypeOK, VersionsBounded
  <2> QED BY <2>1, <1>12, PendingFinite, PendingFinitePrime
<1> QED BY <1>8, <1>10, <1>13 DEF TrackInv

\* One word, or all, of a range: what the bits become and where the call goes on.
LEMMA OrBitsFacts ==
  ASSUME NEW w \in Writers, TrackTypeOK, NEW after \in WrType, OrBits(w, after)
  PROVE  /\ bits' \subseteq Blocks /\ bits \subseteq bits'
         /\ \/ wr' = [wr EXCEPT ![w] = after]
            \/ /\ wr[w].word + 1 \in 0 .. NBlocks
               /\ wr' = [wr EXCEPT ![w] = [wr[w] EXCEPT !.word = wr[w].word + 1]]
<1> DEFINE left == {b \in wr[w].lo .. b_hi(w) : WordOf(b) >= wr[w].word}
           now == IF mode = "LOCK" THEN left ELSE left \cap InWord(wr[w].word)
<1>1. wr[w].lo \in MemBlocks /\ wr[w].hi \in MemBlocks /\ wr[w].word \in 0 .. NBlocks
  BY DEF TrackTypeOK
<1>2. b_hi(w) \in Int /\ b_hi(w) <= NBlocks - 1
  BY <1>1, Sizes DEF b_hi, MemBlocks
<1>3. wr[w].lo .. b_hi(w) \subseteq Blocks
  BY <1>1, <1>2, Sizes DEF MemBlocks, Blocks
<1>4. /\ bits' = bits \cup now
      /\ wr' = [wr EXCEPT ![w] = IF now = left THEN after
                                 ELSE [wr[w] EXCEPT !.word = wr[w].word + 1]]
  BY Zenon DEF OrBits
<1>5. ASSUME now # left PROVE wr[w].word + 1 \in 0 .. NBlocks
  <2>1. PICK b \in left : b \notin now
    BY <1>5
  <2>2. b \in Blocks /\ WordOf(b) # wr[w].word /\ WordOf(b) >= wr[w].word
    BY <1>3, <2>1 DEF InWord
  <2>3. WordOf(b) \in Nat /\ WordOf(b) <= NBlocks - 1
    BY <2>2, WordFacts, Sizes DEF Blocks
  <2> QED BY <2>2, <2>3, <1>1, Sizes
<1>6. bits' \subseteq Blocks /\ bits \subseteq bits'
  BY <1>3, <1>4 DEF TrackTypeOK
<1>7. CASE now = left
  BY <1>4, <1>6, <1>7, Zenon
<1>8. CASE now # left
  BY <1>4, <1>5, <1>6, <1>8, Zenon
<1> QED BY <1>7, <1>8

LEMMA MarkOK ==
  ASSUME NEW w \in Writers, TrackInv, MarkBits(w) \/ bt_merge(w)
  PROVE  TrackInv'
<1> DEFINE after == IF wr[w].kind = "ext" THEN Idle ELSE [wr[w] EXCEPT !.pc = "bump"]
           on == [wr[w] EXCEPT !.word = wr[w].word + 1]
<1>1. TrackTypeOK /\ VersionsBounded /\ wr[w] \in WrType /\ wr \in [Writers -> WrType]
  BY DEF TrackInv, TrackTypeOK, WrType
<1>2. Idle \in WrType
  BY Sizes DEF Idle, WrType
<1>3. after \in WrType
  BY <1>1, <1>2 DEF WrType
<1>4. wr[w].pc = "mark" /\ OrBits(w, after)
      /\ UNCHANGED <<mode, ver, tok, suspect, unflushed, nwrites>>
  BY DEF MarkBits, bt_merge
<1>5. /\ bits' \subseteq Blocks
      /\ wr' = [wr EXCEPT ![w] = after]
         \/ (wr[w].word + 1 \in 0 .. NBlocks /\ wr' = [wr EXCEPT ![w] = on])
  BY <1>1, <1>3, <1>4, OrBitsFacts
<1>6. PICK c \in {after, on} : c \in WrType /\ wr' = [wr EXCEPT ![w] = c]
  <2>1. CASE wr' = [wr EXCEPT ![w] = after]
    BY <2>1, <1>3
  <2>2. CASE wr[w].word + 1 \in 0 .. NBlocks /\ wr' = [wr EXCEPT ![w] = on]
    <3>1. on \in WrType
      BY <2>2, <1>1 DEF WrType
    <3> QED BY <3>1, <2>2
  <2> QED BY <2>1, <2>2, <1>5
<1>7. wr' \in [Writers -> WrType] /\ HooksOnly'
  <2>1. c.pc \notin {"idle", "data", "mark"} => c.kind # "ext"
    BY <1>1, <1>4, <1>6 DEF Idle, WrType
  <2> QED BY <2>1, <1>6, MovedOn
<1>8. TrackTypeOK'
  BY <1>1, <1>4, <1>5, <1>7 DEF TrackTypeOK, WrType
<1>9. (c.pc \in {"data", "mark", "bump"} /\ c.kind # "ext")
        <=> (wr[w].pc \in {"data", "mark", "bump"} /\ wr[w].kind # "ext")
  BY <1>1, <1>4 DEF Idle, WrType
<1>10. VersionsBounded'
  BY <1>4, <1>6, <1>9, SamePending
<1> QED BY <1>7, <1>8, <1>10 DEF TrackInv

LEMMA BumpOK ==
  ASSUME NEW w \in Writers, TrackInv, Bump(w)
  PROVE  TrackInv'
<1> DEFINE c == IF wr[w].kind = "cpu" THEN Idle ELSE [wr[w] EXCEPT !.pc = "token"]
<1>1. wr[w] \in WrType /\ wr \in [Writers -> WrType] /\ wr[w].pc = "bump"
  BY DEF TrackInv, TrackTypeOK, WrType, Bump
<1>2. c \in WrType
  BY <1>1, Sizes DEF Idle, WrType
<1>3. wr' = [wr EXCEPT ![w] = c] /\ UNCHANGED <<mode, bits, tok, suspect, unflushed, nwrites>>
  BY DEF Bump
<1>4. wr[w].kind # "ext" /\ w \in Pending
  BY <1>1 DEF TrackInv, HooksOnly, Pending
<1>5. wr' \in [Writers -> WrType] /\ HooksOnly'
  <2>1. c.kind # "ext"
    BY <1>1, <1>4 DEF Idle, WrType
  <2> QED BY <2>1, <1>2, <1>3, MovedOn
<1>6. Cardinality(Pending') + 1 <= Cardinality(Pending)
  <2>1. Pending' \subseteq Pending \ {w}
    BY <1>1, <1>3 DEF Pending, Idle
  <2>2. IsFiniteSet(Pending \ {w}) /\ Cardinality(Pending \ {w}) = Cardinality(Pending) - 1
    BY <1>4, PendingFinite, FS_RemoveElement
  <2>3. Cardinality(Pending') <= Cardinality(Pending \ {w})
    BY <2>1, <2>2, FS_Subset
  <2> QED BY <2>2, <2>3, PendingFinite, PendingFinitePrime
<1>7. ASSUME NEW b \in Bufs
      PROVE  ver'[b] \in 0 .. MaxWrites /\ ver'[b] + Cardinality(Pending') <= nwrites
  <2>1. ver[b] \in Nat /\ nwrites \in 0 .. MaxWrites /\ ver[b] + Cardinality(Pending) <= nwrites
    BY Sizes DEF TrackInv, TrackTypeOK, VersionsBounded
  <2>2. ver'[b] = ver[b] + 1 \/ ver'[b] = ver[b]
    BY DEF Bump
  <2> QED BY <2>1, <2>2, <1>6, PendingFinite, PendingFinitePrime, Sizes
<1>8. ver' \in [Bufs -> 0 .. MaxWrites]
  BY <1>7 DEF Bump
<1>9. VersionsBounded'
  BY <1>3, <1>7 DEF VersionsBounded
<1>10. TrackTypeOK'
  BY <1>3, <1>5, <1>8 DEF TrackInv, TrackTypeOK, WrType
<1> QED BY <1>5, <1>9, <1>10 DEF TrackInv

LEMMA TokenOK ==
  ASSUME NEW w \in Writers, TrackInv,
         WriteData(w) \/ FindToken(w) \/ OpenToken(w) \/ Land(w) \/ bt_dma_complete(w)
  PROVE  TrackInv'
<1> DEFINE free == {i \in Tokens : tok[i] = "free"}
<1>1. wr[w] \in WrType /\ wr \in [Writers -> WrType] /\ HooksOnly
      /\ tok \in [Tokens -> {"free", "open", "closed"}] /\ Idle \in WrType
  BY Sizes DEF TrackInv, TrackTypeOK, WrType, Idle
<1>2. ASSUME free # {} PROVE Min(free) \in 1 .. MaxTokens
  BY <1>2, LeastElement, Sizes DEF Tokens
<1>3. PICK c \in WrType :
        /\ wr' = [wr EXCEPT ![w] = c]
        /\ c.pc \notin {"idle", "data", "mark"} => c.kind # "ext"
        /\ (c.pc \in {"data", "mark", "bump"} /\ c.kind # "ext")
             <=> (wr[w].pc \in {"data", "mark", "bump"} /\ wr[w].kind # "ext")
  <2>1. CASE WriteData(w)
    <3> DEFINE c == [wr[w] EXCEPT !.pc = "mark"]
    <3>1. c \in WrType /\ c.pc = "mark" /\ c.kind = wr[w].kind
      BY <1>1 DEF WrType
    <3> QED BY <2>1, <3>1 DEF WriteData
  <2>2. CASE FindToken(w)
    <3>1. wr[w].pc = "token" /\ wr[w].kind # "ext"
      BY <2>2, <1>1 DEF FindToken, HooksOnly
    <3>2. CASE wr' = [wr EXCEPT ![w] = Idle]
      BY <3>1, <3>2, <1>1 DEF Idle
    <3>3. ASSUME free # {}, NEW p \in {"landing", "found"},
                 wr' = [wr EXCEPT ![w].pc = p, ![w].token = Min(free)]
          PROVE  \E c \in WrType :
                   /\ wr' = [wr EXCEPT ![w] = c]
                   /\ c.pc \notin {"idle", "data", "mark"} => c.kind # "ext"
                   /\ ~(c.pc \in {"data", "mark", "bump"} /\ c.kind # "ext")
      <4> DEFINE c == [wr[w] EXCEPT !.pc = p, !.token = Min(free)]
      <4>1. Min(free) \in 0 .. MaxTokens
        BY <1>2, <3>3, Sizes
      <4>2. c \in WrType /\ c.pc = p /\ c.kind = wr[w].kind
        BY <1>1, <4>1 DEF WrType
      <4>3. wr' = [wr EXCEPT ![w] = c]
        BY <3>3, <1>1
      <4> QED BY <3>1, <4>2, <4>3
    <3> QED BY <2>2, <3>1, <3>2, <3>3 DEF FindToken
  <2>3. ASSUME NEW p \in {"landing", "complete"}, wr[w].pc \in {"found", "landing"},
               wr' = [wr EXCEPT ![w].pc = p]
        PROVE  \E c \in WrType :
                 /\ wr' = [wr EXCEPT ![w] = c]
                 /\ c.pc \notin {"idle", "data", "mark"} => c.kind # "ext"
                 /\ ~(c.pc \in {"data", "mark", "bump"} /\ c.kind # "ext")
    <3> DEFINE c == [wr[w] EXCEPT !.pc = p]
    <3>1. c \in WrType /\ c.pc = p /\ c.kind = wr[w].kind
      BY <1>1 DEF WrType
    <3>2. wr' = [wr EXCEPT ![w] = c] /\ wr[w].kind # "ext"
      BY <2>3, <1>1 DEF HooksOnly
    <3> QED BY <3>1, <3>2
  <2>4. CASE bt_dma_complete(w)
    BY <2>4, <1>1 DEF bt_dma_complete, Idle
  <2> QED BY <2>1, <2>2, <2>3, <2>4 DEF OpenToken, Land
<1>4. tok' \in [Tokens -> {"free", "open", "closed"}]
  BY <1>1 DEF WriteData, FindToken, OpenToken, Land, bt_dma_complete
<1>5. unflushed' \subseteq MemBlocks
  <2>1. Extent(w) \subseteq MemBlocks
    BY ExtentFacts DEF TrackInv
  <2> QED BY <2>1 DEF TrackInv, TrackTypeOK, WriteData, FindToken, OpenToken, Land, bt_dma_complete, Store
<1>6. UNCHANGED <<mode, bits, ver, suspect, nwrites>>
  BY DEF WriteData, FindToken, OpenToken, Land, bt_dma_complete
<1>7. wr' \in [Writers -> WrType] /\ HooksOnly'
  BY <1>3, MovedOn
<1>8. TrackTypeOK'
  BY <1>4, <1>5, <1>6, <1>7 DEF TrackInv, TrackTypeOK, WrType
<1>9. VersionsBounded'
  BY <1>3, <1>6, SamePending
<1> QED BY <1>7, <1>8, <1>9 DEF TrackInv

\* Every step of a writer keeps the types of the tracker.
LEMMA WriterOK ==
  ASSUME NEW w \in Writers, TrackInv, BeginWrite(w) \/ WriterStep(w)
  PROVE  TrackInv'
  BY BeginOK, MarkOK, BumpOK, TokenOK DEF WriterStep

\* It sets bits and clears none.
LEMMA WriterBits ==
  ASSUME NEW w \in Writers, TrackInv, BeginWrite(w) \/ WriterStep(w)
  PROVE  bits \subseteq bits' /\ mode' = mode
<1>1. CASE MarkBits(w) \/ bt_merge(w)
  <2>1. OrBits(w, [wr[w] EXCEPT !.pc = "bump"]) \/ OrBits(w, Idle)
    BY <1>1 DEF MarkBits, bt_merge
  <2>2. bits \subseteq bits'
    BY <2>1 DEF OrBits
  <2> QED BY <1>1, <2>2 DEF MarkBits, bt_merge
<1>2. CASE ~(MarkBits(w) \/ bt_merge(w))
  BY <1>2 DEF BeginWrite, WriterStep, WriteData, Bump, FindToken, OpenToken, Land, bt_dma_complete
<1> QED BY <1>1, <1>2

\* A step that leaves the writers, the versions and the tokens alone.
LEMMA OthersOK ==
  ASSUME TrackInv, UNCHANGED <<mode, ver, tok, wr, nwrites>>,
         bits' \subseteq Blocks, unflushed' \subseteq MemBlocks, suspect' \in BOOLEAN
  PROVE  TrackInv'
<1>1. TrackTypeOK'
  BY DEF TrackInv, TrackTypeOK
<1>2. VersionsBounded' /\ HooksOnly'
  BY DEF TrackInv, VersionsBounded, HooksOnly, Pending
<1> QED BY <1>1, <1>2 DEF TrackInv
=============================================================================
