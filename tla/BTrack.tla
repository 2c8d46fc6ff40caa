------------------------------- MODULE BTrack --------------------------------
(***************************************************************************)
(* The write tracker of btrack.c: a dirty bitmap over the blocks of a      *)
(* memory, a version per registered buffer and the tokens of DMA writes    *)
(* under way.  Writers run concurrently.  A CPU or peer writer stores its  *)
(* data and then calls the hook; a DMA writer calls the hook, submits, and *)
(* the data lands later.  Writes known to another source (ext: the dirty   *)
(* bits of pages) are merged into the bitmap after they were made, and     *)
(* advance no version.  The steps of a hook at which others may interleave *)
(* depend on the concurrency mode: the whole range under the global lock   *)
(* (LOCK), one bitmap word at a time otherwise.                            *)
(***************************************************************************)
EXTENDS Integers, FiniteSets, FiniteSetsExt

CONSTANTS
  NBlocks,     \* n_blocks = mem_bytes / blk_bytes, rounded down
  TailBlocks,  \* 1 when mem_bytes is not a multiple of blk_bytes, else 0
  WordBits,    \* blocks per bitmap word (64 in the code)
  Bufs,        \* registered buffers
  BufBlocks,   \* the blocks of each buffer
  Modes,       \* concurrency modes to consider, of LOCK, SHARD and ATOMIC
  Writers,     \* writing threads
  Kinds,       \* the kinds of write they make, of cpu, dma and ext
  MaxTokens,   \* BT_MAX_DMA_TOKENS
  MaxWrites    \* bound on the writes of a behaviour

ASSUME TrackAssumption ==
  /\ NBlocks \in Nat \ {0} /\ TailBlocks \in {0, 1} /\ WordBits \in Nat \ {0}
  /\ BufBlocks \in [Bufs -> SUBSET (0 .. NBlocks + TailBlocks - 1)]
  /\ Modes \subseteq {"LOCK", "SHARD", "ATOMIC"}
  /\ Kinds \subseteq {"cpu", "dma", "ext"}
  /\ "ext" \in Kinds => "SHARD" \notin Modes   \* there bt_merge takes no lock: left out
  /\ MaxTokens \in Nat /\ MaxWrites \in Nat /\ IsFiniteSet(Writers)

VARIABLES
  mode,       \* bt->mode
  bits,       \* the blocks whose bit is set
  ver,        \* buf[i].ver
  tok,        \* tok[i].state: free, open or closed
  suspect,    \* bt->suspect
  wr,         \* the call each writer is in
  unflushed,  \* the blocks written since they were last flushed
  nwrites     \* writes begun, capped at MaxWrites

trackVars == <<mode, bits, ver, tok, suspect, wr, unflushed, nwrites>>

MemBlocks == 0 .. NBlocks + TailBlocks - 1
Blocks == 0 .. NBlocks - 1
Words == 0 .. (NBlocks - 1) \div WordBits
WordOf(b) == b \div WordBits
InWord(w) == {b \in Blocks : WordOf(b) = w}
Tokens == 1 .. MaxTokens

Idle == [pc |-> "idle", kind |-> "cpu", lo |-> 0, hi |-> 0, word |-> 0, token |-> 0]

TrackInit ==
  /\ mode \in Modes
  /\ bits = {}
  /\ ver = [b \in Bufs |-> 0]
  /\ tok = [i \in Tokens |-> "free"]
  /\ suspect = FALSE
  /\ wr = [w \in Writers |-> Idle]
  /\ unflushed = {}
  /\ nwrites = 0

Extent(w) == wr[w].lo .. wr[w].hi
Busy == UNION {Extent(w) : w \in {w \in Writers : wr[w].pc # "idle"}}

-----------------------------------------------------------------------------
\* A writer picks a range.  A DMA write marks first, the others store first.
BeginWrite(w) ==
  /\ wr[w].pc = "idle" /\ nwrites < MaxWrites
  /\ nwrites' = nwrites + 1
  /\ \E kind \in Kinds, lo \in MemBlocks : \E hi \in lo .. NBlocks + TailBlocks - 1 :
       wr' = [wr EXCEPT ![w] =
                [pc |-> IF kind = "dma" THEN "mark" ELSE "data",
                 kind |-> kind, lo |-> lo, hi |-> hi, word |-> WordOf(lo), token |-> 0]]
  /\ UNCHANGED <<mode, bits, ver, tok, suspect, unflushed>>

\* The bytes of a range change in memory.
Store(w) == unflushed' = unflushed \cup Extent(w)

WriteData(w) ==
  /\ wr[w].pc = "data"
  /\ Store(w)
  /\ wr' = [wr EXCEPT ![w].pc = "mark"]
  /\ UNCHANGED <<mode, bits, ver, tok, suspect, nwrites>>

\* The last block that set_bits_range reaches: the bitmap has no bit for a
\* partial block at the end of the memory.
\* Mutant: the end of the range is taken as its last byte.
b_hi_past_end(w) == wr[w].hi + 1
b_hi(w) == IF wr[w].hi >= NBlocks THEN NBlocks - 1 ELSE wr[w].hi

\* The whole range at once under the global lock, one word at a time otherwise (an
\* atomic OR, or an OR under the lock of the word's shard); then the call goes on.
OrBits(w, after) ==
  LET left == {b \in wr[w].lo .. b_hi(w) : WordOf(b) >= wr[w].word}
      now == IF mode = "LOCK" THEN left ELSE left \cap InWord(wr[w].word)
  IN  /\ bits' = bits \cup now
      /\ wr' = [wr EXCEPT ![w] = IF now = left THEN after
                               ELSE [wr[w] EXCEPT !.word = wr[w].word + 1]]

\* set_bits_range of the hooks.
MarkBits(w) ==
  /\ wr[w].pc = "mark" /\ wr[w].kind # "ext"
  /\ OrBits(w, [wr[w] EXCEPT !.pc = "bump"])
  /\ UNCHANGED <<mode, ver, tok, suspect, unflushed, nwrites>>

\* bt_merge of what another source knows; no version is advanced.
bt_merge(w) ==
  /\ wr[w].pc = "mark" /\ wr[w].kind = "ext"
  /\ OrBits(w, Idle)
  /\ UNCHANGED <<mode, ver, tok, suspect, unflushed, nwrites>>

\* The buffers whose version a write advances.
\* Mutant: only a write that starts inside the buffer counts.
Overlaps_start_only(w, b) == wr[w].lo \in BufBlocks[b]
Overlaps(w, b) == Extent(w) \cap BufBlocks[b] # {}

\* bump_versions, and the end of a CPU or peer hook.
Bump(w) ==
  /\ wr[w].pc = "bump"
  /\ ver' = [b \in Bufs |-> IF Overlaps(w, b) THEN ver[b] + 1 ELSE ver[b]]
  /\ wr' = [wr EXCEPT ![w] = IF wr[w].kind = "cpu" THEN Idle
                               ELSE [wr[w] EXCEPT !.pc = "token"]]
  /\ UNCHANGED <<mode, bits, tok, suspect, unflushed, nwrites>>

\* bt_mark_dma_write looks for a free token; without one it returns -1 and the
\* transfer is not submitted.  Only LOCK mode takes a lock around the search.
FindToken(w) ==
  /\ wr[w].pc = "token"
  /\ LET free == {i \in Tokens : tok[i] = "free"}
     IN  \/ /\ free = {}
            /\ wr' = [wr EXCEPT ![w] = Idle]
            /\ UNCHANGED tok
         \/ /\ free # {} /\ mode = "LOCK"
            /\ wr' = [wr EXCEPT ![w].pc = "landing", ![w].token = Min(free)]
            /\ tok' = [tok EXCEPT ![Min(free)] = "open"]
         \/ /\ free # {} /\ mode # "LOCK"
            /\ wr' = [wr EXCEPT ![w].pc = "found", ![w].token = Min(free)]
            /\ UNCHANGED tok
  /\ UNCHANGED <<mode, bits, ver, suspect, unflushed, nwrites>>

OpenToken(w) ==
  /\ wr[w].pc = "found"
  /\ tok' = [tok EXCEPT ![wr[w].token] = "open"]
  /\ wr' = [wr EXCEPT ![w].pc = "landing"]
  /\ UNCHANGED <<mode, bits, ver, suspect, unflushed, nwrites>>

\* The engine delivers the data of a submitted transfer.
Land(w) ==
  /\ wr[w].pc = "landing"
  /\ Store(w)
  /\ wr' = [wr EXCEPT ![w].pc = "complete"]
  /\ UNCHANGED <<mode, bits, ver, tok, suspect, nwrites>>

\* bt_dma_complete closes an open token; the call may also be lost (F-B4).
bt_dma_complete(w) ==
  /\ wr[w].pc = "complete"
  /\ wr' = [wr EXCEPT ![w] = Idle]
  /\ \/ tok' = [tok EXCEPT ![wr[w].token] = IF @ = "open" THEN "closed" ELSE @]
     \/ UNCHANGED tok
  /\ UNCHANGED <<mode, bits, ver, suspect, unflushed, nwrites>>

\* bt_flag_suspect: an audit has found a write that bypassed the hooks.
bt_flag_suspect ==
  /\ ~suspect
  /\ suspect' = TRUE
  /\ UNCHANGED <<mode, bits, ver, tok, wr, unflushed, nwrites>>

WriterStep(w) == \/ WriteData(w) \/ MarkBits(w) \/ bt_merge(w) \/ Bump(w)
                 \/ FindToken(w) \/ OpenToken(w) \/ Land(w) \/ bt_dma_complete(w)

TrackTypeOK ==
  /\ mode \in Modes
  /\ bits \subseteq Blocks
  /\ ver \in [Bufs -> 0 .. MaxWrites]
  /\ tok \in [Tokens -> {"free", "open", "closed"}]
  /\ suspect \in BOOLEAN
  /\ wr \in [Writers ->
       [pc : {"idle", "data", "mark", "bump", "token", "found", "landing", "complete"},
        kind : {"cpu", "dma", "ext"}, lo : MemBlocks, hi : MemBlocks,
        word : 0 .. NBlocks, token : 0 .. MaxTokens]]
  /\ unflushed \subseteq MemBlocks
  /\ nwrites \in 0 .. MaxWrites
=============================================================================
