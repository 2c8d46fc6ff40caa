------------------------------- MODULE BFlush --------------------------------
(***************************************************************************)
(* The boundary of bflush.c: take a snapshot of the dirty bitmap, turn it  *)
(* into ranges of granules, flush those ranges or everything, clear the    *)
(* bits of the snapshot.  Writers of BTrack run at the same time.          *)
(***************************************************************************)
EXTENDS BTrack, SequencesExt

CONSTANTS
  Grans,           \* values of decide_gran / blk_bytes
  MaxRanges,       \* BF_MAX_RANGES
  FAlls, BlkCosts, Margins,   \* values of f_all, cost_per_blk and margin_pct
  TStart,          \* t_start
  Parts            \* the parts of the memory that a caller of bt_clear flushes itself

ASSUME FlushAssumption ==
  /\ Grans \subseteq Nat \ {0} /\ MaxRanges \in Nat
  /\ FAlls \subseteq Nat /\ BlkCosts \subseteq Nat /\ Margins \subseteq Nat /\ TStart \in Nat
  /\ Parts \subseteq SUBSET Blocks

VARIABLES
  fpc,     \* where bf_boundary is
  fword,   \* the bitmap word it is at
  loaded,  \* the word loaded by a read-modify-write that no lock protects
  snap,    \* its snapshot
  start,   \* history: the bitmap when the snapshot began, until the flush
  touched, \* history: blocks written, or being written, since the flush under way
  raced,   \* history: blocks written between the flush of their snapshot and its
           \* clear, not flushed since
  missed   \* history: blocks of a snapshot that the ranges of its flush left out,
           \* neither flushed nor written since

flushVars == <<fpc, fword, loaded, snap, start, touched, raced, missed>>
vars == <<trackVars, flushVars>>

Init ==
  /\ TrackInit
  /\ fpc = "idle" /\ fword = 0
  /\ loaded = {} /\ snap = {} /\ start = {} /\ touched = {} /\ raced = {}
  /\ missed = {}

\* Mutant: n_words is rounded down.
LastWord_rounded_down == NBlocks \div WordBits - 1
LastWord == (NBlocks - 1) \div WordBits

-----------------------------------------------------------------------------
\* bf_recalibrate and the setters take no lock and may be called at any time: the
\* decision meets any of the values, whichever was set last.
Tunings == [decide_gran : Grans, f_all : FAlls, cost_per_blk : BlkCosts, margin_pct : Margins]

\* build_ranges.  The loop meets the dirty granules in increasing order; a range
\* is <<first granule, length>>, and run_start is the last granule met.
GranOf(b, gran) == b \div gran

\* The test that decides whether granule g extends the last range.
Extends(acc, g) == acc.r # <<>> /\ g = acc.run_start + Last(acc.r)[2]

AddGranule(acc, g) ==
  [run_start |-> g,
   r |-> IF Extends(acc, g)
         THEN [acc.r EXCEPT ![Len(acc.r)] = <<@[1], @[2] + 1>>]
         ELSE Append(acc.r, <<g, 1>>)]

build_ranges(dirty, gran) ==
  FoldLeft(AddGranule, [run_start |-> 0, r |-> <<>>],
           SetToSortSeq({GranOf(b, gran) : b \in dirty}, <)).r

\* The blocks that flush_range_inval is called for.
Covered(r, gran) ==
  {b \in MemBlocks : \E i \in 1 .. Len(r) : GranOf(b, gran) \in r[i][1] .. r[i][1] + r[i][2] - 1}

\* The estimate, and whether it favours the directed flush.
EstCost(r, t) ==
  Len(r) * TStart +
  FoldLeft(LAMBDA s, x : s + x[2] * t.decide_gran * t.cost_per_blk, 0, r)

Directed(r, t) == \/ EstCost(r, t) = 0
                  \/ (EstCost(r, t) * (100 + t.margin_pct)) \div 100 < t.f_all

-----------------------------------------------------------------------------
\* Entry of bf_boundary.  A tracker under suspicion, or a snapshot that cannot be
\* allocated, gives a full flush that clears no bit.
FullFallback ==
  /\ fpc = "idle"
  /\ unflushed' = {} /\ missed' = {} /\ raced' = raced \cap Busy
  /\ UNCHANGED <<mode, bits, ver, tok, suspect, wr, nwrites,
                 fpc, fword, loaded, snap, start, touched>>

bf_boundary ==
  /\ fpc = "idle" /\ ~suspect
  /\ start' = bits
  /\ IF mode = "ATOMIC" THEN fpc' = "pass1" /\ fword' = 0 /\ snap' = {}
                        ELSE fpc' = "flush" /\ fword' = 0 /\ snap' = bits
  /\ UNCHANGED <<trackVars, loaded, touched, raced, missed>>

\* bt_snapshot_dirty without a lock: every word is read, then read again.
ReadWord ==
  /\ fpc \in {"pass1", "pass2"}
  /\ snap' = snap \cup (bits \cap InWord(fword))
  /\ fword' = IF fword < LastWord THEN fword + 1 ELSE 0
  /\ fpc' = IF fword < LastWord THEN fpc ELSE IF fpc = "pass1" THEN "pass2" ELSE "flush"
  /\ UNCHANGED <<trackVars, loaded, start, touched, raced, missed>>

\* The decision and the flush itself; without memory for the ranges, a full one.
\* The ranges are flushed one after the other; a write that meets one of its blocks
\* after the range of that block counts as a write after the flush.
Flush ==
  /\ fpc = "flush"
  /\ \E t \in Tunings :
       LET r == build_ranges(snap, t.decide_gran)
       IN  \/ /\ Len(r) <= MaxRanges /\ Directed(r, t)
              /\ unflushed' = unflushed \ Covered(r, t.decide_gran)
              /\ missed' = (missed \cup (snap \cap unflushed)) \ Covered(r, t.decide_gran)
           \/ unflushed' = {} /\ missed' = {}
  /\ fpc' = IF mode = "SHARD" THEN "load" ELSE "clear"
  /\ start' = {} /\ touched' = Busy
  /\ raced' = raced \cap (unflushed' \cup Busy)
  /\ UNCHANGED <<mode, bits, ver, tok, suspect, wr, nwrites, fword, loaded, snap>>

\* A caller that flushes a part of its snapshot itself and clears only that part:
\* from here on snap is what bt_clear's range leaves of it.
FlushPart ==
  /\ fpc = "flush" /\ mode # "SHARD"
  /\ \E part \in Parts :
       /\ unflushed' = unflushed \ part
       /\ snap' = snap \cap part
       /\ missed' = missed \ part
  /\ fpc' = "clear" /\ start' = {} /\ touched' = Busy
  /\ raced' = raced \cap (unflushed' \cup Busy)
  /\ UNCHANGED <<mode, bits, ver, tok, suspect, wr, nwrites, fword, loaded>>

\* The bitmap with the snapshot's bits cleared in the words ws.
\* Mutant: the snapshot is not used as the mask.
Cleared_unmasked(ws) == {b \in bits : WordOf(b) \notin ws}
Cleared(ws) == {b \in bits : b \notin snap \/ WordOf(b) \notin ws}

\* bt_clear_all_flushed and bt_clear: under the lock, by an atomic AND per word, or (SHARD) by
\* a load and a store per word that take no lock at all.
ClearBits ==
  /\ fpc \in {"clear", "load", "store"}
  /\ bits' = CASE fpc = "load" -> bits
              [] fpc = "store" -> (bits \ InWord(fword)) \cup (loaded \ snap)
              [] fpc = "clear" /\ mode = "LOCK" -> Cleared(Words)
              [] fpc = "clear" /\ mode # "LOCK" -> Cleared({fword})
  /\ loaded' = IF fpc = "load" THEN bits \cap InWord(fword) ELSE {}
  /\ \/ /\ fpc = "load"
        /\ fpc' = "store"
        /\ UNCHANGED <<fword, snap, start, touched, raced>>
     \/ /\ fpc # "load" /\ mode # "LOCK" /\ fword < LastWord
        /\ fpc' = IF mode = "SHARD" THEN "load" ELSE "clear"
        /\ fword' = fword + 1
        /\ UNCHANGED <<snap, start, touched, raced>>
     \/ /\ fpc # "load" /\ (mode = "LOCK" \/ fword = LastWord)
        /\ fpc' = "idle" /\ fword' = 0
        /\ snap' = {} /\ touched' = {} /\ UNCHANGED start
        /\ raced' = raced \cup (touched \cap snap)
  /\ UNCHANGED <<mode, ver, tok, suspect, wr, unflushed, nwrites, missed>>

-----------------------------------------------------------------------------
\* A write begins.  It will set the bits of its blocks, so what was lost of them
\* before is made good, unless another write of the same block is under way.
Begin(w) ==
  /\ BeginWrite(w)
  /\ LET extent == wr'[w].lo .. wr'[w].hi
     IN  /\ touched' = IF fpc \in {"clear", "load", "store"} THEN touched \cup extent ELSE touched
         /\ raced' = raced \ (extent \ Busy)
         /\ missed' = missed \ extent
  /\ UNCHANGED <<fpc, fword, loaded, snap, start>>

Writing(w) == WriterStep(w) /\ UNCHANGED flushVars
Suspicion == bt_flag_suspect /\ UNCHANGED flushVars

Next == \/ \E w \in Writers : Begin(w) \/ Writing(w)
        \/ Suspicion
        \/ FullFallback \/ bf_boundary \/ ReadWord \/ Flush \/ FlushPart
        \/ ClearBits

Spec == Init /\ [][Next]_vars

-----------------------------------------------------------------------------
TypeOK ==
  /\ TrackTypeOK
  /\ fpc \in {"idle", "pass1", "pass2", "flush", "clear", "load", "store"}
  /\ fword \in Words
  /\ loaded \subseteq Blocks /\ snap \subseteq Blocks /\ start \subseteq Blocks
  /\ touched \subseteq MemBlocks /\ raced \subseteq MemBlocks
  /\ missed \subseteq Blocks

\* AX1: a block that was written and not flushed since still has its dirty bit,
\* unless its write is not finished yet or it was written between the flush of a
\* boundary and its clear.  bflush.h:7 says as much; build_ranges breaks it from
\* four granules on.
NoLostDirty == unflushed \subseteq bits \cup Busy \cup raced \cup (touched \cap snap)

\* Where a dirty block can go: of the blocks that have a bit, one that was written
\* and not flushed since has its bit, is being written, was written between the
\* flush of a boundary and its clear, or was left out by the ranges that a directed
\* flush built.  Nothing else loses a block, in the modes whose clear is not a
\* read-modify-write without a lock: clearing touches no bit that was set after the
\* snapshot, a full flush leaves nothing out, and a caller that flushes a part of
\* its snapshot clears no more than that part.
DirtyAccounted ==
  mode # "SHARD" =>
    unflushed \cap Blocks \subseteq bits \cup Busy \cup raced \cup (touched \cap snap) \cup missed

\* The superset property of bt_snapshot_dirty: what is flushed contains every
\* block that was dirty when the snapshot began, however marks interleave with
\* the unlocked reads.
SnapshotSuperset == fpc = "flush" => start \subseteq snap
=============================================================================
