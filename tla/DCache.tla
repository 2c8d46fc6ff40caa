------------------------------- MODULE DCache --------------------------------
(***************************************************************************)
(* The cache of derived formats of dcache.c, over the versions of BTrack.  *)
(* A reader looks up (buffer, version, format); on a miss it copies the    *)
(* source, converts its copy, checks that the version has not moved and    *)
(* publishes the result.  Writers never wait for readers.  What the code   *)
(* does under the cache's lock is one step; the copy goes block by block,  *)
(* so that a writer can tear it.  Converting is a pure function: an entry  *)
(* holds the source blocks it was made from.                               *)
(***************************************************************************)
EXTENDS BTrack

CONSTANTS
  Readers,
  Fmts,          \* formats registered with dc_register_format
  Size,          \* what a conversion into each format takes
  MaxEntries,    \* max_entries
  MaxBytes,      \* max_total_bytes
  Replacements   \* replacement strategies to consider, of LRU and DIRECT

ASSUME CacheAssumption ==
  /\ Size \in [Fmts -> Nat] /\ MaxEntries \in Nat \ {0} /\ MaxBytes \in Nat
  /\ Replacements \subseteq {"LRU", "DIRECT"}

VARIABLES
  content,     \* how often each block of memory has changed
  ent,         \* the entries
  older,       \* <<i, j>>: entry i was last used before entry j (e->lru)
  bytes_used,
  replacement,
  rd           \* the call each reader is in

cacheVars == <<ent, older, bytes_used, replacement, rd>>
vars == <<trackVars, content, cacheVars>>

Slots == 1 .. MaxEntries
Empty == [valid |-> FALSE]
Valid == {i \in Slots : ent[i].valid}
Attempts == 4

NotCalling == [pc |-> "idle"]
Source(b) == [x \in BufBlocks[b] |-> content[x]]

Init ==
  /\ TrackInit
  /\ content = [b \in MemBlocks |-> 0]
  /\ ent = [i \in Slots |-> Empty]
  /\ older = {} /\ bytes_used = 0
  /\ replacement \in Replacements
  /\ rd = [r \in Readers |-> NotCalling]

-----------------------------------------------------------------------------
\* Writers, with the memory they write.
Stores(w) == wr[w].pc \in {"data", "landing"}
Write(w) ==
  /\ BeginWrite(w) \/ WriterStep(w)
  /\ content' = IF Stores(w)
                THEN [b \in MemBlocks |-> IF b \in Extent(w) THEN content[b] + 1 ELSE content[b]]
                ELSE content
  /\ UNCHANGED cacheVars

-----------------------------------------------------------------------------
\* dc_get_or_convert.
dc_get_or_convert(r) ==
  /\ rd[r].pc = "idle"
  /\ \E b \in Bufs, f \in Fmts :
       rd' = [rd EXCEPT ![r] = [pc |-> "version", buf |-> b, fmt |-> f,
                                attempt |-> 1, v0 |-> 0, copy |-> <<>>]]
  /\ UNCHANGED <<trackVars, content, ent, older, bytes_used, replacement>>

ReadVersion(r) ==
  /\ rd[r].pc = "version"
  /\ rd' = [rd EXCEPT ![r].pc = "lookup", ![r].v0 = ver[rd[r].buf]]
  /\ UNCHANGED <<trackVars, content, ent, older, bytes_used, replacement>>

\* The order of use without the entries of I.
Forget(I) == {p \in older : p[1] \notin I /\ p[2] \notin I}

\* The entry of the key; its version is compared over the full 64 bits.
Matches(i, c) == ent[i].valid /\ ent[i].buf = c.buf /\ ent[i].fmt = c.fmt /\ ent[i].ver = c.v0

Lookup(r) ==
  LET c == rd[r]
      hit == {i \in Slots : Matches(i, c)}
  IN  /\ c.pc = "lookup"
      /\ \/ /\ hit = {}
            /\ rd' = [rd EXCEPT ![r].pc = "copy"]
            /\ UNCHANGED older
         \/ /\ hit # {} /\ ver[c.buf] = c.v0
            /\ older' = Forget({Min(hit)}) \cup ((Valid \ {Min(hit)}) \X {Min(hit)})
            /\ rd' = [rd EXCEPT ![r] = [pc |-> "hit", slot |-> Min(hit)]]
         \/ /\ hit # {} /\ ver[c.buf] # c.v0
            /\ rd' = [rd EXCEPT ![r] = IF c.attempt = Attempts THEN NotCalling
                      ELSE [c EXCEPT !.pc = "version", !.attempt = c.attempt + 1, !.v0 = 0]]
            /\ UNCHANGED older
      /\ UNCHANGED <<trackVars, content, ent, bytes_used, replacement>>

\* The call returns the entry it has hit.
ReturnHit(r) ==
  /\ rd[r].pc = "hit"
  /\ rd' = [rd EXCEPT ![r] = NotCalling]
  /\ UNCHANGED <<trackVars, content, ent, older, bytes_used, replacement>>

\* Whether all of the source has been copied.
\* Mutant: the last block is left out.
Copied_short(c) == Cardinality(BufBlocks[c.buf] \ DOMAIN c.copy) <= 1
Copied(c) == BufBlocks[c.buf] \subseteq DOMAIN c.copy

\* The private copy; without memory for it the call fails.
CopyBlock(r) ==
  LET c == rd[r]
      left == BufBlocks[c.buf] \ DOMAIN c.copy
  IN  /\ c.pc = "copy"
      /\ \/ /\ ~Copied(c)
            /\ rd' = [rd EXCEPT ![r].copy =
                        [x \in DOMAIN c.copy \cup {Min(left)} |->
                           IF x = Min(left) THEN content[x] ELSE c.copy[x]]]
         \/ /\ Copied(c)
            /\ rd' = [rd EXCEPT ![r].pc = "check"]
         \/ /\ DOMAIN c.copy = {}
            /\ rd' = [rd EXCEPT ![r] = NotCalling]
      /\ UNCHANGED <<trackVars, content, ent, older, bytes_used, replacement>>

\* The conversion, which may fail, and the check of the version after it.
\* Mutant: the version is not looked at again.
Unchanged_unchecked(c) == TRUE
Unchanged(c) == ver[c.buf] = c.v0

Recheck(r) ==
  /\ rd[r].pc = "check"
  /\ rd' = [rd EXCEPT ![r] = IF Unchanged(rd[r])
                                     THEN [rd[r] EXCEPT !.pc = "publish"] ELSE NotCalling]
  /\ UNCHANGED <<trackVars, content, ent, older, bytes_used, replacement>>

ConvertFails(r) ==
  /\ rd[r].pc = "check"
  /\ rd' = [rd EXCEPT ![r] = NotCalling]
  /\ UNCHANGED <<trackVars, content, ent, older, bytes_used, replacement>>

-----------------------------------------------------------------------------
\* pick_victim, applied again and again, takes i before j: entries of an old version
\* in the order of their slots, then the others, least recently used first.
Corpse(i) == ent[i].ver # ver[ent[i].buf]
\* Mutant: plain LRU.
Sooner_lru(i, j) == <<i, j>> \in older
Sooner(i, j) == IF Corpse(i) /\ Corpse(j) THEN i < j
                ELSE Corpse(i) \/ (~Corpse(j) /\ <<i, j>> \in older)
pick_victim(I) == {i \in I : \A j \in I : ~Sooner(j, i)}

\* What the entries of I take up, byte by byte.
Bytes(I) == Cardinality(UNION {{i} \X (1 .. Size[ent[i].fmt]) : i \in I})

\* The slot to use and the entries dropped to have it: a free slot, else one of
\* the same buffer and format at another version, else a victim.
ChosenSlot(c) ==
  LET old == {i \in Valid : ent[i].buf = c.buf /\ ent[i].fmt = c.fmt /\ ent[i].ver # c.v0}
  IN  IF Valid # Slots THEN {[slot |-> Min(Slots \ Valid), drop |-> {}]}
      ELSE LET s == IF old # {} THEN {Min(old)}
                    ELSE IF replacement = "LRU" THEN pick_victim(Valid)
                    ELSE Slots                        \* the slot of the hash
           IN  {[slot |-> i, drop |-> {i}] : i \in s}

\* The loop that drops victims until size more bytes fit: an entry goes if dropping
\* all that go before it is not enough.
MakeRoom(I, used, size) ==
  {i \in I : used - Bytes({j \in I : Sooner(j, i)}) + size > MaxBytes}

\* Publishing.  A result that does not fit an empty cache is thrown away, after
\* everything else was.
Publish(r) ==
  LET c == rd[r]
      size == Size[c.fmt]
  IN  /\ c.pc = "publish"
      /\ \E choice \in ChosenSlot(c) :
           LET drop1 == choice.drop
               room == MakeRoom(Valid \ drop1, bytes_used - Bytes(drop1), size)
               drop == drop1 \cup room
               used == bytes_used - Bytes(drop1) - Bytes(room)
               fits == used + size <= MaxBytes
               new == [valid |-> TRUE, buf |-> c.buf, ver |-> c.v0, fmt |-> c.fmt,
                       data |-> c.copy]
           IN  /\ ent' = [i \in Slots |-> IF fits /\ i = choice.slot THEN new
                                          ELSE IF i \in drop THEN Empty ELSE ent[i]]
               /\ older' = Forget(drop)
                           \cup (IF fits THEN (Valid \ drop) \X {choice.slot} ELSE {})
               /\ bytes_used' = IF fits THEN used + size ELSE used
      /\ rd' = [rd EXCEPT ![r] = NotCalling]
      /\ UNCHANGED <<trackVars, content, replacement>>

\* Mutant: the bytes of the dropped entries are not given back.
dcache_invalidate_unaccounted(b) ==
  LET drop == {i \in Valid : ent[i].buf = b}
  IN  /\ drop # {}
      /\ ent' = [i \in Slots |-> IF i \in drop THEN Empty ELSE ent[i]]
      /\ older' = Forget(drop)
      /\ UNCHANGED <<trackVars, content, bytes_used, replacement, rd>>

dcache_invalidate(b) ==
  LET drop == {i \in Valid : ent[i].buf = b}
  IN  /\ drop # {}
      /\ ent' = [i \in Slots |-> IF i \in drop THEN Empty ELSE ent[i]]
      /\ older' = Forget(drop)
      /\ bytes_used' = bytes_used - Bytes(drop)
      /\ UNCHANGED <<trackVars, content, replacement, rd>>

Read(r) == \/ dc_get_or_convert(r) \/ ReadVersion(r) \/ Lookup(r) \/ ReturnHit(r) \/ CopyBlock(r)
           \/ Recheck(r) \/ ConvertFails(r) \/ Publish(r)

Next == \/ \E w \in Writers : Write(w)
        \/ \E r \in Readers : Read(r)
        \/ \E b \in Bufs : dcache_invalidate(b)

Spec == Init /\ [][Next]_vars

-----------------------------------------------------------------------------
TypeOK ==
  /\ TrackTypeOK
  /\ content \in [MemBlocks -> 0 .. MaxWrites]
  /\ \A i \in Slots :
       \/ ent[i] = Empty
       \/ /\ ent[i].valid /\ ent[i].buf \in Bufs /\ ent[i].fmt \in Fmts
          /\ ent[i].ver \in 0 .. MaxWrites
          /\ ent[i].data \in [BufBlocks[ent[i].buf] -> 0 .. MaxWrites]
  /\ older \subseteq Valid \X Valid
  /\ \A i, j \in Valid : i # j => (<<i, j>> \in older <=> <<j, i>> \notin older)
  /\ \A i, j, k \in Valid : <<i, j>> \in older /\ <<j, k>> \in older => <<i, k>> \in older /\ i # k
  /\ bytes_used \in 0 .. MaxBytes
  /\ replacement \in Replacements

\* What a successful call returns is what converting the source would give: when
\* the version is checked for the last time and nobody is writing the buffer, the
\* data of the entry that was hit, or of the copy that is about to be published,
\* is that of the buffer now, although writers tear copies and never wait.
Writing(b) == \E w \in Writers : wr[w].pc # "idle" /\ Extent(w) \cap BufBlocks[b] # {}
ReturnsCurrent ==
  [][\A r \in Readers :
       rd[r].pc \in {"lookup", "check"} /\ ~Writing(rd[r].buf) =>
         /\ rd'[r].pc = "publish" => rd[r].copy = Source(rd[r].buf)
         /\ rd'[r].pc = "hit" => ent[rd'[r].slot].data = Source(rd[r].buf)]_vars

\* The same for entries that wait to be hit: an entry of the current version of a
\* buffer nobody is writing was made from all of the buffer's current bytes.
Coherent ==
  \A i \in Valid : ~Corpse(i) /\ ~Writing(ent[i].buf) => ent[i].data = Source(ent[i].buf)

\* The books of the cache agree with its entries, and the cache never holds more
\* than it may.
BytesAccounted == bytes_used = Bytes(Valid) /\ bytes_used <= MaxBytes

\* With LRU replacement, publishing a result of the current version drops an entry
\* that is still of use only when no entry of an old version is left to drop
\* instead.  (A publisher that is itself late may drop the newer entry of its key.)
Dropped(i) == ent[i].valid /\ ent'[i] # ent[i]
Current(r) == rd[r].v0 = ver[rd[r].buf]
CorpsesFirst ==
  [][(\E r \in Readers : Publish(r) /\ Current(r)) /\ replacement = "LRU" =>
       ((\E i \in Slots : Dropped(i) /\ ~Corpse(i)) =>
          \A i \in Slots : ent[i].valid /\ Corpse(i) => Dropped(i))]_vars
=============================================================================
