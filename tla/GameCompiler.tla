---------------------------- MODULE GameCompiler ----------------------------
(***************************************************************************)
(* The compilation loop of src/keyb2joypad-yml-to-c.js, from the moment a  *)
(* game record has been read (name, year, mapping buffers, identifiers)    *)
(* to the emission of the per-bucket blobs:                                *)
(*   - the buckets with their pre-seeded action pools      (lines 43-58)   *)
(*   - the per-game checks and the mapping-set dedup       (lines 121-180) *)
(*   - the identifier loop: hash table, titles, idents     (lines 183-215) *)
(*   - the concatenation of every bucket's regions         (lines 256-297) *)
(* All data are bytes (integers 0..255).  A mapping buffer is the byte     *)
(* string the normalizer builds at line 115: the encoded button byte, an   *)
(* optional null-terminated action text and the key codes.  The           *)
(* fingerprint DBP_HashSize(DBP_Hash(file), size) of an identifier is the  *)
(* constant function FP; the Zopfli compressor and the C-string escaping   *)
(* are left out: the blobs are modelled as the bytes handed to them.       *)
(***************************************************************************)
EXTENDS Integers, Sequences, SequencesExt, FiniteSets, TLC

CONSTANTS
  BUCKETS,         \* number of buckets (code: 4)
  SLOTS,           \* hash-table slots per bucket, TBLSZ / BUCKETS (code: 1060)
  MaxOffset,       \* largest offset a 16-bit field holds (code: 0xFFFF)
  MaxMapCount,     \* largest mapping count of one set (code: 0xFF)
  COMMON_ACTIONS,  \* the action strings every action pool starts with
  Games,           \* the game records the catalogue may list
  FP,              \* identifier -> its 32-bit fingerprint
  MaxGames         \* bound: number of games read

ASSUME BUCKETS \in Nat \ {0} /\ SLOTS \in Nat \ {0}
ASSUME \A g \in Games : DOMAIN g = {"name", "year", "maps", "ids"}
ASSUME \A g \in Games : \A i \in DOMAIN g.ids : FP[g.ids[i]] \in Nat

TBLSZ == BUCKETS * SLOTS
Buckets == 0..(BUCKETS - 1)
Slots == 0..(TBLSZ - 1)
Byte == 0..255

VARIABLES
  pc,           \* "read" | "ident" | "emitted" | "failed"
  err,          \* the error thrown, once pc = "failed"
  bk,           \* buckets[]: bucket number -> BK record
  map_ids,      \* map_ids: mapkey (joined buffers) -> 3-byte MapID
  map_keys,     \* map_keys: the global hash table of fingerprints
  done_hashes,  \* done_hashes: fingerprint -> description
  done_games,   \* done_games
  cur,          \* the game whose identifiers are being stored
  cur_mapid,    \* mapid of that game
  next_id,      \* loop index i of the identifier loop (1-based)
  out,          \* emitted blobs per bucket
  owner,        \* ghost: fingerprint -> the game that stored it first
  finished,     \* ghost: the games the loop completed
  action_count  \* action_count: action text -> mappings stored with it

vars == <<pc, err, bk, map_ids, map_keys, done_hashes, done_games, cur,
          cur_mapid, next_id, out, owner, finished, action_count>>

NoGame == [name |-> <<>>, year |-> 0, maps |-> <<>>, ids |-> <<>>]
ZeroIdent == <<0, 0, 0, 0, 0>>

\* writeUInt16BE
BE16(n) == <<n \div 256, n % 256>>

\* BK.action_idx.set(action, BK.action_length); push action + '\0'
AppendAction(B, a) ==
  [B EXCEPT !.action_idx = (a :> B.action_length) @@ B.action_idx,
            !.action_data = B.action_data \o a \o <<0>>,
            !.action_length = B.action_length + Len(a) + 1]

\* A fresh bucket with its action pool pre-seeded with COMMON_ACTIONS.
NewBucket ==
  FoldLeft(AppendAction,
           [map_data |-> <<>>, map_length |-> 0,
            action_idx |-> [a \in {} |-> 0], action_data |-> <<>>,
            action_length |-> 0,
            title_idx |-> [t \in {} |-> 0], title_data |-> <<>>,
            title_length |-> 0,
            idents |-> [i \in 0..(SLOTS - 1) |-> ZeroIdent]],
           COMMON_ACTIONS)

\* BK.map_data.push(buf); BK.map_length += buf.length
AppendMapBytes(B, bytes) ==
  [B EXCEPT !.map_data = @ \o bytes, !.map_length = @ + Len(bytes)]

\* Number of 7-bit groups of the BER encoded action index.
BerLen(idx) ==
  IF idx < 128 THEN 1 ELSE IF idx < 16384 THEN 2
  ELSE IF idx < 2097152 THEN 3 ELSE 4

\* Most significant group first, continuation bit on all but the last.
BerBytes(idx) ==
  LET n == BerLen(idx)
  IN  [i \in 1..n |-> ((idx \div 2^(7 * (n - i))) % 128)
                        + (IF i < n THEN 128 ELSE 0)]

HasAction(btn) == (btn \div 32) % 2 = 1

\* The action text of a mapping buffer with its first '\x01' shown as '/'.
ActionText(m) ==
  ReplaceFirstSubSeq(<<47>>, <<1>>,
                     SubSeq(m, 2, SelectInSubSeq(m, 2, Len(m),
                                                 LAMBDA x : x = 0) - 1))

\* action_count.set(action, (action_count.get(action) || 0) + 1)
CountAction(cnt, m) ==
  IF HasAction(m[1])
  THEN LET a == ActionText(m)
       IN  (a :> (IF a \in DOMAIN cnt THEN cnt[a] ELSE 0) + 1) @@ cnt
  ELSE cnt

\* Mutant of StoreMapping: the action pool lookup is skipped, so every
\* action text is appended again.
StoreMappingNoLookup(B, m) ==
  IF HasAction(m[1])
  THEN LET action_end == SelectInSubSeq(m, 2, Len(m), LAMBDA x : x = 0)
           action == ReplaceFirstSubSeq(<<47>>, <<1>>,
                                        SubSeq(m, 2, action_end - 1))
           B1 == AppendAction(B, action)
       IN  AppendMapBytes(B1, <<m[1]>> \o BerBytes(B.action_length)
                                \o SubSeq(m, action_end + 1, Len(m)))
  ELSE AppendMapBytes(B, m)

\* Store one mapping buffer m of a new set: an action text is replaced by
\* the BER encoded index of its ('\x01' -> '/') string in the action pool.
StoreMapping(B, m) ==
  IF HasAction(m[1])
  THEN LET action_end == SelectInSubSeq(m, 2, Len(m), LAMBDA x : x = 0)
           action == ReplaceFirstSubSeq(<<47>>, <<1>>,
                                        SubSeq(m, 2, action_end - 1))
           data == SubSeq(m, action_end + 1, Len(m))
           B1 == IF action \in DOMAIN B.action_idx THEN B
                 ELSE AppendAction(B, action)
       IN  AppendMapBytes(B1, <<m[1]>> \o BerBytes(B1.action_idx[action])
                                \o data)
  ELSE AppendMapBytes(B, m)

\* UTF-8 bytes of a code point below 2048.
Utf8(c) == IF c < 128 THEN <<c>> ELSE <<192 + (c \div 64), 128 + (c % 64)>>
Utf8Prefix(name, k) == FlattenSeq([i \in 1..k |-> Utf8(name[i])])

\* Mutant of TitleBytes: the year is written without subtracting 1970.
TitleBytesNoEpoch(name, year) ==
  <<year>> \o [i \in 1..(Len(name) + 1) |->
                 IF i <= Len(name) THEN name[i] ELSE 0]

\* titleBuf: Buffer.alloc(1 + gamename.length + 1); the year offset; the
\* name written with Buffer.write, which stores only the whole characters
\* that fit; then a 0 written at index gamename.length + 1.
TitleBytes(name, year) ==
  LET room == Len(name) + 1
      w == Utf8Prefix(name, Max({k \in 0..Len(name) :
                                   Len(Utf8Prefix(name, k)) <= room}))
  IN  <<year - 1970>>
        \o [i \in 1..room |-> IF i < room /\ i <= Len(w) THEN w[i] ELSE 0]

AppendTitle(B, g) ==
  [B EXCEPT !.title_idx = (<<g.name, g.year>> :> B.title_length) @@ @,
            !.title_data = @ \o TitleBytes(g.name, g.year),
            !.title_length = @ + Len(g.name) + 2]

Fail(e) ==
  /\ pc' = "failed"
  /\ err' = e
  /\ UNCHANGED <<bk, map_ids, map_keys, done_hashes, done_games, cur,
                 cur_mapid, next_id, out, owner, finished, action_count>>

-----------------------------------------------------------------------------

Init ==
  /\ pc = "read"
  /\ err = "none"
  /\ bk = [b \in Buckets |-> NewBucket]
  /\ map_ids = [k \in {} |-> <<>>]
  /\ map_keys = [s \in Slots |-> 0]
  /\ done_hashes = [h \in {} |-> <<>>]
  /\ done_games = 0
  /\ cur = NoGame
  /\ cur_mapid = <<0, 0, 0>>
  /\ next_id = 1
  /\ out = [b \in Buckets |-> [idents |-> <<>>, mappings |-> <<>>,
                               action_offset |-> 0]]
  /\ owner = [h \in {} |-> NoGame]
  /\ finished = {}
  /\ action_count = [a \in {} |-> 0]

\* Mutant of StartIdents: the identifier loop starts at its second entry.
StartIdentsFromSecond(g, mapid) ==
  /\ pc' = "ident"
  /\ cur' = g
  /\ cur_mapid' = mapid
  /\ next_id' = 2
  /\ UNCHANGED <<err, map_keys, done_hashes, done_games, out, owner,
                 finished>>

\* Enter the identifier loop of game g whose mapping set has MapID mapid.
StartIdents(g, mapid) ==
  /\ pc' = "ident"
  /\ cur' = g
  /\ cur_mapid' = mapid
  /\ next_id' = 1
  /\ UNCHANGED <<err, map_keys, done_hashes, done_games, out, owner,
                 finished>>

\* mapkey: the set's buffers joined with no separator.
MapKey(ms) == FlattenSeq(ms)

\* A set not stored yet goes to the next bucket in round-robin order.
CommitMaps(g) ==
  LET bknum == Cardinality(DOMAIN map_ids) % BUCKETS
      B == bk[bknum]
      mapid == <<bknum>> \o BE16(B.map_length)
  IN  \/ /\ B.map_length > MaxOffset
         /\ Fail("MapDataTooLarge")
      \/ /\ B.map_length <= MaxOffset
         /\ Len(g.maps) > MaxMapCount
         /\ Fail("TooManyMappings")
      \/ /\ B.map_length <= MaxOffset
         /\ Len(g.maps) <= MaxMapCount
         /\ map_ids' = (MapKey(g.maps) :> mapid) @@ map_ids
         /\ bk' = [bk EXCEPT ![bknum] =
                     FoldLeft(StoreMapping,
                              AppendMapBytes(B, <<Len(g.maps)>>), g.maps)]
         /\ action_count' = FoldLeft(CountAction, action_count, g.maps)
         /\ StartIdents(g, mapid)

\* Mutant of ReadGame: the map_ids lookup is dropped, every set is stored.
ReadGameNoDedup(g) ==
  /\ pc = "read"
  /\ done_games < MaxGames
  /\ \/ /\ g.year = 0
        /\ Fail("NoYear")
     \/ /\ g.year # 0
        /\ CommitMaps(g)

\* A game record has been read: check it and store its mapping set once.
\* (The checks for no mappings and no identifiers test arrays, which are
\* always truthy, so they never fire.)
ReadGame(g) ==
  /\ pc = "read"
  /\ done_games < MaxGames
  /\ \/ /\ g.year = 0
        /\ Fail("NoYear")
     \/ /\ g.year # 0
        /\ MapKey(g.maps) \in DOMAIN map_ids
        /\ StartIdents(g, map_ids[MapKey(g.maps)])
        /\ UNCHANGED <<bk, map_ids, action_count>>
     \/ /\ g.year # 0
        /\ MapKey(g.maps) \notin DOMAIN map_ids
        /\ CommitMaps(g)

\* Mutant of FreeSlot: the slot hash_value % TBLSZ is used without probing.
FreeSlotNoProbe(hash_value) == hash_value % TBLSZ

\* Linear probing from hash_value % TBLSZ for the first slot holding 0;
\* -1 when the whole table is occupied (HASH TABLE FULL).
FreeSlot(hash_value) ==
  LET start == hash_value % TBLSZ
      free == {k \in 0..(TBLSZ - 1) : map_keys[(start + k) % TBLSZ] = 0}
  IN  IF free = {} THEN -1 ELSE (start + Min(free)) % TBLSZ

\* Write the 5-byte ident (MapID, title index) at the slot's position.
StoreIdent(hash_idx, hash_value, desc, B1, title_idx) ==
  /\ map_keys' = [map_keys EXCEPT ![hash_idx] = hash_value]
  /\ bk' = [bk EXCEPT ![hash_idx % BUCKETS] =
              [B1 EXCEPT !.idents[hash_idx \div BUCKETS] =
                           cur_mapid \o BE16(title_idx)]]
  /\ done_hashes' = (hash_value :> desc) @@ done_hashes
  /\ next_id' = next_id + 1
  /\ owner' = IF hash_value \in DOMAIN owner THEN owner
              ELSE (hash_value :> [name |-> cur.name, year |-> cur.year,
                                   maps |-> cur.maps]) @@ owner
  /\ UNCHANGED <<pc, err, map_ids, done_games, cur, cur_mapid, out,
                 finished, action_count>>

\* One iteration of the identifier loop.
RegisterIdent ==
  /\ pc = "ident"
  /\ next_id <= Len(cur.ids)
  /\ LET id == cur.ids[next_id]
         hash_value == FP[id]
         desc == <<id, cur.name>>
         hash_idx == FreeSlot(hash_value)
         B == bk[hash_idx % BUCKETS]
         title_key == <<cur.name, cur.year>>
         dup == hash_value \in DOMAIN done_hashes
                  /\ done_hashes[hash_value] # desc
     IN  \/ /\ dup
            /\ Fail("Duplicate")
         \/ /\ ~dup
            /\ hash_idx = -1
            /\ Fail("TableFull")
         \/ /\ ~dup
            /\ hash_idx # -1
            /\ title_key \in DOMAIN B.title_idx
            /\ StoreIdent(hash_idx, hash_value, desc, B,
                          B.title_idx[title_key])
         \/ /\ ~dup
            /\ hash_idx # -1
            /\ title_key \notin DOMAIN B.title_idx
            /\ cur.year < 1970 \/ cur.year > 1970 + 255
            /\ Fail("InvalidYear")
         \/ /\ ~dup
            /\ hash_idx # -1
            /\ title_key \notin DOMAIN B.title_idx
            /\ cur.year \in 1970..(1970 + 255)
            /\ B.title_length > MaxOffset
            /\ Fail("TitleDataTooLarge")
         \/ /\ ~dup
            /\ hash_idx # -1
            /\ title_key \notin DOMAIN B.title_idx
            /\ cur.year \in 1970..(1970 + 255)
            /\ B.title_length <= MaxOffset
            /\ StoreIdent(hash_idx, hash_value, desc, AppendTitle(B, cur),
                          B.title_length)

\* The identifier loop is over: done_games++.
FinishGame ==
  /\ pc = "ident"
  /\ next_id > Len(cur.ids)
  /\ pc' = "read"
  /\ done_games' = done_games + 1
  /\ finished' = finished \cup {cur}
  /\ UNCHANGED <<err, bk, map_ids, map_keys, done_hashes, cur, cur_mapid,
                 next_id, out, owner, action_count>>

\* Mutant of Emit: the action strings are put before the mapping data.
EmitSwapped ==
  /\ pc = "read"
  /\ pc' = "emitted"
  /\ out' = [b \in Buckets |->
              [idents |-> FlattenSeq([i \in 1..SLOTS |-> bk[b].idents[i - 1]])
                            \o bk[b].title_data,
               mappings |-> bk[b].action_data \o bk[b].map_data,
               action_offset |-> bk[b].map_length]]
  /\ UNCHANGED <<err, bk, map_ids, map_keys, done_hashes, done_games, cur,
                 cur_mapid, next_id, owner, finished, action_count>>

\* End of the catalogue: per bucket, idents ++ titles and map ++ actions,
\* with the map length as the offset of the action strings.
Emit ==
  /\ pc = "read"
  /\ pc' = "emitted"
  /\ out' = [b \in Buckets |->
              [idents |-> FlattenSeq([i \in 1..SLOTS |-> bk[b].idents[i - 1]])
                            \o bk[b].title_data,
               mappings |-> bk[b].map_data \o bk[b].action_data,
               action_offset |-> bk[b].map_length]]
  /\ UNCHANGED <<err, bk, map_ids, map_keys, done_hashes, done_games, cur,
                 cur_mapid, next_id, owner, finished, action_count>>

Next ==
  \/ \E g \in Games : ReadGame(g)
  \/ RegisterIdent
  \/ FinishGame
  \/ Emit

Spec == Init /\ [][Next]_vars

-----------------------------------------------------------------------------
(***************************************************************************)
(* Reading the output back, the way the format describes it (spec 4.4, 6). *)
(***************************************************************************)

\* The null-terminated string starting at index i of s.
CStringAt(s, i) ==
  LET z == SelectInSubSeq(s, i, Len(s), LAMBDA x : x = 0)
  IN  IF z = 0 THEN <<>> ELSE SubSeq(s, i, z - 1)

BE16At(s, i) == 256 * s[i] + s[i + 1]

\* Reader's probe: from h % TBLSZ, the first slot holding h or 0.
ProbeStop(h) ==
  LET ks == {k \in 0..(TBLSZ - 1) :
               map_keys[((h % TBLSZ) + k) % TBLSZ] \in {h, 0}}
  IN  IF ks = {} THEN -1 ELSE ((h % TBLSZ) + Min(ks)) % TBLSZ

\* The BER index starting at index pos of s: its value and byte count.
RECURSIVE BerRead(_, _, _)
BerRead(s, pos, acc) ==
  IF pos > Len(s) THEN [val |-> -1, len |-> 0]
  ELSE IF s[pos] >= 128
       THEN BerRead(s, pos + 1, [val |-> acc.val * 128 + s[pos] - 128,
                                 len |-> acc.len + 1])
       ELSE [val |-> acc.val * 128 + s[pos], len |-> acc.len + 1]

IsAnalog(btn) == (btn % 32) \div 4 = 4

\* n mapping records read from index pos of a mappings blob whose action
\* strings start at offset aoff.
RECURSIVE DecodeRecs(_, _, _, _)
DecodeRecs(s, aoff, pos, n) ==
  IF n = 0 \/ pos > Len(s) THEN <<>>
  ELSE
    LET btn == s[pos]
        ber == IF HasAction(btn) THEN BerRead(s, pos + 1, [val |-> 0, len |-> 0])
               ELSE [val |-> 0, len |-> 0]
        nkeys == (btn \div 64 + 1) * (IF IsAnalog(btn) THEN 2 ELSE 1)
        kpos == pos + 1 + ber.len
    IN  <<[btn |-> btn,
           label |-> IF HasAction(btn) THEN CStringAt(s, aoff + ber.val + 1)
                     ELSE <<>>,
           keys |-> SubSeq(s, kpos, Min({kpos + nkeys - 1, Len(s)}))]>>
          \o DecodeRecs(s, aoff, kpos + nkeys, n - 1)

\* The mapping set at byte offset off of a mappings blob.
DecodeSet(s, aoff, off) ==
  IF off + 1 > Len(s) THEN <<>> ELSE DecodeRecs(s, aoff, off + 2, s[off + 1])

\* What a reader should see for a mapping buffer of the normalizer: its
\* button byte, its label with the separator shown as '/', its keys.
Shown(m) ==
  IF HasAction(m[1])
  THEN LET z == SelectInSubSeq(m, 2, Len(m), LAMBDA x : x = 0)
       IN  [btn |-> m[1], label |-> ReplaceAll(SubSeq(m, 2, z - 1), 1, 47),
            keys |-> SubSeq(m, z + 1, Len(m))]
  ELSE [btn |-> m[1], label |-> <<>>, keys |-> SubSeq(m, 2, Len(m))]

ShownSet(ms) == [i \in 1..Len(ms) |-> Shown(ms[i])]

NameBytes(name) == FlattenSeq([i \in 1..Len(name) |-> Utf8(name[i])])

\* The ident found at slot s of the emitted output reads back as game g.
EmittedIdentIs(s, g) ==
  LET blob == out[s % BUCKETS].idents
      p == 5 * (s \div BUCKETS) + 1
      t == 5 * SLOTS + BE16At(blob, p + 3) + 1
      mb == blob[p]
  IN  /\ t < Len(blob)
      /\ blob[t] = g.year - 1970
      /\ CStringAt(blob, t + 1) = NameBytes(g.name)
      /\ mb \in Buckets
      /\ DecodeSet(out[mb].mappings, out[mb].action_offset,
                   BE16At(blob, p + 1)) = ShownSet(g.maps)

-----------------------------------------------------------------------------

TypeOK ==
  /\ pc \in {"read", "ident", "emitted", "failed"}
  /\ map_keys \in [Slots -> Nat]
  /\ DOMAIN map_ids \subseteq {MapKey(g.maps) : g \in Games}
  /\ \A k \in DOMAIN map_ids : map_ids[k] \in Byte \X Byte \X Byte
  /\ \A b \in Buckets :
       /\ bk[b].map_data \in Seq(Byte)
       /\ bk[b].action_data \in Seq(Byte)
       /\ bk[b].title_data \in Seq(Byte)
       /\ bk[b].idents \in [0..(SLOTS - 1) -> Byte \X Byte \X Byte \X Byte \X Byte]
  /\ done_games \in 0..MaxGames
  /\ next_id \in 1..(Len(cur.ids) + 1)

\* End to end (spec 4.4, 8): after emission, every fingerprint stored is
\* found by linear probing from fingerprint % TBLSZ, and the ident at that
\* slot reads back, through the title pool and the mapping and action
\* pools of the emitted blobs, as the name, year and mappings of the game
\* that registered the fingerprint first.  Exercises the probe loop, the
\* slot -> (bucket, index) split, title interning, the round-robin MapID,
\* the BER action indices and the concatenation order of the emitter.
ReaderFindsFirstRegistrant ==
  pc = "emitted" =>
    \A h \in DOMAIN owner :
      LET s == ProbeStop(h)
      IN  /\ s # -1
          /\ map_keys[s] = h
          /\ EmittedIdentIs(s, owner[h])

\* Index just past n mapping records that start at index pos of s.
RECURSIVE RecsEnd(_, _, _)
RecsEnd(s, pos, n) ==
  IF n = 0 \/ pos > Len(s) THEN pos
  ELSE LET btn == s[pos]
           blen == IF HasAction(btn)
                   THEN BerRead(s, pos + 1, [val |-> 0, len |-> 0]).len
                   ELSE 0
           nkeys == (btn \div 64 + 1) * (IF IsAnalog(btn) THEN 2 ELSE 1)
       IN  RecsEnd(s, pos + 1 + blen + nkeys, n - 1)

\* The byte offsets at which the sets of a mapping pool of length len
\* start, walking the pool from its first count byte.
RECURSIVE SetStarts(_, _, _)
SetStarts(s, len, pos) ==
  IF pos > len THEN {}
  ELSE {pos - 1} \cup SetStarts(s, len, RecsEnd(s, pos + 1, s[pos]))

\* Length of the normalizer buffer at the head of s: the button byte, the
\* null-terminated text if flagged, and the keys its count bits give.
BufLen(s) ==
  LET te == IF HasAction(s[1])
            THEN SelectInSubSeq(s, 2, Len(s), LAMBDA x : x = 0) ELSE 1
  IN  te + (s[1] \div 64 + 1) * (IF IsAnalog(s[1]) THEN 2 ELSE 1)

\* The buffers a map key was joined from, each read by its own length.
RECURSIVE SplitMaps(_)
SplitMaps(s) ==
  IF s = <<>> THEN <<>>
  ELSE <<SubSeq(s, 1, BufLen(s))>>
         \o SplitMaps(SubSeq(s, BufLen(s) + 1, Len(s)))

\* Dedup (spec 4.3, 8): at every point of the run, each mapping set the
\* loop committed is stored exactly once in all the pools: walking bucket
\* b's mapping pool meets a set exactly at the offsets of the MapIDs of b,
\* and the set at each MapID reads back as the committed mappings.  A
\* second commit of a known set, or a MapID taken at the wrong offset,
\* breaks it.
MapSetsStoredOnce ==
  \A b \in Buckets :
    LET B == bk[b]
        blob == B.map_data \o B.action_data
        mine == {k \in DOMAIN map_ids : map_ids[k][1] = b}
    IN  /\ SetStarts(blob, B.map_length, 1)
             = {BE16At(map_ids[k], 2) : k \in mine}
        /\ \A k \in mine :
             DecodeSet(blob, B.map_length, BE16At(map_ids[k], 2))
               = ShownSet(SplitMaps(k))

\* Interning (spec 4.2, 8): in every bucket each action string and each
\* title is stored once: the index of every interned string points at it,
\* and the pool is exactly as long as its distinct strings.  Covers the
\* pre-seeded COMMON_ACTIONS that a game's action text may hit.
StringsInternedOnce ==
  \A b \in Buckets :
    LET B == bk[b]
    IN  /\ \A a \in DOMAIN B.action_idx :
             CStringAt(B.action_data, B.action_idx[a] + 1) = a
        /\ B.action_length = Len(B.action_data)
        /\ B.action_length
             = FoldSet(LAMBDA a, acc : acc + Len(a) + 1, 0,
                       DOMAIN B.action_idx)
        /\ \A t \in DOMAIN B.title_idx :
             B.title_data[B.title_idx[t] + 1] = t[2] - 1970
        /\ B.title_length = Len(B.title_data)
        /\ B.title_length
             = FoldSet(LAMBDA t, acc : acc + Len(t[1]) + 2, 0,
                       DOMAIN B.title_idx)

\* The dictionary a reader of the live pools sees: for every fingerprint in
\* the table, the title and mapping set of the ident its probe stops at.
ReadBack(s) ==
  LET B == bk[s % BUCKETS]
      id == B.idents[s \div BUCKETS]
      t == BE16At(id, 4) + 1
      mb == id[1]
  IN  IF t > Len(B.title_data) \/ mb \notin Buckets THEN <<>>
      ELSE [year |-> B.title_data[t],
            name |-> CStringAt(B.title_data, t + 1),
            maps |-> DecodeSet(bk[mb].map_data \o bk[mb].action_data,
                               bk[mb].map_length, BE16At(id, 2))]

StoredFingerprints == {map_keys[s] : s \in Slots} \ {0}

ReaderDict ==
  [h \in StoredFingerprints |->
     IF ProbeStop(h) = -1 THEN <<>> ELSE ReadBack(ProbeStop(h))]

Dictionary == INSTANCE CatalogueDictionary
                WITH dict <- ReaderDict, Keys <- {FP[x] : x \in DOMAIN FP}

\* Spec 2, 4.4: the compiler implements the catalogue dictionary.  Every
\* step of the loop adds at most one fingerprint to what a reader finds
\* and leaves every entry found before unchanged: no later identifier,
\* title, mapping set or action text may move or overwrite an earlier one.
RefinesDictionary == Dictionary!Spec

\* Spec 7, 8: a title with no identifying files must fail (MissingField).
\* So every game the loop completes is identifiable at run time: one of its
\* fingerprints was stored for it first, and the reader reaches it.
EveryAcceptedGameIdentifiable ==
  \A g \in finished :
    \E i \in DOMAIN g.ids :
      /\ FP[g.ids[i]] \in DOMAIN owner
      /\ owner[FP[g.ids[i]]] = [name |-> g.name, year |-> g.year,
                                maps |-> g.maps]

====
