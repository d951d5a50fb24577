# TLA+ models of the keyb2joypad catalogue compiler

`src/keyb2joypad-yml-to-c.js` is a single-threaded batch program. It reads
the YML catalogue of keyboard-to-gamepad mappings, with one record per DOS
game, and writes `keyb2joypad.h` and `keyb2joypad.cpp`. The output holds a
fingerprint hash table and four compressed buckets that DOSBox Pure searches
at run time. The program has no concurrency, and it persists nothing until it
has finished. What is hard in it is the *sequence* of records:
- which half of an analog axis arrives first;
- which game first uses a mapping set, action text, title or hash slot;
- what a later record finds in the pools that earlier ones filled.

The modules explore every order of a small but representative set of
inputs. They check that the bytes a reader gets back are what the catalogue
said.

## Parts of the program and how they interact

| Part | Lines | State | Operations |
|---|---|---|---|
| Lookup tables | 20-40 | `YMLKeys`, `YMLBtnIds`, `COMMON_ACTIONS` (static) | none after start |
| Bucket setup | 41-58 | `buckets[]` with pools, `map_ids`, `done_hashes`, `map_keys`, `done_games` | pre-seed action pools |
| Line reader | 63-73, 118-126 | per-game `gamename`, `gameyear`, `maps`, `id_files`, `id_sizes`, `wheelnum` | name/year/identifier lines, end-of-game checks |
| Mapping normalizer | 74-117 | the game's `maps` list of mapping buffers | one binding line: validate, merge analog halves, encode |
| Deduplicator and action interner | 127-180 | `map_ids`, each bucket's `map_data` and `action_idx`/`action_data` | store a new mapping set once, BER-encode action indices |
| Hash table, titles, idents | 182-217 | `map_keys`, `done_hashes`, each bucket's `title_idx`/`title_data` and `idents` | register one identifier |
| Emitter | 256-297 | the `.cpp` text | concatenate each bucket's regions, compress, escape |
| DBP_Hash / DBP_HashSize | 310-320 | none (pure) | 32-bit FNV-style fingerprint |
| BufferToBinaryC | 322-351 | none (pure) | escape bytes as a C string literal |
| ZopfliDeflate | 353-358 | none (library call) | compress |

These parts interact through three pieces of state:
- The normalizer produces the game's `maps`.
- The deduplicator turns `maps` into a MapID, the bucket number and a 16-bit
  offset. The identifier loop then writes that MapID into a 5-byte ident,
  stored at the slot its fingerprint probes to.
- The emitter lays out each bucket as idents ++ titles and map ++ actions.
  The reader walks that layout back.

## Modules

### `GameCompiler` (lines 41-58, 121-217, 256-297)

This module models the compiler from the moment a game record has been read.

**State**

| Variable | Models |
|---|---|
| `bk` | `buckets[]`: pools, indices and idents, one record per bucket |
| `map_ids`, `map_keys`, `done_hashes`, `done_games` | the code's variables of the same names |
| `pc` | whether the loop is reading a game, registering its identifiers, has emitted, or has thrown |
| `cur`, `cur_mapid`, `next_id` | the game in the identifier loop and that loop's index |
| `out` | the per-bucket blobs given to the compressor |
| `action_count` | the code's `action_count` statistics |

It also keeps two ghost variables:
- `owner`: the game that first stored each fingerprint.
- `finished`: the games the loop completed.

**Actions**

| Action | Lines | What it does |
|---|---|---|
| `ReadGame(g)` | 123-180 | The end-of-game checks, then either the `map_ids` hit or `CommitMaps`, both keyed by `MapKey`, the set's buffers joined with no separator (line 128). `CommitMaps` is the round-robin bucket, the two size throws and the append of the count byte and every mapping through `StoreMapping`, with `action_count` bumped per action text (`CountAction`, line 175). |
| `RegisterIdent` | 183-215 | One iteration of the identifier loop, with every throw as its own disjunct: DUPLICATE, HASH TABLE FULL, invalid year, title data too large. It then either reuses an interned title or appends one (`TitleBytes`, including the UTF-8 write truncation of line 205). Finally it writes the slot and the ident. |
| `FinishGame` | 217 | End of the identifier loop. |
| `Emit` | 256-297 | End of the catalogue. |

A game is a record `[name, year, maps, ids]`:
- A name is a sequence of character codes.
- `maps` is the list of mapping buffers, as `MappingNormalizer` produces them.
- `ids` is a list of identifiers.

The constant function `FP` gives each identifier's fingerprint
`DBP_HashSize(DBP_Hash(file), size)`.

### `MappingNormalizer` (lines 28-40, 66-67, 74-117)

This module models one game's binding lines.

**State**
- `maps`, `wheelnum`: the code's variables.
- `status`: `ok`, `error` (an `Error` thrown on purpose) or `crash` (a `TypeError`).
- `lines`: the number of binding lines handled.
- `given`: a ghost holding what each line bound.

**Action**

`BindLine` is the whole handler of one `input_pad_*` / `input_wheel_*` line:
1. The button lookup through `YMLBtnIds`, which is translated in full.
2. The validation throws, in the code's order.
3. The `findIndex` duplicate lookup.
4. Then one of:
   - `SecondPart` (lines 95-105): the half already stored is re-parsed, split on `\x01`, merged by the verb regex, padded and interleaved.
   - `FirstPart` (lines 106-110).
   - A plain store.
5. The encoding of lines 113-116.

Key names are abstracted to the codes `YMLKeys` yields, with -1 for a name it
lacks. Texts are byte sequences.

### `DbpHash` (lines 310-320)

The fingerprint `DBP_HashSize(DBP_Hash(file), size)`. The 32-bit word is a
pair of 16-bit halves, because TLC's integers are narrower.

**State**
- `s`, `size`: the input name and size.
- `i`: the loop index.
- `hash`: the running hash.
- `fp`: the result.

**Actions**
- `HashChar`: one iteration of line 318. It is built from the `| 0`
  products: `Int32Mul2p24` and `Mul193`, summed by `Add32`, then xored with
  the code unit.
- `Return`: `>>> 0` together with `DBP_HashSize`.

The reference `FNV1` multiplies four bytes by schoolbook. It was checked
against published FNV-1 and FNV-1a values for `a` and `foobar`.

### `BinaryCString` (lines 322-351)

`BufferToBinaryC`. The state is `buf`, `i`, `mode`, `codeLineLen`, `res` and
`status`.

**Actions**
- `Start`: the length throw and the opening quote.
- `EncodeByte`: one loop iteration. `Piece` is the switch with its
  octal/trigraph modes. The step also inserts the `"\n\t\t"` line break.
- `Finish`: the closing quote.

The reference `CompilerReads` decodes the result as a C compiler does:
1. Trigraph replacement.
2. Line splicing.
3. Escapes, with octal escapes taking up to three digits.
4. Concatenation of adjacent literals.

### `CatalogueDictionary` (abstract)

What the catalogue promises the runtime: a dictionary from fingerprint to
what the reader finds. `Register(k)` adds one entry. An entry, once made,
never changes.

`GameCompiler` instantiates it as `Dictionary` with `dict <- ReaderDict`.
`ReaderDict` is computed from the live state. For every fingerprint in
`map_keys`, the probe's slot's ident is read back through:
- the title pool;
- the MapID;
- the mapping and action pools.

`RefinesDictionary == Dictionary!Spec` is a PROPERTY of the core run.

### `YmlReader` (lines 63-75, 118-122), composed with `MappingNormalizer`

The reading loop, with one step per line of the file:
- `NextGame` is the start of the outer loop (lines 64-67). The record
  (`gamename`, `gameyear`, `id_files`) starts empty, and so does the
  normalizer's per-game state (`maps` and the inner for's `wheelnum`).
- `EndOfFile` is the outer loop's condition failing (line 63).
- `ReadLine` is one pass of the inner loop. It reads
  `ymlLines[lineidx++]` and takes the first branch the line matches:
  - `-` breaks once a name is known and is skipped otherwise;
  - `name` and `year` throw "Multiple ..." when one is already set;
  - an identifier is appended;
  - a binding line is `Bind`, which is `MappingNormalizer!BindLine` on
    the reader's `maps`, `wheelnum` and ghost state (through
    `N == INSTANCE MappingNormalizer WITH ...`). An error it throws ends the
    run;
  - a blank or comment line is ignored;
  - any other line is `Unmatched` (line 118).
- `EndGame` is lines 121-122. A record without a name throws, because the
  arrays tested at line 121 are always truthy. A named record is handed on
  (`games`) to what `GameCompiler` models from line 123 on.

A line is a record of the branch its text matches and the fields the regex
captures. `""` and a missing name are both `<<>>`, because every test in
the code treats them alike.

For the properties, `Sections` splits the file at its `-` lines, the list
items of spec 6. `WellFormed` says every section is a complete title:
- exactly one non-empty name;
- at most one year;
- valid bindings, with no slot bound twice and wheels numbered 1, 2, ...;
- no unknown line.

The file must also end in a title.

### `Keyb2Joypad` (lines 42-217, 256-297): the reader and the compiler composed

The program is one thread, and the compile part of lines 123-217 runs inside
the same pass of the outer loop that read the record. `Keyb2Joypad` extends
`YmlReader` and takes the compiler as `C == INSTANCE GameCompiler WITH err <-
cerr, Games <- {}`. The compiler's `pc` says whose turn it is:

| Action | Lines | What it does |
|---|---|---|
| `ReaderStep` | 63-122 | a step of the reader (`NextGame`, `EndOfFile`, `ReadLine`, or `EndGame` of a nameless record), taken only while `pc = "read"` |
| `HandOver` | 121-126 | `EndGame` of a named record together with `C!ReadGame` of that record: the checks of lines 121-126 and the mapping-set store are one step |
| `CompilerStep` | 183-217 | `C!RegisterIdent` or `C!FinishGame`; the reader waits |
| `EmitStep` | 256-297 | `C!Emit`, once the outer loop has ended without a throw |

A record reaches the compiler as the argument of `ReadGame`, so the
compiler's constant `Games` is empty here.

### MC modules

`MCGameCompiler`, `MCMappingNormalizer`, `MCDbpHash`, `MCBinaryCString`,
`MCYmlReader` and `MCKeyb2Joypad` give the constants values.

## Runs

| Run | Cfg | Expect | What it shows |
|---|---|---|---|
| compiler_core | `MCGameCompiler.cfg` | pass | Checks `TypeOK`, four invariants over the pools and the emitted blobs and the refinement (below). |
| fingerprint_zero | `MCGameCompiler_zero.cfg` | violation | An identifier with fingerprint 0 is written into a slot that still reads as empty (line 191). The next identifier that probes there overwrites its ident. |
| utf8_title | `MCGameCompiler_utf8.cfg` | violation | The title of a name containing `é` is emitted truncated. `titleBuf` is `gamename.length + 2` bytes (line 203), and line 206 writes the 0 over the last UTF-8 byte. |
| no_identifiers | `MCGameCompiler_noids.cfg` | violation | `!id_files` at line 125 tests an array, so a game with no identifiers is compiled yet unreachable. Spec 7 lists MissingField. |
| normalizer | `MCMappingNormalizer.cfg` | pass | Checks `TypeOK`, which includes the 2-bit key-count field, and three properties (below). |
| dbp_hash | `MCDbpHash.cfg` | pass | After every iteration, the hash equals 32-bit FNV-1 of the prefix (`HashLoopIsFnv1`). The fingerprint equals FNV-1 xor (size·8 mod 2^32) (`FingerprintMatchesReference`). Names have up to 3 characters from `.`, `A`, `é` (0xE9) and `€` (0x20AC). Sizes are 1000, 0x20000005 (so `<< 3` wraps) and 0xFFFFFFFF. |
| fnv1a_order | `MCDbpHash_fnv1a.cfg` | violation | Spec 4.4 calls the hash "FNV-1a-style", but line 318 multiplies before it xors, so the code computes FNV-1. A spec-conforming reimplementation would produce different fingerprints. |
| c_string | `MCBinaryCString.cfg` | pass | `LiteralDecodesToBuffer`: every buffer of up to 3 bytes decodes back exactly. Bytes come from 0, 1, 200, `\b`, `"`, `\\`, `1`, `8`, `?`, `(`, `A`, and a line break is forced every 3 characters. |
| pipeline | `MCKeyb2Joypad.cfg` | pass | The reader and the compiler composed. Checks `TypeOK`, `WellFormedFileRead`, `TitlesIdentified` over every file of up to 5 lines and every catalogue of 1 to 3 titles (below). |
| nameless_section | `MCKeyb2Joypad_nameless.cfg` | violation | `year: 1990`, `-`, `name: "A"` is compiled and emitted as one title A of 1990. Line 70 skips a `-` seen before any name, so a section missing its name merges into the next, which then passes every check of lines 121-130. Spec 7 says MissingField. The run is in the pipeline module so that line 123's year check is part of it; its files also hold `name: ""` lines (`""` is falsy at line 71). |
| trailing_separator | `MCYmlReader_trailing.cfg` | violation | A file holding only `-` fails with "Had data but not a game name". So does a file ending in `-` after its last title, or an empty file. Line 121 tests arrays, which are always truthy, so the `break` of line 122 is dead. |
| analog_half_order | `MCMappingNormalizer_order.cfg` | violation | Binding `lstick_right` without a text, then `lstick_left`, leaves `aparts[1]` undefined, and line 101 throws a `TypeError`. Spec 4.1 merges either order. |

The compiler_core properties are:
- `ReaderFindsFirstRegistrant`: after emission, every stored fingerprint is found by the reader's probe. Its ident reads back, through titles, the MapID, the BER action indices and both blobs, as the game that registered it first.
- `MapSetsStoredOnce`: each mapping set is stored exactly once, at the offset of its MapID, and reads back as the buffers its key was joined from (`SplitMaps` parses a key by each buffer's own length).
- `StringsInternedOnce`: each action text and title is stored once, at its index.
- `RefinesDictionary`: the pools implement `CatalogueDictionary`. Each step adds at most one fingerprint the reader can find, and never changes an entry it found before.

The normalizer properties are:
- `BindingsKeysPreserved`: every key list a line gave is what decoding the buffers returns, with the count bits, the interleaving and the padding, whichever half came first.
- `AnalogLabelMerged`: the label of an axis is the one spec 4.1 describes.
- `OneMappingPerButton`: a game holds at most one mapping per button or axis.

The pipeline properties are:
- `WellFormedFileRead`: a well-formed file is read without error into one record per section, in order. Each record has the name, year and identifiers of its own section, and the buttons and number of mappings of its own binding lines.
- `TitlesIdentified`: once a well-formed file has been emitted, one record was compiled per title. The probe of every identifier the file lists stops at an ident that reads back, through the emitted title and mapping pools, as the name, year, buttons and mapping count of the first title listing it. This is stated over the file's text, not over the records handed on, so it checks the reader and the compiler together.

Every property of a passing run has a mutant in `PROJECT.json`. The mutant is
a plausible slip in the mapped definition, and TLC finds it.

| Mutant | Property it breaks |
|---|---|
| the emitter concatenating actions before the map | `ReaderFindsFirstRegistrant` |
| the `map_ids` lookup dropped | `MapSetsStoredOnce` |
| the action-pool lookup dropped | `StringsInternedOnce` |
| the year written without the 1970 offset | `TypeOK` |
| the other half's key read one position too far | `BindingsKeysPreserved` |
| the first half tagged to the wrong side | `AnalogLabelMerged` |
| the lookup masking with 63 | `OneMappingPerButton` |
| the count stored without the minus one | `TypeOK` |
| a slot used without linear probing | `RefinesDictionary` |
| FNV-1a order in the loop | `HashLoopIsFnv1` |
| the shifted size added rather than xored | `FingerprintMatchesReference` |
| `size << 3` without the 32-bit wrap | `TypeOK` |
| a digit after an octal escape left bare | `LiteralDecodesToBuffer` |
| `codeLineLen` not reset at a break | `TypeOK` (the line-length bound) |
| `wheelnum` declared once, outside the outer loop | `WellFormedFileRead` |
| the record handed on without its identifiers | `TypeOK` (of `YmlReader`) |
| the identifier loop starting at its second entry | `TitlesIdentified` |

## Bounds and why they are enough

**GameCompiler.** The model uses 2 buckets of 3 slots each, so `TBLSZ` = 6.
It reads at most 4 games, chosen from 7 records:
- Names are shared, with two years of `a`.
- Mapping sets are shared between games.
- A set mixes a digital record, an analog record and a record with a
  multi-action label.
- A common action is hit.
- Identifiers are repeated within one game and across games.
- Fingerprints 7, 13 and 11 collide modulo 6 and probe across bucket
  boundaries.

`MaxOffset` = 4 and `MaxMapCount` = 2 stand for 0xFFFF and 0xFF. They are
small enough that both size throws, the invalid year (1969, and a missing
year) and HASH TABLE FULL are all reached. The common actions are `F` and a
130-byte text, so a game's own action texts get indices past 127. These are
encoded in two BER bytes, and the reader's decoding of them is exercised.

**MappingNormalizer.** The model handles up to 3 binding lines, chosen from
these inputs:
- A digital button, both halves of `lstick`, an unknown name, and wheel
  numbers 1 and 2.
- Key lists of 1, 2, 3 and 4 keys, and an unknown key.
- No text, `M L`, `M R` (a shared verb), and `F` (no verb).

Three lines are enough for:
- both half orders;
- a duplicate half;
- a second digital binding;
- out-of-order wheels;
- merges where one half has 1 key and the other 2 or 3.

**DbpHash.** Names have up to 3 characters. The loop is the same for
every iteration, so three characters cover carries through both halves.
This includes a code unit above 255, which is xored into both low bytes.

**BinaryCString.** Buffers have up to 3 bytes, enough for `??(` and for an
octal escape followed by a digit across a forced line break.
`LineBreakAt` = 3 stands for 950, so breaks fall between every kind of
piece. `MaxBufLen` = 3 stands for 65510, so the length throw is reached by a
4-byte buffer.

**YmlReader.** The pipeline run reads every sequence of 1 to 5 lines over:
- `-`, `name: "A"`, `year: 1990`, one identifier;
- two bindings: button `a` and wheel entry 1;
- a blank line and an unknown line.

Five lines are enough for:
- two titles, each with a wheel or an `a` binding (`A, w1, -, A, w1`), so
  state carried over from one game to the next shows;
- a nameless section before a title;
- duplicated names, years and bindings;
- a trailing `-`.

The trailing_separator run uses files of up to 4 lines. The analog
bindings are left out; their paths are checked by the normalizer run.

**Keyb2Joypad.** The files above, and every catalogue of 1 to 3 titles built
from five records:
- `A` with identifier 1 and binding `a`;
- `B` with identifier 2 and the wheel binding;
- `A` with identifier 2 and the wheel binding (a title shared with the
  first, other mappings);
- `B` with identifier 1 and no binding;
- `A` with identifier 3 and binding `a` (the first title and set again).

So an identifier is listed twice under one name (stored in two slots,
line 191), or under two names (DUPLICATE), and a title and a mapping set
are reused by a later game. There are 2 buckets of 2 slots. The
fingerprints of identifiers 1 and 2 are 5 and 7, slots 1 and 3, both in
bucket 1: the title `A`/1990 is interned there once and reused by a later
game with other mappings, at a slot the probe reaches first. Identifier 3
has fingerprint 9, which starts at slot 1 too and probes on to slot 2 in
the other bucket. The nameless_section run reads the files of up to 5
lines with `name: ""` added. The offsets keep their code values, 0xFFFF and 0xFF;
their throws are reached in the compiler_core run.

## Fairness

No property is about progress, so no fairness is assumed. The program is
one thread whose loops each advance an index (`lineidx++` in every pass of
the inner loop, `i++` in the identifier loop), so it stops on every input:
the models' state graphs have no cycles. Every model stops after emission,
an error or the end of its input, so every cfg says `CHECK_DEADLOCK FALSE`.

## Not modelled

- The regexes of the YML branches. `YmlReader` receives a line as the branch
  it matches and the fields it captures. `GameCompiler` receives a game as a
  record.
- Inside `GameCompiler`, `DBP_Hash` is abstracted to the constant `FP`. The
  hash is checked on its own in `DbpHash`.
- `ZopfliDeflate` (an external library), the console output and the
  `.h`/`.cpp` text.
- The sort and selection of common actions (lines 222-225). They only print
  a suggestion. Its sum uses UTF-16 lengths where the pool holds UTF-8
  bytes, which is listed as a hazard.

## Plan for further modules

1. A second `year:` line after `year: 0` is taken silently (line 72). No
   property speaks of it yet, because `WellFormed` only admits sections with
   one year line.
2. The common-actions selection of lines 222-225 sums UTF-16 lengths against
   127 where the pool stores UTF-8 bytes. Showing it needs a violation run of
   its own over non-ASCII action texts.
3. The duplicate description of line 186 leaves out the year, so a title of
   the same name in another year listing the same file is accepted and
   stored in a second slot (line 191) that the probe never reaches. Showing
   it needs a violation run of its own with such a pair of records.
