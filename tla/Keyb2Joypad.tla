---------------------------- MODULE Keyb2Joypad -----------------------------
(***************************************************************************)
(* The whole compile loop of src/keyb2joypad-yml-to-c.js (lines 63-217    *)
(* and 256-297): the YML reader of lines 63-122 hands every named record   *)
(* to the compiler of lines 123-217 and waits until the compiler is done  *)
(* with it; at the end of the file the compiler emits its blobs.  The      *)
(* reader is YmlReader itself (EXTENDS), the compiler an INSTANCE of       *)
(* GameCompiler whose pc tells whose turn it is: the program is one        *)
(* thread, so the reader moves only while the compiler is at "read".       *)
(***************************************************************************)
EXTENDS YmlReader

CONSTANTS BUCKETS, SLOTS, MaxOffset, MaxMapCount, COMMON_ACTIONS, FP,
          MaxGames

VARIABLES pc, cerr, bk, map_ids, map_keys, done_hashes, done_games, cur,
          cur_mapid, next_id, out, owner, finished, action_count

cvars == <<pc, cerr, bk, map_ids, map_keys, done_hashes, done_games, cur,
           cur_mapid, next_id, out, owner, finished, action_count>>
rvars == <<yml, lineidx, phase, err, rec, nvars, games>>
allvars == <<rvars, cvars>>

\* The records reach the compiler as arguments, never through its Games.
C == INSTANCE GameCompiler WITH err <- cerr, Games <- {}

PipelineInit == Init /\ C!Init

\* A step of lines 63-122 that does not leave the reader: every line, the
\* outer loop's test, and a nameless record at line 121 (which throws).
ReaderStep ==
  /\ pc = "read"
  /\ \/ NextGame
     \/ EndOfFile
     \/ ReadLine
     \/ EndGame /\ gamename = <<>>
  /\ UNCHANGED cvars

\* Lines 121-123: a named record passes the checks of lines 121-122 and the
\* same pass of the outer loop goes on with it at line 123.
HandOver ==
  /\ pc = "read"
  /\ gamename # <<>>
  /\ EndGame
  /\ C!ReadGame([name |-> gamename, year |-> gameyear, maps |-> maps,
                 ids |-> id_files])

\* Lines 183-217: the identifier loop of the record handed over.
CompilerStep ==
  /\ C!RegisterIdent \/ C!FinishGame
  /\ UNCHANGED rvars

\* Line 256 on: the outer loop has ended without a throw.
EmitStep ==
  /\ phase = "done"
  /\ C!Emit
  /\ UNCHANGED rvars

PipelineNext == ReaderStep \/ HandOver \/ CompilerStep \/ EmitStep

PipelineSpec == PipelineInit /\ [][PipelineNext]_allvars

-----------------------------------------------------------------------------

\* The data sections of the file, in order.
DataSections == SelectSeq(Sections(yml), HasData)

\* The first section listing identifier id.
FirstLister(id) ==
  DataSections[Min({k \in DOMAIN DataSections :
                      \E i \in DOMAIN LinesOf(DataSections[k], "ident") :
                        LinesOf(DataSections[k], "ident")[i].id = id})]

\* What the emitted output shows at slot s: the ident there, with the title
\* and the mapping set it points to (nothing when its title is missing).
FoundAt(s) ==
  LET blob == out[s % BUCKETS].idents
      p == 5 * (s \div BUCKETS) + 1
      t == 5 * SLOTS + C!BE16At(blob, p + 3) + 1
      mb == blob[p]
      ms == C!DecodeSet(out[mb].mappings, out[mb].action_offset,
                        C!BE16At(blob, p + 1))
  IN  IF t > Len(blob)
      THEN [name |-> <<>>, year |-> 0, btns |-> {}, count |-> 0]
      ELSE [name |-> C!CStringAt(blob, t + 1), year |-> blob[t] + 1970,
            btns |-> {ms[i].btn % 32 : i \in DOMAIN ms}, count |-> Len(ms)]

(* Spec 2, 4.4, 6: a catalogue compiled without error can be looked up by  *)
(* every identifier it lists.  Once a well-formed file has been emitted,   *)
(* one record was compiled per title, and the probe of every identifier's  *)
(* fingerprint stops at an ident that reads back, through the emitted      *)
(* title and mapping pools, as the name, year, buttons and number of       *)
(* mappings of the first title listing it.  Breaks if the reader hands on *)
(* a wrong or partial record, the compiler skips an identifier, or the    *)
(* emitted regions disagree with the offsets the ident holds.             *)
TitlesIdentified ==
  pc = "emitted" /\ WellFormed(yml) =>
    /\ done_games = Len(DataSections)
    /\ \A k \in DOMAIN DataSections :
         \A i \in DOMAIN LinesOf(DataSections[k], "ident") :
           LET id == LinesOf(DataSections[k], "ident")[i].id
               s == C!ProbeStop(FP[id])
               e == Expected(FirstLister(id))
           IN  /\ s # -1
               /\ map_keys[s] = FP[id]
               /\ out[s % BUCKETS].idents[5 * (s \div BUCKETS) + 1]
                    \in C!Buckets
               /\ FoundAt(s) = [name |-> C!NameBytes(e.name),
                                year |-> e.year, btns |-> e.btns,
                                count |-> e.count]

(* Spec 7 (MissingField): a title missing its name must fail.  So once the *)
(* file has been compiled and emitted, every section holding data had a    *)
(* name.  Line 70 skips a '-' seen before any name (and "" is no name), so *)
(* the fields of a nameless section are taken into the next title, which  *)
(* then passes the checks of lines 121-130.                                *)
NamelessSectionRejected ==
  pc = "emitted" =>
    \A k \in DOMAIN Sections(yml) :
      HasData(Sections(yml)[k]) => Named(Sections(yml)[k])

=============================================================================
