------------------------------ MODULE YmlReader ------------------------------
(***************************************************************************)
(* The YML reading loop of src/keyb2joypad-yml-to-c.js (lines 63-122): the *)
(* outer loop starts a game record, the inner loop reads one line per step *)
(* until a '-' line after a name or the end of the file, and the record is *)
(* checked and handed to the compiler (GameCompiler models lines 123-217). *)
(* A binding line is handled by the mapping normalizer, composed here by   *)
(* INSTANCE: the record's maps, wheelnum and ghost state are its own.      *)
(*                                                                         *)
(* A line is a record of its kind (the branch of the if-chain its text     *)
(* matches) and the captured fields; a blank and a '#' comment line take   *)
(* the same branch.  Names are byte sequences, <<>> standing for both      *)
(* undefined and "", which every test of the code treats alike; a year is  *)
(* 0 when no year line was read; an identifier is a small integer.         *)
(***************************************************************************)
EXTENDS Integers, Sequences, SequencesExt, FiniteSets

CONSTANTS
  Files,     \* the line sequences ymlLines may be (split always gives >= 1)
  Bindings,  \* the binding lines: [wheel, pad, num, keys, action]
  MaxLines   \* bound of the normalizer: binding lines of one game

VARIABLES
  yml,       \* ymlLines
  lineidx,   \* lineidx
  phase,     \* "outer" | "inner" | "end" (inner loop left) | "done" | "error"
  err,       \* the error thrown, once phase = "error"
  gamename,  \* gamename
  gameyear,  \* gameyear
  id_files,  \* id_files (with id_sizes: one identifier per entry)
  maps,      \* maps (normalizer)
  wheelnum,  \* wheelnum (normalizer)
  nstatus,   \* the normalizer's outcome for the current line
  nlines,    \* binding lines of the current game (normalizer's bound)
  given,     \* normalizer ghost: slot -> keys and text its line gave
  games      \* the records handed on to the compiler, in order

rec == <<gamename, gameyear, id_files>>
nvars == <<maps, wheelnum, nstatus, nlines, given>>
vars == <<yml, lineidx, phase, err, rec, nvars, games>>

N == INSTANCE MappingNormalizer
       WITH status <- nstatus, lines <- nlines,
            PadNames <- {Bindings[i].pad : i \in DOMAIN Bindings},
            WheelNums <- {Bindings[i].num : i \in DOMAIN Bindings},
            KeySeqs <- {Bindings[i].keys : i \in DOMAIN Bindings},
            Actions <- {Bindings[i].action : i \in DOMAIN Bindings}

Init ==
  /\ yml \in Files
  /\ lineidx = 0
  /\ phase = "outer"
  /\ err = "none"
  /\ gamename = <<>>
  /\ gameyear = 0
  /\ id_files = <<>>
  /\ N!Init
  /\ games = <<>>

Fail(e) ==
  /\ phase' = "error"
  /\ err' = e
  /\ UNCHANGED <<rec, nvars, games>>

\* Mutant: wheelnum declared once, outside the outer loop.
NextGameKeepsWheelnum ==
  /\ phase = "outer"
  /\ lineidx < Len(yml)
  /\ phase' = "inner"
  /\ gamename' = <<>>
  /\ gameyear' = 0
  /\ id_files' = <<>>
  /\ maps' = <<>>
  /\ nstatus' = "ok"
  /\ nlines' = 0
  /\ given' = [s \in {} |-> <<>>]
  /\ UNCHANGED <<yml, lineidx, err, games, wheelnum>>

\* Lines 64-66: another pass of the outer loop; the record and the
\* normalizer's per-game state (wheelnum of the inner for) start empty.
NextGame ==
  /\ phase = "outer"
  /\ lineidx < Len(yml)
  /\ phase' = "inner"
  /\ gamename' = <<>>
  /\ gameyear' = 0
  /\ id_files' = <<>>
  /\ maps' = <<>>
  /\ wheelnum' = 0
  /\ nstatus' = "ok"
  /\ nlines' = 0
  /\ given' = [s \in {} |-> <<>>]
  /\ UNCHANGED <<yml, lineidx, err, games>>

\* Line 64: the outer loop's condition fails; the file has been read.
EndOfFile ==
  /\ phase = "outer"
  /\ lineidx >= Len(yml)
  /\ phase' = "done"
  /\ UNCHANGED <<yml, lineidx, err, rec, nvars, games>>

\* A binding line (lines 74-117): the normalizer's step; an Error or a
\* TypeError it throws ends the run.
Bind(b) ==
  /\ N!BindLine(b.wheel, b.pad, b.num, b.keys, b.action)
  /\ IF nstatus' = "ok" THEN UNCHANGED <<phase, err>>
     ELSE phase' = "error" /\ err' = "Binding"
  /\ UNCHANGED <<rec, games>>

\* Line 118: a line no branch matches that is neither empty nor a comment.
Unmatched == Fail("UnknownEntry")

\* Lines 67-118: one pass of the inner loop reads ymlLines[lineidx++] and
\* takes the first branch of the if-chain its text matches.
ReadLine ==
  /\ phase = "inner"
  /\ lineidx < Len(yml)
  /\ lineidx' = lineidx + 1
  /\ LET l == yml[lineidx + 1] IN
       \/ /\ l.kind = "dash"
          /\ gamename # <<>>
          /\ phase' = "end"
          /\ UNCHANGED <<err, rec, nvars, games>>
       \/ /\ l.kind = "dash"
          /\ gamename = <<>>
          /\ UNCHANGED <<phase, err, rec, nvars, games>>
       \/ /\ l.kind = "name"
          /\ gamename # <<>>
          /\ Fail("MultipleName")
       \/ /\ l.kind = "name"
          /\ gamename = <<>>
          /\ gamename' = l.name
          /\ UNCHANGED <<phase, err, gameyear, id_files, nvars, games>>
       \/ /\ l.kind = "year"
          /\ gameyear # 0
          /\ Fail("MultipleYear")
       \/ /\ l.kind = "year"
          /\ gameyear = 0
          /\ gameyear' = l.year
          /\ UNCHANGED <<phase, err, gamename, id_files, nvars, games>>
       \/ /\ l.kind = "ident"
          /\ id_files' = Append(id_files, l.id)
          /\ UNCHANGED <<phase, err, gamename, gameyear, nvars, games>>
       \/ /\ l.kind = "bind"
          /\ Bind(Bindings[l.bind])
       \/ /\ l.kind = "blank"
          /\ UNCHANGED <<phase, err, rec, nvars, games>>
       \/ /\ l.kind = "junk"
          /\ Unmatched
  /\ UNCHANGED yml

\* Mutant: the record is handed on without its identifiers.
EndGameNoIds ==
  /\ \/ phase = "end"
     \/ phase = "inner" /\ lineidx >= Len(yml)
  /\ \/ /\ gamename = <<>>
        /\ Fail("NoName")
     \/ /\ gamename # <<>>
        /\ phase' = "outer"
        /\ games' = Append(games, [name |-> gamename, year |-> gameyear,
                                   maps |-> maps])
        /\ UNCHANGED <<err, rec, nvars>>
  /\ UNCHANGED <<yml, lineidx>>

\* Lines 121-122 once the inner loop is left (by the break or by its
\* condition).  maps, id_files and id_sizes are arrays, always truthy, so
\* line 121 throws whenever there is no name and line 122 is never reached.
\* A named record goes on to the compiler (line 123 on).
EndGame ==
  /\ \/ phase = "end"
     \/ phase = "inner" /\ lineidx >= Len(yml)
  /\ \/ /\ gamename = <<>>
        /\ Fail("NoName")
     \/ /\ gamename # <<>>
        /\ phase' = "outer"
        /\ games' = Append(games, [name |-> gamename, year |-> gameyear,
                                   maps |-> maps, ids |-> id_files])
        /\ UNCHANGED <<err, rec, nvars>>
  /\ UNCHANGED <<yml, lineidx>>

Next == NextGame \/ EndOfFile \/ ReadLine \/ EndGame

Spec == Init /\ [][Next]_vars

-----------------------------------------------------------------------------
(* The catalogue as spec 6 describes it: a list of title records, each     *)
(* item opened by a '-' line.  Sections(y) splits the file at its '-'       *)
(* lines; the first section is what precedes the first '-'.               *)

RECURSIVE Sections(_)
Sections(y) ==
  LET k == SelectInSeq(y, LAMBDA l : l.kind = "dash")
  IN  IF k = 0 THEN <<y>>
      ELSE <<SubSeq(y, 1, k - 1)>> \o Sections(SubSeq(y, k + 1, Len(y)))

LinesOf(sec, kind) == SelectSeq(sec, LAMBDA l : l.kind = kind)

HasData(sec) ==
  \E i \in DOMAIN sec : sec[i].kind \in {"name", "year", "ident", "bind"}

Named(sec) == \E i \in DOMAIN sec : sec[i].kind = "name" /\ sec[i].name # <<>>

BindsOf(sec) == LET bl == LinesOf(sec, "bind")
                IN  [i \in DOMAIN bl |-> Bindings[bl[i].bind]]

BtnOf(b) ==
  IF b.wheel THEN N!WHEEL_BTN_ID
  ELSE IF N!PadName(b.pad) \in DOMAIN N!YMLBtnIds
  THEN N!YMLBtnIds[N!PadName(b.pad)] ELSE -1

\* The button, half of an axis or wheel entry a binding line sets.
SlotOf(b) ==
  IF b.wheel THEN <<BtnOf(b), b.num>>
  ELSE <<BtnOf(b), IF b.pad[2] \in {"down", "right"} THEN 1 ELSE 0>>

\* One title's bindings as spec 7 accepts them: known names, 1 to 3 known
\* keys, no slot bound twice, wheel entries numbered 1, 2, ... in order.
BindsValid(bs) ==
  /\ \A i \in DOMAIN bs :
       /\ BtnOf(bs[i]) # -1
       /\ Len(bs[i].keys) \in 1..3
       /\ \A j \in DOMAIN bs[i].keys : bs[i].keys[j] # -1
  /\ \A i, j \in DOMAIN bs : i # j => SlotOf(bs[i]) # SlotOf(bs[j])
  /\ LET w == SelectSeq(bs, LAMBDA b : b.wheel)
     IN  \A j \in DOMAIN w : w[j].num = j
  /\ Len(bs) <= MaxLines

\* A title record with every field of spec 6 given once and nothing else.
Complete(sec) ==
  /\ Len(LinesOf(sec, "name")) = 1
  /\ Named(sec)
  /\ Len(LinesOf(sec, "year")) <= 1
  /\ LinesOf(sec, "junk") = <<>>
  /\ BindsValid(BindsOf(sec))

\* Well formed, and ending in a title: a file whose last section holds no
\* data is the case of NoNameOnlyWithData.
WellFormed(y) ==
  LET S == Sections(y)
  IN  /\ \/ ~HasData(S[1]) /\ LinesOf(S[1], "junk") = <<>>
         \/ Complete(S[1])
      /\ \A k \in 2..Len(S) : Complete(S[k])
      /\ HasData(S[Len(S)])

\* What a record of a section is, up to the bytes of its mappings: its
\* name, year, identifiers in order, buttons and number of mappings (the
\* two halves of an axis share one).
Expected(sec) ==
  LET yl == LinesOf(sec, "year")
      il == LinesOf(sec, "ident")
      bs == BindsOf(sec)
  IN  [name |-> LinesOf(sec, "name")[1].name,
       year |-> IF yl = <<>> THEN 0 ELSE yl[1].year,
       ids |-> [i \in DOMAIN il |-> il[i].id],
       btns |-> {BtnOf(bs[i]) : i \in DOMAIN bs},
       count |-> Cardinality({<<BtnOf(bs[i]), IF bs[i].wheel THEN bs[i].num
                                             ELSE 0>> : i \in DOMAIN bs})]

Shown(g) ==
  [name |-> g.name, year |-> g.year, ids |-> g.ids,
   btns |-> {N!RecBtn(g.maps[i]) : i \in DOMAIN g.maps},
   count |-> Len(g.maps)]

-----------------------------------------------------------------------------

TypeOK ==
  /\ lineidx \in 0..Len(yml)
  /\ phase \in {"outer", "inner", "end", "done", "error"}
  /\ gameyear \in Nat
  /\ id_files \in Seq(Nat)
  /\ nstatus \in {"ok", "error", "crash"}
  /\ games \in Seq([name : Seq(Nat), year : Nat, maps : Seq(Seq(0..255)),
                    ids : Seq(Nat)])

(* Spec 2, 6: the reader turns a well-formed catalogue into its title     *)
(* records.  On a file whose sections are complete records the loop of    *)
(* lines 64-122 never throws, hands the compiler one record per section,  *)
(* in file order, each with exactly the name, year, identifiers and       *)
(* bindings of its own section.  A break that loses or re-reads a line, a *)
(* field or the normalizer's maps or wheelnum carried into the next game  *)
(* breaks it.                                                             *)
WellFormedFileRead ==
  LET E == [k \in 1..Len(SelectSeq(Sections(yml), HasData)) |->
              Expected(SelectSeq(Sections(yml), HasData)[k])]
  IN  \* games and phase change to "outer", "done" or "error" only
      phase \in {"outer", "done", "error"} /\ WellFormed(yml) =>
        /\ phase # "error"
        /\ IsPrefix([k \in DOMAIN games |-> Shown(games[k])], E)
        /\ phase = "done" => Len(games) = Len(E)

(* Line 121 is to throw "Had data but not a game name" only for a record  *)
(* that had data, and line 122 is to end the reading at a nameless record *)
(* without any.  The arrays tested at line 121 are always truthy, so a    *)
(* file ending in a '-' line, or holding no title, is rejected.            *)
NoNameOnlyWithData ==
  err = "NoName" => gameyear # 0 \/ id_files # <<>> \/ maps # <<>>

=============================================================================
