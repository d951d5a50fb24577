-------------------------- MODULE MappingNormalizer --------------------------
(***************************************************************************)
(* The handling of one input_pad_* / input_wheel_* line of a game in       *)
(* src/keyb2joypad-yml-to-c.js (lines 74-117): validation, the merge of    *)
(* the two halves of an analog axis into one mapping, and the encoding of  *)
(* the mapping buffer that the compiler later deduplicates.  A step is one *)
(* binding line of the current game; maps is the game's list of mapping   *)
(* buffers.  Strings are byte sequences; key names are given as the codes *)
(* YMLKeys yields for them, -1 standing for an unknown name (undefined).   *)
(***************************************************************************)
EXTENDS Integers, Sequences, SequencesExt, TLC

CONSTANTS
  PadNames,   \* <<button, direction>> name parts of input_pad_ lines
  WheelNums,  \* numbers of input_wheel_ lines
  KeySeqs,    \* key code lists of a line (-1: unknown key name)
  Actions,    \* action texts of a line (<<>>: none)
  MaxLines    \* bound: binding lines of one game

WHEEL_BTN_ID == 20

\* YMLBtnIds (lines 29-40).
YMLBTNNAMES == <<"b", "y", "select", "start", "up", "down", "left", "right",
                 "a", "x", "l", "r", "l2", "r2", "l3", "r3">>
YMLBtnIds ==
  [n \in {YMLBTNNAMES[i] : i \in 1..16} |->
     CHOOSE i \in 0..15 : YMLBTNNAMES[i + 1] = n]
  @@ ("lstick_left" :> 16) @@ ("lstick_right" :> 16)
  @@ ("lstick_up" :> 17) @@ ("lstick_down" :> 17)
  @@ ("rstick_left" :> 18) @@ ("rstick_right" :> 18)
  @@ ("rstick_up" :> 19) @@ ("rstick_down" :> 19)

SPACE == 32
SEP == 1                                     \* '\x01'
NOTHING == <<78, 111, 116, 104, 105, 110, 103>>  \* "Nothing"

VARIABLES
  maps,      \* maps: the game's mapping buffers
  wheelnum,  \* wheelnum
  status,    \* "ok" | "error" (a thrown Error) | "crash" (a TypeError)
  lines,     \* binding lines handled (bounded by MaxLines)
  given      \* ghost: binding slot -> [keys, action] the lines gave it

vars == <<maps, wheelnum, status, lines, given>>

Bit(n, k) == (n \div 2^k) % 2

\* String.prototype.split on one separator byte: always at least one part.
RECURSIVE SplitOn(_, _)
SplitOn(s, c) ==
  LET k == SelectInSeq(s, LAMBDA x : x = c)
  IN  IF k = 0 THEN <<s>>
      ELSE <<SubSeq(s, 1, k - 1)>> \o SplitOn(SubSeq(s, k + 1, Len(s)), c)

\* Mutant: the lookup compares the whole low six bits, text flag included.
FindIndexFlagBits(btn_id) ==
  SelectInSeq(maps, LAMBDA m : m[1] % 64 = btn_id)

\* maps.findIndex(map => (map.readUInt8(0) & 31) === btn_id), 1-based,
\* 0 for -1.
FindIndex(btn_id) ==
  SelectInSeq(maps, LAMBDA m : m[1] % 32 = btn_id)

\* /^(\S+) (.+)$/: the verb and the rest, or <<>> when it does not match.
VerbMatch(t) ==
  LET k == SelectInSeq(t, LAMBDA c : c = SPACE)
  IN  IF k > 1 /\ k < Len(t) THEN <<SubSeq(t, 1, k - 1), SubSeq(t, k + 1, Len(t))>>
      ELSE <<>>

\* Line 102: the combined action text of an axis.
MergedAction(action0, action1) ==
  LET m0 == VerbMatch(action0)
      m1 == VerbMatch(action1)
  IN  IF m0 # <<>> /\ m1 # <<>> /\ m0[1] = m1[1]
      THEN m0[1] \o <<SPACE>> \o m0[2] \o <<SEP>> \o m1[2]
      ELSE IF action0 # <<>> \/ action1 # <<>>
      THEN (IF action0 # <<>> THEN action0 ELSE NOTHING) \o <<SEP>>
             \o (IF action1 # <<>> THEN action1 ELSE NOTHING)
      ELSE <<>>

\* Mutant: the other half's key is read one position too far.
RECURSIVE Interleave2Shifted(_, _, _, _)
Interleave2Shifted(keys, old, ap, i) ==
  IF i = 0 THEN keys
  ELSE LET o == i * 2 - ap
       IN  Interleave2Shifted(InsertAt(keys, i - ap + 1,
                                IF o < Len(old) THEN old[o + 1] ELSE 0),
                              old, ap, i - 1)

\* Line 104 (and 109 with old = <<>>): for i = n down to 1, splice the
\* other half's key o = i*2-1-analogpart of old (0 past its end) into keys
\* at index i - analogpart.
RECURSIVE Interleave2(_, _, _, _)
Interleave2(keys, old, ap, i) ==
  IF i = 0 THEN keys
  ELSE LET o == i * 2 - 1 - ap
       IN  Interleave2(InsertAt(keys, i - ap + 1,
                                IF o < Len(old) THEN old[o + 1] ELSE 0),
                       old, ap, i - 1)

\* Mutant: the key count is stored without subtracting one.
StoreCountNotLessOne(old_idx, btn_id, is_analog, keys, action) ==
  LET enc == (Len(keys) \div (IF is_analog THEN 2 ELSE 1)) * 64
               + (IF action # <<>> THEN 32 ELSE 0) + btn_id
      buf == <<enc>> \o (IF action # <<>> THEN action \o <<0>> ELSE <<>>)
               \o keys
  IN  maps' = IF old_idx = 0 THEN Append(maps, buf)
              ELSE [maps EXCEPT ![old_idx] = buf]

\* Lines 113-116: the encoded mapping buffer, stored at old_idx or appended.
Store(old_idx, btn_id, is_analog, keys, action) ==
  LET enc == (Len(keys) \div (IF is_analog THEN 2 ELSE 1) - 1) * 64
               + (IF action # <<>> THEN 32 ELSE 0) + btn_id
      buf == <<enc>> \o (IF action # <<>> THEN action \o <<0>> ELSE <<>>)
               \o keys
  IN  maps' = IF old_idx = 0 THEN Append(maps, buf)
              ELSE [maps EXCEPT ![old_idx] = buf]

Init ==
  /\ maps = <<>>
  /\ wheelnum = 0
  /\ status = "ok"
  /\ lines = 0
  /\ given = [s \in {} |-> <<>>]

Throw ==
  /\ status' = "error"
  /\ UNCHANGED <<maps, wheelnum, lines, given>>

\* Lines 95-105: the second half of an analog axis arrives.
SecondPart(old_idx, btn_id, ap, keys, action) ==
  LET old_map == maps[old_idx]
      has_act == Bit(old_map[1], 5) = 1
      action_end == IF has_act
                    THEN SelectInSubSeq(old_map, 2, Len(old_map),
                                        LAMBDA x : x = 0) - 1
                    ELSE 0
      old_action == IF has_act THEN SubSeq(old_map, 2, action_end) ELSE <<>>
      old_data == SubSeq(old_map, action_end + 2, Len(old_map))
      aparts == SplitOn(old_action, SEP)
      padded == keys \o [i \in 1..((Len(old_data) + 1) \div 2 - Len(keys)) |-> 0]
  IN  \/ /\ old_data[ap + 1] # 0
         /\ Throw
      \/ /\ old_data[ap + 1] = 0
         /\ ap = 0 /\ Len(aparts) < 2
         \* action1 = aparts[1] is undefined: action1.match throws
         /\ status' = "crash"
         /\ UNCHANGED <<maps, wheelnum, lines, given>>
      \/ /\ old_data[ap + 1] = 0
         /\ (ap = 1 \/ Len(aparts) >= 2)
         /\ Store(old_idx, btn_id, TRUE,
                  Interleave2(padded, old_data, ap, Len(padded)),
                  IF ap = 1 THEN MergedAction(aparts[1], action)
                  ELSE MergedAction(action, aparts[2]))
         /\ lines' = lines + 1
         /\ given' = (<<btn_id, ap>> :> [keys |-> keys, action |-> action])
                       @@ given
         /\ UNCHANGED <<wheelnum, status>>

\* Mutant: the first half's text is tagged to the wrong half.
FirstPartTagSwapped(btn_id, ap, keys, action) ==
  Store(0, btn_id, TRUE, Interleave2(keys, <<>>, ap, Len(keys)),
        IF action = <<>> THEN <<>>
        ELSE IF ap = 0 THEN NOTHING \o <<SEP>> \o action
        ELSE action \o <<SEP>> \o NOTHING)

\* Lines 106-110: the first half of an analog axis: its text is tagged to
\* its half and a none key is put in the other half's place.
FirstPart(btn_id, ap, keys, action) ==
  Store(0, btn_id, TRUE, Interleave2(keys, <<>>, ap, Len(keys)),
        IF action = <<>> THEN <<>>
        ELSE IF ap = 1 THEN NOTHING \o <<SEP>> \o action
        ELSE action \o <<SEP>> \o NOTHING)

\* parts[2] + (parts[3] ? `_${parts[3]}` : '')
PadName(p) == IF p[2] = "" THEN p[1] ELSE p[1] \o "_" \o p[2]

\* Lines 76-117: one binding line.  A wheel line stores at maps.length,
\* which appends (old_idx 0 here).
BindLine(is_wheel, pad, num, keys, action) ==
  LET btn_id == IF is_wheel THEN WHEEL_BTN_ID
                ELSE IF PadName(pad) \in DOMAIN YMLBtnIds
                THEN YMLBtnIds[PadName(pad)] ELSE -1
      is_analog == btn_id \div 4 = 4
      ap == IF pad[2] \in {"down", "right"} THEN 1 ELSE 0
      old_idx == IF is_wheel THEN 0 ELSE FindIndex(btn_id)
      slot == IF is_wheel THEN <<btn_id, num>> ELSE <<btn_id, ap>>
      valid == /\ btn_id # -1
               /\ is_wheel => num = wheelnum + 1
               /\ Len(keys) <= 3
               /\ \A i \in 1..Len(keys) : keys[i] # -1
               /\ is_wheel \/ is_analog \/ old_idx = 0
  IN  /\ status = "ok"
      /\ lines < MaxLines
      /\ \/ ~valid /\ Throw
         \/ /\ valid /\ is_analog /\ old_idx # 0
            /\ SecondPart(old_idx, btn_id, ap, keys, action)
         \/ /\ valid /\ ~(is_analog /\ old_idx # 0)
            /\ IF is_analog THEN FirstPart(btn_id, ap, keys, action)
               ELSE Store(old_idx, btn_id, FALSE, keys, action)
            /\ wheelnum' = IF is_wheel THEN wheelnum + 1 ELSE wheelnum
            /\ lines' = lines + 1
            /\ given' = (slot :> [keys |-> keys, action |-> action]) @@ given
            /\ status' = status

Next ==
  \/ \E pad \in PadNames, keys \in KeySeqs, action \in Actions :
       BindLine(FALSE, pad, 0, keys, action)
  \/ \E num \in WheelNums, keys \in KeySeqs, action \in Actions :
       BindLine(TRUE, <<"wheel", "">>, num, keys, action)

Spec == Init /\ [][Next]_vars

-----------------------------------------------------------------------------
(* Reading a mapping buffer back the way the emitted table is read: the    *)
(* first byte holds the button (bits 0-4), the text flag (bit 5) and the  *)
(* key count minus one (bits 6-7); then the 0-terminated text, the keys.  *)

RecBtn(m) == m[1] % 32
RecCount(m) == m[1] \div 64 + 1
RecLabelEnd(m) ==
  IF Bit(m[1], 5) = 1 THEN SelectInSubSeq(m, 2, Len(m), LAMBDA x : x = 0)
  ELSE 1
RecLabel(m) == SubSeq(m, 2, RecLabelEnd(m) - 1)
RecKeys(m) == SubSeq(m, RecLabelEnd(m) + 1, Len(m))
IsAnalogBtn(b) == b \in 16..19

\* The keys of half p of an analog record (even positions: left/up).
HalfKeys(m, p) == [j \in 1..RecCount(m) |-> RecKeys(m)[2 * j - 1 + p]]

Zeros(n) == [j \in 1..n |-> 0]
GivenKeys(s) == IF s \in DOMAIN given THEN given[s].keys ELSE <<>>
GivenText(s) == IF s \in DOMAIN given THEN given[s].action ELSE <<>>

WheelRecs == SelectSeq(maps, LAMBDA m : RecBtn(m) = WHEEL_BTN_ID)

Byte == 0..255

TypeOK ==
  /\ maps \in Seq(Seq(Byte))
  /\ \A i \in 1..Len(maps) : Len(maps[i]) > 0 /\ maps[i][1] \div 64 <= 2
  /\ wheelnum \in Nat
  /\ status \in {"ok", "error", "crash"}
  /\ lines \in 0..MaxLines

(* Every key list a binding line gave is what a reader of the mapping      *)
(* buffers gets back for that button, direction or wheel entry: the count  *)
(* bits, the half interleaving of an analog axis (lines 103-104, 109,     *)
(* 113) and the padding of the shorter half with none keys must agree      *)
(* whichever half of an axis came first.                                   *)
BindingsKeysPreserved ==
  status = "ok" =>
    /\ \A i \in 1..Len(maps) :
         LET m == maps[i]  b == RecBtn(m)
         IN  \/ b = WHEEL_BTN_ID
             \/ ~IsAnalogBtn(b) /\ RecKeys(m) = GivenKeys(<<b, 0>>)
                /\ Len(RecKeys(m)) = RecCount(m)
             \/ IsAnalogBtn(b) /\ Len(RecKeys(m)) = 2 * RecCount(m)
                /\ \A p \in {0, 1} :
                     HalfKeys(m, p) = GivenKeys(<<b, p>>)
                       \o Zeros(RecCount(m) - Len(GivenKeys(<<b, p>>)))
    /\ \A j \in 1..Len(WheelRecs) :
         /\ RecKeys(WheelRecs[j]) = GivenKeys(<<WHEEL_BTN_ID, j>>)
         /\ Len(RecKeys(WheelRecs[j])) = RecCount(WheelRecs[j])
    /\ \A s \in DOMAIN given :
         s[1] = WHEEL_BTN_ID \/ \E i \in 1..Len(maps) : RecBtn(maps[i]) = s[1]

(* The label of an axis mapping is, whichever half was bound first, the   *)
(* one spec section 4.1 asks for: with a common leading verb the verb once *)
(* and both remainders joined by the separator byte, otherwise each half's *)
(* text or "Nothing" joined by it, and no label when neither half has one *)
(* (lines 100-102 merging what lines 106-108 tagged).                      *)
AnalogLabelMerged ==
  status = "ok" =>
    \A i \in 1..Len(maps) :
      LET m == maps[i]  b == RecBtn(m)
          t0 == GivenText(<<b, 0>>)  t1 == GivenText(<<b, 1>>)
          v0 == VerbMatch(t0)  v1 == VerbMatch(t1)
      IN  IsAnalogBtn(b) =>
            RecLabel(m) =
              CASE v0 # <<>> /\ v1 # <<>> /\ v0[1] = v1[1] ->
                     v0[1] \o <<SPACE>> \o v0[2] \o <<SEP>> \o v1[2]
                [] t0 = <<>> /\ t1 = <<>> -> <<>>
                [] OTHER -> (IF t0 = <<>> THEN NOTHING ELSE t0) \o <<SEP>>
                              \o (IF t1 = <<>> THEN NOTHING ELSE t1)

(* A game holds at most one mapping per button or axis (spec section 3);  *)
(* only wheel entries share a button id.  The lookup of line 91 must find *)
(* an earlier mapping whatever flag and count bits its first byte has.    *)
OneMappingPerButton ==
  \A i, j \in 1..Len(maps) :
    i # j /\ RecBtn(maps[i]) = RecBtn(maps[j]) => RecBtn(maps[i]) = WHEEL_BTN_ID

(* Binding the two halves of an axis is accepted in either order (spec    *)
(* section 4.1); lines 100-101 must not throw a TypeError on valid input.  *)
EitherHalfOrderAccepted == status # "crash"

=============================================================================
