------------------------------- MODULE DbpHash -------------------------------
(***************************************************************************)
(* DBP_Hash and DBP_HashSize of src/keyb2joypad-yml-to-c.js (lines        *)
(* 310-320): the fingerprint of an identifier file name and size.  The JS *)
(* code emulates a 32-bit multiply with two double products and ToInt32  *)
(* (| 0).  TLC's integers are narrower than 32 bits, so a 32-bit word is  *)
(* a pair <<hi, lo>> of 16-bit halves: the bit pattern of the int32 value *)
(* (the signed and the >>> 0 views share it).  A step is one iteration of  *)
(* the loop of line 318.                                                   *)
(***************************************************************************)
EXTENDS Integers, Sequences, SequencesExt, Bitwise

CONSTANTS
  Chars,   \* character codes (charCodeAt: 0..65535) of file names
  MaxLen,  \* bound: length of a file name
  Sizes    \* file sizes, as the 16-bit halves of their 32-bit value

Half == 0..65535
Word == Half \X Half

\* 0x811c9dc5 (line 317).
OFFSET_BASIS == <<33052, 40389>>

\* ((0x01000000 * hash) | 0): only the low 8 bits of hash survive, shifted
\* into the top byte.
Int32Mul2p24(h) == <<(h[2] % 256) * 256, 0>>

\* (0x00000193 * hash): exact in a double (below 2^41), so its high part
\* may exceed 16 bits; the | 0 applied to the sum reduces it.
Mul193(h) ==
  LET l == h[2] * 403
  IN  <<h[1] * 403 + l \div 65536, l % 65536>>

\* (a + b) | 0
Add32(a, b) ==
  LET l == a[2] + b[2]
  IN  <<(a[1] + b[1] + l \div 65536) % 65536, l % 65536>>

Xor32(a, b) == <<a[1] ^^ b[1], a[2] ^^ b[2]>>

\* Mutant: size * 8 without the 32-bit wrap of <<.
Shl3NoWrap(z) ==
  LET l == z[2] * 8
  IN  <<z[1] * 8 + l \div 65536, l % 65536>>

\* size << 3: ToInt32(size) shifted left by three, modulo 2^32.
Shl3(z) ==
  LET l == z[2] * 8
  IN  <<(z[1] * 8 + l \div 65536) % 65536, l % 65536>>

\* Mutant: the shifted size is added instead of xored.
DBP_HashSizeAdd(hash, size) == Add32(hash, Shl3(size))

\* DBP_HashSize (lines 310-313): (hash ^ (size << 3)) >>> 0.
DBP_HashSize(hash, size) == Xor32(hash, Shl3(size))

VARIABLES
  s,      \* the file name being hashed
  size,   \* its size
  i,      \* loop index of line 318
  hash,   \* hash
  fp      \* DBP_HashSize(DBP_Hash(s), size) once returned, else <<>>

vars == <<s, size, i, hash, fp>>

Names == UNION {[1..n -> Chars] : n \in 0..MaxLen}

Init ==
  /\ s \in Names
  /\ size \in Sizes
  /\ i = 0
  /\ hash = OFFSET_BASIS
  /\ fp = <<>>

\* Mutant: the character is xored in before the multiply.
HashCharXorFirst ==
  /\ i < Len(s)
  /\ LET x == Xor32(hash, <<0, s[i + 1]>>)
     IN  hash' = Add32(Int32Mul2p24(x), Mul193(x))
  /\ i' = i + 1
  /\ UNCHANGED <<s, size, fp>>

\* One iteration of line 318.
HashChar ==
  /\ i < Len(s)
  /\ hash' = Xor32(Add32(Int32Mul2p24(hash), Mul193(hash)), <<0, s[i + 1]>>)
  /\ i' = i + 1
  /\ UNCHANGED <<s, size, fp>>

\* Line 319 (hash >>> 0) and the caller's DBP_HashSize (line 185).
Return ==
  /\ i = Len(s)
  /\ fp = <<>>
  /\ fp' = DBP_HashSize(hash, size)
  /\ UNCHANGED <<s, size, i, hash>>

Next == HashChar \/ Return

Spec == Init /\ [][Next]_vars

-----------------------------------------------------------------------------
(* Reference: 32-bit FNV over the character codes, computed on four bytes *)
(* (least significant first) by schoolbook multiplication.                *)

FNV_PRIME_BYTES == <<147, 1, 0, 1>>   \* 16777619 = 0x01000193
BASIS_BYTES == <<197, 157, 28, 129>>  \* 0x811c9dc5

\* Column k (0-based) of the product of two byte vectors.
Col(x, y, k) == FoldSet(LAMBDA j, acc : acc + x[j + 1] * y[k - j + 1], 0, 0..k)

\* The low four bytes of x * y.
RECURSIVE Carry(_, _, _, _)
Carry(x, y, k, c) ==
  IF k = 4 THEN <<>>
  ELSE LET t == Col(x, y, k) + c
       IN  <<t % 256>> \o Carry(x, y, k + 1, t \div 256)
MulMod32(x, y) == Carry(x, y, 0, 0)

\* Xor a 16-bit code unit into the two low bytes.
XorCode(x, c) == <<x[1] ^^ (c % 256), x[2] ^^ (c \div 256), x[3], x[4]>>

FNV1(str) == FoldLeft(LAMBDA h, c : XorCode(MulMod32(h, FNV_PRIME_BYTES), c),
                      BASIS_BYTES, str)
FNV1a(str) == FoldLeft(LAMBDA h, c : MulMod32(XorCode(h, c), FNV_PRIME_BYTES),
                       BASIS_BYTES, str)

AsWord(b) == <<b[4] * 256 + b[3], b[2] * 256 + b[1]>>
AsBytes(w) == <<w[2] % 256, w[2] \div 256, w[1] % 256, w[1] \div 256>>

\* size * 8 modulo 2^32, as bytes.
Times8(b) == MulMod32(b, <<8, 0, 0, 0>>)
Fingerprint(str, z) ==
  LET h == FNV1(str)  m == Times8(AsBytes(z))
  IN  AsWord([k \in 1..4 |-> h[k] ^^ m[k]])

-----------------------------------------------------------------------------

TypeOK ==
  /\ s \in Names
  /\ size \in Word
  /\ i \in 0..Len(s)
  /\ hash \in Word
  /\ fp \in Word \cup {<<>>}

(* The float-and-ToInt32 emulation of line 318 computes 32-bit FNV-1: after *)
(* every iteration the hash equals FNV-1 of the characters consumed so far *)
(* (multiply by 16777619 modulo 2^32, then xor the code unit).            *)
HashLoopIsFnv1 == hash = AsWord(FNV1(SubSeq(s, 1, i)))

(* The fingerprint stored in map_keys (line 185) is FNV-1 of the name     *)
(* xored with the size times 8 modulo 2^32, for sizes at and past 2^29.    *)
FingerprintMatchesReference == fp # <<>> => fp = Fingerprint(s, size)

(* Spec 4.4 calls the fingerprint an FNV-1a style hash (xor, then         *)
(* multiply), combined with the size the same way.                        *)
FingerprintIsFnv1a ==
  fp # <<>> =>
    LET h == FNV1a(s)  m == Times8(AsBytes(size))
    IN  fp = AsWord([k \in 1..4 |-> h[k] ^^ m[k]])

=============================================================================
