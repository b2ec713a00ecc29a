------------------------------ MODULE CheckSum ------------------------------
(***************************************************************************)
(* The checksum of an image (src/loader/Utils.cpp): the 16-bit sum of all  *)
(* words with the carry added back in, less the two words of the stored    *)
(* checksum, plus the length.                                              *)
(*                                                                         *)
(* The theorems compare it with its meaning: a linker stores the sum of    *)
(* the words other than the field, plus the length.  They add the two      *)
(* words of the field last; PlusLaws says that the order does not matter.  *)
(***************************************************************************)
EXTENDS SequencesExt, TLAPS

Radix == 65536
Word == 0 .. Radix - 1
LOWORD(x) == x % Radix
HIWORD(x) == x \div Radix

\* One word is added, and the carry of that.
Plus(sum, w) == LOWORD(sum + w) + HIWORD(sum + w)

CalcCheckSum(words) == FoldLeft(Plus, 0, words)

\* One word is taken off, with a borrow.
Minus(sum, w) ==
  IF LOWORD(sum) >= w THEN sum - w ELSE LOWORD(LOWORD(sum) - w) - 1

\* What is compared with the stored checksum: sum is that of the whole image.
Recomputed(sum, stored, length) ==
  Minus(Minus(sum, LOWORD(stored)), HIWORD(stored)) + length

CheckSumBufferedFile(words, length, stored) ==
  stored = Recomputed(CalcCheckSum(words), stored, length)

-----------------------------------------------------------------------------
(* Lemmas about single words.                                              *)

LEMMA RadixIs == Radix \in Int /\ Radix > 2
BY SMT DEF Radix

LEMMA Words ==
  ASSUME NEW a
  PROVE  a \in Word <=> a \in Int /\ 0 <= a /\ a < Radix
BY SMT, RadixIs DEF Word

LEMMA Halves ==
  ASSUME NEW x \in Nat, HIWORD(x) < Radix
  PROVE  /\ LOWORD(x) \in Word /\ HIWORD(x) \in Word
         /\ x = 0 <=> LOWORD(x) = 0 /\ HIWORD(x) = 0
<1>1. \A r \in Int : r > 0 => /\ x % r \in Int /\ 0 <= x % r /\ x % r < r
                             /\ x \div r \in Int /\ 0 <= x \div r
                             /\ x = 0 <=> x % r = 0 /\ x \div r = 0
  BY SMT
<1> QED
  BY SMT, <1>1, RadixIs, Words DEF LOWORD, HIWORD

\* The quotient and the remainder of what one addition or subtraction can give.
LEMMA SmallHalves ==
  ASSUME NEW x \in Int, NEW r \in Int, r > 0
  PROVE  /\ 0 <= x /\ x < r => x % r = x /\ x \div r = 0
         /\ -r <= x /\ x < 0 => x % r = x + r
BY SMT

LEMMA Carry ==
  ASSUME NEW x \in Int, NEW r \in Int, r > 0, r <= x, x < 2 * r
  PROVE  x % r = x - r /\ x \div r = 1
BY SMT

\* The sum and the difference without divisions.
LEMMA PlusValue ==
  ASSUME NEW a \in Word, NEW b \in Word
  PROVE  Plus(a, b) = IF a + b < Radix THEN a + b ELSE a + b - Radix + 1
<1>1. a + b \in Int /\ 0 <= a + b /\ a + b < 2 * Radix
  BY SMT, Words, RadixIs
<1>2. CASE a + b < Radix
  BY SMT, <1>1, <1>2, SmallHalves, RadixIs DEF Plus, LOWORD, HIWORD
<1>3. CASE a + b >= Radix
  <2>1. Radix \in Int /\ Radix > 0 /\ Radix <= a + b
    BY SMT, <1>1, <1>3, RadixIs
  <2>2. PICK x \in Int : x = a + b
    BY Zenon, <1>1
  <2>3. Radix <= x /\ x < 2 * Radix
    BY SMT, <1>1, <2>1, <2>2
  <2>4. x % Radix = x - Radix /\ x \div Radix = 1
    BY Zenon, <2>1, <2>3, Carry
  <2>5. Plus(a, b) = (x - Radix) + 1
    BY Zenon, <2>2, <2>4 DEF Plus, LOWORD, HIWORD
  <2> QED BY SMT, <1>1, <1>3, <2>1, <2>2, <2>5, Words
<1> QED BY SMT, <1>1, <1>2, <1>3, RadixIs

LEMMA MinusValue ==
  ASSUME NEW a \in Word, NEW b \in Word
  PROVE  Minus(a, b) = IF a >= b THEN a - b ELSE a - b + Radix - 1
<1>1. /\ a \in Int /\ 0 <= a /\ a < Radix
      /\ b \in Int /\ 0 <= b /\ b < Radix
  BY SMT, Words
<1>2. LOWORD(a) = a
  BY SMT, <1>1, SmallHalves, RadixIs DEF LOWORD
<1>3. CASE a >= b
  BY SMT, <1>2, <1>3 DEF Minus
<1>4. CASE a < b
  <2>1. a - b \in Int /\ -Radix <= a - b /\ a - b < 0
    BY SMT, <1>1, <1>4, RadixIs
  <2>2. LOWORD(a - b) = a - b + Radix
    BY SMT, <2>1, SmallHalves, RadixIs DEF LOWORD
  <2> QED BY SMT, <1>1, <1>2, <1>4, <2>2, RadixIs DEF Minus
<1> QED BY SMT, <1>1, <1>3, <1>4

\* The sum of words is a word, and neither their order nor their grouping matters: the
\* place of the checksum field in the image makes no difference to it (Utils.cpp, line 13).
THEOREM PlusLaws ==
  ASSUME NEW a \in Word, NEW b \in Word, NEW c \in Word
  PROVE  /\ Plus(a, b) \in Word
         /\ Plus(a, b) = Plus(b, a)
         /\ Plus(Plus(a, b), c) = Plus(a, Plus(b, c))
<1>1. /\ a \in Int /\ 0 <= a /\ a < Radix
      /\ b \in Int /\ 0 <= b /\ b < Radix
      /\ c \in Int /\ 0 <= c /\ c < Radix
  BY SMT, Words
<1>2. Plus(a, b) \in Word /\ Plus(b, c) \in Word
  BY SMT, <1>1, PlusValue, Words, RadixIs
<1>3. Plus(a, b) = Plus(b, a)
  BY SMT, <1>1, PlusValue, RadixIs
<1>4. Plus(Plus(a, b), c) = Plus(a, Plus(b, c))
  BY SMT, <1>1, <1>2, PlusValue, RadixIs
<1> QED BY SMT, <1>2, <1>3, <1>4

\* Taking a word off undoes adding it, but for the two forms of zero.
LEMMA MinusUndoesPlus ==
  ASSUME NEW a \in Word, NEW b \in Word
  PROVE  Minus(Plus(a, b), b) = IF a = Radix - 1 /\ b # 0 THEN 0 ELSE a
<1>1. /\ a \in Int /\ 0 <= a /\ a < Radix
      /\ b \in Int /\ 0 <= b /\ b < Radix
  BY SMT, Words
<1>2. Plus(a, b) \in Word
  BY SMT, PlusLaws
<1> QED BY SMT, <1>1, <1>2, PlusValue, MinusValue, RadixIs

-----------------------------------------------------------------------------
(* The whole checksum.                                                     *)

\* The sum of an image whose other words add up to rest.
WithField(rest, stored) == Plus(Plus(rest, LOWORD(stored)), HIWORD(stored))

LEMMA RecomputedValue ==
  ASSUME NEW rest \in Word, NEW stored \in Nat, HIWORD(stored) < Radix, NEW length \in Nat
  PROVE  Recomputed(WithField(rest, stored), stored, length)
           = (IF rest = Radix - 1 /\ stored # 0 THEN 0 ELSE rest) + length
<1> DEFINE lo == LOWORD(stored)
           hi == HIWORD(stored)
<1>1. lo \in Word /\ hi \in Word /\ (stored = 0 <=> lo = 0 /\ hi = 0)
  BY Halves
<1>2. Recomputed(WithField(rest, stored), stored, length)
        = Minus(Minus(Plus(Plus(rest, lo), hi), lo), hi) + length
  BY Zenon DEF Recomputed, WithField
<1> HIDE DEF lo, hi
<1>3. /\ Plus(rest, hi) \in Word
      /\ Plus(Plus(rest, lo), hi) = Plus(Plus(rest, hi), lo)
  <2>1. Plus(Plus(rest, lo), hi) = Plus(rest, Plus(lo, hi))
    BY SMT, <1>1, PlusLaws
  <2>2. Plus(Plus(rest, hi), lo) = Plus(rest, Plus(hi, lo))
    BY SMT, <1>1, PlusLaws
  <2> QED BY SMT, <1>1, <2>1, <2>2, PlusLaws
<1>4. Minus(Plus(Plus(rest, hi), lo), lo)
        = IF Plus(rest, hi) = Radix - 1 /\ lo # 0 THEN 0 ELSE Plus(rest, hi)
  BY SMT, <1>1, <1>3, MinusUndoesPlus
<1>5. Minus(IF Plus(rest, hi) = Radix - 1 /\ lo # 0 THEN 0 ELSE Plus(rest, hi), hi)
        = IF rest = Radix - 1 /\ stored # 0 THEN 0 ELSE rest
  <2>1. /\ rest \in Int /\ 0 <= rest /\ rest < Radix
        /\ hi \in Int /\ 0 <= hi /\ hi < Radix
        /\ 0 \in Word
    BY SMT, <1>1, Words, RadixIs
  <2>2. CASE Plus(rest, hi) = Radix - 1 /\ lo # 0
    BY SMT, <1>1, <2>1, <2>2, PlusValue, MinusValue, RadixIs
  <2>3. CASE ~(Plus(rest, hi) = Radix - 1 /\ lo # 0)
    <3>1. Minus(Plus(rest, hi), hi) = IF rest = Radix - 1 /\ hi # 0 THEN 0 ELSE rest
      BY SMT, <1>1, MinusUndoesPlus
    <3>2. rest = Radix - 1 /\ hi = 0 => Plus(rest, hi) = Radix - 1
      BY SMT, <1>1, <2>1, PlusValue, RadixIs
    <3> QED BY SMT, <1>1, <2>3, <3>1, <3>2
  <2> QED BY SMT, <2>2, <2>3
<1> QED
  BY SMT, <1>2, <1>3, <1>4, <1>5

\* The checksum that a linker stores is accepted, whatever the words of its own field
\* are, except when the other words add up to 65535: taking the field off then leaves
\* the other form of zero, and a right image is refused (Utils.cpp, lines 19-29).
THEOREM StoredIsAccepted ==
  ASSUME NEW rest \in Word, NEW length \in Nat, HIWORD(rest + length) < Radix
  PROVE  LET stored == rest + length
         IN  stored = Recomputed(WithField(rest, stored), stored, length)
               <=> rest # Radix - 1
<1> DEFINE stored == rest + length
<1>1. rest \in Int /\ 0 <= rest /\ rest < Radix
  BY SMT, Words
<1>2. stored \in Nat /\ (rest = Radix - 1 => stored # 0)
  BY SMT, <1>1, RadixIs
<1>3. Recomputed(WithField(rest, stored), stored, length)
        = (IF rest = Radix - 1 /\ stored # 0 THEN 0 ELSE rest) + length
  BY SMT, <1>2, RecomputedValue
<1> QED BY SMT, <1>1, <1>2, <1>3, RadixIs

\* Nothing but the right checksum is accepted, if 0 and 65535 count as the same sum.
THEOREM AcceptedIsStored ==
  ASSUME NEW rest \in Word, NEW length \in Nat,
         NEW stored \in Nat, HIWORD(stored) < Radix,
         stored = Recomputed(WithField(rest, stored), stored, length)
  PROVE  stored = rest + length \/ (rest = Radix - 1 /\ stored = length)
<1>1. rest \in Int /\ 0 <= rest /\ rest < Radix
  BY SMT, Words
<1>2. stored = (IF rest = Radix - 1 /\ stored # 0 THEN 0 ELSE rest) + length
  BY SMT, RecomputedValue
<1> QED BY SMT, <1>1, <1>2, RadixIs

=============================================================================
