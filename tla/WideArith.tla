------------------------------ MODULE WideArith ------------------------------
(***************************************************************************)
(* What the guest uses the arithmetic for: numbers of several words.  A    *)
(* routine takes the next words of its operands, combines them with the    *)
(* carry, the high half or the remainder that the previous words left, and *)
(* advances its pointers, which must not disturb the carry.  Additions,    *)
(* subtractions, multiplications and shifts to the left start at the least *)
(* significant word, divisions and shifts to the right at the most         *)
(* significant one.                                                        *)
(*                                                                         *)
(* The routines are the guest's; every instruction in them is alu.odin's.  *)
(* The operands and the result so far are kept as numbers, to compare them.*)
(***************************************************************************)
EXTENDS Alu

CONSTANTS
  Routines,   \* the routines of the guest
  Words,      \* words of the operands
  Packed,     \* packed decimals (two digits in a byte)
  Digits,     \* unpacked decimals
  MaxWords    \* bound on the words of an operand

\* The instructions that adjust decimals are of AL, a byte.
Adjusting == {"daa", "das", "aaa", "aas"}

WideAssumption ==
  /\ AluAssumption /\ Words \subseteq Word /\ MaxWords \in Nat
  /\ Routines \cap Adjusting # {} => Half = 128
  /\ Packed \subseteq {16 * high + low : high, low \in 0..9} /\ Digits \subseteq 0..9

VARIABLES
  routine,    \* the routine that runs
  factor,     \* the word a number is multiplied with or divided by
  flags,      \* the arithmetic flags
  dx,         \* what the routine carries from word to word in DX
  words,      \* number of words done
  weight,     \* their weight, the base of the routine to the power of words
  left, right, result,     \* the numbers made of those words
  ready,      \* have the pointers been advanced?
  trapped     \* has a division raised interrupt 0?

wideVars == <<routine, factor, flags, dx, words, weight, left, right, result, ready,
              trapped>>

WideInit ==
  /\ routine = "none" /\ factor = 0 /\ flags = {} /\ dx = 0
  /\ words = 0 /\ weight = 1 /\ left = 0 /\ right = 0 /\ result = 0
  /\ ready = TRUE /\ trapped = FALSE

Runs(r) == routine = r /\ ready /\ ~trapped /\ words < MaxWords

\* The next more significant words a and b of the operands give word r.
Upwards(a, b, r, base) ==
  /\ left' = left + weight * a /\ right' = right + weight * b
  /\ result' = result + weight * r
  /\ weight' = weight * base /\ words' = words + 1 /\ ready' = FALSE
  /\ UNCHANGED <<routine, factor>>

\* The next less significant word a of the operand gives word r.
Downwards(a, r) ==
  /\ left' = left * M + a /\ result' = result * M + r
  /\ weight' = weight * M /\ words' = words + 1 /\ ready' = FALSE
  /\ UNCHANGED <<routine, factor, right>>
-----------------------------------------------------------------------------
\* ADD, then ADC.
Sum(a, b) == IF words = 0 THEN ADD(a, b) ELSE ADC(flags, a, b)
AddWords(a, b) ==
  /\ Runs("add")
  /\ flags' = Sum(a, b).flags /\ Upwards(a, b, Sum(a, b).value, M)
  /\ UNCHANGED <<dx, trapped>>

\* SUB or CMP, then SBB; or NEG, then SBB from zero.
Difference(a, b) == IF words = 0 THEN SUB(a, b) ELSE SBB(flags, a, b)
SubWords(a, b) ==
  /\ Runs("sub")
  /\ flags' = Difference(a, b).flags /\ Upwards(a, b, Difference(a, b).value, M)
  /\ UNCHANGED <<dx, trapped>>
NegWord(b) ==
  /\ Runs("sub") /\ words = 0
  /\ flags' = NEG(b).flags /\ Upwards(0, b, NEG(b).value, M)
  /\ UNCHANGED <<dx, trapped>>

\* ADD, then ADC, each with DAA or DAS; ADD, then ADC, each with AAA.
Decimal(v) == 10 * (v \div 16) + (v % 16)
AddPacked(a, b) ==
  LET r == DAA(Sum(a, b).flags, Sum(a, b).value)
  IN  /\ Runs("daa")
      /\ flags' = r.flags /\ Upwards(Decimal(a), Decimal(b), Decimal(r.value), 100)
      /\ UNCHANGED <<dx, trapped>>
SubPacked(a, b) ==
  LET r == DAS(Difference(a, b).flags, Difference(a, b).value)
  IN  /\ Runs("das")
      /\ flags' = r.flags /\ Upwards(Decimal(a), Decimal(b), Decimal(r.value), 100)
      /\ UNCHANGED <<dx, trapped>>
AddDigits(a, b) ==
  LET r == ASCII(Sum(a, b).flags, 0, Sum(a, b).value, 1)
  IN  /\ Runs("aaa")
      /\ flags' = r.flags /\ Upwards(a, b, r.value, 10)
      /\ UNCHANGED <<dx, trapped>>
SubDigits(a, b) ==
  LET r == ASCII(Difference(a, b).flags, 0, Difference(a, b).value, -1)
  IN  /\ Runs("aas")
      /\ flags' = r.flags /\ Upwards(a, b, r.value, 10)
      /\ UNCHANGED <<dx, trapped>>

\* MUL by the factor, ADD of the high half carried so far, ADC DX with zero.
MulWord(a) ==
  LET p == MUL(a, factor)
      s == ADD(p.value, dx)
      h == ADC(s.flags, p.high, 0)
  IN  /\ Runs("mul")
      /\ flags' = h.flags /\ dx' = h.value
      /\ left' = left + weight * a /\ result' = result + weight * s.value
      /\ weight' = weight * M /\ words' = words + 1 /\ ready' = FALSE
      /\ UNCHANGED <<routine, factor, right, trapped>>

\* DIV of the remainder so far and the next word.
DivWord(a) ==
  LET q == DIV(dx, a, factor)
  IN  /\ Runs("div")
      /\ dx' = q.high /\ trapped' = q.trap /\ Downwards(a, q.value)
      /\ UNCHANGED flags

\* SHL, then RCL; SHR or SAR, then RCR, each by one.
ShlWord(a) ==
  LET r == IF words = 0 THEN SHL(flags, a, 1) ELSE RCL(flags, a, 1)
  IN  Runs("shl") /\ flags' = r.flags /\ Upwards(a, 0, r.value, M)
        /\ UNCHANGED <<dx, trapped>>
ShrWord(a) ==
  LET r == IF words = 0 THEN SHR(flags, a, 1) ELSE RCR(flags, a, 1)
  IN  Runs("shr") /\ flags' = r.flags /\ Downwards(a, r.value)
        /\ UNCHANGED <<dx, trapped>>
SarWord(a) ==
  LET r == IF words = 0 THEN SAR(flags, a, 1) ELSE RCR(flags, a, 1)
  IN  Runs("sar") /\ flags' = r.flags /\ Downwards(a, r.value)
        /\ UNCHANGED <<dx, trapped>>

\* IMUL of two words; IDIV of the product by the second one, without a repeat prefix
\* or with one.
ImulWord(a, b) ==
  LET p == IMUL(a, b)
  IN  /\ \E r \in {"imul", "imul rep"} : Runs(r)
      /\ words = 0
      /\ flags' = p.flags /\ dx' = p.high /\ Upwards(a, b, p.value, M)
      /\ UNCHANGED trapped
IdivWord ==
  LET q == IDIV(routine = "imul rep", dx, result, right)
  IN  /\ \E r \in {"imul", "imul rep"} : Runs(r)
      /\ words = 1
      /\ trapped' = q.trap /\ dx' = q.high /\ result' = q.value
      /\ words' = 2 /\ ready' = FALSE
      /\ UNCHANGED <<routine, factor, flags, weight, left, right>>

\* INC or DEC of a pointer with value p; LOOP leaves the flags alone.
Advance(p) ==
  /\ ~ready /\ ready' = TRUE
  /\ flags' \in {INC(flags, p).flags, DEC(flags, p).flags}
  /\ UNCHANGED <<routine, factor, dx, words, weight, left, right, result, trapped>>

\* The next computation; it finds the flags of the last one.
Start ==
  /\ ready /\ (words > 0 \/ routine = "none")
  /\ routine' \in Routines
  /\ factor' \in IF routine' \in {"mul", "div"} THEN Words ELSE {0}
  /\ routine' = "div" => factor' # 0
  /\ dx' = 0 /\ words' = 0 /\ weight' = 1
  /\ left' = 0 /\ right' = 0 /\ result' = 0
  /\ trapped' = FALSE
  /\ UNCHANGED <<flags, ready>>

WordNext ==
  \/ \E a, b \in Words :
       AddWords(a, b) \/ SubWords(a, b) \/ NegWord(b) \/ ImulWord(a, b)
  \/ \E a \in Words :
       MulWord(a) \/ DivWord(a) \/ ShlWord(a) \/ ShrWord(a) \/ SarWord(a)
  \/ \E a, b \in Packed : AddPacked(a, b) \/ SubPacked(a, b)
  \/ \E a, b \in Digits : AddDigits(a, b) \/ SubDigits(a, b)

WideNext ==
  WordNext \/ IdivWord \/ (\E p \in Words : Advance(p)) \/ Start

WideSpec == WideInit /\ [][WideNext]_wideVars
-----------------------------------------------------------------------------
WideTypeOK ==
  /\ routine \in Routines \cup {"none"} /\ factor \in Word /\ flags \subseteq ArithFlag /\ dx \in Word
  /\ words \in 0..MaxWords /\ weight \in Nat \ {0}
  /\ left \in 0..(weight - 1) /\ right \in Nat /\ result \in 0..(weight - 1)
  /\ ready \in BOOLEAN /\ trapped \in BOOLEAN

\* A number of several words, and its reading in two's complement.
SignedWide(v) == IF 2 * v >= weight THEN v - weight ELSE v
InRange(v)    == -weight <= 2 * v /\ 2 * v < weight

\* The carry is what a sum or a double, the borrow what a difference of several words
\* lacks, and the carry is the half that is lost, also after the pointers were
\* advanced (alu.odin:90, 119: the carry out of a word to which a carry came in;
\* 596-683: the rotations through the carry; 268-304: INC and DEC leave it alone).
WideExact ==
  words > 0 =>
    /\ routine = "add" => left + right = result + weight * Carry(flags)
    /\ routine = "sub" => left - right = result - weight * Carry(flags)
    /\ routine = "shl" => 2 * left = result + weight * Carry(flags)
    /\ routine = "shr" => left = 2 * result + Carry(flags)
    /\ routine = "sar" => SignedWide(left) = 2 * SignedWide(result) + Carry(flags)

\* After the most significant words, the conditional jumps decide the order of the
\* whole numbers, unsigned and signed, and overflow tells that the signed result
\* does not fit (alu.odin:88, 117; 8086.odin:478-640).
JumpsDecide ==
  (words > 0 /\ ~ready) =>
    /\ routine = "add" =>
         (Jumps(flags).JO <=> ~InRange(SignedWide(left) + SignedWide(right)))
    /\ routine = "sub" =>
         /\ Jumps(flags).JC <=> left < right
         /\ Jumps(flags).JL <=> SignedWide(left) < SignedWide(right)
         /\ Jumps(flags).JO <=> ~InRange(SignedWide(left) - SignedWide(right))
    /\ (routine = "sub" /\ words = 1) =>
         /\ Jumps(flags).JE <=> left = right
         /\ Jumps(flags).JBE <=> left <= right
         /\ Jumps(flags).JLE <=> SignedWide(left) <= SignedWide(right)

\* Decimal numbers add and subtract exactly, digit carries included
\* (alu.odin:161-184, 210-233, 255-266).
DecimalExact ==
  words > 0 =>
    /\ routine \in {"daa", "aaa"} =>
         left + right = result + weight * Carry(flags)
    /\ routine \in {"das", "aas"} =>
         left - right = result - weight * Carry(flags)

\* A product of several words is exact, and a division, whose remainder is carried
\* from word to word, never raises interrupt 0 and finds quotient and remainder
\* (alu.odin:325-349, 393-439).
LongDivision ==
  /\ routine = "mul" => left * factor = result + weight * dx
  /\ routine = "div" => ~trapped /\ left = result * factor + dx /\ dx < factor

\* A signed product is exact, and carry and overflow tell whether its low half is
\* the whole of it (alu.odin:351-378).
ImulExact ==
  (routine \in {"imul", "imul rep"} /\ words = 1 /\ ~ready) =>
    LET p == Signed(left) * Signed(right)
    IN  /\ Signed(dx) * M + result = p
        /\ Jumps(flags).JC <=> p # Signed(result)
        /\ Jumps(flags).JO = Jumps(flags).JC

\* Dividing a signed product by its second factor gives the first one; a repeat
\* prefix inverts it, and only -Half cannot be inverted (alu.odin:441-505).
IdivInvertsImul ==
  (routine \in {"imul", "imul rep"} /\ words = 2 /\ right # 0) =>
    LET inverted == routine = "imul rep"
    IN  /\ trapped <=> (inverted /\ left = Half)
        /\ ~trapped => dx = 0 /\ result = IF inverted THEN (M - left) % M ELSE left

\* Signed products are exact, and so are divisions unless by a negative number.
SignedExact == ImulExact /\ (~Negative(right) => IdivInvertsImul)
=============================================================================
