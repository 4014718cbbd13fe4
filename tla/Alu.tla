--------------------------------- MODULE Alu ---------------------------------
(***************************************************************************)
(* The arithmetic of the processor (alu.odin) on unsigned words and on the *)
(* set of arithmetic flags.  alu.odin has every procedure twice, for bytes *)
(* and for words; here the width is a parameter.  A result is a record:    *)
(* value (AL or AX), high (AH or DX) where there is one, and the flags.    *)
(*                                                                         *)
(* The bit formulas of the code become comparisons of bits: of             *)
(* (a ~ b ~ 0x80) & (res ~ a) & 0x80 only the sign bits are left.          *)
(***************************************************************************)
EXTENDS Integers, FiniteSets

CONSTANT Half          \* value of the sign bit: 0x80 for bytes, 0x8000 for words

AluAssumption == Half \in Nat \ {0}

M    == 2 * Half
Word == 0..(M - 1)
ArithFlag == {"CARRY", "PARITY", "AUXILIARY", "ZERO", "SIGN", "OVERFLOW"}

Negative(v) == v >= Half
Signed(v)   == IF Negative(v) THEN v - M ELSE v
Bit4(v)     == (v \div 16) % 2
EvenOnes(v) == Cardinality({i \in 0..7 : (v \div 2^i) % 2 = 1}) % 2 = 0

When(condition, flag) == IF condition THEN {flag} ELSE {}
Carry(f)  == IF "CARRY" \in f THEN 1 ELSE 0
Psz(v)    == When(EvenOnes(v), "PARITY") \cup When(Negative(v), "SIGN")
               \cup When(v = 0, "ZERO")
-----------------------------------------------------------------------------
\* Addition and subtraction: res is the result, cy the carry or borrow out of it.
Added(a, b, res, cy) ==
  [value |-> res,
   flags |-> Psz(res)
     \cup When(Negative(a) = Negative(b) /\ Negative(res) # Negative(a), "OVERFLOW")
     \cup When((Bit4(a) + Bit4(b) + Bit4(res)) % 2 = 1, "AUXILIARY")
     \cup When(cy, "CARRY")]

Subtracted(a, b, res, cy) ==
  [value |-> res,
   flags |-> Psz(res)
     \cup When(Negative(a) # Negative(b) /\ Negative(res) # Negative(a), "OVERFLOW")
     \cup When((Bit4(a) + Bit4(b) + Bit4(res)) % 2 = 1, "AUXILIARY")
     \cup When(cy, "CARRY")]

ADD(a, b) == LET res == (a + b) % M IN Added(a, b, res, res < a)
SUB(a, b) == LET res == (a - b) % M IN Subtracted(a, b, res, a < b)

\* Mutant: the case that the carry completes a full turn is forgotten.
ADC_NoFullTurn(f, a, b) ==
  LET res == (a + b + Carry(f)) % M IN Added(a, b, res, res < a)

ADC(f, a, b) ==
  LET res == (a + b + Carry(f)) % M
  IN  Added(a, b, res, res < a \/ ("CARRY" \in f /\ res = a))

\* Mutant: the borrow counts in the sign of the right operand.
SBB_Overflow(f, a, b) ==
  LET res == (a - b - Carry(f)) % M
  IN  Subtracted(a, (b + Carry(f)) % M, res,
                 res > a \/ ("CARRY" \in f /\ b = M - 1))

SBB(f, a, b) ==
  LET res == (a - ((b + Carry(f)) % M)) % M
  IN  Subtracted(a, b, res, res > a \/ ("CARRY" \in f /\ b = M - 1))

\* NEG: the flags of a subtraction from zero, and carry for all but zero.
NEG(b) ==
  LET r == (M - b) % M
  IN  [value |-> r,
       flags |-> (SUB(0, b).flags \ {"CARRY"}) \cup When(r # 0, "CARRY")]

\* INC and DEC keep the carry.
INC(f, a) ==
  LET res == (a + 1) % M
  IN  [value |-> res,
       flags |-> (f \cap {"CARRY"}) \cup Psz(res)
         \cup When(res % 16 = 0, "AUXILIARY") \cup When(res = Half, "OVERFLOW")]

DEC(f, a) ==
  LET res == (a - 1) % M
  IN  [value |-> res,
       flags |-> (f \cap {"CARRY"}) \cup Psz(res)
         \cup When(res % 16 = 15, "AUXILIARY") \cup When(res = Half - 1, "OVERFLOW")]
-----------------------------------------------------------------------------
\* Decimal adjustments of AL, for bytes.  Low and High tell which digit was too
\* large or carried.
Low(f, al)  == al % 16 > 9 \/ "AUXILIARY" \in f
High(f, al) == al > (IF "AUXILIARY" \in f THEN 159 ELSE 153) \/ "CARRY" \in f

Adjusted(f, al, sign) ==
  LET six  == IF Low(f, al) THEN 6 ELSE 0
      sixt == IF High(f, al) THEN 96 ELSE 0
      res  == (al + sign * (six + sixt)) % M
  IN  [value |-> res,
       flags |-> (f \cap {"OVERFLOW"}) \cup Psz(res)
         \cup When(Low(f, al), "AUXILIARY") \cup When(High(f, al), "CARRY")]

\* Mutant: the carry of the binary addition is forgotten.
DAA_NoCarry(f, al) == Adjusted(f \ {"CARRY"}, al, 1)
DAA(f, al) == Adjusted(f, al, 1)
DAS(f, al) == Adjusted(f, al, -1)

\* AAA (dir 1) and AAS (dir -1) of AH and AL.
ASCII(f, ah, al, dir) ==
  [value |-> (IF Low(f, al) THEN al + 6 * dir ELSE al) % 16,
   high  |-> (IF Low(f, al) THEN ah + dir ELSE ah) % M,
   flags |-> (f \ {"AUXILIARY", "CARRY"})
               \cup (IF Low(f, al) THEN {"AUXILIARY", "CARRY"} ELSE {})]

\* AAM of AL, with interrupt 0 for base zero, and AAD of AH and AL.
AAM(f, ah, al, base) ==
  IF base = 0
  THEN [trap |-> TRUE, value |-> al, high |-> ah, flags |-> {"PARITY", "ZERO"}]
  ELSE [trap |-> FALSE, value |-> al % base, high |-> al \div base,
        flags |-> (f \ {"PARITY", "SIGN", "ZERO"}) \cup Psz(al % base)]
AAD(f, ah, al, base) ==
  LET v == (ah * base + al) % M
  IN  [value |-> v, high |-> 0, flags |-> (f \ {"PARITY", "SIGN", "ZERO"}) \cup Psz(v)]
-----------------------------------------------------------------------------
\* Multiplication: the double-length product is in high and value.
Product(p, wide) ==
  [value |-> p % M,
   high  |-> (p \div M) % M,
   flags |-> Psz(p % M) \cup (IF wide THEN {"CARRY", "OVERFLOW"} ELSE {})]

MUL(a, b)  == Product(a * b, a * b >= M)

IMUL(a, b) == LET p == Signed(a) * Signed(b) IN Product(p, p # Signed(p % M))

\* Division: interrupt 0 leaves the registers as they are.  The flags never change.
Trapped(high, value) == [trap |-> TRUE, value |-> value, high |-> high]

\* Mutant: the quotient is checked as if it had a sign.
DIV_SignedCheck(high, value, v) ==
  LET a == high * M + value
  IN  IF v = 0 \/ a \div v >= Half THEN Trapped(high, value)
      ELSE [trap |-> FALSE, value |-> a \div v, high |-> a % v]

DIV(high, value, v) ==
  LET a == high * M + value
  IN  IF v = 0 \/ a \div v >= M THEN Trapped(high, value)
      ELSE [trap |-> FALSE, value |-> a \div v, high |-> a % v]

\* IDIV extends its divisor with zeroes: load_eb and load_ew are unsigned.  The
\* repeat prefix inverts the quotient.
IDIV(invert, high, value, v) ==
  LET d == high * M + value
      a == IF d >= Half * M THEN d - M * M ELSE d
      t == IF a >= 0 THEN a \div v ELSE -((-a) \div v)     \* rounds towards zero
      q == IF invert THEN -t ELSE t
  IN  IF d = Half * M \/ v = 0 \/ q \notin -Half..(Half - 1)
      THEN Trapped(high, value)
      ELSE [trap |-> FALSE, value |-> q % M, high |-> (a - v * t) % M]
-----------------------------------------------------------------------------
\* Shifts and rotations: c turns of a step on a word and the carry.
Turns(step(_), v, carry, c) ==
  LET s[i \in 0..c] ==
        IF i = 0 THEN [value |-> v, carry |-> carry] ELSE step(s[i - 1])
  IN  s[c]

RolStep(x) == [value |-> ((2 * x.value) % M) + (x.value \div Half),
               carry |-> x.value \div Half]
RorStep(x) == [value |-> (x.value \div 2) + Half * (x.value % 2), carry |-> x.value % 2]
RclStep(x) == [value |-> ((2 * x.value) % M) + x.carry, carry |-> x.value \div Half]
RcrStep(x) == [value |-> (x.value \div 2) + Half * x.carry, carry |-> x.value % 2]
ShlStep(x) == [value |-> (2 * x.value) % M, carry |-> x.value \div Half]
ShrStep(x) == [value |-> x.value \div 2, carry |-> x.value % 2]
SarStep(x) == [value |-> (x.value \div 2) + Half * (x.value \div Half),
               carry |-> x.value % 2]

\* Overflow of a step to the left: the carry against the new sign; of a rotation
\* to the right: the two highest bits of the result.
LeftOverflow(s)  == s.carry # s.value \div Half
RightOverflow(s) == s.value \div Half # ((2 * s.value) \div Half) % 2

Rotated(f, s, overflow) ==
  [value |-> s.value,
   flags |-> (f \ {"CARRY", "OVERFLOW"}) \cup When(s.carry = 1, "CARRY")
               \cup When(overflow, "OVERFLOW")]
Shifted(f, s, overflow) ==
  [value |-> s.value,
   flags |-> (f \cap {"AUXILIARY"}) \cup Psz(s.value) \cup When(s.carry = 1, "CARRY")
               \cup When(overflow, "OVERFLOW")]
Unshifted(f, v) == [value |-> v, flags |-> f]

ROL(f, v, c) == LET s == Turns(RolStep, v, Carry(f), c)
                IN  IF c = 0 THEN Unshifted(f, v) ELSE Rotated(f, s, LeftOverflow(s))
ROR(f, v, c) == LET s == Turns(RorStep, v, Carry(f), c)
                IN  IF c = 0 THEN Unshifted(f, v) ELSE Rotated(f, s, RightOverflow(s))
RCL(f, v, c) == LET s == Turns(RclStep, v, Carry(f), c)
                IN  IF c = 0 THEN Unshifted(f, v) ELSE Rotated(f, s, LeftOverflow(s))
RCR(f, v, c) == LET s == Turns(RcrStep, v, Carry(f), c)
                IN  IF c = 0 THEN Unshifted(f, v) ELSE Rotated(f, s, RightOverflow(s))
SHL(f, v, c) == LET s == Turns(ShlStep, v, Carry(f), c)
                IN  IF c = 0 THEN Unshifted(f, v) ELSE Shifted(f, s, LeftOverflow(s))
SHR(f, v, c) == LET s == Turns(ShrStep, v, Carry(f), c)
                IN  IF c = 0 THEN Unshifted(f, v)
                    ELSE Shifted(f, s, c = 1 /\ Negative(v))
SAR(f, v, c) == LET s == Turns(SarStep, v, Carry(f), c)
                IN  IF c = 0 THEN Unshifted(f, v) ELSE Shifted(f, s, FALSE)
-----------------------------------------------------------------------------
\* The conditional jumps; the jump with the next opcode tests the opposite.
Jumps(f) ==
  [JO  |-> "OVERFLOW" \in f,
   JC  |-> "CARRY" \in f,
   JE  |-> "ZERO" \in f,
   JBE |-> "CARRY" \in f \/ "ZERO" \in f,
   JS  |-> "SIGN" \in f,
   JPE |-> "PARITY" \in f,
   JL  |-> ~("SIGN" \in f <=> "OVERFLOW" \in f),
   JLE |-> ~("SIGN" \in f <=> "OVERFLOW" \in f) \/ "ZERO" \in f]
=============================================================================
