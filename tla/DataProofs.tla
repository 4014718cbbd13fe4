----------------------------- MODULE DataProofs ------------------------------
(***************************************************************************)
(* Theorems about what the machine computes: the arithmetic, and the       *)
(* numbers and texts of the debugger.                                      *)
(*                                                                         *)
(* Numbers of several words, for every width of the word, every operand    *)
(* and every length: sums, differences, shifts, products and divisions are *)
(* exact, and the conditional jumps decide the order of the whole numbers. *)
(* The inductive invariant WideInv relates the numbers made of the words so*)
(* far by the carry or the remainder that the next word takes in; that they*)
(* are below their weight makes the comparison of their top words decide.  *)
(***************************************************************************)
EXTENDS Parts, SequenceTheorems, FiniteSetTheorems, WellFoundedInduction, TLAPS
-----------------------------------------------------------------------------
\* What a step of the machine's parts is for each of them.
LEMMA StepOfOne ==
  ASSUME [Next]_vars
  PROVE  /\ [Controller!Next]_pic
         /\ [Kbd!Next]_Kbd!vars /\ [Timer!Next]_Timer!vars /\ [Mice!Next]_Mice!vars
         /\ [Disks!Next]_Disks!vars /\ [Core!Next]_Core!vars /\ [Screen!Next]_Screen!vars
         /\ [Vga!Next]_Vga!vars /\ [Planar!Next]_Planar!vars /\ [Clock!Next]_Clock!vars
         /\ [Debugger!Next]_Debugger!vars /\ [WideNext]_wideVars
<1> USE DEF keyboardVars, timerVars, mouseVars, diskVars, coreVars, screenVars, clockVars,
            debuggerVars, vgaVars, planeVars, wideVars,
            Kbd!vars, Timer!vars, Mice!vars, Disks!vars, Core!vars, Screen!vars, Vga!vars,
            Planar!vars, Clock!vars, Debugger!vars
<1>1. CASE ControllerNext
  BY <1>1 DEF ControllerNext
<1>2. CASE KeyboardNext
  BY <1>2 DEF KeyboardNext
<1>3. CASE TimerNext
  BY <1>3 DEF TimerNext
<1>4. CASE MouseNext
  BY <1>4 DEF MouseNext
<1>5. CASE DiskNext
  BY <1>5 DEF DiskNext
<1>6. CASE CoreNext
  BY <1>6 DEF CoreNext
<1>7. CASE ScreenNext
  BY <1>7 DEF ScreenNext
<1>8. CASE ClockNext
  BY <1>8 DEF ClockNext
<1>9. CASE ArithmeticNext
  BY <1>9 DEF ArithmeticNext
<1>10. CASE DebuggerNext
  BY <1>10 DEF DebuggerNext
<1>11. CASE VgaNext
  BY <1>11 DEF VgaNext
<1>12. CASE PlanesNext
  BY <1>12 DEF PlanesNext
<1>13. CASE UNCHANGED vars
  BY <1>13 DEF vars
<1>14. QED
  BY <1>1, <1>2, <1>3, <1>4, <1>5, <1>6, <1>7, <1>8, <1>9, <1>10, <1>11, <1>12, <1>13
     DEF Next
-----------------------------------------------------------------------------
(* What each instruction computes on one word. *)

\* Remainders within one turn, and what division and remainder are.
LEMMA ModOnce ==
  ASSUME NEW m \in Nat, m > 0, NEW x \in Int
  PROVE  /\ 0 <= x /\ x < m => x % m = x
         /\ m <= x /\ x < 2 * m => x % m = x - m
         /\ -m <= x /\ x < 0 => x % m = x + m
  OBVIOUS

LEMMA DivMod ==
  ASSUME NEW m \in Nat, m > 0, NEW x \in Nat
  PROVE  /\ x \div m \in Nat /\ x % m \in 0..(m - 1)
         /\ x = m * (x \div m) + (x % m)
  OBVIOUS

LEMMA DivBelow ==
  ASSUME NEW m \in Nat, m > 0, NEW x \in Nat, NEW y \in Nat, x < m * y
  PROVE  x \div m < y
  OBVIOUS

LEMMA Widths ==
  ASSUME AluAssumption
  PROVE  /\ M \in Nat /\ M > 0 /\ Half \in Nat /\ Half > 0 /\ M = 2 * Half
         /\ Word = 0..(M - 1)
  BY DEF AluAssumption, M, Word

\* Which flags a sum and a difference set.
LEMMA AddedFlags ==
  ASSUME NEW a, NEW b, NEW res, NEW cy \in BOOLEAN
  PROVE  LET r == Added(a, b, res, cy)
         IN  /\ r.value = res /\ r.flags \subseteq ArithFlag
             /\ "CARRY" \in r.flags <=> cy
             /\ "ZERO" \in r.flags <=> res = 0
             /\ "SIGN" \in r.flags <=> Negative(res)
             /\ "OVERFLOW" \in r.flags <=>
                  Negative(a) = Negative(b) /\ Negative(res) # Negative(a)
  BY DEF Added, Psz, When, ArithFlag

LEMMA SubtractedFlags ==
  ASSUME NEW a, NEW b, NEW res, NEW cy \in BOOLEAN
  PROVE  LET r == Subtracted(a, b, res, cy)
         IN  /\ r.value = res /\ r.flags \subseteq ArithFlag
             /\ "CARRY" \in r.flags <=> cy
             /\ "ZERO" \in r.flags <=> res = 0
             /\ "SIGN" \in r.flags <=> Negative(res)
             /\ "OVERFLOW" \in r.flags <=>
                  Negative(a) # Negative(b) /\ Negative(res) # Negative(a)
  BY DEF Subtracted, Psz, When, ArithFlag

\* What the instructions that add promise: the result and the carry are the sum.
IsSum(r, a, b, c) ==
  /\ r.value \in Word /\ r.flags \subseteq ArithFlag
  /\ r.value + M * Carry(r.flags) = a + b + c
  /\ "OVERFLOW" \in r.flags <=>
       Negative(a) = Negative(b) /\ Negative(r.value) # Negative(a)
IsDifference(r, a, b, c) ==
  /\ r.value \in Word /\ r.flags \subseteq ArithFlag
  /\ a - b - c = r.value - M * Carry(r.flags)
  /\ "ZERO" \in r.flags <=> r.value = 0
  /\ "SIGN" \in r.flags <=> Negative(r.value)
  /\ "OVERFLOW" \in r.flags <=>
       Negative(a) # Negative(b) /\ Negative(r.value) # Negative(a)

LEMMA SumHolds ==
  ASSUME AluAssumption, NEW a \in Word, NEW b \in Word, NEW c \in Nat,
         NEW res \in Word, NEW cy \in BOOLEAN,
         IF cy THEN a + b + c = res + M ELSE a + b + c = res
  PROVE  IsSum(Added(a, b, res, cy), a, b, c)
<1> DEFINE r == Added(a, b, res, cy)
<1>1. /\ r.value = res /\ r.flags \subseteq ArithFlag
      /\ "CARRY" \in r.flags <=> cy
      /\ "OVERFLOW" \in r.flags <=>
           Negative(a) = Negative(b) /\ Negative(res) # Negative(a)
  BY AddedFlags
<1> HIDE DEF r
<1>2. Carry(r.flags) = IF cy THEN 1 ELSE 0
  BY <1>1 DEF Carry
<1>3. res + M * Carry(r.flags) = a + b + c
  BY <1>2, Widths
<1>4. IsSum(r, a, b, c)
  BY <1>1, <1>3 DEF IsSum
<1>5. QED
  BY <1>4 DEF r

LEMMA DifferenceHolds ==
  ASSUME AluAssumption, NEW a \in Word, NEW b \in Word, NEW c \in Nat,
         NEW res \in Word, NEW cy \in BOOLEAN,
         IF cy THEN a - b - c = res - M ELSE a - b - c = res
  PROVE  IsDifference(Subtracted(a, b, res, cy), a, b, c)
<1> DEFINE r == Subtracted(a, b, res, cy)
<1>1. /\ r.value = res /\ r.flags \subseteq ArithFlag
      /\ "CARRY" \in r.flags <=> cy
      /\ "ZERO" \in r.flags <=> res = 0
      /\ "SIGN" \in r.flags <=> Negative(res)
      /\ "OVERFLOW" \in r.flags <=>
           Negative(a) # Negative(b) /\ Negative(res) # Negative(a)
  BY SubtractedFlags
<1> HIDE DEF r
<1>2. Carry(r.flags) = IF cy THEN 1 ELSE 0
  BY <1>1 DEF Carry
<1>3. a - b - c = res - M * Carry(r.flags)
  BY <1>2, Widths
<1>4. IsDifference(r, a, b, c)
  BY <1>1, <1>3 DEF IsDifference
<1>5. QED
  BY <1>4 DEF r

LEMMA AddExact ==
  ASSUME AluAssumption, NEW a \in Word, NEW b \in Word
  PROVE  IsSum(ADD(a, b), a, b, 0)
<1>a. M \in Nat /\ M > 0 /\ a \in 0..(M - 1) /\ b \in 0..(M - 1)
  BY Widths
<1> DEFINE res == (a + b) % M
           cy  == res < a
<1>1. res \in 0..(M - 1) /\ (IF cy THEN a + b + 0 = res + M ELSE a + b + 0 = res)
  BY <1>a, ModOnce
<1>2. ADD(a, b) = Added(a, b, res, cy) /\ cy \in BOOLEAN
  BY DEF ADD
<1> HIDE DEF cy, res
<1>3. QED
  BY <1>1, <1>2, Widths, SumHolds

LEMMA AdcExact ==
  ASSUME AluAssumption, NEW f, NEW a \in Word, NEW b \in Word
  PROVE  IsSum(ADC(f, a, b), a, b, Carry(f))
<1> DEFINE c   == Carry(f)
           x   == a + b + c
           res == x % M
           cy  == res < a \/ ("CARRY" \in f /\ res = a)
<1>1. M \in Nat /\ M > 0 /\ a \in 0..(M - 1) /\ b \in 0..(M - 1)
  BY Widths
<1>2. c \in {0, 1} /\ ("CARRY" \in f <=> c = 1)
  BY DEF Carry
<1>3. ADC(f, a, b) = Added(a, b, res, cy) /\ cy \in BOOLEAN
  BY DEF ADC
<1> HIDE DEF c
<1>4. x \in Int /\ 0 <= x /\ x < 2 * M
  BY <1>1, <1>2
<1> HIDE DEF x
<1>5. res \in 0..(M - 1) /\ (x < M => res = x) /\ (x >= M => res = x - M)
  BY <1>1, <1>4, ModOnce
<1> HIDE DEF res
<1>6. IF cy THEN a + b + c = res + M ELSE a + b + c = res
  BY <1>1, <1>2, <1>4, <1>5 DEF x
<1> HIDE DEF cy
<1>7. IsSum(Added(a, b, res, cy), a, b, c)
  BY <1>2, <1>3, <1>5, <1>6, Widths, SumHolds
<1>8. QED
  BY <1>3, <1>7 DEF c

LEMMA SubExact ==
  ASSUME AluAssumption, NEW a \in Word, NEW b \in Word
  PROVE  IsDifference(SUB(a, b), a, b, 0)
<1>a. M \in Nat /\ M > 0 /\ a \in 0..(M - 1) /\ b \in 0..(M - 1)
  BY Widths
<1> DEFINE res == (a - b) % M
           cy  == a < b
<1>1. res \in 0..(M - 1) /\ (IF cy THEN a - b - 0 = res - M ELSE a - b - 0 = res)
  BY <1>a, ModOnce
<1>2. SUB(a, b) = Subtracted(a, b, res, cy) /\ cy \in BOOLEAN
  BY DEF SUB
<1> HIDE DEF cy, res
<1>3. QED
  BY <1>1, <1>2, Widths, DifferenceHolds

LEMMA SbbExact ==
  ASSUME AluAssumption, NEW f, NEW a \in Word, NEW b \in Word
  PROVE  IsDifference(SBB(f, a, b), a, b, Carry(f))
<1>a. M \in Nat /\ M > 0 /\ a \in 0..(M - 1) /\ b \in 0..(M - 1)
  BY Widths
<1> DEFINE d   == (b + Carry(f)) % M
           res == (a - d) % M
           cy  == res > a \/ ("CARRY" \in f /\ b = M - 1)
<1>1. Carry(f) \in {0, 1} /\ ("CARRY" \in f <=> Carry(f) = 1)
  BY DEF Carry
<1>2. IF Carry(f) = 1 /\ b = M - 1 THEN d = 0 ELSE d = b + Carry(f)
  BY <1>1, <1>a, ModOnce
<1>3. SBB(f, a, b) = Subtracted(a, b, res, cy) /\ cy \in BOOLEAN
  BY DEF SBB
<1> HIDE DEF d
<1>4. d \in 0..(M - 1)
  BY <1>1, <1>2, <1>a
<1>5. res \in 0..(M - 1) /\ (IF a < d THEN res = a - d + M ELSE res = a - d)
  BY <1>4, <1>a, ModOnce
<1> HIDE DEF res
<1>6. IF cy THEN a - b - Carry(f) = res - M ELSE a - b - Carry(f) = res
  BY <1>1, <1>2, <1>4, <1>5, <1>a
<1> HIDE DEF cy
<1>7. QED
  BY <1>1, <1>3, <1>5, <1>6, Widths, DifferenceHolds

LEMMA NegExact ==
  ASSUME AluAssumption, NEW b \in Word
  PROVE  IsDifference(NEG(b), 0, b, 0)
<1>a. M \in Nat /\ M > 0 /\ b \in 0..(M - 1)
  BY Widths
<1> DEFINE r == (M - b) % M
           s == SUB(0, b)
<1>1. r \in 0..(M - 1) /\ (IF b = 0 THEN r = 0 ELSE r = M - b)
  BY <1>a, ModOnce
<1>2. NEG(b) = [value |-> r,
                flags |-> (s.flags \ {"CARRY"}) \cup When(r # 0, "CARRY")]
  BY DEF NEG
<1> HIDE DEF r
<1>3. 0 \in Word /\ IsDifference(s, 0, b, 0)
  BY Widths, SubExact
<1> HIDE DEF s
<1>4. Carry(s.flags) \in {0, 1} /\ Carry(NEG(b).flags) = IF r # 0 THEN 1 ELSE 0
  BY <1>2 DEF Carry, When
<1>5. s.value = r
  <2>1. s.value \in 0..(M - 1) /\ 0 - b - 0 = s.value - M * Carry(s.flags)
    BY <1>3, Widths DEF IsDifference
  <2>2. CASE Carry(s.flags) = 0
    BY <2>1, <2>2, <1>1, <1>a
  <2>3. CASE Carry(s.flags) = 1
    BY <2>1, <2>3, <1>1, <1>a
  <2>4. QED
    BY <2>2, <2>3, <1>4
<1>6. 0 - b - 0 = r - M * Carry(NEG(b).flags)
  BY <1>1, <1>4, <1>a
<1>7. NEG(b).flags \subseteq ArithFlag
      /\ \A n \in {"ZERO", "SIGN", "OVERFLOW"} :
           n \in NEG(b).flags <=> n \in s.flags
  BY <1>2, <1>3 DEF IsDifference, When, ArithFlag
<1>8. QED
  BY <1>1, <1>2, <1>3, <1>5, <1>6, <1>7, Widths DEF IsDifference

\* INC and DEC leave the carry as it was.
LEMMA PointersKeepCarry ==
  ASSUME NEW f, f \subseteq ArithFlag, NEW p
  PROVE  /\ INC(f, p).flags \subseteq ArithFlag /\ Carry(INC(f, p).flags) = Carry(f)
         /\ DEC(f, p).flags \subseteq ArithFlag /\ Carry(DEC(f, p).flags) = Carry(f)
  BY DEF INC, DEC, Psz, When, Carry, ArithFlag

LEMMA MulExact ==
  ASSUME AluAssumption, NEW a \in Word, NEW b \in Word
  PROVE  /\ MUL(a, b).value \in Word /\ MUL(a, b).high \in Word
         /\ MUL(a, b).value + M * MUL(a, b).high = a * b
         /\ MUL(a, b).flags \subseteq ArithFlag
<1>1. a * b \in Nat /\ a * b < M * M
  <2>1. a * b <= a * (M - 1) /\ a * (M - 1) <= (M - 1) * (M - 1)
    BY Widths
  <2>2. (M - 1) * (M - 1) < M * M /\ a * b \in Nat
    BY Widths
  <2>3. a * (M - 1) \in Int /\ (M - 1) * (M - 1) \in Int /\ M * M \in Int
    BY Widths
  <2> DEFINE x == a * b  y == a * (M - 1)  z == (M - 1) * (M - 1)  u == M * M
  <2> HIDE DEF x, y, z, u
  <2>4. x \in Nat /\ y \in Int /\ z \in Int /\ u \in Int /\ x <= y /\ y <= z /\ z < u
    BY <2>1, <2>2, <2>3 DEF x, y, z, u
  <2>5. x \in Nat /\ x < u
    BY <2>4
  <2>6. QED  BY <2>5 DEF x, u
<1> DEFINE p == a * b
           q == p \div M
           s == p % M
<1> HIDE DEF p
<1>2. p \in Nat /\ p < M * M
  BY <1>1 DEF p
<1>3. q \in Nat /\ q < M /\ s \in 0..(M - 1) /\ p = M * q + s
  BY <1>2, Widths, DivMod, DivBelow
<1> HIDE DEF q, s
<1>4. q % M = q
  <2>1. M \in Nat /\ M > 0 /\ q \in Int /\ 0 <= q /\ q < M
    BY <1>3, Widths
  <2>2. QED
    BY <2>1, ModOnce
<1>5. MUL(a, b).value = s /\ MUL(a, b).high = q
  BY <1>4 DEF MUL, Product, p, q, s
<1>6. MUL(a, b).flags \subseteq ArithFlag
  BY DEF MUL, Product, Psz, When, ArithFlag
<1>7. s + M * q = a * b
  BY <1>3, Widths DEF p
<1>8. QED
  BY <1>3, <1>5, <1>6, <1>7, Widths, SMTT(30)

LEMMA DivExact ==
  ASSUME AluAssumption, NEW h \in Word, NEW l \in Word, NEW v \in Word, h < v
  PROVE  LET r == DIV(h, l, v)
         IN  /\ ~r.trap /\ r.value \in Word /\ r.high \in Word /\ r.high < v
             /\ h * M + l = r.value * v + r.high
<1> DEFINE a == h * M + l
<1>1. a \in Nat /\ a < v * M
  <2>1. h * M + l < (h + 1) * M
    BY Widths
  <2>2. (h + 1) * M <= v * M
    BY Widths
  <2>3. h * M + l \in Nat /\ (h + 1) * M \in Int /\ v * M \in Int
    BY Widths, SMTT(30)
  <2> DEFINE x == (h + 1) * M  y == v * M
  <2> HIDE DEF a, x, y
  <2>4. a \in Nat /\ x \in Int /\ y \in Int /\ a < x /\ x <= y
    BY <2>1, <2>2, <2>3 DEF a, x, y
  <2>5. a \in Nat /\ a < y
    BY <2>4
  <2>6. QED  BY <2>5 DEF y
<1>2. v \in Nat /\ v > 0
  BY Widths
<1> HIDE DEF a
<1>3. a \div v \in Nat /\ a % v \in 0..(v - 1) /\ a = v * (a \div v) + (a % v)
      /\ a \div v < M
  BY <1>1, <1>2, Widths, DivMod, DivBelow
<1>4. v # 0 /\ ~(a \div v >= M)
  <2>1. M \in Nat
    BY Widths
  <2>2. QED
    BY <1>2, <1>3, <2>1
<1>5. DIV(h, l, v) = [trap |-> FALSE, value |-> a \div v, high |-> a % v]
  BY <1>4 DEF DIV, a
<1> DEFINE q == a \div v
           r == a % v
<1>6. q \in Nat /\ r \in 0..(v - 1) /\ a = v * q + r /\ q < M
  BY <1>3
<1> HIDE DEF q, r
<1>7. h * M + l = q * v + r
  BY <1>2, <1>6 DEF a
<1>8. q \in Word /\ r \in Word /\ r < v
  BY <1>2, <1>6, Widths
<1>9. DIV(h, l, v) = [trap |-> FALSE, value |-> q, high |-> r]
  BY <1>5 DEF q, r
<1>10. QED
  BY <1>7, <1>8, <1>9
-----------------------------------------------------------------------------
\* One turn of each shift: the function that Turns defines has the value of the step.
LEMMA OneTurn ==
  ASSUME NEW f, NEW v
  PROVE  LET x == [value |-> v, carry |-> Carry(f)]
         IN  /\ SHL(f, v, 1) = Shifted(f, ShlStep(x), LeftOverflow(ShlStep(x)))
             /\ RCL(f, v, 1) = Rotated(f, RclStep(x), LeftOverflow(RclStep(x)))
             /\ SHR(f, v, 1) = Shifted(f, ShrStep(x), Negative(v))
             /\ SAR(f, v, 1) = Shifted(f, SarStep(x), FALSE)
             /\ RCR(f, v, 1) = Rotated(f, RcrStep(x), RightOverflow(RcrStep(x)))
<1> DEFINE x == [value |-> v, carry |-> Carry(f)]
<1>1. SHL(f, v, 1) = Shifted(f, ShlStep(x), LeftOverflow(ShlStep(x)))
  <2> DEFINE Is(s) == s = [i \in 0..1 |-> IF i = 0 THEN x ELSE ShlStep(s[i - 1])]
             t == (CHOOSE s : Is(s))[1]
  <2>1. Is([i \in 0..1 |-> IF i = 0 THEN x ELSE ShlStep(x)])
    OBVIOUS
  <2>2. \A s : Is(s) => s[1] = ShlStep(x)
    OBVIOUS
  <2>3. t = ShlStep(x)
    BY <2>1, <2>2
  <2>4. SHL(f, v, 1) = Shifted(f, t, LeftOverflow(t))
    BY DEF SHL, Turns
  <2>5. QED
    BY <2>3, <2>4
<1>2. RCL(f, v, 1) = Rotated(f, RclStep(x), LeftOverflow(RclStep(x)))
  <2> DEFINE Is(s) == s = [i \in 0..1 |-> IF i = 0 THEN x ELSE RclStep(s[i - 1])]
             t == (CHOOSE s : Is(s))[1]
  <2>1. Is([i \in 0..1 |-> IF i = 0 THEN x ELSE RclStep(x)])
    OBVIOUS
  <2>2. \A s : Is(s) => s[1] = RclStep(x)
    OBVIOUS
  <2>3. t = RclStep(x)
    BY <2>1, <2>2
  <2>4. RCL(f, v, 1) = Rotated(f, t, LeftOverflow(t))
    BY DEF RCL, Turns
  <2>5. QED
    BY <2>3, <2>4
<1>3. SHR(f, v, 1) = Shifted(f, ShrStep(x), Negative(v))
  <2> DEFINE Is(s) == s = [i \in 0..1 |-> IF i = 0 THEN x ELSE ShrStep(s[i - 1])]
             t == (CHOOSE s : Is(s))[1]
  <2>1. Is([i \in 0..1 |-> IF i = 0 THEN x ELSE ShrStep(x)])
    OBVIOUS
  <2>2. \A s : Is(s) => s[1] = ShrStep(x)
    OBVIOUS
  <2>3. t = ShrStep(x)
    BY <2>1, <2>2
  <2>4. SHR(f, v, 1) = Shifted(f, t, (1 = 1 /\ Negative(v)))
    BY DEF SHR, Turns
  <2> HIDE DEF t
  <2>5. (1 = 1 /\ Negative(v)) = Negative(v)
    BY DEF Negative
  <2>6. QED
    BY <2>3, <2>4, <2>5, Zenon
<1>4. SAR(f, v, 1) = Shifted(f, SarStep(x), FALSE)
  <2> DEFINE Is(s) == s = [i \in 0..1 |-> IF i = 0 THEN x ELSE SarStep(s[i - 1])]
             t == (CHOOSE s : Is(s))[1]
  <2>1. Is([i \in 0..1 |-> IF i = 0 THEN x ELSE SarStep(x)])
    OBVIOUS
  <2>2. \A s : Is(s) => s[1] = SarStep(x)
    OBVIOUS
  <2>3. t = SarStep(x)
    BY <2>1, <2>2
  <2>4. SAR(f, v, 1) = Shifted(f, t, FALSE)
    BY DEF SAR, Turns
  <2>5. QED
    BY <2>3, <2>4
<1>5. RCR(f, v, 1) = Rotated(f, RcrStep(x), RightOverflow(RcrStep(x)))
  <2> DEFINE Is(s) == s = [i \in 0..1 |-> IF i = 0 THEN x ELSE RcrStep(s[i - 1])]
             t == (CHOOSE s : Is(s))[1]
  <2>1. Is([i \in 0..1 |-> IF i = 0 THEN x ELSE RcrStep(x)])
    OBVIOUS
  <2>2. \A s : Is(s) => s[1] = RcrStep(x)
    OBVIOUS
  <2>3. t = RcrStep(x)
    BY <2>1, <2>2
  <2>4. RCR(f, v, 1) = Rotated(f, t, RightOverflow(t))
    BY DEF RCR, Turns
  <2>5. QED
    BY <2>3, <2>4
<1>6. QED
  BY <1>1, <1>2, <1>3, <1>4, <1>5

\* The flags of a shift or rotation by one.
LEMMA ShiftFlags ==
  ASSUME NEW f, f \subseteq ArithFlag, NEW s, s.carry \in {0, 1}, NEW o
  PROVE  /\ Rotated(f, s, o).value = s.value /\ Rotated(f, s, o).flags \subseteq ArithFlag
         /\ Carry(Rotated(f, s, o).flags) = s.carry
         /\ Shifted(f, s, o).value = s.value /\ Shifted(f, s, o).flags \subseteq ArithFlag
         /\ Carry(Shifted(f, s, o).flags) = s.carry
  BY DEF Rotated, Shifted, Psz, When, Carry, ArithFlag

LEMMA SignBit ==
  ASSUME AluAssumption, NEW a \in Word
  PROVE  /\ a \in 0..(M - 1) /\ M = 2 * Half /\ Half \in Nat \ {0}
         /\ (a >= Half => a \div Half = 1) /\ (~(a >= Half) => a \div Half = 0)
         /\ (a >= Half => (2 * a) % M = 2 * a - M)
         /\ (~(a >= Half) => (2 * a) % M = 2 * a)
<1>1. a \in 0..(M - 1) /\ M = 2 * Half /\ Half \in Nat \ {0} /\ M \in Nat /\ M > 0
  BY Widths
<1>2. a \div Half \in Nat /\ a % Half \in 0..(Half - 1)
      /\ a = Half * (a \div Half) + (a % Half) /\ a \div Half < 2
  BY <1>1, DivMod, DivBelow
<1>3. (a >= Half => a \div Half = 1) /\ (~(a >= Half) => a \div Half = 0)
  BY <1>1, <1>2
<1>4. (a >= Half => (2 * a) % M = 2 * a - M) /\ (~(a >= Half) => (2 * a) % M = 2 * a)
  BY <1>1, ModOnce
<1>5. QED
  BY <1>1, <1>3, <1>4

LEMMA ShlExact ==
  ASSUME AluAssumption, NEW f, f \subseteq ArithFlag, NEW a \in Word
  PROVE  /\ LET r == SHL(f, a, 1)
            IN  /\ r.value \in Word /\ r.flags \subseteq ArithFlag
                /\ 2 * a = r.value + M * Carry(r.flags)
         /\ LET r == RCL(f, a, 1)
            IN  /\ r.value \in Word /\ r.flags \subseteq ArithFlag
                /\ 2 * a + Carry(f) = r.value + M * Carry(r.flags)
<1>1. Carry(f) \in {0, 1}
  BY DEF Carry
<1> DEFINE x == [value |-> a, carry |-> Carry(f)]
           s == ShlStep(x)
           t == RclStep(x)
           d == a \div Half
           e == (2 * a) % M
           os == LeftOverflow(s)
           ot == LeftOverflow(t)
<1>2. SHL(f, a, 1) = Shifted(f, s, os) /\ RCL(f, a, 1) = Rotated(f, t, ot)
  BY OneTurn
<1>3. s.value = e /\ s.carry = d /\ t.value = e + Carry(f) /\ t.carry = d
  BY DEF ShlStep, RclStep
<1>4. a \in 0..(M - 1) /\ M = 2 * Half /\ Half \in Nat \ {0} /\ d \in {0, 1}
      /\ (d = 1 => e = 2 * a - M /\ a >= Half) /\ (d = 0 => e = 2 * a /\ a < Half)
  BY SignBit
<1> HIDE DEF s, t, d, e, os, ot
<1>5. SHL(f, a, 1).value = e /\ SHL(f, a, 1).flags \subseteq ArithFlag
      /\ Carry(SHL(f, a, 1).flags) = d
  <2>1. s.carry \in {0, 1}
    BY <1>3, <1>4
  <2>2. /\ Shifted(f, s, os).value = s.value
        /\ Shifted(f, s, os).flags \subseteq ArithFlag
        /\ Carry(Shifted(f, s, os).flags) = s.carry
    BY <2>1 DEF Shifted, Psz, When, Carry, ArithFlag
  <2>3. QED
    BY <1>2, <1>3, <2>2
<1>6. RCL(f, a, 1).value = e + Carry(f) /\ RCL(f, a, 1).flags \subseteq ArithFlag
      /\ Carry(RCL(f, a, 1).flags) = d
  <2>1. t.carry \in {0, 1}
    BY <1>3, <1>4
  <2>2. /\ Rotated(f, t, ot).value = t.value
        /\ Rotated(f, t, ot).flags \subseteq ArithFlag
        /\ Carry(Rotated(f, t, ot).flags) = t.carry
    BY <2>1 DEF Rotated, Psz, When, Carry, ArithFlag
  <2>3. QED
    BY <1>2, <1>3, <2>2
<1>7. e \in 0..(M - 1) /\ e + Carry(f) \in 0..(M - 1) /\ 2 * a = e + M * d
  BY <1>1, <1>4
<1>8. 2 * a + Carry(f) = e + Carry(f) + M * d
  BY <1>1, <1>4, <1>7
<1>9. QED
  BY <1>5, <1>6, <1>7, <1>8, Widths

LEMMA ShrExact ==
  ASSUME AluAssumption, NEW f, f \subseteq ArithFlag, NEW a \in Word
  PROVE  /\ LET r == SHR(f, a, 1)
            IN  /\ r.value \in Word /\ r.flags \subseteq ArithFlag
                /\ a = 2 * r.value + Carry(r.flags)
         /\ LET r == SAR(f, a, 1)
            IN  /\ r.value \in Word /\ r.flags \subseteq ArithFlag
                /\ Signed(a) = 2 * Signed(r.value) + Carry(r.flags)
         /\ LET r == RCR(f, a, 1)
            IN  /\ r.value \in Word /\ r.flags \subseteq ArithFlag
                /\ a + M * Carry(f) = 2 * r.value + Carry(r.flags)
<1>1. Carry(f) \in {0, 1}
  BY DEF Carry
<1> DEFINE x == [value |-> a, carry |-> Carry(f)]
           s == ShrStep(x)
           t == SarStep(x)
           u == RcrStep(x)
           o == Negative(a)
           p == RightOverflow(u)
           h == a \div 2
           c == a % 2
           d == a \div Half
<1>2. SHR(f, a, 1) = Shifted(f, s, o) /\ SAR(f, a, 1) = Shifted(f, t, FALSE)
      /\ RCR(f, a, 1) = Rotated(f, u, p)
  BY OneTurn
<1>3. h \in Nat /\ c \in {0, 1} /\ a = 2 * h + c
  <2>1. a \in Nat
    BY Widths
  <2>2. QED
    BY <2>1
<1>4. s.value = h /\ s.carry = c /\ t.value = h + Half * d /\ t.carry = c
      /\ u.value = h + Half * Carry(f) /\ u.carry = c
  BY DEF ShrStep, SarStep, RcrStep
<1>5. a \in 0..(M - 1) /\ M = 2 * Half /\ Half \in Nat \ {0} /\ d \in {0, 1}
      /\ (d = 1 => a >= Half) /\ (d = 0 => a < Half)
  BY SignBit
<1> HIDE DEF s, t, u, o, p, d, h, c
<1>6. SHR(f, a, 1).value = h /\ SHR(f, a, 1).flags \subseteq ArithFlag
      /\ Carry(SHR(f, a, 1).flags) = c
  <2>1. s.carry \in {0, 1}
    BY <1>3, <1>4
  <2>2. /\ Shifted(f, s, o).value = s.value
        /\ Shifted(f, s, o).flags \subseteq ArithFlag
        /\ Carry(Shifted(f, s, o).flags) = s.carry
    BY <2>1 DEF Shifted, Psz, When, Carry, ArithFlag
  <2>3. QED
    BY <1>2, <1>4, <2>2
<1>7. SAR(f, a, 1).value = h + Half * d /\ SAR(f, a, 1).flags \subseteq ArithFlag
      /\ Carry(SAR(f, a, 1).flags) = c
  <2>1. t.carry \in {0, 1}
    BY <1>3, <1>4
  <2>2. /\ Shifted(f, t, FALSE).value = t.value
        /\ Shifted(f, t, FALSE).flags \subseteq ArithFlag
        /\ Carry(Shifted(f, t, FALSE).flags) = t.carry
    BY <2>1 DEF Shifted, Psz, When, Carry, ArithFlag
  <2>3. QED
    BY <1>2, <1>4, <2>2
<1>8. RCR(f, a, 1).value = h + Half * Carry(f) /\ RCR(f, a, 1).flags \subseteq ArithFlag
      /\ Carry(RCR(f, a, 1).flags) = c
  <2>1. u.carry \in {0, 1}
    BY <1>3, <1>4
  <2>2. /\ Rotated(f, u, p).value = u.value
        /\ Rotated(f, u, p).flags \subseteq ArithFlag
        /\ Carry(Rotated(f, u, p).flags) = u.carry
    BY <2>1 DEF Rotated, Psz, When, Carry, ArithFlag
  <2>3. QED
    BY <1>2, <1>4, <2>2
<1>9. h \in 0..(M - 1) /\ h + Half * d \in 0..(M - 1)
       /\ h + Half * Carry(f) \in 0..(M - 1)
  BY <1>1, <1>3, <1>5
<1>10. Signed(a) = 2 * Signed(h + Half * d) + c
  BY <1>3, <1>5 DEF Signed, Negative
<1>11. a + M * Carry(f) = 2 * (h + Half * Carry(f)) + c
  BY <1>1, <1>3, <1>5
<1>12. QED
  BY <1>3, <1>6, <1>7, <1>8, <1>9, <1>10, <1>11, Widths
-----------------------------------------------------------------------------
(* Numbers of several words. *)

\* Products with a positive weight keep the order and distribute.

LEMMA Scale ==
  ASSUME NEW w \in Nat, w > 0, NEW x \in Int, NEW y \in Int
  PROVE  /\ w * x \in Int /\ w * y \in Int
         /\ x < y => w * x + w <= w * y
         /\ x <= y => w * x <= w * y
         /\ w * (x + y) = w * x + w * y /\ w * (x - y) = w * x - w * y
         /\ w * x = x * w
<1>1. w * x \in Int /\ w * y \in Int /\ w * (x + y) = w * x + w * y
      /\ w * (x - y) = w * x - w * y /\ w * x = x * w
  OBVIOUS
<1>2. ASSUME x <= y PROVE w * x <= w * y
  <2>1. y - x \in Nat
    BY <1>2
  <2>2. w * (y - x) \in Nat
    BY <2>1
  <2>3. QED
    BY <2>2
<1>3. ASSUME x < y PROVE w * x + w <= w * y
  <2>1. y - x - 1 \in Nat
    BY <1>3
  <2>2. w * (y - x - 1) \in Nat
    BY <2>1
  <2>3. w * (y - x - 1) = w * y - w * x - w
    OBVIOUS
  <2>4. QED
    BY <2>2, <2>3
<1>4. QED
  BY <1>1, <1>2, <1>3

\* A part l below the weight w does not change how multiples of w compare.
LEMMA Compare ==
  ASSUME NEW w \in Nat, w > 0, NEW l \in 0..(w - 1), NEW x \in Int, NEW y \in Int
  PROVE  (l + w * x >= w * y) <=> (x >= y)
<1>1. CASE x >= y
  BY <1>1, Scale
<1>2. CASE x < y
  BY <1>2, Scale
<1>3. QED
  BY <1>1, <1>2

\* One more word keeps a number below its weight.
LEMMA Grows ==
  ASSUME NEW w \in Nat, w > 0, NEW m \in Nat, m > 0,
         NEW l \in 0..(w - 1), NEW a \in 0..(m - 1)
  PROVE  /\ w * m \in Nat /\ w * m > 0 /\ w <= w * m
         /\ l + w * a \in 0..(w * m - 1)
         /\ l * m + a \in 0..(w * m - 1)
<1>1. w * m \in Nat /\ w * m > 0 /\ w <= w * m
  BY Scale
<1>2. w * a \in Nat /\ w * a + w <= w * m
  BY Scale
<1>3. m * l \in Nat /\ m * l + m <= m * w
  BY Scale
<1>4. QED
  BY <1>1, <1>2, <1>3
-----------------------------------------------------------------------------
\* SignedWide and InRange of WideArith, with the weight as a parameter.
Wide(v, w) == IF 2 * v >= w THEN v - w ELSE v
Fits(v, w) == -w <= 2 * v /\ 2 * v < w

\* The top word has the sign of the number, and decides whether a number fits.
LEMMA TopSign ==
  ASSUME AluAssumption, NEW w \in Nat, w > 0, NEW l \in 0..(w - 1), NEW a \in Word
  PROVE  Wide(l + w * a, w * M) = l + w * Signed(a)
<1>1. w * M = 2 * (w * Half) /\ w * M \in Int /\ w * a \in Int /\ w * Half \in Int
      /\ a \in Int /\ Half \in Int /\ M \in Int
  BY Widths, Scale
<1>2. (l + w * a >= w * Half) <=> (a >= Half)
  BY <1>1, Compare
<1>3. w * (a - M) = w * a - w * M
  BY <1>1, Scale
<1>4. QED
  BY <1>1, <1>2, <1>3 DEF Wide, Signed, Negative

LEMMA TopFits ==
  ASSUME AluAssumption, NEW w \in Nat, w > 0, NEW l \in 0..(w - 1), NEW x \in Int
  PROVE  Fits(l + w * x, w * M) <=> (-Half <= x /\ x < Half)
<1>1. w * M = 2 * (w * Half) /\ w * M \in Int /\ w * x \in Int /\ w * Half \in Int
      /\ Half \in Int /\ -Half \in Int /\ w * (-Half) = -(w * Half)
  BY Widths, Scale
<1>2. (l + w * x >= w * Half) <=> (x >= Half)
  BY <1>1, Compare
<1>3. (l + w * x >= w * (-Half)) <=> (x >= -Half)
  BY <1>1, Compare
<1>4. QED
  BY <1>1, <1>2, <1>3 DEF Fits

\* One more word of a sum and of a difference.
LEMMA SumGrows ==
  ASSUME AluAssumption, NEW w \in Nat, w > 0,
         NEW l \in Nat, NEW k \in Nat, NEW s \in 0..(w - 1), NEW c \in {0, 1},
         l + k = s + w * c,
         NEW a \in Word, NEW b \in Word, NEW r, IsSum(r, a, b, c)
  PROVE  (l + w * a) + (k + w * b) = (s + w * r.value) + (w * M) * Carry(r.flags)
<1> DEFINE v == r.value
           d == Carry(r.flags)
<1>1. v \in Int /\ d \in Int /\ v + M * d = a + b + c /\ M \in Int /\ a \in Int /\ b \in Int
  BY Widths DEF IsSum, Carry
<1> HIDE DEF v, d
<1>2. w * (a + b + c) = w * a + w * b + w * c
  BY <1>1
<1>3. w * (v + M * d) = w * v + (w * M) * d
  BY <1>1
<1>4. (l + w * a) + (k + w * b) = (s + w * v) + (w * M) * d
  BY <1>1, <1>2, <1>3
<1>5. QED
  BY <1>4 DEF v, d

LEMMA DifferenceGrows ==
  ASSUME AluAssumption, NEW w \in Nat, w > 0,
         NEW l \in Nat, NEW k \in Nat, NEW s \in 0..(w - 1), NEW c \in {0, 1},
         l - k = s - w * c,
         NEW a \in Word, NEW b \in Word, NEW r, IsDifference(r, a, b, c)
  PROVE  (l + w * a) - (k + w * b) = (s + w * r.value) - (w * M) * Carry(r.flags)
<1> DEFINE v == r.value
           d == Carry(r.flags)
<1>1. v \in Int /\ d \in Int /\ a - b - c = v - M * d /\ M \in Int /\ a \in Int /\ b \in Int
  BY Widths DEF IsDifference, Carry
<1> HIDE DEF v, d
<1>2. w * (a - b - c) = w * a - w * b - w * c
  BY <1>1
<1>3. w * (v - M * d) = w * v - (w * M) * d
  BY <1>1
<1>4. (l + w * a) - (k + w * b) = (s + w * v) - (w * M) * d
  BY <1>1, <1>2, <1>3
<1>5. QED
  BY <1>4 DEF v, d

\* Overflow, and the signed and unsigned order, of numbers of several words.
LEMMA SumOverflow ==
  ASSUME AluAssumption, NEW w \in Nat, w > 0,
         NEW l \in 0..(w - 1), NEW k \in 0..(w - 1), NEW s \in 0..(w - 1),
         NEW c \in {0, 1}, l + k = s + w * c,
         NEW a \in Word, NEW b \in Word, NEW r, IsSum(r, a, b, c)
  PROVE  "OVERFLOW" \in r.flags <=>
           ~Fits(Wide(l + w * a, w * M) + Wide(k + w * b, w * M), w * M)
<1> DEFINE x == Signed(a) + Signed(b) + c
<1>0. /\ a \in 0..(M - 1) /\ b \in 0..(M - 1) /\ r.value \in 0..(M - 1)
      /\ M = 2 * Half /\ Half \in Nat /\ Half > 0 /\ M \in Nat
      /\ Carry(r.flags) \in {0, 1} /\ r.value + M * Carry(r.flags) = a + b + c
  BY Widths DEF IsSum, Carry
<1>1. a \in Int /\ b \in Int /\ Signed(a) \in Int /\ Signed(b) \in Int /\ x \in Int
  <2>1. a \in Int /\ b \in Int /\ c \in Int /\ M \in Int
    BY <1>0
  <2>2. Signed(a) \in Int /\ Signed(b) \in Int
    BY <2>1 DEF Signed
  <2>3. QED
    BY <2>1, <2>2
<1>2. w * x = w * Signed(a) + w * Signed(b) + w * c
  BY <1>1
<1>3. Wide(l + w * a, w * M) + Wide(k + w * b, w * M) = s + w * x
  <2>1. Wide(l + w * a, w * M) = l + w * Signed(a)
    BY TopSign
  <2>2. Wide(k + w * b, w * M) = k + w * Signed(b)
    BY TopSign
  <2>3. w * Signed(a) \in Int /\ w * Signed(b) \in Int /\ w * c \in Int
    BY <1>1, Scale
  <2> HIDE DEF x
  <2>4. QED
    BY <1>2, <2>1, <2>2, <2>3
<1>4. Fits(s + w * x, w * M) <=> (-Half <= x /\ x < Half)
  BY <1>1, TopFits
<1>5. "OVERFLOW" \in r.flags <=> ~(-Half <= x /\ x < Half)
  <2>1. "OVERFLOW" \in r.flags <=>
          Negative(a) = Negative(b) /\ Negative(r.value) # Negative(a)
    BY DEF IsSum
  <2>2. CASE Carry(r.flags) = 0
    BY <1>0, <2>1, <2>2 DEF Signed, Negative
  <2>3. CASE Carry(r.flags) = 1
    BY <1>0, <2>1, <2>3 DEF Signed, Negative
  <2>4. QED
    BY <1>0, <2>2, <2>3
<1>6. QED
  BY <1>3, <1>4, <1>5

LEMMA DifferenceOrder ==
  ASSUME AluAssumption, NEW w \in Nat, w > 0,
         NEW l \in 0..(w - 1), NEW k \in 0..(w - 1), NEW s \in 0..(w - 1),
         NEW c \in {0, 1}, l - k = s - w * c,
         NEW a \in Word, NEW b \in Word, NEW r, IsDifference(r, a, b, c)
  PROVE  /\ "OVERFLOW" \in r.flags <=>
              ~Fits(Wide(l + w * a, w * M) - Wide(k + w * b, w * M), w * M)
         /\ ~("SIGN" \in r.flags <=> "OVERFLOW" \in r.flags) <=>
              Wide(l + w * a, w * M) < Wide(k + w * b, w * M)
<1> DEFINE d == Signed(a) - Signed(b) - c
           x == Wide(l + w * a, w * M)
           y == Wide(k + w * b, w * M)
<1>0. /\ a \in 0..(M - 1) /\ b \in 0..(M - 1) /\ r.value \in 0..(M - 1)
      /\ M = 2 * Half /\ Half \in Nat /\ Half > 0 /\ M \in Nat
      /\ Carry(r.flags) \in {0, 1} /\ a - b - c = r.value - M * Carry(r.flags)
  BY Widths DEF IsDifference, Carry
<1>1. a \in Int /\ b \in Int /\ Signed(a) \in Int /\ Signed(b) \in Int /\ d \in Int
  <2>1. a \in Int /\ b \in Int /\ c \in Int /\ M \in Int
    BY <1>0
  <2>2. Signed(a) \in Int /\ Signed(b) \in Int
    BY <2>1 DEF Signed
  <2>3. QED
    BY <2>1, <2>2
<1>2. w * d = w * Signed(a) - w * Signed(b) - w * c
  BY <1>1
<1>3. x - y = s + w * d /\ x \in Int /\ y \in Int
  <2>1. x = l + w * Signed(a)
    BY TopSign
  <2>2. y = k + w * Signed(b)
    BY TopSign
  <2>3. w * Signed(a) \in Int /\ w * Signed(b) \in Int /\ w * c \in Int
    BY <1>1, Scale
  <2> HIDE DEF d, x, y
  <2>4. QED
    BY <1>2, <2>1, <2>2, <2>3
<1>4. Fits(s + w * d, w * M) <=> (-Half <= d /\ d < Half)
  BY <1>1, TopFits
<1>5. (s + w * d >= w * 0) <=> (d >= 0)
  BY <1>1, Compare
<1>6. /\ "OVERFLOW" \in r.flags <=>
           Negative(a) # Negative(b) /\ Negative(r.value) # Negative(a)
      /\ "SIGN" \in r.flags <=> Negative(r.value)
  BY DEF IsDifference
<1>7. /\ "OVERFLOW" \in r.flags <=> ~(-Half <= d /\ d < Half)
      /\ ~("SIGN" \in r.flags <=> "OVERFLOW" \in r.flags) <=> d < 0
  <2>1. CASE Carry(r.flags) = 0
    BY <1>0, <1>6, <2>1 DEF Signed, Negative
  <2>2. CASE Carry(r.flags) = 1
    BY <1>0, <1>6, <2>2 DEF Signed, Negative
  <2>3. QED
    BY <1>0, <2>1, <2>2
<1>8. x < y <=> d < 0
  <2> HIDE DEF x, y, d
  <2>1. QED
    BY <1>1, <1>3, <1>5
<1>9. QED
  BY <1>3, <1>4, <1>7, <1>8

\* A less significant word of a number of whole words keeps the sign.
LEMMA LowWord ==
  ASSUME AluAssumption, NEW h \in Nat, h > 0, NEW l \in 0..(2 * h - 1), NEW a \in Word
  PROVE  Wide(l * M + a, (2 * h) * M) = M * Wide(l, 2 * h) + a
<1>0. M \in Nat /\ M > 0 /\ a \in 0..(M - 1)
  BY Widths
<1>1. l * M = M * l /\ M * l \in Int
      /\ M * h \in Int /\ (2 * h) * M = 2 * (M * h)
      /\ M * (l - 2 * h) = M * l - 2 * (M * h)
  BY <1>0
<1>2. (a + M * l >= M * h) <=> (l >= h)
  BY <1>0, Compare
<1>3. QED
  BY <1>0, <1>1, <1>2 DEF Wide

\* One more word of a number shifted to the right.
LEMMA HalfGrows ==
  ASSUME AluAssumption, NEW l \in Int, NEW s \in Int, NEW c \in Int, l = 2 * s + c,
         NEW a \in Int, NEW r \in Int, NEW d \in Int, a + M * c = 2 * r + d
  PROVE  /\ l * M + a = 2 * (s * M + r) + d
         /\ M * l + a = 2 * (M * s + r) + d
<1>1. M \in Nat /\ M * l = l * M /\ M * s = s * M /\ M * l \in Int /\ M * s \in Int
  <2>1. \A m, x \in Int : m * x = x * m /\ m * x \in Int
    OBVIOUS
  <2>2. M \in Nat /\ M \in Int
    BY Widths
  <2>3. QED  BY <2>1, <2>2
<1>2. M * (2 * s + c) = 2 * (M * s) + M * c /\ M * c \in Int
  BY <1>1
<1>3. QED
  BY <1>1, <1>2
-----------------------------------------------------------------------------
\* What makes the properties inductive: the carry that the next word takes in
\* relates the numbers made of the words so far, which are below their weight.
Binary  == {"add", "sub", "shl", "shr", "sar", "mul", "div"}
CarryIn == IF words = 0 THEN 0 ELSE Carry(flags)

Typed ==
  /\ flags \subseteq ArithFlag /\ words \in Nat /\ weight \in Nat /\ weight > 0
  /\ factor \in Word

NumbersTyped ==
  routine \in Binary =>
    /\ left \in 0..(weight - 1) /\ right \in 0..(weight - 1)
    /\ result \in 0..(weight - 1) /\ dx \in Word
    /\ IF words = 0 THEN weight = 1 ELSE \E h \in Nat : weight = 2 * h

CarryExact ==
  /\ routine = "add" => left + right = result + weight * CarryIn
  /\ routine = "sub" => left - right = result - weight * CarryIn
  /\ routine = "shl" => 2 * left = result + weight * CarryIn
  /\ routine = "shr" => left = 2 * result + CarryIn
  /\ routine = "sar" => SignedWide(left) = 2 * SignedWide(result) + CarryIn

WideInv == Typed /\ NumbersTyped /\ CarryExact /\ LongDivision
           /\ (routine = "div" => factor # 0)

\* The numbers keep their types as the routines advance.
LEMMA UpwardsTyped ==
  ASSUME WideAssumption, WideInv, routine \in Binary,
         NEW a \in Word, NEW b \in Word, NEW r \in Word, Upwards(a, b, r, M),
         flags' \subseteq ArithFlag, dx' \in Word
  PROVE  Typed' /\ NumbersTyped'
<1>1. M \in Nat /\ M > 0 /\ M = 2 * Half /\ Half \in Nat
      /\ a \in 0..(M - 1) /\ b \in 0..(M - 1) /\ r \in 0..(M - 1)
  BY Widths DEF WideAssumption
<1>2. weight \in Nat /\ weight > 0 /\ left \in 0..(weight - 1)
      /\ right \in 0..(weight - 1) /\ result \in 0..(weight - 1) /\ words \in Nat
      /\ factor \in Word
  BY DEF WideInv, Typed, NumbersTyped
<1>3. weight * M \in Nat /\ weight * M > 0
      /\ left + weight * a \in 0..(weight * M - 1)
      /\ right + weight * b \in 0..(weight * M - 1)
      /\ result + weight * r \in 0..(weight * M - 1)
  BY <1>1, <1>2, Grows
<1>4. weight * M = 2 * (weight * Half) /\ weight * Half \in Nat
  BY <1>1, <1>2
<1>5. words' # 0 /\ words' \in Nat
  BY <1>2 DEF Upwards
<1>6. QED
  BY <1>2, <1>3, <1>4, <1>5 DEF Upwards, Typed, NumbersTyped

LEMMA DownwardsTyped ==
  ASSUME WideAssumption, WideInv, routine \in Binary,
         NEW a \in Word, NEW r \in Word, Downwards(a, r),
         flags' \subseteq ArithFlag, dx' \in Word
  PROVE  Typed' /\ NumbersTyped'
<1>1. M \in Nat /\ M > 0 /\ M = 2 * Half /\ Half \in Nat
      /\ a \in 0..(M - 1) /\ r \in 0..(M - 1)
  BY Widths DEF WideAssumption
<1>2. weight \in Nat /\ weight > 0 /\ left \in 0..(weight - 1)
      /\ right \in 0..(weight - 1) /\ result \in 0..(weight - 1) /\ words \in Nat
      /\ factor \in Word
  BY DEF WideInv, Typed, NumbersTyped
<1>3. weight * M \in Nat /\ weight * M > 0 /\ weight <= weight * M
      /\ left * M + a \in 0..(weight * M - 1)
      /\ result * M + r \in 0..(weight * M - 1)
  BY <1>1, <1>2, Grows
<1>4. weight * M = 2 * (weight * Half) /\ weight * Half \in Nat
  BY <1>1, <1>2
<1>5. words' # 0 /\ words' \in Nat
  BY <1>2 DEF Downwards
<1>6. right \in 0..(weight * M - 1)
  BY <1>2, <1>3
<1>7. QED
  BY <1>2, <1>3, <1>4, <1>5, <1>6 DEF Downwards, Typed, NumbersTyped

LEMMA AddKeeps ==
  ASSUME WideAssumption, WideInv, NEW a \in Words, NEW b \in Words, AddWords(a, b)
  PROVE  WideInv' /\ JumpsDecide'
<1> DEFINE r == Sum(a, b)
<1>1. AluAssumption /\ a \in Word /\ b \in Word
  BY DEF WideAssumption
<1>2. IsSum(r, a, b, CarryIn)
  BY <1>1, AddExact, AdcExact DEF Sum, CarryIn
<1>3. routine = "add" /\ flags' = r.flags /\ Upwards(a, b, r.value, M)
      /\ dx' = dx /\ trapped' = trapped
  BY DEF AddWords, Runs
<1> HIDE DEF r
<1>4. r.value \in Word /\ r.flags \subseteq ArithFlag
  BY <1>2 DEF IsSum
<1>5. weight \in Nat /\ weight > 0 /\ left \in 0..(weight - 1)
      /\ right \in 0..(weight - 1) /\ result \in 0..(weight - 1) /\ words \in Nat
      /\ CarryIn \in {0, 1} /\ left + right = result + weight * CarryIn /\ dx \in Word
  BY <1>3 DEF WideInv, Typed, NumbersTyped, CarryExact, CarryIn, Carry, Binary
<1>6. Typed' /\ NumbersTyped'
  BY <1>1, <1>3, <1>4, <1>5, UpwardsTyped DEF Binary
<1>7. /\ left' = left + weight * a /\ right' = right + weight * b
      /\ result' = result + weight * r.value /\ weight' = weight * M
      /\ words' = words + 1 /\ words' # 0 /\ routine' = "add" /\ ready' = FALSE
  BY <1>3, <1>5 DEF Upwards
<1>8. left' + right' = result' + weight' * Carry(r.flags)
  BY <1>1, <1>2, <1>5, <1>7, SumGrows
<1>9. WideInv'
  BY <1>3, <1>6, <1>7, <1>8 DEF WideInv, CarryExact, CarryIn, LongDivision
<1>10. "OVERFLOW" \in r.flags <=>
         ~Fits(Wide(left', weight') + Wide(right', weight'), weight')
  <2>1. "OVERFLOW" \in r.flags <=>
          ~Fits(Wide(left + weight * a, weight * M)
                  + Wide(right + weight * b, weight * M), weight * M)
    BY <1>1, <1>2, <1>5, SumOverflow
  <2>2. QED
    BY <1>7, <2>1
<1>11. JumpsDecide'
  BY <1>3, <1>7, <1>10 DEF JumpsDecide, Jumps, Fits, Wide, InRange, SignedWide
<1>12. QED
  BY <1>9, <1>11

LEMMA JumpLess ==
  ASSUME NEW f
  PROVE  Jumps(f).JL <=> ~("SIGN" \in f <=> "OVERFLOW" \in f)
  BY DEF Jumps

\* The borrow, zero and the signed order of numbers below a weight.
LEMMA Borrow ==
  ASSUME NEW w \in Nat, NEW x \in 0..(w - 1), NEW y \in 0..(w - 1),
         NEW z \in 0..(w - 1), NEW c \in {0, 1}, x - y = z - w * c
  PROVE  /\ c = 1 <=> x < y
         /\ z = 0 <=> x = y
<1>1. CASE c = 0
  BY <1>1
<1>2. CASE c = 1
  BY <1>2
<1>3. QED
  BY <1>1, <1>2

LEMMA WideInjective ==
  ASSUME NEW w \in Nat, NEW x \in 0..(w - 1), NEW y \in 0..(w - 1)
  PROVE  /\ Wide(x, w) \in Int /\ Wide(y, w) \in Int
         /\ Wide(x, w) = Wide(y, w) <=> x = y
  BY DEF Wide

LEMMA DifferenceKeeps ==
  ASSUME WideAssumption, WideInv, routine = "sub",
         NEW a \in Word, NEW b \in Word, NEW r, IsDifference(r, a, b, CarryIn),
         flags' = r.flags, Upwards(a, b, r.value, M), dx' = dx, trapped' = trapped
  PROVE  WideInv' /\ JumpsDecide'
<1>1. AluAssumption
  BY DEF WideAssumption
<1>2. r.value \in Word /\ r.flags \subseteq ArithFlag
  BY DEF IsDifference
<1>3. weight \in Nat /\ weight > 0 /\ left \in 0..(weight - 1)
      /\ right \in 0..(weight - 1) /\ result \in 0..(weight - 1) /\ words \in Nat
      /\ CarryIn \in {0, 1} /\ left - right = result - weight * CarryIn /\ dx \in Word
      /\ (words = 0 => weight = 1)
  BY DEF WideInv, Typed, NumbersTyped, CarryExact, CarryIn, Carry, Binary
<1>4. Typed' /\ NumbersTyped'
  BY <1>2, <1>3, UpwardsTyped DEF Binary
<1>5. /\ left' = left + weight * a /\ right' = right + weight * b
      /\ result' = result + weight * r.value /\ weight' = weight * M
      /\ words' = words + 1 /\ words' # 0 /\ routine' = "sub" /\ ready' = FALSE
  BY <1>3 DEF Upwards
<1>6. left' - right' = result' - weight' * Carry(r.flags)
  BY <1>1, <1>3, <1>5, DifferenceGrows
<1>7. WideInv'
  BY <1>4, <1>5, <1>6 DEF WideInv, CarryExact, CarryIn, LongDivision
<1>8. /\ "OVERFLOW" \in r.flags <=>
            ~Fits(Wide(left', weight') - Wide(right', weight'), weight')
      /\ ~("SIGN" \in r.flags <=> "OVERFLOW" \in r.flags) <=>
            Wide(left', weight') < Wide(right', weight')
  <2>1. /\ "OVERFLOW" \in r.flags <=>
            ~Fits(Wide(left + weight * a, weight * M)
                    - Wide(right + weight * b, weight * M), weight * M)
        /\ ~("SIGN" \in r.flags <=> "OVERFLOW" \in r.flags) <=>
            Wide(left + weight * a, weight * M) < Wide(right + weight * b, weight * M)
    BY <1>1, <1>3, DifferenceOrder, ZenonT(30)
  <2>2. QED
    BY <1>5, <2>1
<1>9. left' \in 0..(weight' - 1) /\ right' \in 0..(weight' - 1)
      /\ result' \in 0..(weight' - 1) /\ weight' \in Nat
  BY <1>4, <1>5 DEF Typed, NumbersTyped, Binary
<1>10. "CARRY" \in r.flags <=> left' < right'
  <2>1. Carry(r.flags) \in {0, 1} /\ (Carry(r.flags) = 1 <=> "CARRY" \in r.flags)
    BY DEF Carry
  <2>2. Carry(r.flags) = 1 <=> left' < right'
    BY <1>6, <1>9, <2>1, Borrow
  <2>3. QED
    BY <2>1, <2>2
<1>11. words' = 1 => ("ZERO" \in r.flags <=> left' = right')
  <2>1. SUFFICES ASSUME words' = 1 PROVE "ZERO" \in r.flags <=> left' = right'
    OBVIOUS
  <2>2. words = 0
    BY <1>3, <1>5, <2>1
  <2>3. weight = 1 /\ M \in Nat /\ r.value \in Int
    BY <1>1, <1>2, <1>3, <2>2, Widths
  <2>4. result = 0
    BY <1>3, <2>3
  <2>5. result' = r.value
    BY <1>5, <2>3, <2>4
  <2>6. Carry(r.flags) \in {0, 1}
    BY DEF Carry
  <2>7. result' = 0 <=> left' = right'
    BY <1>6, <1>9, <2>6, Borrow
  <2>8. "ZERO" \in r.flags <=> r.value = 0
    BY DEF IsDifference
  <2>9. QED
    BY <2>5, <2>7, <2>8
<1>12. Wide(left', weight') = Wide(right', weight') <=> left' = right'
  BY <1>9, WideInjective
<1>13. /\ Wide(left', weight') \in Int /\ Wide(right', weight') \in Int
       /\ left' \in Int /\ right' \in Int
  <2>1. Wide(left', weight') \in Int /\ Wide(right', weight') \in Int
    BY <1>9, WideInjective
  <2>2. QED
    BY <1>9, <2>1
<1>14. /\ Wide(left', weight') = SignedWide(left)'
       /\ Wide(right', weight') = SignedWide(right)'
       /\ Fits(Wide(left', weight') - Wide(right', weight'), weight') <=>
            InRange(SignedWide(left) - SignedWide(right))'
  BY DEF Wide, SignedWide, Fits, InRange
<1>15. JumpsDecide'
  <2>1. Jumps(flags)'.JC <=> left' < right'
    BY <1>10 DEF Jumps
  <2>2. Jumps(flags)'.JL <=> SignedWide(left)' < SignedWide(right)'
    <3>1. Jumps(r.flags).JL <=> ~("SIGN" \in r.flags <=> "OVERFLOW" \in r.flags)
      BY JumpLess
    <3>2. QED
      BY <1>8, <1>14, <3>1
  <2>3. Jumps(flags)'.JO <=> ~InRange(SignedWide(left) - SignedWide(right))'
    BY <1>8, <1>14 DEF Jumps
  <2>4. words' = 1 => (Jumps(flags)'.JE <=> left' = right')
    BY <1>11 DEF Jumps
  <2>5. words' = 1 => (Jumps(flags)'.JBE <=> left' <= right')
    <3>1. Jumps(flags)'.JBE <=> ("CARRY" \in r.flags \/ "ZERO" \in r.flags)
      BY DEF Jumps
    <3>2. left' <= right' <=> (left' < right' \/ left' = right')
      BY <1>13
    <3>3. QED
      BY <1>10, <1>11, <3>1, <3>2
  <2>6. words' = 1 => (Jumps(flags)'.JLE <=> SignedWide(left)' <= SignedWide(right)')
    <3>1. Jumps(flags)'.JLE <=> Jumps(flags)'.JL \/ Jumps(flags)'.JE
      BY DEF Jumps
    <3>2. QED
      BY <1>12, <1>13, <1>14, <2>2, <2>4, <3>1
  <2>7. QED
    BY <1>5, <2>1, <2>2, <2>3, <2>4, <2>5, <2>6 DEF JumpsDecide
<1>16. QED
  BY <1>7, <1>15

LEMMA SubKeeps ==
  ASSUME WideAssumption, WideInv, NEW a \in Words, NEW b \in Words,
         SubWords(a, b) \/ NegWord(b)
  PROVE  WideInv' /\ JumpsDecide'
<1>1. AluAssumption /\ a \in Word /\ b \in Word /\ 0 \in Word
  BY Widths DEF WideAssumption
<1>2. CASE SubWords(a, b)
  <2>1. IsDifference(Difference(a, b), a, b, CarryIn)
    BY <1>1, SubExact, SbbExact DEF Difference, CarryIn
  <2>2. QED
    BY <1>1, <1>2, <2>1, DifferenceKeeps DEF SubWords, Runs
<1>3. CASE NegWord(b)
  <2>1. IsDifference(NEG(b), 0, b, CarryIn)
    BY <1>1, <1>3, NegExact DEF NegWord, CarryIn
  <2>2. QED
    BY <1>1, <1>3, <2>1, DifferenceKeeps DEF NegWord, Runs
<1>4. QED
  BY <1>2, <1>3

LEMMA WordInt == ASSUME AluAssumption, NEW x \in Word PROVE x \in Int
  BY Widths

LEMMA CarryInt == ASSUME NEW f PROVE Carry(f) \in Int
  BY DEF Carry

LEMMA ShlKeeps ==
  ASSUME WideAssumption, WideInv, NEW a \in Words, ShlWord(a)
  PROVE  WideInv' /\ JumpsDecide'
<1> DEFINE r == IF words = 0 THEN SHL(flags, a, 1) ELSE RCL(flags, a, 1)
<1>1. AluAssumption /\ a \in Word /\ 0 \in Word /\ flags \subseteq ArithFlag
  BY Widths DEF WideAssumption, WideInv, Typed
<1>2. r.value \in Word /\ r.flags \subseteq ArithFlag
      /\ 2 * a + CarryIn = r.value + M * Carry(r.flags)
  <2>1. CASE words = 0
    <3>1. SHL(flags, a, 1).value \in Word /\ SHL(flags, a, 1).flags \subseteq ArithFlag
          /\ 2 * a = SHL(flags, a, 1).value + M * Carry(SHL(flags, a, 1).flags)
      BY <1>1, ShlExact
    <3>2. 2 * a + 0 = 2 * a
      BY <1>1, Widths
    <3>3. QED
      BY <2>1, <3>1, <3>2 DEF CarryIn
  <2>2. CASE words # 0
    <3>1. RCL(flags, a, 1).value \in Word /\ RCL(flags, a, 1).flags \subseteq ArithFlag
          /\ 2 * a + Carry(flags)
               = RCL(flags, a, 1).value + M * Carry(RCL(flags, a, 1).flags)
      BY <1>1, ShlExact
    <3>2. QED
      BY <2>2, <3>1 DEF CarryIn
  <2>3. QED
    BY <2>1, <2>2
<1>3. routine = "shl" /\ flags' = r.flags /\ Upwards(a, 0, r.value, M)
      /\ dx' = dx /\ trapped' = trapped
  BY DEF ShlWord, Runs
<1> HIDE DEF r
<1>4. weight \in Nat /\ weight > 0 /\ left \in 0..(weight - 1)
      /\ right \in 0..(weight - 1) /\ result \in 0..(weight - 1) /\ words \in Nat
      /\ CarryIn \in {0, 1} /\ 2 * left = result + weight * CarryIn /\ dx \in Word
  BY <1>3 DEF WideInv, Typed, NumbersTyped, CarryExact, CarryIn, Carry, Binary
<1>5. Typed' /\ NumbersTyped'
  BY <1>1, <1>2, <1>3, <1>4, UpwardsTyped DEF Binary
<1>6. /\ left' = left + weight * a /\ result' = result + weight * r.value
      /\ weight' = weight * M /\ words' # 0 /\ routine' = "shl"
  BY <1>3, <1>4 DEF Upwards
<1>7. 2 * left' = result' + weight' * Carry(r.flags)
  <2> DEFINE v == r.value
             d == Carry(r.flags)
             c == CarryIn
  <2>1. v \in Int /\ d \in Int /\ a \in Int /\ M \in Int /\ 2 * a + c = v + M * d
        /\ c \in Int /\ 2 * left = result + weight * c
    <3>1. a \in Int /\ M \in Int /\ v \in Int
      BY <1>1, <1>2, Widths
    <3>2. d \in Int
      BY DEF Carry
    <3>3. c \in Int /\ 2 * left = result + weight * c
      BY <1>4
    <3>4. QED  BY <1>2, <3>1, <3>2, <3>3
  <2> HIDE DEF v, d, c
  <2>2. weight * (2 * a + c) = 2 * (weight * a) + weight * c
        /\ weight * (v + M * d) = weight * v + (weight * M) * d
        /\ 2 * (left + weight * a) = 2 * left + 2 * (weight * a)
    BY <1>4, <2>1
  <2>3. 2 * (left + weight * a) = (result + weight * v) + (weight * M) * d
    BY <1>4, <2>1, <2>2
  <2>4. QED
    BY <1>6, <2>3 DEF v, d
<1>8. WideInv' /\ JumpsDecide'
  BY <1>3, <1>5, <1>6, <1>7 DEF WideInv, CarryExact, CarryIn, LongDivision, JumpsDecide
<1>9. QED
  BY <1>8

LEMMA ShrKeeps ==
  ASSUME WideAssumption, WideInv, NEW a \in Words, ShrWord(a)
  PROVE  WideInv' /\ JumpsDecide'
<1> DEFINE r == IF words = 0 THEN SHR(flags, a, 1) ELSE RCR(flags, a, 1)
<1>1. AluAssumption /\ a \in Word /\ flags \subseteq ArithFlag
  BY DEF WideAssumption, WideInv, Typed
<1>2. r.value \in Word /\ r.flags \subseteq ArithFlag
      /\ a + M * CarryIn = 2 * r.value + Carry(r.flags)
  <2>1. CASE words = 0
    <3>1. SHR(flags, a, 1).value \in Word /\ SHR(flags, a, 1).flags \subseteq ArithFlag
          /\ a = 2 * SHR(flags, a, 1).value + Carry(SHR(flags, a, 1).flags)
      BY <1>1, ShrExact
    <3>2. a + M * 0 = a
      BY <1>1, Widths
    <3>3. QED
      BY <2>1, <3>1, <3>2 DEF CarryIn
  <2>2. CASE words # 0
    <3>1. RCR(flags, a, 1).value \in Word /\ RCR(flags, a, 1).flags \subseteq ArithFlag
          /\ a + M * Carry(flags)
               = 2 * RCR(flags, a, 1).value + Carry(RCR(flags, a, 1).flags)
      BY <1>1, ShrExact
    <3>2. QED
      BY <2>2, <3>1 DEF CarryIn
  <2>3. QED
    BY <2>1, <2>2
<1>3. routine = "shr" /\ flags' = r.flags /\ Downwards(a, r.value)
      /\ dx' = dx /\ trapped' = trapped
  BY DEF ShrWord, Runs
<1> HIDE DEF r
<1>4. left \in Int /\ result \in Int /\ words \in Nat /\ CarryIn \in {0, 1}
      /\ left = 2 * result + CarryIn /\ dx \in Word
  BY <1>3 DEF WideInv, Typed, NumbersTyped, CarryExact, CarryIn, Carry, Binary
<1>5. Typed' /\ NumbersTyped'
  BY <1>1, <1>2, <1>3, <1>4, DownwardsTyped DEF Binary
<1>6. /\ left' = left * M + a /\ result' = result * M + r.value
      /\ words' # 0 /\ routine' = "shr"
  BY <1>3, <1>4 DEF Downwards
<1>7. left * M + a = 2 * (result * M + r.value) + Carry(r.flags)
  <2>1. a \in Int /\ r.value \in Int /\ Carry(r.flags) \in Int /\ CarryIn \in Int
    BY <1>1, <1>2, <1>4, WordInt, CarryInt
  <2>2. QED
    BY <1>1, <1>2, <1>4, <2>1, HalfGrows
<1>8. WideInv' /\ JumpsDecide'
  BY <1>3, <1>5, <1>6, <1>7 DEF WideInv, CarryExact, CarryIn, LongDivision, JumpsDecide
<1>9. QED
  BY <1>8

LEMMA SarKeeps ==
  ASSUME WideAssumption, WideInv, NEW a \in Words, SarWord(a)
  PROVE  WideInv' /\ JumpsDecide'
<1> DEFINE r == IF words = 0 THEN SAR(flags, a, 1) ELSE RCR(flags, a, 1)
<1>1. AluAssumption /\ a \in Word /\ flags \subseteq ArithFlag
  BY DEF WideAssumption, WideInv, Typed
<1>2. r.value \in Word /\ r.flags \subseteq ArithFlag
      /\ (IF words = 0 THEN Signed(a) = 2 * Signed(r.value) + Carry(r.flags)
          ELSE a + M * CarryIn = 2 * r.value + Carry(r.flags))
  <2>1. CASE words = 0
    BY <1>1, <2>1, ShrExact
  <2>2. CASE words # 0
    <3>1. RCR(flags, a, 1).value \in Word /\ RCR(flags, a, 1).flags \subseteq ArithFlag
          /\ a + M * Carry(flags)
               = 2 * RCR(flags, a, 1).value + Carry(RCR(flags, a, 1).flags)
      BY <1>1, ShrExact
    <3>2. QED
      BY <2>2, <3>1 DEF CarryIn
  <2>3. QED
    BY <2>1, <2>2
<1>3. routine = "sar" /\ flags' = r.flags /\ Downwards(a, r.value)
      /\ dx' = dx /\ trapped' = trapped
  BY DEF SarWord, Runs
<1> HIDE DEF r
<1>4. weight \in Nat /\ weight > 0 /\ left \in 0..(weight - 1)
      /\ result \in 0..(weight - 1) /\ words \in Nat /\ CarryIn \in {0, 1} /\ dx \in Word
      /\ (IF words = 0 THEN weight = 1 ELSE \E h \in Nat : weight = 2 * h)
      /\ Wide(left, weight) = 2 * Wide(result, weight) + CarryIn
  BY <1>3 DEF WideInv, Typed, NumbersTyped, CarryExact, CarryIn, Carry, Binary,
              SignedWide, Wide
<1>5. Typed' /\ NumbersTyped'
  BY <1>1, <1>2, <1>3, <1>4, DownwardsTyped DEF Binary
<1>6. /\ left' = left * M + a /\ result' = result * M + r.value
      /\ weight' = weight * M /\ words' # 0 /\ routine' = "sar"
  BY <1>3, <1>4 DEF Downwards
<1>7. Wide(left * M + a, weight * M)
        = 2 * Wide(result * M + r.value, weight * M) + Carry(r.flags)
  <2>1. CASE words = 0
    <3>1. weight = 1 /\ left = 0 /\ result = 0
      BY <1>4, <2>1
    <3>2. a \in 0..(M - 1) /\ r.value \in 0..(M - 1) /\ M = 2 * Half /\ Half \in Nat
      BY <1>1, <1>2, Widths
    <3>3. left * M + a = a /\ result * M + r.value = r.value /\ weight * M = M
      BY <3>1, <3>2
    <3>4. Wide(a, M) = Signed(a) /\ Wide(r.value, M) = Signed(r.value)
      BY <3>2 DEF Wide, Signed, Negative
    <3>5. QED
      BY <1>2, <2>1, <3>3, <3>4
  <2>2. CASE words # 0
    <3>1. PICK h \in Nat : weight = 2 * h
      BY <1>4, <2>2
    <3>2. h > 0 /\ left \in 0..(2 * h - 1) /\ result \in 0..(2 * h - 1)
      BY <1>4, <3>1
    <3>3. Wide(left * M + a, weight * M) = M * Wide(left, weight) + a
      BY <1>1, <3>1, <3>2, LowWord
    <3>4. Wide(result * M + r.value, weight * M) = M * Wide(result, weight) + r.value
      BY <1>1, <1>2, <3>1, <3>2, LowWord
    <3>5. a \in Int /\ r.value \in Int /\ Carry(r.flags) \in Int /\ CarryIn \in Int
      BY <1>1, <1>2, <1>4, WordInt, CarryInt
    <3>6. Wide(left, weight) \in Int /\ Wide(result, weight) \in Int
      BY <1>4, WideInjective
    <3>7. M * Wide(left, weight) + a
            = 2 * (M * Wide(result, weight) + r.value) + Carry(r.flags)
      <4> DEFINE x == Wide(left, weight)
                 y == Wide(result, weight)
                 v == r.value
                 d == Carry(r.flags)
      <4>1. x \in Int /\ y \in Int /\ v \in Int /\ d \in Int /\ x = 2 * y + CarryIn
            /\ a + M * CarryIn = 2 * v + d
        BY <1>2, <1>4, <2>2, <3>5, <3>6
      <4> HIDE DEF x, y, v, d
      <4>2. M * x + a = 2 * (M * y + v) + d
        BY <1>1, <3>5, <4>1, HalfGrows
      <4>3. QED
        BY <4>2 DEF x, y, v, d
    <3>8. QED
      BY <3>3, <3>4, <3>7
  <2>3. QED
    BY <2>1, <2>2
<1>8. SignedWide(left)' = 2 * SignedWide(result)' + Carry(r.flags)
  BY <1>6, <1>7 DEF SignedWide, Wide
<1>9. WideInv' /\ JumpsDecide'
  BY <1>3, <1>5, <1>6, <1>8 DEF WideInv, CarryExact, CarryIn, LongDivision, JumpsDecide
<1>10. QED
  BY <1>9

\* The high half of a product, and the carry out of its low half, fit in a word.
LEMMA MulStep ==
  ASSUME AluAssumption, NEW a \in Word, NEW v \in Word, NEW d \in Word, NEW s, NEW h,
         s = ADD(MUL(a, v).value, d), h = ADC(s.flags, MUL(a, v).high, 0)
  PROVE  /\ s.value \in Word /\ h.value \in Word /\ h.flags \subseteq ArithFlag
         /\ a * v + d = s.value + M * h.value
<1>0. M \in Nat /\ M > 0 /\ a \in 0..(M - 1) /\ v \in 0..(M - 1) /\ d \in 0..(M - 1)
      /\ 0 \in Word
  BY Widths
<1> DEFINE p == MUL(a, v).value
           q == MUL(a, v).high
           x == s.value
           y == h.value
           i == Carry(s.flags)
           j == Carry(h.flags)
<1>1. p \in Word /\ q \in Word /\ p + M * q = a * v
  BY MulExact
<1>2. IsSum(s, p, d, 0)
  BY <1>1, AddExact
<1>3. IsSum(h, q, 0, i)
  BY <1>0, <1>1, AdcExact
<1>4. x \in Word /\ x + M * i = p + d + 0
  BY <1>2 DEF IsSum
<1>5. y \in Word /\ h.flags \subseteq ArithFlag /\ y + M * j = q + 0 + i
  BY <1>3 DEF IsSum
<1>6. i \in {0, 1} /\ j \in {0, 1}
  BY DEF Carry
<1> HIDE DEF p, q, x, y, i, j
<1>7. p \in Int /\ q \in Int /\ x \in 0..(M - 1) /\ y \in 0..(M - 1)
  <2>1. Word = 0..(M - 1)
    BY Widths
  <2>2. QED
    BY <1>0, <1>1, <1>4, <1>5, <2>1
<1>8. a * v + d < M * M
  <2>1. a * v <= a * (M - 1) /\ a * (M - 1) <= (M - 1) * (M - 1)
    BY <1>0
  <2>2. (M - 1) * (M - 1) = M * M - 2 * M + 1
    BY <1>0
  <2>3. QED
    BY <1>0, <2>1, <2>2
<1>9. j = 0
  <2>1. SUFFICES ASSUME j = 1 PROVE FALSE
    BY <1>6
  <2>2. M * (y + M) = M * (q + i)
    BY <1>5, <1>7, <1>6, <1>0, <2>1
  <2>3. M * (y + M) = M * y + M * M /\ M * (q + i) = M * q + M * i /\ M * y >= 0
    BY <1>7, <1>6, <1>0
  <2>4. QED
    BY <1>0, <1>1, <1>4, <1>6, <1>7, <1>8, <2>2, <2>3
<1>10. a * v + d = x + M * y
  <2>1. y = q + i
    BY <1>0, <1>5, <1>6, <1>7, <1>9
  <2>2. M * y = M * q + M * i
    BY <1>0, <1>6, <1>7, <2>1
  <2>3. QED
    BY <1>0, <1>1, <1>4, <1>6, <1>7, <2>2
<1>11. QED
  BY <1>4, <1>5, <1>10 DEF x, y

LEMMA MulKeeps ==
  ASSUME WideAssumption, WideInv, NEW a \in Words, MulWord(a)
  PROVE  WideInv' /\ JumpsDecide'
<1> DEFINE s == ADD(MUL(a, factor).value, dx)
           h == ADC(s.flags, MUL(a, factor).high, 0)
<1>1. routine = "mul" /\ flags' = h.flags /\ dx' = h.value
      /\ left' = left + weight * a /\ result' = result + weight * s.value
      /\ weight' = weight * M /\ words' = words + 1 /\ ready' = FALSE
      /\ UNCHANGED <<routine, factor, right, trapped>>
  BY DEF MulWord, Runs
<1>2. weight \in Nat /\ weight > 0 /\ left \in 0..(weight - 1)
      /\ right \in 0..(weight - 1) /\ result \in 0..(weight - 1) /\ words \in Nat
      /\ factor \in Word /\ dx \in Word /\ left * factor = result + weight * dx
  BY <1>1 DEF WideInv, Typed, NumbersTyped, LongDivision, Binary
<1>3. AluAssumption /\ a \in Word /\ 0 \in Word
  BY Widths DEF WideAssumption
<1>4. s.value \in Word /\ h.value \in Word /\ h.flags \subseteq ArithFlag
      /\ a * factor + dx = s.value + M * h.value
  BY <1>2, <1>3, MulStep
<1> HIDE DEF s, h
<1>5. Upwards(a, 0, s.value, M)
  <2>1. right' = right + weight * 0
    BY <1>1, <1>2
  <2>2. QED
    BY <1>1, <2>1 DEF Upwards
<1>6. Typed' /\ NumbersTyped'
  BY <1>1, <1>3, <1>4, <1>5, UpwardsTyped DEF Binary
<1>7. (left + weight * a) * factor = (result + weight * s.value) + (weight * M) * h.value
  <2> DEFINE x == s.value
             y == h.value
  <2>1. x \in Int /\ y \in Int /\ M \in Int /\ a \in Int /\ factor \in Int /\ dx \in Int
        /\ a * factor + dx = x + M * y
    <3>1. M \in Int
      BY <1>3, Widths
    <3>2. QED
      BY <1>2, <1>3, <1>4, <3>1, WordInt
  <2> HIDE DEF x, y
  <2>2. weight * (a * factor + dx) = (weight * a) * factor + weight * dx
        /\ weight * (x + M * y) = weight * x + (weight * M) * y
        /\ (left + weight * a) * factor = left * factor + (weight * a) * factor
    BY <1>2, <2>1
  <2>3. (left + weight * a) * factor = (result + weight * x) + (weight * M) * y
    BY <1>2, <2>1, <2>2
  <2>4. QED
    BY <2>3 DEF x, y
<1>8. WideInv' /\ JumpsDecide'
  BY <1>1, <1>6, <1>7 DEF WideInv, CarryExact, LongDivision, JumpsDecide
<1>9. QED
  BY <1>8

LEMMA DivKeeps ==
  ASSUME WideAssumption, WideInv, NEW a \in Words, DivWord(a)
  PROVE  WideInv' /\ JumpsDecide'
<1> DEFINE q == DIV(dx, a, factor)
<1>1. routine = "div" /\ flags' = flags /\ dx' = q.high /\ trapped' = q.trap
      /\ Downwards(a, q.value)
  BY DEF DivWord, Runs
<1>2. left \in Int /\ result \in Int /\ words \in Nat
      /\ factor \in Word /\ dx \in Word /\ left = result * factor + dx /\ dx < factor
      /\ factor # 0 /\ flags \subseteq ArithFlag
  BY <1>1 DEF WideInv, Typed, NumbersTyped, LongDivision, Binary
<1>3. AluAssumption /\ a \in Word
  BY DEF WideAssumption
<1>4. ~q.trap /\ q.value \in Word /\ q.high \in Word /\ q.high < factor
      /\ dx * M + a = q.value * factor + q.high
  BY <1>2, <1>3, DivExact
<1> HIDE DEF q
<1>5. Typed' /\ NumbersTyped'
  BY <1>1, <1>2, <1>3, <1>4, DownwardsTyped DEF Binary
<1>6. left' = left * M + a /\ result' = result * M + q.value /\ routine' = "div"
      /\ factor' = factor /\ words' # 0
  BY <1>1, <1>2 DEF Downwards
<1>7. left * M + a = (result * M + q.value) * factor + q.high
  <2> DEFINE x == q.value
             y == q.high
  <2>1. x \in Int /\ y \in Int /\ M \in Int /\ a \in Int /\ factor \in Int /\ dx \in Int
        /\ dx * M + a = x * factor + y
    <3>1. M \in Int
      BY <1>3, Widths
    <3>2. QED
      BY <1>2, <1>3, <1>4, <3>1, WordInt
  <2> HIDE DEF x, y
  <2>2. (result * factor + dx) * M = (result * M) * factor + dx * M
        /\ (result * M + x) * factor = (result * M) * factor + x * factor
    BY <1>2, <2>1
  <2>3. left * M + a = (result * M + x) * factor + y
    BY <1>2, <2>1, <2>2
  <2>4. QED
    BY <2>3 DEF x, y
<1>8. ~trapped'
  BY <1>1, <1>4
<1>9. LongDivision'
  BY <1>1, <1>4, <1>6, <1>7, <1>8 DEF LongDivision
<1>10. WideInv' /\ JumpsDecide'
  BY <1>2, <1>5, <1>6, <1>9 DEF WideInv, CarryExact, JumpsDecide
<1>11. QED
  BY <1>10
-----------------------------------------------------------------------------
\* The other routines only have to keep the types.
LEMMA OthersKeep ==
  ASSUME Typed, routine \notin Binary, routine' = routine, factor' = factor,
         flags' \subseteq ArithFlag, words' \in Nat, weight' \in Nat, weight' > 0
  PROVE  WideInv' /\ JumpsDecide'
  BY DEF WideInv, Typed, NumbersTyped, CarryExact, LongDivision, JumpsDecide, Binary

LEMMA AdjustedFlags ==
  ASSUME NEW f, NEW al, NEW sign
  PROVE  Adjusted(f, al, sign).flags \subseteq ArithFlag
  BY DEF Adjusted, Psz, When, ArithFlag

LEMMA AsciiFlags ==
  ASSUME NEW f, f \subseteq ArithFlag, NEW ah, NEW al, NEW dir
  PROVE  ASCII(f, ah, al, dir).flags \subseteq ArithFlag
  BY DEF ASCII, ArithFlag

LEMMA DecimalKeeps ==
  ASSUME Typed, flags \subseteq ArithFlag, NEW a, NEW b,
         AddPacked(a, b) \/ SubPacked(a, b)
  PROVE  WideInv' /\ JumpsDecide'
<1>1. routine \notin Binary /\ routine' = routine /\ factor' = factor
      /\ words' = words + 1 /\ weight' = weight * 100 /\ flags' \subseteq ArithFlag
  BY AdjustedFlags DEF AddPacked, SubPacked, Runs, Upwards, DAA, DAS, Binary
<1>2. words' \in Nat /\ weight' \in Nat /\ weight' > 0
  BY <1>1 DEF Typed
<1>3. QED
  BY <1>1, <1>2, OthersKeep

LEMMA DigitsKeep ==
  ASSUME Typed, NEW a, NEW b, AddDigits(a, b) \/ SubDigits(a, b)
  PROVE  WideInv' /\ JumpsDecide'
<1>1. Sum(a, b).flags \subseteq ArithFlag /\ Difference(a, b).flags \subseteq ArithFlag
  BY DEF Sum, Difference, ADD, ADC, SUB, SBB, Added, Subtracted, Psz, When, ArithFlag
<1>2. routine \notin Binary /\ routine' = routine /\ factor' = factor
      /\ words' = words + 1 /\ weight' = weight * 10
  BY DEF AddDigits, SubDigits, Runs, Upwards, Binary
<1>3. flags' \subseteq ArithFlag
  BY <1>1, AsciiFlags DEF AddDigits, SubDigits
<1>4. words' \in Nat /\ weight' \in Nat /\ weight' > 0
  BY <1>2 DEF Typed
<1>5. QED
  BY <1>2, <1>3, <1>4, OthersKeep

LEMMA SignedKeep ==
  ASSUME WideAssumption, Typed, NEW a, NEW b, ImulWord(a, b) \/ IdivWord
  PROVE  WideInv' /\ JumpsDecide'
<1>1. IMUL(a, b).flags \subseteq ArithFlag
  BY DEF IMUL, Product, Psz, When, ArithFlag
<1>2. routine \notin Binary /\ routine' = routine /\ factor' = factor
      /\ flags' \subseteq ArithFlag
  BY <1>1 DEF ImulWord, IdivWord, Runs, Upwards, Binary, Typed
<1>3. words' \in Nat /\ weight' \in {weight, weight * M}
  <2>1. CASE ImulWord(a, b)
    <3>1. words' = words + 1 /\ weight' = weight * M
      BY <2>1 DEF ImulWord, Upwards
    <3>2. QED
      BY <3>1 DEF Typed
  <2>2. CASE IdivWord
    BY <2>2 DEF IdivWord
  <2>3. QED
    BY <2>1, <2>2
<1>4. weight' \in Nat /\ weight' > 0
  BY <1>3, Widths DEF WideAssumption, Typed
<1>5. QED
  BY <1>2, <1>3, <1>4, OthersKeep

LEMMA AdvanceKeeps ==
  ASSUME WideInv, NEW p, Advance(p)
  PROVE  WideInv' /\ JumpsDecide'
<1>1. flags \subseteq ArithFlag
  BY DEF WideInv, Typed
<1>2. flags' \subseteq ArithFlag /\ Carry(flags') = Carry(flags)
  BY <1>1, PointersKeepCarry DEF Advance
<1>3. ready' = TRUE
      /\ UNCHANGED <<routine, factor, dx, words, weight, left, right, result, trapped>>
  BY DEF Advance
<1>4. CarryIn' = CarryIn
  BY <1>2, <1>3 DEF CarryIn
<1>5. Typed' /\ NumbersTyped' /\ LongDivision'
  BY <1>2, <1>3 DEF WideInv, Typed, NumbersTyped, LongDivision
<1>6. CarryExact'
  BY <1>3, <1>4 DEF WideInv, CarryExact, SignedWide
<1>7. QED
  BY <1>3, <1>5, <1>6 DEF WideInv, JumpsDecide

LEMMA ZeroTimes == ASSUME NEW x \in Nat PROVE 0 * x = 0
  OBVIOUS

LEMMA StartKeeps ==
  ASSUME WideAssumption, WideInv, Start
  PROVE  WideInv' /\ JumpsDecide'
<1>1. /\ dx' = 0 /\ words' = 0 /\ weight' = 1 /\ left' = 0 /\ right' = 0 /\ result' = 0
      /\ trapped' = FALSE /\ flags' = flags /\ CarryIn' = 0
      /\ (routine' = "div" => factor' # 0)
  BY DEF Start, CarryIn
<1>2. factor' \in Word /\ 0 \in Word
  <2>1. 0 \in Word
    BY Widths DEF WideAssumption
  <2>2. QED
    BY <2>1 DEF Start, WideAssumption
<1>3. factor' \in Nat
  BY <1>2, Widths DEF WideAssumption
<1>4. Typed' /\ NumbersTyped'
  BY <1>1, <1>2 DEF WideInv, Typed, NumbersTyped
<1>5. SignedWide(left)' = 0 /\ SignedWide(result)' = 0
  BY <1>1 DEF SignedWide
<1>6. CarryExact'
  BY <1>1, <1>5 DEF CarryExact
<1>7. LongDivision'
  <2>1. 0 * factor' = 0
    BY <1>3, ZeroTimes
  <2>2. routine' = "div" => 0 < factor'
    BY <1>1, <1>3
  <2>3. QED
    BY <1>1, <2>1, <2>2 DEF LongDivision
<1>8. JumpsDecide'
  BY <1>1 DEF JumpsDecide
<1>9. QED
  BY <1>1, <1>4, <1>6, <1>7, <1>8 DEF WideInv
-----------------------------------------------------------------------------
\* The inductive invariant, and the jumps after each word.
LEMMA WideSafe ==
  ASSUME WideAssumption PROVE WideSpec => [](WideInv /\ JumpsDecide)
<1>1. WideInit => WideInv /\ JumpsDecide
  <2> SUFFICES ASSUME WideInit PROVE WideInv /\ JumpsDecide
    OBVIOUS
  <2>1. 0 \in Word
    BY Widths DEF WideAssumption
  <2>2. QED
    BY <2>1 DEF WideInit, WideInv, Typed, NumbersTyped, CarryExact, LongDivision,
                JumpsDecide, Binary
<1>2. WideInv /\ JumpsDecide /\ [WideNext]_wideVars => WideInv' /\ JumpsDecide'
  <2> SUFFICES ASSUME WideInv, JumpsDecide, [WideNext]_wideVars
               PROVE  WideInv' /\ JumpsDecide'
    OBVIOUS
  <2>0. Typed /\ flags \subseteq ArithFlag
    BY DEF WideInv, Typed
  <2>1. ASSUME NEW a \in Words, NEW b \in Words, AddWords(a, b)
        PROVE  WideInv' /\ JumpsDecide'
    BY <2>1, AddKeeps
  <2>2. ASSUME NEW a \in Words, NEW b \in Words, SubWords(a, b) \/ NegWord(b)
        PROVE  WideInv' /\ JumpsDecide'
    BY <2>2, SubKeeps
  <2>3. ASSUME NEW a \in Words, MulWord(a) PROVE WideInv' /\ JumpsDecide'
    BY <2>3, MulKeeps
  <2>4. ASSUME NEW a \in Words, DivWord(a) PROVE WideInv' /\ JumpsDecide'
    BY <2>4, DivKeeps
  <2>5. ASSUME NEW a \in Words, ShlWord(a) PROVE WideInv' /\ JumpsDecide'
    BY <2>5, ShlKeeps
  <2>6. ASSUME NEW a \in Words, ShrWord(a) PROVE WideInv' /\ JumpsDecide'
    BY <2>6, ShrKeeps
  <2>7. ASSUME NEW a \in Words, SarWord(a) PROVE WideInv' /\ JumpsDecide'
    BY <2>7, SarKeeps
  <2>8. ASSUME NEW a, NEW b, AddPacked(a, b) \/ SubPacked(a, b)
        PROVE  WideInv' /\ JumpsDecide'
    BY <2>0, <2>8, DecimalKeeps
  <2>9. ASSUME NEW a, NEW b, AddDigits(a, b) \/ SubDigits(a, b)
        PROVE  WideInv' /\ JumpsDecide'
    BY <2>0, <2>9, DigitsKeep
  <2>10. ASSUME NEW a, NEW b, ImulWord(a, b) \/ IdivWord
         PROVE  WideInv' /\ JumpsDecide'
    BY <2>0, <2>10, SignedKeep
  <2>11. ASSUME NEW p, Advance(p) PROVE WideInv' /\ JumpsDecide'
    BY <2>11, AdvanceKeeps
  <2>12. CASE Start
    BY <2>12, StartKeeps
  <2>13. CASE UNCHANGED wideVars
    <3>1. Typed' /\ NumbersTyped' /\ LongDivision'
      BY <2>13 DEF wideVars, WideInv, Typed, NumbersTyped, LongDivision
    <3>2. CarryExact'
      BY <2>13 DEF wideVars, WideInv, CarryExact, CarryIn, SignedWide
    <3>3. JumpsDecide'
      BY <2>13 DEF wideVars, JumpsDecide, SignedWide, InRange
    <3>4. QED
      BY <2>13, <3>1, <3>2, <3>3 DEF WideInv, wideVars
  <2>14. QED
    BY <2>1, <2>2, <2>3, <2>4, <2>5, <2>6, <2>7, <2>8, <2>9, <2>10, <2>11, <2>12, <2>13
       DEF WideNext, WordNext
<1>3. QED
  BY <1>1, <1>2, PTL DEF WideSpec

\* Sums, differences and shifts of numbers of any length and width are exact
\* (alu.odin:90, 119, 268-304, 596-683).
THEOREM WideNumbersExact ==
  ASSUME WideAssumption PROVE WideSpec => []WideExact
<1>1. WideInv => WideExact
  BY DEF WideInv, CarryExact, CarryIn, WideExact
<1>2. QED
  BY <1>1, WideSafe, PTL

\* The conditional jumps decide the order of numbers of any length and width
\* (alu.odin:88, 117; 8086.odin:478-640).
THEOREM WideJumpsDecide ==
  ASSUME WideAssumption PROVE WideSpec => []JumpsDecide
  BY WideSafe, PTL

\* Products and divisions of numbers of any length and width are exact, and the
\* divisions never raise interrupt 0 (alu.odin:325-349, 393-439).
THEOREM WideDivision ==
  ASSUME WideAssumption PROVE WideSpec => []LongDivision
<1>1. WideInv => LongDivision
  BY DEF WideInv
<1>2. QED
  BY <1>1, WideSafe, PTL
-----------------------------------------------------------------------------
(* Decimals, in bytes. *)

\* What an adjusted sum or difference promises of a digit, or of two, of a base.
IsDigitSum(v, f, a, b, c, base) ==
  /\ v \in 0..(base - 1) /\ f \subseteq ArithFlag
  /\ v + base * Carry(f) = a + b + c
IsDigitRest(v, f, a, b, c, base) ==
  /\ v \in 0..(base - 1) /\ f \subseteq ArithFlag
  /\ a - b - c = v - base * Carry(f)

\* The auxiliary carry of a sum or a difference is the one between its digits.
HasAux(r, a, b) ==
  "AUXILIARY" \in r.flags <=> (Bit4(a) + Bit4(b) + Bit4(r.value)) % 2 = 1

LEMMA AuxiliaryFlag ==
  ASSUME NEW a, NEW b, NEW res, NEW cy
  PROVE  HasAux(Added(a, b, res, cy), a, b) /\ HasAux(Subtracted(a, b, res, cy), a, b)
  BY DEF HasAux, Added, Subtracted, Psz, When

LEMMA SumAux ==
  ASSUME NEW a, NEW b
  PROVE  HasAux(Sum(a, b), a, b) /\ HasAux(Difference(a, b), a, b)
<1>1. HasAux(ADD(a, b), a, b) /\ HasAux(SUB(a, b), a, b)
  BY AuxiliaryFlag, Zenon DEF ADD, SUB
<1>2. HasAux(ADC(flags, a, b), a, b) /\ HasAux(SBB(flags, a, b), a, b)
  BY AuxiliaryFlag, Zenon DEF ADC, SBB
<1>3. QED  BY <1>1, <1>2 DEF Sum, Difference

\* What an adjustment returns.
LEMMA AdjustedIs ==
  ASSUME NEW f, NEW al, NEW sign
  PROVE  LET r == Adjusted(f, al, sign)
         IN  /\ r.value = (al + sign * ((IF Low(f, al) THEN 6 ELSE 0)
                                          + (IF High(f, al) THEN 96 ELSE 0))) % M
             /\ Carry(r.flags) = IF High(f, al) THEN 1 ELSE 0
             /\ r.flags \subseteq ArithFlag
  BY DEF Adjusted, Psz, When, Carry, ArithFlag

\* Two digits in a byte.
LEMMA PackedDigits ==
  ASSUME NEW h \in 0..9, NEW l \in 0..9
  PROVE  LET v == 16 * h + l
         IN  v \in 0..255 /\ Decimal(v) = 10 * h + l /\ Bit4(v) = h % 2
  BY DEF Decimal, Bit4

\* The third bit of a sum is odd when there was a carry.
LEMMA OddCarry ==
  ASSUME NEW a \in Int, NEW b \in Int, NEW x \in Int, NEW j \in Int, NEW k \in {0, 1},
         x = (a + b + k) + 2 * j
  PROVE  ((a % 2) + (b % 2) + (x % 2)) % 2 = k
<1>1. \A y \in Int : y % 2 \in {0, 1} /\ y = 2 * (y \div 2) + (y % 2)
  OBVIOUS
<1> DEFINE p == a % 2
           q == b % 2
           r == x % 2
<1>2. PICK d \in Int : p + q + r = k + 2 * d
  <2> DEFINE e == a \div 2
             f == b \div 2
             g == x \div 2
  <2>1. /\ a = 2 * e + p /\ b = 2 * f + q /\ x = 2 * g + r
        /\ p \in Int /\ q \in Int /\ r \in Int /\ e \in Int /\ f \in Int /\ g \in Int
    BY <1>1
  <2> HIDE DEF e, f, g, p, q, r
  <2>2. p + q + r = k + 2 * (p + q + e + f + j - g)
    BY <2>1
  <2>3. p + q + e + f + j - g \in Int
    BY <2>1
  <2>4. QED  BY <2>2, <2>3
<1>3. p \in {0, 1} /\ q \in {0, 1} /\ r \in {0, 1}
  BY <1>1
<1> HIDE DEF p, q, r
<1>4. (p + q + r) % 2 = k
  BY <1>2, <1>3
<1>5. QED  BY <1>4 DEF p, q, r

LEMMA PackedSum ==
  ASSUME NEW a, NEW b, NEW c, NEW r, IsSum(r, a, b, c), HasAux(r, a, b),
         c \in {0, 1}, Half = 128,
         \E h, l \in 0..9 : a = 16 * h + l, \E h, l \in 0..9 : b = 16 * h + l
  PROVE  LET t == DAA(r.flags, r.value)
         IN  IsDigitSum(Decimal(t.value), t.flags, Decimal(a), Decimal(b), c, 100)
<1>a. PICK ah \in 0..9, al \in 0..9 : a = 16 * ah + al
  OBVIOUS
<1>b. PICK bh \in 0..9, bl \in 0..9 : b = 16 * bh + bl
  OBVIOUS
<1>c. /\ IsSum(r, 16 * ah + al, 16 * bh + bl, c)
      /\ HasAux(r, 16 * ah + al, 16 * bh + bl)
      /\ Decimal(a) = 10 * ah + al /\ Decimal(b) = 10 * bh + bl
  BY <1>a, <1>b, PackedDigits
<1> DEFINE v == r.value
           t == DAA(r.flags, v)
           s == al + bl + c
           h == ah + bh
           k == IF s >= 16 THEN 1 ELSE 0
           i == Carry(r.flags)
           x == IF Low(r.flags, v) THEN 6 ELSE 0
           y == IF High(r.flags, v) THEN 96 ELSE 0
<1>1. v \in 0..255 /\ v + 256 * i = 16 * h + s /\ i \in {0, 1}
  <2>1. M = 256 /\ Word = 0..255
    BY DEF M, Word
  <2>2. QED  BY <1>c, <2>1 DEF IsSum, Carry
<1>2. s \in 0..19 /\ h \in 0..18 /\ k \in {0, 1}
  OBVIOUS
<1>3. Bit4(16 * ah + al) = ah % 2 /\ Bit4(16 * bh + bl) = bh % 2
  BY PackedDigits
<1>4. v \div 16 = (h + k) - 16 * i /\ v % 16 = s - 16 * k
  <2> HIDE DEF v, i, s, h
  <2>1. v = 16 * ((h + k) - 16 * i) + (s - 16 * k) /\ s - 16 * k \in 0..15
    BY <1>1, <1>2
  <2>2. QED  BY <1>1, <1>2, <2>1
<1>5. "AUXILIARY" \in r.flags <=> k = 1
  <2>1. Bit4(v) = ((h + k) - 16 * i) % 2
    BY <1>4 DEF Bit4
  <2>2. ((ah % 2) + (bh % 2) + (((ah + bh + k) - 16 * i) % 2)) % 2 = k
    <3> HIDE DEF i, k
    <3> DEFINE z == (ah + bh + k) - 16 * i
    <3>1. /\ z \in Int /\ z = (ah + bh + k) + 2 * (0 - 8 * i)
          /\ 0 - 8 * i \in Int /\ ah \in Int /\ bh \in Int
      BY <1>1, <1>2
    <3> HIDE DEF z
    <3>2. ((ah % 2) + (bh % 2) + (z % 2)) % 2 = k
      BY <1>2, <3>1, OddCarry
    <3>3. QED  BY <3>2 DEF z
  <2>3. QED  BY <1>3, <1>c, <2>1, <2>2 DEF HasAux
<1>6. "CARRY" \in r.flags <=> i = 1
  BY DEF Carry
<1>7. x = IF s >= 10 THEN 6 ELSE 0
  BY <1>2, <1>4, <1>5 DEF Low
<1>8. y = IF h + (IF s >= 10 THEN 1 ELSE 0) >= 10 THEN 96 ELSE 0
  <2>1. High(r.flags, v) <=> v > (IF k = 1 THEN 159 ELSE 153) \/ i = 1
    BY <1>5, <1>6 DEF High
  <2>2. QED
    <3> HIDE DEF v, i, s, h
    <3>1. QED  BY <1>1, <1>2, <2>1
<1>9. /\ t.value = (v + 1 * (x + y)) % 256 /\ t.flags \subseteq ArithFlag
      /\ Carry(t.flags) = IF High(r.flags, v) THEN 1 ELSE 0
  <2>1. M = 256
    BY DEF M
  <2>2. QED  BY <2>1, AdjustedIs DEF DAA
<1>10. Carry(t.flags) = IF y = 96 THEN 1 ELSE 0
  BY <1>9
<1> DEFINE l == s - (IF s >= 10 THEN 10 ELSE 0)
           u == h + (IF s >= 10 THEN 1 ELSE 0) - (IF y = 96 THEN 10 ELSE 0)
<1>11. l \in 0..9 /\ u \in 0..9
  <2> HIDE DEF s, h, y
  <2>1. QED  BY <1>2, <1>8
<1>12. t.value = 16 * u + l
  <2> HIDE DEF v, i, s, h, x, y, t
  <2>1. v + 1 * (x + y) \in {16 * u + l, 16 * u + l + 256}
    BY <1>1, <1>2, <1>7, <1>8
  <2> HIDE DEF u, l
  <2>2. 16 * u + l \in 0..255
    BY <1>11
  <2>3. QED  BY <1>9, <2>1, <2>2
<1>13. Decimal(t.value) = 10 * u + l
  <2> HIDE DEF u, l, t
  <2>1. QED  BY <1>11, <1>12, PackedDigits
<1>14. 10 * u + l + 100 * Carry(t.flags) = (10 * ah + al) + (10 * bh + bl) + c
  <2> HIDE DEF t, y
  <2>1. QED  BY <1>8, <1>10
<1>15. QED
  <2> HIDE DEF t, u, l
  <2>1. t.flags \subseteq ArithFlag /\ Decimal(t.value) \in 0..99
    BY <1>9, <1>11, <1>13
  <2>2. /\ Decimal(t.value) \in 0..(100 - 1)
        /\ Decimal(t.value) + 100 * Carry(t.flags) = Decimal(a) + Decimal(b) + c
    BY <1>13, <1>14, <1>c, <2>1
  <2>3. QED  BY <2>1, <2>2 DEF t, IsDigitSum

LEMMA PackedDifference ==
  ASSUME NEW a, NEW b, NEW c, NEW r, IsDifference(r, a, b, c), HasAux(r, a, b),
         c \in {0, 1}, Half = 128,
         \E h, l \in 0..9 : a = 16 * h + l, \E h, l \in 0..9 : b = 16 * h + l
  PROVE  LET t == DAS(r.flags, r.value)
         IN  IsDigitRest(Decimal(t.value), t.flags, Decimal(a), Decimal(b), c, 100)
<1>a. PICK ah \in 0..9, al \in 0..9 : a = 16 * ah + al
  OBVIOUS
<1>b. PICK bh \in 0..9, bl \in 0..9 : b = 16 * bh + bl
  OBVIOUS
<1>c. /\ IsDifference(r, 16 * ah + al, 16 * bh + bl, c)
      /\ HasAux(r, 16 * ah + al, 16 * bh + bl)
      /\ Decimal(a) = 10 * ah + al /\ Decimal(b) = 10 * bh + bl
  BY <1>a, <1>b, PackedDigits
<1> DEFINE v == r.value
           t == DAS(r.flags, v)
           d == al - bl - c
           h == ah - bh
           k == IF d < 0 THEN 1 ELSE 0
           i == Carry(r.flags)
           x == IF Low(r.flags, v) THEN 6 ELSE 0
           y == IF High(r.flags, v) THEN 96 ELSE 0
<1>1. v \in 0..255 /\ v - 256 * i = 16 * h + d /\ i \in {0, 1}
  <2>1. M = 256 /\ Word = 0..255
    BY DEF M, Word
  <2>2. QED  BY <1>c, <2>1 DEF IsDifference, Carry
<1>2. d \in -10..9 /\ h \in -9..9 /\ k \in {0, 1} /\ (k = 1 <=> d < 0)
  OBVIOUS
<1>3. Bit4(16 * ah + al) = ah % 2 /\ Bit4(16 * bh + bl) = bh % 2
  BY PackedDigits
<1>4. v \div 16 = (h - k) + 16 * i /\ v % 16 = d + 16 * k
  <2> HIDE DEF v, i, d, h, k
  <2>1. v = 16 * ((h - k) + 16 * i) + (d + 16 * k) /\ d + 16 * k \in 0..15
    BY <1>1, <1>2
  <2>2. QED  BY <1>1, <1>2, <2>1
<1>5. "AUXILIARY" \in r.flags <=> k = 1
  <2>1. Bit4(v) = ((h - k) + 16 * i) % 2
    BY <1>4 DEF Bit4
  <2>2. ((ah % 2) + (bh % 2) + (((ah - bh - k) + 16 * i) % 2)) % 2 = k
    <3> HIDE DEF i, k
    <3> DEFINE z == (ah - bh - k) + 16 * i
               j == 8 * i - bh - k
    <3>1. /\ z \in Int /\ z = (ah + bh + k) + 2 * j
          /\ j \in Int /\ ah \in Int /\ bh \in Int
      BY <1>1, <1>2
    <3> HIDE DEF z, j
    <3>2. ((ah % 2) + (bh % 2) + (z % 2)) % 2 = k
      BY <1>2, <3>1, OddCarry
    <3>3. QED  BY <3>2 DEF z
  <2>3. QED  BY <1>3, <1>c, <2>1, <2>2 DEF HasAux
<1>6. "CARRY" \in r.flags <=> i = 1
  BY DEF Carry
<1>7. x = 6 * k
  <2>1. Low(r.flags, v) <=> d + 16 * k > 9 \/ k = 1
    BY <1>4, <1>5 DEF Low
  <2> HIDE DEF d, k
  <2>2. QED  BY <1>2, <2>1
<1>8. y = 96 * i /\ (High(r.flags, v) <=> i = 1)
  <2>1. High(r.flags, v) <=> v > (IF k = 1 THEN 159 ELSE 153) \/ i = 1
    BY <1>5, <1>6 DEF High
  <2> HIDE DEF v, i, d, h, k
  <2>2. QED  BY <1>1, <1>2, <2>1
<1>9. /\ t.value = (v + (-1) * (x + y)) % 256 /\ t.flags \subseteq ArithFlag
      /\ Carry(t.flags) = i
  <2>1. M = 256
    BY DEF M
  <2>2. /\ t.value = (v + (-1) * (x + y)) % 256 /\ t.flags \subseteq ArithFlag
        /\ Carry(t.flags) = IF High(r.flags, v) THEN 1 ELSE 0
    BY <2>1, AdjustedIs DEF DAS
  <2> HIDE DEF i, t, v
  <2>3. QED  BY <1>1, <1>8, <2>2
<1> DEFINE l == d + 10 * k
           u == (h - k) + 10 * i
<1> HIDE DEF v, i, d, h, k, x, y, t
<1>10. l \in 0..9 /\ u \in 0..9
  BY <1>1, <1>2
<1>11. t.value = 16 * u + l
  <2>1. v + (-1) * (x + y) = 16 * u + l
    BY <1>1, <1>2, <1>7, <1>8
  <2> HIDE DEF u, l
  <2>2. 16 * u + l \in 0..255
    BY <1>10
  <2>3. QED  BY <1>9, <2>1, <2>2
<1>12. Decimal(t.value) = 10 * u + l
  <2> HIDE DEF u, l
  <2>1. QED  BY <1>10, <1>11, PackedDigits
<1>13. (10 * ah + al) - (10 * bh + bl) - c = 10 * u + l - 100 * i
  BY <1>1, <1>2 DEF d, h
<1>14. Decimal(t.value) \in 0..99
  <2> HIDE DEF u, l
  <2>1. QED  BY <1>10, <1>12
<1>15. QED
  <2> HIDE DEF u, l, t
  <2>0. Carry(t.flags) = i /\ i \in Int /\ u \in Int /\ l \in Int
    BY <1>1, <1>9, <1>10
  <2> HIDE DEF i
  <2>1. (10 * ah + al) - (10 * bh + bl) - c = Decimal(t.value) - 100 * Carry(t.flags)
    BY <1>12, <1>13, <2>0
  <2>2. /\ Decimal(t.value) \in 0..(100 - 1)
        /\ Decimal(a) - Decimal(b) - c = Decimal(t.value) - 100 * Carry(t.flags)
    BY <1>14, <1>c, <2>1
  <2>3. QED  BY <1>9, <2>2 DEF t, v, IsDigitRest

LEMMA DigitSum ==
  ASSUME NEW a, NEW b, NEW c, NEW r, IsSum(r, a, b, c), HasAux(r, a, b),
         a \in 0..9, b \in 0..9, c \in {0, 1}, Half = 128
  PROVE  LET t == ASCII(r.flags, 0, r.value, 1)
         IN  IsDigitSum(t.value, t.flags, a, b, c, 10)
<1> DEFINE v == r.value
           t == ASCII(r.flags, 0, v, 1)
           s == a + b + c
<1>1. v \in 0..255 /\ v = s /\ r.flags \subseteq ArithFlag
  <2>1. M = 256 /\ Word = 0..255
    BY DEF M, Word
  <2>2. Carry(r.flags) \in {0, 1}
    BY DEF Carry
  <2>3. v \in 0..255 /\ v + 256 * Carry(r.flags) = s /\ r.flags \subseteq ArithFlag
    BY <2>1 DEF IsSum
  <2>4. s \in 0..19
    OBVIOUS
  <2> HIDE DEF v, s
  <2>5. QED  BY <2>2, <2>3, <2>4
<1>2. s \in 0..19
  OBVIOUS
<1>3. "AUXILIARY" \in r.flags <=> s >= 16
  BY <1>1 DEF HasAux, Bit4
<1> HIDE DEF s
<1>4. Low(r.flags, v) <=> s >= 10
  BY <1>1, <1>2, <1>3 DEF Low
<1>5. /\ t.value = (IF s >= 10 THEN v + 6 * 1 ELSE v) % 16
      /\ Carry(t.flags) = (IF s >= 10 THEN 1 ELSE 0) /\ t.flags \subseteq ArithFlag
  BY <1>1, <1>4 DEF ASCII, Carry, ArithFlag
<1> HIDE DEF t, v
<1>6. t.value = IF s >= 10 THEN s - 10 ELSE s
  BY <1>1, <1>2, <1>5
<1>7. t.value \in 0..9 /\ t.value + 10 * Carry(t.flags) = s
  BY <1>2, <1>5, <1>6
<1>8. t.value \in 0..(10 - 1)
  BY <1>7
<1>9. QED  BY <1>5, <1>7, <1>8 DEF s, t, v, IsDigitSum

LEMMA DigitDifference ==
  ASSUME NEW a, NEW b, NEW c, NEW r, IsDifference(r, a, b, c), HasAux(r, a, b),
         a \in 0..9, b \in 0..9, c \in {0, 1}, Half = 128
  PROVE  LET t == ASCII(r.flags, 0, r.value, -1)
         IN  IsDigitRest(t.value, t.flags, a, b, c, 10)
<1> DEFINE v == r.value
           t == ASCII(r.flags, 0, v, -1)
           s == a - b - c
<1>1. v \in 0..255 /\ v = (IF s < 0 THEN s + 256 ELSE s) /\ r.flags \subseteq ArithFlag
  <2>1. M = 256 /\ Word = 0..255
    BY DEF M, Word
  <2>2. QED  BY <2>1 DEF IsDifference, Carry
<1>2. s \in -10..9
  OBVIOUS
<1>3. "AUXILIARY" \in r.flags <=> s < 0
  <2>1. Bit4(a) = 0 /\ Bit4(b) = 0
    BY DEF Bit4
  <2> HIDE DEF s
  <2>2. Bit4(v) = IF s < 0 THEN 1 ELSE 0
    <3> HIDE DEF v
    <3>1. QED  BY <1>1, <1>2 DEF Bit4
  <2>3. QED  BY <2>1, <2>2 DEF HasAux
<1> HIDE DEF s
<1>4. Low(r.flags, v) <=> s < 0
  BY <1>1, <1>2, <1>3 DEF Low
<1>5. /\ t.value = (IF s < 0 THEN v + 6 * (-1) ELSE v) % 16
      /\ Carry(t.flags) = (IF s < 0 THEN 1 ELSE 0) /\ t.flags \subseteq ArithFlag
  BY <1>1, <1>4 DEF ASCII, Carry, ArithFlag
<1> HIDE DEF t, v
<1>6. t.value = IF s < 0 THEN s + 10 ELSE s
  BY <1>1, <1>2, <1>5
<1>7. t.value \in 0..9 /\ s = t.value - 10 * Carry(t.flags)
  BY <1>2, <1>5, <1>6
<1>8. t.value \in 0..(10 - 1)
  BY <1>7
<1>9. QED  BY <1>5, <1>7, <1>8 DEF s, t, v, IsDigitRest
-----------------------------------------------------------------------------
(* Words of another base than M, and signed products. *)

LEMMA TotalGrows ==
  ASSUME NEW w \in Nat, NEW m \in Nat, NEW l \in Int, NEW k \in Int, NEW s \in Int,
         NEW c \in Int, NEW a \in Int, NEW b \in Int, NEW v \in Int, NEW d \in Int,
         l + k = s + w * c, v + m * d = a + b + c
  PROVE  (l + w * a) + (k + w * b) = (s + w * v) + (w * m) * d
<1>1. w * (a + b + c) = w * a + w * b + w * c
  OBVIOUS
<1>2. w * (v + m * d) = w * v + (w * m) * d
  OBVIOUS
<1>3. QED  BY <1>1, <1>2

LEMMA RestGrows ==
  ASSUME NEW w \in Nat, NEW m \in Nat, NEW l \in Int, NEW k \in Int, NEW s \in Int,
         NEW c \in Int, NEW a \in Int, NEW b \in Int, NEW v \in Int, NEW d \in Int,
         l - k = s - w * c, a - b - c = v - m * d
  PROVE  (l + w * a) - (k + w * b) = (s + w * v) - (w * m) * d
<1>1. w * (a - b - c) = w * a - w * b - w * c
  OBVIOUS
<1>2. w * (v - m * d) = w * v - (w * m) * d
  OBVIOUS
<1>3. QED  BY <1>1, <1>2

LEMMA SignedRange ==
  ASSUME AluAssumption, NEW a \in Word
  PROVE  /\ Signed(a) \in Int /\ -Half <= Signed(a) /\ Signed(a) < Half
         /\ Signed(a) = -Half <=> a = Half
         /\ Signed(a) % M = a
         /\ (-Signed(a)) % M = (M - a) % M
<1>0. a \in 0..(M - 1) /\ M = 2 * Half /\ Half \in Nat /\ Half > 0
  BY Widths
<1>1. /\ Signed(a) \in Int /\ -Half <= Signed(a) /\ Signed(a) < Half
      /\ Signed(a) = -Half <=> a = Half
  BY <1>0 DEF Signed, Negative
<1>2. Signed(a) % M = a
  <2>1. CASE Negative(a)
    <3>1. Signed(a) = a - M
      BY <2>1 DEF Signed
    <3>2. QED  BY <1>0, <3>1, ModOnce
  <2>2. CASE ~Negative(a)
    BY <1>0, <2>2, ModOnce DEF Signed
  <2>3. QED  BY <2>1, <2>2
<1>3. (-Signed(a)) % M = (M - a) % M
  <2>1. CASE Negative(a)
    <3>1. -Signed(a) = M - a
      BY <1>0, <2>1 DEF Signed
    <3>2. QED  BY <3>1
  <2>2. CASE ~Negative(a)
    <3>1. Signed(a) = a
      BY <2>2 DEF Signed
    <3>2. a # 0 => (-a) % M = M - a /\ (M - a) % M = M - a
      BY <1>0, ModOnce
    <3>3. a = 0 => (-a) % M = 0 /\ (M - a) % M = 0
      BY <1>0, ModOnce
    <3>4. QED  BY <3>1, <3>2, <3>3
  <2>3. QED  BY <2>1, <2>2
<1>4. QED  BY <1>1, <1>2, <1>3

\* A product of two signed words is one of two words.
LEMMA ImulIs ==
  ASSUME AluAssumption, NEW a \in Word, NEW b \in Word
  PROVE  LET r == IMUL(a, b)
             p == Signed(a) * Signed(b)
         IN  /\ r.value \in Word /\ r.high \in Word /\ r.flags \subseteq ArithFlag
             /\ Signed(r.high) * M + r.value = p
             /\ Jumps(r.flags).JC <=> p # Signed(r.value)
             /\ Jumps(r.flags).JO <=> p # Signed(r.value)
<1> DEFINE x == Signed(a)
           y == Signed(b)
           p == x * y
           e == p \div M
           v == p % M
<1>0. M = 2 * Half /\ Half \in Nat /\ Half > 0 /\ Word = 0..(M - 1) /\ M \in Nat /\ M > 0
  BY Widths
<1>1. x \in Int /\ y \in Int /\ -Half <= x /\ x < Half /\ -Half <= y /\ y < Half
  BY SignedRange
<1>2. IMUL(a, b) = Product(p, p # Signed(v))
  BY DEF IMUL
<1> HIDE DEF x, y
<1>3. p \in Int /\ -(Half * Half) <= p /\ p <= Half * Half
  <2>1. CASE x >= 0
    <3>1. x * y <= x * Half /\ x * (-Half) <= x * y
      BY <1>0, <1>1, <2>1
    <3>2. x * Half <= Half * Half /\ x * (-Half) = -(x * Half)
      BY <1>0, <1>1, <2>1
    <3>3. QED  BY <1>0, <1>1, <3>1, <3>2
  <2>2. CASE x < 0
    <3> DEFINE z == -x
    <3>1. z \in Nat /\ z <= Half /\ x = -z
      BY <1>0, <1>1, <2>2
    <3> HIDE DEF z
    <3>2. z * y <= z * Half /\ z * (-Half) <= z * y
      BY <1>0, <1>1, <3>1
    <3>3. z * Half <= Half * Half /\ z * (-Half) = -(z * Half) /\ x * y = -(z * y)
      BY <1>0, <1>1, <3>1
    <3>4. QED  BY <1>0, <1>1, <3>1, <3>2, <3>3
  <2>3. QED  BY <1>1, <2>1, <2>2
<1> HIDE DEF p
<1>4. e \in Int /\ v \in 0..(M - 1) /\ p = M * e + v
  BY <1>0, <1>3
<1> HIDE DEF e, v
<1>5. -Half <= e /\ e < Half
  <2>1. e < Half
    <3>1. SUFFICES ASSUME e >= Half PROVE FALSE
      BY <1>0, <1>4
    <3>2. M * e >= M * Half /\ M * Half = 2 * (Half * Half) /\ Half * Half > 0
      BY <1>0, <1>4, <3>1, Scale
    <3>3. QED  BY <1>0, <1>3, <1>4, <3>2
  <2>2. e >= -Half
    <3>1. SUFFICES ASSUME e < -Half PROVE FALSE
      BY <1>0, <1>4
    <3>2. /\ M * e + M <= M * (-Half) /\ M * (-Half) = -(2 * (Half * Half))
          /\ Half * Half > 0
      BY <1>0, <1>4, <3>1, Scale
    <3>3. QED  BY <1>0, <1>3, <1>4, <3>2
  <2>3. QED  BY <2>1, <2>2
<1>6. e % M \in 0..(M - 1) /\ Signed(e % M) = e
  <2>1. CASE e >= 0
    <3>1. e % M = e
      BY <1>0, <1>4, <1>5, <2>1, ModOnce
    <3>2. QED  BY <1>0, <1>4, <1>5, <2>1, <3>1 DEF Signed, Negative
  <2>2. CASE e < 0
    <3>1. e % M = e + M
      BY <1>0, <1>4, <1>5, <2>2, ModOnce
    <3>2. QED  BY <1>0, <1>4, <1>5, <2>2, <3>1 DEF Signed, Negative
  <2>3. QED  BY <1>4, <2>1, <2>2
<1>7. Product(p, p # Signed(v))
        = [value |-> v, high |-> e % M,
           flags |-> Psz(v) \cup (IF p # Signed(v) THEN {"CARRY", "OVERFLOW"} ELSE {})]
  BY DEF Product, e, v
<1> DEFINE wide == p # Signed(v)
           f == Psz(v) \cup (IF wide THEN {"CARRY", "OVERFLOW"} ELSE {})
<1>8. /\ f \subseteq ArithFlag /\ (Jumps(f).JC <=> wide) /\ (Jumps(f).JO <=> wide)
  <2> HIDE DEF wide
  <2>1. QED  BY DEF Psz, When, ArithFlag, Jumps
<1>9. Signed(e % M) * M + v = p
  BY <1>0, <1>4, <1>6
<1> DEFINE r == IMUL(a, b)
<1>10. r = [value |-> v, high |-> e % M, flags |-> f]
  BY <1>2, <1>7
<1> HIDE DEF r, f
<1>11. r.value = v /\ r.high = e % M /\ r.flags = f
  BY <1>10
<1>12. /\ r.value \in Word /\ r.high \in Word /\ r.flags \subseteq ArithFlag
       /\ Signed(r.high) * M + r.value = p
       /\ Jumps(r.flags).JC <=> p # Signed(r.value)
       /\ Jumps(r.flags).JO <=> p # Signed(r.value)
  BY <1>0, <1>4, <1>6, <1>8, <1>9, <1>11
<1>13. QED  BY <1>12 DEF p, x, y, r

\* The product divided by a factor that is not negative is the other factor.
LEMMA IdivIs ==
  ASSUME AluAssumption, NEW invert \in BOOLEAN, NEW high \in Word, NEW value \in Word,
         NEW a \in Word, NEW b \in Word, ~Negative(b), b # 0,
         Signed(high) * M + value = Signed(a) * Signed(b)
  PROVE  LET q == IDIV(invert, high, value, b)
         IN  /\ q.trap <=> (invert /\ a = Half)
             /\ ~q.trap => q.high = 0 /\ q.value = IF invert THEN (M - a) % M ELSE a
<1> DEFINE d == high * M + value
           s == IF d >= Half * M THEN d - M * M ELSE d
           t == IF s >= 0 THEN s \div b ELSE -((-s) \div b)
           q == IF invert THEN -t ELSE t
           x == Signed(a)
<1>0. /\ M = 2 * Half /\ Half \in Nat /\ Half > 0 /\ Word = 0..(M - 1)
      /\ M \in Nat /\ M > 0 /\ Half \in Int
  BY Widths
<1>1. /\ x \in Int /\ -Half <= x /\ x < Half /\ (x = -Half <=> a = Half)
      /\ x % M = a /\ (-x) % M = (M - a) % M
  BY SignedRange
<1>2. Signed(b) = b /\ b \in Nat /\ b > 0 /\ b < Half
  BY <1>0 DEF Signed, Negative
<1>3. IDIV(invert, high, value, b)
        = IF d = Half * M \/ b = 0 \/ q \notin -Half..(Half - 1)
          THEN [trap |-> TRUE, value |-> value, high |-> high]
          ELSE [trap |-> FALSE, value |-> q % M, high |-> (s - b * t) % M]
  BY DEF IDIV, Trapped
<1>4. d \in Int /\ s \in Int /\ s = x * b
  <2>1. /\ d \in Int /\ M * M \in Int /\ Half * M \in Int /\ high \in Int
        /\ value \in 0..(M - 1)
    BY <1>0
  <2>2. (value + M * high >= M * Half) <=> (high >= Half)
    BY <1>0, <2>1, Compare
  <2>3. (d >= Half * M) <=> Negative(high)
    BY <1>0, <2>1, <2>2 DEF Negative
  <2>4. (high - M) * M = high * M - M * M
    BY <1>0, <2>1
  <2>5. s = Signed(high) * M + value
    BY <1>0, <2>1, <2>3, <2>4 DEF Signed
  <2>6. QED  BY <1>2, <2>1, <2>5
<1> HIDE DEF x
<1>5. d # Half * M
  <2>1. SUFFICES ASSUME d = Half * M PROVE FALSE
    OBVIOUS
  <2>2. s = -(Half * M) /\ Half * M \in Int
    BY <1>0, <2>1
  <2>3. x * b >= (-Half) * b /\ (-Half) * b = -(Half * b) /\ Half * b < Half * M
    <3>1. x * b >= (-Half) * b
      <4>1. b * (-Half) <= b * x /\ b * (-Half) = (-Half) * b /\ b * x = x * b
        BY <1>0, <1>1, <1>2, Scale
      <4>2. QED  BY <4>1
    <3>2. Half * b + Half <= Half * M
      BY <1>0, <1>2, Scale
    <3>3. Half * b \in Int /\ (-Half) * b = -(Half * b)
      BY <1>0, <1>2
    <3>4. QED  BY <1>0, <3>1, <3>2, <3>3
  <2>4. x * b \in Int /\ Half * b \in Int
    BY <1>0, <1>1, <1>2
  <2> HIDE DEF s, d
  <2>5. QED  BY <1>4, <2>2, <2>3, <2>4
<1>6. t = x
  <2> HIDE DEF s, d
  <2>1. CASE x >= 0
    <3>1. s >= 0 /\ s \div b = x
      BY <1>1, <1>2, <1>4, <2>1
    <3>2. QED  BY <3>1
  <2>2. CASE x < 0
    <3> DEFINE z == -x
    <3>1. z \in Nat /\ z > 0 /\ x = -z
      BY <1>1, <2>2
    <3> HIDE DEF z
    <3>2. s = -(z * b) /\ z * b \in Nat /\ z * b > 0
      BY <1>2, <1>4, <3>1
    <3>3. -s = z * b /\ ~(s >= 0)
      BY <3>2
    <3>4. (z * b) \div b = z
      BY <1>2, <3>1
    <3>5. t = -z
      BY <3>3, <3>4
    <3>6. QED  BY <3>1, <3>5
  <2>3. QED  BY <1>1, <2>1, <2>2
<1>7. (s - b * t) % M = 0
  <2> HIDE DEF s, t
  <2>1. s - b * t = 0
    BY <1>1, <1>2, <1>4, <1>6
  <2>2. QED  BY <1>0, <2>1, ModOnce
<1>8. q = IF invert THEN -x ELSE x
  BY <1>6
<1> HIDE DEF d, s, t, q
<1>9. q \notin -Half..(Half - 1) <=> (invert /\ a = Half)
  BY <1>0, <1>1, <1>8
<1>10. q % M = IF invert THEN (M - a) % M ELSE a
  BY <1>1, <1>8
<1>11. QED  BY <1>2, <1>3, <1>5, <1>7, <1>9, <1>10
-----------------------------------------------------------------------------
(* The decimal routines and the signed ones. *)

SignedOnes == {"imul", "imul rep"}

\* Between two words, as WideInv for the others: what the carry means for a decimal
\* number, and where a signed product is before it is divided.
DecimalInv ==
  routine \in Adjusting =>
    /\ left \in 0..(weight - 1) /\ right \in 0..(weight - 1)
    /\ result \in 0..(weight - 1)
    /\ routine \in {"daa", "aaa"} => left + right = result + weight * CarryIn
    /\ routine \in {"das", "aas"} => left - right = result - weight * CarryIn

SignedInv ==
  routine \in SignedOnes =>
    /\ words = 0 => weight = 1 /\ left = 0 /\ right = 0 /\ result = 0
    /\ words # 0 => weight = M /\ left \in Word /\ right \in Word /\ result \in Word
    /\ words = 1 => Signed(dx) * M + result = Signed(left) * Signed(right)

Placed ==
  /\ routine \in Routines \cup {"none"} /\ words \in 0..MaxWords /\ dx \in Word
  /\ ready \in BOOLEAN /\ trapped \in BOOLEAN
  /\ routine \notin Binary \cup Adjusting \cup SignedOnes =>
       weight = 1 /\ left = 0 /\ right = 0 /\ result = 0

OthersInv == Placed /\ DecimalInv /\ SignedInv /\ SignedExact

\* A step of a routine is a step to its next word.
LEMMA NextWord ==
  ASSUME WideAssumption, Typed, Placed, NEW r, Runs(r), routine' = routine,
         routine \in Binary \cup Adjusting \cup SignedOnes,
         words' = words + 1, dx' \in Word, ready' = FALSE, trapped' \in BOOLEAN
  PROVE  Placed'
<1>1. words \in 0..MaxWords /\ words < MaxWords /\ MaxWords \in Nat
  BY DEF Placed, Runs, WideAssumption
<1>2. words' \in 0..MaxWords
  BY <1>1
<1>3. QED  BY <1>2 DEF Placed

LEMMA BinaryPlaced ==
  ASSUME WideAssumption, WideInv, OthersInv, NEW r \in Binary, Runs(r), WideInv',
         routine' = routine, words' = words + 1, ready' = FALSE, trapped' \in BOOLEAN
  PROVE  OthersInv'
<1>1. routine' \in Binary /\ routine' \notin Adjusting /\ routine' \notin SignedOnes
  BY DEF Runs, Binary, Adjusting, SignedOnes
<1>2. dx' \in Word
  BY <1>1 DEF WideInv, NumbersTyped
<1>3. Placed'
  BY <1>1, <1>2, NextWord DEF OthersInv, WideInv
<1>4. DecimalInv' /\ SignedInv' /\ SignedExact'
  BY <1>1 DEF DecimalInv, SignedInv, SignedExact, ImulExact, IdivInvertsImul, SignedOnes
<1>5. QED  BY <1>3, <1>4 DEF OthersInv

LEMMA BinaryStep ==
  ASSUME WideAssumption, WideInv, OthersInv, WideInv', NEW a \in Words, NEW b \in Words,
         \/ AddWords(a, b) \/ SubWords(a, b) \/ NegWord(b)
         \/ MulWord(a) \/ DivWord(a) \/ ShlWord(a) \/ ShrWord(a) \/ SarWord(a)
  PROVE  OthersInv'
<1>1. trapped \in BOOLEAN
  BY DEF OthersInv, Placed
<1>2. CASE AddWords(a, b)
  BY <1>1, <1>2, BinaryPlaced DEF AddWords, Upwards, Binary, Runs
<1>3. CASE SubWords(a, b)
  BY <1>1, <1>3, BinaryPlaced DEF SubWords, Upwards, Binary, Runs
<1>4. CASE NegWord(b)
  BY <1>1, <1>4, BinaryPlaced DEF NegWord, Upwards, Binary, Runs
<1>5. CASE MulWord(a)
  BY <1>1, <1>5, BinaryPlaced DEF MulWord, Binary, Runs
<1>6. CASE DivWord(a)
  <2>1. DIV(dx, a, factor).trap \in BOOLEAN
    BY DEF DIV, Trapped
  <2>2. QED  BY <1>6, <2>1, BinaryPlaced DEF DivWord, Downwards, Binary, Runs
<1>7. CASE ShlWord(a)
  BY <1>1, <1>7, BinaryPlaced DEF ShlWord, Upwards, Binary, Runs
<1>8. CASE ShrWord(a)
  BY <1>1, <1>8, BinaryPlaced DEF ShrWord, Downwards, Binary, Runs
<1>9. CASE SarWord(a)
  BY <1>1, <1>9, BinaryPlaced DEF SarWord, Downwards, Binary, Runs
<1>10. QED  BY <1>2, <1>3, <1>4, <1>5, <1>6, <1>7, <1>8, <1>9

\* One more digit, or two, of a decimal number: a and b are those of the operands, v
\* that of the result.
LEMMA DecimalGrows ==
  ASSUME WideAssumption, Typed, OthersInv, NEW r \in Adjusting, Runs(r),
         NEW base \in Nat, base > 0, NEW a \in 0..(base - 1), NEW b \in 0..(base - 1),
         NEW v, Upwards(a, b, v, base), UNCHANGED <<dx, trapped>>,
         \/ r \in {"daa", "aaa"} /\ IsDigitSum(v, flags', a, b, CarryIn, base)
         \/ r \in {"das", "aas"} /\ IsDigitRest(v, flags', a, b, CarryIn, base)
  PROVE  OthersInv'
<1>0. v \in 0..(base - 1)
  BY DEF IsDigitSum, IsDigitRest
<1>1. /\ routine = r /\ routine' = r /\ ready' = FALSE /\ words' = words + 1
      /\ left' = left + weight * a /\ right' = right + weight * b
      /\ result' = result + weight * v /\ weight' = weight * base
  BY DEF Upwards, Runs
<1>2. /\ weight \in Nat /\ weight > 0 /\ words \in Nat
      /\ left \in 0..(weight - 1) /\ right \in 0..(weight - 1)
      /\ result \in 0..(weight - 1)
  BY <1>1 DEF Typed, OthersInv, DecimalInv
<1>3. CarryIn' = Carry(flags') /\ CarryIn \in Int /\ Carry(flags') \in Int
  BY <1>1, <1>2 DEF CarryIn, Carry
<1>4. /\ left + weight * a \in 0..(weight * base - 1)
      /\ right + weight * b \in 0..(weight * base - 1)
      /\ result + weight * v \in 0..(weight * base - 1)
  BY <1>0, <1>2, Grows
<1> DEFINE c == CarryIn
           d == Carry(flags')
<1>5. /\ left \in Int /\ right \in Int /\ result \in Int /\ a \in Int /\ b \in Int
      /\ v \in Int /\ c \in Int /\ d \in Int
  BY <1>0, <1>2, <1>3
<1>6. r \in {"daa", "aaa"} =>
        (left + weight * a) + (right + weight * b)
           = (result + weight * v) + (weight * base) * d
  <2> SUFFICES ASSUME r \in {"daa", "aaa"}
               PROVE  (left + weight * a) + (right + weight * b)
                         = (result + weight * v) + (weight * base) * d
    OBVIOUS
  <2>1. left + right = result + weight * c /\ v + base * d = a + b + c
    BY <1>1 DEF OthersInv, DecimalInv, Adjusting, IsDigitSum
  <2> HIDE DEF c, d
  <2>2. QED  BY <1>2, <1>5, <2>1, TotalGrows
<1>7. r \in {"das", "aas"} =>
        (left + weight * a) - (right + weight * b)
           = (result + weight * v) - (weight * base) * d
  <2> SUFFICES ASSUME r \in {"das", "aas"}
               PROVE  (left + weight * a) - (right + weight * b)
                         = (result + weight * v) - (weight * base) * d
    OBVIOUS
  <2>1. left - right = result - weight * c /\ a - b - c = v - base * d
    BY <1>1 DEF OthersInv, DecimalInv, Adjusting, IsDigitRest
  <2> HIDE DEF c, d
  <2>2. QED  BY <1>2, <1>5, <2>1, RestGrows
<1>8. DecimalInv'
  BY <1>1, <1>3, <1>4, <1>6, <1>7 DEF DecimalInv
<1>9. Placed'
  BY <1>1, NextWord DEF OthersInv, Placed
<1>10. SignedInv' /\ SignedExact'
  BY <1>1 DEF SignedInv, SignedExact, ImulExact, IdivInvertsImul, SignedOnes, Adjusting
<1>11. QED  BY <1>8, <1>9, <1>10 DEF OthersInv

LEMMA ByteSums ==
  ASSUME Half = 128, NEW a \in 0..255, NEW b \in 0..255
  PROVE  /\ CarryIn \in {0, 1}
         /\ IsSum(Sum(a, b), a, b, CarryIn) /\ HasAux(Sum(a, b), a, b)
         /\ IsDifference(Difference(a, b), a, b, CarryIn)
         /\ HasAux(Difference(a, b), a, b)
<1>1. AluAssumption /\ a \in Word /\ b \in Word
  BY DEF AluAssumption, Word, M
<1>2. CarryIn \in {0, 1}
  BY DEF CarryIn, Carry
<1>3. IsSum(Sum(a, b), a, b, CarryIn)
  BY <1>1, AddExact, AdcExact DEF Sum, CarryIn
<1>4. IsDifference(Difference(a, b), a, b, CarryIn)
  BY <1>1, SubExact, SbbExact DEF Difference, CarryIn
<1>5. QED  BY <1>2, <1>3, <1>4, SumAux

LEMMA DecimalStep ==
  ASSUME WideAssumption, Typed, OthersInv,
         \/ \E a, b \in Packed : AddPacked(a, b) \/ SubPacked(a, b)
         \/ \E a, b \in Digits : AddDigits(a, b) \/ SubDigits(a, b)
  PROVE  OthersInv'
<1>1. Half = 128
  <2>1. routine \in Adjusting
    BY DEF AddPacked, SubPacked, AddDigits, SubDigits, Runs, Adjusting
  <2>2. routine \in Routines
    BY <2>1 DEF OthersInv, Placed, Adjusting
  <2>3. QED  BY <2>1, <2>2 DEF WideAssumption
<1>2. ASSUME NEW a \in Packed, NEW b \in Packed, AddPacked(a, b) \/ SubPacked(a, b)
      PROVE  OthersInv'
  <2>1. /\ \E h, l \in 0..9 : a = 16 * h + l
        /\ \E h, l \in 0..9 : b = 16 * h + l
    BY DEF WideAssumption
  <2>4. /\ a \in 0..255 /\ Decimal(a) \in 0..(100 - 1)
        /\ b \in 0..255 /\ Decimal(b) \in 0..(100 - 1)
    BY <2>1, PackedDigits
  <2>5. /\ CarryIn \in {0, 1}
        /\ IsSum(Sum(a, b), a, b, CarryIn) /\ HasAux(Sum(a, b), a, b)
        /\ IsDifference(Difference(a, b), a, b, CarryIn)
        /\ HasAux(Difference(a, b), a, b)
    BY <1>1, <2>4, ByteSums
  <2>6. CASE AddPacked(a, b)
    <3> DEFINE r == Sum(a, b)
    <3>0. IsSum(r, a, b, CarryIn) /\ HasAux(r, a, b)
      BY <2>5
    <3> HIDE DEF r
    <3> DEFINE t == DAA(r.flags, r.value)
               v == Decimal(t.value)
    <3>1. IsDigitSum(v, t.flags, Decimal(a), Decimal(b), CarryIn, 100)
      BY <1>1, <2>1, <2>5, <3>0, PackedSum
    <3>2. /\ Runs("daa") /\ flags' = t.flags /\ Upwards(Decimal(a), Decimal(b), v, 100)
          /\ UNCHANGED <<dx, trapped>>
      BY <2>6 DEF AddPacked, r
    <3> HIDE DEF t, v
    <3> DEFINE x == Decimal(a)
               y == Decimal(b)
    <3>3. x \in 0..(100 - 1) /\ y \in 0..(100 - 1)
      BY <2>4
    <3>4. /\ IsDigitSum(v, flags', x, y, CarryIn, 100) /\ Upwards(x, y, v, 100)
          /\ "daa" \in Adjusting /\ "daa" \in {"daa", "aaa"}
      BY <3>1, <3>2 DEF Adjusting
    <3> HIDE DEF x, y
    <3>5. QED  BY <3>2, <3>3, <3>4, DecimalGrows
  <2>7. CASE SubPacked(a, b)
    <3> DEFINE r == Difference(a, b)
    <3>0. IsDifference(r, a, b, CarryIn) /\ HasAux(r, a, b)
      BY <2>5
    <3> HIDE DEF r
    <3> DEFINE t == DAS(r.flags, r.value)
               v == Decimal(t.value)
    <3>1. IsDigitRest(v, t.flags, Decimal(a), Decimal(b), CarryIn, 100)
      BY <1>1, <2>1, <2>5, <3>0, PackedDifference
    <3>2. /\ Runs("das") /\ flags' = t.flags /\ Upwards(Decimal(a), Decimal(b), v, 100)
          /\ UNCHANGED <<dx, trapped>>
      BY <2>7 DEF SubPacked, r
    <3> HIDE DEF t, v
    <3> DEFINE x == Decimal(a)
               y == Decimal(b)
    <3>3. x \in 0..(100 - 1) /\ y \in 0..(100 - 1)
      BY <2>4
    <3>4. /\ IsDigitRest(v, flags', x, y, CarryIn, 100) /\ Upwards(x, y, v, 100)
          /\ "das" \in Adjusting /\ "das" \in {"das", "aas"}
      BY <3>1, <3>2 DEF Adjusting
    <3> HIDE DEF x, y
    <3>5. QED  BY <3>2, <3>3, <3>4, DecimalGrows
  <2>8. QED  BY <1>2, <2>6, <2>7
<1>3. ASSUME NEW a \in Digits, NEW b \in Digits, AddDigits(a, b) \/ SubDigits(a, b)
      PROVE  OthersInv'
  <2>1. a \in 0..9 /\ b \in 0..9 /\ a \in 0..255 /\ b \in 0..255
        /\ a \in 0..(10 - 1) /\ b \in 0..(10 - 1)
    <3>1. Digits \subseteq 0..9
      BY DEF WideAssumption
    <3>2. a \in 0..9 /\ b \in 0..9
      BY <1>3, <3>1, Zenon
    <3>3. QED  BY <3>2
  <2>2. /\ CarryIn \in {0, 1}
        /\ IsSum(Sum(a, b), a, b, CarryIn) /\ HasAux(Sum(a, b), a, b)
        /\ IsDifference(Difference(a, b), a, b, CarryIn)
        /\ HasAux(Difference(a, b), a, b)
    BY <1>1, <2>1, ByteSums
  <2>3. CASE AddDigits(a, b)
    <3> DEFINE r == Sum(a, b)
    <3>0. IsSum(r, a, b, CarryIn) /\ HasAux(r, a, b)
      BY <2>2
    <3> HIDE DEF r
    <3> DEFINE t == ASCII(r.flags, 0, r.value, 1)
               v == t.value
    <3>1. IsDigitSum(v, t.flags, a, b, CarryIn, 10)
      BY <1>1, <2>1, <2>2, <3>0, DigitSum
    <3>2. /\ Runs("aaa") /\ flags' = t.flags /\ Upwards(a, b, v, 10)
          /\ UNCHANGED <<dx, trapped>>
      BY <2>3 DEF AddDigits, r
    <3> HIDE DEF t, v
    <3>3. QED  BY <2>1, <3>1, <3>2, DecimalGrows DEF Adjusting
  <2>4. CASE SubDigits(a, b)
    <3> DEFINE r == Difference(a, b)
    <3>0. IsDifference(r, a, b, CarryIn) /\ HasAux(r, a, b)
      BY <2>2
    <3> HIDE DEF r
    <3> DEFINE t == ASCII(r.flags, 0, r.value, -1)
               v == t.value
    <3>1. IsDigitRest(v, t.flags, a, b, CarryIn, 10)
      BY <1>1, <2>1, <2>2, <3>0, DigitDifference
    <3>2. /\ Runs("aas") /\ flags' = t.flags /\ Upwards(a, b, v, 10)
          /\ UNCHANGED <<dx, trapped>>
      BY <2>4 DEF SubDigits, r
    <3> HIDE DEF t, v
    <3>3. QED  BY <2>1, <3>1, <3>2, DecimalGrows DEF Adjusting
  <2>5. QED  BY <1>3, <2>3, <2>4
<1>4. QED  BY <1>2, <1>3

LEMMA ImulStep ==
  ASSUME WideAssumption, WideInv, OthersInv, NEW a \in Words, NEW b \in Words,
         ImulWord(a, b)
  PROVE  OthersInv'
<1> DEFINE p == IMUL(a, b)
<1>0. AluAssumption /\ a \in Word /\ b \in Word /\ M \in Nat
  BY Widths DEF WideAssumption
<1>1. /\ p.value \in Word /\ p.high \in Word
      /\ Signed(p.high) * M + p.value = Signed(a) * Signed(b)
      /\ Jumps(p.flags).JC <=> Signed(a) * Signed(b) # Signed(p.value)
      /\ Jumps(p.flags).JO <=> Signed(a) * Signed(b) # Signed(p.value)
  BY <1>0, ImulIs
<1>2. /\ routine \in SignedOnes /\ Runs(routine) /\ words = 0
      /\ flags' = p.flags /\ dx' = p.high
      /\ Upwards(a, b, p.value, M) /\ trapped' = trapped /\ ~trapped
  BY DEF ImulWord, Runs, SignedOnes
<1> HIDE DEF p
<1>3. weight = 1 /\ left = 0 /\ right = 0 /\ result = 0
  BY <1>2 DEF OthersInv, SignedInv
<1>4. a \in Int /\ b \in Int /\ p.value \in Int
  BY <1>0, <1>1, WordInt
<1>5. /\ left' = a /\ right' = b /\ result' = p.value /\ weight' = M /\ words' = 1
      /\ routine' = routine /\ ready' = FALSE
  <2> DEFINE v == p.value
  <2> HIDE DEF v
  <2>1. 0 + 1 * a = a /\ 0 + 1 * b = b /\ 0 + 1 * v = v /\ 1 * M = M /\ 0 + 1 = 1
    BY <1>0, <1>4 DEF v
  <2>2. QED  BY <1>2, <1>3, <2>1 DEF Upwards, v
<1>6. words' = words + 1 /\ trapped' \in BOOLEAN /\ dx' \in Word
  BY <1>1, <1>2, <1>5 DEF OthersInv, Placed
<1>7. Placed'
  BY <1>2, <1>5, <1>6, NextWord DEF OthersInv, WideInv
<1>8. DecimalInv'
  BY <1>2, <1>5 DEF DecimalInv, SignedOnes, Adjusting
<1>9. SignedInv'
  BY <1>0, <1>1, <1>2, <1>5 DEF SignedInv
<1>10. ImulExact'
  <2>1. LET p1 == Signed(left') * Signed(right')
        IN  /\ Signed(dx') * M + result' = p1
            /\ Jumps(flags').JC <=> p1 # Signed(result')
            /\ Jumps(flags').JO <=> p1 # Signed(result')
    BY <1>1, <1>2, <1>5
  <2>2. Jumps(flags').JO \in BOOLEAN /\ Jumps(flags').JC \in BOOLEAN
    BY DEF Jumps
  <2>3. Jumps(flags').JO = Jumps(flags').JC
    BY <2>1, <2>2
  <2>4. QED  BY <2>1, <2>3 DEF ImulExact
<1>11. IdivInvertsImul'
  <2>1. words' # 2
    BY <1>5
  <2>2. QED  BY <2>1 DEF IdivInvertsImul
<1>12. QED  BY <1>7, <1>8, <1>9, <1>10, <1>11 DEF OthersInv, SignedExact

LEMMA IdivTyped ==
  ASSUME AluAssumption, NEW invert, NEW high \in Word, NEW value \in Word, NEW b \in Word
  PROVE  LET q == IDIV(invert, high, value, b)
         IN  q.trap \in BOOLEAN /\ q.value \in Word /\ q.high \in Word
<1>0. M \in Nat /\ M > 0 /\ Word = 0..(M - 1) /\ Half \in Nat
  BY Widths
<1> DEFINE d == high * M + value
           s == IF d >= Half * M THEN d - M * M ELSE d
           t == IF s >= 0 THEN s \div b ELSE -((-s) \div b)
           q == IF invert THEN -t ELSE t
<1>1. IDIV(invert, high, value, b)
        = IF d = Half * M \/ b = 0 \/ q \notin -Half..(Half - 1)
          THEN [trap |-> TRUE, value |-> value, high |-> high]
          ELSE [trap |-> FALSE, value |-> q % M, high |-> (s - b * t) % M]
  BY DEF IDIV, Trapped
<1>2. b # 0 => t \in Int /\ s \in Int /\ b \in Int
  <2>1. b \in Nat /\ high \in Nat /\ value \in Nat
    BY <1>0
  <2>2. d \in Int /\ M * M \in Int
    BY <1>0, <2>1
  <2> HIDE DEF d
  <2>3. s \in Int
    BY <1>0, <2>1, <2>2
  <2> HIDE DEF s
  <2>4. QED  BY <2>1, <2>3
<1>3. b # 0 => q \in Int /\ s - b * t \in Int
  <2> HIDE DEF s, t
  <2>1. QED  BY <1>2
<1> HIDE DEF d, s, t, q
<1>4. b # 0 => q % M \in 0..(M - 1) /\ (s - b * t) % M \in 0..(M - 1)
  <2> DEFINE x == s - b * t
  <2> HIDE DEF x
  <2>1. b # 0 => q % M \in 0..(M - 1) /\ x % M \in 0..(M - 1)
    BY <1>0, <1>3 DEF x
  <2>2. QED  BY <2>1 DEF x
<1>5. QED  BY <1>0, <1>1, <1>4

LEMMA IdivStep ==
  ASSUME WideAssumption, WideInv, OthersInv, IdivWord
  PROVE  OthersInv'
<1> DEFINE invert == routine = "imul rep"
           q == IDIV(invert, dx, result, right)
<1>0. AluAssumption /\ invert \in BOOLEAN
  BY DEF WideAssumption
<1>1. /\ routine \in SignedOnes /\ routine' = routine /\ words = 1 /\ words < MaxWords
      /\ words' = 2 /\ ready' = FALSE /\ trapped' = q.trap /\ dx' = q.high
      /\ result' = q.value
      /\ UNCHANGED <<weight, left, right>>
  BY DEF IdivWord, Runs, SignedOnes
<1> HIDE DEF q, invert
<1>2. /\ weight = M /\ left \in Word /\ right \in Word /\ result \in Word /\ dx \in Word
      /\ Signed(dx) * M + result = Signed(left) * Signed(right)
  <2>1. words = 1 /\ routine \in SignedOnes /\ words # 0
    BY <1>1
  <2>2. SignedInv /\ dx \in Word
    BY DEF OthersInv, Placed
  <2>3. QED  BY <2>1, <2>2 DEF SignedInv
<1>3. q.trap \in BOOLEAN /\ q.value \in Word /\ q.high \in Word
  BY <1>0, <1>2, IdivTyped DEF q
<1>4. ~Negative(right) /\ right # 0 =>
        /\ q.trap <=> (invert /\ left = Half)
        /\ ~q.trap => q.high = 0 /\ q.value = IF invert THEN (M - left) % M ELSE left
  BY <1>0, <1>2, IdivIs DEF q
<1>5. Placed'
  <2>1. words' \in 0..MaxWords
    BY <1>1 DEF WideAssumption
  <2>2. QED  BY <1>1, <1>3, <2>1 DEF OthersInv, Placed
<1>6. DecimalInv'
  BY <1>1 DEF DecimalInv, SignedOnes, Adjusting
<1>7. SignedInv'
  BY <1>1, <1>2, <1>3 DEF SignedInv
<1>8. ImulExact'
  <2>1. words' # 1
    BY <1>1
  <2>2. QED  BY <2>1 DEF ImulExact
<1>9. ASSUME ~Negative(right'), right' # 0 PROVE IdivInvertsImul'
  <2>1. /\ q.trap <=> (invert /\ left = Half)
        /\ ~q.trap => q.high = 0 /\ q.value = IF invert THEN (M - left) % M ELSE left
    BY <1>1, <1>4, <1>9
  <2>2. /\ trapped' <=> (routine' = "imul rep" /\ left' = Half)
        /\ ~trapped' => /\ dx' = 0
                        /\ result' = IF routine' = "imul rep" THEN (M - left') % M
                                     ELSE left'
    BY <1>1, <2>1 DEF invert
  <2>3. QED  BY <2>2 DEF IdivInvertsImul
<1>10. right' = 0 => IdivInvertsImul'
  BY DEF IdivInvertsImul
<1>11. SignedExact'
  BY <1>8, <1>9, <1>10 DEF SignedExact
<1>12. QED  BY <1>5, <1>6, <1>7, <1>11 DEF OthersInv

LEMMA OthersStep ==
  ASSUME WideAssumption, WideInv, OthersInv, WideInv', [WideNext]_wideVars
  PROVE  OthersInv'
<1>1. ASSUME NEW a \in Words, NEW b \in Words,
             AddWords(a, b) \/ SubWords(a, b) \/ NegWord(b)
      PROVE  OthersInv'
  BY <1>1, BinaryStep
<1>2. ASSUME NEW a \in Words,
             MulWord(a) \/ DivWord(a) \/ ShlWord(a) \/ ShrWord(a) \/ SarWord(a)
      PROVE  OthersInv'
  BY <1>2, BinaryStep
<1>3. ASSUME NEW a \in Words, NEW b \in Words, ImulWord(a, b) PROVE OthersInv'
  BY <1>3, ImulStep
<1>4. CASE \/ \E a, b \in Packed : AddPacked(a, b) \/ SubPacked(a, b)
           \/ \E a, b \in Digits : AddDigits(a, b) \/ SubDigits(a, b)
  BY <1>4, DecimalStep DEF WideInv
<1>5. CASE IdivWord
  BY <1>5, IdivStep
<1>6. ASSUME NEW p \in Words, Advance(p) PROVE OthersInv'
  <2>1. ready' = TRUE
        /\ UNCHANGED <<routine, factor, dx, words, weight, left, right, result, trapped>>
    BY <1>6 DEF Advance
  <2>2. CarryIn' = CarryIn
    <3>1. Carry(flags') = Carry(flags)
      BY <1>6, PointersKeepCarry DEF Advance, WideInv, Typed
    <3>2. QED  BY <2>1, <3>1 DEF CarryIn
  <2>3. DecimalInv'
    BY <2>1, <2>2 DEF OthersInv, DecimalInv
  <2>4. Placed' /\ SignedInv' /\ SignedExact'
    BY <2>1 DEF OthersInv, Placed, SignedInv, SignedExact, ImulExact, IdivInvertsImul
  <2>5. QED  BY <2>3, <2>4 DEF OthersInv
<1>7. CASE Start
  <2>1. /\ routine' \in Routines /\ dx' = 0 /\ words' = 0 /\ weight' = 1 /\ left' = 0
        /\ right' = 0 /\ result' = 0 /\ trapped' = FALSE /\ ready' = ready /\ CarryIn' = 0
    BY <1>7 DEF Start, CarryIn
  <2>2. 0 \in Word /\ 0 \in 0..MaxWords
    BY Widths DEF WideAssumption
  <2>3. Placed'
    BY <2>1, <2>2 DEF OthersInv, Placed
  <2>4. DecimalInv'
    BY <2>1 DEF DecimalInv
  <2>5. SignedInv'
    BY <2>1 DEF SignedInv
  <2>6. SignedExact'
    <3>1. words' # 1 /\ words' # 2
      BY <2>1
    <3>2. QED  BY <3>1 DEF SignedExact, ImulExact, IdivInvertsImul
  <2>7. QED  BY <2>3, <2>4, <2>5, <2>6 DEF OthersInv
<1>8. CASE UNCHANGED wideVars
  <2>1. UNCHANGED <<routine, flags, dx, words, weight, left, right, result, ready,
                    trapped>>
    BY <1>8 DEF wideVars
  <2>2. CarryIn' = CarryIn
    BY <2>1 DEF CarryIn
  <2>3. DecimalInv'
    BY <2>1, <2>2 DEF OthersInv, DecimalInv
  <2>4. Placed' /\ SignedInv' /\ SignedExact'
    BY <2>1 DEF OthersInv, Placed, SignedInv, SignedExact, ImulExact, IdivInvertsImul
  <2>5. QED  BY <2>3, <2>4 DEF OthersInv
<1>9. QED
  BY <1>1, <1>2, <1>3, <1>4, <1>5, <1>6, <1>7, <1>8 DEF WideNext, WordNext

LEMMA OthersHold ==
  ASSUME WideAssumption PROVE WideSpec => [](WideInv /\ OthersInv)
<1>1. WideInit => OthersInv
  <2> SUFFICES ASSUME WideInit PROVE OthersInv
    OBVIOUS
  <2>1. 0 \in Word /\ 0 \in 0..MaxWords
    BY Widths DEF WideAssumption
  <2>2. QED
    BY <2>1
       DEF WideInit, OthersInv, Placed, DecimalInv, SignedInv, SignedExact, ImulExact,
           IdivInvertsImul, Adjusting, SignedOnes, Binary
<1>2. WideInv /\ OthersInv /\ WideInv' /\ [WideNext]_wideVars => OthersInv'
  BY OthersStep
<1>3. QED  BY <1>1, <1>2, WideSafe, PTL DEF WideSpec

\* Decimal numbers of any length, and signed products and the quotients they are made of,
\* are exact (alu.odin:161-266, 351-378, 441-505).
THEOREM WideResultsExact ==
  ASSUME WideAssumption PROVE WideSpec => [](DecimalExact /\ SignedExact)
<1>1. OthersInv => DecimalExact /\ SignedExact
  BY DEF OthersInv, DecimalInv, DecimalExact, CarryIn, Adjusting
<1>2. QED  BY <1>1, OthersHold, PTL

\* Every number is below its weight, whatever the routine (WideTypeOK).
THEOREM WideTyped ==
  ASSUME WideAssumption PROVE WideSpec => []WideTypeOK
<1>1. WideInv /\ OthersInv => WideTypeOK
  <2> SUFFICES ASSUME WideInv, OthersInv PROVE WideTypeOK
    OBVIOUS
  <2>1. weight \in Nat \ {0} /\ flags \subseteq ArithFlag /\ factor \in Word
    BY DEF WideInv, Typed
  <2>2. left \in 0..(weight - 1) /\ right \in Nat /\ result \in 0..(weight - 1)
    <3>1. CASE routine \in Binary
      BY <2>1, <3>1 DEF WideInv, NumbersTyped
    <3>2. CASE routine \in Adjusting
      BY <2>1, <3>2 DEF OthersInv, DecimalInv
    <3>3. CASE routine \in SignedOnes
      BY <2>1, <3>3, Widths DEF OthersInv, SignedInv, WideAssumption
    <3>4. CASE routine \notin Binary \cup Adjusting \cup SignedOnes
      BY <2>1, <3>4 DEF OthersInv, Placed
    <3>5. QED  BY <3>1, <3>2, <3>3, <3>4
  <2>3. QED  BY <2>1, <2>2 DEF OthersInv, Placed, WideTypeOK
<1>2. QED  BY <1>1, OthersHold, PTL
-----------------------------------------------------------------------------
(* The arithmetic. *)

\* A guest's decimal numbers of any length are added and subtracted exactly, signed
\* products are exact, and dividing one by a factor that is not negative gives the other
\* (alu.odin:161-266, 351-378, 441-505).
THEOREM ResultsAreExact == Spec => []ResultsExact
<1>1. Spec => WideSpec
  BY StepOfOne, PTL DEF Spec, Init, WideSpec
<1>2. WideAssumption
  BY PartsAssumption
<1>3. WideSpec => [](DecimalExact /\ SignedExact)
  BY <1>2, WideResultsExact
<1>4. (DecimalExact /\ SignedExact) => ResultsExact
  BY DEF ResultsExact
<1>5. QED  BY <1>1, <1>3, <1>4, PTL
-----------------------------------------------------------------------------
(* The debugger's commands: numbers, texts and binary data. *)

\* A set of natural numbers has a least element.
LEMMA Least ==
  ASSUME NEW S \in SUBSET Nat, S # {}
  PROVE  \E x \in S : \A y \in S : x <= y
<1> DEFINE R == OpToRel(<, Nat)
<1>1. \A x, y \in Nat : <<y, x>> \in R <=> y < x
  BY DEF OpToRel
<1> HIDE DEF R
<1>2. IsWellFoundedOn(R, Nat)
  BY NatLessThanWellFounded DEF R
<1>3. PICK x \in S : \A y \in S : ~ (<<y, x>> \in R)
  BY <1>2, WFMin
<1>4. \A y \in S : x <= y
  <2> TAKE y \in S
  <2>1. x \in Nat /\ y \in Nat /\ ~(y < x)
    BY <1>1, <1>3, Zenon
  <2>2. QED  BY <2>1
<1>5. QED  BY <1>4

\* What a set of numbers holds that is closed under the successor.
LEMMA Climb ==
  ASSUME NEW n \in Nat, NEW S, 0 \in S, \A m \in 0..(n - 1) : m \in S => m + 1 \in S
  PROVE  0..n \subseteq S
<1> DEFINE T == {m \in 0..n : m \notin S}
<1>1. SUFFICES ASSUME T # {} PROVE FALSE
  OBVIOUS
<1>2. T \in SUBSET Nat
  OBVIOUS
<1>3. PICK x \in T : \A y \in T : x <= y
  BY <1>1, <1>2, Least
<1>4. x \in 1..n /\ x \notin S
  BY <1>3
<1>5. x - 1 \in 0..(n - 1) /\ x - 1 \notin T
  BY <1>3, <1>4
<1>6. x - 1 \in S
  BY <1>5
<1>7. (x - 1) + 1 \in S
  BY <1>5, <1>6
<1>8. QED  BY <1>4, <1>7

\* The only quotient and rest.
LEMMA QuotientIs ==
  ASSUME NEW m \in Nat, m > 0, NEW q \in Nat, NEW r \in 0..(m - 1)
  PROVE  (m * q + r) \div m = q /\ (m * q + r) % m = r
<1> DEFINE x == m * q + r
<1>1. m * q \in Nat /\ x \in Nat
  OBVIOUS
<1>2. PICK p \in Nat, s \in 0..(m - 1) : p = x \div m /\ s = x % m /\ x = m * p + s
  BY <1>1, DivMod
<1>3. p <= q
  <2>1. SUFFICES ASSUME p >= q + 1 PROVE FALSE
    OBVIOUS
  <2>2. m * p >= m * (q + 1) /\ m * (q + 1) = m * q + m
    BY <2>1
  <2>3. QED  BY <1>1, <1>2, <2>2
<1>4. q <= p
  <2>1. SUFFICES ASSUME q >= p + 1 PROVE FALSE
    OBVIOUS
  <2>2. m * q >= m * (p + 1) /\ m * (p + 1) = m * p + m
    BY <2>1
  <2>3. QED  BY <1>1, <1>2, <2>2
<1>5. p = q
  BY <1>3, <1>4
<1>6. s = r
  BY <1>1, <1>2, <1>5
<1>7. QED  BY <1>2, <1>5, <1>6

\* Dividing by a product is dividing by its factors.
LEMMA DivTwice ==
  ASSUME NEW m \in Nat, m > 0, NEW n \in Nat, n > 0, NEW x \in Nat
  PROVE  x \div (m * n) = (x \div m) \div n
<1> DEFINE q == x \div m
           p == q \div n
           s == q % n
           r == x % m
<1>1. q \in Nat /\ r \in 0..(m - 1) /\ x = m * q + r
  BY DivMod
<1>2. p \in Nat /\ s \in 0..(n - 1) /\ q = n * p + s
  BY <1>1, DivMod
<1> HIDE DEF q, p, s, r
<1>3. m * n \in Nat /\ m * n > 0
  OBVIOUS
<1>4. m * s + r \in 0..(m * n - 1)
  <2>1. m * s <= m * (n - 1) /\ m * (n - 1) = m * n - m /\ m * s \in Nat
    BY <1>2
  <2>2. QED  BY <1>1, <1>3, <2>1
<1>5. x = (m * n) * p + (m * s + r)
  <2>1. m * (n * p + s) = (m * n) * p + m * s
    BY <1>2
  <2>2. QED  BY <1>1, <1>2, <1>4, <2>1
<1>6. x \div (m * n) = p
  BY <1>2, <1>3, <1>4, <1>5, QuotientIs
<1>7. QED  BY <1>6 DEF p, q

\* The digits of a number to the base m.
LEMMA FourDigits ==
  ASSUME NEW m \in Nat, m > 0, NEW v \in Nat, v < m * (m * (m * m))
  PROVE  /\ v % m \in 0..(m - 1) /\ (v \div m) % m \in 0..(m - 1)
         /\ (v \div (m * m)) % m \in 0..(m - 1)
         /\ (v \div (m * m * m)) % m \in 0..(m - 1)
         /\ (v % m) + m * (((v \div m) % m) + m * (((v \div (m * m)) % m)
              + m * ((v \div (m * m * m)) % m))) = v
<1> DEFINE q == v \div m
           p == q \div m
           o == p \div m
           r == v % m
           s == q % m
           t == p % m
<1>1. q \in Nat /\ r \in 0..(m - 1) /\ v = m * q + r
  BY DivMod
<1>2. p \in Nat /\ s \in 0..(m - 1) /\ q = m * p + s
  BY <1>1, DivMod
<1>3. o \in Nat /\ t \in 0..(m - 1) /\ p = m * o + t
  BY <1>2, DivMod
<1>4. /\ m * m \in Nat /\ m * m > 0 /\ m * (m * m) \in Nat /\ m * m * m = m * (m * m)
  OBVIOUS
<1>5. v \div (m * m) = p
  BY DivTwice
<1>6. v \div (m * (m * m)) = o
  <2>1. v \div (m * (m * m)) = q \div (m * m)
    BY <1>4, DivTwice
  <2>2. q \div (m * m) = o
    BY <1>1, DivTwice
  <2>3. QED  BY <2>1, <2>2
<1>7. o < m
  <2>1. q < m * (m * m)
    BY <1>4, DivBelow
  <2>2. p < m * m
    BY <1>1, <1>4, <2>1, DivBelow
  <2>3. QED  BY <1>2, <2>2, DivBelow
<1>8. o % m = o /\ o \in 0..(m - 1)
  BY <1>3, <1>7
<1>9. /\ v % m = r /\ (v \div m) % m = s /\ (v \div (m * m)) % m = t
      /\ (v \div (m * m * m)) % m = o
  BY <1>4, <1>5, <1>6, <1>8
<1> HIDE DEF q, p, o, r, s, t
<1>10. r + m * (s + m * (t + m * o)) = v
  <2>1. t + m * o = p
    <3>1. m * o \in Nat
      BY <1>3
    <3>2. QED  BY <1>3, <3>1
  <2>2. s + m * p = q
    <3>1. m * p \in Nat
      BY <1>2
    <3>2. QED  BY <1>2, <3>1
  <2>3. r + m * q = v
    <3>1. m * q \in Nat
      BY <1>1
    <3>2. QED  BY <1>1, <3>1
  <2>4. QED  BY <2>1, <2>2, <2>3
<1>11. QED  BY <1>1, <1>2, <1>3, <1>8, <1>9, <1>10

\* A number is read two digits at a time.
LEMMA TwoDigits ==
  ASSUME NEW b \in Nat, b > 1, NEW v \in Nat, NEW x \in 0..(b * b - 1), NEW w \in Nat,
         v * (b * b) + x < w
  PROVE  /\ x \div b \in 0..(b - 1) /\ x % b \in 0..(b - 1)
         /\ (x \div b) * b + (x % b) = x
         /\ (((v * b + x \div b) % w) * b + (x % b)) % w = v * (b * b) + x
<1> DEFINE h == x \div b
           l == x % b
           y == v * b + h
<1>1. x \in Nat /\ b * b \in Nat /\ x < b * b
  OBVIOUS
<1>2. h \in Nat /\ l \in 0..(b - 1) /\ x = b * h + l /\ h < b
  BY <1>1, DivMod, DivBelow
<1> HIDE DEF h, l
<1>3. v * b \in Nat /\ v * (b * b) \in Nat /\ y \in Nat
  BY <1>2
<1>4. y * b = v * (b * b) + b * h
  BY <1>2
<1>5. y <= y * b
  BY <1>3
<1>6. y * b + l = v * (b * b) + x /\ y * b + l \in Nat /\ y * b \in Nat
  BY <1>1, <1>2, <1>3, <1>4
<1> HIDE DEF y
<1>7. y < w /\ y * b + l < w
  BY <1>2, <1>3, <1>5, <1>6
<1>8. y % w = y /\ (y * b + l) % w = y * b + l
  BY <1>3, <1>6, <1>7
<1>9. (((v * b + h) % w) * b + l) % w = v * (b * b) + x
  BY <1>6, <1>8 DEF y
<1>10. h * b + l = x
  BY <1>2
<1>11. h \in 0..(b - 1)
  BY <1>2
<1>12. QED  BY <1>2, <1>9, <1>10, <1>11, Zenon DEF h, l
-----------------------------------------------------------------------------
(* Folds. *)

LEMMA DebuggerMax ==
  ASSUME NEW S \in SUBSET Int, NEW x \in S, \A y \in S : y <= x
  PROVE  Debugger!Max(S) = x
<1>1. \A z \in S : (\A y \in S : z >= y) => z = x
  OBVIOUS
<1>2. QED  BY <1>1 DEF Debugger!Max

\* A part of 1..n has a greatest element.
LEMMA Topmost ==
  ASSUME NEW n \in Nat, NEW s \in SUBSET (1..n), s # {}
  PROVE  \E y \in s : \A x \in s : x <= y
<1> DEFINE T == {n - x : x \in s}
<1>1. T \in SUBSET Nat
  OBVIOUS
<1>2. T # {}
  <2>1. PICK x \in s : TRUE
    OBVIOUS
  <2>2. n - x \in T
    OBVIOUS
  <2>3. QED  BY <2>2
<1>3. PICK t \in T : \A u \in T : t <= u
  BY <1>1, <1>2, Least
<1>4. PICK y \in s : t = n - y
  BY <1>3
<1>5. ASSUME NEW x \in s PROVE x <= y
  <2>1. n - x \in T /\ x \in 1..n /\ y \in 1..n
    OBVIOUS
  <2>2. n - y <= n - x
    BY <1>3, <1>4, <2>1
  <2>3. QED  BY <2>1, <2>2
<1>6. QED  BY <1>5

\* What a fold over 1..n with the functions of a table gives for every part of it.
Tabled(g, n, start, table, V) ==
  /\ g \in [SUBSET (1..n) -> V]
  /\ \A s \in SUBSET (1..n) :
       g[s] = IF s = {} THEN start
              ELSE table[Debugger!Max(s)][g[s \ {Debugger!Max(s)}]]

LEMMA TableExists ==
  ASSUME NEW V, NEW start \in V, NEW n \in Nat, NEW table \in [1..n -> [V -> V]]
  PROVE  \E g : Tabled(g, n, start, table, V)
<1> DEFINE S == {m \in 0..n : \E g : Tabled(g, m, start, table, V)}
<1>1. 0 \in S
  <2>1. \A s \in SUBSET (1..0) : s = {}
    OBVIOUS
  <2>2. Tabled([s \in SUBSET (1..0) |-> start], 0, start, table, V)
    BY <2>1 DEF Tabled
  <2>3. QED  BY <2>2
<1>2. ASSUME NEW m \in 0..(n - 1), m \in S PROVE m + 1 \in S
  <2>1. PICK g : Tabled(g, m, start, table, V)
    BY <1>2
  <2> DEFINE h == [s \in SUBSET (1..m + 1) |->
                     IF m + 1 \in s THEN table[m + 1][g[s \ {m + 1}]] ELSE g[s]]
  <2>2. ASSUME NEW s \in SUBSET (1..m + 1)
        PROVE  /\ h[s] \in V
               /\ h[s] = IF s = {} THEN start
                         ELSE table[Debugger!Max(s)][h[s \ {Debugger!Max(s)}]]
    <3>1. CASE m + 1 \in s
      <4>1. s \in SUBSET Int /\ \A y \in s : y <= m + 1
        OBVIOUS
      <4>2. Debugger!Max(s) = m + 1
        BY <3>1, <4>1, DebuggerMax
      <4>3. s \ {m + 1} \in SUBSET (1..m + 1) /\ m + 1 \notin s \ {m + 1}
            /\ s \ {m + 1} \in SUBSET (1..m)
        OBVIOUS
      <4>4. h[s \ {m + 1}] = g[s \ {m + 1}] /\ g[s \ {m + 1}] \in V
        BY <2>1, <4>3 DEF Tabled
      <4>5. m + 1 \in 1..n
        OBVIOUS
      <4>6. table[m + 1][g[s \ {m + 1}]] \in V
        BY <4>4, <4>5
      <4>7. h[s] = table[m + 1][g[s \ {m + 1}]]
        BY <3>1
      <4> HIDE DEF h
      <4>8. QED  BY <3>1, <4>2, <4>4, <4>6, <4>7
    <3>2. CASE m + 1 \notin s
      <4>1. s \in SUBSET (1..m)
        BY <3>2
      <4>2. h[s] = g[s] /\ g[s] \in V
        BY <2>1, <3>2, <4>1 DEF Tabled
      <4>3. g[s] = IF s = {} THEN start
                   ELSE table[Debugger!Max(s)][g[s \ {Debugger!Max(s)}]]
        BY <2>1, <4>1 DEF Tabled
      <4>4. s \ {Debugger!Max(s)} \in SUBSET (1..m + 1)
            /\ m + 1 \notin s \ {Debugger!Max(s)}
        BY <3>2
      <4>5. h[s \ {Debugger!Max(s)}] = g[s \ {Debugger!Max(s)}]
        BY <4>4
      <4> HIDE DEF h
      <4>6. QED  BY <4>2, <4>3, <4>5
    <3>3. QED  BY <3>1, <3>2
  <2>3. DOMAIN h = SUBSET (1..m + 1) /\ h = [s \in SUBSET (1..m + 1) |-> h[s]]
    OBVIOUS
  <2> HIDE DEF h
  <2>4. h \in [SUBSET (1..m + 1) -> V]
    BY <2>2, <2>3
  <2>5. Tabled(h, m + 1, start, table, V)
    BY <2>2, <2>4 DEF Tabled
  <2>6. QED  BY <2>5
<1> HIDE DEF S
<1>3. 0..n \subseteq S
  BY <1>1, <1>2, Climb
<1>4. n \in S
  BY <1>3
<1>5. QED  BY <1>4 DEF S
-----------------------------------------------------------------------------
(* Texts of digits. *)

LEMMA DebuggerSizes ==
  ASSUME Debugger!DataAssumption
  PROVE  LET M2 == DigitBase * DigitBase
         IN  /\ DigitBase \in Nat /\ DigitBase > 1 /\ M2 \in Nat /\ M2 > 1
             /\ Debugger!Octet = 0..(M2 - 1) /\ Debugger!Digit = 0..(DigitBase - 1)
             /\ Debugger!Wide \in Nat /\ Debugger!Wide > 1
             /\ Debugger!Wide = M2 * (M2 * (M2 * M2))
             /\ Debugger!Octet \subseteq Nat /\ Debugger!Digit \subseteq Nat
<1> DEFINE B == DigitBase
           M2 == B * B
<1>1. B \in Nat /\ B > 1 /\ B \in Int
  BY DEF Debugger!DataAssumption
<1>2. \A a, b \in Nat : a > 1 /\ b > 1 => a * b \in Nat /\ a * b > 1
  <2> TAKE a \in Nat, b \in Nat
  <2> HAVE a > 1 /\ b > 1
  <2>1. a * b >= a * 2 /\ a * b \in Nat
    OBVIOUS
  <2>2. QED  BY <2>1
<1>3. M2 \in Nat /\ M2 > 1
  BY <1>1, <1>2
<1>4. M2 * (M2 * (M2 * M2)) \in Nat /\ M2 * (M2 * (M2 * M2)) > 1
  <2> HIDE DEF M2
  <2>1. M2 * M2 \in Nat /\ M2 * M2 > 1
    BY <1>2, <1>3
  <2>2. M2 * (M2 * M2) \in Nat /\ M2 * (M2 * M2) > 1
    BY <1>2, <1>3, <2>1
  <2>3. QED  BY <1>2, <1>3, <2>2
<1>5. Debugger!Wide = M2 * (M2 * (M2 * M2))
  <2>1. Debugger!Wide = B * B * B * B * B * B * B * B
    BY DEF Debugger!Wide
  <2> HIDE DEF B
  <2>2. B * B * B * B * B * B * B * B = M2 * (M2 * (M2 * M2))
    BY <1>1
  <2>3. QED  BY <2>1, <2>2
<1>6. Debugger!Octet = 0..(M2 - 1) /\ Debugger!Digit = 0..(B - 1)
  BY DEF Debugger!Octet, Debugger!Digit
<1> HIDE DEF B
<1>7. 0..(M2 - 1) \subseteq Nat /\ 0..(B - 1) \subseteq Nat
  BY <1>1, <1>3
<1>8. QED  BY <1>1, <1>3, <1>4, <1>5, <1>6, <1>7 DEF B

\* The bytes of a number give it back.
LEMMA BytesBack ==
  ASSUME Debugger!DataAssumption, NEW v \in 0..(Debugger!Wide - 1)
  PROVE  /\ Debugger!Bytes(v) \in Seq(Debugger!Octet) /\ Len(Debugger!Bytes(v)) = 4
         /\ Debugger!Value(Debugger!Bytes(v)) = v
<1> DEFINE M2 == DigitBase * DigitBase
           s == Debugger!Bytes(v)
<1>1. /\ M2 \in Nat /\ M2 > 1 /\ Debugger!Octet = 0..(M2 - 1)
      /\ Debugger!Wide \in Nat /\ Debugger!Wide = M2 * (M2 * (M2 * M2))
  BY DebuggerSizes
<1>2. s = <<v % M2, (v \div M2) % M2, (v \div (M2 * M2)) % M2,
            (v \div (M2 * M2 * M2)) % M2>>
  BY DEF Debugger!Bytes
<1>3. Debugger!Value(s) = s[1] + M2 * (s[2] + M2 * (s[3] + M2 * s[4]))
  BY DEF Debugger!Value
<1> HIDE DEF M2, s
<1>4. /\ v % M2 \in Debugger!Octet /\ (v \div M2) % M2 \in Debugger!Octet
      /\ (v \div (M2 * M2)) % M2 \in Debugger!Octet
      /\ (v \div (M2 * M2 * M2)) % M2 \in Debugger!Octet
      /\ (v % M2) + M2 * (((v \div M2) % M2) + M2 * (((v \div (M2 * M2)) % M2)
           + M2 * ((v \div (M2 * M2 * M2)) % M2))) = v
  <2>1. M2 > 0 /\ v \in Nat /\ v < M2 * (M2 * (M2 * M2))
    BY <1>1
  <2>2. QED  BY <1>1, <2>1, FourDigits
<1>5. s \in Seq(Debugger!Octet) /\ Len(s) = 4
  BY <1>2, <1>4
<1>6. Debugger!Value(s) = v
  BY <1>2, <1>3, <1>4
<1>7. QED  BY <1>5, <1>6 DEF s

\* What gdb_strtol accumulates over a text of digits.
LEMMA NumberRuns ==
  ASSUME Debugger!DataAssumption, NEW text \in Seq(Debugger!Digit)
  PROVE  \E run : /\ run[0] = 0 /\ \A i \in 0..Len(text) : run[i] \in Nat
                  /\ \A i \in 1..Len(text) :
                       run[i] = (run[i - 1] * DigitBase + text[i]) % Debugger!Wide
                  /\ run[Len(text)] = Debugger!Number(text).value
<1> DEFINE n == Len(text)
           B == DigitBase
           W == Debugger!Wide
           Iterates(g) == g = [s \in SUBSET (1..n) |->
             IF s = {} THEN 0
             ELSE (g[s \ {Debugger!Max(s)}] * B + text[Debugger!Max(s)]) % W]
           c == CHOOSE g : Iterates(g)
           table == [i \in 1..n |-> [v \in Nat |-> (v * B + text[i]) % W]]
<1>1. n \in Nat /\ DOMAIN text = 1..n /\ \A i \in 1..n : text[i] \in Debugger!Digit
  OBVIOUS
<1>2. Debugger!Number(text).value = c[1..n]
  <2>1. {i \in 1..n : text[i] \notin Debugger!Digit} = {}
    BY <1>1
  <2>2. Debugger!SelectInSeq(text, LAMBDA x : x \notin Debugger!Digit) = 0
    BY <2>1 DEF Debugger!SelectInSeq
  <2>3. SubSeq(text, 1, n) = text
    BY SubSeqFull
  <2>4. Debugger!Number(text).value
          = Debugger!FoldLeft(LAMBDA v, d : (v * B + d) % W, 0, text)
    BY <2>2, <2>3 DEF Debugger!Number
  <2>5. Debugger!FoldLeft(LAMBDA v, d : (v * B + d) % W, 0, text) = c[1..n]
    BY <1>1 DEF Debugger!FoldLeft, Debugger!MapThenFoldSet
  <2>6. QED  BY <2>4, <2>5
<1>3. table \in [1..n -> [Nat -> Nat]]
  <2>1. B \in Nat /\ W \in Nat /\ W > 1 /\ Debugger!Digit \subseteq Nat
    BY DebuggerSizes
  <2>2. \A v, d \in Nat : (v * B + d) % W \in Nat
    BY <2>1
  <2>3. QED  BY <1>1, <2>1, <2>2
<1>4. PICK g : Tabled(g, n, 0, table, Nat)
  BY <1>1, <1>3, TableExists
<1>5. Iterates(g)
  <2>1. ASSUME NEW s \in SUBSET (1..n), s # {} PROVE
          g[s] = (g[s \ {Debugger!Max(s)}] * B + text[Debugger!Max(s)]) % W
    <3>1. PICK y \in s : \A x \in s : x <= y
      BY <1>1, <2>1, Topmost
    <3>2. Debugger!Max(s) = y /\ y \in 1..n
      BY <3>1, DebuggerMax
    <3>3. g[s \ {y}] \in Nat /\ g[s] = table[y][g[s \ {y}]]
      BY <1>4, <2>1, <3>2 DEF Tabled
    <3>4. QED  BY <3>2, <3>3
  <2>2. g = [s \in SUBSET (1..n) |-> g[s]]
    BY <1>4 DEF Tabled
  <2>3. g[{}] = 0
    BY <1>4 DEF Tabled
  <2>4. QED  BY <2>1, <2>2, <2>3
<1>6. Iterates(c)
  BY <1>5
<1> DEFINE run == [i \in 0..n |-> c[1..i]]
<1>7. run[0] = 0
  <2>1. 1..0 = {} /\ {} \in SUBSET (1..n)
    OBVIOUS
  <2> HIDE DEF c
  <2>2. c[{}] = 0
    BY <1>6, <2>1
  <2>3. QED  BY <2>1, <2>2
<1>8. ASSUME NEW i \in 1..n PROVE run[i] = (run[i - 1] * B + text[i]) % W
  <2> HIDE DEF c
  <2>1. 1..i \in SUBSET (1..n) /\ 1..i \in SUBSET Int /\ i \in 1..i /\ 1..i # {}
    <3>1. i \in 1..i /\ \A j \in 1..i : j \in 1..n /\ j \in Int
      OBVIOUS
    <3>2. QED  BY <3>1
  <2>2. \A y \in 1..i : y <= i
    OBVIOUS
  <2>3. Debugger!Max(1..i) = i
    BY <2>1, <2>2, DebuggerMax
  <2>4. (1..i) \ {i} = 1..(i - 1)
    OBVIOUS
  <2>5. c[1..i] = (c[(1..i) \ {Debugger!Max(1..i)}] * B + text[Debugger!Max(1..i)]) % W
    BY <1>6, <2>1
  <2>6. i - 1 \in 0..n /\ i \in 0..n
    OBVIOUS
  <2>7. QED  BY <2>3, <2>4, <2>5, <2>6
<1>9. \A i \in 0..n : run[i] \in Nat
  <2> DEFINE S == {i \in 0..n : run[i] \in Nat}
  <2> HIDE DEF run
  <2>1. B \in Nat /\ W \in Nat /\ W > 1 /\ Debugger!Digit \subseteq Nat
    BY DebuggerSizes
  <2>2. \A v, d \in Nat : (v * B + d) % W \in Nat
    BY <2>1
  <2>3. 0 \in S
    BY <1>7
  <2>4. ASSUME NEW i \in 0..(n - 1), i \in S PROVE i + 1 \in S
    <3>1. i + 1 \in 1..n /\ (i + 1) - 1 = i /\ i + 1 \in 0..n
      OBVIOUS
    <3>2. run[i + 1] = (run[i] * B + text[i + 1]) % W
      BY <1>8, <3>1
    <3>3. text[i + 1] \in Nat /\ run[i] \in Nat
      BY <1>1, <2>1, <2>4, <3>1
    <3>4. QED  BY <2>2, <3>1, <3>2, <3>3
  <2>5. 0..n \subseteq S
    BY <1>1, <2>3, <2>4, Climb
  <2>6. QED  BY <2>5
<1>10. run[n] = Debugger!Number(text).value
  BY <1>2
<1>11. QED
  <2> HIDE DEF run
  <2>1. QED  BY <1>7, <1>8, <1>9, <1>10

\* Two digits of a byte.
LEMMA HexDigits ==
  ASSUME Debugger!DataAssumption, NEW x \in Debugger!Octet
  PROVE  /\ x \div DigitBase \in Debugger!Digit /\ x % DigitBase \in Debugger!Digit
         /\ (x \div DigitBase) * DigitBase + (x % DigitBase) = x
<1> DEFINE B == DigitBase
           W == x + 1
<1>1. B \in Nat /\ B > 1 /\ x \in 0..(B * B - 1) /\ Debugger!Digit = 0..(B - 1)
  BY DebuggerSizes
<1>2. B * B \in Nat
  BY <1>1
<1>3. W \in Nat /\ 0 * (B * B) + x < W
  BY <1>1, <1>2
<1> HIDE DEF B, W
<1>4. /\ x \div B \in 0..(B - 1) /\ x % B \in 0..(B - 1)
      /\ (x \div B) * B + (x % B) = x
  <2>1. 0 \in Nat
    OBVIOUS
  <2>2. QED  BY <1>1, <1>3, <2>1, TwoDigits
<1>5. QED  BY <1>1, <1>4 DEF B

LEMMA OctetOf ==
  ASSUME Debugger!DataAssumption, NEW h \in Debugger!Digit, NEW l \in Debugger!Digit
  PROVE  h * DigitBase + l \in Debugger!Octet
<1> DEFINE B == DigitBase
<1>1. /\ B \in Nat /\ B > 1 /\ Debugger!Digit = 0..(B - 1)
      /\ Debugger!Octet = 0..(B * B - 1)
  BY DebuggerSizes
<1> HIDE DEF B
<1>2. h * B <= (B - 1) * B /\ (B - 1) * B = B * B - B /\ h * B \in Nat /\ B * B \in Nat
  BY <1>1
<1>3. h * B + l \in 0..(B * B - 1)
  BY <1>1, <1>2
<1>4. QED  BY <1>1, <1>3 DEF B

LEMMA HexText ==
  ASSUME Debugger!DataAssumption, NEW data \in Seq(Debugger!Octet)
  PROVE  /\ Debugger!EncHex(data) \in Seq(Debugger!Digit)
         /\ Len(Debugger!EncHex(data)) = 2 * Len(data)
         /\ \A i \in 1..Len(data) :
              /\ Debugger!EncHex(data)[2 * i - 1] = data[i] \div DigitBase
              /\ Debugger!EncHex(data)[2 * i] = data[i] % DigitBase
<1> DEFINE n == Len(data)
           t == Debugger!EncHex(data)
           e(k) == IF k % 2 = 1 THEN data[(k + 1) \div 2] \div DigitBase
                   ELSE data[(k + 1) \div 2] % DigitBase
<1>1. n \in Nat /\ \A i \in 1..n : data[i] \in Debugger!Octet
  OBVIOUS
<1>2. t = [k \in 1..(2 * n) |-> e(k)]
  BY DEF Debugger!EncHex
<1>3. \A k \in 1..(2 * n) : (k + 1) \div 2 \in 1..n
  BY <1>1
<1>4. \A k \in 1..(2 * n) : e(k) \in Debugger!Digit
  BY <1>1, <1>3, HexDigits
<1> HIDE DEF t
<1>5. t \in Seq(Debugger!Digit) /\ Len(t) = 2 * n
  <2>1. 2 * n \in Nat
    BY <1>1
  <2> HIDE DEF e
  <2>2. QED  BY <1>2, <1>4, <2>1
<1>6. ASSUME NEW i \in 1..n
      PROVE  t[2 * i - 1] = data[i] \div DigitBase /\ t[2 * i] = data[i] % DigitBase
  <2>1. /\ 2 * i - 1 \in 1..(2 * n) /\ 2 * i \in 1..(2 * n)
        /\ (2 * i - 1) % 2 = 1 /\ (2 * i) % 2 = 0
        /\ ((2 * i - 1) + 1) \div 2 = i /\ (2 * i + 1) \div 2 = i
    BY <1>1
  <2>2. QED  BY <1>2, <2>1
<1>7. QED  BY <1>5, <1>6 DEF t

\* gdb_dec_hex undoes gdb_enc_hex.
LEMMA HexBack ==
  ASSUME Debugger!DataAssumption, NEW data \in Seq(Debugger!Octet),
         NEW S, NEW held \in Seq(S), Len(held) = Len(data)
  PROVE  LET r == Debugger!DecHex(Debugger!EncHex(data), held)
         IN  r.ok /\ r.data = data
<1> DEFINE n == Len(data)
           t == Debugger!EncHex(data)
           r == Debugger!DecHex(t, held)
<1>1. /\ t \in Seq(Debugger!Digit) /\ Len(t) = 2 * n /\ n \in Nat
      /\ \A i \in 1..n : t[2 * i - 1] = data[i] \div DigitBase
                         /\ t[2 * i] = data[i] % DigitBase
  BY HexText
<1> HIDE DEF t
<1>2. \A k \in 0..(2 * n) : Debugger!Good(t, k)
  BY <1>1 DEF Debugger!Good
<1>3. r.ok
  <2>1. 2 * n \in 0..(2 * n) /\ Len(t) = 2 * Len(held)
    BY <1>1
  <2>2. Debugger!Good(t, Len(t))
    BY <1>1, <1>2, <2>1
  <2>3. r.ok <=> Len(t) = 2 * Len(held) /\ Debugger!Good(t, Len(t))
    BY DEF Debugger!DecHex
  <2>4. QED  BY <2>1, <2>2, <2>3
<1>4. DOMAIN held = 1..n
  OBVIOUS
<1>5. r.data = [i \in 1..n |-> r.data[i]]
  BY <1>4 DEF Debugger!DecHex
<1>6. ASSUME NEW i \in 1..n PROVE r.data[i] = data[i]
  <2>1. 2 * i - 1 \in 0..(2 * n) /\ 2 * i \in 0..(2 * n)
    BY <1>1
  <2>2. r.data[i] = t[2 * i - 1] * DigitBase + t[2 * i]
    BY <1>1, <1>2, <1>4, <2>1 DEF Debugger!DecHex
  <2>3. data[i] \in Debugger!Octet
    OBVIOUS
  <2>4. t[2 * i - 1] = data[i] \div DigitBase /\ t[2 * i] = data[i] % DigitBase
    BY <1>1
  <2>5. (data[i] \div DigitBase) * DigitBase + (data[i] % DigitBase) = data[i]
    BY <2>3, HexDigits
  <2> HIDE DEF r
  <2>6. QED  BY <2>2, <2>4, <2>5
<1>7. data = [i \in 1..n |-> data[i]]
  OBVIOUS
<1> HIDE DEF r
<1>8. r.data = data
  BY <1>5, <1>6, <1>7
<1>9. QED  BY <1>3, <1>8 DEF r, t

\* A text with junk in it, or cut short, is not decoded.
LEMMA SoundText ==
  ASSUME Debugger!DataAssumption, NEW sent \in Seq(Debugger!Digit),
         NEW text \in Debugger!Texts(sent), NEW held, 2 * Len(held) = Len(sent),
         Debugger!DecHex(text, held).ok
  PROVE  text = sent
<1>1. Len(text) = Len(sent) /\ Debugger!Good(text, Len(text))
  BY DEF Debugger!DecHex
<1>2. CASE sent # <<>> /\ text = Debugger!Front(sent)
  <2>1. Len(text) = Len(sent) - 1 /\ Len(sent) \in Nat
    BY <1>2 DEF Debugger!Front
  <2>2. QED  BY <1>1, <2>1
<1>3. ASSUME NEW i \in DOMAIN sent, text = [sent EXCEPT ![i] = Junk] PROVE text = sent
  <2>1. i \in 1..Len(text) /\ text[i] = Junk
    BY <1>1, <1>3
  <2>2. Junk \in Debugger!Digit
    BY <1>1, <2>1 DEF Debugger!Good
  <2>3. QED  BY <2>2 DEF Debugger!DataAssumption
<1>4. QED  BY <1>2, <1>3 DEF Debugger!Texts

\* What gdb_dec_hex leaves in its buffer are bytes.
LEMMA DecodedBytes ==
  ASSUME Debugger!DataAssumption, NEW text, NEW data \in Seq(Debugger!Octet)
  PROVE  /\ Debugger!DecHex(text, data).data \in Seq(Debugger!Octet)
         /\ Len(Debugger!DecHex(text, data).data) = Len(data)
<1> DEFINE d == Debugger!DecHex(text, data).data
<1>1. 0 \in Debugger!Digit
  BY DebuggerSizes
<1>2. ASSUME NEW i \in 1..Len(data) PROVE d[i] \in Debugger!Octet
  <2>1. CASE Len(text) # 2 * Len(data) \/ ~Debugger!Good(text, 2 * i - 1)
    BY <1>2, <2>1 DEF Debugger!DecHex
  <2>2. CASE ~(Len(text) # 2 * Len(data) \/ ~Debugger!Good(text, 2 * i - 1))
    <3>1. text[2 * i - 1] \in Debugger!Digit
      BY <1>2, <2>2 DEF Debugger!Good
    <3>2. Debugger!Good(text, 2 * i) => text[2 * i] \in Debugger!Digit
      BY <1>2 DEF Debugger!Good
    <3>3. d[i] = text[2 * i - 1] * DigitBase
                   + IF Debugger!Good(text, 2 * i) THEN text[2 * i] ELSE 0
      BY <1>2, <2>2 DEF Debugger!DecHex
    <3>4. (IF Debugger!Good(text, 2 * i) THEN text[2 * i] ELSE 0) \in Debugger!Digit
      BY <1>1, <3>2
    <3> HIDE DEF d
    <3>5. QED  BY <3>1, <3>3, <3>4, OctetOf
  <2>3. QED  BY <2>1, <2>2
<1>3. DOMAIN d = 1..Len(data) /\ d = [i \in 1..Len(data) |-> d[i]]
  BY DEF Debugger!DecHex
<1>4. QED  BY <1>2, <1>3

LEMMA ValueWide ==
  ASSUME Debugger!DataAssumption, NEW b, \A i \in 1..4 : b[i] \in Debugger!Octet
  PROVE  Debugger!Value(b) \in 0..(Debugger!Wide - 1)
<1> DEFINE M2 == DigitBase * DigitBase
<1>1. /\ M2 \in Nat /\ M2 > 1 /\ Debugger!Octet = 0..(M2 - 1)
      /\ Debugger!Wide = M2 * (M2 * (M2 * M2))
  BY DebuggerSizes
<1>2. Debugger!Value(b) = b[1] + M2 * (b[2] + M2 * (b[3] + M2 * b[4]))
  BY DEF Debugger!Value
<1> HIDE DEF M2
<1>3. ASSUME NEW x \in 0..(M2 - 1), NEW w \in Nat, w > 0, NEW y \in 0..(w - 1)
      PROVE  x + M2 * y \in 0..(M2 * w - 1) /\ M2 * w \in Nat /\ M2 * w > 0
  <2>1. M2 * y <= M2 * (w - 1) /\ M2 * (w - 1) = M2 * w - M2 /\ M2 * y \in Nat
        /\ M2 * w \in Nat
    BY <1>1, <1>3
  <2>2. QED  BY <1>1, <1>3, <2>1
<1>4. \A i \in 1..4 : b[i] \in 0..(M2 - 1)
  BY <1>1
<1>5. b[1] \in 0..(M2 - 1) /\ b[2] \in 0..(M2 - 1) /\ b[3] \in 0..(M2 - 1)
      /\ b[4] \in 0..(M2 - 1)
  BY <1>4
<1>6. b[3] + M2 * b[4] \in 0..(M2 * M2 - 1) /\ M2 * M2 \in Nat /\ M2 * M2 > 0
  <2>1. M2 \in Nat /\ M2 > 0
    BY <1>1
  <2>2. QED  BY <1>3, <1>5, <2>1, Zenon
<1>7. b[2] + M2 * (b[3] + M2 * b[4]) \in 0..(M2 * (M2 * M2) - 1)
      /\ M2 * (M2 * M2) \in Nat /\ M2 * (M2 * M2) > 0
  BY <1>3, <1>5, <1>6
<1>8. b[1] + M2 * (b[2] + M2 * (b[3] + M2 * b[4])) \in 0..(M2 * (M2 * (M2 * M2)) - 1)
  BY <1>3, <1>5, <1>7
<1>9. QED  BY <1>1, <1>2, <1>8

LEMMA Elements ==
  ASSUME NEW S, NEW s \in Seq(S), NEW n, Len(s) = n
  PROVE  \A i \in 1..n : s[i] \in S
OBVIOUS

\* An address is read as it was written.
LEMMA AddressBack ==
  ASSUME Debugger!DataAssumption, NEW a \in 0..(Debugger!Wide - 1)
  PROVE  /\ Debugger!AddressText(a) \in Seq(Debugger!Digit)
         /\ Debugger!Number(Debugger!AddressText(a)).value = a
<1> DEFINE B == DigitBase
           W == Debugger!Wide
           b == Debugger!Bytes(a)
           t == Debugger!AddressText(a)
           v == Debugger!Number(t).value
<1>1. b \in Seq(Debugger!Octet) /\ Len(b) = 4 /\ Debugger!Value(b) = a
  BY BytesBack
<1> HIDE DEF b
<1>2. b[1] \in Debugger!Octet /\ b[2] \in Debugger!Octet /\ b[3] \in Debugger!Octet
      /\ b[4] \in Debugger!Octet
  <2>1. \A i \in 1..4 : b[i] \in Debugger!Octet
    BY <1>1, Elements, Zenon
  <2>2. QED  BY <2>1
<1>3. Debugger!Reverse(b) = <<b[4], b[3], b[2], b[1]>>
  BY <1>1 DEF Debugger!Reverse
<1>4. Debugger!Reverse(b) \in Seq(Debugger!Octet) /\ Len(Debugger!Reverse(b)) = 4
  BY <1>2, <1>3
<1>5. t = Debugger!EncHex(Debugger!Reverse(b))
  BY DEF Debugger!AddressText, b
<1>6. /\ t \in Seq(Debugger!Digit) /\ Len(t) = 8
      /\ t[1] = b[4] \div B /\ t[2] = b[4] % B /\ t[3] = b[3] \div B /\ t[4] = b[3] % B
      /\ t[5] = b[2] \div B /\ t[6] = b[2] % B /\ t[7] = b[1] \div B /\ t[8] = b[1] % B
  <2> DEFINE s == Debugger!Reverse(b)
  <2> HIDE DEF s, t
  <2>1. /\ t \in Seq(Debugger!Digit) /\ Len(t) = 2 * Len(s)
        /\ \A i \in 1..Len(s) : t[2 * i - 1] = s[i] \div B /\ t[2 * i] = s[i] % B
    BY <1>4, <1>5, HexText DEF s
  <2>2. s = <<b[4], b[3], b[2], b[1]>> /\ Len(s) = 4
    BY <1>3, <1>4 DEF s
  <2>3. \A i \in 1..4 : t[2 * i - 1] = s[i] \div B /\ t[2 * i] = s[i] % B
    BY <2>1, <2>2
  <2>4. /\ t[2 * 1 - 1] = s[1] \div B /\ t[2 * 1] = s[1] % B
        /\ t[2 * 2 - 1] = s[2] \div B /\ t[2 * 2] = s[2] % B
        /\ t[2 * 3 - 1] = s[3] \div B /\ t[2 * 3] = s[3] % B
        /\ t[2 * 4 - 1] = s[4] \div B /\ t[2 * 4] = s[4] % B
    <3>1. 1 \in 1..4 /\ 2 \in 1..4 /\ 3 \in 1..4 /\ 4 \in 1..4
      OBVIOUS
    <3>2. QED  BY <2>3, <3>1, Zenon
  <2>5. QED  BY <2>1, <2>2, <2>4
<1> HIDE DEF t
<1>7. PICK run : /\ run[0] = 0 /\ \A i \in 1..8 : run[i] = (run[i - 1] * B + t[i]) % W
                 /\ run[8] = v
  BY <1>6, NumberRuns
<1> HIDE DEF B, W
<1>8. /\ B \in Nat /\ B > 1 /\ W \in Nat /\ B * B \in Nat /\ B * B > 1
      /\ Debugger!Octet = 0..(B * B - 1) /\ a \in Nat /\ a < W
  BY DebuggerSizes DEF B, W
<1>9. /\ run[1] = (0 * B + b[4] \div B) % W /\ run[2] = (run[1] * B + (b[4] % B)) % W
      /\ run[3] = (run[2] * B + b[3] \div B) % W /\ run[4] = (run[3] * B + (b[3] % B)) % W
      /\ run[5] = (run[4] * B + b[2] \div B) % W /\ run[6] = (run[5] * B + (b[2] % B)) % W
      /\ run[7] = (run[6] * B + b[1] \div B) % W /\ run[8] = (run[7] * B + (b[1] % B)) % W
  BY <1>6, <1>7
<1> DEFINE Two(x, y) == (((x * B + y \div B) % W) * B + (y % B)) % W
<1> HIDE DEF Two
<1>10. /\ run[2] = Two(0, b[4]) /\ run[4] = Two(run[2], b[3])
       /\ run[6] = Two(run[4], b[2]) /\ run[8] = Two(run[6], b[1])
  BY <1>9, Zenon DEF Two
<1>11. \A x \in Nat : \A y \in Debugger!Octet :
         x * (B * B) + y < W => Two(x, y) = x * (B * B) + y
  BY <1>8, TwoDigits DEF Two
<1> DEFINE v1 == b[4]
           v2 == v1 * (B * B) + b[3]
           v3 == v2 * (B * B) + b[2]
<1>12. a = v3 * (B * B) + b[1]
  <2>1. a = b[1] + (B * B) * (b[2] + (B * B) * (b[3] + (B * B) * b[4]))
    BY <1>1 DEF Debugger!Value, B
  <2> DEFINE M2 == B * B
  <2>2. M2 \in Int /\ b[1] \in Int /\ b[2] \in Int /\ b[3] \in Int /\ b[4] \in Int
    BY <1>2, <1>8
  <2> HIDE DEF M2
  <2>3. b[1] + M2 * (b[2] + M2 * (b[3] + M2 * b[4]))
          = ((b[4] * M2 + b[3]) * M2 + b[2]) * M2 + b[1]
    BY <2>2
  <2>4. QED  BY <2>1, <2>3 DEF M2
<1>13. /\ v1 \in Nat /\ v2 \in Nat /\ v3 \in Nat
       /\ v1 <= v2 /\ v2 <= v3 /\ v3 <= a
  <2> DEFINE M2 == B * B
  <2>1. /\ M2 \in Nat /\ M2 > 1
        /\ b[1] \in Nat /\ b[2] \in Nat /\ b[3] \in Nat /\ b[4] \in Nat
    BY <1>2, <1>8
  <2> HIDE DEF M2
  <2>2. \A x, y \in Nat : x * M2 + y \in Nat /\ x <= x * M2 + y
    BY <2>1
  <2>3. v1 \in Nat
    BY <2>1
  <2>4. v2 \in Nat /\ v1 <= v2
    <3>1. v2 = v1 * M2 + b[3]
      BY DEF M2
    <3> HIDE DEF v1, v2
    <3>2. QED  BY <2>1, <2>2, <2>3, <3>1
  <2> HIDE DEF v2
  <2>5. v3 \in Nat /\ v2 <= v3
    <3>1. v3 = v2 * M2 + b[2]
      BY DEF M2
    <3>2. b[2] \in Nat /\ v2 \in Nat
      BY <2>1, <2>4
    <3>3. v2 * M2 + b[2] \in Nat /\ v2 <= v2 * M2 + b[2]
      BY <2>2, <3>2, Zenon
    <3> HIDE DEF v3
    <3>4. QED  BY <3>1, <3>3
  <2> HIDE DEF v3
  <2>6. v3 <= a
    BY <1>12, <2>1, <2>2, <2>5 DEF M2
  <2>7. QED  BY <2>3, <2>4, <2>5, <2>6
<1>14. run[2] = v1
  <2>1. 0 * (B * B) + b[4] < W /\ 0 * (B * B) + b[4] = b[4]
    BY <1>2, <1>8, <1>13
  <2>2. 0 \in Nat
    OBVIOUS
  <2>3. run[2] = 0 * (B * B) + b[4]
    BY <1>2, <1>10, <1>11, <2>1, <2>2, Zenon
  <2>4. QED  BY <2>1, <2>3
<1>15. run[4] = v2
  <2>1. v1 * (B * B) + b[3] < W
    BY <1>8, <1>13
  <2>2. QED  BY <1>2, <1>13, <1>14, <1>10, <1>11, <2>1
<1> HIDE DEF v1, v2
<1>16. run[6] = v3
  <2>1. v2 * (B * B) + b[2] < W
    BY <1>8, <1>13
  <2>2. QED  BY <1>2, <1>13, <1>15, <1>10, <1>11, <2>1 DEF v3
<1> HIDE DEF v3
<1>17. run[8] = a
  <2>1. v3 * (B * B) + b[1] < W
    BY <1>8, <1>12
  <2>2. run[8] = v3 * (B * B) + b[1]
    BY <1>2, <1>13, <1>16, <1>10, <1>11, <2>1
  <2>3. QED  BY <1>12, <2>2
<1>18. QED  BY <1>6, <1>7, <1>17 DEF t
-----------------------------------------------------------------------------
(* Binary data. *)

LEMMA FlipTwice ==
  ASSUME Debugger!DataAssumption, NEW e \in Nat
  PROVE  Debugger!Flip(e) \in Nat /\ Debugger!Flip(Debugger!Flip(e)) = e
<1> DEFINE B == EscapeBit
           k == e \div B
           r == e % B
<1>1. B \in Nat /\ B > 0
  BY DEF Debugger!DataAssumption
<1> HIDE DEF B
<1>2. k \in Nat /\ r \in 0..(B - 1) /\ e = B * k + r
  BY <1>1, DivMod
<1> HIDE DEF k, r
<1>3. B * (k + 1) = B * k + B /\ B * (k - 1) = B * k - B /\ B * k \in Nat
  BY <1>1, <1>2
<1>4. CASE k % 2 = 0
  <2>1. e + B = B * (k + 1) + r
    BY <1>1, <1>2, <1>3
  <2>2. (e + B) \div B = k + 1
    <3>1. k + 1 \in Nat
      BY <1>2
    <3>2. QED  BY <1>1, <1>2, <2>1, <3>1, QuotientIs
  <2>3. (k + 1) % 2 # 0
    BY <1>2, <1>4
  <2>4. Debugger!Flip(e) = e + B
    BY <1>4 DEF Debugger!Flip, k, B
  <2> DEFINE y == e + B
  <2>5. Debugger!Flip(y) = y - B
    <3>1. ~((y \div B) % 2 = 0)
      BY <2>2, <2>3
    <3> HIDE DEF y
    <3>2. QED  BY <3>1 DEF Debugger!Flip, B
  <2>6. QED  BY <1>1, <2>4, <2>5
<1>5. CASE k % 2 # 0
  <2>1. k - 1 \in Nat /\ (k - 1) % 2 = 0
    BY <1>2, <1>5
  <2>2. e - B = B * (k - 1) + r
    BY <1>1, <1>2, <1>3
  <2>3. (e - B) \div B = k - 1
    BY <1>1, <1>2, <2>1, <2>2, QuotientIs
  <2>4. B * (k - 1) \in Nat
    BY <1>1, <2>1
  <2>5. e - B \in Nat
    BY <1>1, <1>2, <2>2, <2>4
  <2>6. Debugger!Flip(e) = e - B
    BY <1>5 DEF Debugger!Flip, k, B
  <2>7. Debugger!Flip(e - B) = e - B + B
    BY <2>1, <2>3 DEF Debugger!Flip, B
  <2>8. QED  BY <1>1, <2>5, <2>6, <2>7
<1>6. QED  BY <1>4, <1>5

\* One sequence of sequences is a run of concatenations.
LEMMA Flattens ==
  ASSUME NEW S, NEW seqs \in Seq(Seq(S))
  PROVE  \E f : /\ f \in [0..Len(seqs) -> Seq(S)] /\ f[0] = <<>>
                /\ \A i \in 1..Len(seqs) : f[i] = f[i - 1] \o seqs[i]
                /\ f[Len(seqs)] = Debugger!FlattenSeq(seqs)
<1> DEFINE n == Len(seqs)
           Extends(f, m) == f = [i \in 1..m |->
             IF i = 1 THEN seqs[i] ELSE f[i - 1] \o seqs[i]]
           c == CHOOSE f : Extends(f, n)
           F == {m \in 0..n : \E f \in [1..m -> Seq(S)] : Extends(f, m)}
<1>1. n \in Nat /\ \A i \in 1..n : seqs[i] \in Seq(S)
  OBVIOUS
<1>2. 0 \in F
  <2> DEFINE f == [i \in 1..0 |-> <<>>]
  <2>1. 1..0 = {}
    OBVIOUS
  <2>2. f \in [1..0 -> Seq(S)] /\ Extends(f, 0)
    BY <2>1
  <2>3. 0 \in 0..n
    BY <1>1
  <2> HIDE DEF Extends
  <2>4. QED  BY <2>2, <2>3
<1>3. ASSUME NEW m \in 0..(n - 1), m \in F PROVE m + 1 \in F
  <2>1. PICK f \in [1..m -> Seq(S)] : Extends(f, m)
    BY <1>3
  <2> DEFINE x == IF m = 0 THEN seqs[1] ELSE f[m] \o seqs[m + 1]
             h == [i \in 1..(m + 1) |-> IF i = m + 1 THEN x ELSE f[i]]
  <2>2. x \in Seq(S)
    <3>1. CASE m = 0
      BY <1>1, <3>1
    <3>2. CASE m # 0
      <4>1. f[m] \in Seq(S) /\ seqs[m + 1] \in Seq(S)
        BY <1>1, <3>2
      <4>2. f[m] \o seqs[m + 1] \in Seq(S)
        BY <4>1, ConcatProperties
      <4>3. QED  BY <3>2, <4>2
    <3>3. QED  BY <3>1, <3>2
  <2>3. h \in [1..(m + 1) -> Seq(S)]
    <3> HIDE DEF x
    <3>1. QED  BY <2>2
  <2>4. ASSUME NEW i \in 1..(m + 1)
        PROVE  h[i] = IF i = 1 THEN seqs[i] ELSE h[i - 1] \o seqs[i]
    <3>1. CASE i = m + 1
      <4>1. h[i] = x
        BY <3>1
      <4>2. i # 1 => h[i - 1] = f[m] /\ m # 0
        BY <3>1
      <4>3. QED
        <5> HIDE DEF h
        <5>1. QED  BY <3>1, <4>1, <4>2
    <3>2. CASE i # m + 1
      <4>1. i \in 1..m /\ h[i] = f[i]
        BY <3>2
      <4>2. i # 1 => h[i - 1] = f[i - 1]
        BY <3>2
      <4>3. f[i] = IF i = 1 THEN seqs[i] ELSE f[i - 1] \o seqs[i]
        BY <2>1, <4>1
      <4> HIDE DEF h
      <4>4. QED  BY <4>1, <4>2, <4>3
    <3>3. QED  BY <3>1, <3>2
  <2>5. h = [i \in 1..(m + 1) |-> h[i]]
    OBVIOUS
  <2> HIDE DEF h
  <2>6. Extends(h, m + 1)
    BY <2>4, <2>5
  <2>7. m + 1 \in 0..n
    BY <1>1
  <2> HIDE DEF Extends
  <2>8. QED  BY <2>3, <2>6, <2>7
<1>4. \E f \in [1..n -> Seq(S)] : Extends(f, n)
  <2> HIDE DEF F
  <2>1. 0..n \subseteq F
    BY <1>1, <1>2, <1>3, Climb
  <2>2. n \in F
    BY <1>1, <2>1
  <2>3. QED  BY <2>2 DEF F
<1>5. Extends(c, n)
  BY <1>4
<1> DEFINE g == [i \in 0..n |-> IF i = 0 THEN <<>> ELSE c[i]]
<1>6. ASSUME NEW i \in 1..n, g[i - 1] \in Seq(S)
      PROVE  g[i] = g[i - 1] \o seqs[i] /\ g[i] \in Seq(S)
  <2> HIDE DEF c
  <2>1. seqs[i] \in Seq(S) /\ i \in 0..n /\ i - 1 \in 0..n
    BY <1>1
  <2>2. g[i] = c[i]
    BY <2>1
  <2>3. c[i] = g[i - 1] \o seqs[i]
    <3>1. CASE i = 1
      <4>1. c[i] = seqs[i] /\ g[i - 1] = <<>>
        BY <1>5, <3>1
      <4>2. <<>> \o seqs[i] = seqs[i]
        BY <2>1, ConcatEmptySeq
      <4>3. QED  BY <4>1, <4>2
    <3>2. CASE i # 1
      <4>1. c[i] = c[i - 1] \o seqs[i]
        BY <1>5, <3>2
      <4>2. g[i - 1] = c[i - 1]
        BY <2>1, <3>2
      <4>3. QED  BY <4>1, <4>2
    <3>3. QED  BY <3>1, <3>2
  <2> HIDE DEF g
  <2>4. g[i - 1] \o seqs[i] \in Seq(S)
    BY <1>6, <2>1, ConcatProperties
  <2>5. QED  BY <2>2, <2>3, <2>4
<1>7. g[0] = <<>> /\ g[0] \in Seq(S)
  BY <1>1
<1>8. \A i \in 0..n : g[i] \in Seq(S)
  <2> DEFINE T == {i \in 0..n : g[i] \in Seq(S)}
  <2> HIDE DEF g, n
  <2>1. 0 \in T
    <3>1. 0 \in 0..n
      BY <1>1
    <3>2. QED  BY <1>7, <3>1, Zenon
  <2>2. ASSUME NEW i \in 0..(n - 1), i \in T PROVE i + 1 \in T
    <3>1. i + 1 \in 1..n /\ (i + 1) - 1 = i /\ i + 1 \in 0..n
      BY <1>1
    <3>2. QED  BY <1>6, <2>2, <3>1
  <2>3. 0..n \subseteq T
    BY <1>1, <2>1, <2>2, Climb
  <2>4. QED  BY <2>3
<1>9. g[n] = Debugger!FlattenSeq(seqs)
  <2>1. CASE n = 0
    BY <2>1 DEF Debugger!FlattenSeq
  <2>2. CASE n # 0
    <3>1. Debugger!FlattenSeq(seqs) = c[n]
      BY <2>2 DEF Debugger!FlattenSeq
    <3>2. g[n] = c[n]
      BY <1>1, <2>2
    <3>3. QED  BY <3>1, <3>2
  <2>3. QED  BY <2>1, <2>2
<1>10. g \in [0..n -> Seq(S)]
  <2>1. g = [i \in 0..n |-> g[i]]
    OBVIOUS
  <2> HIDE DEF g
  <2>2. QED  BY <1>8, <2>1
<1>11. \A i \in 1..n : g[i] = g[i - 1] \o seqs[i]
  <2> TAKE i \in 1..n
  <2> HIDE DEF g
  <2>1. i - 1 \in 0..n
    BY <1>1
  <2>2. QED  BY <1>6, <1>8, <2>1
<1>12. QED
  <2> HIDE DEF g
  <2>1. QED  BY <1>7, <1>9, <1>10, <1>11

\* One byte of binary data, as gdb_dec_bin takes it.
BinState == [escaped : BOOLEAN, out : Seq(Nat)]
BinStart == [escaped |-> FALSE, out |-> <<>>]
BinStep(s, b) ==
  IF s.escaped THEN [escaped |-> FALSE, out |-> Append(s.out, Debugger!Flip(b))]
  ELSE IF b = Escape THEN [s EXCEPT !.escaped = TRUE]
  ELSE [s EXCEPT !.out = Append(@, b)]
BinEnd(text) == Debugger!FoldLeft(BinStep, BinStart, text)

LEMMA BinIs ==
  ASSUME NEW text, NEW held
  PROVE  /\ Debugger!DecBin(text, held).ok
              <=> ~BinEnd(text).escaped /\ Len(BinEnd(text).out) <= Len(held)
         /\ Debugger!DecBin(text, held).data
              = [i \in DOMAIN held |->
                   IF i <= Len(BinEnd(text).out) THEN BinEnd(text).out[i] ELSE held[i]]
BY DEF Debugger!DecBin, BinEnd, BinStep, BinStart, Debugger!FoldLeft,
       Debugger!MapThenFoldSet

LEMMA BinTyped ==
  ASSUME Debugger!DataAssumption, NEW s \in BinState, NEW b \in Nat
  PROVE  BinStep(s, b) \in BinState
<1>1. Debugger!Flip(b) \in Nat
  BY FlipTwice
<1>2. Append(s.out, Debugger!Flip(b)) \in Seq(Nat) /\ Append(s.out, b) \in Seq(Nat)
  BY <1>1 DEF BinState
<1>3. QED  BY <1>2 DEF BinState, BinStep

LEMMA BinRuns ==
  ASSUME Debugger!DataAssumption, NEW text \in Seq(Nat)
  PROVE  \E run : /\ run[0] = BinStart /\ run[Len(text)] = BinEnd(text)
                  /\ \A i \in 1..Len(text) : run[i] = BinStep(run[i - 1], text[i])
<1> DEFINE n == Len(text)
           Iterates(g) == g = [s \in SUBSET (1..n) |->
             IF s = {} THEN BinStart
             ELSE BinStep(g[s \ {Debugger!Max(s)}], text[Debugger!Max(s)])]
           c == CHOOSE g : Iterates(g)
           table == [i \in 1..n |-> [v \in BinState |-> BinStep(v, text[i])]]
           run == [i \in 0..n |-> c[1..i]]
<1>1. n \in Nat /\ DOMAIN text = 1..n /\ \A i \in 1..n : text[i] \in Nat
  OBVIOUS
<1>2. BinEnd(text) = c[1..n]
  BY <1>1 DEF BinEnd, Debugger!FoldLeft, Debugger!MapThenFoldSet
<1>3. table \in [1..n -> [BinState -> BinState]]
  BY <1>1, BinTyped
<1>4. BinStart \in BinState
  BY DEF BinStart, BinState
<1>5. PICK g : Tabled(g, n, BinStart, table, BinState)
  BY <1>1, <1>3, <1>4, TableExists
<1>6. Iterates(g)
  <2>1. ASSUME NEW s \in SUBSET (1..n), s # {}
        PROVE  g[s] = BinStep(g[s \ {Debugger!Max(s)}], text[Debugger!Max(s)])
    <3>1. PICK y \in s : \A x \in s : x <= y
      BY <1>1, <2>1, Topmost
    <3>2. Debugger!Max(s) = y /\ y \in 1..n
      BY <3>1, DebuggerMax
    <3>3. g[s \ {y}] \in BinState /\ g[s] = table[y][g[s \ {y}]]
      BY <1>5, <2>1, <3>2 DEF Tabled
    <3>4. QED  BY <3>2, <3>3
  <2>2. g = [s \in SUBSET (1..n) |-> g[s]]
    BY <1>5 DEF Tabled
  <2>3. g[{}] = BinStart
    BY <1>5 DEF Tabled
  <2>4. QED  BY <2>1, <2>2, <2>3
<1>7. Iterates(c)
  BY <1>6
<1>8. run[0] = BinStart
  <2>1. 1..0 = {} /\ {} \in SUBSET (1..n)
    OBVIOUS
  <2> HIDE DEF c
  <2>2. c[{}] = BinStart
    BY <1>7, <2>1
  <2>3. QED  BY <2>1, <2>2
<1>9. ASSUME NEW i \in 1..n PROVE run[i] = BinStep(run[i - 1], text[i])
  <2> HIDE DEF c
  <2>1. 1..i \in SUBSET (1..n) /\ 1..i \in SUBSET Int /\ i \in 1..i /\ 1..i # {}
    <3>1. i \in 1..i /\ \A j \in 1..i : j \in 1..n /\ j \in Int
      OBVIOUS
    <3>2. QED  BY <3>1
  <2>2. \A y \in 1..i : y <= i
    OBVIOUS
  <2>3. Debugger!Max(1..i) = i
    BY <2>1, <2>2, DebuggerMax
  <2>4. (1..i) \ {i} = 1..(i - 1)
    OBVIOUS
  <2>5. c[1..i] = BinStep(c[(1..i) \ {Debugger!Max(1..i)}], text[Debugger!Max(1..i)])
    BY <1>7, <2>1
  <2>6. i - 1 \in 0..n /\ i \in 0..n
    OBVIOUS
  <2>7. QED  BY <2>3, <2>4, <2>5, <2>6
<1>10. run[n] = BinEnd(text)
  BY <1>2
<1>11. QED
  <2> HIDE DEF run
  <2>1. QED  BY <1>8, <1>9, <1>10

\* What the debugger sends for a byte.
Piece(x) == IF x = Escape THEN <<Escape, Debugger!Flip(Escape)>> ELSE <<x>>

LEMMA BinSteps ==
  ASSUME NEW o, NEW b
  PROVE  /\ BinStep([escaped |-> FALSE, out |-> o], Escape)
              = [escaped |-> TRUE, out |-> o]
         /\ b # Escape => BinStep([escaped |-> FALSE, out |-> o], b)
                            = [escaped |-> FALSE, out |-> Append(o, b)]
         /\ BinStep([escaped |-> TRUE, out |-> o], b)
              = [escaped |-> FALSE, out |-> Append(o, Debugger!Flip(b))]
BY DEF BinStep

LEMMA ConcatParts ==
  ASSUME NEW S, NEW p \in Seq(S), NEW q \in Seq(S)
  PROVE  /\ p \o q \in Seq(S) /\ Len(p \o q) = Len(p) + Len(q)
         /\ Len(p) \in Nat /\ Len(q) \in Nat
         /\ \A j \in 1..Len(p) : (p \o q)[j] = p[j]
         /\ \A j \in 1..Len(q) : (p \o q)[Len(p) + j] = q[j]
OBVIOUS

Decodes(run, text) == \A i \in 1..Len(text) : run[i] = BinStep(run[i - 1], text[i])
Holds(text, k, q) == k + Len(q) <= Len(text) /\ \A j \in 1..Len(q) : text[k + j] = q[j]

\* One more byte of the text, escaped or as it is.
LEMMA PieceTaken ==
  ASSUME Debugger!DataAssumption, NEW x \in Debugger!Octet, NEW text \in Seq(Nat),
         NEW k \in Nat, Holds(text, k, Piece(x)), NEW run, Decodes(run, text),
         NEW done \in Seq(Nat), run[k] = [escaped |-> FALSE, out |-> done]
  PROVE  run[k + Len(Piece(x))] = [escaped |-> FALSE, out |-> Append(done, x)]
<1> USE DEF Decodes, Holds
<1>1. Escape \in Nat /\ Debugger!Flip(Debugger!Flip(Escape)) = Escape
  <2>1. Escape \in Nat
    BY DebuggerSizes DEF Debugger!DataAssumption
  <2>2. QED  BY <2>1, FlipTwice
<1>2. CASE x = Escape
  <2>1. Piece(x) = <<Escape, Debugger!Flip(Escape)>> /\ Len(Piece(x)) = 2
    BY <1>2 DEF Piece
  <2>2. /\ k + 1 \in 1..Len(text) /\ k + 2 \in 1..Len(text)
        /\ (k + 1) - 1 = k /\ (k + 2) - 1 = k + 1
    BY <2>1
  <2>3. text[k + 1] = Escape /\ text[k + 2] = Debugger!Flip(Escape)
    <3>1. 1 \in 1..Len(Piece(x)) /\ 2 \in 1..Len(Piece(x))
      BY <2>1
    <3>2. QED  BY <2>1, <3>1
  <2>4. run[k + 1] = [escaped |-> TRUE, out |-> done]
    <3>1. run[k + 1] = BinStep(run[k], Escape)
      BY <2>2, <2>3
    <3>2. QED  BY <3>1, BinSteps
  <2>5. run[k + 2] = [escaped |-> FALSE, out |-> Append(done, x)]
    <3>1. run[k + 2] = BinStep(run[k + 1], Debugger!Flip(Escape))
      BY <2>2, <2>3
    <3>2. run[k + 2] = [escaped |-> FALSE,
                        out |-> Append(done, Debugger!Flip(Debugger!Flip(Escape)))]
      BY <2>4, <3>1, BinSteps
    <3>3. QED  BY <1>1, <1>2, <3>2
  <2>6. QED  BY <2>1, <2>5
<1>3. CASE x # Escape
  <2>1. Piece(x) = <<x>> /\ Len(Piece(x)) = 1
    BY <1>3 DEF Piece
  <2>2. k + 1 \in 1..Len(text) /\ (k + 1) - 1 = k /\ 1 \in 1..Len(Piece(x))
    BY <2>1
  <2>3. text[k + 1] = x
    BY <2>1, <2>2
  <2>4. run[k + 1] = BinStep(run[k], x)
    BY <2>2, <2>3
  <2>5. run[k + 1] = [escaped |-> FALSE, out |-> Append(done, x)]
    BY <1>3, <2>4, BinSteps
  <2>6. QED  BY <2>1, <2>5
<1>4. QED  BY <1>2, <1>3

\* gdb_dec_bin undoes the debugger's escapes.
LEMMA BinBack ==
  ASSUME Debugger!DataAssumption, NEW bytes \in Seq(Debugger!Octet),
         NEW S, NEW held \in Seq(S), Len(held) = Len(bytes)
  PROVE  LET r == Debugger!DecBin(Debugger!Escaped(bytes), held)
         IN  r.ok /\ r.data = bytes
<1> DEFINE n == Len(bytes)
           seqs == [i \in 1..n |-> Piece(bytes[i])]
           text == Debugger!Escaped(bytes)
<1>1. /\ n \in Nat /\ DOMAIN bytes = 1..n /\ Debugger!Octet \subseteq Nat
      /\ \A i \in 1..n : bytes[i] \in Debugger!Octet
  <2>1. Debugger!Octet \subseteq Nat
    BY DebuggerSizes
  <2>2. /\ n \in Nat /\ DOMAIN bytes = 1..n
        /\ \A i \in 1..n : bytes[i] \in Debugger!Octet
    OBVIOUS
  <2>3. QED  BY <2>1, <2>2
<1>2. \A x \in Debugger!Octet : Piece(x) \in Seq(Nat)
  <2>1. Escape \in Nat /\ Debugger!Flip(Escape) \in Nat
    BY DebuggerSizes, FlipTwice DEF Debugger!DataAssumption
  <2>2. QED  BY <1>1, <2>1 DEF Piece
<1>3. seqs \in Seq(Seq(Nat)) /\ Len(seqs) = n /\ \A i \in 1..n : seqs[i] = Piece(bytes[i])
  <2>1. \A i \in 1..n : Piece(bytes[i]) \in Seq(Nat)
    BY <1>1, <1>2
  <2>2. n \in Nat
    BY <1>1
  <2> HIDE DEF n
  <2>3. QED  BY <2>1, <2>2
<1>4. text = Debugger!FlattenSeq(seqs)
  BY <1>1 DEF Debugger!Escaped, Piece
<1> HIDE DEF seqs, text
<1>5. PICK f : /\ f \in [0..n -> Seq(Nat)] /\ f[0] = <<>> /\ f[n] = text
               /\ \A i \in 1..n : f[i] = f[i - 1] \o seqs[i]
  <2>1. \E f : /\ f \in [0..Len(seqs) -> Seq(Nat)] /\ f[0] = <<>>
               /\ \A i \in 1..Len(seqs) : f[i] = f[i - 1] \o seqs[i]
               /\ f[Len(seqs)] = Debugger!FlattenSeq(seqs)
    BY <1>3, Flattens
  <2>2. Len(seqs) = n
    BY <1>3
  <2> HIDE DEF n
  <2>3. QED  BY <1>4, <2>1, <2>2
<1>6. text \in Seq(Nat)
  BY <1>1, <1>5
<1>7. PICK run : /\ run[0] = BinStart /\ run[Len(text)] = BinEnd(text)
                 /\ \A i \in 1..Len(text) : run[i] = BinStep(run[i - 1], text[i])
  BY <1>6, BinRuns
<1> DEFINE Prefix(i) == /\ Len(f[i]) <= Len(text)
                        /\ \A j \in 1..Len(f[i]) : text[j] = f[i][j]
           Back == {k \in 0..n : Prefix(n - k)}
           Done == {i \in 0..n :
                      run[Len(f[i])] = [escaped |-> FALSE, out |-> SubSeq(bytes, 1, i)]}
<1>8. ASSUME NEW i \in 1..n
      PROVE  /\ f[i - 1] \in Seq(Nat) /\ f[i] \in Seq(Nat)
             /\ Len(f[i]) = Len(f[i - 1]) + Len(Piece(bytes[i]))
             /\ Len(f[i - 1]) \in Nat /\ Len(Piece(bytes[i])) \in Nat
             /\ \A j \in 1..Len(f[i - 1]) : f[i][j] = f[i - 1][j]
             /\ \A j \in 1..Len(Piece(bytes[i])) :
                  f[i][Len(f[i - 1]) + j] = Piece(bytes[i])[j]
  <2>1. f[i - 1] \in Seq(Nat) /\ i - 1 \in 0..n /\ i \in 0..n
    <3>1. n \in Nat
      BY <1>1
    <3> HIDE DEF n
    <3>2. i - 1 \in 0..n /\ i \in 0..n
      BY <3>1
    <3>3. QED  BY <1>5, <3>2
  <2>2. Piece(bytes[i]) \in Seq(Nat)
    BY <1>1, <1>2
  <2>3. f[i] = f[i - 1] \o Piece(bytes[i])
    BY <1>3, <1>5
  <2> DEFINE p == f[i - 1]
             q == Piece(bytes[i])
  <2> HIDE DEF p, q
  <2>4. /\ p \o q \in Seq(Nat) /\ Len(p \o q) = Len(p) + Len(q)
        /\ Len(p) \in Nat /\ Len(q) \in Nat
        /\ \A j \in 1..Len(p) : (p \o q)[j] = p[j]
        /\ \A j \in 1..Len(q) : (p \o q)[Len(p) + j] = q[j]
    <3>1. p \in Seq(Nat) /\ q \in Seq(Nat)
      BY <2>1, <2>2 DEF p, q
    <3>2. QED  BY <3>1, ConcatParts
  <2>5. QED  BY <2>1, <2>3, <2>4 DEF p, q
<1>9. \A i \in 0..n : Prefix(i)
  <2> HIDE DEF n
  <2>1. 0 \in Back
    <3>1. Prefix(n)
      BY <1>5, <1>6
    <3>2. 0 \in 0..n /\ n - 0 = n
      BY <1>1
    <3> HIDE DEF Prefix
    <3>3. QED  BY <3>1, <3>2
  <2>2. ASSUME NEW k \in 0..(n - 1), k \in Back PROVE k + 1 \in Back
    <3>1. Prefix(n - k)
      BY <2>2
    <3>2. n - k \in 1..n /\ (n - k) - 1 = n - (k + 1) /\ k + 1 \in 0..n
      BY <1>1
    <3>3. Prefix((n - k) - 1)
      <4> DEFINE m == n - k
                 p == Len(f[m - 1])
                 q == Len(f[m])
      <4>1. p \in Nat /\ q \in Nat /\ p <= q /\ Len(text) \in Nat
        <5>1. m \in 1..n
          BY <3>2
        <5> HIDE DEF m
        <5>2. f[m] \in Seq(Nat) /\ p \in Nat /\ q = p + Len(Piece(bytes[m]))
              /\ Len(Piece(bytes[m])) \in Nat
          BY <1>8, <5>1
        <5>3. Len(text) \in Nat
          BY <1>6
        <5> HIDE DEF p, q
        <5>4. QED  BY <5>2, <5>3
      <4>2. \A j \in 1..p : f[m][j] = f[m - 1][j]
        BY <1>8, <3>2
      <4>3. q <= Len(text) /\ \A j \in 1..q : text[j] = f[m][j]
        BY <3>1
      <4>4. \A j \in 1..p : j \in 1..q
        BY <4>1
      <4> HIDE DEF m
      <4>5. \A j \in 1..p : text[j] = f[m - 1][j]
        BY <4>2, <4>3, <4>4
      <4>6. p <= Len(text)
        BY <4>1, <4>3
      <4>7. QED  BY <4>5, <4>6 DEF m
    <3> HIDE DEF Prefix
    <3>4. QED  BY <3>2, <3>3
  <2> HIDE DEF Back
  <2>3. 0..n \subseteq Back
    BY <1>1, <2>1, <2>2, Climb
  <2>4. ASSUME NEW i \in 0..n PROVE Prefix(i)
    <3>1. n - i \in 0..n /\ n - (n - i) = i
      BY <1>1
    <3> HIDE DEF Prefix
    <3>2. QED  BY <2>3, <3>1 DEF Back
  <2>5. QED  BY <2>4
<1>10. ASSUME NEW i \in 0..(n - 1), i \in Done PROVE i + 1 \in Done
  <2> DEFINE x == bytes[i + 1]
             done == SubSeq(bytes, 1, i)
             k == Len(f[i])
  <2>1. i + 1 \in 1..n /\ (i + 1) - 1 = i /\ i + 1 \in 0..n
    BY <1>1
  <2>2. x \in Debugger!Octet /\ done \in Seq(Nat)
    <3>1. ASSUME NEW j \in 1..i PROVE bytes[j] \in Nat
      <4>1. j \in 1..n
        BY <1>1
      <4>2. QED  BY <1>1, <4>1
    <3>2. done \in Seq(Nat)
      BY <3>1, SubSeqProperties
    <3>3. QED  BY <1>1, <2>1, <3>2
  <2>3. Append(done, x) = SubSeq(bytes, 1, i + 1)
    BY <1>1, <2>1
  <2>4. /\ k \in Nat /\ Len(f[i + 1]) = k + Len(Piece(x))
        /\ \A j \in 1..Len(Piece(x)) : f[i + 1][k + j] = Piece(x)[j]
        /\ Len(Piece(x)) \in Nat
    BY <1>8, <2>1
  <2>5. Len(f[i + 1]) <= Len(text) /\ \A j \in 1..Len(f[i + 1]) : text[j] = f[i + 1][j]
    BY <1>9, <2>1
  <2>6. run[k] = [escaped |-> FALSE, out |-> done]
    BY <1>10
  <2> HIDE DEF x, done, k
  <2>7. \A j \in 1..Len(Piece(x)) : text[k + j] = Piece(x)[j]
    <3> TAKE j \in 1..Len(Piece(x))
    <3>1. k + j \in 1..Len(f[i + 1])
      BY <2>4
    <3>2. QED  BY <2>4, <2>5, <3>1
  <2>8. run[k + Len(Piece(x))] = [escaped |-> FALSE, out |-> Append(done, x)]
    <3>1. k + Len(Piece(x)) <= Len(text)
      BY <2>4, <2>5
    <3>2. Holds(text, k, Piece(x)) /\ Decodes(run, text)
      <4>1. Holds(text, k, Piece(x))
        BY <2>7, <3>1, Zenon DEF Holds
      <4>2. Decodes(run, text)
        BY <1>7, Zenon DEF Decodes
      <4>3. QED  BY <4>1, <4>2
    <3>3. x \in Debugger!Octet /\ text \in Seq(Nat) /\ k \in Nat /\ done \in Seq(Nat)
      BY <1>6, <2>2, <2>4
    <3>4. QED  BY <2>6, <3>2, <3>3, PieceTaken, ZenonT(40)
  <2>9. QED  BY <2>1, <2>3, <2>4, <2>8 DEF x, done, k
<1>11. 0 \in Done
  <2>1. SubSeq(bytes, 1, 0) = <<>>
    BY SubSeqEmpty
  <2>2. run[Len(f[0])] = [escaped |-> FALSE, out |-> SubSeq(bytes, 1, 0)]
    BY <1>5, <1>7, <2>1 DEF BinStart
  <2>3. 0 \in 0..n
    BY <1>1
  <2>4. QED  BY <2>2, <2>3
<1>12. BinEnd(text) = [escaped |-> FALSE, out |-> bytes]
  <2> HIDE DEF n, Done
  <2>1. 0..n \subseteq Done
    BY <1>1, <1>10, <1>11, Climb
  <2>2. n \in Done
    BY <1>1, <2>1
  <2>3. run[Len(f[n])] = [escaped |-> FALSE, out |-> SubSeq(bytes, 1, n)]
    BY <2>2 DEF Done
  <2>4. SubSeq(bytes, 1, n) = bytes
    BY SubSeqFull DEF n
  <2>5. QED  BY <1>5, <1>7, <2>3, <2>4
<1>13. DOMAIN held = 1..n /\ bytes = [i \in 1..n |-> bytes[i]] /\ Len(held) = n
  OBVIOUS
<1>14. Debugger!DecBin(text, held).ok
  BY <1>1, <1>12, <1>13, BinIs
<1>15. Debugger!DecBin(text, held).data = bytes
  <2>1. Debugger!DecBin(text, held).data
          = [i \in 1..n |-> IF i <= n THEN bytes[i] ELSE held[i]]
    BY <1>12, <1>13, BinIs
  <2>2. QED  BY <1>1, <1>13, <2>1
<1>16. QED  BY <1>14, <1>15 DEF text
-----------------------------------------------------------------------------
(* What the commands write. *)

LEMMA DebuggerSpace ==
  ASSUME Debugger!DataAssumption
  PROVE  /\ CpuWord * Para \in Nat /\ CpuWord * Para > 0 /\ CpuWord < Debugger!Wide
         /\ Debugger!Space = 0..(CpuWord * Para - 1)
         /\ \A a \in Debugger!Space : a \in 0..(Debugger!Wide - 1)
         /\ \A x, y \in 0..(CpuWord - 1) : x * Para + y \in 0..(Debugger!Wide - 1)
<1> DEFINE W == CpuWord
           N == W * Para
<1>1. W \in Nat /\ W > 1 /\ Para \in Nat /\ Para > 0 /\ N + W <= Debugger!Wide
  BY DEF Debugger!DataAssumption
<1>2. Debugger!Wide \in Nat
  BY DebuggerSizes
<1>3. N \in Nat /\ N > 0
  <2>1. N >= W * 1
    BY <1>1
  <2>2. QED  BY <1>1, <2>1
<1>4. \A x \in 0..(W - 1) : x * Para \in Nat /\ x * Para <= N - Para
  <2> TAKE x \in 0..(W - 1)
  <2>1. x * Para <= (W - 1) * Para /\ (W - 1) * Para = N - Para
    BY <1>1
  <2>2. QED  BY <1>1, <2>1
<1>5. Debugger!Space = 0..(N - 1)
  BY DEF Debugger!Space
<1> HIDE DEF N, W
<1>6. \A x, y \in 0..(W - 1) : x * Para + y \in 0..(Debugger!Wide - 1)
  <2> TAKE x, y \in 0..(W - 1)
  <2>1. x * Para \in Nat /\ x * Para <= N - Para
    BY <1>4
  <2>2. QED  BY <1>1, <1>2, <1>3, <2>1
<1>7. \A a \in 0..(N - 1) : a \in 0..(Debugger!Wide - 1)
  BY <1>1, <1>2, <1>3
<1>8. W < Debugger!Wide
  BY <1>1, <1>2, <1>3
<1>9. QED  BY <1>3, <1>5, <1>6, <1>7, <1>8 DEF N, W

\* The one place of a command's data that a cell of memory takes.
LEMMA OneCell ==
  ASSUME NEW n \in Nat, n > 0, NEW a \in 0..(n - 1), NEW x \in 0..(n - 1), NEW i \in 1..n
  PROVE  /\ (a + i - 1) % n \in 0..(n - 1)
         /\ (a + i - 1) % n = x <=> i = ((x - a) % n) + 1
<1> DEFINE k == i - 1
<1>1. k \in 0..(n - 1) /\ a + i - 1 = a + k
  OBVIOUS
<1>2. (a + k) % n = IF a + k < n THEN a + k ELSE a + k - n
  BY <1>1, ModOnce
<1>3. (x - a) % n = IF x < a THEN x - a + n ELSE x - a
  BY ModOnce
<1>4. QED  BY <1>1, <1>2, <1>3

LEMMA StoredIs ==
  ASSUME Debugger!DataAssumption, NEW r, r.data \in Seq(Debugger!Octet),
         Len(r.data) <= Room, NEW a \in Debugger!Space, NEW x \in Debugger!Space
  PROVE  LET i == ((x - a) % (CpuWord * Para)) + 1
         IN  Debugger!Stored(r, a)[x]
               = IF i \in DOMAIN r.data THEN r.data[i] ELSE memory[x]
<1> DEFINE N == CpuWord * Para
           d == r.data
           i == ((x - a) % N) + 1
<1>1. N \in Nat /\ N > 0 /\ a \in 0..(N - 1) /\ x \in 0..(N - 1)
  BY DebuggerSpace
<1>2. Len(d) \in Nat /\ DOMAIN d = 1..Len(d) /\ Len(d) <= N
  BY DEF Debugger!DataAssumption
<1> HIDE DEF N, d
<1>3. \A j \in DOMAIN d : Debugger!Cell(a, j) = x <=> j = i
  <2> TAKE j \in DOMAIN d
  <2>1. j \in 1..N
    BY <1>1, <1>2
  <2>2. (a + j - 1) % N = x <=> j = i
    BY <1>1, <2>1, OneCell
  <2>3. QED  BY <2>2 DEF Debugger!Cell, N
<1>4. Debugger!Stored(r, a)[x]
        = IF \E j \in DOMAIN d : Debugger!Cell(a, j) = x
          THEN d[CHOOSE j \in DOMAIN d : Debugger!Cell(a, j) = x] ELSE memory[x]
  BY DEF Debugger!Stored, d
<1> HIDE DEF i
<1>5. CASE i \in DOMAIN d
  <2>1. (CHOOSE j \in DOMAIN d : Debugger!Cell(a, j) = x) = i
    BY <1>3, <1>5
  <2>2. QED  BY <1>3, <1>4, <1>5, <2>1 DEF i, d, N
<1>6. CASE i \notin DOMAIN d
  BY <1>3, <1>4, <1>6 DEF i, d, N
<1>7. QED  BY <1>5, <1>6

\* What the stub decodes of a write, sound or not.
LEMMA HexWritten ==
  ASSUME Debugger!DataAssumption, NEW bytes \in Seq(Debugger!Octet),
         NEW filled \in Seq(Debugger!Octet), Len(filled) = Len(bytes),
         NEW text \in Debugger!Texts(Debugger!EncHex(bytes))
  PROVE  LET r == Debugger!DecHex(text, filled) IN
         /\ r.ok \in BOOLEAN /\ r.data \in Seq(Debugger!Octet) /\ Len(r.data) = Len(bytes)
         /\ r.ok <=> text = Debugger!EncHex(bytes)
         /\ r.ok => r.data = bytes
<1> DEFINE r == Debugger!DecHex(text, filled)
           sent == Debugger!EncHex(bytes)
<1>1. sent \in Seq(Debugger!Digit) /\ Len(sent) = 2 * Len(filled)
  BY HexText
<1>2. text = sent => r.ok /\ r.data = bytes
  BY HexBack
<1>3. r.ok => text = sent
  BY <1>1, SoundText
<1>4. r.ok \in BOOLEAN
  BY DEF Debugger!DecHex
<1>5. r.data \in Seq(Debugger!Octet) /\ Len(r.data) = Len(bytes)
  BY DecodedBytes
<1> HIDE DEF r, sent
<1>6. r.ok <=> text = sent
  BY <1>2, <1>3, <1>4, Zenon
<1>7. QED  BY <1>2, <1>4, <1>5, <1>6 DEF r, sent

LEMMA BinWritten ==
  ASSUME Debugger!DataAssumption, NEW bytes \in Seq(Debugger!Octet),
         NEW filled \in Seq(Debugger!Octet), Len(filled) = Len(bytes),
         NEW text \in {Debugger!Escaped(bytes), <<Escape>>, <<>>}
  PROVE  LET r == Debugger!DecBin(text, filled) IN
         /\ r.ok \in BOOLEAN
         /\ r.ok => r.data \in Seq(Debugger!Octet) /\ Len(r.data) = Len(bytes)
         /\ text = Debugger!Escaped(bytes) => r.ok /\ r.data = bytes
<1> DEFINE r == Debugger!DecBin(text, filled)
           sent == Debugger!Escaped(bytes)
<1>1. text = sent => r.ok /\ r.data = bytes
  BY BinBack
<1>2. r.ok \in BOOLEAN
  BY DEF Debugger!DecBin
<1>3. text = <<Escape>> => ~r.ok
  <2> SUFFICES ASSUME text = <<Escape>> PROVE ~r.ok
    OBVIOUS
  <2>1. Escape \in Nat
    BY DebuggerSizes DEF Debugger!DataAssumption
  <2>2. text \in Seq(Nat) /\ Len(text) = 1 /\ text[1] = Escape
    BY <2>1
  <2>3. PICK run : /\ run[0] = BinStart /\ run[Len(text)] = BinEnd(text)
                   /\ \A i \in 1..Len(text) : run[i] = BinStep(run[i - 1], text[i])
    BY <2>2, BinRuns
  <2>4. 1 \in 1..Len(text) /\ 1 - 1 = 0
    BY <2>2
  <2>5. BinEnd(text) = BinStep(BinStart, Escape)
    BY <2>2, <2>3, <2>4
  <2>6. BinEnd(text).escaped
    <3>1. BinStep(BinStart, Escape) = [escaped |-> TRUE, out |-> <<>>]
      BY BinSteps, Zenon DEF BinStart
    <3>2. QED  BY <2>5, <3>1
  <2>7. QED  BY <2>6, BinIs
<1>4. text = <<>> => r.data = filled
  <2> SUFFICES ASSUME text = <<>> PROVE r.data = filled
    OBVIOUS
  <2>1. text \in Seq(Nat) /\ Len(text) = 0
    OBVIOUS
  <2>2. BinEnd(text) = BinStart
    BY <2>1, BinRuns
  <2>3. Len(BinEnd(text).out) = 0
    BY <2>2 DEF BinStart
  <2>4. r.data = [i \in DOMAIN filled |->
                    IF i <= 0 THEN BinEnd(text).out[i] ELSE filled[i]]
    BY <2>3, BinIs
  <2>5. DOMAIN filled = 1..Len(filled)
        /\ filled = [i \in 1..Len(filled) |-> filled[i]]
    OBVIOUS
  <2>6. \A i \in 1..Len(filled) : ~(i <= 0)
    OBVIOUS
  <2> HIDE DEF r
  <2>7. QED  BY <2>4, <2>5, <2>6
<1> HIDE DEF r, sent
<1>5. text = sent \/ text = <<Escape>> \/ text = <<>>
  BY DEF sent
<1>6. r.ok => r.data \in Seq(Debugger!Octet) /\ Len(r.data) = Len(bytes)
  BY <1>1, <1>3, <1>4, <1>5
<1>7. QED  BY <1>1, <1>2, <1>6 DEF r, sent

\* The registers of the stub are of four bytes.
LEMMA RegistersWide ==
  ASSUME Debugger!DataAssumption
  PROVE  Debugger!TypeOK <=>
           /\ cpu \in [{"ip", "cs", "sp", "ss", "ax"} -> 0..(CpuWord - 1)]
           /\ regs \in [Debugger!Registers -> 0..(Debugger!Wide - 1)]
           /\ memory \in [Debugger!Space -> Debugger!Octet] /\ inside \in BOOLEAN
           /\ count \in 0..MaxCommands /\ named \subseteq Debugger!Registers
<1>1. Debugger!Wide \in Nat
  BY DebuggerSizes
<1> DEFINE R == Debugger!Registers
           W == Debugger!Wide
<1>2. (regs \in [R -> Nat] /\ \A n \in R : regs[n] < W) <=> regs \in [R -> 0..(W - 1)]
  <2> HIDE DEF R, W
  <2>1. ASSUME regs \in [R -> Nat], \A n \in R : regs[n] < W
        PROVE  regs \in [R -> 0..(W - 1)]
    BY <1>1, <2>1 DEF W
  <2>2. ASSUME regs \in [R -> 0..(W - 1)]
        PROVE  regs \in [R -> Nat] /\ \A n \in R : regs[n] < W
    BY <1>1, <2>2 DEF W
  <2>3. QED  BY <2>1, <2>2
<1>3. QED  BY <1>2 DEF Debugger!TypeOK

LEMMA CopyWide ==
  ASSUME Debugger!DataAssumption,
         cpu \in [{"ip", "cs", "sp", "ss", "ax"} -> 0..(CpuWord - 1)]
  PROVE  Debugger!CopyOut(cpu) \in [Debugger!Registers -> 0..(Debugger!Wide - 1)]
<1>1. /\ cpu.cs \in 0..(CpuWord - 1) /\ cpu.ip \in 0..(CpuWord - 1)
      /\ cpu.ss \in 0..(CpuWord - 1) /\ cpu.sp \in 0..(CpuWord - 1)
      /\ cpu.ax \in 0..(CpuWord - 1)
  OBVIOUS
<1>2. /\ cpu.cs * Para + cpu.ip \in 0..(Debugger!Wide - 1)
      /\ cpu.ss * Para + cpu.sp \in 0..(Debugger!Wide - 1)
  BY <1>1, DebuggerSpace
<1>3. \A x \in 0..(CpuWord - 1) : x \in 0..(Debugger!Wide - 1)
  BY DebuggerSpace, DebuggerSizes DEF Debugger!DataAssumption
<1>4. QED  BY <1>1, <1>2, <1>3 DEF Debugger!CopyOut, Debugger!Registers

\* A register's part of the bytes of all of them.
LEMMA AllBytes ==
  ASSUME NEW S, NEW w, \A i \in 1..5 : w[i] \in Seq(S) /\ Len(w[i]) = 4
  PROVE  /\ Debugger!All(w) \in Seq(S) /\ Len(Debugger!All(w)) = 20
         /\ \A i \in 1..5 : Debugger!From(Debugger!All(w), i) = w[i]
<1>1. \A k \in 1..20 : (k + 3) \div 4 \in 1..5 /\ ((k - 1) % 4) + 1 \in 1..4
  OBVIOUS
<1>2. ASSUME NEW i \in 1..5
      PROVE  /\ \A j \in 1..4 : w[i][j] \in S
             /\ w[i] = [j \in 1..4 |-> w[i][j]]
  <2>1. w[i] \in Seq(S) /\ Len(w[i]) = 4
    OBVIOUS
  <2>2. QED  BY <2>1
<1>3. \A k \in 1..20 : w[(k + 3) \div 4][((k - 1) % 4) + 1] \in S
  BY <1>1, <1>2
<1>4. Debugger!All(w) \in Seq(S) /\ Len(Debugger!All(w)) = 20
  BY <1>3 DEF Debugger!All
<1>5. ASSUME NEW i \in 1..5 PROVE Debugger!From(Debugger!All(w), i) = w[i]
  <2>1. /\ \A x \in 1..5, y \in 1..4 : ((4 * x - 4 + y) + 3) \div 4 = x
        /\ \A x \in 1..5, y \in 1..4 : (((4 * x - 4 + y) - 1) % 4) + 1 = y
    <3>1. \A x \in 1..5, y \in 1..4 : ((4 * x - 4 + y) + 3) \div 4 = x
      OBVIOUS
    <3>2. \A x \in 1..5, y \in 1..4 : ((4 * x - 4 + y) - 1) % 4 = y - 1
      OBVIOUS
    <3>3. \A x \in 1..5, y \in 1..4 : (((4 * x - 4 + y) - 1) % 4) + 1 = y
      BY <3>2
    <3>4. QED  BY <3>1, <3>3, Zenon
  <2>2. ASSUME NEW j \in 1..4 PROVE Debugger!All(w)[4 * i - 4 + j] = w[i][j]
    <3> DEFINE k == 4 * i - 4 + j
    <3>1. (k + 3) \div 4 = i /\ ((k - 1) % 4) + 1 = j
      BY <2>1, Zenon
    <3>2. k \in 1..20
      OBVIOUS
    <3> HIDE DEF k
    <3>3. Debugger!All(w)[k] = w[(k + 3) \div 4][((k - 1) % 4) + 1]
      BY <3>2 DEF Debugger!All
    <3>4. Debugger!All(w)[k] = w[i][j]
      BY <3>1, <3>3
    <3>5. QED  BY <3>4 DEF k
  <2>3. QED  BY <1>2, <2>2 DEF Debugger!From
<1>6. QED  BY <1>4, <1>5

LEMMA PlaceOfRegister ==
  ASSUME NEW m \in Debugger!Registers
  PROVE  LET k == CHOOSE i \in 1..5 : Debugger!Order[i] = m
         IN  k \in 1..5 /\ Debugger!Order[k] = m
<1>1. \E i \in 1..5 : Debugger!Order[i] = m
  BY DEF Debugger!Order, Debugger!Registers
<1>2. QED  BY <1>1

LEMMA PartWide ==
  ASSUME Debugger!DataAssumption, NEW d \in Seq(Debugger!Octet), Len(d) = 20,
         NEW k \in 1..5
  PROVE  Debugger!Value(Debugger!From(d, k)) \in 0..(Debugger!Wide - 1)
<1>1. \A j \in 1..4 : 4 * k - 4 + j \in 1..20
  OBVIOUS
<1>2. \A q \in 1..20 : d[q] \in Debugger!Octet
  BY Elements
<1>3. \A j \in 1..4 : Debugger!From(d, k)[j] \in Debugger!Octet
  BY <1>1, <1>2 DEF Debugger!From
<1>4. QED  BY <1>3, ValueWide

\* P: the register has the debugger's value if the text is one, and four bytes if not.
LEMMA WriteRegisterStep ==
  ASSUME Debugger!DataAssumption, Debugger!TypeOK, Debugger!WriteRegister
  PROVE  /\ regs' \in [Debugger!Registers -> 0..(Debugger!Wide - 1)]
         /\ named' \subseteq Debugger!Registers
         /\ \A n \in Debugger!Registers \ named' : regs'[n] = regs[n] /\ n \notin named
         /\ UNCHANGED <<cpu, memory, inside>> /\ count' \in 0..MaxCommands
         /\ command'.kind = "P" /\ Debugger!WroteRegister
<1> DEFINE R == Debugger!Registers
           W == Debugger!Wide
<1>1. /\ regs \in [R -> 0..(W - 1)] /\ named \subseteq R
      /\ count \in Nat /\ MaxCommands \in Nat
  BY RegistersWide DEF Debugger!DataAssumption
<1>2. PICK n \in R \cup {"other"}, v \in Numbers :
        \E text \in Debugger!Texts(Debugger!EncHex(Debugger!Bytes(v))) :
          /\ Debugger!Command([kind |-> "P", name |-> n, number |-> v])
          /\ IF n = "other" THEN reply' = [ok |-> TRUE] /\ UNCHANGED <<regs, named>>
             ELSE LET r == Debugger!DecHex(text, Debugger!Bytes(regs[n])) IN
                  /\ reply' = [ok |-> r.ok]
                  /\ regs' = [regs EXCEPT ![n] = Debugger!Value(r.data)]
                  /\ named' = named \cup {n}
          /\ UNCHANGED memory
  BY DEF Debugger!WriteRegister
<1>3. /\ command' = [kind |-> "P", name |-> n, number |-> v]
      /\ count < MaxCommands /\ count' = count + 1 /\ UNCHANGED <<cpu, inside>>
      /\ UNCHANGED memory
  BY <1>2 DEF Debugger!Command
<1>4. command'.kind = "P" /\ command'.name = n /\ command'.number = v
  BY <1>3
<1>5. count' \in 0..MaxCommands
  BY <1>1, <1>3
<1>6. CASE n = "other"
  BY <1>1, <1>2, <1>3, <1>4, <1>5, <1>6 DEF Debugger!WroteRegister
<1>7. CASE n # "other"
  <2> DEFINE sent == Debugger!Bytes(v)
             held == Debugger!Bytes(regs[n])
  <2>1. n \in R /\ v \in 0..(W - 1) /\ regs[n] \in 0..(W - 1)
    BY <1>1, <1>2, <1>7 DEF Debugger!DataAssumption
  <2>2. PICK text \in Debugger!Texts(Debugger!EncHex(sent)) :
          /\ reply' = [ok |-> Debugger!DecHex(text, held).ok]
          /\ regs' = [regs EXCEPT ![n] = Debugger!Value(Debugger!DecHex(text, held).data)]
          /\ named' = named \cup {n}
    BY <1>2, <1>7
  <2> DEFINE r == Debugger!DecHex(text, held)
  <2>3. /\ sent \in Seq(Debugger!Octet) /\ Len(sent) = 4 /\ Debugger!Value(sent) = v
        /\ held \in Seq(Debugger!Octet) /\ Len(held) = 4
    BY <2>1, BytesBack
  <2> HIDE DEF sent, held
  <2>4. /\ r.data \in Seq(Debugger!Octet) /\ Len(r.data) = 4 /\ (r.ok => r.data = sent)
    BY <2>2, <2>3, HexWritten
  <2>5. reply'.ok = r.ok
    BY <2>2
  <2> HIDE DEF r
  <2>6. \A j \in 1..4 : r.data[j] \in Debugger!Octet
    BY <2>4, Elements
  <2>7. Debugger!Value(r.data) \in 0..(W - 1)
    BY <2>6, ValueWide
  <2>8. regs' = [regs EXCEPT ![n] = Debugger!Value(r.data)]
    BY <2>2 DEF r
  <2> HIDE DEF R, W
  <2>9. regs' \in [R -> 0..(W - 1)]
    BY <1>1, <2>1, <2>7, <2>8
  <2>10. \A m \in R \ named' : regs'[m] = regs[m] /\ m \notin named
    BY <1>1, <2>2, <2>8
  <2>11. Debugger!WroteRegister
    BY <1>4, <2>3, <2>4, <2>5, <2>8 DEF Debugger!WroteRegister
  <2>12. named' \subseteq R
    BY <1>1, <2>1, <2>2
  <2>13. QED  BY <1>3, <1>4, <1>5, <2>9, <2>10, <2>11, <2>12 DEF R, W
<1>8. QED  BY <1>6, <1>7

\* G: the register the debugger changed has its value, and the others have theirs, if
\* the text is the debugger's.
LEMMA WriteRegistersStep ==
  ASSUME Debugger!DataAssumption, Debugger!TypeOK, Debugger!WriteRegisters
  PROVE  /\ regs' \in [Debugger!Registers -> 0..(Debugger!Wide - 1)]
         /\ named' = Debugger!Registers
         /\ UNCHANGED <<cpu, memory, inside>> /\ count' \in 0..MaxCommands
         /\ command'.kind = "P" /\ Debugger!WroteRegister
<1> DEFINE R == Debugger!Registers
           W == Debugger!Wide
           held == Debugger!Wanted("none", 0)
           place(m) == CHOOSE i \in 1..5 : Debugger!Order[i] = m
<1>1. regs \in [R -> 0..(W - 1)] /\ count \in Nat /\ MaxCommands \in Nat
  BY RegistersWide DEF Debugger!DataAssumption
<1>2. PICK n \in R, v \in Numbers :
        \E text \in Debugger!Texts(Debugger!EncHex(Debugger!All(Debugger!Wanted(n, v)))) :
          LET r == Debugger!DecHex(text, Debugger!All(held)) IN
          /\ Debugger!Command([kind |-> "P", name |-> n, number |-> v])
          /\ reply' = [ok |-> r.ok] /\ named' = R
          /\ regs' = [m \in R |-> Debugger!Value(Debugger!From(r.data, place(m)))]
          /\ UNCHANGED memory
  BY DEF Debugger!WriteRegisters
<1> DEFINE sent == Debugger!Wanted(n, v)
<1>3. PICK text \in Debugger!Texts(Debugger!EncHex(Debugger!All(sent))) :
        /\ reply' = [ok |-> Debugger!DecHex(text, Debugger!All(held)).ok]
        /\ regs' = [m \in R |-> Debugger!Value(Debugger!From(
             Debugger!DecHex(text, Debugger!All(held)).data, place(m)))]
  BY <1>2
<1> DEFINE r == Debugger!DecHex(text, Debugger!All(held))
<1>4. /\ command' = [kind |-> "P", name |-> n, number |-> v] /\ named' = R
      /\ count < MaxCommands /\ count' = count + 1 /\ UNCHANGED <<cpu, memory, inside>>
  BY <1>2 DEF Debugger!Command
<1>5. command'.kind = "P" /\ command'.name = n /\ command'.number = v
  BY <1>4
<1>6. count' \in 0..MaxCommands
  BY <1>1, <1>4
<1>7. v \in 0..(W - 1)
  BY DEF Debugger!DataAssumption
<1>8. \A i \in 1..5 : Debugger!Order[i] \in R /\ Debugger!Order[i] # "none"
  BY DEF Debugger!Order, Debugger!Registers
<1>9. ASSUME NEW i \in 1..5
      PROVE  /\ held[i] = Debugger!Bytes(regs[Debugger!Order[i]])
             /\ sent[i] = Debugger!Bytes(IF Debugger!Order[i] = n THEN v
                                         ELSE regs[Debugger!Order[i]])
             /\ regs[Debugger!Order[i]] \in 0..(W - 1)
  BY <1>1, <1>8 DEF Debugger!Wanted
<1> HIDE DEF held, sent
<1>10. /\ \A i \in 1..5 : held[i] \in Seq(Debugger!Octet) /\ Len(held[i]) = 4
       /\ \A i \in 1..5 : sent[i] \in Seq(Debugger!Octet) /\ Len(sent[i]) = 4
  <2>1. ASSUME NEW i \in 1..5
        PROVE  /\ held[i] \in Seq(Debugger!Octet) /\ Len(held[i]) = 4
               /\ sent[i] \in Seq(Debugger!Octet) /\ Len(sent[i]) = 4
    <3> DEFINE old == regs[Debugger!Order[i]]
               new == IF Debugger!Order[i] = n THEN v ELSE old
    <3>1. old \in 0..(W - 1) /\ new \in 0..(W - 1)
      BY <1>7, <1>9
    <3>2. held[i] = Debugger!Bytes(old) /\ sent[i] = Debugger!Bytes(new)
      BY <1>9
    <3> HIDE DEF old, new
    <3>3. QED  BY <3>1, <3>2, BytesBack
  <2>2. QED  BY <2>1
<1>11. /\ Debugger!All(held) \in Seq(Debugger!Octet) /\ Len(Debugger!All(held)) = 20
       /\ Debugger!All(sent) \in Seq(Debugger!Octet) /\ Len(Debugger!All(sent)) = 20
       /\ \A i \in 1..5 : Debugger!From(Debugger!All(sent), i) = sent[i]
  BY <1>10, AllBytes
<1>12. /\ r.data \in Seq(Debugger!Octet) /\ Len(r.data) = 20
       /\ r.ok => r.data = Debugger!All(sent)
  BY <1>3, <1>11, HexWritten
<1>13. reply'.ok = r.ok
  BY <1>3
<1> HIDE DEF r
<1>14. regs' = [m \in R |-> Debugger!Value(Debugger!From(r.data, place(m)))]
  BY <1>3 DEF r
<1>15. \A m \in R : place(m) \in 1..5 /\ Debugger!Order[place(m)] = m
  BY PlaceOfRegister
<1> HIDE DEF place
<1>16. \A m \in R : Debugger!Value(Debugger!From(r.data, place(m))) \in 0..(W - 1)
  BY <1>12, <1>15, PartWide
<1>17. regs' \in [R -> 0..(W - 1)]
  <2> HIDE DEF R, W
  <2>1. QED  BY <1>14, <1>16
<1>18. ASSUME r.ok PROVE regs' = [regs EXCEPT ![n] = v]
  <2>1. ASSUME NEW m \in R PROVE regs'[m] = IF m = n THEN v ELSE regs[m]
    <3>1. regs'[m] = Debugger!Value(Debugger!From(r.data, place(m)))
      BY <1>14, <2>1
    <3>2. Debugger!From(r.data, place(m)) = sent[place(m)]
      BY <1>11, <1>12, <1>15, <1>18
    <3>3. sent[place(m)] = Debugger!Bytes(IF m = n THEN v ELSE regs[m])
      BY <1>9, <1>15
    <3>4. (IF m = n THEN v ELSE regs[m]) \in 0..(W - 1)
      BY <1>1, <1>7
    <3>5. Debugger!Value(Debugger!Bytes(IF m = n THEN v ELSE regs[m]))
            = IF m = n THEN v ELSE regs[m]
      BY <3>4, BytesBack
    <3>6. QED  BY <3>1, <3>2, <3>3, <3>5
  <2> HIDE DEF R, W
  <2>2. QED  BY <1>1, <1>17, <2>1
<1>19. Debugger!WroteRegister
  BY <1>5, <1>13, <1>18 DEF Debugger!WroteRegister
<1>20. QED  BY <1>4, <1>5, <1>6, <1>17, <1>19

LEMMA MemoryCell ==
  ASSUME Debugger!DataAssumption, NEW a \in Debugger!Space, NEW i \in Nat, i > 0
  PROVE  Debugger!Cell(a, i) \in Debugger!Space
<1>1. a \in Nat /\ CpuWord * Para \in Nat /\ CpuWord * Para > 0
      /\ Debugger!Space = 0..(CpuWord * Para - 1)
  BY DebuggerSpace
<1> DEFINE N == CpuWord * Para
<1> HIDE DEF N
<1>2. \A x \in Nat : x % N \in 0..(N - 1)
  BY <1>1 DEF N
<1>3. (a + i - 1) % N \in 0..(N - 1)
  <2>1. a + i - 1 \in Nat
    BY <1>1
  <2>2. QED  BY <1>2, <2>1
<1>4. QED  BY <1>1, <1>3 DEF Debugger!Cell, N

\* m: the text is that of the bytes that are there.
LEMMA ReadMemoryStep ==
  ASSUME Debugger!DataAssumption, Debugger!TypeOK, Debugger!ReadMemory
  PROVE  /\ UNCHANGED <<cpu, regs, memory, inside, named>> /\ count' \in 0..MaxCommands
         /\ command'.kind = "m" /\ Debugger!ReadMemoryAsIs
<1>1. count \in Nat /\ MaxCommands \in Nat /\ Room \in Nat
      /\ memory \in [Debugger!Space -> Debugger!Octet]
  BY RegistersWide DEF Debugger!DataAssumption
<1>2. PICK a \in Places, n \in 0..(Room + 1) :
        \E text \in Debugger!Texts(Debugger!AddressText(a)) :
          LET at == Debugger!Number(text) IN
          /\ Debugger!Command([kind |-> "m", addr |-> a, bytes |-> n])
          /\ reply' = IF at.ok /\ at.rest = <<>> /\ n <= Room
                        THEN [ok |-> TRUE, sound |-> text = Debugger!AddressText(a),
                              text |-> Debugger!EncHex(
                                [i \in 1..n |-> memory[Debugger!Cell(at.value, i)]])]
                        ELSE [ok |-> FALSE]
          /\ UNCHANGED <<regs, memory, named>>
  BY DEF Debugger!ReadMemory
<1>3. /\ command' = [kind |-> "m", addr |-> a, bytes |-> n]
      /\ count < MaxCommands /\ count' = count + 1
      /\ UNCHANGED <<cpu, regs, memory, inside, named>>
  BY <1>2 DEF Debugger!Command
<1>4. command'.kind = "m" /\ command'.addr = a /\ command'.bytes = n
  BY <1>3
<1>5. count' \in 0..MaxCommands
  BY <1>1, <1>3
<1>6. ASSUME reply'.ok, reply'.sound, NEW i \in 1..n
      PROVE  reply'.text[2 * i - 1] * DigitBase + reply'.text[2 * i]
               = memory[(a + i - 1) % (CpuWord * Para)]
  <2> DEFINE data == [k \in 1..n |-> memory[Debugger!Cell(a, k)]]
  <2>1. a \in Debugger!Space /\ a \in 0..(Debugger!Wide - 1)
    BY DebuggerSpace DEF Debugger!DataAssumption
  <2>2. Debugger!Number(Debugger!AddressText(a)).value = a
    BY <2>1, AddressBack
  <2>3. reply'.text = Debugger!EncHex(data)
    <3>1. PICK text :
            reply' = IF Debugger!Number(text).ok /\ Debugger!Number(text).rest = <<>>
                        /\ n <= Room
                       THEN [ok |-> TRUE, sound |-> text = Debugger!AddressText(a),
                             text |-> Debugger!EncHex([k \in 1..n |->
                               memory[Debugger!Cell(Debugger!Number(text).value, k)]])]
                       ELSE [ok |-> FALSE]
      BY <1>2
    <3>2. reply' = [ok |-> TRUE, sound |-> text = Debugger!AddressText(a),
                    text |-> Debugger!EncHex([k \in 1..n |->
                      memory[Debugger!Cell(Debugger!Number(text).value, k)]])]
      <4>1. reply' # [ok |-> FALSE]
        BY <1>6
      <4>2. QED  BY <3>1, <4>1, Zenon
    <3>3. text = Debugger!AddressText(a)
      BY <1>6, <3>2
    <3>4. QED  BY <2>2, <3>2, <3>3
  <2>4. \A k \in 1..n : memory[Debugger!Cell(a, k)] \in Debugger!Octet
    <3> TAKE k \in 1..n
    <3>1. k \in Nat /\ k > 0
      OBVIOUS
    <3>2. Debugger!Cell(a, k) \in Debugger!Space
      BY <2>1, <3>1, MemoryCell
    <3>3. QED  BY <1>1, <3>2
  <2>5. n \in Nat
    BY <1>1
  <2>6. data \in Seq(Debugger!Octet) /\ Len(data) = n
    BY <2>4, <2>5
  <2>7. data[i] = memory[Debugger!Cell(a, i)]
    BY <1>6
  <2> HIDE DEF data
  <2>8. /\ Debugger!EncHex(data)[2 * i - 1] = data[i] \div DigitBase
        /\ Debugger!EncHex(data)[2 * i] = data[i] % DigitBase
    BY <1>6, <2>6, HexText
  <2>9. data[i] \in Debugger!Octet
    BY <1>6, <2>4, <2>7
  <2>10. (data[i] \div DigitBase) * DigitBase + (data[i] % DigitBase) = data[i]
    BY <2>9, HexDigits
  <2>11. QED  BY <2>3, <2>7, <2>8, <2>10 DEF Debugger!Cell
<1>7. Debugger!ReadMemoryAsIs
  BY <1>4, <1>6 DEF Debugger!ReadMemoryAsIs
<1>8. QED  BY <1>3, <1>4, <1>5, <1>7

\* M and X: memory has the debugger's bytes, or after an error is as it was.
LEMMA WriteMemoryStep ==
  ASSUME Debugger!DataAssumption, Debugger!TypeOK, Debugger!WriteMemory
  PROVE  /\ memory' \in [Debugger!Space -> Debugger!Octet]
         /\ UNCHANGED <<cpu, regs, inside, named>> /\ count' \in 0..MaxCommands
         /\ command'.kind \in {"M", "X"} /\ Debugger!WroteMemory
<1>1. count \in Nat /\ MaxCommands \in Nat /\ Room \in Nat
      /\ memory \in [Debugger!Space -> Debugger!Octet]
  BY RegistersWide DEF Debugger!DataAssumption
<1>2. PICK a \in Places, bytes \in ByteStrings, form \in {"M", "X"}, held \in {0, 1} :
        LET sent == IF form = "M" THEN Debugger!EncHex(bytes) ELSE Debugger!Escaped(bytes)
            n    == Len(bytes)
        IN  \E text \in IF form = "M" THEN Debugger!Texts(sent)
                        ELSE {sent, <<Escape>>, <<>>} :
              LET filled == [i \in 1..n |-> held]
                  r == IF form = "M" THEN Debugger!DecHex(text, filled)
                       ELSE Debugger!DecBin(text, filled)
              IN  /\ Debugger!Command([kind |-> form, addr |-> a, bytes |-> bytes])
                  /\ memory' = Debugger!Writes(
                       r, Debugger!Number(Debugger!AddressText(a)).value, n)
                  /\ reply' = [ok |-> r.ok /\ n <= Room, sound |-> text = sent]
                  /\ UNCHANGED <<regs, named>>
  BY DEF Debugger!WriteMemory
<1> DEFINE sent == IF form = "M" THEN Debugger!EncHex(bytes) ELSE Debugger!Escaped(bytes)
           n == Len(bytes)
           filled == [i \in 1..n |-> held]
           dec(text) == IF form = "M" THEN Debugger!DecHex(text, filled)
                        ELSE Debugger!DecBin(text, filled)
<1>3. PICK text \in IF form = "M" THEN Debugger!Texts(sent)
                    ELSE {sent, <<Escape>>, <<>>} :
        /\ Debugger!Command([kind |-> form, addr |-> a, bytes |-> bytes])
        /\ memory' = Debugger!Writes(dec(text),
                                     Debugger!Number(Debugger!AddressText(a)).value, n)
        /\ reply' = [ok |-> dec(text).ok /\ n <= Room, sound |-> text = sent]
        /\ UNCHANGED <<regs, named>>
  BY <1>2
<1> DEFINE r == dec(text)
<1>4. /\ command' = [kind |-> form, addr |-> a, bytes |-> bytes]
      /\ count < MaxCommands /\ count' = count + 1
      /\ UNCHANGED <<cpu, regs, inside, named>>
  BY <1>3 DEF Debugger!Command
<1>5. command'.kind = form /\ command'.addr = a /\ command'.bytes = bytes
  BY <1>4
<1>6. count' \in 0..MaxCommands
  BY <1>1, <1>4
<1>7. bytes \in Seq(Debugger!Octet) /\ n \in Nat /\ DOMAIN bytes = 1..n
  BY DEF Debugger!DataAssumption
<1>8. filled \in Seq(Debugger!Octet) /\ Len(filled) = n
  <2>1. held \in Debugger!Octet
    <3> DEFINE M2 == DigitBase * DigitBase
    <3>1. M2 \in Nat /\ M2 > 1 /\ Debugger!Octet = 0..(M2 - 1)
      BY DebuggerSizes
    <3> HIDE DEF M2
    <3>2. QED  BY <3>1
  <2> HIDE DEF n
  <2>2. QED  BY <1>7, <2>1
<1> HIDE DEF filled
<1>9. /\ r.ok \in BOOLEAN
      /\ r.ok => r.data \in Seq(Debugger!Octet) /\ Len(r.data) = n
      /\ text = sent => r.ok /\ r.data = bytes
      /\ form = "M" /\ r.ok => r.data = bytes
  <2>1. CASE form = "M"
    <3>1. /\ sent = Debugger!EncHex(bytes)
          /\ text \in Debugger!Texts(Debugger!EncHex(bytes))
          /\ r = Debugger!DecHex(text, filled)
      BY <2>1
    <3> HIDE DEF sent, r
    <3>2. QED  BY <1>7, <1>8, <2>1, <3>1, HexWritten
  <2>2. CASE form = "X"
    <3>1. /\ sent = Debugger!Escaped(bytes)
          /\ text \in {Debugger!Escaped(bytes), <<Escape>>, <<>>}
          /\ r = Debugger!DecBin(text, filled)
      BY <2>2
    <3> HIDE DEF sent, r
    <3>2. QED  BY <1>7, <1>8, <2>2, <3>1, BinWritten
  <2>3. QED  BY <2>1, <2>2
<1>10. reply'.ok = (r.ok /\ n <= Room) /\ reply'.sound = (text = sent)
  BY <1>3
<1>11. memory' = Debugger!Writes(r, Debugger!Number(Debugger!AddressText(a)).value, n)
  BY <1>3
<1> HIDE DEF r, sent, n
<1>12. a \in Debugger!Space
  BY DEF Debugger!DataAssumption
<1>13. Debugger!Number(Debugger!AddressText(a)).value = a
  BY <1>12, DebuggerSpace, AddressBack
<1>14. memory' = IF r.ok /\ n <= Room THEN Debugger!Stored(r, a) ELSE memory
  BY <1>11, <1>13 DEF Debugger!Writes
<1> DEFINE at(x) == ((x - a) % (CpuWord * Para)) + 1
<1>15. ASSUME r.ok, n <= Room, NEW x \in Debugger!Space
       PROVE  memory'[x] = IF at(x) \in DOMAIN bytes THEN r.data[at(x)] ELSE memory[x]
  <2>1. DOMAIN r.data = 1..n /\ r.data \in Seq(Debugger!Octet) /\ Len(r.data) <= Room
    BY <1>7, <1>9, <1>15
  <2>2. Debugger!Stored(r, a)[x]
          = IF at(x) \in DOMAIN r.data THEN r.data[at(x)] ELSE memory[x]
    BY <1>12, <1>15, <2>1, StoredIs
  <2>3. QED  BY <1>7, <1>14, <1>15, <2>1, <2>2
<1> HIDE DEF at
<1>16. memory' \in [Debugger!Space -> Debugger!Octet]
  <2>1. CASE r.ok /\ n <= Room
    <3>1. DOMAIN bytes = 1..n /\ \A i \in 1..n : r.data[i] \in Debugger!Octet
      BY <1>7, <1>9, <2>1, Elements
    <3>2. \A x \in Debugger!Space : memory'[x] \in Debugger!Octet
      BY <1>1, <1>15, <2>1, <3>1
    <3>3. memory' = [x \in Debugger!Space |-> memory'[x]]
      BY <1>14, <2>1 DEF Debugger!Stored
    <3>4. QED  BY <3>2, <3>3
  <2>2. CASE ~(r.ok /\ n <= Room)
    BY <1>1, <1>14, <2>2
  <2>3. QED  BY <2>1, <2>2
<1>17. Debugger!WroteMemory
  <2>1. ~reply'.ok => memory' = memory
    BY <1>10, <1>14
  <2>2. reply'.sound /\ n <= Room => reply'.ok
    BY <1>9, <1>10
  <2>3. ASSUME NEW x \in Debugger!Space
        PROVE  IF at(x) \notin DOMAIN bytes THEN memory'[x] = memory[x]
               ELSE reply'.ok /\ (form = "M" \/ reply'.sound) => memory'[x] = bytes[at(x)]
    BY <1>9, <1>10, <1>14, <1>15
  <2>4. QED  BY <1>5, <2>1, <2>2, <2>3 DEF Debugger!WroteMemory, at, n
<1>18. QED  BY <1>4, <1>5, <1>6, <1>16, <1>17

LEMMA ReadRegisterStep ==
  ASSUME Debugger!DataAssumption, Debugger!TypeOK, Debugger!ReadRegister
  PROVE  /\ UNCHANGED <<cpu, regs, memory, inside, named>> /\ count' \in 0..MaxCommands
         /\ command'.kind = "p"
<1>1. count \in Nat /\ MaxCommands \in Nat
  BY RegistersWide DEF Debugger!DataAssumption
<1>2. /\ count < MaxCommands /\ count' = count + 1 /\ command'.kind = "p"
      /\ UNCHANGED <<cpu, regs, memory, inside, named>>
  BY DEF Debugger!ReadRegister, Debugger!Command
<1>3. QED  BY <1>1, <1>2

LEMMA LeaveStep ==
  ASSUME Debugger!DataAssumption, Debugger!TypeOK
  PROVE  Debugger!CopyIn(regs) \in [{"ip", "cs", "sp", "ss", "ax"} -> 0..(CpuWord - 1)]
<1>1. \A x \in Int : x % CpuWord \in 0..(CpuWord - 1)
  BY DEF Debugger!DataAssumption
<1>2. \A x, y \in Nat : x - y * Para \in Int
  BY DEF Debugger!DataAssumption
<1>3. regs.pc \in Nat /\ regs.cs \in Nat /\ regs.sp \in Nat /\ regs.ss \in Nat
      /\ regs.ax \in Nat
  BY DEF Debugger!TypeOK, Debugger!Registers
<1> DEFINE g == Debugger!CopyIn(regs)
<1>4. regs.pc - regs.cs * Para \in Int /\ regs.sp - regs.ss * Para \in Int
  BY <1>2, <1>3
<1>5. /\ g.ip \in 0..(CpuWord - 1) /\ g.cs \in 0..(CpuWord - 1)
      /\ g.sp \in 0..(CpuWord - 1) /\ g.ss \in 0..(CpuWord - 1)
      /\ g.ax \in 0..(CpuWord - 1)
  BY <1>1, <1>3, <1>4 DEF Debugger!CopyIn
<1>6. g = [ip |-> g.ip, cs |-> g.cs, sp |-> g.sp, ss |-> g.ss, ax |-> g.ax]
  BY DEF Debugger!CopyIn
<1> HIDE DEF g
<1>7. QED  BY <1>5, <1>6 DEF g

LEMMA DebuggerTypedInit ==
  ASSUME Debugger!DataAssumption, Debugger!Init PROVE Debugger!TypeOK
<1>1. cpu \in [{"ip", "cs", "sp", "ss", "ax"} -> 0..(CpuWord - 1)]
  BY DEF Debugger!DataAssumption, Debugger!Init
<1>2. regs \in [Debugger!Registers -> 0..(Debugger!Wide - 1)]
  BY <1>1, CopyWide DEF Debugger!Init
<1>3. 0 \in Debugger!Octet
  <2> DEFINE M2 == DigitBase * DigitBase
  <2>1. M2 \in Nat /\ M2 > 1 /\ Debugger!Octet = 0..(M2 - 1)
    BY DebuggerSizes
  <2> HIDE DEF M2
  <2>2. QED  BY <2>1
<1>4. memory \in [Debugger!Space -> Debugger!Octet]
  BY <1>3 DEF Debugger!Init
<1>5. inside \in BOOLEAN /\ count \in 0..MaxCommands /\ named \subseteq Debugger!Registers
  <2>1. inside = FALSE /\ count = 0 /\ named = {}
    BY DEF Debugger!Init
  <2>2. 0 \in 0..MaxCommands
    BY DEF Debugger!DataAssumption
  <2>3. QED  BY <2>1, <2>2
<1>6. QED  BY <1>1, <1>2, <1>4, <1>5, RegistersWide

LEMMA DebuggerTypedStep ==
  ASSUME Debugger!DataAssumption, Debugger!TypeOK, [Debugger!Next]_(Debugger!vars)
  PROVE  Debugger!TypeOK'
<1> DEFINE G == [{"ip", "cs", "sp", "ss", "ax"} -> 0..(CpuWord - 1)]
           R == [Debugger!Registers -> 0..(Debugger!Wide - 1)]
           C == [Debugger!Space -> Debugger!Octet]
<1>1. /\ cpu \in G /\ regs \in R /\ memory \in C /\ inside \in BOOLEAN
      /\ count \in 0..MaxCommands /\ named \subseteq Debugger!Registers
  BY RegistersWide
<1>2. (Debugger!TypeOK <=>
         /\ cpu \in G /\ regs \in R /\ memory \in C /\ inside \in BOOLEAN
         /\ count \in 0..MaxCommands /\ named \subseteq Debugger!Registers)'
  BY RegistersWide, PTL
<1>3. /\ cpu' \in G /\ regs' \in R /\ memory' \in C /\ inside' \in BOOLEAN
      /\ count' \in 0..MaxCommands /\ named' \subseteq Debugger!Registers
  <2>1. CASE Debugger!Enter
    <3>1. Debugger!CopyOut(cpu) \in R
      BY <1>1, CopyWide
    <3> HIDE DEF G, R, C
    <3>2. QED  BY <1>1, <2>1, <3>1 DEF Debugger!Enter
  <2>2. CASE Debugger!Leave
    <3>1. Debugger!CopyIn(regs) \in G
      BY LeaveStep
    <3> HIDE DEF G, R, C
    <3>2. QED  BY <1>1, <2>2, <3>1 DEF Debugger!Leave
  <2>3. CASE Debugger!WriteRegister
    BY <1>1, <2>3, WriteRegisterStep, Zenon
  <2>4. CASE Debugger!WriteRegisters
    <3>1. named' \subseteq Debugger!Registers
      BY <2>4, WriteRegistersStep
    <3>2. QED  BY <1>1, <2>4, <3>1, WriteRegistersStep, Zenon
  <2>5. CASE Debugger!ReadRegister
    BY <1>1, <2>5, ReadRegisterStep, Zenon
  <2>6. CASE Debugger!ReadMemory
    BY <1>1, <2>6, ReadMemoryStep, Zenon
  <2>7. CASE Debugger!WriteMemory
    BY <1>1, <2>7, WriteMemoryStep, Zenon
  <2>8. CASE Debugger!Replied
    <3> HIDE DEF G, R, C
    <3>1. QED  BY <1>1, <2>8 DEF Debugger!Replied
  <2>9. CASE UNCHANGED Debugger!vars
    <3> HIDE DEF G, R, C
    <3>1. QED  BY <1>1, <2>9 DEF Debugger!vars
  <2>10. QED
    BY <2>1, <2>2, <2>3, <2>4, <2>5, <2>6, <2>7, <2>8, <2>9 DEF Debugger!Next
<1>4. QED  BY <1>2, <1>3

\* A command is answered truthfully.
LEMMA AnswersStep ==
  ASSUME Debugger!DataAssumption, Debugger!TypeOK, Debugger!Next, count' # count
  PROVE  Debugger!WroteRegister /\ Debugger!WroteMemory /\ Debugger!ReadMemoryAsIs
<1>1. CASE Debugger!WriteRegister \/ Debugger!WriteRegisters
  <2>1. command'.kind = "P" /\ Debugger!WroteRegister
    BY <1>1, WriteRegisterStep, WriteRegistersStep
  <2>2. QED  BY <2>1 DEF Debugger!WroteMemory, Debugger!ReadMemoryAsIs
<1>2. CASE Debugger!ReadRegister
  <2>1. command'.kind = "p"
    BY <1>2, ReadRegisterStep
  <2>2. QED
    BY <2>1 DEF Debugger!WroteRegister, Debugger!WroteMemory, Debugger!ReadMemoryAsIs
<1>3. CASE Debugger!ReadMemory
  <2>1. command'.kind = "m" /\ Debugger!ReadMemoryAsIs
    BY <1>3, ReadMemoryStep
  <2>2. QED  BY <2>1 DEF Debugger!WroteRegister, Debugger!WroteMemory
<1>4. CASE Debugger!WriteMemory
  <2>1. command'.kind \in {"M", "X"} /\ Debugger!WroteMemory
    BY <1>4, WriteMemoryStep
  <2>2. QED  BY <2>1 DEF Debugger!WroteRegister, Debugger!ReadMemoryAsIs
<1>5. ~Debugger!Enter /\ ~Debugger!Leave /\ ~Debugger!Replied
  BY DEF Debugger!Enter, Debugger!Leave, Debugger!Replied
<1>6. QED  BY <1>1, <1>2, <1>3, <1>4, <1>5 DEF Debugger!Next
-----------------------------------------------------------------------------
(* The debugger's copies of the registers. *)

\* The registers the debugger did not name are the copies of the guest's.
CopiesInv ==
  /\ Debugger!TypeOK
  /\ inside => \A n \in Debugger!Registers \ named : regs[n] = Debugger!CopyOut(cpu)[n]

LEMMA CopiesInit == ASSUME Debugger!DataAssumption, Debugger!Init PROVE CopiesInv
BY DebuggerTypedInit DEF Debugger!Init, CopiesInv

\* The other commands leave the registers alone.
LEMMA CommandsKeep ==
  ASSUME \/ Debugger!ReadRegister \/ Debugger!ReadMemory
         \/ Debugger!WriteMemory \/ Debugger!Replied
  PROVE  UNCHANGED <<cpu, regs, inside, named>>
<1>1. CASE Debugger!ReadRegister
  BY <1>1 DEF Debugger!ReadRegister, Debugger!Command
<1>2. CASE Debugger!ReadMemory
  BY <1>2 DEF Debugger!ReadMemory, Debugger!Command
<1>3. CASE Debugger!WriteMemory
  BY <1>3 DEF Debugger!WriteMemory, Debugger!Command
<1>4. CASE Debugger!Replied
  BY <1>4 DEF Debugger!Replied
<1>5. QED  BY <1>1, <1>2, <1>3, <1>4

LEMMA CopiesStep ==
  ASSUME Debugger!DataAssumption, CopiesInv, [Debugger!Next]_(Debugger!vars)
  PROVE  CopiesInv'
<1> DEFINE Same == inside =>
             \A n \in Debugger!Registers \ named : regs[n] = Debugger!CopyOut(cpu)[n]
<1>1. Debugger!TypeOK /\ Debugger!TypeOK'
  BY DebuggerTypedStep DEF CopiesInv
<1> SUFFICES Same'
  BY <1>1 DEF CopiesInv
<1>2. CASE Debugger!Enter
  BY <1>2 DEF Debugger!Enter
<1>3. CASE Debugger!Leave
  BY <1>3 DEF Debugger!Leave
<1>4. CASE Debugger!WriteRegister
  <2>1. /\ \A n \in Debugger!Registers \ named' : regs'[n] = regs[n] /\ n \notin named
        /\ cpu' = cpu /\ inside' = inside
    BY <1>1, <1>4, WriteRegisterStep
  <2>2. QED  BY <2>1 DEF CopiesInv
<1>5. CASE Debugger!WriteRegisters
  <2>1. named' = Debugger!Registers
    BY <1>1, <1>5, WriteRegistersStep
  <2>2. QED  BY <2>1
<1>6. CASE \/ Debugger!ReadRegister \/ Debugger!ReadMemory \/ Debugger!WriteMemory
           \/ Debugger!Replied \/ UNCHANGED Debugger!vars
  <2>1. UNCHANGED <<cpu, regs, inside, named>>
    BY <1>6, CommandsKeep DEF Debugger!vars
  <2>2. QED  BY <2>1 DEF CopiesInv
<1>7. QED  BY <1>2, <1>3, <1>4, <1>5, <1>6 DEF Debugger!Next

\* What the copies do to a place in a segment and its offset.
LEMMA OffsetBack ==
  ASSUME NEW w \in Nat \ {0}, NEW p \in Nat, NEW s \in Nat, NEW o \in 0..(w - 1),
         NEW l, l = s * p + o
  PROVE  (l - s * p) % w = o
<1> DEFINE q == s * p
<1>1. q \in Nat
  OBVIOUS
<1> HIDE DEF q
<1>2. l = q + o
  BY DEF q
<1>3. l - q = o /\ o % w = o
  BY <1>1, <1>2
<1>4. QED  BY <1>3 DEF q

LEMMA PlaceReached ==
  ASSUME NEW w \in Nat \ {0}, NEW p \in Nat, NEW s \in 0..(w - 1), NEW l \in Nat,
         l - s * p \in 0..(w - 1)
  PROVE  (s % w) * p + ((l - s * p) % w) = l
<1> DEFINE q == s * p
<1>1. q \in Nat /\ l - q \in 0..(w - 1)
  OBVIOUS
<1>2. s % w = s
  OBVIOUS
<1> HIDE DEF q
<1>3. q + ((l - q) % w) = l
  BY <1>1
<1>4. QED  BY <1>2, <1>3 DEF q

\* The guest goes on with the registers that were not written as they were, and at the
\* place the debugger gave it (gdb.odin:165-185, 203-223).
THEOREM GuestLeftAsGiven == Spec => Debugger!GuestAsLeft
<1>0. Debugger!DataAssumption
  BY PartsAssumption
<1>1. Init => CopiesInv
  BY <1>0, CopiesInit DEF Init
<1>2. CopiesInv /\ [Next]_vars => CopiesInv'
  BY <1>0, CopiesStep, StepOfOne
<1> DEFINE Given ==
      /\ Debugger!Kept({"ax"}, "ax") /\ Debugger!Kept({"cs"}, "cs")
      /\ Debugger!Kept({"ss"}, "ss")
      /\ Debugger!Kept({"cs", "pc"}, "ip") /\ Debugger!Kept({"ss", "sp"}, "sp")
      /\ Debugger!Reached("pc", "cs", "ip") /\ Debugger!Reached("sp", "ss", "sp")
<1>3. CopiesInv /\ [Next]_vars => [inside /\ ~inside' => Given]_(Debugger!vars)
  <2> SUFFICES ASSUME CopiesInv, Debugger!Next, inside, ~inside' PROVE Given
    BY StepOfOne
  <2>1. Debugger!Leave
    <3>1. ~Debugger!WriteRegister /\ ~Debugger!WriteRegisters
      BY DEF Debugger!WriteRegister, Debugger!WriteRegisters, Debugger!Command
    <3>2. ~Debugger!Enter
      BY DEF Debugger!Enter
    <3>3. ASSUME \/ Debugger!ReadRegister \/ Debugger!ReadMemory
                 \/ Debugger!WriteMemory \/ Debugger!Replied
          PROVE  FALSE
      <4>1. UNCHANGED <<cpu, regs, inside, named>>
        BY <3>3, CommandsKeep, Zenon
      <4>2. QED  BY <4>1
    <3>4. QED  BY <3>1, <3>2, <3>3 DEF Debugger!Next
  <2>2. cpu' = Debugger!CopyIn(regs)
    BY <2>1 DEF Debugger!Leave
  <2>3. \A n \in Debugger!Registers \ named : regs[n] = Debugger!CopyOut(cpu)[n]
    BY DEF CopiesInv
  <2>4. \A x \in 0..(CpuWord - 1) : x % CpuWord = x
    BY <1>0 DEF Debugger!DataAssumption
  <2>5. /\ cpu.ip \in 0..(CpuWord - 1) /\ cpu.cs \in 0..(CpuWord - 1)
        /\ cpu.sp \in 0..(CpuWord - 1) /\ cpu.ss \in 0..(CpuWord - 1)
        /\ cpu.ax \in 0..(CpuWord - 1)
    BY DEF CopiesInv, Debugger!TypeOK
  <2>6. /\ cpu'.ip = (regs.pc - regs.cs * Para) % CpuWord /\ cpu'.cs = regs.cs % CpuWord
        /\ cpu'.sp = (regs.sp - regs.ss * Para) % CpuWord /\ cpu'.ss = regs.ss % CpuWord
        /\ cpu'.ax = regs.ax % CpuWord
    BY <2>2 DEF Debugger!CopyIn
  <2>7. /\ Debugger!Kept({"ax"}, "ax") /\ Debugger!Kept({"cs"}, "cs")
        /\ Debugger!Kept({"ss"}, "ss")
    BY <2>3, <2>4, <2>5, <2>6 DEF Debugger!Kept, Debugger!CopyOut, Debugger!Registers
  <2>8. Debugger!Kept({"cs", "pc"}, "ip")
    <3> SUFFICES ASSUME "cs" \notin named, "pc" \notin named PROVE cpu'.ip = cpu.ip
      BY DEF Debugger!Kept
    <3>1. regs.pc = cpu.cs * Para + cpu.ip /\ regs.cs = cpu.cs
      BY <2>3 DEF Debugger!CopyOut, Debugger!Registers
    <3>2. /\ CpuWord \in Nat \ {0} /\ Para \in Nat /\ regs.cs \in Nat
          /\ cpu.ip \in 0..(CpuWord - 1) /\ regs.pc = regs.cs * Para + cpu.ip
      BY <1>0, <2>5, <3>1 DEF Debugger!DataAssumption
    <3>3. (regs.pc - regs.cs * Para) % CpuWord = cpu.ip
      BY <3>2, OffsetBack
    <3>4. QED  BY <2>6, <3>3
  <2>9. Debugger!Kept({"ss", "sp"}, "sp")
    <3> SUFFICES ASSUME "ss" \notin named, "sp" \notin named PROVE cpu'.sp = cpu.sp
      BY DEF Debugger!Kept
    <3>1. regs.sp = cpu.ss * Para + cpu.sp /\ regs.ss = cpu.ss
      BY <2>3 DEF Debugger!CopyOut, Debugger!Registers
    <3>2. /\ CpuWord \in Nat \ {0} /\ Para \in Nat /\ regs.ss \in Nat
          /\ cpu.sp \in 0..(CpuWord - 1) /\ regs.sp = regs.ss * Para + cpu.sp
      BY <1>0, <2>5, <3>1 DEF Debugger!DataAssumption
    <3>3. (regs.sp - regs.ss * Para) % CpuWord = cpu.sp
      BY <3>2, OffsetBack
    <3>4. QED  BY <2>6, <3>3
  <2>10. /\ regs.pc \in Nat /\ regs.cs \in Nat /\ regs.sp \in Nat /\ regs.ss \in Nat
         /\ (regs.cs < CpuWord => regs.cs \in 0..(CpuWord - 1))
         /\ (regs.ss < CpuWord => regs.ss \in 0..(CpuWord - 1))
    BY <1>0 DEF CopiesInv, Debugger!TypeOK, Debugger!Registers, Debugger!DataAssumption
  <2>11. Debugger!Reached("pc", "cs", "ip")
    <3> SUFFICES ASSUME regs.cs < CpuWord, regs.pc - regs.cs * Para \in 0..(CpuWord - 1)
                 PROVE  cpu'.cs * Para + cpu'.ip = regs.pc
      BY DEF Debugger!Reached
    <3>1. CpuWord \in Nat \ {0} /\ Para \in Nat
      BY <1>0 DEF Debugger!DataAssumption
    <3>2. (regs.cs % CpuWord) * Para + ((regs.pc - regs.cs * Para) % CpuWord) = regs.pc
      BY <2>10, <3>1, PlaceReached
    <3>3. QED  BY <2>6, <3>2
  <2>12. Debugger!Reached("sp", "ss", "sp")
    <3> SUFFICES ASSUME regs.ss < CpuWord, regs.sp - regs.ss * Para \in 0..(CpuWord - 1)
                 PROVE  cpu'.ss * Para + cpu'.sp = regs.sp
      BY DEF Debugger!Reached
    <3>1. CpuWord \in Nat \ {0} /\ Para \in Nat
      BY <1>0 DEF Debugger!DataAssumption
    <3>2. (regs.ss % CpuWord) * Para + ((regs.sp - regs.ss * Para) % CpuWord) = regs.sp
      BY <2>10, <3>1, PlaceReached
    <3>3. QED  BY <2>6, <3>2
  <2>13. QED  BY <2>7, <2>8, <2>9, <2>11, <2>12
<1>4. QED  BY <1>1, <1>2, <1>3, PTL DEF Spec, Debugger!GuestAsLeft

\* An answer tells the truth: a register or memory that was written has the debugger's
\* bytes and all else is as before, what was read is what is there, and the guest goes on
\* with what it was given (gdbstub.h: the commands P, G, m, M and X; gdb.odin:165-223).
THEOREM DebuggerIsExact == Spec => DebuggerExact
<1>1. Debugger!DataAssumption
  BY PartsAssumption
<1>2. Init => Debugger!TypeOK
  BY <1>1, DebuggerTypedInit DEF Init
<1>3. Debugger!TypeOK /\ [Next]_vars => Debugger!TypeOK'
  BY <1>1, DebuggerTypedStep, StepOfOne
<1> DEFINE Told == count' # count =>
             Debugger!WroteRegister /\ Debugger!WroteMemory /\ Debugger!ReadMemoryAsIs
<1>4. Debugger!TypeOK /\ [Next]_vars => [Told]_(Debugger!vars)
  BY <1>1, AnswersStep, StepOfOne
<1>5. Spec => [][Told]_(Debugger!vars)
  BY <1>2, <1>3, <1>4, PTL DEF Spec
<1>6. Spec => Debugger!AnswersTrue
  BY <1>5 DEF Debugger!AnswersTrue
<1>7. QED  BY <1>6, GuestLeftAsGiven DEF DebuggerExact
=============================================================================
