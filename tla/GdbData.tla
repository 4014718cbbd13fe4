------------------------------ MODULE GdbData ------------------------------
(***************************************************************************)
(* The debugger's commands that read and write the guest's registers and   *)
(* memory (src/modules/gdb/gdbstub/gdbstub.h), within one visit of         *)
(* gdb_main, and the copies of the registers the module takes before and   *)
(* gives back after it (gdb.odin).                                         *)
(*                                                                         *)
(* Texts are sequences of digits to the base Base, and Junk is a character *)
(* that is no digit; binary data is a sequence of bytes.  Of the registers *)
(* there are CS:IP, SS:SP and one without a segment.                       *)
(***************************************************************************)
EXTENDS Integers, Sequences, SequencesExt

CONSTANTS
  Base,         \* 16
  Escape, Bit,  \* '}' and 20h, of the binary form
  Word,         \* 2^16, the width of the guest's registers
  Para,         \* 16, the bytes of a paragraph
  Room,         \* 64, the most memory of a command
  Numbers, Places, Written,   \* values, addresses and bytes the debugger uses
  Spoilt,       \* the places of a text where junk may be
  MaxCommands,  \* bound of the model on the commands
  Junk

Digit == 0..(Base - 1)
Octet == 0..(Base * Base - 1)
Wide  == Base * Base * Base * Base * Base * Base * Base * Base   \* four bytes
Space == 0..(Word * Para - 1)

Nothing == [kind |-> "none"]

DataAssumption ==
  /\ Base \in Nat \ {0, 1} /\ Word \in Nat \ {0, 1} /\ Para \in Nat \ {0}
  /\ Word * Para + Word <= Wide /\ Room \in 0..(Word * Para)
  /\ Escape \in Octet /\ Bit \in Nat \ {0} /\ Junk \notin Digit
  /\ Numbers \subseteq 0..(Wide - 1) /\ Places \subseteq Space
  /\ Written \subseteq Seq(Octet) /\ MaxCommands \in Nat

VARIABLES
  cpu,      \* the guest's registers
  regs,     \* GDB_State.registers
  memory,
  inside,   \* is gdb_main running?
  count,    \* number of commands
  named,    \* history: the registers written in this visit
  command,  \* history: the command, as the debugger meant it
  reply     \* and its reply, until the debugger has it

vars == <<cpu, regs, memory, inside, count, named, command, reply>>
-----------------------------------------------------------------------------
(* Texts and data. *)

\* gdb_strtol: the number the text starts with, and what is left of the text.  GDB sends
\* no sign and no 0x, which it would take too.
Number(text) ==
  LET junk == SelectInSeq(text, LAMBDA c : c \notin Digit)
      n    == IF junk = 0 THEN Len(text) ELSE junk - 1
  IN  [ok    |-> n > 0,
       value |-> FoldLeft(LAMBDA v, d : (v * Base + d) % Wide, 0, SubSeq(text, 1, n)),
       rest  |-> SubSeq(text, n + 1, Len(text))]

EncHex(data) ==
  [i \in 1..(2 * Len(data)) |->
     LET b == data[(i + 1) \div 2] IN IF i % 2 = 1 THEN b \div Base ELSE b % Base]

\* gdb_dec_hex fails at the first character that is no digit, and has stored what was
\* in front of it, half a byte too.
Good(text, n) == \A i \in 1..n : text[i] \in Digit
DecHex(text, data) ==
  [ok   |-> Len(text) = 2 * Len(data) /\ Good(text, Len(text)),
   data |-> [i \in DOMAIN data |->
     IF Len(text) # 2 * Len(data) \/ ~Good(text, 2 * i - 1) THEN data[i]
     ELSE text[2 * i - 1] * Base + IF Good(text, 2 * i) THEN text[2 * i] ELSE 0]]

\* The exclusive or with Bit.
Flip(b) == IF (b \div Bit) % 2 = 0 THEN b + Bit ELSE b - Bit

\* gdb_dec_bin does not say how many bytes there were: the caller writes what its
\* buffer held in place of the others.
DecBin(text, data) ==
  LET Step(s, b) == IF s.escaped THEN [escaped |-> FALSE, out |-> Append(s.out, Flip(b))]
                    ELSE IF b = Escape THEN [s EXCEPT !.escaped = TRUE]
                    ELSE [s EXCEPT !.out = Append(@, b)]
      end == FoldLeft(Step, [escaped |-> FALSE, out |-> <<>>], text)
  IN  [ok   |-> ~end.escaped /\ Len(end.out) <= Len(data),
       data |-> [i \in DOMAIN data |-> IF i <= Len(end.out) THEN end.out[i] ELSE data[i]]]

\* A register's bytes, the least significant first.
Bytes(v) ==
  LET M == Base * Base IN <<v % M, (v \div M) % M, (v \div (M * M)) % M, (v \div (M * M * M)) % M>>
Value(b) ==
  LET M == Base * Base IN b[1] + M * (b[2] + M * (b[3] + M * b[4]))
-----------------------------------------------------------------------------
(* The copies of the registers. *)

Registers == {"pc", "cs", "sp", "ss", "ax"}

CopyOut(g) == [pc |-> g.cs * Para + g.ip, cs |-> g.cs, sp |-> g.ss * Para + g.sp,
               ss |-> g.ss, ax |-> g.ax]

\* The differences are of unsigned numbers, and cut to the guest's width.
CopyIn_Stale(r) ==   \* Mutant: IP is taken relative to the segment that was.
  [ip |-> (r.pc - cpu.cs * Para) % Word, cs |-> r.cs % Word,
   sp |-> (r.sp - r.ss * Para) % Word, ss |-> r.ss % Word, ax |-> r.ax % Word]
CopyIn(r) == [ip |-> (r.pc - r.cs * Para) % Word, cs |-> r.cs % Word,
              sp |-> (r.sp - r.ss * Para) % Word, ss |-> r.ss % Word, ax |-> r.ax % Word]

Init ==
  /\ \E p \in {1, Word - 1} : cpu = [ip |-> p, cs |-> Word - 1, sp |-> Word - p, ss |-> p, ax |-> p]
  /\ regs = CopyOut(cpu) /\ memory = [a \in Space |-> 0]
  /\ inside = FALSE /\ count = 0 /\ named = {}
  /\ command = Nothing /\ reply = Nothing

Enter ==
  /\ ~inside /\ inside' = TRUE /\ regs' = CopyOut(cpu) /\ named' = {}
  /\ UNCHANGED <<cpu, memory, count, command, reply>>

Leave ==
  /\ inside /\ command = Nothing /\ inside' = FALSE /\ cpu' = CopyIn(regs)
  /\ UNCHANGED <<regs, memory, count, named, command, reply>>
-----------------------------------------------------------------------------
(* The commands.  Their data is right, ends too early or holds a character of junk. *)

Texts(text) ==
  {text} \cup (IF text = <<>> THEN {} ELSE {Front(text)})
    \cup {[text EXCEPT ![i] = Junk] : i \in DOMAIN text \cap Spoilt}

Command(meant) ==
  /\ inside /\ command = Nothing /\ command' = meant
  /\ count < MaxCommands /\ count' = count + 1
  /\ UNCHANGED <<cpu, inside>>

Replied ==
  /\ command # Nothing /\ command' = Nothing /\ reply' = Nothing
  /\ UNCHANGED <<cpu, regs, memory, inside, count, named>>

\* P.  The answer is OK for a register the stub does not have.
WriteRegister ==
  \E n \in Registers \cup {"other"}, v \in Numbers : \E text \in Texts(EncHex(Bytes(v))) :
    /\ Command([kind |-> "P", name |-> n, number |-> v])
    /\ IF n = "other" THEN reply' = [ok |-> TRUE] /\ UNCHANGED <<regs, named>>
       ELSE LET r == DecHex(text, Bytes(regs[n])) IN
            /\ reply' = [ok |-> r.ok] /\ regs' = [regs EXCEPT ![n] = Value(r.data)]
            /\ named' = named \cup {n}
    /\ UNCHANGED memory

\* G: all registers at once, of which the debugger changes one.
Order == <<"ax", "sp", "pc", "cs", "ss">>
Wanted(n, v) == [i \in 1..5 |-> Bytes(IF Order[i] = n THEN v ELSE regs[Order[i]])]
All(four) == [k \in 1..20 |-> four[(k + 3) \div 4][((k - 1) % 4) + 1]]
From(bytes, i) == [j \in 1..4 |-> bytes[4 * i - 4 + j]]

WriteRegisters ==
  \E n \in Registers, v \in Numbers : \E text \in Texts(EncHex(All(Wanted(n, v)))) :
    LET r == DecHex(text, All(Wanted("none", 0))) IN
    /\ Command([kind |-> "P", name |-> n, number |-> v])
    /\ reply' = [ok |-> r.ok] /\ named' = Registers
    /\ regs' = [m \in Registers |->
         Value(From(r.data, CHOOSE i \in 1..5 : Order[i] = m))]
    /\ UNCHANGED memory

\* p.
ReadRegister ==
  \E n \in Registers :
    /\ Command([kind |-> "p", name |-> n])
    /\ reply' = [ok |-> TRUE, text |-> EncHex(Bytes(regs[n]))]
    /\ UNCHANGED <<regs, memory, named>>

\* The address and the length of a memory command are numbers too.
AddressText(a) == EncHex(Reverse(Bytes(a)))
Cell(a, i) == (a + i - 1) % (Word * Para)

\* m.
ReadMemory ==
  \E a \in Places, n \in 0..(Room + 1) : \E text \in Texts(AddressText(a)) :
    LET at == Number(text) IN
    /\ Command([kind |-> "m", addr |-> a, bytes |-> n])
    /\ reply' = IF at.ok /\ at.rest = <<>> /\ n <= Room
                  THEN [ok |-> TRUE, sound |-> text = AddressText(a),
                        text |-> EncHex([i \in 1..n |-> memory[Cell(at.value, i)]])]
                  ELSE [ok |-> FALSE]
    /\ UNCHANGED <<regs, memory, named>>

\* gdb_mem_write decodes everything before it writes anything.
Stored(r, a) ==
  [x \in Space |-> IF \E i \in DOMAIN r.data : Cell(a, i) = x
                   THEN r.data[CHOOSE i \in DOMAIN r.data : Cell(a, i) = x]
                   ELSE memory[x]]
Writes_Early(r, a, n) == IF n <= Room THEN Stored(r, a) ELSE memory   \* Mutant: byte by byte.
Writes(r, a, n) == IF r.ok /\ n <= Room THEN Stored(r, a) ELSE memory

\* M, and X with the debugger's escapes.  The buffer held anything.
Escaped(bytes) ==
  FlattenSeq([i \in DOMAIN bytes |->
    IF bytes[i] = Escape THEN <<Escape, Flip(Escape)>> ELSE <<bytes[i]>>])

WriteMemory ==
  \E a \in Places, bytes \in Written, form \in {"M", "X"}, held \in {0, 1} :
    LET sent == IF form = "M" THEN EncHex(bytes) ELSE Escaped(bytes)
        n    == Len(bytes)
    IN  \E text \in IF form = "M" THEN Texts(sent) ELSE {sent, <<Escape>>, <<>>} :
          LET buffer == [i \in 1..n |-> held]
              r == IF form = "M" THEN DecHex(text, buffer) ELSE DecBin(text, buffer)
          IN  /\ Command([kind |-> form, addr |-> a, bytes |-> bytes])
              /\ memory' = Writes(r, Number(AddressText(a)).value, n)
              /\ reply' = [ok |-> r.ok /\ n <= Room, sound |-> text = sent]
              /\ UNCHANGED <<regs, named>>

Next ==
  Enter \/ Leave \/ WriteRegister \/ WriteRegisters \/ ReadRegister \/ ReadMemory
    \/ WriteMemory \/ Replied

Spec == Init /\ [][Next]_vars
-----------------------------------------------------------------------------
TypeOK ==
  /\ cpu \in [{"ip", "cs", "sp", "ss", "ax"} -> 0..(Word - 1)]
  /\ regs \in [Registers -> Nat] /\ \A n \in Registers : regs[n] < Wide
  /\ memory \in [Space -> Octet] /\ inside \in BOOLEAN /\ count \in 0..MaxCommands
  /\ named \subseteq Registers

\* An answer tells the truth: a register or memory that was written has the debugger's
\* bytes and all else is as before; after an error memory is as before (a register
\* may be half written); what was read is what is there.
WroteRegister ==
  command'.kind = "P" /\ reply'.ok /\ command'.name # "other" =>
    regs' = [regs EXCEPT ![command'.name] = command'.number]
WroteMemory ==
  command'.kind \in {"M", "X"} =>
    /\ ~reply'.ok => memory' = memory
    /\ reply'.sound /\ Len(command'.bytes) <= Room => reply'.ok
    /\ \A x \in Space :
         LET i == ((x - command'.addr) % (Word * Para)) + 1 IN
         IF i \notin DOMAIN command'.bytes THEN memory'[x] = memory[x]
         ELSE reply'.ok /\ (command'.kind = "M" \/ reply'.sound)
                => memory'[x] = command'.bytes[i]
ReadMemoryAsIs ==
  command'.kind = "m" /\ reply'.ok /\ reply'.sound =>
    \A i \in 1..command'.bytes :
      reply'.text[2 * i - 1] * Base + reply'.text[2 * i]
        = memory[(command'.addr + i - 1) % (Word * Para)]
AnswersTrue == [][count' # count => WroteRegister /\ WroteMemory /\ ReadMemoryAsIs]_vars

\* The guest goes on with the registers the debugger did not write as they were, and at
\* the place and with the stack it was given, if they lie in their segments.
Kept(names, g) == named \cap names = {} => cpu'[g] = cpu[g]
Reached(linear, segment, g) ==
  regs[segment] < Word /\ regs[linear] - regs[segment] * Para \in 0..(Word - 1) =>
    cpu'[segment] * Para + cpu'[g] = regs[linear]
GuestAsLeft ==
  [][inside /\ ~inside' =>
       /\ Kept({"ax"}, "ax") /\ Kept({"cs"}, "cs") /\ Kept({"ss"}, "ss")
       /\ Kept({"cs", "pc"}, "ip") /\ Kept({"ss", "sp"}, "sp")
       /\ Reached("pc", "cs", "ip") /\ Reached("sp", "ss", "sp")]_vars
=============================================================================
