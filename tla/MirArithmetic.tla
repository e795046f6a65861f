---------------------------- MODULE MirArithmetic ----------------------------
(***************************************************************************)
(* Machine words, the meaning of the integer MIR instructions jit.c emits  *)
(* and the CLI's meaning (ECMA-335 partition III) of the IL they           *)
(* translate. MIR is not part of the repository: its instructions are      *)
(* taken as MIR documents them (a register is a 64-bit word; an "S"        *)
(* variant works on the low 32 bits; EXT32/UEXT32 sign-/zero-extend the    *)
(* low 32 bits; DIV of the most negative value by -1, and any division by  *)
(* zero, is a machine fault; SWITCH with an index outside its table is     *)
(* undefined).                                                             *)
(*                                                                         *)
(* TLC's integers are 32-bit, so the widths are parameters: Int32Bits      *)
(* stands for 32 and NativeBits for 64. Every operator is defined for any  *)
(* pair of widths, and what the properties tell apart (sign against zero   *)
(* extension, signed against unsigned order, the most negative value, the  *)
(* values outside the int32 range) exists at every pair.                   *)
(***************************************************************************)
EXTENDS Integers, Bitwise

CONSTANTS Int32Bits, NativeBits

ASSUME 1 < Int32Bits /\ Int32Bits < NativeBits

\* The low w bits of x, unsigned, and the same bits read as two's complement.
Wrap(x, w)   == x % (2 ^ w)
Signed(x, w) == IF Wrap(x, w) >= 2 ^ (w - 1) THEN Wrap(x, w) - 2 ^ w ELSE Wrap(x, w)

MinInt(w) == -(2 ^ (w - 1))
MaxInt(w) == 2 ^ (w - 1) - 1

\* The integer stack types and their widths (ECMA-335 I.12.1): IntPtr is
\* 64-bit on the targets tinydotnet runs on.
IntTypes == {"Int32", "Int64", "IntPtr"}
Width(st) == IF st = "Int32" THEN Int32Bits ELSE NativeBits

\* The values the runs try for a stack type: zero, one, minus one, the
\* extremes, and for the 64-bit types the values just outside the int32
\* range and the int32 extremes.
Values(st) ==
    LET w == Width(st)
    IN  {0, 1, -1, MinInt(w), MaxInt(w)}
          \cup (IF st = "Int32" THEN {}
                ELSE {MinInt(Int32Bits), MaxInt(Int32Bits),
                      MaxInt(Int32Bits) + 1, 2 ^ Int32Bits - 1})

\* The register holding value v of stack type st. An int32 is held
\* sign-extended: ldc.i4 moves its int32_t operand, widened to int64_t, into
\* the register (jit.c 2358-2361).
Reg(st, v) == Wrap(v, NativeBits)

\* The value a register holds for stack type st: its low Width(st) bits.
Denote(st, r) == Signed(r, Width(st))

\* MIR_MOV, MIR_EXT32 and MIR_UEXT32.
MirUnary(code, r) ==
    CASE code = "MOV"    -> r
      [] code = "EXT32"  -> Wrap(Signed(r, Int32Bits), NativeBits)
      [] code = "UEXT32" -> Wrap(r, Int32Bits)

Abs(x) == IF x < 0 THEN -x ELSE x

\* Division truncating toward zero, as C, MIR and the CLI divide.
Quot(a, b) == IF (a < 0) = (b < 0) THEN Abs(a) \div Abs(b) ELSE -(Abs(a) \div Abs(b))

\* The outcomes of an instruction: a value, a managed exception, or a
\* machine fault (the process dies or the behaviour is undefined).
Val(x)    == [kind |-> "value", val |-> x]
Exc(name) == [kind |-> name, val |-> 0]
Fault     == [kind |-> "fault", val |-> 0]

\* MIR_ADD/AND/DIV on 64-bit words, or ADDS/ANDS/DIVS on the low 32 bits
\* (w = Int32Bits); the result is the w-bit value.
MirBinary(op, w, r1, r2) ==
    LET a == Signed(r1, w)
        b == Signed(r2, w)
    IN  CASE op = "add" -> Val(Signed(a + b, w))
          [] op = "and" -> Val(Signed(Wrap(r1, w) & Wrap(r2, w), w))
          [] op = "div" -> IF b = 0 \/ (a = MinInt(w) /\ b = -1) THEN Fault
                           ELSE Val(Signed(Quot(a, b), w))

\* MIR_EQ and MIR_LT (EQS/LTS on the low 32 bits): 1 or 0.
MirCompare(op, w, r1, r2) ==
    LET a == Signed(r1, w)
        b == Signed(r2, w)
    IN  Val(IF (op = "ceq" /\ a = b) \/ (op = "clt" /\ a < b) THEN 1 ELSE 0)

\* MIR_NEG and MIR_XOR with -1 (NEGS/XORS on the low 32 bits when w is
\* Int32Bits); the result is the w-bit value.
MirNegate(op, w, r) ==
    IF op = "neg" THEN Val(Signed(2 ^ w - Wrap(r, w), w))
    ELSE Val(Signed(Wrap(r, w) ^^ (2 ^ w - 1), w))

-----------------------------------------------------------------------------
(***************************************************************************)
(* The CLI's meaning, ECMA-335 III.1.5 (an int32 operand next to a native  *)
(* int is sign-extended), III.3.x of each instruction.                     *)
(***************************************************************************)
OperandWidth(st1, st2) == IF st1 = "Int32" /\ st2 = "Int32" THEN Int32Bits ELSE NativeBits

\* add, and, div (III.3.1, III.3.5, III.3.31): div by zero throws
\* DivideByZeroException, the most negative value by -1 ArithmeticException.
CliBinary(op, st1, st2, v1, v2) ==
    LET w == OperandWidth(st1, st2)
    IN  CASE op = "add" -> Val(Signed(v1 + v2, w))
          [] op = "and" -> Val(Signed(Wrap(v1, w) & Wrap(v2, w), w))
          [] op = "div" -> CASE v2 = 0 -> Exc("DivideByZeroException")
                             [] v1 = MinInt(w) /\ v2 = -1 -> Exc("ArithmeticException")
                             [] OTHER -> Val(Quot(v1, v2))

\* neg and not (III.3.50, III.3.52): two's complement negation, which
\* wraps the most negative value to itself, and the bitwise complement.
CliNegate(op, w, v) == IF op = "neg" THEN Val(Signed(-v, w)) ELSE Val(-v - 1)

\* ceq, clt (III.3.21, III.3.23).
CliCompare(op, v1, v2) ==
    Val(IF (op = "ceq" /\ v1 = v2) \/ (op = "clt" /\ v1 < v2) THEN 1 ELSE 0)

\* conv.i4/u4 truncate to 32 bits; conv.i8/i sign-extend an int32 and
\* conv.u8/u zero-extend it; from a 64-bit value they keep the bits
\* (III.3.27, III.3.29, table III.8).
CliConv(op, st, v) ==
    CASE op \in {"conv_i4", "conv_u4"} -> Signed(v, Int32Bits)
      [] op \in {"conv_u8", "conv_u"} /\ st = "Int32" -> Wrap(v, Int32Bits)
      [] OTHER -> v

\* switch (III.3.66): the value is read as an unsigned int32; at or past
\* the number of targets control falls through, else it goes to that target.
CliSwitch(v, n) ==
    IF Wrap(v, Int32Bits) >= n THEN [kind |-> "fallthrough", val |-> 0]
    ELSE [kind |-> "target", val |-> Wrap(v, Int32Bits)]
=============================================================================
