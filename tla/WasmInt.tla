------------------------------ MODULE WasmInt -------------------------------
(***************************************************************************)
(* The numeric instructions.  A stack cell is a signed integer of I64_BITS *)
(* bits whatever its WASM type: an i32 sits in it sign- or zero-extended,  *)
(* and each instruction casts what it pops.  Integer instructions are      *)
(* exact; a float is a bit pattern and what libm makes of it is any        *)
(* pattern of FloatBits.                                                   *)
(***************************************************************************)
EXTENDS WasmCode

CONSTANTS BYTE_BITS, FloatBits

ASSUME ByteAssumption == BYTE_BITS \in Nat \ {0}
ASSUME FloatAssumption == FloatBits \subseteq Int

Cells == -(2^(I64_BITS - 1)) .. 2^(I64_BITS - 1) - 1
Cell(x) == Signed(x, I64_BITS)
Bool(p) == IF p THEN 1 ELSE 0

Ok(x) == [err |-> "", val |-> Cell(x)]
Err(e) == [err |-> e, val |-> 0]

BitOf(x, k) == (x \div 2^k) % 2

ByBits(Op(_, _), x, y, w) ==
  LET low[k \in 0 .. w] ==
        IF k = 0 THEN 0
        ELSE low[k - 1] + 2^(k - 1) * Op(BitOf(x, k - 1), BitOf(y, k - 1))
  IN  low[w]

Ones(x, w) == {k \in 0 .. w - 1 : BitOf(x, k) = 1}

\* Division that rounds to zero, and its remainder.
Quot(a, b) ==
  LET q == (IF a < 0 THEN -a ELSE a) \div (IF b < 0 THEN -b ELSE b)
  IN  IF (a < 0) = (b < 0) THEN q ELSE -q
Rem(a, b) == a - b * Quot(a, b)

-----------------------------------------------------------------------------
(* i32 and i64 have the same instructions in the same order of opcodes.    *)

CompareNames == <<"eqz", "eq", "ne", "lt_s", "lt_u", "gt_s", "gt_u",
                  "le_s", "le_u", "ge_s", "ge_u">>
ArithNames == <<"clz", "ctz", "popcnt", "add", "sub", "mul", "div_s", "div_u",
                "rem_s", "rem_u", "and", "or", "xor", "shl", "shr_s", "shr_u",
                "rotl", "rotr">>

Compare(name, x, y, w) ==
  LET a == Signed(x, w)  b == Signed(y, w)
      ua == x % 2^w      ub == y % 2^w
  IN  Bool(CASE name = "eqz"  -> a = 0
             [] name = "eq"   -> a = b
             [] name = "ne"   -> a # b
             [] name = "lt_s" -> a < b
             [] name = "lt_u" -> ua < ub
             [] name = "gt_s" -> a > b
             [] name = "gt_u" -> ua > ub
             [] name = "le_s" -> a <= b
             [] name = "le_u" -> ua <= ub
             [] name = "ge_s" -> a >= b
             [] name = "ge_u" -> ua >= ub)

\* i32.div_s wraps MIN / -1, i64.div_s traps on it.
Divides(name, a, b, w) ==
  IF b = 0 \/ (name = "div_s" /\ w = I64_BITS /\ a = -(2^(w - 1)) /\ b = -1)
  THEN Err("DivisionByZero")
  ELSE Ok(CASE name = "div_s" -> Signed(Quot(a, b), w)
            [] name = "rem_s" -> Rem(a, b)
            [] name = "div_u" -> (a % 2^w) \div (b % 2^w)
            [] name = "rem_u" -> (a % 2^w) % (b % 2^w))

\* What always has a result.
Wraps(name, x, y, w) ==
  LET a == Signed(x, w)  b == Signed(y, w)
      ua == x % 2^w      by == (y % 2^w) % w
      ones == Ones(ua, w)
      rotated(n) == Signed(ua * 2^n + (ua \div 2^(w - n)), w)
  IN  CASE name = "clz"    -> IF ones = {} THEN w ELSE Least({n \in 0 .. w - 1 : w - 1 - n \in ones})
        [] name = "ctz"    -> IF ones = {} THEN w ELSE Least(ones)
        [] name = "popcnt" -> Cardinality(ones)
        [] name = "add"    -> Signed(a + b, w)
        [] name = "sub"    -> Signed(a - b, w)
        [] name = "mul"    -> Signed(a * b, w)
        [] name = "and"    -> Signed(ByBits(LAMBDA p, q : p * q, a, b, w), w)
        [] name = "or"     -> Signed(ByBits(LAMBDA p, q : p + q - p * q, a, b, w), w)
        [] name = "xor"    -> Signed(ByBits(LAMBDA p, q : (p + q) % 2, a, b, w), w)
        [] name = "shl"    -> Signed(a * 2^by, w)
        [] name = "shr_s"  -> a \div 2^by
        [] name = "shr_u"  -> ua \div 2^by
        [] name = "rotl"   -> rotated(by)
        [] name = "rotr"   -> rotated((w - by) % w)

Arith(name, x, y, w) ==
  IF name \in {"div_s", "div_u", "rem_s", "rem_u"}
  THEN Divides(name, Signed(x, w), Signed(y, w), w)
  ELSE Ok(Wraps(name, x, y, w))

-----------------------------------------------------------------------------
(* Opcodes, how many operands each takes, and what it may leave.           *)

CompareOps == 69 .. 90
ArithOps == 103 .. 138
ConvertOps == {167, 172, 173} \cup 192 .. 196
FloatCompareOps == 91 .. 102
FloatUnaryOps == 139 .. 145 \cup 153 .. 159
FloatBinaryOps == 146 .. 152 \cup 160 .. 166
TruncOps == 168 .. 171 \cup 174 .. 177
ToFloatOps == 178 .. 187
ReinterpretOps == {188}     \* 189 .. 191 do nothing
NumericOps == CompareOps \cup ArithOps \cup ConvertOps \cup FloatCompareOps
                \cup FloatUnaryOps \cup FloatBinaryOps \cup TruncOps
                \cup ToFloatOps \cup ReinterpretOps

Unary == {69, 80} \cup 103 .. 105 \cup 121 .. 123 \cup ConvertOps \cup FloatUnaryOps
           \cup TruncOps \cup ToFloatOps \cup ReinterpretOps
Operands(op) == IF op \in Unary THEN 1 ELSE 2

Convert(op, x) ==
  CASE op \in {167, 172, 196} -> Signed(x, I32_BITS)
    [] op = 173               -> x % 2^I32_BITS
    [] op \in {192, 194}      -> Signed(x, BYTE_BITS)
    [] op \in {193, 195}      -> Signed(x, 2 * BYTE_BITS)

\* x is the deeper operand, y the top one; they are the same for a unary op.
NumericResults(op, x, y) ==
  CASE op \in 69 .. 79    -> {Ok(Compare(CompareNames[op - 68], x, y, I32_BITS))}
    [] op \in 80 .. 90    -> {Ok(Compare(CompareNames[op - 79], x, y, I64_BITS))}
    [] op \in 103 .. 120  -> {Arith(ArithNames[op - 102], x, y, I32_BITS)}
    [] op \in 121 .. 138  -> {Arith(ArithNames[op - 120], x, y, I64_BITS)}
    [] op \in ConvertOps  -> {Ok(Convert(op, y))}
    [] op = 188           -> {Ok(y % 2^I32_BITS)}
    [] op \in FloatCompareOps -> {Ok(0), Ok(1)}
    [] op \in TruncOps    -> {Err("InvalidConversion")} \cup {Ok(v) : v \in FloatBits}
    [] OTHER              -> {Ok(v) : v \in FloatBits}
=============================================================================
