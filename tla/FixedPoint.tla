------------------------------ MODULE FixedPoint ------------------------------
(***************************************************************************)
(* The program's integer arithmetic: unsigned machine integers and amounts *)
(* scaled by RATE_SCALE.  A checked operation that overflows makes the     *)
(* instruction fail, and a failed Solana transaction leaves every account  *)
(* as it was; so a failure is a guard (Can...) and never a value.          *)
(***************************************************************************)
EXTENDS Integers

CONSTANTS
  RATE_SCALE,      \* fixed-point unit of rates, prices and obligation debts
  SLOTS_PER_YEAR,  \* slots over which an annual rate is spread
  MAX_U64,         \* largest u64: token amounts and slots
  MAX_U128         \* largest u128: scaled amounts and every product

ASSUME ScaleAssumption == /\ RATE_SCALE \in Nat \ {0}
                          /\ SLOTS_PER_YEAR \in Nat \ {0}

ASSUME WidthAssumption == /\ MAX_U64 \in Nat
                          /\ MAX_U128 \in Nat
                          /\ RATE_SCALE <= MAX_U128

BPS_SCALER     == 10000
PERCENT_SCALER == 100

U8   == 0 .. 255
U16  == 0 .. 65535
U64  == 0 .. MAX_U64
U128 == 0 .. MAX_U128

\* `as u64` and `as u16` keep the low bits and never fail.
AsU64(x) == x % (MAX_U64 + 1)
AsU16(x) == x % 65536

SaturatingSub(a, b) == IF a > b THEN a - b ELSE 0

\* checked_mul(..).and_then(checked_div(..)), with a divisor that is not 0.
CanMul(a, b)     == a * b <= MAX_U128
MulDiv(a, b, d)  == (a * b) \div d

Smaller(a, b) == IF a <= b THEN a ELSE b
===============================================================================
