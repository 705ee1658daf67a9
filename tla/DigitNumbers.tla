---------------------------- MODULE DigitNumbers ----------------------------
(***************************************************************************)
(* Numbers as digits: sums and products of long numbers, numbers written   *)
(* into a field, and a stack machine on numbers of limited width.          *)
(***************************************************************************)
EXTENDS Integers, Sequences, SequencesExt, FiniteSetsExt

-----------------------------------------------------------------------------
(***************************************************************************)
(* LargeInt of src/library/large_int.h and large_int_basic.h: a number as  *)
(* a sequence of digits below scale, the least significant one first.  The *)
(* state is one LargeInt, li, and the number it stands for.                *)
(***************************************************************************)

CONSTANTS
  Ten, Group,  (* scale is Ten^Group: 10^9 in the code                     *)
  ShortSize,   (* multiply_fast leaves shorter numbers to multiply1        *)
  Operands,    (* the ints the operations are given                        *)
  MaxValue,    (* bounds the number                                        *)
  MaxDigits    (* bounds the digits, leading zeros included                *)

ASSUME LargeAssumption ==
  Ten \in Nat \ {0, 1} /\ Group \in Nat \ {0} /\ ShortSize \in Nat \ (0 .. 3)

VARIABLES li, num

largeVars == <<li, num>>

scale == Ten ^ Group
Zeros(n) == [i \in 1 .. n |-> 0]
PadTo(v, n) == IF Len(v) < n THEN v \o Zeros(n - Len(v)) ELSE v

(* large_int_fill *)
RECURSIVE Fill(_, _, _)
Fill(v, n, base) ==
  IF n < base THEN Append(v, n) ELSE Fill(Append(v, n % base), n \div base, base)

Of(n) == Fill(<<>>, n, scale)
-----------------------------------------------------------------------------
(* Mutant: what is carried over the last digit is dropped. *)
CarriedShort(columns) ==
  FoldLeft(LAMBDA acc, c : [digits |-> Append(acc.digits, (acc.carry + c) % scale),
                            carry |-> (acc.carry + c) \div scale],
           [digits |-> <<>>, carry |-> 0], columns).digits

(* sum_int and large_int_multiply: the digits of columns that may be above *)
(* the scale, and those of the last carry                                  *)
Carried(columns) ==
  LET r == FoldLeft(LAMBDA acc, c : [digits |-> Append(acc.digits, (acc.carry + c) % scale),
                                     carry |-> (acc.carry + c) \div scale],
                    [digits |-> <<>>, carry |-> 0], columns)
  IN IF r.carry > 0 THEN Fill(r.digits, r.carry, scale) ELSE r.digits

(* sum, which pads the shorter of the two *)
Sum2(v, w) ==
  LET n == IF Len(v) > Len(w) THEN Len(v) ELSE Len(w)
  IN Carried([i \in 1 .. n |-> PadTo(v, n)[i] + PadTo(w, n)[i]])

(* operator-=; both asserts hold when w is not the larger number *)
Minus(v, w) ==
  FoldLeft(LAMBDA acc, c : [digits |-> Append(acc.digits, (c - acc.borrow) % scale),
                            borrow |-> IF c - acc.borrow < 0 THEN 1 ELSE 0],
           [digits |-> <<>>, borrow |-> 0],
           [i \in 1 .. Len(v) |-> v[i] - (IF i <= Len(w) THEN w[i] ELSE 0)])

(* multiply: from the digit y[i] on *)
RECURSIVE MultiplyFrom(_, _, _, _)
MultiplyFrom(i, x, y, ans) ==
  IF i > Len(y) THEN ans
  ELSE MultiplyFrom(i + 1, x, y,
         IF y[i] = 0 THEN ans
         ELSE Sum2(ans, Carried(Zeros(i - 1) \o [j \in 1 .. Len(x) |-> x[j] * y[i]])))

Multiply1(x, y) == MultiplyFrom(1, x, y, <<0>>)

(* trim0: leading zeros but one *)
RECURSIVE Trim0(_)
Trim0(v) == IF Len(v) > 1 /\ Last(v) = 0 THEN Trim0(Front(v)) ELSE v

(* add: of two ranges, the first of them not the shorter one *)
AddRanges(x, y) == IF Len(x) < Len(y) THEN PadTo(x, Len(y)) ELSE Sum2(x, y)

(* left_half: the longer half, of the less significant digits *)
Halves(n) == n - n \div 2

RECURSIVE MultiplyFast(_, _)
MultiplyFast(x, y) ==
  LET n == IF Len(x) > Len(y) THEN Len(x) ELSE Len(y)
      u == PadTo(x, n)
      v == PadTo(y, n)
      h == Halves(n)
      L(s) == SubSeq(s, 1, h)
      R(s) == SubSeq(s, h + 1, n)
      last == MultiplyFast(L(u), L(v))
      first == MultiplyFast(R(u), R(v))
      both == MultiplyFast(AddRanges(L(u), R(u)), AddRanges(L(v), R(v)))
      middle == Minus(Minus(both, Trim0(last)).digits, Trim0(first)).digits
  IN IF n < ShortSize THEN Multiply1(u, v)
     ELSE Sum2(Sum2(Zeros(2 * h) \o first, last), Zeros(h) \o Trim0(middle))

(* get: the digits scale_down finds, Group of them for each one of v but   *)
(* the last, without leading zeros, the most significant first             *)
Get(v) ==
  LET down == FoldLeft(LAMBDA dest, n : Fill(PadTo(dest, Group * ((Len(dest) + Group - 1) \div Group)), n, Ten),
                       <<>>, v)
  IN Reverse(Trim0(down))
-----------------------------------------------------------------------------
LargeInit == \E n \in Operands : li = Of(n) /\ num = n

Holds(v, n) == n <= MaxValue /\ Len(v) <= MaxDigits /\ li' = v /\ num' = n

AddInt(n) == Holds(Sum2(li, Of(n)), num + n)
Less(n) == n <= num /\ Len(Of(n)) <= Len(li) /\ Holds(Minus(li, Of(n)).digits, num - n)
Times(n) == Holds(Multiply1(li, Of(n)), num * n)
Square == Holds(MultiplyFast(li, li), num * num)
Trim == Holds(Trim0(li), num)

LargeNext ==
  \/ \E n \in Operands : AddInt(n) \/ Less(n) \/ Times(n)
  \/ Square
  \/ Trim

LargeSpec == LargeInit /\ [][LargeNext]_largeVars
-----------------------------------------------------------------------------
ValueOf(v, base) == FoldRight(LAMBDA d, n : n * base + d, v, 0)

(* After any operations, with whatever leading zeros they left, li stands  *)
(* for the number, nothing remains borrowed (the assert of large_int.h:63) *)
(* and get shows it without leading zeros (large_int.h:24-91).             *)
StandsForNumber ==
  /\ \A i \in 1 .. Len(li) : li[i] \in 0 .. scale - 1
  /\ ValueOf(li, scale) = num
  /\ \A n \in Operands : n <= num /\ Len(Of(n)) <= Len(li) => Minus(li, Of(n)).borrow = 0
  /\ ValueOf(Reverse(Get(li)), Ten) = num
  /\ Get(li)[1] = 0 => Len(Get(li)) = 1

(* multiply_fast, whose comment says "needs test", gives the product       *)
(* (large_int.h:144-236).                                                  *)
FastIsProduct ==
  \A n \in Operands : ValueOf(MultiplyFast(li, Of(n)), scale) = num * n

-----------------------------------------------------------------------------
(***************************************************************************)
(* src/library/Digits-Helper.h: numbers written right-justified into a     *)
(* field, padded with zeros, by itoa_fix and with a point by ftoa_fix; and *)
(* the stack machine of src/cpp11/jumpTrading.cpp.                         *)
(***************************************************************************)

CONSTANTS
  Written,     (* the numbers written, whose whole parts fit in an int     *)
  Fields,      (* the widths of the fields                                 *)
  MostDigits,  (* 10: count_digits counts no more                          *)
  Pushed,      (* the numbers pushed                                       *)
  MAX, Word,   (* 2^20 and 2^32                                            *)
  MaxStack     (* bounds the numbers of the machine                        *)

ASSUME TextAssumption ==
  Written \subseteq Int /\ MostDigits \in Nat \ {0} /\ Pushed \subseteq 0 .. Word - 1 /\ 2 * MAX <= Word /\ MaxStack \in Nat

VARIABLES
  written,   (* the number, the field and its decimals                     *)
  numbers,   (* of WordMachine                                             *)
  accepted,  (* whether every call since it was made returned true         *)
  meant      (* the numbers, computed without a limit                      *)

machineVars == <<numbers, accepted, meant>>
-----------------------------------------------------------------------------
Magnitude(val) == IF val < 0 THEN -val ELSE val
Sign(val) == IF val < 0 THEN <<"-">> ELSE <<>>

(* count_digits, of longer numbers too                                     *)
CountDigits(val) == Max({1} \cup {n \in 2 .. MostDigits : val >= 10 ^ (n - 1)})

(* itoa_fill: the last len digits, and what is left of the number          *)
FillDigits(val, len) == [i \in 1 .. len |-> (val \div 10 ^ (len - i)) % 10]
Left(val, len) == val \div 10 ^ len

(* itoa_pos_pad_left *)
PadLeft(val, space) ==
  LET len == Min({CountDigits(val), space}) IN [i \in 1 .. space - len |-> 0] \o FillDigits(val, len)
PadLeftReturns(val, space) == Left(val, Min({CountDigits(val), space}))

ItoaFix(val, field) ==
  Sign(val) \o PadLeft(Magnitude(val), field - Len(Sign(val)))

FtoaFix(val, dp, field) ==
  LET space == field - Len(Sign(val)) - dp - 1
      whole == Magnitude(val) \div 10 ^ dp
  IN Sign(val) \o PadLeft(whole, space) \o <<".">> \o FillDigits(Magnitude(val) % 10 ^ dp, dp)

TextInit == written = <<>>

(* The field has room for the sign, a digit, the point and the decimals.   *)
TextNext ==
  \E val \in Written, field \in Fields, dp \in 0 .. Max(Fields) :
    written = <<>> /\ Len(Sign(val)) + dp + 2 <= field /\ written' = <<val, field, dp>>
-----------------------------------------------------------------------------
MachineInit == numbers = <<>> /\ accepted = TRUE /\ meant = <<>>

RangeCheck(x) == x < MAX

(* The last number replaced, after n were taken.                           *)
Replaced(seq, n, x) == Append(SubSeq(seq, 1, Len(seq) - n), x)
Below(seq) == seq[Len(seq) - 1]

(* solution2 stops at the first call that returns false.                   *)
Push(x) ==
  /\ accepted' = RangeCheck(x)
  /\ numbers' = IF accepted' THEN Append(numbers, x) ELSE numbers
  /\ meant' = IF accepted' THEN Append(meant, x) ELSE meant

Pop ==
  IF numbers = <<>> THEN accepted' = FALSE /\ UNCHANGED <<numbers, meant>>
  ELSE numbers' = Front(numbers) /\ meant' = Front(meant) /\ UNCHANGED accepted

Dup ==
  IF numbers = <<>> THEN accepted' = FALSE /\ UNCHANGED <<numbers, meant>>
  ELSE /\ numbers' = Append(numbers, Last(numbers))
       /\ meant' = Append(meant, Last(meant))
       /\ UNCHANGED accepted

(* add and subtract: result and meaning of the two numbers on top          *)
Compute(result, meaning) ==
  IF Len(numbers) < 2 THEN accepted' = FALSE /\ UNCHANGED <<numbers, meant>>
  ELSE /\ numbers' = Replaced(numbers, 2, result % Word)
       /\ meant' = Replaced(meant, 2, meaning)
       /\ accepted' = RangeCheck(Last(numbers'))

AddTop == Compute(Last(numbers) + Below(numbers), Last(meant) + Below(meant))

Subtract == Compute(Last(numbers) - Below(numbers), Last(meant) - Below(meant))

MachineNext ==
  /\ accepted
  /\ \/ Len(numbers) < MaxStack /\ (Dup \/ \E x \in Pushed : Push(x))
     \/ Pop
     \/ AddTop
     \/ Subtract
-----------------------------------------------------------------------------
RECURSIVE ReadBack(_)
ReadBack(digits) ==
  IF digits = <<>> THEN 0 ELSE Last(digits) + 10 * ReadBack(Front(digits))

(* The text fills the field exactly; what it reads is the number, or its   *)
(* last digits when the field is too short or the number has more digits   *)
(* than count_digits counts, however wide the field; and only then         *)
(* itoa_fix returns something else than 0.  ftoa_fix loses the digits of   *)
(* the whole part in the same way and does not tell                        *)
(* (Digits-Helper.h:6-38, 40-63, 104-126).                                 *)
FieldShowsNumber ==
  written # <<>> =>
    LET val == written[1]
        field == written[2]
        dp == written[3]
        room == field - Len(Sign(val))
        shown == Min({room, MostDigits})
        shownWhole == Min({room - dp - 1, MostDigits})
        whole == SubSeq(ItoaFix(val, field), Len(Sign(val)) + 1, field)
        pointed == FtoaFix(val, dp, field)
        point == field - dp
    IN /\ Len(ItoaFix(val, field)) = field
       /\ ReadBack(whole) = Magnitude(val) % 10 ^ shown
       /\ (PadLeftReturns(Magnitude(val), room) = 0) = (Magnitude(val) < 10 ^ shown)
       /\ Len(pointed) = field
       /\ pointed[point] = "."
       /\ ReadBack(SubSeq(pointed, Len(Sign(val)) + 1, point - 1) \o SubSeq(pointed, point + 1, field))
            = Magnitude(val) % 10 ^ (shownWhole + dp)

(* As long as every call returned true, the 32-bit numbers of the machine  *)
(* are what exact arithmetic gives, all below 2^20: a difference below 0   *)
(* wraps to a number the range check refuses (jumpTrading.cpp:56-130).     *)
ToldIsExact ==
  accepted => /\ numbers = meant
              /\ \A i \in DOMAIN numbers : numbers[i] \in 0 .. MAX - 1
=============================================================================
