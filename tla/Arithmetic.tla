----------------------------- MODULE Arithmetic -----------------------------
(***************************************************************************)
(* Functions of src/library on numbers and sequences, against what they are *)
(* documented to compute.                                                  *)
(***************************************************************************)
EXTENDS Integers, Sequences, FiniteSets, SequencesExt, FiniteSetsExt

-----------------------------------------------------------------------------
(***************************************************************************)
(* The functions of src/library/mathlib.h and mathlib_primes.h, asked      *)
(* about one number after the other.  Integers have Width bits where the   *)
(* code relies on what fits: 64 in mul_mod, 32 in is_prime.                *)
(***************************************************************************)

CONSTANTS
  Width,       (* even; of the unsigned numbers of mul_mod                 *)
  MaxAsked,    (* the numbers asked about are 1 .. MaxAsked                *)
  Limits       (* the limits of ChooseAll                                  *)

ASSUME NumberAssumption == Width \in Nat /\ Width % 2 = 0 /\ MaxAsked \in Nat

VARIABLE number  (* 0 while nothing was asked                              *)

NumberInit == number = 0
NumberNext == number < MaxAsked /\ number' = number + 1
-----------------------------------------------------------------------------
(* The loops over divisors of is_prime and over the multiples of a prime   *)
(* in make_primes.                                                         *)
RECURSIVE NoDivisorFrom(_, _)
NoDivisorFrom(i, n) == i * i > n \/ (n % i # 0 /\ NoDivisorFrom(i + 1, n))
IsPrime(n) == n >= 2 /\ NoDivisorFrom(2, n)

RECURSIVE Sieve(_, _)
Sieve(candidates, n) ==
  IF candidates = {} THEN <<>>
  ELSE LET p == Min(candidates)
       IN <<p>> \o Sieve({j \in candidates : j % p # 0}, n)
MakePrimes(n) == Sieve(2 .. n - 1, n)

RECURSIVE Stripped(_, _)
Stripped(n, p) == IF n % p = 0 THEN Stripped(n \div p, p) ELSE n

LastFactor(n) == IF n > 1 THEN <<n>> ELSE <<>>

(* get_prime_factors; prime_factors counts the same                        *)
RECURSIVE FactorsFrom(_, _)
FactorsFrom(n, primes) ==
  IF primes = <<>> \/ Head(primes) * Head(primes) > n THEN LastFactor(n)
  ELSE IF n % Head(primes) = 0
  THEN <<Head(primes)>> \o FactorsFrom(Stripped(n, Head(primes)), Tail(primes))
  ELSE FactorsFrom(n, Tail(primes))

EulerPhi(n, primes) ==
  FoldLeft(LAMBDA phi, f : (phi * (f - 1)) \div f, n, FactorsFrom(n, primes))
-----------------------------------------------------------------------------
Unsigned(x) == x % 2 ^ Width
HalfFits(x) == x <= 2 ^ (Width \div 2 - 1) - 1

AddMod(res, a, mod) ==
  IF Unsigned(res + a) >= mod THEN Unsigned(res + a) - mod ELSE Unsigned(res + a)

(* russianPeasant_mul_mod, from the loop on *)
RECURSIVE Peasant(_, _, _, _)
Peasant(a, b, res, mod) ==
  IF a = 0 \/ b = 0 THEN res
  ELSE IF HalfFits(a) /\ HalfFits(b) THEN Unsigned((Unsigned(a * b) % mod) + res) % mod
  ELSE LET twice == Unsigned(2 * a)
       IN Peasant(IF twice >= mod THEN twice - mod ELSE twice, b \div 2,
                  IF b % 2 = 1 THEN AddMod(res, a, mod) ELSE res, mod)

MulMod(a, b, mod) ==
  LET x == a % mod
      y == b % mod
  IN IF y > x THEN Peasant(y, x, 0, mod) ELSE Peasant(x, y, 0, mod)

RECURSIVE PowMod(_, _, _, _)
PowMod(base, exp, mod, res) ==
  IF exp = 0 THEN res
  ELSE PowMod(MulMod(base, base, mod), exp \div 2, mod,
              IF exp % 2 = 1 THEN MulMod(res, base, mod) ELSE res)

(* power2 - 1 *)
Rounds(r) == r - 1

(* miller_rabin_prime with base a: num - 1 = 2^r * d                       *)
RECURSIVE Squares(_, _, _)
Squares(x, repeats, num) ==
  /\ repeats > 0
  /\ LET y == MulMod(x, x, num)
     IN y = num - 1 \/ (y # 1 /\ Squares(y, repeats - 1, num))

MillerRabin(num, a) ==
  LET d == Stripped(num - 1, 2)
      r == CHOOSE i \in 1 .. num : 2 ^ i * d = num - 1
      x == PowMod(a, d, num, 1)
  IN x \in {1, num - 1} \/ Squares(x, Rounds(r), num)
-----------------------------------------------------------------------------
PeriodAt(pos, at) == pos - at

(* repeatingDecimals: seen holds the remainders met so far in order        *)
RECURSIVE LongDivision(_, _, _)
LongDivision(numer, denom, seen) ==
  LET next == (numer * 10) % denom
  IN IF numer = 0 THEN 0
     ELSE IF next \in ToSet(seen)
     THEN PeriodAt(Len(seen), (CHOOSE i \in DOMAIN seen : seen[i] = next) - 1)
     ELSE LongDivision(next, denom, Append(seen, next))
RepeatingDecimals(numer, denom) == LongDivision(numer % denom, denom, <<numer % denom>>)

(* reverse, isPalindrome and allPalindrome *)
RECURSIVE Reversed(_, _)
Reversed(n, onto) == IF n = 0 THEN onto ELSE Reversed(n \div 10, onto * 10 + (n % 10))
IsPalindrome(n) == n % 10 # 0 /\ n = Reversed(n, 0)

Centers == 0 .. 9
AllPalindrome(prefix) ==
  (1 .. 9) \cup UNION {{Reversed(p, p)} \cup {Reversed(p, p * 10 + i) : i \in Centers}
                     : p \in 1 .. prefix - 1}

(* ChooseAll and K_exceed_limit *)
RECURSIVE ChoicesFrom(_, _, _, _)
ChoicesFrom(choice, k, n, limit) ==
  LET upper == n - k + 1
      next == (choice \div k) * upper + (upper * (choice % k)) \div k
  IN IF n - k < k \/ choice * upper > limit * k THEN k
     ELSE ChoicesFrom(next, k + 1, n, limit)

Exceeds(low, high) == IF high = low THEN 0 ELSE high - low - 1

KExceedLimit(n, limit) ==
  LET low == ChoicesFrom(1, 1, n, limit) - 1 IN Exceeds(low, n - low)
-----------------------------------------------------------------------------
Divides(d, n) == n % d = 0
Coprime(a, b) == ~\E d \in 2 .. a : Divides(d, a) /\ Divides(d, b)

(* euler_phi counts the numbers below n that share no factor with it, and  *)
(* the prime factors are each found once, also the one beyond the primes   *)
(* tried (mathlib_primes.h:52-78).                                         *)
PhiCountsCoprimes ==
  number > 0 =>
  LET primes == MakePrimes(number + 2)
      factors == FactorsFrom(number, primes)
  IN /\ ToSet(primes) = {p \in 1 .. number + 1 : IsPrime(p)}
     /\ ToSet(factors) = {p \in ToSet(primes) : Divides(p, number)}
     /\ IsInjective(factors)
     /\ EulerPhi(number, primes) = Cardinality({a \in 1 .. number : Coprime(a, number)})

(* mul_mod is the product modulo mod although the product may not fit,     *)
(* exactly when no residue but 0 loses its highest bit by doubling: for    *)
(* every larger modulus some product is wrong (mathlib_primes.h:80-105).   *)
MulModIsExact ==
  number \in 1 .. 2 ^ Width - 1 =>
    (number <= 2 ^ (Width - 1)) =
      \A a, b \in 0 .. 2 ^ Width - 1 : MulMod(a, b, number) = ((a % number) * (b % number)) % number

(* No base makes the test reject a prime (mathlib_primes.h:118-152).       *)
NoPrimeRejected ==
  IsPrime(number) /\ number > 3 /\ number <= 2 ^ (Width - 1) =>
    \A a \in 2 .. number - 2 : MillerRabin(number, a)

(* The period of numer / denom is the least distance at which the          *)
(* remainders of the division repeat, 0 if it ends (mathlib.h:108-126).    *)
PeriodIsLeast ==
  \A numer \in 1 .. number :
    LET rest[i \in Nat] == IF i = 0 THEN numer % number ELSE (rest[i - 1] * 10) % number
    IN RepeatingDecimals(numer, number) =
         IF rest[number] = 0 THEN 0
         ELSE Min({p \in 1 .. number : rest[number + p] = rest[number]})

(* The palindromes made from the prefixes below number are those with that *)
(* many leading digits, of either length, and each is one                  *)
(* (mathlib.h:128-163).                                                    *)
PalindromesComplete ==
  number = 10 => AllPalindrome(number) = {n \in 1 .. 999 : IsPalindrome(n)}

Binomial(n, k) ==
  FoldFunctionOnSet(LAMBDA x, y : x * y, 1, [i \in 1 .. n |-> i], (n - k + 1) .. n)
    \div FoldFunctionOnSet(LAMBDA x, y : x * y, 1, [i \in 1 .. n |-> i], 1 .. k)

(* K_exceed_limit counts the k for which n over k is above the limit,      *)
(* though only the lower half is computed, up to the limit                 *)
(* (mathlib.h:75-101).                                                     *)
ExceedingCounted ==
  number \in 1 .. 10 => \A limit \in Limits :
    KExceedLimit(number, limit) = Cardinality({k \in 0 .. number : Binomial(number, k) > limit})

-----------------------------------------------------------------------------
(***************************************************************************)
(* The algorithms of src/library/myalgo.h on sequences, for every short    *)
(* sequence of small numbers.                                              *)
(***************************************************************************)

CONSTANTS Entries, MaxEntries   (* the numbers, and how many at most       *)

ASSUME AlgorithmAssumption == Entries \subseteq Int /\ MaxEntries \in Nat

VARIABLE input

AlgorithmInit == input = <<>>
AlgorithmNext ==
  Len(input) < MaxEntries /\ \E x \in Entries : input' = Append(input, x)
-----------------------------------------------------------------------------
(* A negative sum is not continued. *)
Restarted(sum) == IF sum < 0 THEN 0 ELSE sum

(* maxSubSum: the largest sum so far and the sum that goes on, from both   *)
MaxSubSum(s, seed, init) ==
  FoldLeft(LAMBDA r, x : <<Max({r[1], r[2] + x}), Restarted(r[2] + x)>>, <<seed, init>>, s)

(* continuousLongestBy: the longest run and the one that goes on; isGood is the
   set of the values that end a run.                                        *)
ContinuousLongestBy(s, isGood) ==
  LET r == FoldLeft(LAMBDA m, x : IF x \in isGood THEN <<Max({m[1], m[2]}), 0>> ELSE <<m[1], m[2] + 1>>,
                    <<-1, 0>>, s)
  IN Max({r[1], r[2]})

LastRun(counts, cnt) == IF cnt > 0 THEN Append(counts, cnt) ELSE counts

(* count_consecutive *)
CountConsecutive(s, target) ==
  LET r == FoldLeft(LAMBDA c, x : IF x = target THEN [c EXCEPT !.cnt = @ + 1]
                                  ELSE [counts |-> LastRun(c.counts, c.cnt), cnt |-> 0],
                    [counts |-> <<>>, cnt |-> 0], s)
  IN LastRun(r.counts, r.cnt)
-----------------------------------------------------------------------------
AfterSwap(last) == last - 1

(* reverse_string_if, from first to last; cond is the set of what meets it *)
RECURSIVE ReverseIf(_, _, _, _)
ReverseIf(s, first, last, cond) ==
  IF first >= last THEN s
  ELSE IF s[first] \notin cond THEN ReverseIf(s, first + 1, last, cond)
  ELSE IF s[last] \notin cond THEN ReverseIf(s, first, last - 1, cond)
  ELSE ReverseIf([s EXCEPT ![first] = s[last], ![last] = s[first]],
                 first + 1, AfterSwap(last), cond)
-----------------------------------------------------------------------------
Pieces(s) == {SubSeq(s, i, j) : i, j \in DOMAIN s}
Total(s) == FoldLeft(+, 0, s)

(* maxSubSum gives the largest sum of neighbours, and the same when the    *)
(* sequence comes in two pieces and the second call continues the first    *)
(* (myalgo.h:111-123).                                                     *)
LargestSum ==
  input # <<>> =>
    /\ MaxSubSum(input, input[1], 0)[1] = Max({Total(p) : p \in Pieces(input) \ {<<>>}})
    /\ \A i \in 1 .. Len(input) :
         LET half == MaxSubSum(SubSeq(input, 1, i), input[1], 0)
         IN MaxSubSum(SubSeq(input, i + 1, Len(input)), half[1], half[2]) = MaxSubSum(input, input[1], 0)

(* The lengths of the runs of a number, none left out at the end; the      *)
(* longest run without it is what continuousLongestBy, "untested", returns *)
(* (myalgo.h:88-109, 153-170).                                             *)
RunsCounted ==
  \A x \in Entries :
    LET starts == {i \in DOMAIN input : input[i] = x /\ (i = 1 \/ input[i - 1] # x)}
        counts == CountConsecutive(input, x)
    IN /\ Len(counts) = Cardinality(starts)
       /\ Total(counts) = Cardinality({i \in DOMAIN input : input[i] = x})
       /\ ContinuousLongestBy(input, {x})
            = Max({0} \cup {Len(p) : p \in {q \in Pieces(input) : x \notin ToSet(q)}})

(* What satisfies the condition is reversed, the rest stays in its place   *)
(* (myalgo.h:134-150).                                                     *)
ReversesWhatCounts ==
  LET odd(x) == x % 2 = 1
      r == ReverseIf(input, 1, Len(input), {x \in Entries : odd(x)})
  IN /\ SelectSeq(r, odd) = Reverse(SelectSeq(input, odd))
     /\ \A i \in DOMAIN input : ~odd(input[i]) => r[i] = input[i]
     /\ \A i \in DOMAIN input : odd(input[i]) = odd(r[i])
=============================================================================
