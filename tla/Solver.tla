------------------------------- MODULE Solver -------------------------------
(***************************************************************************)
(* The deterministic answers of the market agent                           *)
(* (apps/scheduler/tclk_solver.py): number questions, and the verdict on a *)
(* deliverable against a reference answer.  A brief is what the handlers'  *)
(* patterns extract from it.                                               *)
(***************************************************************************)
EXTENDS Integers, Sequences, FiniteSetsExt

CONSTANTS
    Numbers,   \* numbers a brief may name
    Words,     \* words an answer may be made of, as sequences of characters
    Numerals,  \* those of them that are numbers
    MaxWords   \* bound on the words of an answer

VARIABLES
    slBrief,   \* the brief at hand
    slAnswer   \* what solve() returned for it

slVars == <<slBrief, slAnswer>>

\* A verdict, and None, as numbers beside the answers of the number questions.
PASS == 1
FAIL == 0
NoAnswer == -1

SMALL_PRIMES == {2, 3, 5, 7, 11, 13, 17, 19, 23, 29, 31, 37}

RECURSIVE pow(_, _, _)
pow(a, e, n) ==
    IF e = 0 THEN 1 % n
    ELSE LET half == pow((a * a) % n, e \div 2, n)
         IN IF e % 2 = 0 THEN half ELSE (a * half) % n

\* <<d, s>> with n = d * 2^s and d odd.
RECURSIVE OddPart(_, _)
OddPart(d, s) == IF d % 2 = 0 THEN OddPart(d \div 2, s + 1) ELSE <<d, s>>

\* Mutant: the last squaring is left out.
is_prime_short(n) ==
    /\ n >= 2
    /\ IF \E p \in SMALL_PRIMES : n % p = 0 THEN n \in SMALL_PRIMES
       ELSE LET d == OddPart(n - 1, 0)[1]
                s == OddPart(n - 1, 0)[2]
            IN \A a \in SMALL_PRIMES :
                  \/ pow(a, d, n) \in {1, n - 1}
                  \/ \E i \in 1 .. s - 2 : pow(a, d * 2^i, n) = n - 1

\* Trial division, then Miller-Rabin with the small primes as bases.
is_prime(n) ==
    /\ n >= 2
    /\ IF \E p \in SMALL_PRIMES : n % p = 0 THEN n \in SMALL_PRIMES
       ELSE LET d == OddPart(n - 1, 0)[1]
                s == OddPart(n - 1, 0)[2]
            IN \A a \in SMALL_PRIMES :
                  \/ pow(a, d, n) \in {1, n - 1}
                  \/ \E i \in 1 .. s - 1 : pow(a, d * 2^i, n) = n - 1

RECURSIVE PrimeFrom(_)
PrimeFrom(c) == IF is_prime(c) THEN c ELSE PrimeFrom(c + 2)

next_prime(n) ==
    LET c == n + 1 IN PrimeFrom(IF c % 2 = 0 /\ c # 2 THEN c + 1 ELSE c)

RECURSIVE largest_prime_factor(_, _)
largest_prime_factor(n, f) ==
    IF f * f > n THEN n
    ELSE IF n % f = 0 THEN largest_prime_factor(n \div f, f) ELSE largest_prime_factor(n, f + 1)

\* <<n without its factors f, how many there were>>
RECURSIVE Without(_, _, _)
Without(n, f, e) == IF n % f = 0 THEN Without(n \div f, f, e + 1) ELSE <<n, e>>

RECURSIVE number_of_divisors(_, _, _)
number_of_divisors(n, f, c) ==
    IF f * f > n THEN c * (IF n > 1 THEN 2 ELSE 1)
    ELSE LET rest == Without(n, f, 0)
         IN number_of_divisors(rest[1], f + 1, c * (rest[2] + 1))

solve_math(brief) ==
    CASE brief.ask = "next prime" -> next_prime(brief.n)
      [] brief.ask = "largest prime factor" -> largest_prime_factor(brief.n, 2)
      [] brief.ask = "number of divisors" -> number_of_divisors(brief.n, 2, 1)
-----------------------------------------------------------------------------
\* _flat: the words with one blank between them.
RECURSIVE Flat(_)
Flat(text) == IF Len(text) <= 1 THEN Head(text) ELSE Head(text) \o <<" ">> \o Flat(Tail(text))

In(a, b) == \E i \in 1 .. Len(b) - Len(a) + 1 : SubSeq(b, i, i + Len(a) - 1) = a

WordsOf(text) == {text[i] : i \in DOMAIN text}

\* sorted(numbers) of a text, as how often each occurs.
NumbersOf(text) == [w \in Numerals |-> Cardinality({i \in DOMAIN text : text[i] = w})]

solve_validation(ref, del) ==
    LET a == Flat(ref)
        b == Flat(del)
        shared == Cardinality(WordsOf(ref) \cap WordsOf(del))
        all == Cardinality(WordsOf(ref) \cup WordsOf(del))
    IN CASE a = b -> PASS
         [] a # b /\ Len(a) >= 8 /\ Len(b) >= 8 /\ (In(a, b) \/ In(b, a)) -> PASS
         [] OTHER -> IF 10 * shared >= 6 * all THEN PASS
                     ELSE IF NumbersOf(ref) # NumbersOf(del) \/ 4 * shared <= all THEN FAIL
                     ELSE NoAnswer
-----------------------------------------------------------------------------
NoBrief == [ask |-> "none"]
Texts == UNION {[1 .. k -> Words] : k \in 1 .. MaxWords}

SlInit == slBrief = NoBrief /\ slAnswer = NoAnswer

SolveMath(ask, n) ==
    /\ slBrief = NoBrief
    /\ slBrief' = [ask |-> ask, n |-> n]
    /\ slAnswer' = solve_math(slBrief')

SolveValidation(ref, del) ==
    /\ slBrief = NoBrief
    /\ slBrief' = [ask |-> "verdict", ref |-> ref, del |-> del]
    /\ slAnswer' = solve_validation(ref, del)

SlNext ==
    /\ slBrief = NoBrief
    /\ \/ \E ask \in {"next prime", "largest prime factor", "number of divisors"}, n \in Numbers : SolveMath(ask, n)
       \/ \E ref, del \in Texts : SolveValidation(ref, del)

SlSpec == SlInit /\ [][SlNext]_slVars
-----------------------------------------------------------------------------
(***************************************************************************)
(* Properties.                                                             *)
(***************************************************************************)

Prime(n) == n > 1 /\ \A k \in 2 .. n - 1 : n % k # 0

\* The answers to number questions are right, for numbers below, between and
\* above the squares of the trial primes, where only Miller-Rabin decides:
\* "a wrong public delivery" costs, a skip does not.
MathIsRight ==
    /\ slBrief.ask = "next prime" =>
          /\ slAnswer > slBrief.n /\ Prime(slAnswer)
          /\ \A k \in slBrief.n + 1 .. slAnswer - 1 : ~Prime(k)
    /\ slBrief.ask = "largest prime factor" =>
          slAnswer = Max({k \in 1 .. slBrief.n : slBrief.n % k = 0 /\ (Prime(k) \/ slBrief.n = 1)})
    /\ slBrief.ask = "number of divisors" =>
          slAnswer = Cardinality({k \in 1 .. slBrief.n : slBrief.n % k = 0})
=============================================================================
