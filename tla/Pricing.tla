-------------------------------- MODULE Pricing --------------------------------
(***************************************************************************)
(* Prices and their rounding: providers/cost_table.py, the estimate of the *)
(* mock provider, and the four decimals amounts are stored with            *)
(* (_ser_decimal, _ser_cost).  Each call is priced and rounded on its own, *)
(* and grants add up the rounded prices: this module follows the sum the   *)
(* broker keeps beside the exact one.                                      *)
(*                                                                         *)
(* A price is an exact fraction of one unit (0.0001 USD): rates are whole  *)
(* numbers of `part`s per token and a unit has Parts parts.  With rates in *)
(* cents per million tokens Parts is 10000 for the real providers, and 100 *)
(* for the mock's 0.000001 USD per token.                                  *)
(***************************************************************************)
EXTENDS Integers

CONSTANTS
  Parts,          \* parts in one unit
  Rates,          \* (in, out) rates, in parts per token: a set of pairs
  Tokens,         \* token counts of a call
  MaxCalls        \* bound on the number of calls

ASSUME PricingConstants ==
  /\ Parts \in Nat \ {0}
  /\ Rates \subseteq Nat \X Nat
  /\ Tokens \subseteq Nat
  /\ MaxCalls \in Nat

VARIABLES
  calls,          \* how many calls were priced
  exact,          \* what they cost, in parts
  recorded        \* what the broker recorded for them, in units

priceVars == <<calls, exact, recorded>>
-----------------------------------------------------------------------------
(* Mutated forms, used by the mutation runs only. *)

PriceNet(rate, tin, tout) == tin * rate[1] - tout * rate[2]     \* wrong sign

QuantizeDownTies(parts) ==                       \* ties go down, not to even
  (parts \div Parts) + (IF 2 * (parts % Parts) > Parts THEN 1 ELSE 0)

EstimateFalsy(rate, tin, tout) ==                \* takes a count of zero for no usage
  IF tin = 0 \/ tout = 0 THEN 0
  ELSE (2 * (tin * rate[1] + tout * rate[2]) + Parts) \div (2 * Parts)

EstimateSplit(rate, tin, tout) ==                \* prices input and output apart
  LET Nearest(p) == (p \div Parts) + (IF 2 * (p % Parts) >= Parts THEN 1 ELSE 0)
  IN  Nearest(tin * rate[1]) + Nearest(tout * rate[2])
-----------------------------------------------------------------------------
\* Decimal.quantize(Decimal("0.0001")) of a whole number of parts: to the
\* nearest unit, and from the middle to the even one (ROUND_HALF_EVEN).
Quantize(parts) ==
  LET q == parts \div Parts
      r == parts % Parts
  IN  IF 2 * r > Parts \/ (2 * r = Parts /\ q % 2 = 1) THEN q + 1 ELSE q

\* The exact price of a call.
Price(rate, tin, tout) == tin * rate[1] + tout * rate[2]

\* estimate, and MockProvider.estimate_cost_usd, where both rates are equal.
Estimate(rate, tin, tout) == Quantize(Price(rate, tin, tout))

PriceInit == calls = 0 /\ exact = 0 /\ recorded = 0

\* A call is priced, rounded and charged.
Bill(rate, tin, tout) ==
  /\ calls < MaxCalls
  /\ calls' = calls + 1
  /\ exact' = exact + Price(rate, tin, tout)
  /\ recorded' = recorded + Estimate(rate, tin, tout)

PriceNext == \E rate \in Rates, tin, tout \in Tokens : Bill(rate, tin, tout)

PriceSpec == PriceInit /\ [][PriceNext]_priceVars
-----------------------------------------------------------------------------
PriceTypeOK == calls \in Nat /\ exact \in Nat /\ recorded \in Nat

\* After any calls the recorded spending is off by half a unit a call at most,
\* in either direction: what a budget of N calls can be wrong by.
DriftBounded ==
  /\ 2 * (recorded * Parts - exact) <= calls * Parts
  /\ 2 * (exact - recorded * Parts) <= calls * Parts

\* Rounding goes to the nearest unit, from the middle to the even one, keeps
\* the order of prices, and leaves what is already rounded alone (so that the
\* four decimals of _ser_decimal lose nothing of a recorded amount).
QuantizeIsHalfEven ==
  \A parts \in 0 .. exact :
    LET units == Quantize(parts) IN
    /\ \A u \in 0 .. units + 1 :
         LET off(x) == IF x * Parts > parts THEN x * Parts - parts ELSE parts - x * Parts IN
         \/ off(units) < off(u)
         \/ off(units) = off(u) /\ (u = units \/ units % 2 = 0)
    /\ Quantize(parts + 1) >= units
    /\ Quantize(units * Parts) = units
=============================================================================
