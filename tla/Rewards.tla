------------------------------- MODULE Rewards -------------------------------
(***************************************************************************)
(* What a main block earns and what client/block.c says is in circulation: *)
(* get_start_amount, get_amount (get_block_earning is the same function)   *)
(* and xdag_get_supply.                                                    *)
(***************************************************************************)
EXTENDS Naturals

CONSTANTS
  START_AMOUNT,     \* MAIN_START_AMOUNT
  APOLLO_AMOUNT,    \* MAIN_APOLLO_AMOUNT
  APOLLO_HEIGHT,    \* MAIN_APOLLO_HEIGHT
  BIG_PERIOD_LOG    \* MAIN_BIG_PERIOD_LOG

ASSUME AmountsAssumption == START_AMOUNT \in Nat /\ APOLLO_AMOUNT \in Nat /\ APOLLO_AMOUNT <= START_AMOUNT
ASSUME HeightAssumption == APOLLO_HEIGHT \in Nat \ {0} /\ BIG_PERIOD_LOG \in Nat

BigPeriod == 2 ^ BIG_PERIOD_LOG

get_start_amount(nmain) == IF nmain >= APOLLO_HEIGHT THEN APOLLO_AMOUNT ELSE START_AMOUNT

get_amount(nmain) == get_start_amount(nmain) \div 2 ^ (nmain \div BigPeriod)

\* The loop of xdag_get_supply: whole periods at amounts halved each time, then
\* the blocks of the period begun.
PeriodSum[n \in Nat, amount \in Nat] ==
  IF n \div BigPeriod = 0 THEN n * amount
  ELSE BigPeriod * amount + PeriodSum[n - BigPeriod, amount \div 2]

xdag_get_supply(nmain) ==
  PeriodSum[nmain, get_start_amount(nmain)]
  + (IF nmain >= APOLLO_HEIGHT THEN (APOLLO_HEIGHT - 1) * (START_AMOUNT - APOLLO_AMOUNT) ELSE 0)
=============================================================================
