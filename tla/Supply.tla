------------------------------- MODULE Supply -------------------------------
(***************************************************************************)
(* What set_main and unset_main do to the number of main blocks and to the *)
(* amount minted, against the amount that xdag_get_supply computes from    *)
(* the number of main blocks alone.                                        *)
(***************************************************************************)
EXTENDS Rewards

CONSTANT MaxHeight         \* bound on the height reached

VARIABLES
  nmain,      \* g_xdag_stats.nmain
  minted      \* what set_main gave less what unset_main took back

set_main ==
  /\ nmain < MaxHeight
  /\ nmain' = nmain + 1
  /\ minted' = minted + get_amount(nmain + 1)

unset_main ==
  /\ nmain > 0
  /\ minted' = minted - get_amount(nmain)
  /\ nmain' = nmain - 1

Init == nmain = 0 /\ minted = 0
Next == set_main \/ unset_main
Spec == Init /\ [][Next]_<<nmain, minted>>

\* "calculates current supply by specified count of main blocks": xdag_get_supply is
\* what the main blocks minted, across the height where the reward drops and the
\* heights where it is halved, in either direction.
SupplyExact == xdag_get_supply(nmain) = minted
=============================================================================
