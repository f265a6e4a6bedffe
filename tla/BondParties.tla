---------------------------- MODULE BondParties -----------------------------
(***************************************************************************)
(* What the Agent Bonds contracts share: the identifiers, and the sum of a *)
(* mapping, as in "the sum of all balances".  The contracts keep running   *)
(* totals (openExposure, totalLocked, totalShares, the token balance of    *)
(* the escrow) beside the mappings they summarise; Total is the reference  *)
(* those are compared to.                                                  *)
(*                                                                         *)
(* The sum is the number of units: one pair <<x, i>> for each unit i of    *)
(* the amount f[x].  Counting units instead of folding an addition makes   *)
(* every fact about sums a fact about the cardinality of finite sets.      *)
(***************************************************************************)
EXTENDS Naturals, FiniteSets

CONSTANTS Tasks,      \* task identifiers
          Accounts    \* addresses of requesters, agents, verifiers, providers

ASSUME PartiesAssumption == IsFiniteSet(Tasks) /\ IsFiniteSet(Accounts)

Units(f) == UNION {{x} \X (1..f[x]) : x \in DOMAIN f}

Total(f) == Cardinality(Units(f))

=============================================================================
