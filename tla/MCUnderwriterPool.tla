-------------------------- MODULE MCUnderwriterPool -------------------------
(* Small instances of the underwriter pool for TLC. *)
EXTENDS AgentUnderwriterPool, TLC

Controls(duration, maxLoss, cooldown) ==
  [epochDuration |-> duration, maxLossPerEpoch |-> maxLoss,
   withdrawalCooldown |-> cooldown]

\* Epochs of two time units with a loss cap below what the pool can hold.
MCFixedControls == {Controls(2, 2, 1)}

MCCaps == {[maxCoveragePerTask |-> 0, maxRiskTier |-> 0],
           [maxCoveragePerTask |-> 2, maxRiskTier |-> 1]}

MCSymmetry == Permutations(Tasks) \cup Permutations(Accounts)

=============================================================================
