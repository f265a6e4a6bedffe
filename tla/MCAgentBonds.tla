---------------------------- MODULE MCAgentBonds ----------------------------
(* Small instances of the Agent Bonds contracts for TLC. *)
EXTENDS AgentBondManager, TLC

\* A policy that quotes a bond of 20 (late slash 2, shares 17, 2 and 1), a fee
\* of 1, a cancel bond of 1 and a dispute bond of 2 for a payout of 2.
Policy ==
  [agentBondBps |-> 10000, verifierFeeBps |-> 5000, requesterCancelBondBps |-> 5000,
   disputeBondBps |-> 1000, minAgentBond |-> 20, minVerifierFee |-> 1,
   minRequesterCancelBond |-> 1, minDisputeBond |-> 0,
   requiredConfirmations |-> 1, submissionWindow |-> 1, disputeWindow |-> 1,
   graceWindow |-> 1, minAvailabilityWindow |-> 1, riskTier |-> 1,
   objectiveOnly |-> TRUE]

\* Bonds of 7, where the shares of a slash round to nothing; no grace.
SmallPolicy ==
  [Policy EXCEPT !.minAgentBond = 7, !.minDisputeBond = 1, !.graceWindow = 0,
                 !.requiredConfirmations = 0]

MCOnePolicy == [standard |-> Policy]
MCSmallPolicy == [small |-> SmallPolicy]
MCActive == [id \in PolicyIds |-> "active"]
MCScopes == PolicyIds

MCParams ==
  [minAgentStake |-> 4, minVerifierStake |-> 2, capacityUnit |-> 1, capacityBondUnit |-> 5]

MCStake ==
  LET staked == [a \in Accounts |-> IF a \in Agents \cup Verifiers THEN 4 ELSE 0]
  IN  [stakeOf |-> staked, openBondExposure |-> [a \in Accounts |-> 0],
       slashedStake |-> [a \in Accounts |-> 0], balance |-> Total(staked),
       authority |-> TRUE, params |-> MCParams]

NoCaps == [maxPayoutPerTask |-> 0, maxOpenExposure |-> 0, maxOpenTasks |-> 0]
NoRecourseCaps == [perAgent |-> 0, perRequester |-> 0, perVerifier |-> 0]
NoRule == [required |-> FALSE, minimumScore |-> 0, maximumRiskBand |-> 5]

MCControl ==
  [paused |-> FALSE, emergencyStopped |-> FALSE, pilotMode |-> FALSE,
   requesterAuthorization |-> Requesters, agentAuthorization |-> Agents,
   verifierAuthorization |-> Verifiers, caps |-> NoCaps,
   recourseCaps |-> NoRecourseCaps, attestation |-> NoRule,
   poolRegistrySet |-> TRUE, creditRegistrySet |-> TRUE]

MCPoolRecord == [registered |-> TRUE, active |-> TRUE, recourse |-> TRUE]

\* A pool in which one provider has deposited 3; losses are capped at 2 an epoch.
MCPool ==
  LET provider == CHOOSE a \in Requesters : TRUE
  IN  [balance |-> 3, totalLocked |-> 0, totalAllocated |-> 0,
       lockedByTask |-> [t \in Tasks |-> 0],
       sharesOf |-> [a \in Accounts |-> IF a = provider THEN 3 ELSE 0],
       totalShares |-> 3, lossPaidByEpoch |-> [e \in 0..MaxTime |-> 0],
       withdrawalAvailableAt |-> [a \in Accounts |-> 0], allocator |-> TRUE,
       risk |-> [epochDuration |-> 2, maxLossPerEpoch |-> 2, withdrawalCooldown |-> 0],
       caps |-> [maxCoveragePerTask |-> 0, maxRiskTier |-> 1]]

\* A policy _validatePolicy accepts although it quotes no cancel bond.
MCZeroPolicy ==
  [zero |-> [Policy EXCEPT !.requesterCancelBondBps = 0, !.minRequesterCancelBond = 0]]

MCAbsent == [id \in PolicyIds |-> "absent"]

MCPilotCaps == {NoCaps, [maxPayoutPerTask |-> 2, maxOpenExposure |-> 11, maxOpenTasks |-> 1]}
MCRecourseCaps == {[perAgent |-> 1, perRequester |-> 1, perVerifier |-> 1]}
MCAttestationRules == {[required |-> TRUE, minimumScore |-> 2, maximumRiskBand |-> 3]}
MCRatings ==
  {[score |-> 2, riskBand |-> 3, expiresAt |-> 1], [score |-> 1, riskBand |-> 0, expiresAt |-> 9]}
MCParameters == {MCParams, [MCParams EXCEPT !.minAgentStake = 5, !.minVerifierStake = 5]}
MCRisk ==
  {[epochDuration |-> 1, maxLossPerEpoch |-> 1, withdrawalCooldown |-> 1],
   [epochDuration |-> 0, maxLossPerEpoch |-> 0, withdrawalCooldown |-> 0]}
MCCoverageCaps == {[maxCoveragePerTask |-> 0, maxRiskTier |-> 0]}

MCTaskSymmetry == Permutations(Tasks)

=============================================================================
