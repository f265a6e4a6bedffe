\* Up to four transactions of the contracts' owners and the guardian while one
\* task is open: pause, stop, caps, authorisations, attestation rules, policies,
\* the manager's roles, stake parameters and the pool's controls.
CONSTANTS
  MaxTime = 2
  Tasks = {t1}
  Accounts = {req, ag, v1}
  Zero = Zero
  Requesters = {req}
  Agents = {ag}
  Verifiers = {v1}
  Challengers = {req}
  Providers = {}
  Withdrawers = {}
  Payouts = {2}
  Coverages = {1}
  AvailabilityUntil = {9}
  SlashBps = {0}
  PoolAmounts = {}
  PoolShares = {}
  RiskControls <- MCRisk
  CoverageCaps <- MCCoverageCaps
  MaxBalance = 3
  MaxShares = 3
  StakeAmounts = {}
  StakeParameters <- MCParameters
  MaxStake = 4
  Policies <- MCSmallPolicy
  Attesters = {attester}
  Scopes <- MCScopes
  CreditRatings <- MCRatings
  PilotCaps <- MCPilotCaps
  RecourseCaps <- MCRecourseCaps
  AttestationRules <- MCAttestationRules
  MaxOwnerCalls = 4
  MaxEscrow = 12
  InitialControl <- MCControl
  InitialStake <- MCStake
  InitialPolicies <- MCAbsent
  InitialPool <- MCPool
  InitialPoolRecord <- MCPoolRecord
SPECIFICATION BondSpec
INVARIANTS ExposureMatchesEscrow
PROPERTIES StopHaltsExposure
CHECK_DEADLOCK FALSE
