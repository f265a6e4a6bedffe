\* Two tasks of one agent and one verifier, sharing the pool; the agent
\* withdraws between the steps of the tasks.
CONSTANTS
  MaxTime = 3
  Tasks = {t1, t2}
  Accounts = {req, ag, v1}
  Zero = Zero
  Requesters = {req}
  Agents = {ag}
  Verifiers = {v1}
  Challengers = {req}
  Providers = {}
  Withdrawers = {ag}
  Payouts = {2}
  Coverages = {1}
  AvailabilityUntil = {9}
  SlashBps = {5000}
  PoolAmounts = {}
  PoolShares = {}
  RiskControls = {}
  CoverageCaps = {}
  MaxBalance = 3
  MaxShares = 3
  StakeAmounts = {}
  StakeParameters = {}
  MaxStake = 4
  Policies <- MCSmallPolicy
  Attesters = {}
  Scopes <- MCScopes
  CreditRatings = {}
  PilotCaps = {}
  RecourseCaps = {}
  AttestationRules = {}
  MaxOwnerCalls = 0
  MaxEscrow = 23
  InitialControl <- MCControl
  InitialStake <- MCStake
  InitialPolicies <- MCActive
  InitialPool <- MCPool
  InitialPoolRecord <- MCPoolRecord
SPECIFICATION BondSpec
INVARIANTS EscrowSolvent BondsMatchStake RecourseMatchesPool
SYMMETRY MCTaskSymmetry
CHECK_DEADLOCK FALSE
