\* The agent, who also verifies, moves its stake and a provider its shares
\* while a task is bonded and covered.
CONSTANTS
  MaxTime = 2
  Tasks = {t1}
  Accounts = {req, ag, v1}
  Zero = Zero
  Requesters = {req}
  Agents = {ag}
  Verifiers = {v1, ag}
  Challengers = {ag}
  Providers = {req}
  Withdrawers = {}
  Payouts = {2}
  Coverages = {1}
  AvailabilityUntil = {9}
  SlashBps = {0, 10000}
  PoolAmounts = {1}
  PoolShares = {1}
  RiskControls = {}
  CoverageCaps = {}
  MaxBalance = 3
  MaxShares = 3
  StakeAmounts = {2}
  StakeParameters = {}
  MaxStake = 4
  Policies <- MCSmallPolicy
  Attesters = {}
  Scopes <- MCScopes
  CreditRatings = {}
  PilotCaps = {}
  RecourseCaps = {}
  AttestationRules = {}
  MaxOwnerCalls = 0
  MaxEscrow = 14
  InitialControl <- MCControl
  InitialStake <- MCStake
  InitialPolicies <- MCActive
  InitialPool <- MCPool
  InitialPoolRecord <- MCPoolRecord
SPECIFICATION BondSpec
INVARIANT StakeBehindBonds
CHECK_DEADLOCK FALSE
