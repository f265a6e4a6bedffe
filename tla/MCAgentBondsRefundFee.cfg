\* A rejected challenge of an unsupported or reorged report.
CONSTANTS
  MaxTime = 5
  Tasks = {t1}
  Accounts = {req, ag, v1, v2, ch}
  Zero = Zero
  Requesters = {req}
  Agents = {ag}
  Verifiers = {v1, v2}
  Challengers = {ch}
  Providers = {}
  Withdrawers = {}
  Payouts = {2}
  Coverages = {0, 2}
  AvailabilityUntil = {3, 9}
  SlashBps = {0, 5000}
  PoolAmounts = {}
  PoolShares = {}
  RiskControls = {}
  CoverageCaps = {}
  MaxBalance = 3
  MaxShares = 3
  StakeAmounts = {}
  StakeParameters = {}
  MaxStake = 4
  Policies <- MCOnePolicy
  Attesters = {}
  Scopes <- MCScopes
  CreditRatings = {}
  PilotCaps = {}
  RecourseCaps = {}
  AttestationRules = {}
  MaxOwnerCalls = 0
  MaxEscrow = 28
  InitialControl <- MCControl
  InitialStake <- MCStake
  InitialPolicies <- MCActive
  InitialPool <- MCPool
  InitialPoolRecord <- MCPoolRecord
SPECIFICATION BondSpec
PROPERTIES RefundPaysVerifier
CHECK_DEADLOCK FALSE
