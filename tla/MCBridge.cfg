CONSTANTS
  MaxBlockRange = 1
  MaxPilotUsd = 25
  ZeroRecipient = "zero"
  PlaceholderRecipients = {"fives"}
  Processes = {"r1", "r2"}
  Commands <- MCCommands
  CommandsOf <- MCCommandsOf
  Events <- MCEvents
  Bodies <- MCBodies
  RpcChainId = 8453
  MaxHeight = 3
  MaxForks = 1
  ReorgDepth = 1
  MaxFaults = 1
  TargetSettlementSeconds = 30
  BlockSeconds = 2
  PollSeconds = 1
SPECIFICATION Spec
ACTION_CONSTRAINTS IsolatedFirst DepositFirst StartLate RangeReadsApart FaultsApart
INVARIANTS AppliedOnceAndKept DepositCreditedOnce  
  
PROPERTIES CursorAdvancesConfirmed CursorCatchesUp
