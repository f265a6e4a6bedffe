------------------------- MODULE AgentStakeRegistry -------------------------
(***************************************************************************)
(* contracts/AgentStakeRegistry.sol: the stake of agents and verifiers,    *)
(* the bonds an agent has open, and the capacity its stake buys.           *)
(*                                                                         *)
(* `balance` is the registry's stake-token balance.  `authority` holds     *)
(* while slashAuthority is the bond manager.                               *)
(***************************************************************************)
EXTENDS BondParties, IntegerSqrt

CONSTANTS StakeAmounts,      \* amounts a caller may name
          StakeParameters,   \* settings the owner may give setParameters
          MaxStake           \* bound of the model: stake of one account

ASSUME StakeAssumption ==
  /\ StakeAmounts \subseteq Nat \ {0}
  /\ StakeParameters \subseteq
       [minAgentStake : Nat, minVerifierStake : Nat,
        capacityUnit : Nat, capacityBondUnit : Nat]

VARIABLE stake

StakeStorage ==
  [stakeOf : [Accounts -> Nat], openBondExposure : [Accounts -> Nat],
   slashedStake : [Accounts -> Nat], balance : Nat, authority : BOOLEAN,
   params : [minAgentStake : Nat, minVerifierStake : Nat,
             capacityUnit : Nat, capacityBondUnit : Nat]]

-----------------------------------------------------------------------------
(* Views *)

isAgentEligible(s, a) == s.stakeOf[a] >= s.params.minAgentStake

isVerifierEligible(s, a) == s.stakeOf[a] >= s.params.minVerifierStake

maxOpenBond(s, a) ==
  LET units == Sqrt(s.stakeOf[a] \div s.params.capacityUnit)
  IN  s.params.capacityBondUnit * units * units

canOpenAgentBond(s, a, bond) ==
  isAgentEligible(s, a) /\ s.openBondExposure[a] + bond <= maxOpenBond(s, a)

-----------------------------------------------------------------------------
(* Calls of the manager *)

canRecordOpenBond(s, amount) == s.authority /\ amount > 0

\* Mutant: the bond of an accepted task is not recorded.
recordNoBond(s, a, amount) == s

recordOpenBond(s, a, amount) == [s EXCEPT !.openBondExposure[a] = @ + amount]

canRecordClosedBond(s, a, amount) ==
  s.authority /\ amount > 0 /\ amount <= s.openBondExposure[a]

\* Mutant: closing one bond clears all bonds of the agent.
recordAllBondsClosed(s, a, amount) == [s EXCEPT !.openBondExposure[a] = 0]

recordClosedBond(s, a, amount) == [s EXCEPT !.openBondExposure[a] = @ - amount]

canSlashStake(s, a, amount) ==
  s.authority /\ amount > 0 /\ amount <= s.stakeOf[a] /\ amount <= s.balance

slashStake(s, a, amount) ==
  [s EXCEPT !.stakeOf[a] = @ - amount, !.slashedStake[a] = @ + amount,
            !.balance = @ - amount]

-----------------------------------------------------------------------------
(* Calls of accounts and of the owner *)

StakeDeposit(a, amount) ==
  /\ stake.stakeOf[a] + amount <= MaxStake
  /\ stake' = [stake EXCEPT !.stakeOf[a] = @ + amount, !.balance = @ + amount]

\* Mutant: stake may leave whatever bonds are open.
StakeWithdrawUnchecked(a, amount) ==
  /\ amount <= stake.stakeOf[a]
  /\ amount <= stake.balance
  /\ stake' = [stake EXCEPT !.stakeOf[a] = @ - amount, !.balance = @ - amount]

StakeWithdraw(a, amount) ==
  /\ amount <= stake.stakeOf[a]
  /\ stake.openBondExposure[a] > 0 =>
       stake.stakeOf[a] - amount >= stake.params.minAgentStake
  /\ amount <= stake.balance                          \* the token transfer
  /\ stake' = [stake EXCEPT !.stakeOf[a] = @ - amount, !.balance = @ - amount]

validParameters(params) == params.capacityUnit # 0 /\ params.capacityBondUnit # 0

StakeSetParameters(params) ==
  /\ validParameters(params)
  /\ stake' = [stake EXCEPT !.params = params]

StakeSetSlashAuthority(authority) == stake' = [stake EXCEPT !.authority = authority]

-----------------------------------------------------------------------------
\* The registry holds exactly the stake it owes.
stakeSolvent(s) == s.balance = Total(s.stakeOf)

=============================================================================
