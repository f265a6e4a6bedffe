------------------------- MODULE TaskPolicyRegistry -------------------------
(***************************************************************************)
(* contracts/TaskPolicyRegistry.sol: the terms a task is opened under.     *)
(* The terms of an identifier never change once it is created, so they are *)
(* a constant function; what changes is whether the policy exists and is   *)
(* active.                                                                 *)
(***************************************************************************)
EXTENDS Naturals

CONSTANTS Policies      \* function: the terms each policy identifier is given

PolicyIds == DOMAIN Policies

Terms ==
  [agentBondBps : Nat, verifierFeeBps : Nat, requesterCancelBondBps : Nat,
   disputeBondBps : Nat, minAgentBond : Nat, minVerifierFee : Nat,
   minRequesterCancelBond : Nat, minDisputeBond : Nat,
   requiredConfirmations : Nat, submissionWindow : Nat, disputeWindow : Nat,
   graceWindow : Nat, minAvailabilityWindow : Nat, riskTier : Nat,
   objectiveOnly : BOOLEAN]

ASSUME PolicyAssumption == Policies \in [PolicyIds -> Terms]

VARIABLE policyState    \* [PolicyIds -> {"absent", "inactive", "active"}]

PolicyTypeOK == policyState \in [PolicyIds -> {"absent", "inactive", "active"}]

validPolicy(p) ==
  /\ \A bps \in {p.agentBondBps, p.verifierFeeBps, p.requesterCancelBondBps,
                 p.disputeBondBps} : bps <= 10000
  /\ p.submissionWindow # 0 /\ p.disputeWindow # 0 /\ p.minAvailabilityWindow # 0
  /\ p.objectiveOnly

PolicyInit == policyState = [id \in PolicyIds |-> "absent"]

createPolicy(id, status) ==
  /\ policyState[id] = "absent"
  /\ validPolicy(Policies[id])
  /\ policyState' = [policyState EXCEPT ![id] = status]

setPolicyActive(id, status) ==
  /\ policyState[id] # "absent"
  /\ policyState' = [policyState EXCEPT ![id] = status]

larger(left, right) == IF left > right THEN left ELSE right

quote(p, payout) ==
  LET bond == larger(p.minAgentBond, (payout * p.agentBondBps) \div 10000)
  IN  [agentBond |-> bond,
       verifierFee |-> larger(p.minVerifierFee, (payout * p.verifierFeeBps) \div 10000),
       requesterCancelBond |->
         larger(p.minRequesterCancelBond, (payout * p.requesterCancelBondBps) \div 10000),
       disputeBond |-> larger(p.minDisputeBond, (bond * p.disputeBondBps) \div 10000)]

=============================================================================
