------------------- MODULE AgentCreditAttestationRegistry -------------------
(***************************************************************************)
(* contracts/AgentCreditAttestationRegistry.sol: the latest credit         *)
(* attestation of an agent for a scope, and the attesters the owner        *)
(* authorises.  The manager uses the policy identifier as the scope.       *)
(***************************************************************************)
EXTENDS BlockTime, BondParties

CONSTANTS Attesters,       \* accounts that may be authorised to attest
          Scopes,          \* scopes of attestations
          CreditRatings    \* [score, riskBand, expiresAt] an attester may publish

ASSUME CreditAssumption ==
  CreditRatings \subseteq [score : Nat, riskBand : Nat, expiresAt : Nat]

VARIABLE credit

Attestations ==
  [Accounts \X Scopes ->
     [score : Nat, riskBand : Nat, expiresAt : Nat, by : SUBSET Attesters]]

CreditTypeOK ==
  credit \in [isAuthorizedAttester : SUBSET Attesters, latest : Attestations]

\* `by` is the attester, the empty set where nothing was published.
CreditInit ==
  credit = [isAuthorizedAttester |-> {},
            latest |-> [c \in Accounts \X Scopes |->
                          [score |-> 0, riskBand |-> 0, expiresAt |-> 0, by |-> {}]]]

setAuthorizedAttester(attester, authorized) ==
  credit' = [credit EXCEPT !.isAuthorizedAttester =
               IF authorized THEN @ \cup {attester} ELSE @ \ {attester}]

publishAttestation(attester, agent, scope, rating) ==
  /\ rating.riskBand <= 5
  /\ rating.expiresAt > now
  /\ attester \in credit.isAuthorizedAttester
  /\ credit' = [credit EXCEPT !.latest[<<agent, scope>>] =
                  [score |-> rating.score, riskBand |-> rating.riskBand,
                   expiresAt |-> rating.expiresAt, by |-> {attester}]]

isAttestationValid(agent, scope, minimumScore, maximumRiskBand) ==
  LET attestation == credit.latest[<<agent, scope>>]
  IN  /\ attestation.by # {}
      /\ attestation.by \subseteq credit.isAuthorizedAttester
      /\ attestation.expiresAt > now
      /\ attestation.score >= minimumScore
      /\ attestation.riskBand <= maximumRiskBand

=============================================================================
