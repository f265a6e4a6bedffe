-------------------------- MODULE AgentBondServices --------------------------
(***************************************************************************)
(* The off-chain records of agent bonds (services/flowmemory/src:          *)
(* agent-bond-passport, bonded-task-envelope, bonded-execution-receipt,    *)
(* agent-credit-score, underwriter-pools, agent-bonds-recourse-policy,     *)
(* a2a/mcp/x402-agent-bonds, agent-bonds-public-claim and -phase2-gate)    *)
(* and the agent_bond_* methods of the control plane that serve them.      *)
(*                                                                         *)
(* lib holds the files under fixtures/agent-bonds and schemas the methods  *)
(* read on every call.  A record whose schemaVersion is "malformed" is one *)
(* that fails its JSON schema; amounts are natural numbers of USDC units;  *)
(* a hash is the tuple of what is hashed.                                  *)
(***************************************************************************)
EXTENDS ControlPlaneMethods

CONSTANT scoreOf(_)     \* external: the floating-point score, 0..1000, of a history that is not empty

stableHash(schema, value) == << schema, value >>
unhashed == <<"zero">>

\* validateWithSchema throws, and the method answers with an internal error.
validates(record) == ~isNull(record) /\ record.schemaVersion # "malformed"
validated(record) == IF validates(record) THEN answer(record) ELSE rejected("internalError")
foundOr(record) == IF isNull(record) THEN rejected("objectNotFound") ELSE answer(record)
keyed(params, names, Found(_)) ==
    LET key == requiredString(params, names)
    IN  IF key = NoId THEN rejected("invalidParams") ELSE foundOr(Found(key))

---------------------------------------------------------------------------
\* Passports.

passports(lib) == SelectSeq(lib.passports, validates)

getAgentBondPassport(lib, key) == findRow(passports(lib), LAMBDA p : key \in {p.agentId, p.passportId})

listAgentBondPassports(lib, filter) ==
    SelectSeq(passports(lib), LAMBDA p :
        /\ hasField(filter, "status") => p.status = filter.status
        /\ hasField(filter, "taskClass") => filter.taskClass \in p.taskClasses)

computePassportCapacityView(lib, key) ==
    LET p == getAgentBondPassport(lib, key)
        available == p.maxOpenExposureUSDC - p.currentOpenExposureUSDC
    IN  IF isNull(p) THEN [agentId |-> key, found |-> FALSE]
        ELSE [agentId |-> p.agentId, status |-> p.status, availableOpenExposureUSDC |-> available,
              canAcceptNewTask |-> p.status = "active" /\ available > 0]

\* An agent without a passport gets one that its task history backs.
buildPassportFromTaskHistory(lib, agentId) ==
    LET existing == getAgentBondPassport(lib, agentId) IN
    IF ~isNull(existing) THEN existing
    ELSE [schemaVersion |-> "agent-bond-passport/v1", passportId |-> << "passport" >> \o agentId,
          agentId |-> agentId, status |-> "active", taskClasses |-> {"code.patch"},
          maxOpenExposureUSDC |-> lib.task.payout, currentOpenExposureUSDC |-> 0,
          stakeCapacityUSDC |-> 0, riskBand |-> "UNRATED"]

agentBondPassportGet(params, lib) ==
    keyed(params, <<"agentId", "passportId">>, LAMBDA key : getAgentBondPassport(lib, key))
agentBondPassportList(params, lib) == listOf(params, listAgentBondPassports(lib, params), {})
agentBondPassportValidate(params) == validated(first(params, <<"passport">>, Null))
agentBondPassportCapacityGet(params, lib) ==
    keyed(params, <<"agentId", "passportId">>, LAMBDA key : computePassportCapacityView(lib, key))

---------------------------------------------------------------------------
\* Envelopes and receipts.

computeEnvelopeHash(envelope) ==
    stableHash("bonded-task-envelope/v1", [envelope EXCEPT !.envelopeHash = unhashed])

\* A quote is the template with what the caller gave, under the hash of the result.
quoteBondedTaskEnvelope(lib, in) ==
    LET template == lib.codePatchEnvelope
        taskClass == first(in, <<"taskClass">>, template.taskClass)
        quote == [template EXCEPT !.envelopeId = <<"quote", taskClass>>, !.taskClass = taskClass,
                    !.payoutUSDC = first(in, <<"payoutUSDC">>, template.payoutUSDC),
                    !.riskTier = first(in, <<"riskTier">>, template.riskTier),
                    !.fundingMode = first(in, <<"fundingMode">>, template.fundingMode)]
    IN  validated([quote EXCEPT !.envelopeHash = computeEnvelopeHash(quote)])

envelopeToAgentBondManagerCreateTaskArgs(envelope) ==
    [f \in DOMAIN envelope \cap {"requesterId", "agentId", "verifierId", "taskClass", "policyId",
        "payoutUSDC", "agentBondUSDC", "verifierFeeUSDC", "requesterCancelBondUSDC",
        "disputeBondUSDC", "envelopeHash"} |-> envelope[f]]

\* The envelope a message or a tool call carries.
envelopeFromA2AMessage(message) == validated(first(message, <<"bondedTaskEnvelope">>, Null))
envelopeFromMCPToolCall(call) == validated(first(call, <<"bondedTaskEnvelope", "envelope">>, Null))
extractBondedTaskEnvelopeFromA2AMetadata(message) ==
    IF answered(envelopeFromA2AMessage(message)) THEN envelopeFromA2AMessage(message).result ELSE Null

attachBondedTaskEnvelopeToA2AMessage(message, envelope) ==
    IF validates(envelope) THEN answer([bondedTaskEnvelope |-> envelope] @@ message)
    ELSE rejected("internalError")

withEnvelope(params, Use(_)) ==
    LET envelope == validated(first(params, <<"envelope">>, Null))
    IN  IF answered(envelope) THEN answer(Use(envelope.result)) ELSE envelope

agentBondEnvelopeQuote(params, lib) == quoteBondedTaskEnvelope(lib, params)
agentBondEnvelopeValidate(params) == withEnvelope(params, LAMBDA e : e)
agentBondEnvelopeHash(params) == withEnvelope(params, computeEnvelopeHash)
agentBondEnvelopeCreateTaskArgs(params) == withEnvelope(params, envelopeToAgentBondManagerCreateTaskArgs)

computeReceiptHash(receipt) ==
    stableHash("bonded-execution-receipt/v1", [receipt EXCEPT !.receiptHash = unhashed])

\* One malformed receipt file fails every method that lists receipts.
receiptsReadable(lib) == \A i \in DOMAIN lib.receipts : validates(lib.receipts[i])
listReceiptsForAgent(lib, agentId) == SelectSeq(lib.receipts, LAMBDA r : r.agentId = agentId)
listReceiptsForEnvelope(lib, key) == SelectSeq(lib.receipts, LAMBDA r : key \in {r.envelopeHash, r.envelopeId})
receiptToPassportReputationDelta(receipt) ==
    [receiptId |-> receipt.receiptId, agentId |-> receipt.agentId, agent |-> receipt.agentDelta]

receiptByKey(lib, key) ==
    LET found == listReceiptsForAgent(lib, key) \o listReceiptsForEnvelope(lib, key)
    IN  IF found = <<>> THEN Null ELSE Head(found)

withReceipts(lib, response) == IF receiptsReadable(lib) THEN response ELSE rejected("internalError")

\* An agentId wins over a receiptId, which is only looked up as an agent or an envelope.
agentBondReceiptGet(params, lib) ==
    withReceipts(lib, keyed(params, <<"agentId", "receiptId", "envelopeHash">>,
                            LAMBDA key : receiptByKey(lib, key)))
agentBondReceiptList(params, lib) ==
    withReceipts(lib, listOf(params,
        IF ~hasField(params, "agentId") /\ hasField(params, "envelopeHash")
        THEN listReceiptsForEnvelope(lib, params.envelopeHash)
        ELSE listReceiptsForAgent(lib, first(params, <<"agentId">>, <<"agent_code_001">>)), {}))
agentBondReceiptValidate(params) == validated(first(params, <<"receipt">>, Null))
agentBondReceiptReputationDeltaGet(params, lib) ==
    LET receipt == agentBondReceiptGet(params, lib)
    IN  IF answered(receipt) THEN answer(receiptToPassportReputationDelta(receipt.result)) ELSE receipt

---------------------------------------------------------------------------
\* Credit scores.

computeRiskBand(score) ==
    CASE score >= 850 -> "A" [] score \in 700..849 -> "B" [] score \in 550..699 -> "C"
      [] score \in 400..549 -> "D" [] score = 0 -> "UNRATED" [] OTHER -> "E"

\* USDC limits in millions of units.
bandOutputs(band) ==
    [bondPercent |-> [A |-> 65, B |-> 85, C |-> 100, D |-> 150, E |-> 250, UNRATED |-> 150][band],
     maxOpenExposureUSDC |-> [A |-> 1000, B |-> 600, C |-> 300, D |-> 100, E |-> 0, UNRATED |-> 50][band],
     maxTaskPayoutUSDC |-> [A |-> 100, B |-> 75, C |-> 50, D |-> 10, E |-> 0, UNRATED |-> 5][band],
     confirmingVerifierRequired |-> band \notin {"A", "B"},
     underwriterEligible |-> band \in {"A", "B", "C"}]

computeAgentCreditScore(in) ==
    LET trials == in.settledTasks + in.slashedTasks + in.timeoutTasks + in.unsupportedTasks
        score == IF trials = 0 THEN 0 ELSE scoreOf(in)
    IN  [agentId |-> in.agentId, score |-> score, riskBand |-> computeRiskBand(score),
         outputs |-> bandOutputs(computeRiskBand(score))]

SlashedStates == {"slashed_invalid", "slashed_timeout"}
ChallengeStates == {"challenge_upheld", "challenge_rejected"}

\* A timeout counts both as slashed and as timed out.
computeAgentCreditScoreFromReceipts(lib, agentId) ==
    LET receipts == listReceiptsForAgent(lib, agentId)
        ended(states) == Len(SelectSeq(receipts, LAMBDA r : r.terminalState \in states))
    IN  computeAgentCreditScore(
            [agentId |-> agentId, settledTasks |-> ended({"settled_success"}),
             slashedTasks |-> ended(SlashedStates), timeoutTasks |-> ended({"slashed_timeout"}),
             unsupportedTasks |-> ended({"refunded_unsupported"}),
             challengedTasks |-> ended(ChallengeStates), upheldChallenges |-> ended({"challenge_upheld"}),
             uniqueVerifierCount |-> Cardinality({ receipts[i].verifierId : i \in DOMAIN receipts })])

buildCreditScoreAttestation(score, signer) ==
    LET scoreHash == stableHash("agent-credit-score/v1", score)
    IN  [schemaVersion |-> "agent-credit-score-attestation/v1", agentId |-> score.agentId,
         scoreHash |-> scoreHash, riskBand |-> score.riskBand, signer |-> signer,
         canonicalPayloadHash |-> stableHash("attestation-payload/v1", << scoreHash, signer >>)]

agentBondCreditScoreGet(params, lib) ==
    LET score == computeAgentCreditScoreFromReceipts(lib, first(params, <<"agentId">>, <<"agent_code_001">>))
    IN  withReceipts(lib, answer([score |-> score,
            attestationPreview |-> buildCreditScoreAttestation(score, <<"fixture-signer">>)]))
agentBondCreditScoreSimulationGet(lib) == answer(lib.creditScoreReport)
agentBondCreditScoreAttestationValidate(params) == validated(first(params, <<"attestation">>, Null))

---------------------------------------------------------------------------
\* Underwriter pools.

computePoolAvailableCapacity(pool) == pool.totalAvailable

canPoolBackEnvelope(pool, envelope) ==
    /\ pool.status = "active"
    /\ pool.taskClasses = {} \/ envelope.taskClass \in pool.taskClasses
    /\ envelope.riskTier <= pool.maxRiskTier

\* The allocation takes nothing off the pool's capacity.
allocatePoolCapacity(pool, agentId, taskClass, capacity) ==
    IF pool.status # "active" \/ "revoked" \in Range(agentId)
       \/ capacity > computePoolAvailableCapacity(pool)
    THEN rejected("internalError")
    ELSE answer([schemaVersion |-> "underwriter-allocation/v1", allocationId |-> << agentId, taskClass >>,
                 poolId |-> pool.poolId, agentId |-> agentId, availableCapacityUSDC |-> capacity,
                 status |-> "active"])

simulateLossWaterfall(pool, allocation, amountSlashed) ==
    [poolId |-> pool.poolId, allocationId |-> allocation.allocationId,
     waterfall |-> [agent_bond |-> amountSlashed, underwriter_pool |-> 0]]

applyUnderwriterCapacityToPassport(passport, allocations) ==
    LET counted == SelectSeq(allocations, LAMBDA a : a.agentId = passport.agentId /\ a.status = "active")
    IN  [passport EXCEPT !.maxOpenExposureUSDC =
            FoldSeq(LAMBDA a, sum : sum + a.availableCapacityUSDC, @, counted)]

agentBondUnderwriterPoolGet(params, lib) ==
    IF first(params, <<"poolId">>, lib.stakePool.poolId) # lib.stakePool.poolId
    THEN rejected("objectNotFound") ELSE answer(lib.stakePool)
agentBondUnderwriterPoolList(lib) ==
    IF validates(lib.stakePool) /\ validates(lib.usdcPool) THEN answer(<< lib.stakePool, lib.usdcPool >>)
    ELSE rejected("internalError")
agentBondUnderwriterCapacityQuote(params, lib) ==
    LET agentId == first(params, <<"agentId">>, <<"agent_code_001">>)
        passport == getAgentBondPassport(lib, agentId)
        allocation == allocatePoolCapacity(lib.stakePool,
            IF isNull(passport) THEN <<"agent_code_001">> ELSE passport.agentId,
            first(params, <<"taskClass">>, "code.patch"),
            first(params, <<"allocatedCapacityUSDC">>, 50000000))
    IN  IF ~answered(allocation) THEN allocation
        ELSE answer([allocation |-> allocation.result,
                     passport |-> IF isNull(passport) THEN Null
                        ELSE applyUnderwriterCapacityToPassport(passport, << allocation.result >>)])
agentBondUnderwriterLossSimulate(params, lib) ==
    IF ~validates(lib.allocation) \/ ~validates(lib.codePatchEnvelope) THEN rejected("internalError")
    ELSE answer([canBackEnvelope |-> canPoolBackEnvelope(lib.stakePool, lib.codePatchEnvelope),
                 lossEvent |-> simulateLossWaterfall(lib.stakePool, lib.allocation,
                                    first(params, <<"amountSlashed">>, 10000000))])

---------------------------------------------------------------------------
\* Recourse: what a pool covers of a task that fails.


\* Why a task is not covered.  open holds the coverage already granted per agent,
\* requester and verifier.
recourseReasons(policy, envelope, passport, pool, band, open, coverage) ==
    LET fees == envelope.verifierFeeUSDC + envelope.requesterCancelBondUSDC
        reason(condition, code) == IF condition THEN {code} ELSE {}
    IN  reason(policy.taskClasses # {} /\ envelope.taskClass \notin policy.taskClasses, "TASK_CLASS_NOT_ALLOWED")
        \cup reason(envelope.taskClass \in policy.excludedTaskClasses, "TASK_CLASS_EXCLUDED")
        \cup reason(envelope.riskTier > policy.maxRiskTier, "RISK_TIER_TOO_HIGH")
        \cup reason(envelope.settlementToken # policy.settlementToken, "SETTLEMENT_TOKEN_MISMATCH")
        \cup reason(policy.requireObjective /\ ~envelope.objectiveOnly, "OBJECTIVE_TASK_REQUIRED")
        \cup reason(coverage > policy.maxCoveragePerTaskUSDC, "TASK_COVERAGE_CAP_EXCEEDED")
        \cup reason(open.agent + coverage > policy.maxCoveragePerAgentUSDC, "AGENT_COVERAGE_CAP_EXCEEDED")
        \cup reason(open.requester + coverage > policy.maxCoveragePerRequesterUSDC,
                    "REQUESTER_COVERAGE_CAP_EXCEEDED")
        \cup reason(open.verifier + coverage > policy.maxCoveragePerVerifierUSDC,
                    "VERIFIER_COVERAGE_CAP_EXCEEDED")
        \cup reason(coverage > pool.totalAvailable \/ coverage > policy.maxCoveragePerPoolUSDC,
                    "POOL_CAPACITY_INSUFFICIENT")
        \cup reason(passport.stakeCapacityUSDC * 10000 < coverage * policy.minStakeRatioBps, "STAKE_RATIO_TOO_LOW")
        \cup reason(fees * 10000 < coverage * policy.minFeeRatioBps, "FEE_RATIO_TOO_LOW")
        \cup reason(policy.verifierAllowlist # {} /\ envelope.verifierId \notin policy.verifierAllowlist,
                    "VERIFIER_NOT_ALLOWED")
        \cup reason(policy.requesterAllowlist # {} /\ envelope.requesterId \notin policy.requesterAllowlist,
                    "REQUESTER_NOT_ALLOWED")
        \cup reason(band = "E", "RISK_BAND_TOO_LOW")

DeniedReasons == {"TASK_CLASS_NOT_ALLOWED", "TASK_CLASS_EXCLUDED", "RISK_TIER_TOO_HIGH",
    "STAKE_RATIO_TOO_LOW", "FEE_RATIO_TOO_LOW", "VERIFIER_NOT_ALLOWED", "REQUESTER_NOT_ALLOWED",
    "RISK_BAND_TOO_LOW"}

\* score is Null when the caller has none: the passport's band counts then.
buildRecourseDecision(policy, envelope, passport, pool, score, open) ==
    LET coverage == (policy.coverageRatioBps * envelope.payoutUSDC) \div 10000
        band == IF isNull(score) THEN passport.riskBand ELSE score.riskBand
        reasons == recourseReasons(policy, envelope, passport, pool, band, open, coverage)
    IN  [schemaVersion |-> "agent-bonds-recourse-decision/v1",
         decisionId |-> <<"decision">> \o envelope.envelopeId, policyId |-> policy.policyId,
         envelopeId |-> envelope.envelopeId, agentId |-> passport.agentId,
         requestedCoverageUSDC |-> coverage, reasonCodes |-> reasons,
         approvedCoverageUSDC |-> IF reasons = {} THEN coverage ELSE 0,
         premiumUSDC |-> IF reasons = {} THEN (policy.baseRecourseFeeBps * coverage) \div 10000 ELSE 0,
         status |-> IF reasons = {} THEN "approved"
                    ELSE IF reasons \cap DeniedReasons # {} THEN "denied" ELSE "manual_review"]

\* The attestation a policy signer attaches to a decision.
recourseDecisionHash(decision) ==
    stableHash("attested-fields", [f \in DOMAIN decision \ {"policyAttestation"} |-> decision[f]])

AttestationFields == {"signerId", "signerKeyId", "issuedAt", "expiresAt", "nonce"}

recoursePolicyAttestationDigest(decision, fields) ==
    stableHash("signing-digest", << recourseDecisionHash(decision), decision.decisionId,
        decision.policyId, decision.envelopeId, [f \in AttestationFields |-> fields[f]] >>)

buildRecoursePolicyAttestation(decision, fields, publicKey, signature) ==
    [schemaVersion |-> "agent-bonds-recourse-policy-attestation/v1",
     decisionId |-> decision.decisionId, policyId |-> decision.policyId,
     envelopeId |-> decision.envelopeId, decisionHash |-> recourseDecisionHash(decision),
     publicKey |-> publicKey, signature |-> signature,
     signingDigest |-> recoursePolicyAttestationDigest(decision, fields)]
    @@ [f \in AttestationFields |-> fields[f]]

attachRecoursePolicyAttestation(decision, attestation) == [policyAttestation |-> attestation] @@ decision

\* A signature is the key and the digest it signs.
verifyRecourseDecisionPolicyAttestation(decision, trustedSignerIds, now) ==
    LET attestation == decision.policyAttestation
        digest == recoursePolicyAttestationDigest(decision, attestation)
    IN  /\ \A f \in {"decisionId", "policyId", "envelopeId"} : attestation[f] = decision[f]
        /\ attestation.decisionHash = recourseDecisionHash(decision)
        /\ attestation.signerId \in trustedSignerIds
        /\ now <= attestation.expiresAt
        /\ attestation.signingDigest = digest
        /\ attestation.signature = << attestation.publicKey, digest >>

\* Who pays what when a task has ended.  The totals name the recourse of the decision
\* whatever the terminal state; the components only that of a covered failure.
CoveredStates == {"slashed_invalid", "slashed_timeout", "challenge_upheld"}

buildFailureWaterfall(receipt, decision) ==
    LET recourse == decision.approvedCoverageUSDC
        component(source, kind, amount, due) ==
            IF due /\ amount > 0 THEN << [source |-> source, kind |-> kind, amountUSDC |-> amount] >> ELSE <<>>
    IN  [terminalState |-> receipt.terminalState,
         components |-> component("requester_escrow", "refund", receipt.requesterRefundUSDC, TRUE)
            \o component("agent_bond", "slash", receipt.slashedUSDC, TRUE)
            \o component("recourse_pool", "recourse", recourse, receipt.terminalState \in CoveredStates)
            \o component("requester_escrow", "fee", receipt.verifierPayoutUSDC, TRUE),
         toRequesterUSDC |-> receipt.requesterRefundUSDC + recourse,
         toVerifierUSDC |-> receipt.verifierPayoutUSDC, slashedUSDC |-> receipt.slashedUSDC,
         recourseUSDC |-> recourse]

agentBondRecoursePolicyGet(lib) == validated(lib.recoursePolicy)
agentBondRecourseDecisionQuote(params, lib) ==
    LET agentId == first(params, <<"agentId">>, <<"agent_data_001">>)
        passport == getAgentBondPassport(lib, agentId)
        envelope == validated(first(params, <<"envelope">>, lib.recourseEnvelope))
    IN  IF ~hasField(params, "envelope") /\ agentId = <<"agent_data_001">>
        THEN validated(lib.approvedDecision)
        ELSE IF isNull(passport) THEN rejected("objectNotFound")
        ELSE IF ~answered(envelope) \/ ~validates(lib.usdcPool) \/ ~receiptsReadable(lib)
                \/ ~validates(lib.recoursePolicy)
        THEN rejected("internalError")
        ELSE answer(buildRecourseDecision(lib.recoursePolicy, envelope.result, passport, lib.usdcPool,
                        computeAgentCreditScoreFromReceipts(lib, passport.agentId),
                        [agent |-> 0, requester |-> 0, verifier |-> 0]))
agentBondFailureWaterfallGet(params, lib) ==
    LET receipt == validated(first(params, <<"receipt">>, lib.slashedReceipt))
    IN  IF ~answered(receipt) \/ ~validates(lib.approvedDecision) THEN rejected("internalError")
        ELSE answer(buildFailureWaterfall(receipt.result, lib.approvedDecision))

---------------------------------------------------------------------------
\* The phase-2 gate, public claims, and the A2A, MCP and x402 views.

FoundationParts == {"passport", "envelope", "receipt"}

\* lib.files: the paths that exist.  lib.valid: the parts whose sample fits its schema.
getAgentBondsFoundationReadiness(lib) ==
    LET complete(part) ==
            /\ << part, "schema" >> \in lib.files /\ << part, "fixture" >> \in lib.files
            /\ part \in lib.valid
            /\ part # "receipt" => << part, "service" >> \in lib.files
        blockers == { part \in FoundationParts : ~complete(part) }
    IN  [ready |-> blockers = {}, valid |-> lib.valid, blockers |-> blockers]

getAgentBondsPhase2Gate(lib) ==
    LET foundation == getAgentBondsFoundationReadiness(lib)
        substantiated == <<"claims", "substantiation">> \in lib.files
    IN  [foundationReady |-> foundation.ready, partsReady |-> foundation.valid,
         integrationsAllowed |-> foundation.ready,
         dynamicCreditScoring |-> foundation.ready,
         underwriterPools |-> foundation.ready /\ <<"credit", "report">> \in lib.files
                              /\ <<"underwriters", "report">> \in lib.files,
         publicLaunchClaimAllowed |-> foundation.ready /\ substantiated,
         blockers |-> foundation.blockers \cup (IF substantiated THEN {} ELSE {"substantiation"})]

agentBondPhase2GateGet(lib) ==
    answer([foundation |-> getAgentBondsFoundationReadiness(lib), gate |-> getAgentBondsPhase2Gate(lib)])

ClaimLevels == {"internal_dev", "capped_pilot", "integration_beta", "public_protocol_available",
                "broad_public_launch"}

\* A claim carries the gate's flags; its level alone decides whether it is enabled.
buildPublicClaimPackage(lib, claimLevel) ==
    LET gate == getAgentBondsPhase2Gate(lib)
    IN  IF claimLevel \notin ClaimLevels THEN rejected("internalError")
        ELSE answer([schemaVersion |-> "agent-bonds-public-claim/v1", claimLevel |-> claimLevel,
                     enabled |-> claimLevel # "broad_public_launch", substantiation |-> gate, forbidden |-> {}])

\* claim.forbidden: the forbidden phrases its texts contain.
scanUnsafeAgentBondClaims(claim) == [ok |-> claim.forbidden = {}, matches |-> claim.forbidden]
validatePublicClaimPackage(claim) ==
    IF validates(claim) /\ scanUnsafeAgentBondClaims(claim).ok THEN answer(claim) ELSE rejected("internalError")

agentBondPublicClaimGet(params, lib) ==
    buildPublicClaimPackage(lib, first(params, <<"claimLevel">>, "integration_beta"))
agentBondPublicClaimValidate(params) == validatePublicClaimPackage(first(params, <<"claim">>, Null))
agentBondPublicClaimStatusGet(lib) ==
    answer([gate |-> getAgentBondsPhase2Gate(lib), broadPublicLaunchBlocked |-> ~lib.broadClaim.enabled])

buildA2AAgentBondsExtension(passport) ==
    [agentId |-> passport.agentId, supportedTaskClasses |-> passport.taskClasses]
buildA2AAgentCardFromPassport(passport) ==
    [skills |-> passport.taskClasses, extensions |-> {buildA2AAgentBondsExtension(passport)}]

agentBondA2aAgentCardGet(params, lib) ==
    LET passport == agentBondPassportGet(params, lib)
    IN  IF answered(passport) THEN answer(buildA2AAgentCardFromPassport(passport.result)) ELSE passport
agentBondA2aExtensionGet(params, lib) ==
    LET passport == agentBondPassportGet(params, lib)
    IN  IF answered(passport) THEN answer(buildA2AAgentBondsExtension(passport.result)) ELSE passport
agentBondA2aEnvelopeExtract(params) ==
    answer(extractBondedTaskEnvelopeFromA2AMetadata(first(params, <<"message">>, Null)))
agentBondA2aMessageValidate(params) ==
    LET envelope == agentBondA2aEnvelopeExtract(params)
    IN  IF isNull(envelope.result) THEN rejected("invalidParams") ELSE envelope

\* A uri is the kind of resource and the id its last segment names.
getAgentBondMcpResource(lib, uri) ==
    CASE uri[1] = "passports" -> getAgentBondPassport(lib, Tail(uri))
      [] uri[1] = "receipts" ->
            findRow(listReceiptsForAgent(lib, <<"agent_code_001">>), LAMBDA r : r.receiptId = Tail(uri))
      [] uri[1] = "phase2-gate" -> getAgentBondsPhase2Gate(lib)
      [] OTHER -> Null

MutatingTools == {"agent_bond_task_create", "agent_bond_task_accept", "agent_bond_evidence_submit",
                  "agent_bond_verifier_report_submit", "agent_bond_task_challenge"}

\* A mutating tool refuses unless the caller says dryRun: false.
runAgentBondMcpTool(lib, name, args) ==
    LET agentId == first(args, <<"agentId">>, <<"agent_code_001">>) IN
    CASE name \in MutatingTools /\ first(args, <<"dryRun">>, TRUE) -> rejected("dryRunRequired")
      [] name = "agent_bond_passport_get" -> answer(getAgentBondPassport(lib, agentId))
      [] name = "agent_bond_envelope_quote" -> quoteBondedTaskEnvelope(lib, args)
      [] name = "agent_bond_receipt_get" ->
            answer(LET mine == listReceiptsForAgent(lib, agentId) IN IF mine = <<>> THEN Null ELSE mine[1])
      [] OTHER -> answer([name |-> name, gate |-> getAgentBondsPhase2Gate(lib)])

agentBondMcpToolsGet(lib) == answer(lib.mcpTools)
agentBondMcpResourceGet(params, lib) == keyed(params, <<"uri">>, LAMBDA uri : getAgentBondMcpResource(lib, uri))
agentBondMcpPromptGet(params, lib) ==
    keyed(params, <<"name">>, LAMBDA name : [name |-> name, phase2Gate |-> getAgentBondsPhase2Gate(lib)])

createX402ServicePaymentIntent(lib, in) ==
    [lib.servicePayment EXCEPT !.amountAtomic = first(in, <<"amountAtomic">>, @),
                               !.payTo = first(in, <<"payTo">>, @)]
createX402EscrowBridgeIntent(lib, envelope) ==
    [lib.escrowPayment EXCEPT !.envelopeId = envelope.envelopeId, !.envelopeHash = envelope.envelopeHash]
linkX402PaymentToEnvelope(intent, envelope) ==
    [paymentIntentId |-> intent.paymentIntentId, envelopeHash |-> envelope.envelopeHash,
     linkHash |-> stableHash("link", << intent.paymentIntentId, envelope.envelopeHash >>)]

agentBondX402PaymentIntentCreate(params, lib) ==
    IF hasField(params, "envelope") /\ ~validates(params.envelope) THEN rejected("internalError")
    ELSE IF first(params, <<"mode">>, "service_payment") = "escrow_bridge" /\ hasField(params, "envelope")
    THEN validated(createX402EscrowBridgeIntent(lib, params.envelope))
    ELSE validated(createX402ServicePaymentIntent(lib, params))
withFundedEnvelope(params, lib, Use(_)) ==
    withEnvelope([envelope |-> first(params, <<"envelope">>, lib.fundedEnvelope)], Use)
agentBondX402PaymentRequiredGet(params, lib) ==
    withFundedEnvelope(params, lib, LAMBDA e : createX402EscrowBridgeIntent(lib, e))
agentBondX402PaymentReceiptValidate(params) ==
    IF hasField(params, "receipt") THEN answer(params.receipt) ELSE rejected("internalError")
agentBondX402EnvelopeLinkGet(params, lib) ==
    withFundedEnvelope(params, lib,
        LAMBDA e : linkX402PaymentToEnvelope(createX402EscrowBridgeIntent(lib, e), e))
=============================================================================
