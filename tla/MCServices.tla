----------------------------- MODULE MCServices -----------------------------
(* The control plane's read model on enumerated disks (the sample files with *)
(* one or two of them missing or cut short, or with the relayer's handoff at *)
(* one of its stages) and environments; and its JSON-RPC endpoint on         *)
(* enumerated payloads.  Recourse decisions, their attestations and          *)
(* waterfalls on enumerated sequences of tasks, and the hashes of agent and  *)
(* swarm launches on enumerated pairs of inputs.                             *)
EXTENDS SampleState

\* One input: a record whose kind says which function its other fields are for.
VARIABLE subject

is(kind) == subject.kind = kind

NamedFiles == DOMAIN SampleFiles \ {"txIntake", "bridgeIntake", "launchApproval"}

\* The files as a crash of their writer, or no writer, leaves them.
damaged(files, name, how) ==
  [files EXCEPT ![name] = CASE name \in {"txIntake", "bridgeIntake"} -> << Torn >>
                            [] how = "missing" -> missing
                            [] OTHER -> malformed]

ReadyEnv ==
  [n \in LIVE_REQUIRED_ENV_NAMES \cup {"FLOWMEMORY_PILOT_CONFIRMATIONS"} |->
     IF n = "FLOWMEMORY_PILOT_CONFIRMATIONS" THEN 2 ELSE AckPhrase]
  @@ [FLOWMEMORY_BRIDGE_POLL_SECONDS |-> 5]

ReadyRpcEnv ==
  [FLOWMEMORY_RPC_PUBLIC_URL |-> [protocol |-> "https:", host |-> "rpc.flowmemory.example"],
   FLOWMEMORY_RPC_ALLOWED_ORIGINS |-> {"https://app.flowmemory.example"},
   FLOWMEMORY_RPC_RATE_LIMIT_PER_MINUTE |-> 60, FLOWMEMORY_RPC_TLS_TERMINATED |-> TRUE,
   FLOWMEMORY_RPC_STATE_BACKUP_PATH |-> <<"backup">>]

stateOf(files, env, rpcEnv) ==
  atHandler(loadControlPlaneState(files), files) @@ [env |-> env, rpcEnv |-> rpcEnv, library |-> SampleLibrary]

Damages == {"missing", "malformed"}

\* One or two damaged files; and every stage of the handoff on whole files, with and
\* without the fallback, the wallet's transfer proof and the observation the relayer
\* writes beside its handoff.
DamagedSubjects ==
  [kind : {"damaged"}, one : DOMAIN SampleFiles \ {"launchApproval"}, oneHow : Damages,
   two : NamedFiles, twoHow : Damages]

StagedSubjects ==
  [kind : {"staged"}, stage : ToSet(Stages), chain : {8453, 84532}, fallback : BOOLEAN,
   proof : BOOLEAN, observed : BOOLEAN]

subjectFiles ==
  IF is("damaged") THEN damaged(damaged(SampleFiles, subject.one, subject.oneHow), subject.two, subject.twoHow)
  ELSE [SampleFiles EXCEPT
          !.bridgeRuntimeHandoff = loaded(handoffAt(subject.stage, subject.chain)),
          !.explorerFallback = IF subject.fallback THEN @ ELSE missing,
          !.walletTransferProof = IF subject.proof THEN loaded(WalletProof) ELSE missing,
          !.bridgeObservation = IF subject.observed
                                THEN loaded(observationOf(<<"dep">>, subject.chain, <<"base", "tx">>))
                                ELSE missing]

subjectState == stateOf(subjectFiles, ReadyEnv, ReadyRpcEnv)

\* A disk the control plane starts on; loading throws on the others.
isDisk == (is("damaged") \/ is("staged")) /\ ~ loadThrows(subjectFiles)

\* The files a load reads: a later alternative only when the earlier one cannot be used.
consulted(files) ==
  (DOMAIN files \ {"launchApproval", "txIntake", "bridgeIntake"})
  \ ((IF files.launchCore.status = "loaded" THEN {"agentBondFixture"} ELSE {})
     \cup (IF files.localRuntime.status = "loaded" THEN {"localRuntimeLaunch"} ELSE {})
     \cup (IF files.bridgeObservation.status = "loaded" THEN {"mockDeposit"} ELSE {}))

\* A file cut short never passes for a whole one: whenever a file the load reads, or
\* an intake line, cannot be parsed, /health says degraded, the public RPC is not
\* ready, and the state still serves every other source.
partialFileReported ==
  isDisk =>
    LET damagedFiles == {f \in consulted(subjectFiles) : subjectFiles[f].status = "malformed"}
        torn == Torn \in ToSet(subjectFiles.txIntake \o subjectFiles.bridgeIntake)
    IN damagedFiles # {} \/ torn =>
         /\ health(subjectState).status = "degraded"
         /\ ~ rpcDeploymentStatus(subjectState).publicRpcReady

-----------------------------------------------------------------------------
(* Lists, gets and search.                                                   *)

\* A list method, the get method of the same objects and the field both know them by.
ListsAndGets ==
  { <<"transaction_list", "transaction_get", "transactionId">>,
    <<"account_list", "account_get", "accountId">>, <<"account_list", "balance_get", "accountId">>,
    <<"wallet_metadata_list", "wallet_metadata_get", "walletId">>,
    <<"token_list", "token_get", "tokenId">>, <<"token_balance_list", "token_balance_get", "balanceId">>,
    <<"token_transfer_list", "token_transfer_get", "transferId">>, <<"pool_list", "pool_get", "poolId">>,
    <<"lp_position_list", "lp_position_get", "positionId">>, <<"swap_list", "swap_get", "swapId">>,
    <<"artifact_availability_list", "artifact_availability_get", "availabilityId">>,
    <<"work_receipt_list", "work_receipt_get", "receiptId">>,
    <<"verifier_module_list", "verifier_module_get", "moduleId">>,
    <<"model_list", "model_get", "modelId">>, <<"bridge_deposit_list", "bridge_deposit_get", "depositId">>,
    <<"bridge_observation_list", "bridge_observation_get", "observationId">>,
    <<"bridge_credit_list", "bridge_credit_get", "creditId">>,
    <<"withdrawal_list", "withdrawal_get", "withdrawalId">>, <<"block_list", "block_get", "blockHash">>,
    <<"rootfield_list", "rootfield_get", "rootfieldId">>, <<"agent_bond_task_list", "agent_bond_task_get", "taskId">>,
    <<"challenge_list", "challenge_get", "challengeId">>,
    <<"base_agent_memory_task_scout_list", "base_agent_memory_task_scout_get", "agentId">> }

\* Gets that answer with the object inside a larger record, or, for cells and agents
\* the runtime lacks, under the task scout's id.
ListsAndAnswers ==
  { <<"receipt_list", "receipt_get", "receiptId">>, <<"verifier_report_list", "verifier_report_get", "reportId">>,
    <<"memory_cell_list", "memory_cell_get", "memoryCellId">>, <<"agent_list", "agent_get", "agentId">>,
    <<"finality_list", "finality_get", "objectId">> }

\* What a list shows can be fetched: the get method finds every listed object under
\* its own id and answers with that object, whatever mix of runtime, handoff,
\* fallback and projected rows the list was merged from.
listedObjectsResolve ==
  isDisk => \A pair \in ListsAndGets \cup ListsAndAnswers :
    LET state == subjectState
        rows == callControlPlaneMethod(pair[1], [limit |-> 100], state).result
    IN \A i \in DOMAIN rows :
         LET got == callControlPlaneMethod(pair[2], (pair[3] :> rows[i][pair[3]]), state)
         IN /\ answered(got)
            /\ pair \in ListsAndGets => got.result[pair[3]] = rows[i][pair[3]]

PilotTypes == {"pilot_deposit_observation", "pilot_credit", "pilot_withdrawal_intent",
               "pilot_release_evidence"}

\* A hit of the explorer's search names the call that opens it, and the call answers.
\* Left out are the pilot rows, whose route passes an id as the page limit, and
\* observed events the launch core does not know.
searchHitsResolve ==
  isDisk =>
    LET state == subjectState
        hits == explorerSearchCandidates(state)
    IN \A i \in DOMAIN hits :
         \/ hits[i].objectType \in PilotTypes
         \/ /\ hits[i].objectType = "event"
            /\ isNull(receiptByAnyId(state, hits[i].objectId))
            /\ isNull(signalByObservation(state, hits[i].objectId))
         \/ answered(callControlPlaneMethod(hits[i].rpcMethod, hits[i].params, state))

-----------------------------------------------------------------------------
(* The bridge as the control plane shows it.                                 *)

\* A depositor who asks for the credit of their transaction is told it was applied
\* once the relayer's handoff says so, whatever other rows name the same deposit.
appliedCreditShown ==
  isDisk =>
    LET state == subjectState
        credits == member(state.bridgeRuntimeHandoff, "credits")
    IN \A i \in DOMAIN credits : credits[i].status = "applied" =>
         \A key \in {credits[i].source.txHash, credits[i].depositId, credits[i].creditId} :
           LET shown == bridgeCreditStatus([txHash |-> key], state).result
           IN shown.found /\ shown.status = "applied" /\ shown.amount = credits[i].amount

\* The lifecycle calls a deposit's amounts exact only when native evidence records the
\* release of that amount, and does so once the handoff carries it; one observation of a
\* replay key is accepted and every other is a duplicate, from whichever file it came.
exactRecordsAreReleased ==
  isDisk =>
    LET state == subjectState
        records == buildLifecycleRecords(state)
        evidence == ToSet(handoffRowsAny(state, <<"releaseEvidence", "releaseEvidences">>))
        accepted(key) == {i \in DOMAIN records : records[i].replayKey = key /\ records[i].replayStatus = "accepted"}
    IN /\ is("staged") /\ subject.stage = "released" =>
            \E i \in DOMAIN records : records[i].depositId = <<"dep">> /\ records[i].equality.allEqual
       /\ \A i \in DOMAIN records :
            /\ records[i].equality.allEqual =>
                 \E e \in evidence : /\ e.depositId = records[i].depositId
                                     /\ e.releaseCall.amount = records[i].amountSmallestUnits
            /\ Cardinality(accepted(records[i].replayKey)) = 1

\* Environments that differ from the ready one in one value.
EnvSubjects ==
  {[kind |-> "env", env |-> [n \in DOMAIN ReadyEnv \ {name} |-> ReadyEnv[n]], rpcEnv |-> ReadyRpcEnv]
     : name \in DOMAIN ReadyEnv}
  \cup {[kind |-> "env", env |-> (name :> value) @@ ReadyEnv, rpcEnv |-> ReadyRpcEnv]
     : name \in DOMAIN ReadyEnv \cup {"FLOWMEMORY_BASE8453_CONFIRMATION_DEPTH", "FLOWMEMORY_BASE8453_TOKEN_MODE",
                                      "FLOWMEMORY_BASE8453_SUPPORTED_TOKEN",
                                      "FLOWMEMORY_BRIDGE_TARGET_SETTLEMENT_SECONDS",
                                      "FLOWMEMORY_BASE8453_ESTIMATED_BLOCK_SECONDS"},
       value \in {NotANumber, 0, 1, 2, 12, 13, 256, 257}}
  \cup {[kind |-> "env", env |-> ReadyEnv, rpcEnv |-> [n \in DOMAIN ReadyRpcEnv \ {name} |-> ReadyRpcEnv[n]]]
     : name \in DOMAIN ReadyRpcEnv}
  \cup {[kind |-> "env", env |-> ReadyEnv, rpcEnv |-> rpc @@ ReadyRpcEnv]
     : rpc \in {[FLOWMEMORY_RPC_PUBLIC_URL |-> Null],
                [FLOWMEMORY_RPC_PUBLIC_URL |-> [protocol |-> "http:", host |-> "rpc.flowmemory.example"]],
                [FLOWMEMORY_RPC_PUBLIC_URL |-> [protocol |-> "http:", host |-> "127.0.0.1"]],
                [FLOWMEMORY_RPC_ALLOWED_ORIGINS |-> {"*"}], [FLOWMEMORY_RPC_ALLOWED_ORIGINS |-> {}],
                [FLOWMEMORY_RPC_RATE_LIMIT_PER_MINUTE |-> NotANumber], [FLOWMEMORY_RPC_TLS_TERMINATED |-> FALSE]}}

\* What a live pilot needs of its environment.
pilotOperable(env) ==
  LET depth == IF hasField(env, "FLOWMEMORY_PILOT_CONFIRMATIONS") THEN env["FLOWMEMORY_PILOT_CONFIRMATIONS"]
               ELSE first(env, <<"FLOWMEMORY_BASE8453_CONFIRMATION_DEPTH">>, NotANumber)
      seconds(name, default) == first(env, <<name>>, default)
  IN /\ LIVE_REQUIRED_ENV_NAMES \subseteq DOMAIN env
     /\ env["FLOWMEMORY_PILOT_OPERATOR_ACK"] = AckPhrase
     /\ depth \in 2..256
     /\ env["FLOWMEMORY_PILOT_MAX_DEPOSIT_WEI"] > 0 /\ env["FLOWMEMORY_PILOT_TOTAL_CAP_WEI"] > 0
     /\ depth * seconds("FLOWMEMORY_BASE8453_ESTIMATED_BLOCK_SECONDS", 2)
          + seconds("FLOWMEMORY_BRIDGE_POLL_SECONDS", 30)
          <= seconds("FLOWMEMORY_BRIDGE_TARGET_SETTLEMENT_SECONDS", 30)
     /\ first(env, <<"FLOWMEMORY_BASE8453_TOKEN_MODE">>, 0) = 1 =>
          hasField(env, "FLOWMEMORY_BASE8453_SUPPORTED_TOKEN")

\* What a public endpoint needs of its own.
rpcExposable(env) ==
  /\ PUBLIC_RPC_REQUIRED_ENV_NAMES \subseteq DOMAIN env
  /\ env["FLOWMEMORY_RPC_PUBLIC_URL"] # Null
  /\ env["FLOWMEMORY_RPC_PUBLIC_URL"].protocol = "https:"
  /\ env["FLOWMEMORY_RPC_ALLOWED_ORIGINS"] \notin {{}, {"*"}}
  /\ env["FLOWMEMORY_RPC_RATE_LIMIT_PER_MINUTE"] > 0 /\ env["FLOWMEMORY_RPC_TLS_TERMINATED"]

\* Readiness fails closed: with a Base deposit observed and the runtime's state whole,
\* the pilot is ready only in an operable environment, and the endpoint is offered to
\* the public only when the pilot is ready and the endpoint's own settings are.
readinessFailsClosed ==
  is("env") =>
    LET state == stateOf(SampleFiles, subject.env, subject.rpcEnv)
        ready == bridgeLiveReadiness(state).result.failClosedStatus = "READY_FOR_OPERATOR_LIVE_PILOT"
        public == rpcDeploymentStatus(state).publicRpcReady
    IN /\ ready => pilotOperable(subject.env)
       /\ public => ready /\ rpcExposable(subject.rpcEnv)
       /\ public <=> \E r \in rpcMethodRows(rpcDeploymentStatus(state)) : r.productionReady
       /\ subject.env = ReadyEnv => ready /\ (subject.rpcEnv = ReadyRpcEnv => public)

-----------------------------------------------------------------------------
(* The JSON-RPC endpoint.                                                    *)

call(id, method) == [kind |-> "object", jsonrpc |-> "2.0", method |-> method, id |-> id]
notice(method) == [kind |-> "object", jsonrpc |-> "2.0", method |-> method]

Entries ==
  {call("1", "node_status"), call("2", "transaction_submit"), call("3", "no_such_method"),
   notice("node_status"), notice("transaction_submit"), [kind |-> "scalar"],
   [kind |-> "object", method |-> "node_status", id |-> "4"],
   [kind |-> "array", entries |-> << call("5", "node_status") >>]}

RpcSubjects ==
  [kind : {"rpc"}, payload : Entries \cup
     {[kind |-> "array", entries |-> es] : es \in UNION {[1..n -> Entries] : n \in 0..3}}]

\* The entries of a payload that are owed a response: every call and everything that
\* is no request, except what stands in a batch within the batch.
owed(payload) ==
  LET entriesOf == IF payload.kind = "array" THEN payload.entries ELSE << payload >>
  IN SelectSeq(entriesOf, LAMBDA e : e.kind # "array" /\ (wellFormed(e) => hasField(e, "id")))

idOfEntry(e) == IF e.kind = "object" THEN requestId(e) ELSE "null"

\* A payload gets one response per call, in the order of its calls, and none for a
\* notification; a result appears only in the response to a method on the public list.
callsAnsweredInOrder ==
  is("rpc") =>
    LET reply == dispatchPublicJsonRpc(subject.payload, stateOf(SampleFiles, ReadyEnv, ReadyRpcEnv))
        single == subject.payload.kind # "array"
        responses == IF reply = NoResponse THEN <<>> ELSE IF single THEN << reply >> ELSE reply.batch
        expected == owed(subject.payload)
    IN /\ Len(responses) = Len(expected)
       /\ \A i \in DOMAIN responses :
            /\ responses[i].id = idOfEntry(expected[i])
            /\ hasField(responses[i], "result") <=>
                 wellFormed(expected[i]) /\ isPublicRpcMethod(expected[i].method)

-----------------------------------------------------------------------------
\* Whatever mix of whole, damaged, missing and disagreeing files the control plane
\* finds, and whatever its environment and the payload, it answers consistently:
\* damage is reported, what is listed or found can be opened, an applied credit is
\* shown as applied, exact amounts are released ones, readiness fails closed, and
\* every call of a batch gets its own response.
ReadModelAnswers ==
  [][/\ partialFileReported /\ listedObjectsResolve /\ searchHitsResolve
     /\ appliedCreditShown /\ exactRecordsAreReleased
     /\ readinessFailsClosed /\ callsAnsweredInOrder]_subject

-----------------------------------------------------------------------------
(* Recourse.                                                                 *)

Parties == {<<"one">>, <<"two">>}

\* Tasks that differ in what the caps count: who takes part, the payout and the stake.
RecourseTasks == [agent : Parties, requester : Parties, verifier : Parties, payout : {0, 9, 18, 20, 22}]

RecourseSubjects ==
  [kind : {"recourse"}, stake : {0, 4, 20}, pool : {5, 40}, tasks : RecourseTasks \X RecourseTasks]
  \cup [kind : {"recourse"}, stake : {20}, pool : {40},
        tasks : [1..3 -> [agent : Parties, requester : Parties, verifier : {<<"one">>}, payout : {10, 20}]]]

decisionOn(task, open) ==
  buildRecourseDecision(RecoursePolicy,
    [TaskEnvelope EXCEPT !.requesterId = task.requester, !.verifierId = task.verifier,
                         !.payoutUSDC = task.payout, !.envelopeId = task.agent],
    Passport(task.agent, "active", subject.stake), [UsdcPool EXCEPT !.totalAvailable = subject.pool], Null,
    [agent |-> open.agent[task.agent], requester |-> open.requester[task.requester],
     verifier |-> open.verifier[task.verifier]])

nothingOpen == [role \in {"agent", "requester", "verifier"} |-> [p \in Parties |-> 0]]

\* The coverage open after deciding the tasks in order, as a caller keeps it.
openAfter(tasks) ==
  FoldLeft(LAMBDA open, task :
             LET granted == decisionOn(task, open).approvedCoverageUSDC
             IN [role \in DOMAIN open |-> [open[role] EXCEPT ![task[role]] = @ + granted]],
           nothingOpen, tasks)

\* What the waterfall's totals say the requester and the verifier get, and the agent
\* loses, is what its components add up to, in every terminal state a decision may
\* cover and in every other one when nothing was granted.
waterfallAddsUp ==
  is("recourse") =>
    LET decision == decisionOn(subject.tasks[1], nothingOpen)
        paid(w, kinds) == FoldLeft(LAMBDA n, c : IF c.kind \in kinds THEN n + c.amountUSDC ELSE n, 0, w.components)
    IN \A state \in CoveredStates \cup {"settled_success", "refunded_unsupported"} :
         LET w == buildFailureWaterfall(ExecutionReceipt(state), decision)
         IN state \in CoveredStates \/ decision.approvedCoverageUSDC = 0 =>
              /\ w.toRequesterUSDC = paid(w, {"refund", "recourse"})
              /\ w.toVerifierUSDC = paid(w, {"fee"}) /\ w.slashedUSDC = paid(w, {"slash"})


Signing == [signerId |-> <<"signer">>, signerKeyId |-> <<"key">>, issuedAt |-> 1, expiresAt |-> 3, nonce |-> <<"n">>]

attested(decision, fields) ==
  LET digest == recoursePolicyAttestationDigest(decision, fields)
  IN attachRecoursePolicyAttestation(decision,
       buildRecoursePolicyAttestation(decision, fields, <<"public">>, << <<"public">>, digest >>))

\* An attestation covers one decision: it verifies on the decision it was built for
\* until it expires, and never on another one, however alike, nor with its own
\* validity extended.
attestationBindsDecision ==
  is("recourse") =>
    LET decisions == [i \in DOMAIN subject.tasks |-> decisionOn(subject.tasks[i], nothingOpen)]
        signed == attested(decisions[1], Signing)
        moved == attachRecoursePolicyAttestation(decisions[2], signed.policyAttestation)
        extended == [signed EXCEPT !.policyAttestation.expiresAt = 9]
        ok(d, now) == verifyRecourseDecisionPolicyAttestation(d, {<<"signer">>}, now)
    IN /\ ok(signed, 3) /\ ~ ok(signed, 4) /\ ~ ok(extended, 4)
       /\ ok(moved, 2) <=> decisions[1] = decisions[2]
       /\ ~ verifyRecourseDecisionPolicyAttestation(signed, {<<"other">>}, 2)

-----------------------------------------------------------------------------
(* Launches.                                                                 *)

AgentLaunch ==
  [owner |-> <<"owner">>, classId |-> <<"TASK_SCOUT_V0">>, objectiveText |-> <<"objective">>,
   profileText |-> <<"profile">>, toolSetRoot |-> <<"toolset.task-scout.v0">>, autonomyLevel |-> 1, riskLevel |-> 1,
   bondToken |-> <<"bond">>, bondAmount |-> 10, fuelToken |-> <<"fuel">>, initialFuelAmount |-> 5,
   discoverable |-> TRUE, parentAgentId |-> ZeroWord, parentSwarmId |-> ZeroWord,
   rootfieldId |-> <<"rootfield">>, validAfter |-> 1, validUntil |-> 2, nonce |-> 0, salt |-> <<"salt">>,
   operator |-> <<"owner">>]

Changed ==
  [owner |-> <<"owner2">>, classId |-> <<"SWARM_COORDINATOR_V0">>, objectiveText |-> <<"profile">>,
   profileText |-> <<"objective">>, toolSetRoot |-> <<"toolset.memory-curator.v0">>, autonomyLevel |-> 2,
   riskLevel |-> 2, bondToken |-> <<"fuel">>, bondAmount |-> 11, fuelToken |-> <<"bond">>, initialFuelAmount |-> 6,
   discoverable |-> FALSE, parentAgentId |-> <<"parent">>, parentSwarmId |-> <<"parent">>,
   rootfieldId |-> <<"rootfield2">>, validAfter |-> 2, validUntil |-> 3, nonce |-> 1, salt |-> <<"salt2">>,
   operator |-> <<"operator">>]

SwarmLaunch ==
  [creator |-> <<"owner">>, swarmClass |-> <<"RESEARCH_SWARM_V0">>, missionText |-> <<"objective">>,
   profileText |-> <<"profile">>, budgetAsset |-> <<"fuel">>, initialBudget |-> 1, parentSwarmId |-> ZeroWord,
   validAfter |-> 1, validUntil |-> 2, nonce |-> 0, salt |-> <<"salt">>]

SwarmChanged ==
  [creator |-> <<"owner2">>, swarmClass |-> <<"MEDIA_SWARM_V0">>, missionText |-> <<"profile">>,
   profileText |-> <<"objective">>, budgetAsset |-> <<"bond">>, initialBudget |-> 0, parentSwarmId |-> <<"parent">>,
   validAfter |-> 2, validUntil |-> 3, nonce |-> 1, salt |-> <<"salt2">>]

\* One or two fields changed, on one of two chains.
LaunchSubjects ==
  [kind : {"agent_launch"}, changed : {{f, g} : f, g \in DOMAIN Changed}, chain : {8453, 84532}]
  \cup [kind : {"swarm_launch"}, changed : {{f, g} : f, g \in DOMAIN SwarmChanged}, chain : {8453, 84532}]

changedIn(base, changes) == [f \in DOMAIN base |-> IF f \in subject.changed THEN changes[f] ELSE base[f]]

OptionFields == {"rootfieldId", "validAfter", "validUntil", "nonce", "salt", "operator"}
inputOf(launch) == Restrict(launch, DOMAIN launch \ OptionFields)
optionsOf(launch) == Restrict(launch, DOMAIN launch \cap OptionFields)

agentHashes(launch, chain) ==
  buildPublicAgentLaunchContractHashes(
    buildPublicAgentLaunchIntent(inputOf(launch), optionsOf(launch)).result, chain, <<"factory">>)

swarmHashes(launch, chain) ==
  buildPublicSwarmLaunchContractHashes(
    buildPublicSwarmLaunchIntent(inputOf(launch), optionsOf(launch)).result, chain, <<"factory">>)

\* What an agent's launch id does not name: money, discovery, operator and validity.
OutsideLaunchId == {"bondToken", "bondAmount", "fuelToken", "initialFuelAmount", "discoverable", "rootfieldId",
                    "validAfter", "validUntil", "operator"}

\* The digest an owner signs names every field of the launch and the chain, so a
\* signature is good for one launch; the launch id names all but the terms.
launchDigestBindsLaunch ==
  is("agent_launch") =>
    LET one == agentHashes(AgentLaunch, 8453)
        two == agentHashes(changedIn(AgentLaunch, Changed), subject.chain)
    IN /\ one.digest # two.digest
       /\ one.launchId = two.launchId <=> subject.chain = 8453 /\ subject.changed \subseteq OutsideLaunchId

\* The swarm's intent hash names every field of the launch; its id the creator, the
\* class, the mission, the parent and the nonce.
swarmHashBindsLaunch ==
  is("swarm_launch") =>
    LET one == swarmHashes(SwarmLaunch, 8453)
        two == swarmHashes(changedIn(SwarmLaunch, SwarmChanged), subject.chain)
    IN /\ one.intentHash # two.intentHash
       /\ one.swarmId = two.swarmId <=>
            /\ subject.chain = 8453
            /\ subject.changed \subseteq {"profileText", "budgetAsset", "initialBudget", "validAfter", "validUntil"}

=============================================================================
