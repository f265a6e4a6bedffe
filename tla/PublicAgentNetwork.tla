------------------------- MODULE PublicAgentNetwork -------------------------
(***************************************************************************)
(* Launching agents and swarms                                             *)
(* (services/flowmemory/src/public-agent-network.ts, public-swarm-         *)
(* network.ts, and the control plane methods in front of them): a preview  *)
(* checks an input against its class, an intent carries the roots derived  *)
(* from it, and the factory's digests and ids are hashes of the intent.    *)
(*                                                                         *)
(* A hash is the tuple of what is hashed; ids, texts and addresses are     *)
(* sequences of strings; token amounts count whole tokens.                 *)
(***************************************************************************)
EXTENDS ControlPlaneMethods

ZeroWord == <<>>
NaN == -1       \* Number(text) of a text that is no number

agentClass(classId, kernelClass, minAutonomy, maxAutonomy, maxRisk, maxTools, bond, fuel) ==
    [classId |-> <<classId>>, kernelClass |-> <<kernelClass>>, minAutonomyLevel |-> minAutonomy,
     maxAutonomyLevel |-> maxAutonomy, maxToolRiskTier |-> maxRisk, maxTools |-> maxTools,
     minLaunchBond |-> bond, minMemoryFuel |-> fuel, allowPublicLaunch |-> TRUE]

DEFAULT_CLASSES ==
    << agentClass("TASK_SCOUT_V0", "kernel.task_scout.rule_scoring.v1", 1, 3, 2, 4, 10, 5),
       agentClass("RESEARCH_SYNTH_AGENT_V0", "kernel.research_synth.v0", 1, 2, 1, 3, 15, 7),
       agentClass("SWARM_COORDINATOR_V0", "kernel.swarm_coordinator.v0", 2, 4, 3, 6, 25, 10) >>

tool(toolId, toolSetRoot, riskTier) ==
    [toolId |-> <<toolId>>, toolSetRoot |-> <<toolSetRoot>>, riskTier |-> riskTier]

DEFAULT_TOOLS ==
    << tool("tool.accept.task.v0", "toolset.task-scout.v0", 2),
       tool("tool.memory.update.v0", "toolset.memory-curator.v0", 1),
       tool("tool.swarm.join.v0", "toolset.swarm-coordinator.v0", 3) >>

stableRoot(schema, value) == << schema, value >>
hashWords(words) == << "keccak", words >>

getPublicAgentClass(classId) == findRow(DEFAULT_CLASSES, LAMBDA c : c.classId = classId)
getPublicToolSet(root) == SelectSeq(DEFAULT_TOOLS, LAMBDA t : t.toolSetRoot = root)

---------------------------------------------------------------------------
\* Agents.

\* What is wrong with an input of a known class.  A comparison with NaN is false, so
\* an autonomy level that is no number is not out of range.
launchWarnings(in, class) ==
    LET tools == getPublicToolSet(in.toolSetRoot)
        warning(condition, code) == IF condition THEN {code} ELSE {}
    IN  warning(~class.allowPublicLaunch, "class.not_launchable")
        \cup warning(/\ in.autonomyLevel # NaN
                     /\ \/ in.autonomyLevel < class.minAutonomyLevel
                        \/ in.autonomyLevel > class.maxAutonomyLevel, "class.autonomy_out_of_range")
        \cup warning(Len(tools) > class.maxTools, "toolset.too_large")
        \cup warning(\E i \in DOMAIN tools : tools[i].riskTier > class.maxToolRiskTier,
                     "toolset.risk_too_high")
        \cup warning(in.bondAmount < class.minLaunchBond, "bond.below_minimum")
        \cup warning(in.initialFuelAmount < class.minMemoryFuel, "fuel.below_minimum")

\* The preview of a known class: BigInt throws on an amount that is no number.
buildPublicAgentLaunchPreview(in) ==
    LET class == getPublicAgentClass(in.classId) IN
    IF isNull(class) \/ NaN \in {in.bondAmount, in.initialFuelAmount} THEN rejected("internalError")
    ELSE answer(
        [kernelClass |-> class.kernelClass, toolAllowlistRoot |-> in.toolSetRoot,
         activeGoalRoot |-> stableRoot("goal", in.objectiveText),
         profileDigest |-> stableRoot("profile", in.profileText),
         policyRoot |-> stableRoot("policy",
             << in.classId, in.autonomyLevel, in.riskLevel, in.objectiveText >>),
         initialMemoryRoot |-> stableRoot("memory_root",
             << in.classId, in.objectiveText, in.parentAgentId, in.parentSwarmId >>),
         launchSpecRoot |-> stableRoot("launch_spec", in),
         warnings |-> launchWarnings(in, class)])

\* The intent is built whatever the preview warns of.
buildPublicAgentLaunchIntent(in, options) ==
    LET preview == buildPublicAgentLaunchPreview(in) IN
    IF ~answered(preview) THEN preview
    ELSE answer([f \in {"kernelClass", "policyRoot", "toolAllowlistRoot", "initialMemoryRoot",
                        "activeGoalRoot", "profileDigest", "launchSpecRoot"} |-> preview.result[f]]
        @@ [f \in {"owner", "classId", "autonomyLevel", "riskLevel", "parentAgentId",
                   "parentSwarmId", "bondToken", "bondAmount", "fuelToken", "initialFuelAmount",
                   "discoverable"} |-> in[f]]
        @@ [f \in {"rootfieldId", "validAfter", "validUntil", "nonce", "salt"} |-> options[f]]
        @@ [operator |-> first(options, <<"operator">>, in.owner)])

hashPublicAgentLaunchIntent(intent) == stableRoot("launch_intent", intent)

\* The digest the factory verifies a signature over, and the launch's id.
lineageHash(intent) == hashWords(<< intent.parentAgentId, intent.parentSwarmId >>)

launchDigest(intent, chainId, verifyingContract) ==
    LET rootsHash == hashWords(<< intent.policyRoot, intent.toolAllowlistRoot,
            intent.initialMemoryRoot, intent.activeGoalRoot, intent.launchSpecRoot >>)
        configHash == hashWords(<< intent.profileDigest, intent.autonomyLevel, intent.riskLevel,
            intent.discoverable, intent.validAfter, intent.validUntil >>)
        fundingHash == hashWords(<< intent.bondToken, intent.bondAmount, intent.fuelToken,
            intent.initialFuelAmount >>)
        structHash == hashWords(<< intent.owner, intent.operator, intent.classId, intent.rootfieldId,
            intent.kernelClass, rootsHash, configHash, lineageHash(intent), fundingHash,
            intent.nonce, intent.salt >>)
    IN  hashWords(<< hashWords(<< chainId, verifyingContract >>), structHash >>)

launchIdOf(intent, chainId, verifyingContract) ==
    hashWords(<< chainId, verifyingContract, intent.owner, intent.classId, intent.policyRoot,
        intent.toolAllowlistRoot, intent.initialMemoryRoot, intent.activeGoalRoot,
        intent.profileDigest, intent.nonce, intent.salt >>)

buildPublicAgentLaunchContractHashes(intent, chainId, verifyingContract) ==
    [digest |-> launchDigest(intent, chainId, verifyingContract),
     launchId |-> launchIdOf(intent, chainId, verifyingContract)]

buildPrototypePublicAgentLaunchRecord ==
    LET class == DEFAULT_CLASSES[1]
        in == [owner |-> <<"0x1001">>, classId |-> class.classId, objectiveText |-> <<"Launch a task scout">>,
               profileText |-> <<"Public task scout profile">>,
               toolSetRoot |-> DEFAULT_TOOLS[1].toolSetRoot, autonomyLevel |-> 2, riskLevel |-> 1,
               bondToken |-> <<"0x2001">>, bondAmount |-> class.minLaunchBond,
               fuelToken |-> <<"0x2001">>, initialFuelAmount |-> class.minMemoryFuel,
               discoverable |-> TRUE, parentAgentId |-> ZeroWord, parentSwarmId |-> ZeroWord]
        intent == buildPublicAgentLaunchIntent(in,
            [rootfieldId |-> <<"rootfield.public.task-scout.prototype">>, validAfter |-> 1,
             validUntil |-> 2, nonce |-> 0, salt |-> <<"public-agent.prototype">>]).result
    IN  intent @@ [launchId |-> stableRoot("launch_id", intent), agentId |-> stableRoot("agent_id", intent)]

---------------------------------------------------------------------------
\* Swarms.

SWARM_CLASSES ==
    << [swarmClass |-> <<"RESEARCH_SWARM_V0">>, maxMembers |-> 10, maxMemberRiskTier |-> 2, active |-> TRUE],
       [swarmClass |-> <<"MEDIA_SWARM_V0">>, maxMembers |-> 12, maxMemberRiskTier |-> 2, active |-> TRUE],
       [swarmClass |-> <<"TASK_MARKET_SWARM_V0">>, maxMembers |-> 16, maxMemberRiskTier |-> 3, active |-> TRUE],
       [swarmClass |-> <<"GOVERNANCE_ANALYSIS_SWARM_V0">>, maxMembers |-> 8, maxMemberRiskTier |-> 1,
        active |-> TRUE] >>

getPublicSwarmClass(swarmClass) == findRow(SWARM_CLASSES, LAMBDA c : c.swarmClass = swarmClass)

buildPublicSwarmLaunchPreview(in) ==
    LET class == getPublicSwarmClass(in.swarmClass) IN
    IF isNull(class) \/ in.initialBudget = NaN THEN rejected("internalError")
    ELSE answer(
        [missionRoot |-> stableRoot("mission", in.missionText),
         sharedMemoryRoot |-> stableRoot("shared_memory", << in.missionText, in.parentSwarmId >>),
         policyRoot |-> stableRoot("swarm_policy", << in.swarmClass, in.budgetAsset >>),
         roleRoot |-> stableRoot("roles", in.swarmClass),
         profileDigest |-> stableRoot("swarm_profile", in.profileText),
         warnings |-> (IF class.active THEN {} ELSE {"swarm.class.inactive"})
                      \cup (IF in.initialBudget = 0 THEN {"swarm.initial_budget.zero"} ELSE {})])

buildPublicSwarmLaunchIntent(in, options) ==
    LET preview == buildPublicSwarmLaunchPreview(in) IN
    IF ~answered(preview) THEN preview
    ELSE answer([f \in {"missionRoot", "sharedMemoryRoot", "policyRoot", "roleRoot", "profileDigest"}
                    |-> preview.result[f]]
        @@ [f \in {"creator", "swarmClass", "budgetAsset", "initialBudget", "parentSwarmId"} |-> in[f]]
        @@ [f \in {"validAfter", "validUntil", "nonce", "salt"} |-> options[f]])

hashPublicSwarmLaunchIntent(intent) == stableRoot("swarm_launch_intent", intent)

swarmIntentHash(i) ==
    hashWords(<< i.creator, i.swarmClass, i.missionRoot, i.sharedMemoryRoot, i.policyRoot,
        i.roleRoot, i.profileDigest, i.budgetAsset, i.initialBudget, i.validAfter, i.validUntil,
        i.nonce, i.parentSwarmId, i.salt >>)

buildPublicSwarmLaunchContractHashes(i, chainId, factory) ==
    [intentHash |-> swarmIntentHash(i),
     swarmId |-> hashWords(<< chainId, factory, i.creator, i.swarmClass, i.missionRoot,
                              i.sharedMemoryRoot, i.nonce, i.salt >>)]

prototypeSwarmIntent ==
    buildPublicSwarmLaunchIntent(
        [creator |-> <<"0x1001">>, swarmClass |-> SWARM_CLASSES[1].swarmClass,
         missionText |-> <<"Research a launch opportunity">>, profileText |-> <<"Research swarm profile">>,
         budgetAsset |-> <<"0x2001">>, initialBudget |-> 1, parentSwarmId |-> ZeroWord],
        [validAfter |-> 1, validUntil |-> 2, nonce |-> 0, salt |-> <<"public-swarm.prototype">>]).result

buildPrototypePublicSwarmRecord ==
    prototypeSwarmIntent @@ [swarmId |-> stableRoot("swarm_id", prototypeSwarmIntent)]

---------------------------------------------------------------------------
\* The control plane's methods.

\* Every required param under one of its names, and the optional ones or their default.
launchParams(params, required, optional) ==
    IF \E names \in required : \A i \in DOMAIN names : ~hasField(params, names[i])
    THEN rejected("invalidParams")
    ELSE answer([n \in { Head(names) : names \in required } |->
                    first(params, CHOOSE names \in required : Head(names) = n, NoId)]
                @@ [n \in DOMAIN optional |-> first(params, << n >>, optional[n])])

AgentLaunchParams == { <<"owner">>, <<"classId">>, <<"objectiveText", "goal">>,
    <<"profileText", "profile">>, <<"toolSetRoot">>, <<"bondToken">>, <<"bondAmount">>,
    <<"fuelToken">>, <<"initialFuelAmount">> }
LaunchOptions == { <<"rootfieldId">>, <<"validAfter">>, <<"validUntil">>, <<"nonce">>, <<"salt">> }
AgentLaunchDefaults == [autonomyLevel |-> 0, riskLevel |-> 0, discoverable |-> FALSE,
                        parentAgentId |-> ZeroWord, parentSwarmId |-> ZeroWord]
SwarmLaunchParams == { <<"creator", "owner">>, <<"swarmClass", "classId">>, <<"missionText", "goal">>,
    <<"profileText", "profile">>, <<"budgetAsset">>, <<"initialBudget">> }

publicAgentNetworkClassesList(params) == listOf(params, DEFAULT_CLASSES, {})
publicAgentNetworkClassGet(params) == getOf(params, <<"classId", "id">>, DEFAULT_CLASSES, {"classId"})
publicAgentNetworkToolsList(params) == listOf(params, DEFAULT_TOOLS, {})
publicAgentNetworkToolSetGet(params) ==
    LET root == requiredString(params, <<"toolSetRoot", "id">>) IN
    IF root = NoId THEN rejected("invalidParams")
    ELSE IF getPublicToolSet(root) = <<>> THEN rejected("objectNotFound") ELSE answer(getPublicToolSet(root))

publicAgentLaunchPreview(params) ==
    LET in == launchParams(params, AgentLaunchParams, AgentLaunchDefaults)
    IN  IF ~answered(in) THEN in ELSE buildPublicAgentLaunchPreview(in.result)

publicAgentLaunchIntentGet(params) ==
    LET in == launchParams(params, AgentLaunchParams, AgentLaunchDefaults)
        options == launchParams(params, LaunchOptions, [n \in {} |-> NoId])
        intent == buildPublicAgentLaunchIntent(in.result, options.result)
    IN  IF ~answered(in) THEN in ELSE IF ~answered(options) THEN options ELSE IF ~answered(intent) THEN intent
        ELSE answer([intent |-> intent.result, launchIntentHash |-> hashPublicAgentLaunchIntent(intent.result)])

publicAgentLaunchGet(params) == answer(buildPrototypePublicAgentLaunchRecord)
publicAgentDiscover(params) == listOf(params, << buildPrototypePublicAgentLaunchRecord >>, {})

publicSwarmClassesList(params) == listOf(params, SWARM_CLASSES, {})
publicSwarmClassGet(params) == getOf(params, <<"swarmClass", "id">>, SWARM_CLASSES, {"swarmClass"})
publicSwarmLaunchPreview(params) ==
    LET in == launchParams(params, SwarmLaunchParams, [parentSwarmId |-> ZeroWord])
    IN  IF ~answered(in) THEN in ELSE buildPublicSwarmLaunchPreview(in.result)
publicSwarmGet(params) == answer(buildPrototypePublicSwarmRecord)
publicSwarmReplayGet(params) ==
    answer([swarmId |-> buildPrototypePublicSwarmRecord.swarmId,
            replayRoot |-> hashPublicSwarmLaunchIntent(prototypeSwarmIntent)])
=============================================================================
