--------------------------- MODULE BridgeObserver ---------------------------
(* What one run of the bridge relayer computes from the deposits it read:    *)
(* observations, credits, runtime credit applications, withdrawal intents,   *)
(* release evidence, pilot evidence and the runtime handoff.  Hashes are     *)
(* injective, so an id is the tuple of the fields it is derived from.        *)
EXTENDS Integers, Sequences, FiniteSets, SequencesExt, FiniteSetsExt

CONSTANTS
  MaxBlockRange,          \* MAX_BLOCK_RANGE
  MaxPilotUsd,            \* MAX_CANARY_USD = MAX_PILOT_USD
  ZeroRecipient,          \* ZERO_BYTES32
  PlaceholderRecipients   \* recipients matching the placeholder pattern

None == "none"
Unset == -1

BaseMainnet == 8453
BaseSepolia == 84532
LocalAnvil == 31337
DefaultAssetDecimals == 18
SourceChains == {BaseMainnet, BaseSepolia, LocalAnvil}

Modes == {"mock", "mock-pilot", "local-anvil", "base-sepolia", "base-mainnet-canary",
          "base-mainnet-pilot"}

isMockMode(mode) == mode \in {"mock", "mock-pilot"}
isPilotMode(mode) == mode \in {"mock-pilot", "base-mainnet-pilot"}
isBasePublicNetworkMode(mode) == mode \in {"base-mainnet-canary", "base-mainnet-pilot"}
isLivePilotMode(mode) == mode = "base-mainnet-pilot"

expectedChainIdForMode(o) ==
  CASE o.expectedChain # Unset  -> o.expectedChain
    [] o.mode = "local-anvil"   -> LocalAnvil
    [] o.mode \in {"base-sepolia", "mock"} -> BaseSepolia
    [] OTHER -> BaseMainnet

-----------------------------------------------------------------------------
(* The command line.  An option that was not given is Unset or None.         *)

rangeArgsAccepted(o) ==
  /\ o.rpc /\ o.lockbox # None /\ o.from # Unset /\ (o.to # Unset \/ o.cursor)
  /\ o.to # Unset => o.from <= o.to /\ (~o.cursor => o.to - o.from <= MaxBlockRange)

canaryArgsAccepted(o) ==
  /\ o.ackFunds
  /\ o.maxUsd # Unset /\ o.maxUsd <= MaxPilotUsd
  /\ ~o.apply /\ ~o.withdrawal

pilotArgsAccepted(o) ==
  /\ o.ackPilot
  /\ o.mode = "base-mainnet-pilot" => o.ackFunds
  /\ o.maxUsd # Unset /\ o.maxUsd <= MaxPilotUsd
  /\ o.maxDeposit # Unset /\ o.totalCap # Unset /\ o.totalCap >= o.maxDeposit
  /\ o.approved # {} /\ o.supported # {}
  /\ o.decimals # Unset /\ o.depth # Unset

confirmationDepth(o) == IF o.depth = Unset THEN 0 ELSE o.depth
assetDecimals(o) == IF o.decimals = Unset THEN DefaultAssetDecimals ELSE o.decimals

parseBridgeArgs(o) ==
  /\ isMockMode(o.mode) => o.fixture # <<>>
  /\ o.cursor => o.mode = "base-mainnet-pilot"
  /\ ~isMockMode(o.mode) => rangeArgsAccepted(o)
  /\ o.mode = "base-mainnet-canary" => canaryArgsAccepted(o)
  /\ isPilotMode(o.mode) => pilotArgsAccepted(o)
  /\ isBasePublicNetworkMode(o.mode) => confirmationDepth(o) > 0

-----------------------------------------------------------------------------
(* Deposits and the ids derived from them.                                   *)

bridgeReplayKey(d) == <<d.sourceChainId, d.sourceContract, d.txHash, d.logIndex>>

bridgeObservationId(d) ==
  <<d.sourceChainId, d.sourceContract, d.token, d.sender, d.recipient, d.amount, d.txHash,
    d.logIndex, d.block, d.nonce>>

bridgeCreditId(observation) ==
  <<observation.observationId, observation.deposit.recipient, observation.deposit.amount>>

makeAssetIdentity(d, decimals) == <<d.sourceChainId, d.token, decimals>>

approvedLockbox(contract, o) == o.approved = {} \/ contract \in o.approved
supportedToken(token, o) == o.supported = {} \/ token \in o.supported

\* A deposit fixture is one deposit or a batch; each must have been observed
\* on a known chain.
validateDeposit(d) == d.status = "observed" /\ d.sourceChainId \in SourceChains

fixtureAccepted(deposits) == \A i \in DOMAIN deposits : validateDeposit(deposits[i])

\* The reason a pilot run refuses to credit a deposit, or None.
pilotDepositRejectionReason(d, o) ==
  CASE ~isPilotMode(o.mode)              -> None
    [] d.sourceChainId # BaseMainnet     -> "wrong_source_chain"
    [] d.recipient = ZeroRecipient       -> "missing_flowmemory_recipient"
    [] d.recipient \in PlaceholderRecipients -> "blocked_placeholder_flowmemory_recipient"
    [] ~approvedLockbox(d.sourceContract, o) -> "unapproved_lockbox"
    [] ~supportedToken(d.token, o)       -> "unsupported_token"
    [] d.amount > (IF o.maxDeposit = Unset THEN 0 ELSE o.maxDeposit) ->
         "deposit_amount_exceeds_pilot_cap"
    [] OTHER -> None

\* What a batch adds up to: each replay key once, rejected deposits not at all.
pilotTotal(deposits, o) ==
  LET counted == {i \in DOMAIN deposits :
                    /\ pilotDepositRejectionReason(deposits[i], o) = None
                    /\ \A j \in 1..(i - 1) :
                         pilotDepositRejectionReason(deposits[j], o) = None =>
                           bridgeReplayKey(deposits[j]) # bridgeReplayKey(deposits[i])}
  IN  FoldSet(LAMBDA i, sum : sum + deposits[i].amount, 0, counted)

enforcePilotDepositGuardrails(deposits, o) ==
  isPilotMode(o.mode) => pilotTotal(deposits, o) <= (IF o.totalCap = Unset THEN 0 ELSE o.totalCap)

-----------------------------------------------------------------------------
(* Observations and credits.                                                 *)

makeObservation(d, o) ==
  [observationId |-> bridgeObservationId(d), replayKey |-> bridgeReplayKey(d), mode |-> o.mode,
   asset |-> makeAssetIdentity(d, assetDecimals(o)), deposit |-> d,
   productionReady |->
     /\ isLivePilotMode(o.mode) /\ d.sourceChainId = BaseMainnet
     /\ d.recipient # ZeroRecipient /\ d.recipient \notin PlaceholderRecipients
     /\ supportedToken(d.token, o)
     /\ o.maxDeposit = Unset \/ d.amount <= o.maxDeposit
     /\ approvedLockbox(d.sourceContract, o)]

makeObservations(deposits, o) ==
  [i \in DOMAIN deposits |-> makeObservation(deposits[i], o)]

makeBridgeCredit(observation, status, reason) ==
  LET d == observation.deposit
      live == isLivePilotMode(observation.mode)
  IN  [creditId |-> bridgeCreditId(observation), observationId |-> observation.observationId,
       depositId |-> d.depositId, replayKey |-> observation.replayKey, token |-> d.token,
       asset |-> observation.asset, amount |-> d.amount, recipient |-> d.recipient,
       status |-> status, rejectionReason |-> reason,
       productionReady |-> live /\ status # "rejected"]

makeCredits(observations, o) ==
  LET refused(i) == pilotDepositRejectionReason(observations[i].deposit, o)
      seen(i) == {observations[j].replayKey : j \in {k \in 1..(i - 1) : refused(k) = None}}
  IN  [i \in DOMAIN observations |->
         LET observation == observations[i]
         IN  CASE refused(i) # None -> makeBridgeCredit(observation, "rejected", refused(i))
               [] observation.replayKey \in seen(i) ->
                    makeBridgeCredit(observation, "rejected", "duplicate_replay_key")
               [] observation.mode = "base-mainnet-canary" ->
                    makeBridgeCredit(observation, "rejected", "base_mainnet_canary_read_only")
               [] OTHER -> makeBridgeCredit(observation, IF o.apply THEN "applied" ELSE "pending",
                                            None)]

duplicateReplayKeys(observations) ==
  {observations[i].replayKey : i \in {k \in DOMAIN observations :
     \E j \in 1..(k - 1) : observations[j].replayKey = observations[k].replayKey}}

-----------------------------------------------------------------------------
(* Applying credits to the runtime credit application state: the applied     *)
(* replay keys with the application that applied each, and the applications. *)

emptyApplicationState == [applied |-> <<>>, applications |-> <<>>]

makeRuntimeApplication(credit, status, previous, reason) ==
  [applicationId |-> <<credit.creditId, credit.replayKey, status, previous>>,
   creditId |-> credit.creditId, depositId |-> credit.depositId, replayKey |-> credit.replayKey,
   recipient |-> credit.recipient, asset |-> credit.asset, amount |-> credit.amount,
   status |-> status, previousApplicationId |-> previous, rejectionReason |-> reason,
   applyCount |-> IF status = "applied" THEN 1 ELSE 0, productionReady |-> credit.productionReady]

\* A credit that the state already holds is rejected in place; its
\* productionReady flag stays as it was made.
replayedCredit(credit) ==
  [credit EXCEPT !.status = "rejected", !.rejectionReason = "already_applied_replay_key"]

applyFresh(acc, credit) ==
  LET application == makeRuntimeApplication(credit, "applied", <<>>, None)
  IN  [state |-> [applied |-> [k \in DOMAIN acc.state.applied \cup {credit.replayKey} |->
                                 IF k = credit.replayKey THEN application.applicationId
                                 ELSE acc.state.applied[k]],
                  applications |-> Append(acc.state.applications, application)],
       credits |-> Append(acc.credits, credit),
       applications |-> Append(acc.applications, application)]

refuse(acc, credit, status, previous) ==
  [acc EXCEPT !.credits = Append(@, credit),
              !.applications = Append(@, makeRuntimeApplication(credit, status, previous,
                                                                credit.rejectionReason))]


\* One credit of applyCreditsExactlyOnce: pending credits leave no application.
applyCredit(acc, credit) ==
  CASE credit.status = "pending"  -> [acc EXCEPT !.credits = Append(@, credit)]
    [] credit.status = "rejected" -> refuse(acc, credit, "rejected", <<>>)
    [] credit.status = "applied" /\ credit.replayKey \in DOMAIN acc.state.applied ->
         refuse(acc, replayedCredit(credit), "idempotent_replay",
                acc.state.applied[credit.replayKey])
    [] OTHER -> applyFresh(acc, credit)

applyCreditsExactlyOnce(credits, state) ==
  FoldLeft(applyCredit, [state |-> state, credits |-> <<>>, applications |-> <<>>], credits)

-----------------------------------------------------------------------------
(* Withdrawal intents and release evidence, records that are never broadcast.*)

\* The deposit of the first observation with the credit's deposit id.
depositFor(depositId, observations) ==
  observations[SelectInSeq(observations, LAMBDA x : x.deposit.depositId = depositId)].deposit

makeWithdrawalIntent(credit, d, baseRecipient) ==
  LET to == IF baseRecipient = None THEN d.sender ELSE baseRecipient
  IN  [withdrawalIntentId |-> <<credit.creditId, credit.depositId, d.sourceChainId, credit.asset,
                                credit.amount, credit.recipient, to>>,
       creditId |-> credit.creditId, depositId |-> credit.depositId,
       sourceChainId |-> d.sourceChainId, destinationChainId |-> d.sourceChainId,
       token |-> credit.token, asset |-> credit.asset, amount |-> credit.amount,
       account |-> credit.recipient, baseRecipient |-> to, status |-> "requested"]

makeReleaseEvidence(intent, d) ==
  LET evidenceHash == <<bridgeReplayKey(d), bridgeObservationId(d), intent.creditId,
                        intent.depositId, intent.withdrawalIntentId>>
  IN  [releaseEvidenceId |-> <<intent.withdrawalIntentId, evidenceHash>>,
       withdrawalIntentId |-> intent.withdrawalIntentId, creditId |-> intent.creditId,
       depositId |-> intent.depositId, sourceChainId |-> intent.sourceChainId,
       destinationChainId |-> intent.destinationChainId, lockbox |-> d.sourceContract,
       asset |-> intent.asset, token |-> intent.token, amount |-> intent.amount,
       recipient |-> intent.baseRecipient, evidenceHash |-> evidenceHash,
       productionReady |-> intent.sourceChainId = BaseMainnet
                             /\ intent.destinationChainId = BaseMainnet]

validateReleaseEvidenceMatchesWithdrawal(intent, evidence) ==
  /\ evidence.withdrawalIntentId = intent.withdrawalIntentId
  /\ evidence.creditId = intent.creditId /\ evidence.depositId = intent.depositId
  /\ evidence.sourceChainId = intent.sourceChainId
  /\ evidence.destinationChainId = intent.destinationChainId
  /\ evidence.token = intent.token /\ evidence.amount = intent.amount
  /\ evidence.recipient = intent.baseRecipient /\ evidence.asset = intent.asset

withdrawalIntents(credits, observations, o) ==
  LET applied == SelectSeq(credits, LAMBDA c : c.status = "applied")
  IN  IF o.withdrawal
      THEN [i \in DOMAIN applied |->
              makeWithdrawalIntent(applied[i], depositFor(applied[i].depositId, observations),
                                   o.baseRecipient)]
      ELSE <<>>

releaseEvidences(intents, observations) ==
  [i \in DOMAIN intents |->
     makeReleaseEvidence(intents[i], depositFor(intents[i].depositId, observations))]

-----------------------------------------------------------------------------
(* Pilot evidence and the handoff.                                           *)

NoApplication == [status |-> None]

replayDecision(credit, duplicates, application) ==
  CASE application.status = "idempotent_replay" -> "already_applied_idempotent"
    [] credit.status = "rejected" /\ credit.replayKey \in duplicates ->
         "duplicate_replay_key_rejected"
    [] OTHER -> "accepted_once"

\* The application at the credit's own position, else one of the same credit.
applicationFor(i, credit, applications) ==
  IF i \in DOMAIN applications THEN applications[i]
  ELSE LET j == SelectInSeq(applications, LAMBDA a : a.creditId = credit.creditId)
       IN  IF j = 0 THEN NoApplication ELSE applications[j]

makePilotEvidence(o, observation, credit, duplicates, application) ==
  LET applied == application # NoApplication
  IN  [observationId |-> observation.observationId, creditId |-> credit.creditId,
       depositId |-> observation.deposit.depositId, replayKey |-> observation.replayKey,
       application |-> application,
       status |-> IF applied THEN application.status ELSE credit.status,
       appliedExactlyOnce |-> applied /\ application.status = "applied"
                                /\ application.applyCount = 1,
       rejectionReason |-> IF applied /\ application.rejectionReason # None
                           THEN application.rejectionReason ELSE credit.rejectionReason,
       decision |-> replayDecision(credit, duplicates, application),
       operatorAcknowledged |-> o.ackPilot, productionReady |-> isLivePilotMode(o.mode)]

pilotEvidence(o, observations, credits, applications) ==
  IF isPilotMode(o.mode)
  THEN [i \in DOMAIN observations |->
          makePilotEvidence(o, observations[i], credits[i], duplicateReplayKeys(observations),
                            applicationFor(i, credits[i], applications))]
  ELSE <<>>

firstWhere(s, P(_)) == IF SelectInSeq(s, P) = 0 THEN <<>> ELSE <<s[SelectInSeq(s, P)]>>

\* The timeline shows the first deposit, the first credit that is not
\* rejected, the first applied one and the first withdrawal.
workbenchTimeline(observations, credits, intents) ==
  LET always(x) == TRUE
      deposits == firstWhere(observations, always)
      pending == firstWhere(credits, LAMBDA c : c.status # "rejected")
      applied == firstWhere(credits, LAMBDA c : c.status = "applied")
      requested == firstWhere(intents, always)
  IN  [i \in DOMAIN deposits |-> <<"deposit_observed", deposits[i].observationId>>]
        \o [i \in DOMAIN pending |-> <<"credit_pending", pending[i].creditId>>]
        \o [i \in DOMAIN applied |-> <<"credit_applied", applied[i].creditId>>]
        \o [i \in DOMAIN requested |-> <<"withdrawal_requested", requested[i].withdrawalIntentId>>]

workbenchRecords(observations, credits, intents) ==
  [i \in DOMAIN observations |->
     [section |-> "transactions", id |-> observations[i].observationId, status |-> "observed"]]
  \o [i \in DOMAIN credits |->
        [section |-> "receipts", id |-> credits[i].creditId,
         status |-> CASE credits[i].status = "applied" -> "verified"
                      [] credits[i].status = "pending" -> "pending"
                      [] OTHER -> "observed"]]
  \o [i \in DOMAIN intents |->
        [section |-> "transactions", id |-> intents[i].withdrawalIntentId, status |-> "pending"]]

makeRuntimeHandoff(o, observations, credits, intents, applications, evidence, releases) ==
  LET applied == SelectSeq(credits, LAMBDA c : c.status = "applied")
  IN  [mode |-> o.mode, observations |-> observations, credits |-> credits,
       withdrawalIntents |-> intents, runtimeApplications |-> applications,
       pilotEvidence |-> evidence, releaseEvidences |-> releases,
       replayKeys |-> {observations[i].replayKey : i \in DOMAIN observations},
       duplicateReplayKeys |-> duplicateReplayKeys(observations),
       timeline |-> workbenchTimeline(observations, credits, intents),
       records |-> workbenchRecords(observations, credits, intents),
       productionReady |->
         /\ isLivePilotMode(o.mode) /\ observations # <<>> /\ applied # <<>>
         /\ applied[1].productionReady
         /\ \A i \in DOMAIN applications :
              applications[i].status = "applied" => applications[i].productionReady]

\* runBridgePipeline after the guardrails: the handoff holds every artifact
\* the command writes.
bridgePipeline(o, observations, applied) ==
  LET intents == withdrawalIntents(applied.credits, observations, o)
      releases == releaseEvidences(intents, observations)
      evidence == pilotEvidence(o, observations, applied.credits, applied.applications)
  IN  makeRuntimeHandoff(o, observations, applied.credits, intents, applied.applications, evidence,
                         releases)

-----------------------------------------------------------------------------
(* The shapes of the records.                                                *)

isCliOptions(o) ==
  /\ o.mode \in Modes
  /\ {o.expectedChain} \subseteq SourceChains \cup {Unset}
  /\ {o.from, o.to, o.decimals, o.depth, o.maxUsd, o.maxDeposit, o.totalCap} \subseteq Int
  /\ {o.rpc, o.ackFunds, o.ackPilot, o.apply, o.withdrawal, o.state, o.cursor} \subseteq BOOLEAN
  /\ IsFiniteSet(o.approved) /\ IsFiniteSet(o.supported)

isAsset(a) == a[1] \in SourceChains /\ Len(a) = 3

isBridgeDeposit(d) ==
  /\ d.sourceChainId \in SourceChains /\ d.amount \in Nat /\ d.logIndex \in Nat
  /\ d.status \in {"observed", "accepted_local", "rejected", "released", "failed"}

isBridgeObservation(x) ==
  x.mode \in Modes /\ isBridgeDeposit(x.deposit) /\ isAsset(x.asset) /\ x.productionReady \in BOOLEAN

isBridgeCredit(c) ==
  /\ c.status \in {"pending", "applied", "rejected"} /\ isAsset(c.asset) /\ c.amount \in Nat
  /\ (c.rejectionReason # None) <=> (c.status = "rejected")

isWithdrawalIntent(w) ==
  /\ {w.sourceChainId, w.destinationChainId} \subseteq SourceChains
  /\ w.status \in {"requested", "cancelled", "released_test_record", "rejected"} /\ isAsset(w.asset)

isRuntimeApplication(a) ==
  /\ a.status \in {"applied", "idempotent_replay", "rejected"} /\ a.applyCount \in {0, 1}
  /\ (a.previousApplicationId # <<>>) <=> (a.status = "idempotent_replay")

isPilotEvidence(e) ==
  /\ e.status \in {"applied", "idempotent_replay", "rejected", "pending"}
  /\ e.decision \in {"accepted_once", "duplicate_replay_key_rejected",
                     "already_applied_idempotent"}
  /\ {e.appliedExactlyOnce, e.operatorAcknowledged, e.productionReady} \subseteq BOOLEAN

isReleaseEvidence(r) ==
  /\ {r.sourceChainId, r.destinationChainId} \subseteq SourceChains /\ isAsset(r.asset)
  /\ r.amount \in Nat /\ r.productionReady \in BOOLEAN

isRuntimeHandoff(h) ==
  LET all(s, is(_)) == \A i \in DOMAIN s : is(s[i])
  IN  /\ h.mode \in Modes /\ h.productionReady \in BOOLEAN
      /\ all(h.observations, isBridgeObservation) /\ all(h.credits, isBridgeCredit)
      /\ all(h.withdrawalIntents, isWithdrawalIntent)
      /\ all(h.runtimeApplications, isRuntimeApplication)
      /\ all(h.pilotEvidence, isPilotEvidence) /\ all(h.releaseEvidences, isReleaseEvidence)
      /\ h.duplicateReplayKeys \subseteq h.replayKeys
      /\ all(h.timeline, LAMBDA t : t[1] \in {"deposit_observed", "credit_pending",
                                              "credit_applied", "withdrawal_requested"})
      /\ all(h.records, LAMBDA r : r.status \in {"observed", "pending", "verified"})
=============================================================================
