-------------------------- MODULE AgentBondManager --------------------------
(***************************************************************************)
(* contracts/AgentBondManager.sol composed with the contracts it calls:    *)
(* the escrow, the stake registry, the policy registry, the underwriter    *)
(* pool with its registry, and the credit attestations.  A transaction is  *)
(* one step: it applies the operators of every contract it calls, and a    *)
(* call that reverts anywhere is a step that is not enabled.               *)
(*                                                                         *)
(* Left out: hashes, commitments and digests (a caller can always name the *)
(* public one), FlowPulse events, openedAt and acceptedAt (never read).    *)
(* disputeWindow, graceWindow and requiredConfirmations of a task are read *)
(* from its policy: the code copies them at openTask and policies are      *)
(* immutable.  recoursePool is set exactly when recourseCoverage is.       *)
(***************************************************************************)
EXTENDS TaskBondEscrow, AgentStakeRegistry, TaskPolicyRegistry,
        AgentUnderwriterPool, UnderwriterPoolRegistry,
        AgentCreditAttestationRegistry

CONSTANTS
  Zero,                        \* address(0) and the zero identifier
  Requesters, Agents, Verifiers, Challengers, Providers, Withdrawers,
                               \* who plays which role
  Payouts, Coverages,          \* amounts a requester may name; 0: no recourse
  AvailabilityUntil,           \* evidence availability times an agent may name
  SlashBps,                    \* verifierSlashBps of the resolution authority
  PilotCaps, RecourseCaps, AttestationRules,    \* arguments of the owner's setters
  MaxOwnerCalls,               \* bound of the model: transactions of owners and guardian
  MaxEscrow,                   \* bound of the model: tokens in the escrow
  InitialControl, InitialStake, InitialPolicies, InitialPool, InitialPoolRecord
                               \* the deployment the behaviours start from

ReportStatuses == {"Verified", "Failed", "Unsupported", "Reorged"}
Terminal == {"Settled", "Refunded", "Slashed"}
Working == {"Accepted", "Started"}
Statuses == {"Unknown", "Open", "EvidenceCommitted", "Challenged"}
              \cup Working \cup ReportStatuses \cup Terminal

MaxUint8 == 255

Quotes == [agentBond : Nat, verifierFee : Nat, requesterCancelBond : Nat, disputeBond : Nat]

TaskRecords ==
  [status : Statuses, requester : Accounts \cup {Zero}, agent : Accounts \cup {Zero},
   verifier : Accounts \cup {Zero}, challenger : Accounts \cup {Zero},
   policyId : PolicyIds \cup {Zero},
   payout : Nat, quote : Quotes, disputeBondLocked : Nat, recourseCoverage : Nat,
   submissionDeadline : Nat, evidenceCommittedAt : Nat,
   evidenceAvailabilityUntil : Nat, reportedAt : Nat, reportConfirmations : Nat,
   confirmedBy : SUBSET Accounts, preChallengeStatus : Statuses,
   challengeResolved : BOOLEAN, recourseClaimPaid : BOOLEAN]

Controls ==
  [paused : BOOLEAN, emergencyStopped : BOOLEAN, pilotMode : BOOLEAN,
   requesterAuthorization : SUBSET Accounts, agentAuthorization : SUBSET Accounts,
   verifierAuthorization : SUBSET Accounts,
   caps : [maxPayoutPerTask : Nat, maxOpenExposure : Nat, maxOpenTasks : Nat],
   recourseCaps : [perAgent : Nat, perRequester : Nat, perVerifier : Nat],
   attestation : [required : BOOLEAN, minimumScore : Nat, maximumRiskBand : Nat],
   poolRegistrySet : BOOLEAN, creditRegistrySet : BOOLEAN]

Ledgers ==
  [openExposure : Nat, openTaskCount : Nat, byRequester : [Accounts -> Nat],
   byAgent : [Accounts -> Nat], byVerifier : [Accounts -> Nat]]

ASSUME RolesAssumption ==
  /\ Zero \notin Accounts
  /\ Requesters \cup Agents \cup Verifiers \cup Challengers \cup Providers
       \cup Withdrawers \subseteq Accounts
  /\ Payouts \cup Coverages \cup AvailabilityUntil \cup SlashBps \subseteq Nat
  /\ Scopes = PolicyIds

ASSUME SettersAssumption ==
  /\ MaxOwnerCalls \in Nat
  /\ PilotCaps \subseteq [maxPayoutPerTask : Nat, maxOpenExposure : Nat, maxOpenTasks : Nat]
  /\ RecourseCaps \subseteq [perAgent : Nat, perRequester : Nat, perVerifier : Nat]
  /\ AttestationRules \subseteq
       [required : BOOLEAN, minimumScore : Nat, maximumRiskBand : Nat]

\* The deployment is well formed; nothing is bonded or covered in it yet, and
\* the pool, which may hold deposits, has paid no claim.
ASSUME DeploymentAssumption ==
  /\ InitialControl \in Controls /\ InitialPoolRecord \in PoolRecords
  /\ InitialPolicies \in [PolicyIds -> {"absent", "inactive", "active"}]
  /\ InitialStake \in StakeStorage /\ stakeSolvent(InitialStake)
  /\ \A a \in Accounts : InitialStake.openBondExposure[a] = 0
  /\ InitialPool \in PoolStorage /\ poolBacked(InitialPool)
  /\ validRiskControls(InitialPool.risk)
  /\ \A t \in Tasks : InitialPool.lockedByTask[t] = 0
  /\ \A e \in 0..MaxTime : InitialPool.lossPaidByEpoch[e] = 0

VARIABLES task,      \* _tasks and _reportConfirmedBy
          control,   \* what the owner and the pause guardian set
          ledger,    \* openExposure, openTaskCount, recourseCoverageBy...
          ownerCalls \* counts towards MaxOwnerCalls

settings == <<control, policyState, poolRecord, credit>>
bondVars == <<task, ledger, settings, escrow, stake, pool, now, ownerCalls>>

policyOf(k) == Policies[k.policyId]
requesterEscrow(k) == k.payout + k.quote.verifierFee + k.quote.requesterCancelBond
covered(k) == k.recourseCoverage # 0
capped(amount, cap) == cap = 0 \/ amount <= cap
reportDeadline(k) == k.reportedAt + policyOf(k).disputeWindow
submissionExpiry(k) == k.submissionDeadline + policyOf(k).graceWindow
lateEvidence(k) == k.evidenceCommittedAt > k.submissionDeadline

\* Deadlines a run could not see passing are not started.
withinHorizon(deadline) == deadline < MaxTime

-----------------------------------------------------------------------------
(* What the functions share *)

increaseFits(amount) ==
  amount = 0 \/ capped(ledger.openExposure + amount, control.caps.maxOpenExposure)

\* Mutant: the emergency stop only counts while the contract is paused too.
whenNotPausedOnly == ~control.paused

whenNotPausedOrStopped == ~control.paused /\ ~control.emergencyStopped

validOpenTask(r, v, payout) ==
  /\ whenNotPausedOrStopped
  /\ payout > 0
  /\ isVerifierEligible(stake, v)
  /\ control.pilotMode => /\ r \in control.requesterAuthorization
                          /\ v \in control.verifierAuthorization
  /\ capped(payout, control.caps.maxPayoutPerTask)
  /\ capped(ledger.openTaskCount + 1, control.caps.maxOpenTasks)

validRecourseConfiguration(coverage, riskTier) ==
  coverage # 0 =>
    /\ control.poolRegistrySet /\ isPoolApproved /\ poolRecord.recourse
    /\ canBackTask(pool, now, coverage, riskTier)

validRecourseAcceptance(k, a) ==
  covered(k) =>
    /\ control.attestation.required =>
         /\ control.creditRegistrySet
         /\ isAttestationValid(a, k.policyId, control.attestation.minimumScore,
                               control.attestation.maximumRiskBand)
    /\ capped(ledger.byRequester[k.requester] + k.recourseCoverage,
              control.recourseCaps.perRequester)
    /\ capped(ledger.byAgent[a] + k.recourseCoverage, control.recourseCaps.perAgent)
    /\ capped(ledger.byVerifier[k.verifier] + k.recourseCoverage,
              control.recourseCaps.perVerifier)

\* _releaseRecourse and _payRecourseClaim return early for these tasks.
recourseDue(k) == covered(k) /\ ~k.recourseClaimPaid

\* Mutant: the verifier's coverage is not given back.
closeTaskKeepingVerifier(l, k, escrowed) ==
  LET c == IF recourseDue(k) THEN k.recourseCoverage ELSE 0
  IN  [l EXCEPT !.openExposure = @ - escrowed, !.openTaskCount = @ - 1,
                !.byRequester[k.requester] = @ - c, !.byAgent[k.agent] = @ - c]

\* Mutant: the agent's bond stays in openExposure.
closeTaskKeepingBond(l, k, escrowed) ==
  LET c == IF recourseDue(k) THEN k.recourseCoverage ELSE 0
  IN  [l EXCEPT !.openExposure = @ - requesterEscrow(k), !.openTaskCount = @ - 1,
                !.byRequester[k.requester] = @ - c, !.byAgent[k.agent] = @ - c,
                !.byVerifier[k.verifier] = @ - c]

\* The bookkeeping of every function that closes a bonded task:
\* _decreaseOpenExposure, the task count and _decreaseRecourseExposure.
closeTask(l, k, escrowed) ==
  LET c == IF recourseDue(k) THEN k.recourseCoverage ELSE 0
  IN  [l EXCEPT !.openExposure = @ - escrowed, !.openTaskCount = @ - 1,
                !.byRequester[k.requester] = @ - c, !.byAgent[k.agent] = @ - c,
                !.byVerifier[k.verifier] = @ - c]

\* None of its checked subtractions reverts.
canCloseTask(l, k, escrowed) ==
  /\ escrowed <= l.openExposure /\ l.openTaskCount > 0
  /\ recourseDue(k) => /\ k.recourseCoverage <= l.byRequester[k.requester]
                       /\ k.recourseCoverage <= l.byAgent[k.agent]
                       /\ k.recourseCoverage <= l.byVerifier[k.verifier]

-----------------------------------------------------------------------------
(* Opening, cancelling and accepting *)

openTask(t, r, v, id, payout, coverage) ==
  LET q == quote(Policies[id], payout)
      k == [task[t] EXCEPT !.status = "Open", !.requester = r, !.verifier = v,
                           !.policyId = id, !.payout = payout, !.quote = q,
                           !.recourseCoverage = coverage]
      amount == requesterEscrow(k)
  IN  /\ task[t].status = "Unknown"
      /\ validOpenTask(r, v, payout)
      /\ policyState[id] = "active"
      /\ validRecourseConfiguration(coverage, Policies[id].riskTier)
      /\ increaseFits(amount)
      /\ canLockFrom(escrow, amount)
      /\ escrow.balance + amount <= MaxEscrow
      /\ task' = [task EXCEPT ![t] = k]
      /\ ledger' = [ledger EXCEPT !.openExposure = @ + amount, !.openTaskCount = @ + 1]
      /\ escrow' = lockFrom(escrow, t, amount)
      /\ UNCHANGED <<settings, stake, pool, now>>

\* Nothing cancelOpenTask does after its checks reverts.
cancelAccepted(t) ==
  /\ requesterEscrow(task[t]) <= ledger.openExposure /\ ledger.openTaskCount > 0
  /\ canDecreaseLocked(escrow, t, requesterEscrow(task[t]))

cancelOpenTask(t) ==
  LET k == task[t]
  IN  /\ k.status = "Open"
      /\ cancelAccepted(t)
      /\ task' = [task EXCEPT ![t].status = "Refunded"]
      /\ ledger' = [ledger EXCEPT !.openExposure = @ - requesterEscrow(k),
                                  !.openTaskCount = @ - 1]
      /\ escrow' = releaseTo(escrow, t, k.requester, requesterEscrow(k))
      /\ UNCHANGED <<settings, stake, pool, now>>

acceptTask(t, a) ==
  LET k == task[t]
      bond == k.quote.agentBond
      deadline == now + policyOf(k).submissionWindow
  IN  /\ whenNotPausedOrStopped
      /\ k.status = "Open"
      /\ canOpenAgentBond(stake, a, bond)
      /\ control.pilotMode => a \in control.agentAuthorization
      /\ increaseFits(bond)
      /\ validRecourseAcceptance(k, a)
      /\ canLockFrom(escrow, bond)
      /\ escrow.balance + bond <= MaxEscrow
      /\ canRecordOpenBond(stake, bond)
      /\ covered(k) => canLockCoverage(pool, t, k.recourseCoverage, now)
      /\ withinHorizon(deadline + policyOf(k).graceWindow)
      /\ task' = [task EXCEPT ![t].status = "Accepted", ![t].agent = a,
                              ![t].submissionDeadline = deadline]
      /\ ledger' = [ledger EXCEPT !.openExposure = @ + bond,
                                  !.byRequester[k.requester] = @ + k.recourseCoverage,
                                  !.byAgent[a] = @ + k.recourseCoverage,
                                  !.byVerifier[k.verifier] = @ + k.recourseCoverage]
      /\ escrow' = lockFrom(escrow, t, bond)
      /\ stake' = recordOpenBond(stake, a, bond)
      /\ pool' = IF covered(k) THEN lockCoverage(pool, t, k.recourseCoverage) ELSE pool
      /\ UNCHANGED <<settings, now>>

-----------------------------------------------------------------------------
(* Work, evidence, reports and challenges *)

startTask(t) ==
  /\ ~control.emergencyStopped
  /\ task[t].status = "Accepted"
  /\ task' = [task EXCEPT ![t].status = "Started"]
  /\ UNCHANGED <<ledger, settings, escrow, stake, pool, now>>

commitEvidence(t, availabilityUntil) ==
  LET k == task[t]
  IN  /\ ~control.emergencyStopped
      /\ k.status \in Working
      /\ now <= submissionExpiry(k)
      /\ availabilityUntil >= now + policyOf(k).minAvailabilityWindow
      /\ task' = [task EXCEPT ![t].status = "EvidenceCommitted",
                              ![t].evidenceAvailabilityUntil = availabilityUntil,
                              ![t].evidenceCommittedAt = now]
      /\ UNCHANGED <<ledger, settings, escrow, stake, pool, now>>

mayVerify(v) ==
  /\ control.pilotMode => v \in control.verifierAuthorization
  /\ isVerifierEligible(stake, v)

\* Mutant: the retention of the evidence is not compared with the window.
evidenceOutlivesAnyWindow(k) == k.evidenceAvailabilityUntil >= now

evidenceOutlivesWindow(k) ==
  k.evidenceAvailabilityUntil >= now + policyOf(k).disputeWindow

submitVerifierReport(t, status) ==
  LET k == task[t]
  IN  /\ k.status = "EvidenceCommitted"
      /\ mayVerify(k.verifier)
      /\ evidenceOutlivesWindow(k)
      /\ withinHorizon(now + policyOf(k).disputeWindow)
      /\ task' = [task EXCEPT ![t].status = status, ![t].reportedAt = now,
                              ![t].reportConfirmations = 0,
                              ![t].challengeResolved = FALSE,
                              ![t].confirmedBy = @ \cup {k.verifier}]
      /\ UNCHANGED <<ledger, settings, escrow, stake, pool, now>>

\* Mutant: a verifier may confirm again.
mayConfirmAgain(k, v) == mayVerify(v) /\ v # k.verifier

mayConfirm(k, v) == mayVerify(v) /\ v \notin k.confirmedBy

confirmVerifierReport(t, v) ==
  LET k == task[t]
  IN  /\ k.status \in ReportStatuses
      /\ mayConfirm(k, v)
      /\ now <= reportDeadline(k)
      /\ k.reportConfirmations < MaxUint8
      /\ task' = [task EXCEPT ![t].confirmedBy = @ \cup {v},
                              ![t].reportConfirmations = @ + 1]
      /\ UNCHANGED <<ledger, settings, escrow, stake, pool, now>>

challengeTask(t, challenger) ==
  LET k == task[t]
      bond == k.quote.disputeBond
  IN  /\ k.status \in ReportStatuses
      /\ now <= reportDeadline(k)
      /\ increaseFits(bond)
      /\ canLockFrom(escrow, bond)
      /\ escrow.balance + bond <= MaxEscrow
      /\ task' = [task EXCEPT ![t].status = "Challenged", ![t].challenger = challenger,
                              ![t].disputeBondLocked = bond,
                              ![t].preChallengeStatus = k.status]
      /\ ledger' = [ledger EXCEPT !.openExposure = @ + bond]
      /\ escrow' = lockFrom(escrow, t, bond)
      /\ UNCHANGED <<settings, stake, pool, now>>

\* Mutant: the dispute bond is paid out but still counted as locked.
resolvedKeepingBond(k, status) ==
  [k EXCEPT !.challengeResolved = TRUE, !.status = status,
            !.reportConfirmations = policyOf(k).requiredConfirmations]

resolved(k, status) ==
  [k EXCEPT !.challengeResolved = TRUE, !.status = status,
            !.reportConfirmations = policyOf(k).requiredConfirmations,
            !.disputeBondLocked = 0]

resolveChallenge(t, status, slashBps) ==
  LET k == task[t]
      won == status # k.preChallengeStatus
      slash == IF won THEN (stake.stakeOf[k.verifier] * slashBps) \div 10000 ELSE 0
  IN  /\ k.status = "Challenged"
      /\ slashBps <= 10000
      /\ k.disputeBondLocked <= ledger.openExposure
      /\ canDecreaseLocked(escrow, t, k.disputeBondLocked)
      /\ slash > 0 => canSlashStake(stake, k.verifier, slash)
      /\ task' = [task EXCEPT ![t] = resolved(k, status)]
      /\ ledger' = [ledger EXCEPT !.openExposure = @ - k.disputeBondLocked]
      /\ escrow' = releaseTo(escrow, t, IF won THEN k.challenger ELSE k.agent,
                             k.disputeBondLocked)
      /\ stake' = IF slash > 0 THEN slashStake(stake, k.verifier, slash) ELSE stake
      /\ UNCHANGED <<settings, pool, now>>

-----------------------------------------------------------------------------
(* Settlement.  settleTask and slashExpiredNoSubmission check the task first *)
(* and then make a chain of calls, any of which could revert.                *)

LATE_SLASH_BPS == 1000
VERIFIER_SLASH_BPS == 1000
RESERVE_SLASH_BPS == 500

bps(amount, share) == (amount * share) \div 10000

escrowedFor(k) == requesterEscrow(k) + k.quote.agentBond

\* The checks of settleTask for a task in a status it settles.
settleable(k) ==
  k.status \in {"Verified", "Failed"} /\ ~k.challengeResolved =>
    /\ now > reportDeadline(k)
    /\ k.reportConfirmations >= policyOf(k).requiredConfirmations

\* Mutant: a started task does not expire.
expiredBeforeStart(k) == k.status = "Accepted" /\ now > submissionExpiry(k)

expired(k) == k.status \in Working /\ now > submissionExpiry(k)

\* The calls every closing function makes do not revert ...
closingAccepted(t) ==
  LET k == task[t]
  IN  /\ canCloseTask(ledger, k, escrowedFor(k))
      /\ canRecordClosedBond(stake, k.agent, k.quote.agentBond)
      /\ canDecreaseLocked(escrow, t, escrowedFor(k))

\* ... and neither do the transfers of each one.  releaseTo rejects zero.
verifiedAccepted(t) ==
  /\ closingAccepted(t)
  /\ task[t].quote.requesterCancelBond > 0 /\ task[t].quote.verifierFee > 0
  /\ recourseDue(task[t]) => canReleaseForTask(pool, t)

failedAccepted(t) ==
  /\ closingAccepted(t)
  /\ task[t].quote.verifierFee > 0
  /\ recourseDue(task[t]) => canPayClaim(pool, t, task[t].recourseCoverage, now)

refundAccepted(t) ==
  /\ closingAccepted(t)
  /\ task[t].quote.verifierFee > 0
  /\ recourseDue(task[t]) => canReleaseForTask(pool, t)

expiryAccepted(t) ==
  /\ closingAccepted(t)
  /\ recourseDue(task[t]) => canPayClaim(pool, t, task[t].recourseCoverage, now)

closeWith(t, status, claim) ==
  LET k == task[t]
  IN  /\ task' = [task EXCEPT ![t].status = status,
                              ![t].recourseClaimPaid = @ \/ (claim /\ recourseDue(k))]
      /\ ledger' = closeTask(ledger, k, escrowedFor(k))
      /\ stake' = recordClosedBond(stake, k.agent, k.quote.agentBond)
      /\ pool' = IF ~recourseDue(k) THEN pool
                 ELSE IF claim THEN payClaim(pool, t, k.recourseCoverage, now)
                 ELSE releaseForTask(pool, t)
      /\ UNCHANGED <<settings, now>>

\* Mutant: a late slash is not taken from what the agent gets back.
payVerifiedInFull(e, t, k) ==
  LET bond == k.quote.agentBond
      lateSlash == IF lateEvidence(k) THEN bps(bond, LATE_SLASH_BPS) ELSE 0
      toRequester == releaseTo(e, t, k.requester, lateSlash + k.quote.requesterCancelBond)
      toAgent == releaseTo(toRequester, t, k.agent, k.payout + bond)
  IN  releaseTo(toAgent, t, k.verifier, k.quote.verifierFee)

\* The transfers of _settleVerified.
payVerified(e, t, k) ==
  LET bond == k.quote.agentBond
      lateSlash == IF lateEvidence(k) THEN bps(bond, LATE_SLASH_BPS) ELSE 0
      reserve == IF lateEvidence(k)
                 THEN (bond * LATE_SLASH_BPS * RESERVE_SLASH_BPS) \div 100000000 ELSE 0
      toRequester == releaseTo(e, t, k.requester,
                               lateSlash - reserve + k.quote.requesterCancelBond)
      toReserve == moveToReserve(toRequester, t, reserve)
      toAgent == releaseTo(toReserve, t, k.agent, k.payout + bond - lateSlash)
  IN  releaseTo(toAgent, t, k.verifier, k.quote.verifierFee)

\* _releaseSlash: the requester's 85% and the rounding remainder together are
\* what the other two shares leave.
releaseSlash(e, t, k, verifierShare) ==
  LET bond == k.quote.agentBond
      middle == IF verifierShare THEN bps(bond, VERIFIER_SLASH_BPS) ELSE 0
      reserve == bps(bond, RESERVE_SLASH_BPS)
      toRequester == releaseTo(e, t, k.requester, bond - middle - reserve)
      toVerifier == releaseTo(toRequester, t, k.verifier, middle)
  IN  moveToReserve(toVerifier, t, reserve)

challengerTakesFee(k, settledStatus) ==
  k.challengeResolved /\ k.challenger # Zero /\ k.preChallengeStatus # settledStatus

\* The transfers of _settleFailed.
payFailed(e, t, k) ==
  LET feeRecipient == IF challengerTakesFee(k, "Failed") THEN k.challenger ELSE k.verifier
      toRequester == releaseTo(e, t, k.requester, k.payout + k.quote.requesterCancelBond)
  IN  releaseSlash(releaseTo(toRequester, t, feeRecipient, k.quote.verifierFee), t, k, TRUE)

\* The transfers of _settleRefund.  task.status is already Refunded when the
\* code compares it with preChallengeStatus.
payRefund(e, t, k) ==
  LET feeRecipient == IF challengerTakesFee(k, "Refunded") THEN k.challenger ELSE k.verifier
      toRequester == releaseTo(e, t, k.requester, k.payout + k.quote.requesterCancelBond)
      toAgent == releaseTo(toRequester, t, k.agent, k.quote.agentBond)
  IN  releaseTo(toAgent, t, feeRecipient, k.quote.verifierFee)

settleVerified(t) ==
  /\ task[t].status = "Verified" /\ settleable(task[t])
  /\ verifiedAccepted(t)
  /\ closeWith(t, "Settled", FALSE)
  /\ escrow' = payVerified(escrow, t, task[t])

settleFailed(t) ==
  /\ task[t].status = "Failed" /\ settleable(task[t])
  /\ failedAccepted(t)
  /\ closeWith(t, "Slashed", TRUE)
  /\ escrow' = payFailed(escrow, t, task[t])

settleRefund(t) ==
  /\ task[t].status \in {"Unsupported", "Reorged"} /\ settleable(task[t])
  /\ refundAccepted(t)
  /\ closeWith(t, "Refunded", FALSE)
  /\ escrow' = payRefund(escrow, t, task[t])

settleTask(t) == settleVerified(t) \/ settleFailed(t) \/ settleRefund(t)

slashExpiredNoSubmission(t) ==
  /\ expired(task[t])
  /\ expiryAccepted(t)
  /\ closeWith(t, "Slashed", TRUE)
  /\ escrow' = releaseSlash(releaseTo(escrow, t, task[t].requester, requesterEscrow(task[t])),
                            t, task[t], FALSE)

-----------------------------------------------------------------------------
(* The owner and the pause guardian *)

setPaused(value) == control' = [control EXCEPT !.paused = value]

\* The guardian may stop, only the owner may resume; stopping also pauses.
setEmergencyStopped(value) ==
  control' = [control EXCEPT !.emergencyStopped = value, !.paused = value \/ @]

setPilotMode(enabled) == control' = [control EXCEPT !.pilotMode = enabled]

setPilotCaps(caps) == control' = [control EXCEPT !.caps = caps]

granted(accounts, a, authorized) ==
  IF authorized THEN accounts \cup {a} ELSE accounts \ {a}

setRequesterAuthorization(a, authorized) ==
  control' = [control EXCEPT !.requesterAuthorization = granted(@, a, authorized)]

setAgentAuthorization(a, authorized) ==
  control' = [control EXCEPT !.agentAuthorization = granted(@, a, authorized)]

setVerifierAuthorization(a, authorized) ==
  control' = [control EXCEPT !.verifierAuthorization = granted(@, a, authorized)]

\* The registry of the model, or none.
setUnderwriterPoolRegistry(present) ==
  control' = [control EXCEPT !.poolRegistrySet = present]

setCreditAttestationRegistry(present) ==
  control' = [control EXCEPT !.creditRegistrySet = present]

setRecourseExposureCaps(caps) == control' = [control EXCEPT !.recourseCaps = caps]

setRecourseAttestationRequirements(rule) ==
  control' = [control EXCEPT !.attestation = rule]

ControlNext ==
  /\ \/ \E v \in BOOLEAN : \/ setPaused(v) \/ setEmergencyStopped(v) \/ setPilotMode(v)
                           \/ setUnderwriterPoolRegistry(v)
                           \/ setCreditAttestationRegistry(v)
                           \/ \E a \in Requesters : setRequesterAuthorization(a, v)
                           \/ \E a \in Agents : setAgentAuthorization(a, v)
                           \/ \E a \in Verifiers : setVerifierAuthorization(a, v)
     \/ \E caps \in PilotCaps : setPilotCaps(caps)
     \/ \E caps \in RecourseCaps : setRecourseExposureCaps(caps)
     \/ \E rule \in AttestationRules : setRecourseAttestationRequirements(rule)
  /\ UNCHANGED <<task, ledger, policyState, poolRecord, credit, escrow, stake, pool, now>>

RegistryNext ==
  /\ \/ /\ \E id \in PolicyIds, status \in {"active", "inactive"} :
             createPolicy(id, status) \/ setPolicyActive(id, status)
        /\ UNCHANGED <<poolRecord, credit>>
     \/ /\ \E v \in BOOLEAN : registerPool(v) \/ setPoolStatus(v)
        /\ UNCHANGED <<policyState, credit>>
     \/ /\ \E attester \in Attesters, v \in BOOLEAN : setAuthorizedAttester(attester, v)
        /\ UNCHANGED <<policyState, poolRecord>>
  /\ UNCHANGED <<task, control, ledger, escrow, stake, pool, now>>

EscrowOwnerNext ==
  /\ \E v \in BOOLEAN : EscrowSetManager(v)
  /\ UNCHANGED <<task, ledger, settings, stake, pool, now>>

StakeOwnerNext ==
  /\ (\E params \in StakeParameters : StakeSetParameters(params))
       \/ (\E v \in BOOLEAN : StakeSetSlashAuthority(v))
  /\ UNCHANGED <<task, ledger, settings, escrow, pool, now>>

PoolOwnerNext ==
  /\ \/ \E v \in BOOLEAN : setAllocator(v)
     \/ \E caps \in CoverageCaps : setPoolParameters(caps)
     \/ \E risk \in RiskControls : setPoolRiskControls(risk)
  /\ UNCHANGED <<task, ledger, settings, escrow, stake>>

OwnerNext ==
  ControlNext \/ RegistryNext \/ EscrowOwnerNext \/ StakeOwnerNext \/ PoolOwnerNext

ByParty(A) == A /\ UNCHANGED ownerCalls
ByOwner(A) == A /\ ownerCalls < MaxOwnerCalls /\ ownerCalls' = ownerCalls + 1

-----------------------------------------------------------------------------
(* The parties also call the other contracts; the reserve pays its owner *)

EscrowNext ==
  /\ \/ \E a \in Withdrawers : EscrowWithdraw(a)
     \/ \E amount \in 1..escrow.reserveBalance : EscrowWithdrawReserve(amount)
  /\ UNCHANGED <<task, ledger, settings, stake, pool, now>>

StakeNext ==
  /\ \E a \in Accounts, amount \in StakeAmounts :
       StakeDeposit(a, amount) \/ StakeWithdraw(a, amount)
  /\ UNCHANGED <<task, ledger, settings, escrow, pool, now>>

\* The manager is the pool's allocator.
PoolOutsideNext ==
  /\ \E a \in Providers :
       \/ \E amount \in PoolAmounts : PoolDeposit(a, amount)
       \/ \E shares \in PoolShares : PoolWithdraw(a, shares)
       \/ PoolRequestWithdrawal(a)
  /\ UNCHANGED <<task, ledger, settings, escrow, stake>>

AttesterNext ==
  /\ \E attester \in Attesters, a \in Agents, id \in Scopes, rating \in CreditRatings :
       publishAttestation(attester, a, id, rating)
  /\ UNCHANGED <<task, control, ledger, policyState, poolRecord, escrow, stake, pool, now>>

TaskNext(t) ==
  \/ \E r \in Requesters, v \in Verifiers, id \in PolicyIds, payout \in Payouts,
        coverage \in Coverages : openTask(t, r, v, id, payout, coverage)
  \/ cancelOpenTask(t)
  \/ \E a \in Agents : acceptTask(t, a)
  \/ startTask(t)
  \/ \E until \in AvailabilityUntil : commitEvidence(t, until)
  \/ \E status \in ReportStatuses : submitVerifierReport(t, status)
  \/ \E v \in Verifiers : confirmVerifierReport(t, v)
  \/ \E a \in Challengers : challengeTask(t, a)
  \/ \E status \in ReportStatuses, share \in SlashBps : resolveChallenge(t, status, share)
  \/ settleTask(t)
  \/ slashExpiredNoSubmission(t)

BondTick == Tick /\ UNCHANGED <<task, ledger, settings, escrow, stake, pool>>

PartyNext ==
  \/ \E t \in Tasks : TaskNext(t)
  \/ BondTick \/ EscrowNext \/ StakeNext \/ PoolOutsideNext \/ AttesterNext

BondNext == ByParty(PartyNext) \/ ByOwner(OwnerNext)

\* Nothing was opened yet in the deployment a behaviour starts from.
BondInit ==
  /\ now = 0 /\ ownerCalls = 0
  /\ task = [t \in Tasks |->
       [status |-> "Unknown", requester |-> Zero, agent |-> Zero, verifier |-> Zero,
        challenger |-> Zero, policyId |-> Zero, payout |-> 0,
        quote |-> [agentBond |-> 0, verifierFee |-> 0, requesterCancelBond |-> 0,
                   disputeBond |-> 0],
        disputeBondLocked |-> 0, recourseCoverage |-> 0, submissionDeadline |-> 0,
        evidenceCommittedAt |-> 0, evidenceAvailabilityUntil |-> 0, reportedAt |-> 0,
        reportConfirmations |-> 0, confirmedBy |-> {}, preChallengeStatus |-> "Unknown",
        challengeResolved |-> FALSE, recourseClaimPaid |-> FALSE]]
  /\ ledger = [openExposure |-> 0, openTaskCount |-> 0,
               byRequester |-> [a \in Accounts |-> 0],
               byAgent |-> [a \in Accounts |-> 0], byVerifier |-> [a \in Accounts |-> 0]]
  /\ control = InitialControl
  /\ policyState = InitialPolicies
  /\ poolRecord = InitialPoolRecord
  /\ CreditInit
  /\ EscrowInit
  /\ stake = InitialStake
  /\ pool = InitialPool

BondSpec == BondInit /\ [][BondNext]_bondVars

-----------------------------------------------------------------------------
(* Properties *)

\* Every contract's storage keeps its types: in particular no exposure, lock,
\* count or balance goes below zero in a settlement.
BondTypeOK ==
  /\ now \in 0..MaxTime /\ ownerCalls \in 0..MaxOwnerCalls
  /\ task \in [Tasks -> TaskRecords]
  /\ control \in Controls
  /\ ledger \in Ledgers
  /\ escrow \in EscrowStorage
  /\ stake \in StakeStorage
  /\ pool \in PoolStorage
  /\ PolicyTypeOK /\ PoolRegistryTypeOK /\ CreditTypeOK

live(k) == k.status \notin Terminal \cup {"Unknown"}
bonded(k) == live(k) /\ k.status # "Open"

lockedFor(k) ==
  IF bonded(k) THEN escrowedFor(k) + k.disputeBondLocked
  ELSE IF live(k) THEN requesterEscrow(k) ELSE 0

\* Whatever the order of openings, challenges, settlements and withdrawals,
\* each token in the escrow is locked for a task, owed to an account or in the
\* reserve, so withdraw() can always be paid.
EscrowSolvent == escrowSolvent(escrow)

\* The escrow holds for each task exactly what its status calls for: the
\* requester's deposit while open, the bond and any dispute bond after that,
\* and nothing once it is settled, refunded or slashed.
LockedMatchesTask == \A t \in Tasks : escrow.lockedByTask[t] = lockedFor(task[t])

\* openExposure and openTaskCount, which the pilot caps limit, are the tokens
\* locked for all tasks and the number of tasks that are not closed.
ExposureMatchesEscrow ==
  /\ ledger.openExposure = Total(escrow.lockedByTask)
  /\ ledger.openTaskCount = Cardinality({t \in Tasks : live(task[t])})

bondOf(k, a) == IF bonded(k) /\ k.agent = a THEN k.quote.agentBond ELSE 0

\* The stake registry's openBondExposure of an agent is the sum of the bonds of
\* its tasks that are not closed, and the registry can pay out all stake.
BondsMatchStake ==
  /\ stakeSolvent(stake)
  /\ \A a \in Accounts :
       stake.openBondExposure[a] = Total([t \in Tasks |-> bondOf(task[t], a)])

coverageOf(k) == IF bonded(k) THEN k.recourseCoverage ELSE 0

\* The pool has locked for each task exactly the coverage it was opened with,
\* from acceptance until it is closed, and the manager's three exposure
\* mappings are the sums of that coverage by requester, agent and verifier.
RecourseMatchesPool ==
  /\ \A t \in Tasks : pool.lockedByTask[t] = coverageOf(task[t])
  /\ \A a \in Accounts :
       /\ ledger.byRequester[a] =
            Total([t \in Tasks |-> IF task[t].requester = a THEN coverageOf(task[t]) ELSE 0])
       /\ ledger.byAgent[a] =
            Total([t \in Tasks |-> IF task[t].agent = a THEN coverageOf(task[t]) ELSE 0])
       /\ ledger.byVerifier[a] =
            Total([t \in Tasks |-> IF task[t].verifier = a THEN coverageOf(task[t]) ELSE 0])

wired ==
  /\ escrow.managed /\ stake.authority /\ pool.allocator
  /\ pool.risk = InitialPool.risk

\* As long as the manager keeps its roles in the other contracts, and the pool
\* its risk controls, a task that passes the checks of cancelOpenTask,
\* settleTask or slashExpiredNoSubmission is closed: none of the calls those
\* functions make reverts and strands it.
SettlementAccepted ==
  wired => \A t \in Tasks :
    /\ task[t].status = "Open" => cancelAccepted(t)
    /\ task[t].status = "Verified" /\ settleable(task[t]) => verifiedAccepted(t)
    /\ task[t].status = "Failed" /\ settleable(task[t]) => failedAccepted(t)
    /\ task[t].status \in {"Unsupported", "Reorged"} => refundAccepted(t)
    /\ expired(task[t]) => expiryAccepted(t)

\* Evidence stays available for the whole window in which the report on it can
\* be challenged or confirmed, however late the report came.
EvidenceOutlivesChallenge ==
  \A t \in Tasks : task[t].status \in ReportStatuses =>
    task[t].evidenceAvailabilityUntil >= reportDeadline(task[t])

\* Confirmations that count towards settlement come from different verifiers
\* and never from the one who reported.
ConfirmationsIndependent ==
  \A t \in Tasks : ~task[t].challengeResolved =>
    task[t].reportConfirmations = Cardinality(task[t].confirmedBy \ {task[t].verifier})

\* An agent with open bonds keeps the minimum stake, except for what was
\* slashed from it as a verifier.
StakeBehindBonds ==
  \A a \in Accounts : stake.openBondExposure[a] > 0 =>
    stake.stakeOf[a] + stake.slashedStake[a] >= stake.params.minAgentStake

phaseOf(k) ==
  CASE k.status = "Unknown" -> "none"
    [] k.status = "Open" -> "open"
    [] k.status = "Challenged" -> "disputed"
    [] k.status \in Terminal -> "closed"
    [] OTHER -> "bonded"

Custodian == INSTANCE TaskCustody
  WITH phase <- [t \in Tasks |-> phaseOf(task[t])],
       held <- escrow.lockedByTask,
       disputed <- [t \in Tasks |-> task[t].disputeBondLocked],
       owed <- escrow.withdrawable,
       reserve <- escrow.reserveBalance

\* The contracts implement the custody specification: every transaction is one
\* of its steps or does not concern the tokens of tasks.
ImplementsCustody == Custodian!CustodySpec

\* Once the emergency stop is set, no transaction opens a task, bonds an agent
\* or locks coverage, even if the owner unpauses; only dispute bonds on reports
\* that were already made still add exposure.
StopHaltsExposure ==
  [][control.emergencyStopped =>
       /\ \A t \in Tasks : bonded(task'[t]) => bonded(task[t])
       /\ pool'.totalLocked <= pool.totalLocked
       /\ ledger'.openTaskCount <= ledger.openTaskCount]_bondVars

-----------------------------------------------------------------------------
(* What a document of the repository says, and the code does otherwise *)

credited(a, amount) == escrow'.withdrawable[a] >= escrow.withdrawable[a] + amount

\* "Unsupported or reorged task: ... verifier receives the verifier fee if it
\* submitted the report": also when a challenge of that report was rejected.
RefundPaysVerifier ==
  [][\A t \in Tasks :
       /\ task[t].status \in {"Unsupported", "Reorged"}
       /\ task'[t].status = "Refunded"
       /\ task[t].preChallengeStatus \in {"Unknown", task[t].status}
       => credited(task[t].verifier, task[t].quote.verifierFee)]_bondVars

-----------------------------------------------------------------------------
(* Liveness.  Time passes; anyone may settle a task or slash an expired one; *)
(* the resolution authority resolves the challenges put before it.           *)

BondFairness ==
  /\ WF_bondVars(ByParty(BondTick))
  /\ \A t \in Tasks :
       /\ WF_bondVars(ByParty(settleTask(t)))
       /\ WF_bondVars(ByParty(slashExpiredNoSubmission(t)))
       /\ WF_bondVars(ByParty(\E status \in ReportStatuses, share \in SlashBps :
                                 resolveChallenge(t, status, share)))

BondFairSpec == BondSpec /\ BondFairness

decided(k) ==
  \/ k.status \in {"Challenged", "Unsupported", "Reorged"}
  \/ /\ k.status \in {"Verified", "Failed"}
     /\ k.challengeResolved \/ k.reportConfirmations >= policyOf(k).requiredConfirmations

\* An accepted task does not stay with an agent that stops working: evidence is
\* committed, or the task is slashed once the grace window has passed.  A reported
\* task with its confirmations, and a challenged one, is closed in the end, however
\* often the report is challenged again in its window.
TasksMoveOn ==
  \A t \in Tasks :
    /\ task[t].status \in Working ~> task[t].status \in {"EvidenceCommitted"} \cup Terminal
    /\ decided(task[t]) ~> task[t].status \in Terminal

=============================================================================
