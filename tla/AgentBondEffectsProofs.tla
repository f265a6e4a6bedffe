----------------------- MODULE AgentBondEffectsProofs -----------------------
(***************************************************************************)
(* What each transaction of the bond manager does to the record of its     *)
(* task, for any number of tasks, accounts, policies and amounts.          *)
(***************************************************************************)
EXTENDS AgentBondManagerProofs

-----------------------------------------------------------------------------
(* The record of the task, before and after each transaction *)

\* q has the coverage of k, and a claim on it was paid for both or for neither.
sameRecourse(k, q) ==
  q.recourseCoverage = k.recourseCoverage /\ q.recourseClaimPaid = k.recourseClaimPaid

\* q says of evidence, report and confirmations what k does.
sameReport(k, q) ==
  /\ q.evidenceAvailabilityUntil = k.evidenceAvailabilityUntil
  /\ q.reportedAt = k.reportedAt /\ q.reportConfirmations = k.reportConfirmations
  /\ q.confirmedBy = k.confirmedBy /\ q.challengeResolved = k.challengeResolved

othersKept(t) == \A u \in Tasks \ {t} : task'[u] = task[u]

\* The record of t after a step that replaces it.
LEMMA RecordReplaced ==
  ASSUME task \in [Tasks -> TaskRecords], NEW t \in Tasks, NEW q,
         task' = [task EXCEPT ![t] = q]
  PROVE  task'[t] = q /\ othersKept(t)
BY DEF othersKept

\* openTask
LEMMA OpenTaskEffect ==
  ASSUME task \in [Tasks -> TaskRecords], NEW t \in Tasks, NEW r, NEW v, NEW id,
         NEW payout, NEW coverage, openTask(t, r, v, id, payout, coverage)
  PROVE  /\ othersKept(t) /\ task[t].status = "Unknown" /\ task'[t].status = "Open"
         /\ task'[t].requester = r /\ task'[t].verifier = v /\ task'[t].policyId = id
         /\ task'[t].payout = payout /\ task'[t].quote = quote(Policies[id], payout)
         /\ task'[t].recourseCoverage = coverage /\ task'[t].agent = task[t].agent
         /\ task'[t].recourseClaimPaid = task[t].recourseClaimPaid
         /\ task'[t].disputeBondLocked = task[t].disputeBondLocked
         /\ sameReport(task[t], task'[t])
<1> DEFINE k == task[t]
           q == [k EXCEPT !.status = "Open", !.requester = r, !.verifier = v,
                          !.policyId = id, !.payout = payout,
                          !.quote = quote(Policies[id], payout),
                          !.recourseCoverage = coverage]
<1>1. k \in TaskRecords /\ k.status = "Unknown" /\ task' = [task EXCEPT ![t] = q]
  BY DEF openTask
<1>2. /\ q.status = "Open" /\ q.requester = r /\ q.verifier = v /\ q.policyId = id
      /\ q.payout = payout /\ q.quote = quote(Policies[id], payout)
      /\ q.recourseCoverage = coverage /\ q.agent = k.agent
      /\ q.recourseClaimPaid = k.recourseClaimPaid
      /\ q.disputeBondLocked = k.disputeBondLocked /\ sameReport(k, q)
  BY <1>1, Zenon DEF TaskRecords, sameReport
<1> HIDE DEF q
<1>. QED  BY <1>1, <1>2, RecordReplaced, Zenon

\* cancelOpenTask
LEMMA CancelOpenTaskEffect ==
  ASSUME task \in [Tasks -> TaskRecords], NEW t \in Tasks, cancelOpenTask(t)
  PROVE  /\ othersKept(t) /\ task[t].status = "Open" /\ task'[t].status = "Refunded"
         /\ task'[t].disputeBondLocked = task[t].disputeBondLocked
         /\ sameStakes(task[t], task'[t]) /\ sameRecourse(task[t], task'[t])
         /\ sameReport(task[t], task'[t])
<1> DEFINE k == task[t]
           q == [k EXCEPT !.status = "Refunded"]
<1>1. k \in TaskRecords /\ k.status = "Open" /\ task' = [task EXCEPT ![t] = q]
  BY DEF cancelOpenTask
<1>2. /\ q.status = "Refunded" /\ q.disputeBondLocked = k.disputeBondLocked
      /\ sameStakes(k, q) /\ sameRecourse(k, q) /\ sameReport(k, q)
  BY <1>1, Zenon DEF TaskRecords, sameStakes, sameRecourse, sameReport
<1> HIDE DEF q
<1>. QED  BY <1>1, <1>2, RecordReplaced, Zenon

\* acceptTask
LEMMA AcceptTaskEffect ==
  ASSUME task \in [Tasks -> TaskRecords], NEW t \in Tasks, NEW a, acceptTask(t, a)
  PROVE  /\ othersKept(t) /\ task[t].status = "Open" /\ task'[t].status = "Accepted"
         /\ task'[t].agent = a /\ task'[t].requester = task[t].requester
         /\ task'[t].verifier = task[t].verifier /\ task'[t].policyId = task[t].policyId
         /\ task'[t].payout = task[t].payout /\ task'[t].quote = task[t].quote
         /\ task'[t].disputeBondLocked = task[t].disputeBondLocked
         /\ sameRecourse(task[t], task'[t]) /\ sameReport(task[t], task'[t])
<1> DEFINE k == task[t]
           deadline == now + policyOf(k).submissionWindow
           q == [k EXCEPT !.status = "Accepted", !.agent = a,
                          !.submissionDeadline = deadline]
<1>1. k \in TaskRecords /\ k.status = "Open" /\ task' = [task EXCEPT ![t] = q]
  BY Zenon DEF acceptTask
<1> HIDE DEF deadline
<1>2. /\ q.status = "Accepted" /\ q.agent = a /\ q.requester = k.requester
      /\ q.verifier = k.verifier /\ q.policyId = k.policyId /\ q.payout = k.payout
      /\ q.quote = k.quote /\ q.disputeBondLocked = k.disputeBondLocked
      /\ sameRecourse(k, q) /\ sameReport(k, q)
  BY <1>1, Zenon DEF TaskRecords, sameRecourse, sameReport
<1> HIDE DEF q
<1>. QED  BY <1>1, <1>2, RecordReplaced, Zenon

\* startTask
LEMMA StartTaskEffect ==
  ASSUME task \in [Tasks -> TaskRecords], NEW t \in Tasks, startTask(t)
  PROVE  /\ othersKept(t) /\ task[t].status = "Accepted" /\ task'[t].status = "Started"
         /\ task'[t].disputeBondLocked = task[t].disputeBondLocked
         /\ sameStakes(task[t], task'[t]) /\ sameRecourse(task[t], task'[t])
         /\ sameReport(task[t], task'[t])
<1> DEFINE k == task[t]
           q == [k EXCEPT !.status = "Started"]
<1>1. k \in TaskRecords /\ k.status = "Accepted" /\ task' = [task EXCEPT ![t] = q]
  BY DEF startTask
<1>2. /\ q.status = "Started" /\ q.disputeBondLocked = k.disputeBondLocked
      /\ sameStakes(k, q) /\ sameRecourse(k, q) /\ sameReport(k, q)
  BY <1>1, Zenon DEF TaskRecords, sameStakes, sameRecourse, sameReport
<1> HIDE DEF q
<1>. QED  BY <1>1, <1>2, RecordReplaced, Zenon

\* commitEvidence
LEMMA CommitEvidenceEffect ==
  ASSUME task \in [Tasks -> TaskRecords], NEW t \in Tasks, NEW until,
         commitEvidence(t, until)
  PROVE  /\ othersKept(t) /\ task[t].status \in Working
         /\ task'[t].status = "EvidenceCommitted"
         /\ task'[t].disputeBondLocked = task[t].disputeBondLocked
         /\ sameStakes(task[t], task'[t]) /\ sameRecourse(task[t], task'[t])
         /\ task'[t].reportConfirmations = task[t].reportConfirmations
         /\ task'[t].confirmedBy = task[t].confirmedBy
         /\ task'[t].challengeResolved = task[t].challengeResolved
<1> DEFINE k == task[t]
           q == [k EXCEPT !.status = "EvidenceCommitted",
                          !.evidenceAvailabilityUntil = until,
                          !.evidenceCommittedAt = now]
<1>1. k \in TaskRecords /\ k.status \in Working /\ task' = [task EXCEPT ![t] = q]
  BY Zenon DEF commitEvidence
<1>2. /\ q.status = "EvidenceCommitted" /\ q.disputeBondLocked = k.disputeBondLocked
      /\ sameStakes(k, q) /\ sameRecourse(k, q)
      /\ q.reportConfirmations = k.reportConfirmations
      /\ q.confirmedBy = k.confirmedBy /\ q.challengeResolved = k.challengeResolved
  BY <1>1, Zenon DEF TaskRecords, sameStakes, sameRecourse
<1> HIDE DEF q
<1>. QED  BY <1>1, <1>2, RecordReplaced, Zenon

\* submitVerifierReport
LEMMA SubmitVerifierReportEffect ==
  ASSUME task \in [Tasks -> TaskRecords], NEW t \in Tasks, NEW status,
         submitVerifierReport(t, status)
  PROVE  /\ othersKept(t) /\ task[t].status = "EvidenceCommitted"
         /\ task'[t].status = status
         /\ task'[t].disputeBondLocked = task[t].disputeBondLocked
         /\ sameStakes(task[t], task'[t]) /\ sameRecourse(task[t], task'[t])
         /\ task'[t].evidenceAvailabilityUntil = task[t].evidenceAvailabilityUntil
         /\ task'[t].reportedAt = now /\ task'[t].reportConfirmations = 0
         /\ task'[t].confirmedBy = task[t].confirmedBy \cup {task[t].verifier}
<1> DEFINE k == task[t]
           voters == k.confirmedBy \cup {k.verifier}
           q == [k EXCEPT !.status = status, !.reportedAt = now,
                          !.reportConfirmations = 0, !.challengeResolved = FALSE,
                          !.confirmedBy = voters]
<1>1. /\ k \in TaskRecords /\ k.status = "EvidenceCommitted"
      /\ task' = [task EXCEPT ![t] = q]
  BY Zenon DEF submitVerifierReport
<1> HIDE DEF voters
<1>2. /\ q.status = status /\ q.disputeBondLocked = k.disputeBondLocked
      /\ sameStakes(k, q) /\ sameRecourse(k, q)
      /\ q.evidenceAvailabilityUntil = k.evidenceAvailabilityUntil
      /\ q.reportedAt = now /\ q.reportConfirmations = 0 /\ q.confirmedBy = voters
  BY <1>1, Zenon DEF TaskRecords, sameStakes, sameRecourse
<1> HIDE DEF q
<1>. QED  BY <1>1, <1>2, RecordReplaced, Zenon DEF voters

\* confirmVerifierReport
LEMMA ConfirmVerifierReportEffect ==
  ASSUME task \in [Tasks -> TaskRecords], NEW t \in Tasks, NEW v,
         confirmVerifierReport(t, v)
  PROVE  /\ othersKept(t) /\ task[t].status \in ReportStatuses
         /\ task'[t].status = task[t].status
         /\ task'[t].disputeBondLocked = task[t].disputeBondLocked
         /\ sameStakes(task[t], task'[t]) /\ sameRecourse(task[t], task'[t])
         /\ task'[t].evidenceAvailabilityUntil = task[t].evidenceAvailabilityUntil
         /\ task'[t].reportedAt = task[t].reportedAt
         /\ task'[t].reportConfirmations = task[t].reportConfirmations + 1
         /\ task'[t].confirmedBy = task[t].confirmedBy \cup {v}
         /\ task'[t].challengeResolved = task[t].challengeResolved
<1> DEFINE k == task[t]
           voters == k.confirmedBy \cup {v}
           count == k.reportConfirmations + 1
           q == [k EXCEPT !.confirmedBy = voters, !.reportConfirmations = count]
<1>1. /\ k \in TaskRecords /\ k.status \in ReportStatuses
      /\ task' = [task EXCEPT ![t] = q]
  BY Zenon DEF confirmVerifierReport
<1> HIDE DEF voters, count
<1>2. /\ q.status = k.status /\ q.disputeBondLocked = k.disputeBondLocked
      /\ sameStakes(k, q) /\ sameRecourse(k, q)
      /\ q.evidenceAvailabilityUntil = k.evidenceAvailabilityUntil
      /\ q.reportedAt = k.reportedAt /\ q.reportConfirmations = count
      /\ q.confirmedBy = voters /\ q.challengeResolved = k.challengeResolved
  BY <1>1, Zenon DEF TaskRecords, sameStakes, sameRecourse
<1> HIDE DEF q
<1>. QED  BY <1>1, <1>2, RecordReplaced, Zenon DEF voters, count

\* challengeTask
LEMMA ChallengeTaskEffect ==
  ASSUME task \in [Tasks -> TaskRecords], NEW t \in Tasks, NEW a, challengeTask(t, a)
  PROVE  /\ othersKept(t) /\ task[t].status \in ReportStatuses
         /\ task'[t].status = "Challenged" /\ task'[t].challenger = a
         /\ task'[t].disputeBondLocked = task[t].quote.disputeBond
         /\ sameStakes(task[t], task'[t]) /\ sameRecourse(task[t], task'[t])
         /\ sameReport(task[t], task'[t])
<1> DEFINE k == task[t]
           q == [k EXCEPT !.status = "Challenged", !.challenger = a,
                          !.disputeBondLocked = k.quote.disputeBond,
                          !.preChallengeStatus = k.status]
<1>1. /\ k \in TaskRecords /\ k.status \in ReportStatuses
      /\ task' = [task EXCEPT ![t] = q]
  BY Zenon DEF challengeTask
<1>2. /\ q.status = "Challenged" /\ q.challenger = a
      /\ q.disputeBondLocked = k.quote.disputeBond
      /\ sameStakes(k, q) /\ sameRecourse(k, q) /\ sameReport(k, q)
  BY <1>1, Zenon DEF TaskRecords, sameStakes, sameRecourse, sameReport
<1> HIDE DEF q
<1>. QED  BY <1>1, <1>2, RecordReplaced, Zenon

\* resolveChallenge
LEMMA ResolveChallengeEffect ==
  ASSUME task \in [Tasks -> TaskRecords], NEW t \in Tasks, NEW status, NEW share,
         resolveChallenge(t, status, share)
  PROVE  /\ othersKept(t) /\ task[t].status = "Challenged" /\ task'[t].status = status
         /\ task'[t].disputeBondLocked = 0
         /\ sameStakes(task[t], task'[t]) /\ sameRecourse(task[t], task'[t])
         /\ task'[t].evidenceAvailabilityUntil = task[t].evidenceAvailabilityUntil
         /\ task'[t].reportedAt = task[t].reportedAt
         /\ task'[t].confirmedBy = task[t].confirmedBy /\ task'[t].challengeResolved
<1> DEFINE k == task[t]
           q == resolved(k, status)
<1>1. /\ k \in TaskRecords /\ k.status = "Challenged"
      /\ task' = [task EXCEPT ![t] = q]
  BY DEF resolveChallenge
<1>2. /\ q.status = status /\ q.disputeBondLocked = 0
      /\ sameStakes(k, q) /\ sameRecourse(k, q)
      /\ q.evidenceAvailabilityUntil = k.evidenceAvailabilityUntil
      /\ q.reportedAt = k.reportedAt /\ q.confirmedBy = k.confirmedBy
      /\ q.challengeResolved = TRUE
  BY <1>1, Zenon DEF TaskRecords, sameStakes, sameRecourse, resolved
<1> HIDE DEF q
<1>. QED  BY <1>1, <1>2, RecordReplaced, Zenon

\* The four functions that close a bonded task.
LEMMA CloseWithEffect ==
  ASSUME task \in [Tasks -> TaskRecords], NEW t \in Tasks, NEW status, NEW claim,
         closeWith(t, status, claim)
  PROVE  /\ othersKept(t) /\ task'[t].status = status
         /\ task'[t].disputeBondLocked = task[t].disputeBondLocked
         /\ task'[t].recourseCoverage = task[t].recourseCoverage
         /\ sameStakes(task[t], task'[t]) /\ sameReport(task[t], task'[t])
<1> DEFINE k == task[t]
           paid == k.recourseClaimPaid \/ (claim /\ recourseDue(k))
           q == [k EXCEPT !.status = status, !.recourseClaimPaid = paid]
<1>1. k \in TaskRecords /\ task' = [task EXCEPT ![t] = q]
  BY Zenon DEF closeWith
<1> HIDE DEF paid
<1>2. /\ q.status = status /\ q.disputeBondLocked = k.disputeBondLocked
      /\ q.recourseCoverage = k.recourseCoverage
      /\ sameStakes(k, q) /\ sameReport(k, q)
  BY <1>1, Zenon DEF TaskRecords, sameStakes, sameReport
<1> HIDE DEF q
<1>. QED  BY <1>1, <1>2, RecordReplaced, Zenon

\* Which tasks settleTask and slashExpiredNoSubmission close, and how.
LEMMA Closings ==
  ASSUME NEW t \in Tasks, settleTask(t) \/ slashExpiredNoSubmission(t)
  PROVE  /\ bonded(task[t])
         /\ task[t].status \in Working \cup ReportStatuses
         /\ closingAccepted(t)
         /\ \E status \in Terminal, claim \in BOOLEAN :
              /\ closeWith(t, status, claim)
              /\ recourseDue(task[t]) =>
                   IF claim THEN canPayClaim(pool, t, task[t].recourseCoverage, now)
                   ELSE canReleaseForTask(pool, t)
<1>1. CASE settleVerified(t)
  BY <1>1, Zenon DEF settleVerified, verifiedAccepted, bonded, live, Terminal, ReportStatuses
<1>2. CASE settleFailed(t)
  BY <1>2, Zenon DEF settleFailed, failedAccepted, bonded, live, Terminal, ReportStatuses
<1>3. CASE settleRefund(t)
  BY <1>3, Zenon DEF settleRefund, refundAccepted, bonded, live, Terminal, ReportStatuses
<1>4. CASE slashExpiredNoSubmission(t)
  BY <1>4, Zenon DEF slashExpiredNoSubmission, expiryAccepted, expired, bonded, live, Terminal, Working
<1>. QED  BY <1>1, <1>2, <1>3, <1>4 DEF settleTask

\* The other steps do not touch tasks.
LEMMA OnlyTaskStepsTouchTasks ==
  ASSUME [BondNext]_bondVars, ~\E t \in Tasks : TaskNext(t)
  PROVE  UNCHANGED task
BY DEF BondNext, ByParty, ByOwner, PartyNext, OwnerNext, BondTick, EscrowNext, StakeNext,
       PoolOutsideNext, AttesterNext, ControlNext, RegistryNext, EscrowOwnerNext,
       StakeOwnerNext, PoolOwnerNext, bondVars

=============================================================================
