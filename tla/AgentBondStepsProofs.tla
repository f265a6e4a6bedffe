------------------------ MODULE AgentBondStepsProofs ------------------------
(***************************************************************************)
(* What the effects of the transactions on the records of tasks mean for   *)
(* reports, confirmations and the custody of tokens, for any number of     *)
(* tasks, accounts, policies and amounts.                                  *)
(***************************************************************************)
EXTENDS AgentBondEffectsProofs

-----------------------------------------------------------------------------
(* Reports and confirmations *)

unreported(k) == k.status \in {"Unknown", "Open", "EvidenceCommitted"} \cup Working

reported(k) == k.status \in ReportStatuses \cup {"Challenged"}

confirmationsCounted(k) ==
  ~k.challengeResolved =>
    k.reportConfirmations = Cardinality(k.confirmedBy \ {k.verifier})

\* Both properties also need what precedes a report (nobody has confirmed yet)
\* and what outlasts it: a challenge interrupts the report without touching it,
\* and the reporting verifier stays among those who may not confirm.
reportOK(k) ==
  /\ unreported(k) => k.confirmedBy = {} /\ k.reportConfirmations = 0
  /\ reported(k) => /\ k.verifier \in k.confirmedBy
                    /\ k.evidenceAvailabilityUntil >= reportDeadline(k)
  /\ confirmationsCounted(k)

ReportInv == CustodyInv /\ \A t \in Tasks : reportOK(task[t])

\* A record in which nobody confirmed counts nobody.
LEMMA NobodyConfirmed ==
  ASSUME NEW k, k.confirmedBy = {}, k.reportConfirmations = 0
  PROVE  confirmationsCounted(k)
<1>1. k.confirmedBy \ {k.verifier} = {}
  OBVIOUS
<1>. QED  BY <1>1, FS_EmptySet DEF confirmationsCounted

\* Steps before the report.
LEMMA StillUnreported ==
  ASSUME NEW k, NEW q, reportOK(k), unreported(k), unreported(q) \/ q.status \in Terminal,
         q.confirmedBy = k.confirmedBy, q.reportConfirmations = k.reportConfirmations
  PROVE  reportOK(q)
<1>1. q.confirmedBy = {} /\ q.reportConfirmations = 0
  BY DEF reportOK
<1>2. ~reported(q)
  BY DEF unreported, reported, Working, ReportStatuses, Terminal
<1>. QED  BY <1>1, <1>2, NobodyConfirmed DEF reportOK

\* Steps that leave the report as it is: challenges and settlements.
LEMMA ReportStands ==
  ASSUME NEW k, NEW q, reportOK(k), reported(k), reported(q) \/ q.status \in Terminal,
         sameStakes(k, q), sameReport(k, q)
  PROVE  reportOK(q)
<1>1. ~unreported(q)
  BY DEF unreported, reported, Working, ReportStatuses, Terminal
<1>2. confirmationsCounted(q)
  BY DEF reportOK, confirmationsCounted, sameStakes, sameReport
<1>3. q.verifier \in q.confirmedBy /\ q.evidenceAvailabilityUntil >= reportDeadline(q)
  BY DEF reportOK, sameStakes, sameReport, reportDeadline, policyOf
<1>. QED  BY <1>1, <1>2, <1>3 DEF reportOK

\* Every transaction on a task keeps what is said of its report.
LEMMA ReportKept ==
  ASSUME ReportInv, NEW t \in Tasks, TaskNext(t)
  PROVE  reportOK(task'[t]) /\ othersKept(t)
<1> DEFINE k == task[t]
           q == task'[t]
<1>1. task \in [Tasks -> TaskRecords] /\ k \in TaskRecords /\ reportOK(k) /\ now \in Nat
  BY DEF ReportInv, CustodyInv
<1>2. ASSUME NEW r, NEW v, NEW id, NEW payout, NEW coverage,
             openTask(t, r, v, id, payout, coverage)
      PROVE  reportOK(q) /\ othersKept(t)
  <2>1. /\ othersKept(t) /\ k.status = "Unknown" /\ q.status = "Open"
        /\ q.confirmedBy = k.confirmedBy /\ q.reportConfirmations = k.reportConfirmations
    BY <1>1, <1>2, OpenTaskEffect DEF sameReport
  <2>2. unreported(k) /\ unreported(q)
    BY <2>1 DEF unreported
  <2>. QED  BY <1>1, <2>1, <2>2, StillUnreported
<1>3. CASE cancelOpenTask(t)
  <2>1. /\ othersKept(t) /\ k.status = "Open" /\ q.status = "Refunded"
        /\ q.confirmedBy = k.confirmedBy /\ q.reportConfirmations = k.reportConfirmations
    BY <1>1, <1>3, CancelOpenTaskEffect DEF sameReport
  <2>2. unreported(k) /\ q.status \in Terminal
    BY <2>1 DEF unreported, Terminal
  <2>. QED  BY <1>1, <2>1, <2>2, StillUnreported
<1>4. ASSUME NEW a, acceptTask(t, a)
      PROVE  reportOK(q) /\ othersKept(t)
  <2>1. /\ othersKept(t) /\ k.status = "Open" /\ q.status = "Accepted"
        /\ q.confirmedBy = k.confirmedBy /\ q.reportConfirmations = k.reportConfirmations
    BY <1>1, <1>4, AcceptTaskEffect DEF sameReport
  <2>2. unreported(k) /\ unreported(q)
    BY <2>1 DEF unreported, Working
  <2>. QED  BY <1>1, <2>1, <2>2, StillUnreported
<1>5. CASE startTask(t)
  <2>1. /\ othersKept(t) /\ k.status = "Accepted" /\ q.status = "Started"
        /\ q.confirmedBy = k.confirmedBy /\ q.reportConfirmations = k.reportConfirmations
    BY <1>1, <1>5, StartTaskEffect DEF sameReport
  <2>2. unreported(k) /\ unreported(q)
    BY <2>1 DEF unreported, Working
  <2>. QED  BY <1>1, <2>1, <2>2, StillUnreported
<1>6. ASSUME NEW until, commitEvidence(t, until)
      PROVE  reportOK(q) /\ othersKept(t)
  <2>1. /\ othersKept(t) /\ k.status \in Working /\ q.status = "EvidenceCommitted"
        /\ q.confirmedBy = k.confirmedBy /\ q.reportConfirmations = k.reportConfirmations
    BY <1>1, <1>6, CommitEvidenceEffect
  <2>2. unreported(k) /\ unreported(q)
    BY <2>1 DEF unreported
  <2>. QED  BY <1>1, <2>1, <2>2, StillUnreported
<1>7. ASSUME NEW status \in ReportStatuses, submitVerifierReport(t, status)
      PROVE  reportOK(q) /\ othersKept(t)
  <2>1. /\ othersKept(t) /\ k.status = "EvidenceCommitted" /\ q.status = status
        /\ sameStakes(k, q) /\ q.evidenceAvailabilityUntil = k.evidenceAvailabilityUntil
        /\ q.reportedAt = now /\ q.reportConfirmations = 0
        /\ q.confirmedBy = k.confirmedBy \cup {k.verifier}
    BY <1>1, <1>7, SubmitVerifierReportEffect
  <2>2. k.confirmedBy = {}
    BY <1>1, <2>1 DEF reportOK, unreported
  <2>3. ~unreported(q)
    BY <2>1 DEF unreported, Working, ReportStatuses
  <2>4. q.verifier \in q.confirmedBy /\ q.confirmedBy \ {q.verifier} = {}
    BY <2>1, <2>2 DEF sameStakes
  <2>5. q.evidenceAvailabilityUntil >= reportDeadline(q)
    <3>1. k.evidenceAvailabilityUntil >= now + policyOf(k).disputeWindow
      BY <1>7 DEF submitVerifierReport, evidenceOutlivesWindow
    <3>. QED  BY <2>1, <3>1 DEF reportDeadline, policyOf, sameStakes
  <2>6. confirmationsCounted(q)
    BY <2>1, <2>4, FS_EmptySet DEF confirmationsCounted
  <2>. QED  BY <2>1, <2>3, <2>4, <2>5, <2>6 DEF reportOK
<1>8. ASSUME NEW v \in Verifiers, confirmVerifierReport(t, v)
      PROVE  reportOK(q) /\ othersKept(t)
  <2>1. /\ othersKept(t) /\ k.status \in ReportStatuses /\ q.status = k.status
        /\ sameStakes(k, q) /\ q.evidenceAvailabilityUntil = k.evidenceAvailabilityUntil
        /\ q.reportedAt = k.reportedAt /\ q.confirmedBy = k.confirmedBy \cup {v}
        /\ q.reportConfirmations = k.reportConfirmations + 1
        /\ q.challengeResolved = k.challengeResolved
    BY <1>1, <1>8, ConfirmVerifierReportEffect
  <2>2. reported(k) /\ reported(q) /\ ~unreported(q)
    BY <2>1 DEF reported, unreported, Working, ReportStatuses
  <2>3. k.verifier \in k.confirmedBy /\ q.verifier = k.verifier /\ v \notin k.confirmedBy
    BY <1>1, <1>8, <2>1, <2>2 DEF reportOK, sameStakes, confirmVerifierReport, mayConfirm
  <2>4. q.evidenceAvailabilityUntil >= reportDeadline(q)
    BY <1>1, <2>1, <2>2 DEF reportOK, reportDeadline, policyOf, sameStakes
  <2>5. confirmationsCounted(q)
    <3> DEFINE before == k.confirmedBy \ {k.verifier}
    <3>1. q.confirmedBy \ {q.verifier} = before \cup {v} /\ v \notin before
      BY <2>1, <2>3
    <3>2. IsFiniteSet(before)
      BY <1>1, TaskFields, PartiesAssumption, FS_Subset
    <3>3. Cardinality(before \cup {v}) = Cardinality(before) + 1
      BY <3>1, <3>2, FS_AddElement, Zenon
    <3> HIDE DEF before
    <3>. QED  BY <1>1, <2>1, <3>1, <3>3 DEF reportOK, confirmationsCounted, before
  <2>. QED  BY <2>1, <2>2, <2>3, <2>4, <2>5 DEF reportOK
<1>9. ASSUME NEW a, challengeTask(t, a)
      PROVE  reportOK(q) /\ othersKept(t)
  <2>1. /\ othersKept(t) /\ k.status \in ReportStatuses /\ q.status = "Challenged"
        /\ sameStakes(k, q) /\ sameReport(k, q)
    BY <1>1, <1>9, ChallengeTaskEffect
  <2>2. reported(k) /\ reported(q)
    BY <2>1 DEF reported
  <2>. QED  BY <1>1, <2>1, <2>2, ReportStands
<1>10. ASSUME NEW status \in ReportStatuses, NEW share, resolveChallenge(t, status, share)
       PROVE  reportOK(q) /\ othersKept(t)
  <2>1. /\ othersKept(t) /\ k.status = "Challenged" /\ q.status = status
        /\ sameStakes(k, q) /\ q.evidenceAvailabilityUntil = k.evidenceAvailabilityUntil
        /\ q.reportedAt = k.reportedAt /\ q.confirmedBy = k.confirmedBy
        /\ q.challengeResolved
    BY <1>1, <1>10, ResolveChallengeEffect
  <2>2. reported(k) /\ reported(q) /\ ~unreported(q)
    BY <2>1 DEF reported, unreported, Working, ReportStatuses
  <2>3. q.verifier \in q.confirmedBy /\ q.evidenceAvailabilityUntil >= reportDeadline(q)
    BY <1>1, <2>1, <2>2 DEF reportOK, reportDeadline, policyOf, sameStakes
  <2>. QED  BY <2>1, <2>2, <2>3 DEF reportOK, confirmationsCounted
<1>11. CASE settleTask(t) \/ slashExpiredNoSubmission(t)
  <2>1. PICK status \in Terminal, claim \in BOOLEAN : closeWith(t, status, claim)
    BY <1>11, Closings
  <2>2. /\ othersKept(t) /\ q.status = status /\ sameStakes(k, q) /\ sameReport(k, q)
    BY <1>1, <2>1, CloseWithEffect
  <2>3. unreported(k) \/ reported(k)
    BY <1>11, Closings DEF unreported, reported
  <2>. QED  BY <1>1, <2>1, <2>2, <2>3, StillUnreported, ReportStands DEF sameReport
<1>. QED
  BY <1>2, <1>3, <1>4, <1>5, <1>6, <1>7, <1>8, <1>9, <1>10, <1>11 DEF TaskNext

LEMMA ReportInit == BondInit => ReportInv
<1> SUFFICES ASSUME BondInit, NEW t \in Tasks PROVE reportOK(task[t])
  BY CustodyInit DEF ReportInv
<1>1. /\ task[t].status = "Unknown" /\ task[t].confirmedBy = {}
      /\ task[t].reportConfirmations = 0
  BY DEF BondInit
<1>2. ~reported(task[t])
  BY <1>1 DEF reported, ReportStatuses
<1>. QED  BY <1>1, <1>2, NobodyConfirmed DEF reportOK

LEMMA ReportNext == ReportInv /\ [BondNext]_bondVars => ReportInv'
<1> SUFFICES ASSUME ReportInv, [BondNext]_bondVars PROVE ReportInv'
  OBVIOUS
<1>1. CustodyInv'
  BY CustodyNext DEF ReportInv
<1>2. \A u \in Tasks : reportOK(task'[u])
  <2>1. ASSUME NEW t \in Tasks, TaskNext(t)
        PROVE  \A u \in Tasks : reportOK(task'[u])
    BY <2>1, ReportKept DEF ReportInv, othersKept
  <2>2. CASE UNCHANGED task
    BY <2>2 DEF ReportInv
  <2>. QED  BY <2>1, <2>2, OnlyTaskStepsTouchTasks
<1>3. \A u \in Tasks : reportOK(task[u])'
  BY <1>2 DEF reportOK, unreported, reported, confirmationsCounted, reportDeadline, policyOf
<1>. QED  BY <1>1, <1>3 DEF ReportInv

\* In every reachable state the evidence of a reported task stays available for
\* the whole window in which the report can be challenged or confirmed.
THEOREM EvidenceAlwaysOutlives == BondSpec => []EvidenceOutlivesChallenge
<1>1. ReportInv => EvidenceOutlivesChallenge
  BY DEF ReportInv, reportOK, reported, EvidenceOutlivesChallenge
<1>. QED  BY <1>1, ReportInit, ReportNext, PTL DEF BondSpec

\* In every reachable state reportConfirmations, which settleTask compares with
\* the policy, counts different verifiers other than the one who reported.
THEOREM ConfirmationsAlwaysIndependent == BondSpec => []ConfirmationsIndependent
<1>1. ReportInv => ConfirmationsIndependent
  BY DEF ReportInv, reportOK, confirmationsCounted, ConfirmationsIndependent
<1>. QED  BY <1>1, ReportInit, ReportNext, PTL DEF BondSpec

-----------------------------------------------------------------------------
(* The contracts implement TaskCustody *)

\* The dispute bond goes to the side that won the challenge.
LEMMA ResolveReleases ==
  ASSUME NEW t, NEW status, NEW share, resolveChallenge(t, status, share)
  PROVE  /\ task[t].disputeBondLocked <= escrow.lockedByTask[t]
         /\ escrow' = releaseTo(escrow, t, IF status # task[t].preChallengeStatus
                                          THEN task[t].challenger ELSE task[t].agent,
                               task[t].disputeBondLocked)
BY SMTT(30) DEF resolveChallenge, canDecreaseLocked

\* The phase of a task in TaskCustody, by its status.
LEMMA Phases ==
  ASSUME NEW k
  PROVE  /\ k.status = "Unknown" => phaseOf(k) = "none"
         /\ k.status = "Open" => phaseOf(k) = "open"
         /\ k.status = "Challenged" => phaseOf(k) = "disputed"
         /\ k.status \in Terminal => phaseOf(k) = "closed"
         /\ k.status \in Working \cup ReportStatuses \cup {"EvidenceCommitted"}
              => phaseOf(k) = "bonded"
BY DEF phaseOf, Terminal, Working, ReportStatuses

\* A step on task t moves the phase of t only.
LEMMA PhaseMoves ==
  ASSUME NEW t \in Tasks, othersKept(t), NEW from, NEW to,
         phaseOf(task[t]) = from, phaseOf(task'[t]) = to
  PROVE  Custodian!Moves(t, from, to)
<1> DEFINE f == [u \in Tasks |-> phaseOf(task[u])]
           g == [u \in Tasks |-> phaseOf(task'[u])]
<1>1. g = [f EXCEPT ![t] = to] /\ f[t] = from
  BY Zenon DEF othersKept
<1>2. f' = g
  BY DEF phaseOf
<1>. QED  BY <1>1, <1>2 DEF Custodian!Moves

\* A step on task t that leaves dispute bonds as they are.
LEMMA DisputesKept ==
  ASSUME NEW t \in Tasks, othersKept(t),
         task'[t].disputeBondLocked = task[t].disputeBondLocked
  PROVE  UNCHANGED [u \in Tasks |-> task[u].disputeBondLocked]
BY DEF othersKept

\* A step on task t that TaskCustody does not see.
LEMMA CustodyStutters ==
  ASSUME NEW t \in Tasks, othersKept(t), phaseOf(task'[t]) = phaseOf(task[t]),
         task'[t].disputeBondLocked = task[t].disputeBondLocked, UNCHANGED escrow
  PROVE  UNCHANGED Custodian!custodyVars
<1> DEFINE f == [u \in Tasks |-> phaseOf(task[u])]
           g == [u \in Tasks |-> phaseOf(task'[u])]
<1>1. f' = g
  BY DEF phaseOf
<1>2. f = g
  BY DEF othersKept
<1>. QED  BY <1>1, <1>2, DisputesKept DEF Custodian!custodyVars

\* The sums of TaskCustody are those of the contracts' modules.
LEMMA SameTotals ==
  ASSUME NEW f
  PROVE  Custodian!Total(f) = Total(f)
<1>1. Custodian!Units(f) = Units(f)
  BY Zenon DEF Custodian!Units, Units
<1>2. Custodian!Cardinality(Units(f)) = Cardinality(Units(f))
  BY Zenon DEF Custodian!Cardinality, Cardinality
<1>. QED  BY <1>1, <1>2, Zenon DEF Custodian!Total, Total

\* The custody TaskCustody speaks of is the balance of a solvent escrow.
LEMMA CustodyIsBalance ==
  ASSUME CustodyInv, CustodyInv', escrow'.balance = escrow.balance
  PROVE  Custodian!Custody' = Custodian!Custody
<1>1. Custodian!Custody =
        Total(escrow.lockedByTask) + Total(escrow.withdrawable) + escrow.reserveBalance
  BY SameTotals, Zenon DEF Custodian!Custody
<1>2. Custodian!Custody' =
        (Total(escrow.lockedByTask) + Total(escrow.withdrawable) + escrow.reserveBalance)'
  BY SameTotals, Zenon DEF Custodian!Custody
<1>3. escrow.balance = Custodian!Custody
  BY <1>1, Zenon DEF CustodyInv, EscrowSolvent, escrowSolvent
<1>4. escrow'.balance = Custodian!Custody'
  BY <1>2, Zenon DEF CustodyInv, EscrowSolvent, escrowSolvent
<1>. QED  BY <1>3, <1>4, Zenon

\* lockFrom, as the custodian sees it.
LEMMA LockSeen ==
  ASSUME CustodyInv, NEW t \in Tasks, NEW n \in Nat, escrow' = lockFrom(escrow, t, n)
  PROVE  /\ escrow'.withdrawable = escrow.withdrawable
         /\ escrow'.reserveBalance = escrow.reserveBalance
         /\ escrow.lockedByTask[t] \in Nat
         /\ escrow'.lockedByTask[t] = escrow.lockedByTask[t] + n
         /\ \A u \in Tasks \ {t} : escrow'.lockedByTask[u] = escrow.lockedByTask[u]
<1> DEFINE q == lockFrom(escrow, t, n)
<1>1. escrowOK(escrow) /\ escrow.lockedByTask \in [Tasks -> Nat]
  BY InvAt
<1>2. /\ q.lockedByTask = [escrow.lockedByTask EXCEPT ![t] = escrow.lockedByTask[t] + n]
      /\ q.withdrawable = escrow.withdrawable
      /\ q.reserveBalance = escrow.reserveBalance
  BY <1>1, LockFromOK
<1> HIDE DEF q
<1>3. escrow' = q
  BY DEF q
<1>. QED  BY <1>1, <1>2, <1>3

\* openTask is Fund.
LEMMA OpenFunds ==
  ASSUME CustodyInv, NEW t \in Tasks, NEW r \in Requesters, NEW v \in Verifiers,
         NEW id \in PolicyIds, NEW payout \in Payouts, NEW coverage \in Coverages,
         openTask(t, r, v, id, payout, coverage)
  PROVE  Custodian!Fund(t)
<1> DEFINE k == task[t]
           q == [k EXCEPT !.status = "Open", !.requester = r, !.verifier = v,
                          !.policyId = id, !.payout = payout,
                          !.quote = quote(Policies[id], payout),
                          !.recourseCoverage = coverage]
           n == requesterEscrow(q)
<1>1. task \in [Tasks -> TaskRecords] /\ escrowOK(escrow)
      /\ escrow.lockedByTask \in [Tasks -> Nat] /\ k \in TaskRecords
  BY InvAt DEF CustodyInv
<1>2. escrow' = lockFrom(escrow, t, n) /\ n > 0
  BY DEF openTask, canLockFrom
<1>3. n \in Nat
  <2>1. r \in Accounts /\ v \in Accounts /\ payout \in Nat /\ coverage \in Nat
        /\ quote(Policies[id], payout) \in Quotes
    BY RolesAssumption, QuoteType
  <2>2. q \in TaskRecords
    BY <1>1, <2>1, Zenon DEF TaskRecords, Statuses
  <2>. QED  BY <2>2, TaskFields
<1> HIDE DEF q, n
<1>4. /\ escrow'.withdrawable = escrow.withdrawable
      /\ escrow'.reserveBalance = escrow.reserveBalance
  BY <1>2, <1>3, LockSeen
<1>5. /\ escrow'.lockedByTask[t] > 0
      /\ \A u \in Tasks \ {t} : escrow'.lockedByTask[u] = escrow.lockedByTask[u]
  BY <1>2, <1>3, LockSeen
<1>6. /\ othersKept(t) /\ phaseOf(task[t]) = "none" /\ phaseOf(task'[t]) = "open"
      /\ task'[t].disputeBondLocked = task[t].disputeBondLocked
  BY SMTT(30), <1>1, OpenTaskEffect, Phases
<1>7. Custodian!Moves(t, "none", "open")
  BY <1>6, PhaseMoves
<1>. QED  BY <1>4, <1>5, <1>6, <1>7, DisputesKept DEF Custodian!Fund, Custodian!OnlyHeldOf

\* acceptTask is Bond.
LEMMA AcceptBonds ==
  ASSUME CustodyInv, NEW t \in Tasks, NEW a \in Agents, acceptTask(t, a)
  PROVE  Custodian!Bond(t)
<1> DEFINE n == task[t].quote.agentBond
<1>1. task \in [Tasks -> TaskRecords] /\ escrowOK(escrow)
      /\ escrow.lockedByTask \in [Tasks -> Nat] /\ task[t] \in TaskRecords
  BY InvAt DEF CustodyInv
<1>2. escrow' = lockFrom(escrow, t, n) /\ n > 0
  BY DEF acceptTask, canLockFrom
<1>3. n \in Nat
  BY <1>1, TaskFields
<1> HIDE DEF n
<1>4. /\ escrow'.withdrawable = escrow.withdrawable
      /\ escrow'.reserveBalance = escrow.reserveBalance
  BY <1>2, <1>3, LockSeen
<1>5. /\ escrow'.lockedByTask[t] > escrow.lockedByTask[t]
      /\ \A u \in Tasks \ {t} : escrow'.lockedByTask[u] = escrow.lockedByTask[u]
  BY <1>2, <1>3, LockSeen
<1>6. /\ othersKept(t) /\ task[t].status = "Open" /\ task'[t].status = "Accepted"
      /\ task'[t].disputeBondLocked = task[t].disputeBondLocked
  BY <1>1, AcceptTaskEffect
<1>7. Custodian!Moves(t, "open", "bonded")
  BY <1>6, Phases, PhaseMoves DEF Working
<1>. QED  BY <1>4, <1>5, <1>6, <1>7, DisputesKept DEF Custodian!Bond, Custodian!OnlyHeldOf

\* challengeTask is Dispute.
LEMMA ChallengeDisputes ==
  ASSUME CustodyInv, NEW t \in Tasks, NEW a \in Challengers, challengeTask(t, a)
  PROVE  Custodian!Dispute(t)
<1> DEFINE n == task[t].quote.disputeBond
<1>1. task \in [Tasks -> TaskRecords] /\ escrowOK(escrow)
      /\ escrow.lockedByTask \in [Tasks -> Nat] /\ task[t] \in TaskRecords
  BY InvAt DEF CustodyInv
<1>2. escrow' = lockFrom(escrow, t, n) /\ n > 0
  BY DEF challengeTask, canLockFrom
<1>3. n \in Nat
  BY <1>1, TaskFields
<1>6. /\ othersKept(t) /\ task[t].status \in ReportStatuses
      /\ task'[t].status = "Challenged" /\ task'[t].disputeBondLocked = n
  BY <1>1, ChallengeTaskEffect
<1> HIDE DEF n
<1>4. /\ escrow'.withdrawable = escrow.withdrawable
      /\ escrow'.reserveBalance = escrow.reserveBalance
  BY <1>2, <1>3, LockSeen
<1>5. /\ escrow'.lockedByTask[t] = escrow.lockedByTask[t] + n
      /\ \A u \in Tasks \ {t} : escrow'.lockedByTask[u] = escrow.lockedByTask[u]
  BY <1>2, <1>3, LockSeen
<1>7. Custodian!Moves(t, "bonded", "disputed")
  BY <1>6, Phases, PhaseMoves
<1>. QED
  BY <1>2, <1>4, <1>5, <1>6, <1>7
  DEF Custodian!Dispute, Custodian!OnlyHeldOf, othersKept

\* resolveChallenge is Resolve.
LEMMA ResolutionResolves ==
  ASSUME CustodyInv, NEW t \in Tasks, NEW status \in ReportStatuses, NEW share,
         resolveChallenge(t, status, share)
  PROVE  Custodian!Resolve(t)
<1> DEFINE k == task[t]
           n == k.disputeBondLocked
           winner == IF status # k.preChallengeStatus THEN k.challenger ELSE k.agent
           q == releaseTo(escrow, t, winner, n)
<1>1. /\ task \in [Tasks -> TaskRecords] /\ k \in TaskRecords /\ partiesOK(k)
      /\ escrowOK(escrow) /\ escrow.lockedByTask \in [Tasks -> Nat]
  BY InvAt DEF CustodyInv
<1>2. escrow' = q /\ n <= escrow.lockedByTask[t]
  BY ResolveReleases
<1>3. /\ othersKept(t) /\ k.status = "Challenged" /\ task'[t].status = status
      /\ task'[t].disputeBondLocked = 0
  BY <1>1, ResolveChallengeEffect
<1>4. n \in Nat /\ winner \in Accounts
  BY <1>1, <1>3, TaskFields DEF partiesOK, bonded, live, Terminal
<1> HIDE DEF winner
<1>5. q.lockedByTask = [escrow.lockedByTask EXCEPT ![t] = escrow.lockedByTask[t] - n]
  BY SMTT(30), <1>1, <1>2, <1>4, ReleaseToOK
<1>6. /\ q.withdrawable = [escrow.withdrawable EXCEPT ![winner] = escrow.withdrawable[winner] + n]
      /\ q.reserveBalance = escrow.reserveBalance
  BY SMTT(30), <1>1, <1>4, ReleaseToCredits
<1> HIDE DEF q
<1>7. Custodian!Moves(t, "disputed", "bonded")
  BY <1>3, Phases, PhaseMoves
<1>8. [u \in Tasks |-> task'[u].disputeBondLocked] =
        [[u \in Tasks |-> task[u].disputeBondLocked] EXCEPT ![t] = 0]
  BY <1>3, Zenon DEF othersKept
<1>9. [u \in Tasks |-> task[u].disputeBondLocked][t] = n
  OBVIOUS
<1> HIDE DEF n
<1>. QED  BY <1>2, <1>4, <1>5, <1>6, <1>7, <1>8, <1>9, Zenon DEF Custodian!Resolve

\* cancelOpenTask is Cancel.
LEMMA CancelCancels ==
  ASSUME CustodyInv, CustodyInv', NEW t \in Tasks, cancelOpenTask(t)
  PROVE  Custodian!Cancel(t)
<1> DEFINE k == task[t]
           n == requesterEscrow(k)
           q == releaseTo(escrow, t, k.requester, n)
<1>1. /\ task \in [Tasks -> TaskRecords] /\ k \in TaskRecords /\ partiesOK(k)
      /\ escrowOK(escrow) /\ escrow.lockedByTask \in [Tasks -> Nat]
      /\ escrow.lockedByTask[t] = lockedFor(k)
  BY InvAt DEF CustodyInv
<1>2. escrow' = q
  BY DEF cancelOpenTask
<1>3. /\ othersKept(t) /\ k.status = "Open" /\ task'[t].status = "Refunded"
      /\ task'[t].disputeBondLocked = k.disputeBondLocked
  BY <1>1, CancelOpenTaskEffect
<1>4. n \in Nat /\ k.requester \in Accounts /\ escrow.lockedByTask[t] = n
  BY <1>1, <1>3, TaskFields DEF partiesOK, bonded, live, Terminal, lockedFor
<1> HIDE DEF n
<1>5. q.lockedByTask = [escrow.lockedByTask EXCEPT ![t] = 0]
  <2>1. n <= escrow.lockedByTask[t] /\ n - n = 0
    BY <1>4
  <2>2. q.lockedByTask = [escrow.lockedByTask EXCEPT ![t] = escrow.lockedByTask[t] - n]
    BY SMTT(30), <1>1, <1>4, <2>1, ReleaseToOK
  <2>. QED  BY <1>4, <2>1, <2>2
<1>6. q.reserveBalance = escrow.reserveBalance /\ onlyAdds(escrow, q)
  <2>1. q.reserveBalance = escrow.reserveBalance
    BY <1>1, Zenon DEF escrowOK, EscrowStorage, releaseTo
  <2>2. onlyAdds(escrow, q)
    BY <1>1, <1>4, ReleaseToCredits, Zenon
  <2>. QED  BY <2>1, <2>2
<1> HIDE DEF q
<1>7. Custodian!Moves(t, "open", "closed")
  BY <1>3, Phases, PhaseMoves DEF Terminal
<1>8. Custodian!Custody' = Custodian!Custody
  BY <1>2, <1>6, CustodyIsBalance DEF onlyAdds
<1>9. Custodian!Empty(t)
  BY <1>2, <1>5, <1>6, <1>8 DEF Custodian!Empty, onlyAdds
<1>. QED  BY <1>2, <1>3, <1>6, <1>7, <1>9, DisputesKept DEF Custodian!Cancel

\* settleTask and slashExpiredNoSubmission are Close.
LEMMA ClosingCloses ==
  ASSUME CustodyInv, CustodyInv', NEW t \in Tasks,
         settleTask(t) \/ slashExpiredNoSubmission(t)
  PROVE  Custodian!Close(t)
<1> DEFINE n == escrowedFor(task[t])
<1>1. /\ bonded(task[t]) /\ task[t].status # "Challenged" /\ handedOut(escrow, escrow', t, n)
      /\ task[t].status \in Working \cup ReportStatuses
  BY SettleTaskPays, SlashExpiredPays, Closings, Zenon
<1>2. PICK status \in Terminal, claim \in BOOLEAN : closeWith(t, status, claim)
  BY Closings
<1>3. /\ othersKept(t) /\ task'[t].status = status
      /\ task'[t].disputeBondLocked = task[t].disputeBondLocked
  BY <1>2, CloseWithEffect DEF CustodyInv
<1>4. n \in Nat /\ escrow.lockedByTask[t] = n
  BY <1>1, BondedPayable
<1> HIDE DEF n
<1>5. escrow'.lockedByTask = [escrow.lockedByTask EXCEPT ![t] = 0]
  <2>1. n - n = 0
    BY <1>4
  <2>. QED  BY <1>1, <1>4, <2>1 DEF handedOut
<1>6. onlyAdds(escrow, escrow')
  BY <1>1 DEF handedOut
<1>7. Custodian!Moves(t, "bonded", "closed")
  BY <1>1, <1>3, Phases, PhaseMoves
<1>8. Custodian!Custody' = Custodian!Custody
  BY <1>6, CustodyIsBalance DEF onlyAdds
<1>9. Custodian!Empty(t)
  BY <1>5, <1>6, <1>8 DEF Custodian!Empty, onlyAdds
<1>. QED  BY <1>3, <1>6, <1>7, <1>9, DisputesKept DEF Custodian!Close, onlyAdds

\* The other transactions on a task move no tokens.
LEMMA WorkStutters ==
  ASSUME CustodyInv, NEW t \in Tasks,
         \/ startTask(t)
         \/ \E until \in AvailabilityUntil : commitEvidence(t, until)
         \/ \E status \in ReportStatuses : submitVerifierReport(t, status)
         \/ \E v \in Verifiers : confirmVerifierReport(t, v)
  PROVE  UNCHANGED Custodian!custodyVars
<1>1. task \in [Tasks -> TaskRecords]
  BY DEF CustodyInv
<1>2. /\ othersKept(t) /\ task'[t].disputeBondLocked = task[t].disputeBondLocked
      /\ task[t].status \in Working \cup ReportStatuses \cup {"EvidenceCommitted"}
      /\ task'[t].status \in Working \cup ReportStatuses \cup {"EvidenceCommitted"}
  <2>1. CASE startTask(t)
    BY <1>1, <2>1, StartTaskEffect, Zenon DEF Working
  <2>2. CASE \E until \in AvailabilityUntil : commitEvidence(t, until)
    BY <1>1, <2>2, CommitEvidenceEffect, Zenon DEF Working
  <2>3. CASE \E status \in ReportStatuses : submitVerifierReport(t, status)
    BY <1>1, <2>3, SubmitVerifierReportEffect DEF Working
  <2>4. CASE \E v \in Verifiers : confirmVerifierReport(t, v)
    BY <1>1, <2>4, ConfirmVerifierReportEffect, Zenon DEF Working
  <2>. QED  BY <2>1, <2>2, <2>3, <2>4, Zenon
<1>3. UNCHANGED escrow
  BY Zenon DEF startTask, commitEvidence, submitVerifierReport, confirmVerifierReport
<1>4. phaseOf(task[t]) = "bonded" /\ phaseOf(task'[t]) = "bonded"
  BY <1>2, Phases
<1>. QED  BY <1>2, <1>3, <1>4, CustodyStutters

\* A step that leaves tasks alone leaves phases and dispute bonds alone.
LEMMA TasksAlone ==
  ASSUME UNCHANGED task
  PROVE  /\ UNCHANGED [u \in Tasks |-> phaseOf(task[u])]
         /\ UNCHANGED [u \in Tasks |-> task[u].disputeBondLocked]
BY DEF phaseOf

\* The escrow's own functions are Pay and PayReserve, or move no tokens.
LEMMA EscrowPays ==
  ASSUME CustodyInv, EscrowNext \/ EscrowOwnerNext
  PROVE  [Custodian!CustodyNext]_(Custodian!custodyVars)
<1>1. escrowOK(escrow) /\ UNCHANGED task
  BY DEF CustodyInv, EscrowSolvent, escrowOK, EscrowNext, EscrowOwnerNext
<1>2. ASSUME NEW a \in Withdrawers, EscrowWithdraw(a)
      PROVE  Custodian!Pay(a) /\ a \in Accounts
  <2>1. a \in Accounts /\ escrow.withdrawable[a] > 0
    BY <1>2, RolesAssumption DEF EscrowWithdraw
  <2>2. /\ escrow'.lockedByTask = escrow.lockedByTask
        /\ escrow'.withdrawable = [escrow.withdrawable EXCEPT ![a] = 0]
        /\ escrow'.reserveBalance = escrow.reserveBalance
    BY <1>1, <1>2, <2>1, EscrowWithdrawOK
  <2>. QED  BY <1>1, <2>1, <2>2, TasksAlone DEF Custodian!Pay
<1>3. ASSUME NEW n \in 1..escrow.reserveBalance, EscrowWithdrawReserve(n)
      PROVE  Custodian!PayReserve
  <2>1. /\ escrow'.lockedByTask = escrow.lockedByTask
        /\ escrow'.withdrawable = escrow.withdrawable
        /\ escrow'.reserveBalance < escrow.reserveBalance
    BY <1>1, <1>3, EscrowWithdrawReserveOK
  <2>. QED  BY <1>1, <2>1, TasksAlone DEF Custodian!PayReserve
<1>4. ASSUME NEW v \in BOOLEAN, EscrowSetManager(v)
      PROVE  UNCHANGED Custodian!custodyVars
  <2>1. /\ escrow'.lockedByTask = escrow.lockedByTask
        /\ escrow'.withdrawable = escrow.withdrawable
        /\ escrow'.reserveBalance = escrow.reserveBalance
    BY <1>1, <1>4, EscrowSetManagerOK
  <2>. QED  BY <1>1, <2>1, TasksAlone DEF Custodian!custodyVars
<1>. QED
  BY <1>2, <1>3, <1>4 DEF EscrowNext, EscrowOwnerNext, Custodian!CustodyNext

\* Every step of the contracts is a step of TaskCustody or leaves its state alone.
LEMMA CustodyStep ==
  CustodyInv /\ CustodyInv' /\ [BondNext]_bondVars
    => [Custodian!CustodyNext]_(Custodian!custodyVars)
<1> SUFFICES ASSUME CustodyInv, CustodyInv', [BondNext]_bondVars
             PROVE  [Custodian!CustodyNext]_(Custodian!custodyVars)
  OBVIOUS
<1>1. ASSUME NEW t \in Tasks, TaskNext(t)
      PROVE  [Custodian!CustodyNext]_(Custodian!custodyVars)
  <2>1. \/ Custodian!Fund(t) \/ Custodian!Bond(t) \/ Custodian!Dispute(t)
        \/ Custodian!Resolve(t) \/ Custodian!Cancel(t) \/ Custodian!Close(t)
        \/ UNCHANGED Custodian!custodyVars
    BY <1>1, OpenFunds, AcceptBonds, ChallengeDisputes, ResolutionResolves, CancelCancels,
       ClosingCloses, WorkStutters DEF TaskNext
  <2>. QED  BY <2>1 DEF Custodian!CustodyNext
<1>2. CASE EscrowNext \/ EscrowOwnerNext
  BY <1>2, EscrowPays
<1>3. CASE UNCHANGED <<task, escrow>>
  BY <1>3, TasksAlone DEF Custodian!custodyVars
<1>. QED
  BY <1>1, <1>2, <1>3
  DEF BondNext, ByParty, ByOwner, PartyNext, OwnerNext, BondTick, StakeNext,
      PoolOutsideNext, AttesterNext, ControlNext, RegistryNext, StakeOwnerNext,
      PoolOwnerNext, bondVars

LEMMA CustodyStart == BondInit => Custodian!CustodyInit
<1> SUFFICES ASSUME BondInit PROVE Custodian!CustodyInit
  OBVIOUS
<1>1. \A t \in Tasks : phaseOf(task[t]) = "none" /\ task[t].disputeBondLocked = 0
  BY Phases DEF BondInit
<1>2. /\ escrow.lockedByTask = [t \in Tasks |-> 0] /\ escrow.reserveBalance = 0
      /\ escrow.withdrawable = [a \in Accounts |-> 0]
  BY Zenon DEF BondInit, EscrowInit
<1>. QED  BY <1>1, <1>2 DEF Custodian!CustodyInit

\* The contracts implement TaskCustody: every transaction that moves tokens is
\* one of its funding, bonding, disputing, resolving, closing or paying steps.
THEOREM CustodyImplemented == BondSpec => ImplementsCustody
BY CustodyInit, CustodyNext, CustodyStart, CustodyStep, PTL
DEF BondSpec, ImplementsCustody, Custodian!CustodySpec

=============================================================================
