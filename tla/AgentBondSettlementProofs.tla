--------------------- MODULE AgentBondSettlementProofs ----------------------
(***************************************************************************)
(* What the composed contracts promise to the parties of a task, for any   *)
(* number of tasks, accounts, policies and amounts: types in every         *)
(* contract, an emergency stop that holds, calls of a settlement that do   *)
(* not revert, and stake behind every open bond.                           *)
(***************************************************************************)
EXTENDS AgentBondLedgersProofs

-----------------------------------------------------------------------------
(* Types *)

\* What the owners set keeps its types.
SettingsInv ==
  /\ control \in Controls /\ ownerCalls \in 0..MaxOwnerCalls
  /\ PolicyTypeOK /\ PoolRegistryTypeOK /\ CreditTypeOK

\* The setters of the manager.
LEMMA ControlStep ==
  ASSUME control \in Controls, ControlNext
  PROVE  control' \in Controls
<1>0. \A s \in SUBSET Accounts, a \in Accounts, v \in BOOLEAN :
        granted(s, a, v) \in SUBSET Accounts
  BY DEF granted
<1>1. /\ control.paused \in BOOLEAN
      /\ control.requesterAuthorization \in SUBSET Accounts
      /\ control.agentAuthorization \in SUBSET Accounts
      /\ control.verifierAuthorization \in SUBSET Accounts
  BY Zenon DEF Controls
<1>2. ASSUME NEW v \in BOOLEAN,
             \/ setPaused(v) \/ setEmergencyStopped(v) \/ setPilotMode(v)
             \/ setUnderwriterPoolRegistry(v) \/ setCreditAttestationRegistry(v)
      PROVE  control' \in Controls
  <2> DEFINE p == v \/ control.paused
  <2>1. p \in BOOLEAN
    OBVIOUS
  <2>2. setEmergencyStopped(v) =>
          control' = [control EXCEPT !.emergencyStopped = v, !.paused = p]
    BY DEF setEmergencyStopped
  <2> HIDE DEF p
  <2>3. CASE setEmergencyStopped(v)
    BY <2>1, <2>2, <2>3, Zenon DEF Controls
  <2>4. CASE setPaused(v)
    BY <2>4, Zenon DEF Controls, setPaused
  <2>5. CASE setPilotMode(v)
    BY <2>5, Zenon DEF Controls, setPilotMode
  <2>6. CASE setUnderwriterPoolRegistry(v)
    BY <2>6, Zenon DEF Controls, setUnderwriterPoolRegistry
  <2>7. CASE setCreditAttestationRegistry(v)
    BY <2>7, Zenon DEF Controls, setCreditAttestationRegistry
  <2>. QED  BY <1>2, <2>3, <2>4, <2>5, <2>6, <2>7
<1>3. ASSUME NEW v \in BOOLEAN, NEW a \in Accounts,
             \/ setRequesterAuthorization(a, v) \/ setAgentAuthorization(a, v)
             \/ setVerifierAuthorization(a, v)
      PROVE  control' \in Controls
  <2>1. /\ granted(control.requesterAuthorization, a, v) \in SUBSET Accounts
        /\ granted(control.agentAuthorization, a, v) \in SUBSET Accounts
        /\ granted(control.verifierAuthorization, a, v) \in SUBSET Accounts
    BY <1>0, <1>1
  <2>2. CASE setRequesterAuthorization(a, v)
    BY <2>1, <2>2, Zenon DEF Controls, setRequesterAuthorization
  <2>3. CASE setAgentAuthorization(a, v)
    BY <2>1, <2>3, Zenon DEF Controls, setAgentAuthorization
  <2>4. CASE setVerifierAuthorization(a, v)
    BY <2>1, <2>4, Zenon DEF Controls, setVerifierAuthorization
  <2>. QED  BY <1>3, <2>2, <2>3, <2>4
<1>4. ASSUME NEW caps \in PilotCaps, setPilotCaps(caps)
      PROVE  control' \in Controls
  BY <1>4, SettersAssumption, Zenon DEF Controls, setPilotCaps
<1>5. ASSUME NEW caps \in RecourseCaps, setRecourseExposureCaps(caps)
      PROVE  control' \in Controls
  BY <1>5, SettersAssumption, Zenon DEF Controls, setRecourseExposureCaps
<1>6. ASSUME NEW rule \in AttestationRules, setRecourseAttestationRequirements(rule)
      PROVE  control' \in Controls
  BY <1>6, SettersAssumption, Zenon DEF Controls, setRecourseAttestationRequirements
<1>. QED
  BY <1>2, <1>3, <1>4, <1>5, <1>6, RolesAssumption DEF ControlNext

\* The owners of the policy, pool and attester registries.
LEMMA RegistryStep ==
  ASSUME PolicyTypeOK, PoolRegistryTypeOK, CreditTypeOK, RegistryNext
  PROVE  PolicyTypeOK' /\ PoolRegistryTypeOK' /\ CreditTypeOK'
<1>1. ASSUME NEW id \in PolicyIds, NEW status \in {"active", "inactive"},
             createPolicy(id, status) \/ setPolicyActive(id, status)
      PROVE  PolicyTypeOK'
  BY <1>1 DEF PolicyTypeOK, createPolicy, setPolicyActive
<1>2. ASSUME NEW v \in BOOLEAN, registerPool(v) \/ setPoolStatus(v)
      PROVE  PoolRegistryTypeOK'
  <2>1. CASE registerPool(v)
    BY <2>1 DEF PoolRegistryTypeOK, PoolRecords, registerPool
  <2>2. CASE setPoolStatus(v)
    BY <2>2, Zenon DEF PoolRegistryTypeOK, PoolRecords, setPoolStatus
  <2>. QED  BY <1>2, <2>1, <2>2
<1>3. ASSUME NEW attester \in Attesters, NEW v \in BOOLEAN,
             setAuthorizedAttester(attester, v)
      PROVE  CreditTypeOK'
  <2> DEFINE s == credit.isAuthorizedAttester
             r == IF v THEN s \cup {attester} ELSE s \ {attester}
  <2>1. s \in SUBSET Attesters
    BY DEF CreditTypeOK
  <2>2. r \in SUBSET Attesters
    BY <2>1
  <2>3. credit' = [credit EXCEPT !.isAuthorizedAttester = r]
    BY <1>3 DEF setAuthorizedAttester
  <2> HIDE DEF r
  <2>. QED  BY <2>2, <2>3 DEF CreditTypeOK
<1>. QED
  BY <1>1, <1>2, <1>3
  DEF RegistryNext, PolicyTypeOK, PoolRegistryTypeOK, CreditTypeOK

\* An attester publishes.
LEMMA AttesterStep ==
  ASSUME CreditTypeOK, AttesterNext
  PROVE  CreditTypeOK'
<1>1. PICK attester \in Attesters, a \in Agents, id \in Scopes, rating \in CreditRatings :
        publishAttestation(attester, a, id, rating)
  BY DEF AttesterNext
<1> DEFINE entry == [score |-> rating.score, riskBand |-> rating.riskBand,
                     expiresAt |-> rating.expiresAt, by |-> {attester}]
           Entries == [score : Nat, riskBand : Nat, expiresAt : Nat, by : SUBSET Attesters]
<1>2. rating.score \in Nat /\ rating.riskBand \in Nat /\ rating.expiresAt \in Nat
  BY CreditAssumption
<1>3. entry \in Entries
  BY <1>2
<1>4. credit' = [credit EXCEPT !.latest[<<a, id>>] = entry]
  BY <1>1 DEF publishAttestation
<1>5. credit.latest \in [Accounts \X Scopes -> Entries]
  BY DEF CreditTypeOK, Attestations
<1> HIDE DEF entry, Entries
<1>6. [credit.latest EXCEPT ![<<a, id>>] = entry] \in [Accounts \X Scopes -> Entries]
  BY <1>3, <1>5, Zenon
<1>7. credit' = [credit EXCEPT !.latest = [credit.latest EXCEPT ![<<a, id>>] = entry]]
  BY <1>4
<1>. QED  BY <1>6, <1>7, Zenon DEF CreditTypeOK, Attestations, Entries

\* No function on a task changes what the owners set.
LEMMA TaskKeepsSettings ==
  ASSUME NEW t, TaskNext(t)
  PROVE  UNCHANGED settings
<1>1. settleTask(t) \/ slashExpiredNoSubmission(t) => UNCHANGED settings
  BY Zenon DEF settleTask, settleVerified, settleFailed, settleRefund, slashExpiredNoSubmission,
         closeWith
<1>2. ASSUME NEW r, NEW v, NEW id, NEW payout, NEW coverage,
             openTask(t, r, v, id, payout, coverage)
      PROVE  UNCHANGED settings
  BY <1>2 DEF openTask
<1>3. ASSUME NEW a, acceptTask(t, a) \/ challengeTask(t, a)
      PROVE  UNCHANGED settings
  BY <1>3 DEF acceptTask, challengeTask
<1>4. ASSUME NEW x, \/ commitEvidence(t, x) \/ submitVerifierReport(t, x)
                    \/ confirmVerifierReport(t, x)
      PROVE  UNCHANGED settings
  BY <1>4 DEF commitEvidence, submitVerifierReport, confirmVerifierReport
<1>5. ASSUME NEW status, NEW share, resolveChallenge(t, status, share)
      PROVE  UNCHANGED settings
  BY <1>5, ResolveMoves
<1>6. cancelOpenTask(t) \/ startTask(t) => UNCHANGED settings
  BY DEF cancelOpenTask, startTask
<1>. QED  BY <1>1, <1>2, <1>3, <1>4, <1>5, <1>6 DEF TaskNext

LEMMA SettingsInit == BondInit => SettingsInv
<1> SUFFICES ASSUME BondInit PROVE SettingsInv
  OBVIOUS
<1>1. CreditTypeOK
  BY DEF BondInit, CreditInit, CreditTypeOK, Attestations
<1>. QED
  BY <1>1, DeploymentAssumption, SettersAssumption
  DEF BondInit, SettingsInv, PolicyTypeOK, PoolRegistryTypeOK

LEMMA SettingsNext == SettingsInv /\ [BondNext]_bondVars => SettingsInv'
<1> SUFFICES ASSUME SettingsInv, [BondNext]_bondVars PROVE SettingsInv'
  OBVIOUS
<1>1. /\ control \in Controls /\ ownerCalls \in 0..MaxOwnerCalls
      /\ PolicyTypeOK /\ PoolRegistryTypeOK /\ CreditTypeOK
  BY DEF SettingsInv
<1>2. ownerCalls' \in 0..MaxOwnerCalls
  BY <1>1, SettersAssumption DEF BondNext, ByParty, ByOwner, bondVars
<1>3. \/ ControlNext \/ RegistryNext \/ AttesterNext \/ UNCHANGED settings
  <2>1. ASSUME NEW t \in Tasks, TaskNext(t)
        PROVE  UNCHANGED settings
    BY <2>1, TaskKeepsSettings
  <2>2. \/ BondTick \/ EscrowNext \/ StakeNext \/ PoolOutsideNext \/ EscrowOwnerNext
        \/ StakeOwnerNext \/ PoolOwnerNext \/ UNCHANGED bondVars
        => UNCHANGED settings
    BY DEF BondTick, EscrowNext, StakeNext, PoolOutsideNext, EscrowOwnerNext,
           StakeOwnerNext, PoolOwnerNext, bondVars
  <2>. QED  BY <2>1, <2>2 DEF BondNext, ByParty, ByOwner, PartyNext, OwnerNext
<1>4. CASE ControlNext
  <2>1. UNCHANGED <<policyState, poolRecord, credit>>
    BY <1>4 DEF ControlNext
  <2>. QED
    BY <1>1, <1>2, <1>4, <2>1, ControlStep
    DEF SettingsInv, PolicyTypeOK, PoolRegistryTypeOK, CreditTypeOK
<1>5. CASE RegistryNext
  <2>1. UNCHANGED control
    BY <1>5 DEF RegistryNext
  <2>. QED  BY <1>1, <1>2, <1>5, <2>1, RegistryStep DEF SettingsInv
<1>6. CASE AttesterNext
  <2>1. UNCHANGED <<control, policyState, poolRecord>>
    BY <1>6 DEF AttesterNext
  <2>. QED
    BY <1>1, <1>2, <1>6, <2>1, AttesterStep
    DEF SettingsInv, PolicyTypeOK, PoolRegistryTypeOK
<1>7. CASE UNCHANGED settings
  BY <1>1, <1>2, <1>7 DEF SettingsInv, PolicyTypeOK, PoolRegistryTypeOK, CreditTypeOK, settings
<1>. QED  BY <1>3, <1>4, <1>5, <1>6, <1>7

\* Every contract's storage keeps its types: no subtraction of a transaction that
\* does not revert wraps below zero, in whatever order they come.
THEOREM BondTypesCorrect == BondSpec => []BondTypeOK
<1>1. LedgerInv /\ SettingsInv => BondTypeOK
  BY DEF LedgerInv, CustodyInv, SettingsInv, BondTypeOK, stakeOK, poolOK
<1>. QED  BY <1>1, LedgerInit, LedgerNext, SettingsInit, SettingsNext, PTL DEF BondSpec

-----------------------------------------------------------------------------
(* The emergency stop *)

\* While the stop is set a transaction on a task bonds nobody, opens nothing and
\* leaves the coverage the task was opened with as it is.
LEMMA StoppedTaskStep ==
  ASSUME LedgerInv, NEW t \in Tasks, TaskNext(t), control.emergencyStopped
  PROVE  /\ othersKept(t) /\ task'[t].recourseCoverage = task[t].recourseCoverage
         /\ live(task'[t]) => live(task[t])
         /\ bonded(task'[t]) => bonded(task[t])
<1> DEFINE k == task[t]
           q == task'[t]
           kept == /\ othersKept(t) /\ q.recourseCoverage = k.recourseCoverage
                   /\ live(q) => live(k)
                   /\ bonded(q) => bonded(k)
<1>0. task \in [Tasks -> TaskRecords]
  BY LedgerAt
<1>1. ASSUME NEW r, NEW v, NEW id, NEW payout, NEW coverage,
             openTask(t, r, v, id, payout, coverage)
      PROVE  kept
  BY <1>1 DEF openTask, validOpenTask, whenNotPausedOrStopped
<1>2. CASE cancelOpenTask(t)
  BY <1>0, <1>2, CancelOpenTaskEffect DEF sameRecourse, live, bonded, Terminal
<1>3. ASSUME NEW a, acceptTask(t, a)
      PROVE  kept
  BY <1>3 DEF acceptTask, whenNotPausedOrStopped
<1>4. CASE startTask(t)
  BY <1>4 DEF startTask
<1>5. ASSUME NEW until, commitEvidence(t, until)
      PROVE  kept
  BY <1>5 DEF commitEvidence
<1>6. ASSUME NEW status, submitVerifierReport(t, status)
      PROVE  kept
  BY <1>0, <1>6, SubmitVerifierReportEffect DEF sameRecourse, live, bonded, Terminal
<1>7. ASSUME NEW v, confirmVerifierReport(t, v)
      PROVE  kept
  BY <1>0, <1>7, ConfirmVerifierReportEffect DEF sameRecourse, live, bonded
<1>8. ASSUME NEW a, challengeTask(t, a)
      PROVE  kept
  BY <1>0, <1>8, ChallengeTaskEffect DEF sameRecourse, live, bonded, Terminal, ReportStatuses
<1>9. ASSUME NEW status, NEW share, resolveChallenge(t, status, share)
      PROVE  kept
  BY <1>0, <1>9, ResolveChallengeEffect DEF sameRecourse, live, bonded, Terminal
<1>10. CASE settleTask(t) \/ slashExpiredNoSubmission(t)
  <2>1. PICK status \in Terminal, claim \in BOOLEAN : closeWith(t, status, claim)
    BY <1>10, Closings
  <2>. QED  BY <1>0, <2>1, CloseWithEffect DEF live, bonded
<1>. QED
  BY <1>1, <1>2, <1>3, <1>4, <1>5, <1>6, <1>7, <1>8, <1>9, <1>10, Zenon DEF TaskNext

\* The totals the contracts keep cannot grow then, since they are the sums over
\* the tasks before and after the step.
LEMMA StoppedTotals ==
  ASSUME LedgerInv, LedgerInv', NEW t \in Tasks, othersKept(t),
         task'[t].recourseCoverage = task[t].recourseCoverage,
         live(task'[t]) => live(task[t]), bonded(task'[t]) => bonded(task[t])
  PROVE  /\ pool'.totalLocked <= pool.totalLocked
         /\ ledger'.openTaskCount <= ledger.openTaskCount
<1>1. ledger'.openTaskCount <= ledger.openTaskCount
  <2> DEFINE S == {u \in Tasks : live(task[u])}
             R == {u \in Tasks : live(task'[u])}
  <2>1. R \in SUBSET S /\ IsFiniteSet(S)
    BY FS_Subset, PartiesAssumption DEF othersKept
  <2>2. Cardinality(R) <= Cardinality(S)
    BY <2>1, FS_Subset
  <2>3. ledger.openTaskCount = Cardinality(S)
    BY DEF LedgerInv, ExposureMatchesEscrow
  <2>4. ledger'.openTaskCount = Cardinality(R)
    BY DEF LedgerInv, ExposureMatchesEscrow, live
  <2>. QED  BY <2>2, <2>3, <2>4
<1>2. pool'.totalLocked <= pool.totalLocked
  <2> DEFINE f == pool.lockedByTask
             g == pool'.lockedByTask
  <2>1. /\ f \in [Tasks -> Nat] /\ g \in [Tasks -> Nat]
        /\ pool.totalLocked = Total(f) /\ pool'.totalLocked = Total(g)
    <3>1. pool \in PoolStorage /\ pool' \in PoolStorage
      BY DEF LedgerInv, poolOK
    <3>2. pool.totalLocked = Total(f) /\ pool'.totalLocked = Total(g)
      BY DEF LedgerInv, poolOK, poolBacked
    <3>. QED  BY <3>1, <3>2, PoolFields
  <2>2. \A u \in Tasks : f[u] = coverageOf(task[u])
    BY DEF LedgerInv, RecourseMatchesPool
  <2>3. \A u \in Tasks : g[u] = coverageOf(task'[u])
    BY Zenon DEF LedgerInv, RecourseMatchesPool, coverageOf, bonded, live
  <2>4. \A u \in Tasks \ {t} : g[u] = f[u]
    BY <2>2, <2>3 DEF othersKept
  <2>5. coverageOf(task'[t]) = 0 \/ coverageOf(task'[t]) = coverageOf(task[t])
    BY DEF coverageOf
  <2>6. f[t] \in Nat /\ g[t] \in Nat /\ g[t] <= f[t] /\ Total(f) \in Nat
    BY SMTT(30), <2>1, <2>2, <2>3, <2>5, TotalType, PartiesAssumption
  <2>7. Total(g) = Total(f) - f[t] + g[t]
    BY <2>1, <2>4, TotalChange, PartiesAssumption
  <2> HIDE DEF f, g
  <2>. QED  BY <2>1, <2>6, <2>7
<1>. QED  BY <1>1, <1>2

\* Once the emergency stop is set no transaction opens a task, bonds an agent or
\* locks coverage, whatever else the owner changes meanwhile.
THEOREM StopAlwaysHalts == BondSpec => StopHaltsExposure
<1>1. LedgerInv /\ LedgerInv' /\ [BondNext]_bondVars =>
        [control.emergencyStopped =>
           /\ \A t \in Tasks : bonded(task'[t]) => bonded(task[t])
           /\ pool'.totalLocked <= pool.totalLocked
           /\ ledger'.openTaskCount <= ledger.openTaskCount]_bondVars
  <2> SUFFICES ASSUME LedgerInv, LedgerInv', BondNext, control.emergencyStopped
               PROVE  /\ \A t \in Tasks : bonded(task'[t]) => bonded(task[t])
                      /\ pool'.totalLocked <= pool.totalLocked
                      /\ ledger'.openTaskCount <= ledger.openTaskCount
    OBVIOUS
  <2>1. CASE \E t \in Tasks : TaskNext(t)
    <3>1. PICK t \in Tasks : TaskNext(t)
      BY <2>1
    <3>2. /\ othersKept(t) /\ task'[t].recourseCoverage = task[t].recourseCoverage
          /\ live(task'[t]) => live(task[t])
          /\ bonded(task'[t]) => bonded(task[t])
      BY <3>1, StoppedTaskStep
    <3>3. /\ pool'.totalLocked <= pool.totalLocked
          /\ ledger'.openTaskCount <= ledger.openTaskCount
      BY <3>2, StoppedTotals
    <3>. QED  BY <3>2, <3>3 DEF othersKept
  <2>2. CASE ~\E t \in Tasks : TaskNext(t)
    <3>1. UNCHANGED task
      BY <2>2, OnlyTaskStepsTouchTasks
    <3>2. UNCHANGED <<ledger, pool>> \/ (UNCHANGED ledger /\ (PoolOutsideNext \/ PoolOwnerNext))
      BY <2>2 DEF BondNext, ByParty, ByOwner, PartyNext, OwnerNext, BondTick, EscrowNext,
         StakeNext, PoolOutsideNext, AttesterNext, ControlNext, RegistryNext,
         EscrowOwnerNext, StakeOwnerNext, PoolOwnerNext
    <3>3. pool'.totalLocked = pool.totalLocked /\ ledger' = ledger
      BY <3>2, PoolStepOK, Zenon DEF LedgerInv, PoolInv
    <3>4. pool.totalLocked \in Nat /\ ledger.openTaskCount \in Nat
      BY PoolFields, LedgerFields, Zenon DEF LedgerInv, poolOK
    <3>. QED  BY <3>1, <3>3, <3>4
  <2>. QED  BY <2>1, <2>2
<1>. QED  BY <1>1, LedgerInit, LedgerNext, PTL DEF BondSpec, StopHaltsExposure

-----------------------------------------------------------------------------
(* Claims *)

RiskUnchanged == pool'.risk = pool.risk

\* The pool's accounting and the room lockCoverage reserved in the epoch, with the
\* manager as the allocator.
ReserveInv == LedgerInv /\ epochReserved(pool, now)

LEMMA ReserveInit == BondInit => ReserveInv
<1> SUFFICES ASSUME BondInit PROVE ReserveInv
  OBVIOUS
<1>1. LedgerInv /\ pool = InitialPool /\ now \in 0..MaxTime
  BY LedgerInit, Zenon DEF BondInit, LedgerInv
<1>2. /\ pool \in PoolStorage /\ poolBacked(pool) /\ validRiskControls(pool.risk)
      /\ \A t \in Tasks : pool.lockedByTask[t] = 0
      /\ \A e \in 0..MaxTime : pool.lossPaidByEpoch[e] = 0
  BY <1>1, DeploymentAssumption
<1>3. pool.totalLocked = 0
  BY <1>2, TotalZero, PoolFields DEF poolBacked
<1>4. currentEpoch(pool, now) \in 0..MaxTime /\ pool.risk.maxLossPerEpoch \in Nat
  BY <1>1, <1>2, EpochInRange, PoolFields
<1>. QED  BY <1>1, <1>2, <1>3, <1>4 DEF ReserveInv, epochReserved, validRiskControls

\* A transaction on a task leaves the pool alone, or locks or frees its coverage.
LEMMA TaskPoolStep ==
  ASSUME NEW t \in Tasks, TaskNext(t)
  PROVE  /\ now' = now
         /\ \/ pool' = pool
            \/ /\ canLockCoverage(pool, t, task[t].recourseCoverage, now)
               /\ pool' = lockCoverage(pool, t, task[t].recourseCoverage)
            \/ pool' = releaseForTask(pool, t)
            \/ /\ canPayClaim(pool, t, task[t].recourseCoverage, now)
               /\ pool' = payClaim(pool, t, task[t].recourseCoverage, now)
<1>1. CASE settleTask(t) \/ slashExpiredNoSubmission(t)
  <2>1. PICK status \in Terminal, claim \in BOOLEAN :
           /\ closeWith(t, status, claim)
           /\ recourseDue(task[t]) =>
                IF claim THEN canPayClaim(pool, t, task[t].recourseCoverage, now)
                ELSE canReleaseForTask(pool, t)
    BY <1>1, Closings
  <2>2. /\ now' = now
        /\ pool' = IF ~recourseDue(task[t]) THEN pool
                   ELSE IF claim THEN payClaim(pool, t, task[t].recourseCoverage, now)
                   ELSE releaseForTask(pool, t)
    BY <2>1 DEF closeWith
  <2>. QED  BY <2>1, <2>2
<1>2. ASSUME NEW a, acceptTask(t, a)
      PROVE  /\ now' = now
             /\ \/ pool' = pool
                \/ /\ canLockCoverage(pool, t, task[t].recourseCoverage, now)
                   /\ pool' = lockCoverage(pool, t, task[t].recourseCoverage)
  BY <1>2 DEF acceptTask
<1>3. ASSUME NEW r, NEW v, NEW id, NEW payout, NEW coverage,
             openTask(t, r, v, id, payout, coverage)
      PROVE  now' = now /\ pool' = pool
  BY <1>3 DEF openTask
<1>4. ASSUME NEW x, \/ commitEvidence(t, x) \/ submitVerifierReport(t, x)
                    \/ confirmVerifierReport(t, x) \/ challengeTask(t, x)
      PROVE  now' = now /\ pool' = pool
  BY <1>4 DEF commitEvidence, submitVerifierReport, confirmVerifierReport, challengeTask
<1>5. ASSUME NEW status, NEW share, resolveChallenge(t, status, share)
      PROVE  now' = now /\ pool' = pool
  BY <1>5, ResolveMoves
<1>6. cancelOpenTask(t) \/ startTask(t) => now' = now /\ pool' = pool
  BY DEF cancelOpenTask, startTask
<1>. QED  BY <1>1, <1>2, <1>3, <1>4, <1>5, <1>6 DEF TaskNext

\* The room reserved in the current epoch survives every step that leaves the risk
\* controls alone.
LEMMA ReserveNext ==
  ReserveInv /\ [BondNext]_bondVars /\ [RiskUnchanged]_bondVars => ReserveInv'
<1> SUFFICES ASSUME ReserveInv, LedgerInv', [BondNext]_bondVars, [RiskUnchanged]_bondVars
             PROVE  epochReserved(pool', now')
  BY LedgerNext DEF ReserveInv, epochReserved, currentEpoch
<1>1. /\ poolOK(pool) /\ pool \in PoolStorage /\ PoolInv /\ now \in 0..MaxTime
      /\ pool' \in PoolStorage /\ epochReserved(pool, now)
  BY DEF ReserveInv, LedgerInv, PoolInv, poolOK
<1>2. pool.totalLocked \in Nat /\ pool.lockedByTask \in [Tasks -> Nat]
  BY <1>1, PoolFields
<1>3. ASSUME NEW t \in Tasks, TaskNext(t)
      PROVE  epochReserved(pool', now')
  <2>0. task[t].recourseCoverage \in Nat
    BY ShareTypes, LedgerAt DEF ReserveInv
  <2>1. CASE pool' = pool /\ now' = now
    BY <1>1, <2>1
  <2>2. CASE /\ canLockCoverage(pool, t, task[t].recourseCoverage, now)
             /\ pool' = lockCoverage(pool, t, task[t].recourseCoverage) /\ now' = now
    BY <1>1, <2>0, <2>2, ReservedLock
  <2>3. CASE pool' = releaseForTask(pool, t) /\ now' = now
    <3>1. pool'.risk = pool.risk /\ pool'.lossPaidByEpoch = pool.lossPaidByEpoch
      BY <1>1, <2>3, Zenon DEF releaseForTask, PoolStorage
    <3>2. pool'.totalLocked = pool.totalLocked - pool.lockedByTask[t]
      BY <1>1, <2>3, ReleaseOK, Zenon
    <3>3. pool'.totalLocked <= pool.totalLocked
      BY <1>2, <3>2
    <3>. QED  BY <1>1, <2>3, <3>1, <3>3, ReservedKept
  <2>4. CASE /\ canPayClaim(pool, t, task[t].recourseCoverage, now)
             /\ pool' = payClaim(pool, t, task[t].recourseCoverage, now) /\ now' = now
    BY <1>1, <2>0, <2>4, ReservedClaim
  <2>. QED  BY <1>3, <2>1, <2>2, <2>3, <2>4, TaskPoolStep
<1>4. CASE BondTick
  BY <1>1, <1>4, ReservedTick, MaxTimeAssumption DEF BondTick, Tick
<1>5. CASE PoolOutsideNext \/ PoolOwnerNext
  <2>1. pool'.risk = pool.risk
    BY DEF RiskUnchanged, bondVars
  <2>2. /\ now' = now /\ pool'.lossPaidByEpoch = pool.lossPaidByEpoch
        /\ pool'.totalLocked = pool.totalLocked
    BY <1>1, <1>5, PoolStepOK
  <2>3. pool'.totalLocked <= pool.totalLocked
    BY SMTT(30), <1>2, <2>2
  <2>. QED  BY <1>1, <2>1, <2>2, <2>3, ReservedKept
<1>6. CASE \/ EscrowNext \/ StakeNext \/ AttesterNext \/ ControlNext \/ RegistryNext
           \/ EscrowOwnerNext \/ StakeOwnerNext \/ UNCHANGED bondVars
  BY <1>1, <1>6 DEF EscrowNext, StakeNext, AttesterNext, ControlNext, RegistryNext,
     EscrowOwnerNext, StakeOwnerNext, bondVars
<1>. QED
  BY <1>3, <1>4, <1>5, <1>6 DEF BondNext, ByParty, ByOwner, PartyNext, OwnerNext

\* As long as its owner leaves the risk controls alone, the pool can pay a claim on
\* all coverage the manager locked, whichever tasks were closed before it.
THEOREM ClaimsPayableInBonds ==
  BondSpec /\ [][RiskUnchanged]_bondVars => []ClaimsPayable
<1>1. ReserveInv => ClaimsPayable
  BY ReservePays DEF ReserveInv, LedgerInv, PoolReserveInv, PoolInv
<1>. QED  BY <1>1, ReserveInit, ReserveNext, PTL DEF BondSpec

-----------------------------------------------------------------------------
(* Settlement *)

\* No policy quotes a fee or a cancel bond of zero for a payout a requester names.
QuotesPositive ==
  \A id \in PolicyIds, payout \in Payouts :
    /\ quote(Policies[id], payout).verifierFee > 0
    /\ quote(Policies[id], payout).requesterCancelBond > 0

\* releaseTo and recordClosedBond reject zero, so a task can only be closed if its
\* amounts were positive when it was opened and accepted.
amountsPositive(k) ==
  /\ live(k) => /\ k.payout > 0 /\ k.quote.verifierFee > 0
                /\ k.quote.requesterCancelBond > 0
  /\ bonded(k) => k.quote.agentBond > 0

SettleInv ==
  /\ ReserveInv
  /\ \A t \in Tasks : amountsPositive(task[t])

LEMMA SettleInit == BondInit => SettleInv
<1> SUFFICES ASSUME BondInit PROVE SettleInv
  OBVIOUS
<1>1. \A t \in Tasks : task[t].status = "Unknown"
  BY Zenon DEF BondInit
<1>2. \A t \in Tasks : amountsPositive(task[t])
  BY <1>1, Zenon DEF amountsPositive, bonded, live
<1>. QED  BY <1>2, ReserveInit, Zenon DEF SettleInv

\* openTask takes the amounts from the quote of the policy.
LEMMA OpenedAmounts ==
  ASSUME QuotesPositive, task \in [Tasks -> TaskRecords], NEW t \in Tasks,
         NEW r, NEW v, NEW id \in PolicyIds, NEW payout \in Payouts, NEW coverage,
         openTask(t, r, v, id, payout, coverage)
  PROVE  othersKept(t) /\ amountsPositive(task'[t])
<1> DEFINE q == task'[t]
<1>1. /\ othersKept(t) /\ q.status = "Open" /\ q.payout = payout
      /\ q.quote = quote(Policies[id], payout)
  BY OpenTaskEffect
<1>2. payout > 0
  BY DEF openTask, validOpenTask
<1> HIDE DEF q
<1>3. q.quote.verifierFee > 0 /\ q.quote.requesterCancelBond > 0
  BY <1>1, <1>2 DEF QuotesPositive
<1>4. ~bonded(q)
  BY <1>1, Zenon DEF bonded
<1>. QED  BY <1>1, <1>2, <1>3, <1>4, Zenon DEF amountsPositive, q

\* Only openTask sets the amounts of a task, from the quote of its policy, and only
\* acceptTask lets its bond count.
LEMMA AmountsStayPositive ==
  ASSUME QuotesPositive, LedgerInv, \A u \in Tasks : amountsPositive(task[u]),
         NEW t \in Tasks, TaskNext(t)
  PROVE  othersKept(t) /\ amountsPositive(task'[t])
<1> DEFINE k == task[t]
           q == task'[t]
           kept == othersKept(t) /\ amountsPositive(q)
<1>0. task \in [Tasks -> TaskRecords] /\ amountsPositive(k)
  BY LedgerAt
<1>1. ASSUME NEW r \in Requesters, NEW v \in Verifiers, NEW id \in PolicyIds,
             NEW payout \in Payouts, NEW coverage \in Coverages,
             openTask(t, r, v, id, payout, coverage)
      PROVE  kept
  BY <1>0, <1>1, OpenedAmounts, Zenon
<1>2. CASE cancelOpenTask(t)
  BY <1>0, <1>2, CancelOpenTaskEffect, Zenon DEF amountsPositive, live, bonded, Terminal
<1>3. ASSUME NEW a \in Agents, acceptTask(t, a)
      PROVE  kept
  <2>1. k.quote.agentBond > 0
    BY <1>3 DEF acceptTask, canRecordOpenBond
  <2>. QED  BY <1>0, <1>3, <2>1, AcceptTaskEffect, Zenon DEF amountsPositive, live, Terminal
<1>4. CASE startTask(t)
  BY <1>0, <1>4, StartTaskEffect, Zenon DEF amountsPositive, live, bonded, Terminal, sameStakes
<1>5. ASSUME NEW until, commitEvidence(t, until)
      PROVE  kept
  BY <1>0, <1>5, CommitEvidenceEffect, Zenon
  DEF amountsPositive, live, bonded, Terminal, Working, sameStakes
<1>6. ASSUME NEW status, submitVerifierReport(t, status)
      PROVE  kept
  BY <1>0, <1>6, SubmitVerifierReportEffect, Zenon
  DEF amountsPositive, live, bonded, Terminal, sameStakes
<1>7. ASSUME NEW v, confirmVerifierReport(t, v)
      PROVE  kept
  BY <1>0, <1>7, ConfirmVerifierReportEffect, Zenon DEF amountsPositive, live, bonded, sameStakes
<1>8. ASSUME NEW a, challengeTask(t, a)
      PROVE  kept
  BY <1>0, <1>8, ChallengeTaskEffect
  DEF amountsPositive, live, bonded, Terminal, ReportStatuses, sameStakes
<1>9. ASSUME NEW status, NEW share, resolveChallenge(t, status, share)
      PROVE  kept
  BY <1>0, <1>9, ResolveChallengeEffect, Zenon DEF amountsPositive, live, bonded, Terminal, sameStakes
<1>10. CASE settleTask(t) \/ slashExpiredNoSubmission(t)
  <2>1. PICK status \in Terminal, claim \in BOOLEAN : closeWith(t, status, claim)
    BY <1>10, Closings
  <2>. QED  BY <1>0, <2>1, CloseWithEffect DEF amountsPositive, live, bonded
<1>. QED
  BY <1>1, <1>2, <1>3, <1>4, <1>5, <1>6, <1>7, <1>8, <1>9, <1>10, Zenon DEF TaskNext

LEMMA SettleNext ==
  ASSUME QuotesPositive
  PROVE  SettleInv /\ [BondNext]_bondVars /\ [RiskUnchanged]_bondVars => SettleInv'
<1> SUFFICES ASSUME SettleInv, [BondNext]_bondVars, [RiskUnchanged]_bondVars
             PROVE  SettleInv'
  OBVIOUS
<1>1. ReserveInv /\ ReserveInv' /\ LedgerInv
  BY ReserveNext DEF SettleInv, ReserveInv
<1>2. \A u \in Tasks : amountsPositive(task'[u])
  <2>1. ASSUME NEW t \in Tasks, TaskNext(t)
        PROVE  \A u \in Tasks : amountsPositive(task'[u])
    <3>1. othersKept(t) /\ amountsPositive(task'[t])
      BY <1>1, <2>1, AmountsStayPositive DEF SettleInv
    <3>. QED  BY <3>1 DEF othersKept, SettleInv
  <2>2. CASE ~\E t \in Tasks : TaskNext(t)
    <3>1. task' = task
      BY <2>2, OnlyTaskStepsTouchTasks
    <3>. QED  BY <3>1 DEF SettleInv
  <2>. QED  BY <2>1, <2>2
<1>. QED  BY <1>1, <1>2 DEF SettleInv, amountsPositive, live, bonded

\* What a task contributes to the totals can be taken out of them again.
LEMMA TotalsHoldTask ==
  ASSUME LedgerInv, NEW t \in Tasks
  PROVE  LET k == task[t]
         IN  /\ lockedFor(k) <= ledger.openExposure
             /\ live(k) => ledger.openTaskCount > 0
             /\ bonded(k) =>
                  /\ k.quote.agentBond <= stake.openBondExposure[k.agent]
                  /\ k.recourseCoverage <= ledger.byRequester[k.requester]
                  /\ k.recourseCoverage <= ledger.byAgent[k.agent]
                  /\ k.recourseCoverage <= ledger.byVerifier[k.verifier]
                  /\ pool.lockedByTask[t] = k.recourseCoverage
<1> DEFINE k == task[t]
<1>1. /\ k \in TaskRecords /\ partiesOK(k) /\ \A u \in Tasks : task[u] \in TaskRecords
      /\ escrow.lockedByTask \in [Tasks -> Nat] /\ escrow.lockedByTask[t] = lockedFor(k)
  BY LedgerAt, InvAt
<1>2. lockedFor(k) <= ledger.openExposure
  BY <1>1, TotalAtLeast, PartiesAssumption DEF LedgerInv, ExposureMatchesEscrow
<1>3. ASSUME live(k)
      PROVE  ledger.openTaskCount > 0
  <2> DEFINE S == {u \in Tasks : live(task[u])}
  <2>1. IsFiniteSet(S) /\ S # {} /\ ledger.openTaskCount = Cardinality(S)
    BY <1>3, FS_Subset, PartiesAssumption DEF LedgerInv, ExposureMatchesEscrow
  <2>2. Cardinality(S) \in Nat /\ Cardinality(S) # 0
    BY <2>1, FS_CardinalityType, FS_EmptySet
  <2>. QED  BY <2>1, <2>2
<1>4. ASSUME bonded(k)
      PROVE  /\ k.quote.agentBond <= stake.openBondExposure[k.agent]
             /\ k.recourseCoverage <= ledger.byRequester[k.requester]
             /\ k.recourseCoverage <= ledger.byAgent[k.agent]
             /\ k.recourseCoverage <= ledger.byVerifier[k.verifier]
             /\ pool.lockedByTask[t] = k.recourseCoverage
  <2>1. k.requester \in Accounts /\ k.agent \in Accounts /\ k.verifier \in Accounts
    BY <1>1, <1>4 DEF partiesOK, bonded
  <2>2. coverageOf(k) = k.recourseCoverage
    BY <1>4 DEF coverageOf
  <2>3. \A u \in Tasks : /\ coverageOf(task[u]) \in Nat
                         /\ bondOf(task[u], k.agent) \in Nat
    BY <1>1, ShareTypes
  <2>4. k.quote.agentBond <= stake.openBondExposure[k.agent]
    <3> DEFINE f == [u \in Tasks |-> bondOf(task[u], k.agent)]
    <3>1. f \in [Tasks -> Nat] /\ f[t] = k.quote.agentBond
      BY <1>4, <2>3 DEF bondOf
    <3>2. stake.openBondExposure[k.agent] = Total(f)
      BY <2>1 DEF LedgerInv, BondsMatchStake
    <3> HIDE DEF f
    <3>. QED  BY <3>1, <3>2, TotalAtLeast, PartiesAssumption
  <2>5. k.recourseCoverage <= ledger.byRequester[k.requester]
    <3> DEFINE f == [u \in Tasks |->
                       IF task[u].requester = k.requester THEN coverageOf(task[u]) ELSE 0]
    <3>1. f \in [Tasks -> Nat] /\ f[t] = k.recourseCoverage
      BY <2>2, <2>3
    <3>2. ledger.byRequester[k.requester] = Total(f)
      BY <2>1, Zenon DEF LedgerInv, RecourseMatchesPool
    <3> HIDE DEF f
    <3>. QED  BY <3>1, <3>2, TotalAtLeast, PartiesAssumption
  <2>6. k.recourseCoverage <= ledger.byAgent[k.agent]
    <3> DEFINE f == [u \in Tasks |->
                       IF task[u].agent = k.agent THEN coverageOf(task[u]) ELSE 0]
    <3>1. f \in [Tasks -> Nat] /\ f[t] = k.recourseCoverage
      BY <2>2, <2>3
    <3>2. ledger.byAgent[k.agent] = Total(f)
      BY <2>1, Zenon DEF LedgerInv, RecourseMatchesPool
    <3> HIDE DEF f
    <3>. QED  BY <3>1, <3>2, TotalAtLeast, PartiesAssumption
  <2>7. k.recourseCoverage <= ledger.byVerifier[k.verifier]
    <3> DEFINE f == [u \in Tasks |->
                       IF task[u].verifier = k.verifier THEN coverageOf(task[u]) ELSE 0]
    <3>1. f \in [Tasks -> Nat] /\ f[t] = k.recourseCoverage
      BY <2>2, <2>3
    <3>2. ledger.byVerifier[k.verifier] = Total(f)
      BY <2>1, Zenon DEF LedgerInv, RecourseMatchesPool
    <3> HIDE DEF f
    <3>. QED  BY <3>1, <3>2, TotalAtLeast, PartiesAssumption
  <2>8. pool.lockedByTask[t] = k.recourseCoverage
    BY <2>2 DEF LedgerInv, RecourseMatchesPool
  <2>. QED  BY <2>4, <2>5, <2>6, <2>7, <2>8
<1>. QED  BY <1>2, <1>3, <1>4

\* The calls all closing functions make.
LEMMA ClosingAccepted ==
  ASSUME SettleInv, wired, NEW t \in Tasks, bonded(task[t])
  PROVE  closingAccepted(t)
<1> DEFINE k == task[t]
<1>1. /\ LedgerInv /\ k \in TaskRecords /\ amountsPositive(k)
      /\ escrow.lockedByTask[t] = lockedFor(k)
  BY LedgerAt, InvAt DEF SettleInv, ReserveInv
<1>2. /\ k.payout \in Nat /\ k.quote.agentBond \in Nat /\ k.quote.verifierFee \in Nat
      /\ k.quote.requesterCancelBond \in Nat /\ k.disputeBondLocked \in Nat
      /\ escrowedFor(k) \in Nat
  BY <1>1, TaskFields
<1>3. k.payout > 0 /\ k.quote.agentBond > 0
  BY <1>1 DEF amountsPositive, bonded
<1>4. /\ lockedFor(k) <= ledger.openExposure /\ ledger.openTaskCount > 0
      /\ k.quote.agentBond <= stake.openBondExposure[k.agent]
      /\ k.recourseCoverage <= ledger.byRequester[k.requester]
      /\ k.recourseCoverage <= ledger.byAgent[k.agent]
      /\ k.recourseCoverage <= ledger.byVerifier[k.verifier]
  BY <1>1, TotalsHoldTask DEF bonded
<1>5. ledger.openExposure \in Nat
  BY LedgerFields, Zenon DEF SettleInv, ReserveInv, LedgerInv
<1>6. lockedFor(k) = escrowedFor(k) + k.disputeBondLocked
  BY DEF lockedFor
<1>7. escrowedFor(k) > 0
  BY SMTT(30), <1>2, <1>3 DEF escrowedFor, requesterEscrow
<1> HIDE DEF k
<1>8. escrowedFor(k) <= ledger.openExposure /\ escrowedFor(k) <= lockedFor(k)
  BY SMTT(30), <1>2, <1>4, <1>5, <1>6
<1>9. canCloseTask(ledger, k, escrowedFor(k))
  BY <1>4, <1>8 DEF canCloseTask
<1>10. canRecordClosedBond(stake, k.agent, k.quote.agentBond)
  BY <1>3, <1>4 DEF canRecordClosedBond, wired
<1>11. canDecreaseLocked(escrow, t, escrowedFor(k))
  BY <1>1, <1>7, <1>8 DEF canDecreaseLocked, wired
<1>. QED  BY <1>9, <1>10, <1>11 DEF closingAccepted, k

\* The calls a closing function makes to the pool, for a release and for a claim.
LEMMA RecourseAccepted ==
  ASSUME SettleInv, wired, NEW t \in Tasks, bonded(task[t]), recourseDue(task[t])
  PROVE  /\ canReleaseForTask(pool, t)
         /\ canPayClaim(pool, t, task[t].recourseCoverage, now)
<1>1. /\ LedgerInv /\ task[t] \in TaskRecords /\ poolOK(pool) /\ PoolReserveInv
  BY LedgerAt DEF SettleInv, ReserveInv, LedgerInv, PoolReserveInv, PoolInv
<1>2. pool.lockedByTask[t] = task[t].recourseCoverage /\ task[t].recourseCoverage \in Nat
  BY <1>1, TotalsHoldTask, ShareTypes
<1>3. pool.lockedByTask[t] > 0 /\ pool.allocator
  BY SMTT(30), <1>2 DEF recourseDue, covered, wired
<1>4. canPayClaim(pool, t, pool.lockedByTask[t], now)
  BY <1>1, <1>3, ReservePays DEF ClaimsPayable
<1>5. pool.lockedByTask[t] <= pool.totalLocked
  BY <1>1, ReleaseOK, Zenon
<1>. QED  BY <1>2, <1>3, <1>4, <1>5 DEF canReleaseForTask

\* The calls of cancelOpenTask.
LEMMA CancelAccepted ==
  ASSUME SettleInv, wired, NEW t \in Tasks, task[t].status = "Open"
  PROVE  cancelAccepted(t)
<1> DEFINE k == task[t]
<1>1. /\ LedgerInv /\ k \in TaskRecords /\ amountsPositive(k)
      /\ escrow.lockedByTask[t] = lockedFor(k)
  BY LedgerAt, InvAt DEF SettleInv, ReserveInv
<1>2. live(k) /\ lockedFor(k) = requesterEscrow(k)
  BY DEF live, bonded, Terminal, lockedFor
<1>3. /\ k.payout \in Nat /\ k.quote.verifierFee \in Nat
      /\ k.quote.requesterCancelBond \in Nat /\ requesterEscrow(k) \in Nat
  BY <1>1, TaskFields
<1>4. requesterEscrow(k) > 0
  <2>1. k.quote.requesterCancelBond > 0
    BY <1>1, <1>2, Zenon DEF amountsPositive
  <2>. QED  BY <1>3, <2>1 DEF requesterEscrow
<1>5. lockedFor(k) <= ledger.openExposure /\ ledger.openTaskCount > 0
  BY <1>1, <1>2, TotalsHoldTask, Zenon
<1>. QED
  BY SMTT(30), <1>1, <1>2, <1>3, <1>4, <1>5 DEF cancelAccepted, canDecreaseLocked, wired

LEMMA SettleAccepts == SettleInv => SettlementAccepted
<1> SUFFICES ASSUME SettleInv, wired, NEW t \in Tasks
             PROVE  /\ task[t].status = "Open" => cancelAccepted(t)
                    /\ task[t].status = "Verified" => verifiedAccepted(t)
                    /\ task[t].status = "Failed" => failedAccepted(t)
                    /\ task[t].status \in {"Unsupported", "Reorged"} => refundAccepted(t)
                    /\ expired(task[t]) => expiryAccepted(t)
  BY Zenon DEF SettlementAccepted
<1>1. task[t].status = "Open" => cancelAccepted(t)
  BY CancelAccepted
<1>2. task[t].status \in ReportStatuses \cup Working => bonded(task[t])
  BY DEF bonded, live, ReportStatuses, Working, Terminal
<1>3. bonded(task[t]) => /\ task[t].quote.requesterCancelBond > 0
                         /\ task[t].quote.verifierFee > 0
  BY DEF SettleInv, amountsPositive, bonded
<1>4. bonded(task[t]) => closingAccepted(t)
  BY ClosingAccepted
<1>5. bonded(task[t]) /\ recourseDue(task[t]) =>
        /\ canReleaseForTask(pool, t)
        /\ canPayClaim(pool, t, task[t].recourseCoverage, now)
  BY RecourseAccepted
<1>. QED
  BY <1>1, <1>2, <1>3, <1>4, <1>5, Zenon
  DEF ReportStatuses, verifiedAccepted, failedAccepted, refundAccepted, expiryAccepted, expired

\* If policies quote positive fees and cancel bonds and the owner of the pool leaves
\* its risk controls alone, then, while the manager keeps its roles, every task that
\* passes the checks of cancelOpenTask, settleTask or slashExpiredNoSubmission can be
\* closed: no call those functions make to the other contracts reverts.
THEOREM SettlementNeverStranded ==
  ASSUME QuotesPositive
  PROVE  BondSpec /\ [][RiskUnchanged]_bondVars => []SettlementAccepted
BY SettleInit, SettleNext, SettleAccepts, PTL DEF BondSpec

-----------------------------------------------------------------------------
(* Stake *)

ParametersUnchanged == stake'.params = stake.params

\* An agent that has a bond open has its stake, before and after the stake of another
\* account, or more of its own, is touched.
behind(s, a) ==
  s.openBondExposure[a] > 0 => s.stakeOf[a] + s.slashedStake[a] >= s.params.minAgentStake

\* The calls of the manager.
LEMMA OpenBondBehind ==
  ASSUME NEW s \in StakeStorage, NEW a \in Accounts, NEW n, isAgentEligible(s, a),
         NEW b \in Accounts, behind(s, b)
  PROVE  behind(recordOpenBond(s, a, n), b)
<1> DEFINE q == recordOpenBond(s, a, n)
<1>1. /\ q.openBondExposure = [s.openBondExposure EXCEPT ![a] = s.openBondExposure[a] + n]
      /\ q.stakeOf = s.stakeOf /\ q.slashedStake = s.slashedStake /\ q.params = s.params
  BY Zenon DEF StakeStorage, recordOpenBond
<1>2. /\ s.openBondExposure \in [Accounts -> Nat] /\ s.stakeOf[a] \in Nat
      /\ s.slashedStake[a] \in Nat /\ s.params.minAgentStake \in Nat
  BY DEF StakeStorage
<1> HIDE DEF q
<1>3. behind(q, b)
  BY <1>1, <1>2 DEF behind, isAgentEligible
<1>. QED  BY <1>3 DEF q

LEMMA ClosedBondBehind ==
  ASSUME NEW s \in StakeStorage, NEW a \in Accounts, NEW n \in Nat,
         NEW b \in Accounts, behind(s, b)
  PROVE  behind(recordClosedBond(s, a, n), b)
<1> DEFINE q == recordClosedBond(s, a, n)
<1>1. /\ q.openBondExposure = [s.openBondExposure EXCEPT ![a] = s.openBondExposure[a] - n]
      /\ q.stakeOf = s.stakeOf /\ q.slashedStake = s.slashedStake /\ q.params = s.params
  BY Zenon DEF StakeStorage, recordClosedBond
<1>2. s.openBondExposure \in [Accounts -> Nat]
  BY DEF StakeStorage
<1> HIDE DEF q
<1>3. q.openBondExposure[b] > 0 => s.openBondExposure[b] > 0
  BY SMTT(30), <1>1, <1>2
<1>4. behind(q, b)
  BY <1>1, <1>3 DEF behind
<1>. QED  BY <1>4 DEF q

LEMMA SlashBehind ==
  ASSUME NEW s \in StakeStorage, NEW a \in Accounts, NEW n \in Nat,
         NEW b \in Accounts, behind(s, b)
  PROVE  behind(slashStake(s, a, n), b)
<1> DEFINE q == slashStake(s, a, n)
<1>1. /\ q.stakeOf = [s.stakeOf EXCEPT ![a] = s.stakeOf[a] - n]
      /\ q.slashedStake = [s.slashedStake EXCEPT ![a] = s.slashedStake[a] + n]
      /\ q.openBondExposure = s.openBondExposure /\ q.params = s.params
  BY Zenon DEF StakeStorage, slashStake
<1>2. s.stakeOf \in [Accounts -> Nat] /\ s.slashedStake \in [Accounts -> Nat]
  BY DEF StakeStorage
<1> HIDE DEF q
<1>3. q.stakeOf[b] + q.slashedStake[b] = s.stakeOf[b] + s.slashedStake[b]
  BY <1>1, <1>2
<1>4. behind(q, b)
  BY <1>1, <1>3 DEF behind
<1>. QED  BY <1>4 DEF q

\* Deposits, withdrawals and the settings of the owner that keep the parameters.
LEMMA StakeStepBehind ==
  ASSUME stake \in StakeStorage, StakeNext \/ StakeOwnerNext, ParametersUnchanged,
         NEW b \in Accounts, behind(stake, b)
  PROVE  behind(stake', b)
<1>0. /\ stake.stakeOf \in [Accounts -> Nat] /\ stake.slashedStake \in [Accounts -> Nat]
      /\ stake.openBondExposure \in [Accounts -> Nat]
      /\ stake.params.minAgentStake \in Nat
  BY DEF StakeStorage
<1>1. ASSUME NEW a \in Accounts, NEW n \in StakeAmounts, StakeDeposit(a, n)
      PROVE  behind(stake', b)
  <2>1. /\ stake'.stakeOf = [stake.stakeOf EXCEPT ![a] = stake.stakeOf[a] + n]
        /\ stake'.slashedStake = stake.slashedStake
        /\ stake'.openBondExposure = stake.openBondExposure /\ stake'.params = stake.params
    BY <1>1, Zenon DEF StakeDeposit, StakeStorage
  <2>2. n \in Nat
    BY StakeAssumption
  <2>3. stake'.stakeOf[b] >= stake.stakeOf[b] /\ stake'.stakeOf[b] \in Nat
    BY SMTT(30), <1>0, <2>1, <2>2
  <2>. QED  BY SMTT(30), <1>0, <2>1, <2>3 DEF behind
<1>2. ASSUME NEW a \in Accounts, NEW n \in StakeAmounts, StakeWithdraw(a, n)
      PROVE  behind(stake', b)
  <2>1. /\ stake'.stakeOf = [stake.stakeOf EXCEPT ![a] = stake.stakeOf[a] - n]
        /\ stake'.slashedStake = stake.slashedStake
        /\ stake'.openBondExposure = stake.openBondExposure /\ stake'.params = stake.params
    BY <1>2, Zenon DEF StakeWithdraw, StakeStorage
  <2>2. /\ n \in Nat /\ n <= stake.stakeOf[a]
        /\ stake.openBondExposure[a] > 0 =>
             stake.stakeOf[a] - n >= stake.params.minAgentStake
    BY <1>2, StakeAssumption DEF StakeWithdraw
  <2>3. CASE b = a
    BY SMTT(30), <1>0, <2>1, <2>2, <2>3 DEF behind
  <2>4. CASE b # a
    BY <1>0, <2>1, <2>4 DEF behind
  <2>. QED  BY <2>3, <2>4
<1>3. ASSUME NEW x, StakeSetParameters(x) \/ StakeSetSlashAuthority(x)
      PROVE  behind(stake', b)
  <2>1. /\ stake'.stakeOf = stake.stakeOf /\ stake'.slashedStake = stake.slashedStake
        /\ stake'.openBondExposure = stake.openBondExposure
    BY <1>3, Zenon DEF StakeSetParameters, StakeSetSlashAuthority, StakeStorage
  <2>. QED  BY <2>1 DEF behind, ParametersUnchanged
<1>. QED  BY <1>1, <1>2, <1>3 DEF StakeNext, StakeOwnerNext

\* A transaction on a task leaves the registry alone, opens or closes the bond of an
\* agent, or slashes a verifier.
LEMMA TaskStakeStep ==
  ASSUME LedgerInv, NEW t \in Tasks, TaskNext(t)
  PROVE  \/ stake' = stake
         \/ \E a \in Accounts, n \in Nat :
              /\ isAgentEligible(stake, a) /\ stake' = recordOpenBond(stake, a, n)
         \/ \E a \in Accounts, n \in Nat : stake' = recordClosedBond(stake, a, n)
         \/ \E a \in Accounts, n \in Nat : stake' = slashStake(stake, a, n)
<1> DEFINE k == task[t]
<1>0. /\ task \in [Tasks -> TaskRecords] /\ partiesOK(k) /\ k.quote.agentBond \in Nat
  BY LedgerAt, TaskFields, Zenon
<1>1. CASE settleTask(t) \/ slashExpiredNoSubmission(t)
  <2>1. k.agent \in Accounts
    BY <1>0, <1>1, Closings, Zenon DEF partiesOK
  <2>2. stake' = recordClosedBond(stake, k.agent, k.quote.agentBond)
    BY <1>1, Closings, Zenon DEF closeWith
  <2>. QED  BY <1>0, <2>1, <2>2
<1>2. ASSUME NEW a \in Agents, acceptTask(t, a)
      PROVE  \E b \in Accounts, n \in Nat :
               isAgentEligible(stake, b) /\ stake' = recordOpenBond(stake, b, n)
  <2>1. /\ isAgentEligible(stake, a)
        /\ stake' = recordOpenBond(stake, a, k.quote.agentBond)
    BY <1>2 DEF acceptTask, canOpenAgentBond
  <2>. QED  BY <1>0, <2>1, RolesAssumption, Zenon
<1>3. ASSUME NEW status, NEW share \in SlashBps, resolveChallenge(t, status, share)
      PROVE  \/ stake' = stake
             \/ \E a \in Accounts, n \in Nat : stake' = slashStake(stake, a, n)
  <2> DEFINE n == (stake.stakeOf[k.verifier] * share) \div 10000
  <2>1. k.verifier \in Accounts
    <3>1. k.status = "Challenged"
      BY <1>0, <1>3, ResolveChallengeEffect, Zenon
    <3>. QED  BY <1>0, <3>1 DEF partiesOK, live, Terminal
  <2>2. stake.stakeOf[k.verifier] \in Nat /\ share \in Nat
    BY <2>1, StakeFields, RolesAssumption DEF LedgerInv, stakeOK
  <2>3. stake.stakeOf[k.verifier] * share \in Nat
    BY <2>2
  <2>4. n \in Nat
    BY SMTT(30), <2>3, DivFacts
  <2> DEFINE s == challengeSlash(k, status, share)
  <2>5. stake' = IF s > 0 THEN slashStake(stake, k.verifier, s) ELSE stake
    BY <1>3, ResolveMoves
  <2>6. s \in Nat
    BY <2>4 DEF challengeSlash
  <2> HIDE DEF n, s
  <2>. QED  BY <2>1, <2>5, <2>6
<1>4. ASSUME NEW r, NEW v, NEW id, NEW payout, NEW coverage,
             openTask(t, r, v, id, payout, coverage)
      PROVE  stake' = stake
  BY <1>4 DEF openTask
<1>5. ASSUME NEW x, \/ commitEvidence(t, x) \/ submitVerifierReport(t, x)
                    \/ confirmVerifierReport(t, x) \/ challengeTask(t, x)
      PROVE  stake' = stake
  BY <1>5 DEF commitEvidence, submitVerifierReport, confirmVerifierReport, challengeTask
<1>6. cancelOpenTask(t) \/ startTask(t) => stake' = stake
  BY DEF cancelOpenTask, startTask
<1> HIDE DEF k
<1>7. CASE \E a \in Agents : acceptTask(t, a)
  BY <1>2, <1>7
<1>8. CASE \E status \in ReportStatuses, share \in SlashBps : resolveChallenge(t, status, share)
  BY <1>3, <1>8
<1>9. CASE \/ \E until \in AvailabilityUntil : commitEvidence(t, until)
           \/ \E status \in ReportStatuses : submitVerifierReport(t, status)
           \/ \E v \in Verifiers : confirmVerifierReport(t, v)
           \/ \E a \in Challengers : challengeTask(t, a)
  BY <1>5, <1>9
<1>10. CASE \E r \in Requesters, v \in Verifiers, id \in PolicyIds, payout \in Payouts,
              coverage \in Coverages : openTask(t, r, v, id, payout, coverage)
  BY <1>4, <1>10
<1>. QED  BY <1>1, <1>6, <1>7, <1>8, <1>9, <1>10, SMTT(30) DEF TaskNext

StakeInv == LedgerInv /\ StakeBehindBonds

LEMMA StakeInvInit == BondInit => StakeInv
<1> SUFFICES ASSUME BondInit PROVE StakeInv
  OBVIOUS
<1>1. stake = InitialStake
  BY Zenon DEF BondInit
<1>2. StakeBehindBonds
  BY <1>1, DeploymentAssumption DEF StakeBehindBonds
<1>. QED  BY <1>2, LedgerInit, Zenon DEF StakeInv

LEMMA StakeInvNext ==
  StakeInv /\ [BondNext]_bondVars /\ [ParametersUnchanged]_bondVars => StakeInv'
<1> SUFFICES ASSUME StakeInv, [BondNext]_bondVars, [ParametersUnchanged]_bondVars,
                    NEW b \in Accounts
             PROVE  behind(stake', b)
  BY LedgerNext DEF StakeInv, StakeBehindBonds, behind
<1>1. stake \in StakeStorage /\ behind(stake, b) /\ LedgerInv
  BY DEF StakeInv, StakeBehindBonds, behind, LedgerInv, stakeOK
<1>2. ASSUME NEW t \in Tasks, TaskNext(t)
      PROVE  behind(stake', b)
  <2>1. CASE stake' = stake
    BY <1>1, <2>1
  <2>2. ASSUME NEW a \in Accounts, NEW n \in Nat, isAgentEligible(stake, a),
               stake' = recordOpenBond(stake, a, n)
        PROVE  behind(stake', b)
    BY <1>1, <2>2, OpenBondBehind
  <2>3. ASSUME NEW a \in Accounts, NEW n \in Nat, stake' = recordClosedBond(stake, a, n)
        PROVE  behind(stake', b)
    BY <1>1, <2>3, ClosedBondBehind
  <2>4. ASSUME NEW a \in Accounts, NEW n \in Nat, stake' = slashStake(stake, a, n)
        PROVE  behind(stake', b)
    BY <1>1, <2>4, SlashBehind
  <2>. QED  BY <1>1, <1>2, <2>1, <2>2, <2>3, <2>4, TaskStakeStep
<1>3. CASE StakeNext \/ StakeOwnerNext
  <2>1. CASE ParametersUnchanged
    BY <1>1, <1>3, <2>1, StakeStepBehind
  <2>2. CASE UNCHANGED bondVars
    BY <1>1, <2>2 DEF bondVars
  <2>. QED  BY <2>1, <2>2
<1>4. CASE \/ BondTick \/ EscrowNext \/ PoolOutsideNext \/ AttesterNext \/ ControlNext
           \/ RegistryNext \/ EscrowOwnerNext \/ PoolOwnerNext \/ UNCHANGED bondVars
  <2>1. stake' = stake
    BY <1>4 DEF BondTick, EscrowNext, PoolOutsideNext, AttesterNext, ControlNext,
       RegistryNext, EscrowOwnerNext, PoolOwnerNext, bondVars
  <2>. QED  BY <1>1, <2>1
<1>. QED  BY <1>2, <1>3, <1>4 DEF BondNext, ByParty, ByOwner, PartyNext, OwnerNext

\* As long as the owner of the stake registry leaves its parameters alone, an agent
\* with an open bond has the minimum stake, except for what was slashed from it:
\* no sequence of deposits, withdrawals, bonds and slashes takes it out.
THEOREM StakeStaysBehindBonds ==
  BondSpec /\ [][ParametersUnchanged]_bondVars => []StakeBehindBonds
<1>1. StakeInv => StakeBehindBonds
  BY DEF StakeInv
<1>. QED  BY <1>1, StakeInvInit, StakeInvNext, PTL DEF BondSpec

=============================================================================
