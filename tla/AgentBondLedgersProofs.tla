----------------------- MODULE AgentBondLedgersProofs -----------------------
(***************************************************************************)
(* The running totals the contracts keep beside the tasks: the exposure    *)
(* and the task count of the manager, the open bonds of the stake          *)
(* registry, the coverage locked in the pool and the manager's three       *)
(* recourse mappings.  Each is the sum over the tasks it summarises, for   *)
(* any number of tasks and accounts and any amounts.                       *)
(***************************************************************************)
EXTENDS AgentBondEffectsProofs, AgentUnderwriterPoolProofs

-----------------------------------------------------------------------------
(* What one task contributes to each total *)

countOf(k) == IF live(k) THEN 1 ELSE 0

requesterShare(k, a) == IF k.requester = a THEN coverageOf(k) ELSE 0
agentShare(k, a) == IF k.agent = a THEN coverageOf(k) ELSE 0
verifierShare(k, a) == IF k.verifier = a THEN coverageOf(k) ELSE 0

LEMMA ShareTypes ==
  ASSUME NEW k \in TaskRecords
  PROVE  /\ k.recourseCoverage \in Nat /\ coverageOf(k) \in Nat /\ countOf(k) \in Nat
         /\ lockedFor(k) \in Nat
         /\ \A a : /\ bondOf(k, a) \in Nat /\ requesterShare(k, a) \in Nat
                   /\ agentShare(k, a) \in Nat /\ verifierShare(k, a) \in Nat
<1>1. k.recourseCoverage \in Nat
  BY Zenon DEF TaskRecords
<1>2. coverageOf(k) \in Nat /\ countOf(k) \in Nat
  BY <1>1 DEF coverageOf, countOf
<1>3. lockedFor(k) \in Nat /\ \A a : bondOf(k, a) \in Nat
  BY TaskFields DEF lockedFor, bondOf
<1>. QED
  BY <1>1, <1>2, <1>3 DEF requesterShare, agentShare, verifierShare

LEMMA LedgerFields ==
  ASSUME NEW l \in Ledgers
  PROVE  /\ l.openExposure \in Nat /\ l.openTaskCount \in Nat
         /\ l.byRequester \in [Accounts -> Nat] /\ l.byAgent \in [Accounts -> Nat]
         /\ l.byVerifier \in [Accounts -> Nat]
BY DEF Ledgers

LEMMA StakeFields ==
  ASSUME NEW s \in StakeStorage
  PROVE  /\ s.stakeOf \in [Accounts -> Nat] /\ s.openBondExposure \in [Accounts -> Nat]
         /\ s.slashedStake \in [Accounts -> Nat] /\ s.balance \in Nat
         /\ s.authority \in BOOLEAN /\ Total(s.stakeOf) \in Nat
<1>1. /\ s.stakeOf \in [Accounts -> Nat] /\ s.openBondExposure \in [Accounts -> Nat]
      /\ s.slashedStake \in [Accounts -> Nat] /\ s.balance \in Nat
      /\ s.authority \in BOOLEAN
  BY DEF StakeStorage
<1>. QED  BY <1>1, TotalType, PartiesAssumption

-----------------------------------------------------------------------------
(* The inductive invariant *)

stakeOK(s) == s \in StakeStorage /\ stakeSolvent(s)

\* The totals agree with the tasks only together with the types of all contracts
\* (no subtraction wraps), with the pool's own accounting, and because a claim
\* is paid only when its task closes.
LedgerInv ==
  /\ CustodyInv
  /\ now \in 0..MaxTime
  /\ ledger \in Ledgers /\ stakeOK(stake) /\ poolOK(pool)
  /\ \A t \in Tasks : task[t].status \notin Terminal => ~task[t].recourseClaimPaid
  /\ ExposureMatchesEscrow
  /\ BondsMatchStake
  /\ RecourseMatchesPool

\* The totals change by what task t contributes after the step instead of before.
ledgerFollows(k, q) ==
  /\ ledger' \in Ledgers
  /\ ledger'.openExposure = ledger.openExposure - lockedFor(k) + lockedFor(q)
  /\ ledger'.openTaskCount = ledger.openTaskCount - countOf(k) + countOf(q)
  /\ \A a \in Accounts :
       /\ ledger'.byRequester[a] =
            ledger.byRequester[a] - requesterShare(k, a) + requesterShare(q, a)
       /\ ledger'.byAgent[a] = ledger.byAgent[a] - agentShare(k, a) + agentShare(q, a)
       /\ ledger'.byVerifier[a] =
            ledger.byVerifier[a] - verifierShare(k, a) + verifierShare(q, a)

stakeFollows(k, q) ==
  /\ stakeOK(stake')
  /\ \A a \in Accounts :
       stake'.openBondExposure[a] = stake.openBondExposure[a] - bondOf(k, a) + bondOf(q, a)

poolFollows(t, q) ==
  /\ poolOK(pool')
  /\ pool'.lockedByTask = [pool.lockedByTask EXCEPT ![t] = coverageOf(q)]

\* The number of live tasks follows the one task that changes.
LEMMA LiveCount ==
  ASSUME NEW t \in Tasks, othersKept(t)
  PROVE  Cardinality({u \in Tasks : live(task'[u])}) =
           Cardinality({u \in Tasks : live(task[u])}) - countOf(task[t]) + countOf(task'[t])
<1> DEFINE S == {u \in Tasks : live(task[u])}
           R == {u \in Tasks : live(task'[u])}
<1>1. IsFiniteSet(S) /\ IsFiniteSet(R)
  BY FS_Subset, PartiesAssumption
<1>2. Cardinality(S) \in Nat
  BY <1>1, FS_CardinalityType
<1>3. CASE live(task[t]) = live(task'[t])
  <2>1. S = R
    BY <1>3 DEF othersKept
  <2>2. countOf(task[t]) = countOf(task'[t]) /\ countOf(task[t]) \in Nat
    BY <1>3, Zenon DEF countOf
  <2>3. \A n, c \in Nat : n = n - c + c
    OBVIOUS
  <2>4. Cardinality(S) = Cardinality(S) - countOf(task[t]) + countOf(task'[t])
    BY <1>2, <2>2, <2>3, Zenon
  <2>. QED  BY <2>1, <2>4, Zenon
<1>4. CASE live(task[t]) /\ ~live(task'[t])
  <2>1. R = S \ {t} /\ t \in S
    BY <1>4 DEF othersKept
  <2>2. Cardinality(R) = Cardinality(S) - 1
    BY <1>1, <2>1, FS_RemoveElement
  <2>. QED  BY <1>2, <1>4, <2>2 DEF countOf
<1>5. CASE ~live(task[t]) /\ live(task'[t])
  <2>1. R = S \cup {t} /\ t \notin S
    BY <1>5 DEF othersKept
  <2>2. Cardinality(R) = Cardinality(S) + 1
    BY <1>1, <2>1, FS_AddElement
  <2>. QED  BY <1>2, <1>5, <2>2 DEF countOf
<1>6. live(task[t]) \in BOOLEAN /\ live(task'[t]) \in BOOLEAN
  BY DEF live
<1>. QED  BY <1>3, <1>4, <1>5, <1>6

\* A family of amounts over the tasks: its sum follows the one task that changes.
LEMMA SumFollows ==
  ASSUME NEW f \in [Tasks -> Nat], NEW g \in [Tasks -> Nat], NEW t \in Tasks,
         \A u \in Tasks \ {t} : g[u] = f[u], NEW m, m = Total(f) - f[t] + g[t]
  PROVE  m = Total(g)
BY TotalChange, PartiesAssumption

\* A step of one task whose contributions the contracts follow keeps the invariant.
LEMMA LedgerMoves ==
  ASSUME LedgerInv, CustodyInv', NEW t \in Tasks, othersKept(t), now' = now,
         task'[t].status \notin Terminal => ~task'[t].recourseClaimPaid,
         ledgerFollows(task[t], task'[t]), stakeFollows(task[t], task'[t]),
         poolFollows(t, task'[t])
  PROVE  LedgerInv'
<1>1. /\ \A u \in Tasks : task[u] \in TaskRecords
      /\ \A u \in Tasks : task'[u] \in TaskRecords
  BY DEF LedgerInv, CustodyInv
<1>2. ExposureMatchesEscrow'
  <2>1. /\ escrow.lockedByTask \in [Tasks -> Nat] /\ escrow'.lockedByTask \in [Tasks -> Nat]
        /\ \A u \in Tasks : escrow.lockedByTask[u] = lockedFor(task[u])
    BY EscrowFields DEF LedgerInv, CustodyInv, LockedMatchesTask
  <2>2. \A u \in Tasks : escrow'.lockedByTask[u] = lockedFor(task'[u])
    BY DEF CustodyInv, LockedMatchesTask, lockedFor, bonded, live, requesterEscrow, escrowedFor
  <2>3. ledger'.openExposure = Total(escrow'.lockedByTask)
    <3>1. \A u \in Tasks \ {t} : escrow'.lockedByTask[u] = escrow.lockedByTask[u]
      BY <2>1, <2>2 DEF othersKept
    <3>2. ledger'.openExposure =
            Total(escrow.lockedByTask) - escrow.lockedByTask[t] + escrow'.lockedByTask[t]
      BY <2>1, <2>2 DEF LedgerInv, ExposureMatchesEscrow, ledgerFollows
    <3>. QED  BY <2>1, <3>1, <3>2, SumFollows
  <2>4. ledger'.openTaskCount = Cardinality({u \in Tasks : live(task'[u])})
    BY LiveCount DEF LedgerInv, ExposureMatchesEscrow, ledgerFollows
  <2>. QED  BY <2>3, <2>4 DEF ExposureMatchesEscrow, live
<1>3. BondsMatchStake'
  <2>1. ASSUME NEW a \in Accounts
        PROVE  stake'.openBondExposure[a] = Total([u \in Tasks |-> bondOf(task'[u], a)])
    <3> DEFINE f == [u \in Tasks |-> bondOf(task[u], a)]
               g == [u \in Tasks |-> bondOf(task'[u], a)]
    <3>1. f \in [Tasks -> Nat] /\ g \in [Tasks -> Nat]
      BY <1>1, ShareTypes
    <3>2. /\ \A u \in Tasks \ {t} : g[u] = f[u]
          /\ f[t] = bondOf(task[t], a) /\ g[t] = bondOf(task'[t], a)
      BY DEF othersKept
    <3>3. stake.openBondExposure[a] = Total(f)
      BY DEF LedgerInv, BondsMatchStake
    <3> HIDE DEF f, g
    <3>4. stake'.openBondExposure[a] = Total(f) - f[t] + g[t]
      BY <3>2, <3>3 DEF stakeFollows
    <3>5. stake'.openBondExposure[a] = Total(g)
      BY <3>1, <3>2, <3>4, SumFollows
    <3>. QED  BY <3>5 DEF g
  <2>. QED
    BY <2>1 DEF BondsMatchStake, stakeFollows, stakeOK, stakeSolvent, bondOf, bonded, live
<1>4. RecourseMatchesPool'
  <2>0. \A u \in Tasks : pool'.lockedByTask[u] = coverageOf(task'[u])
    <3>1. pool.lockedByTask \in [Tasks -> Nat]
      BY PoolFields DEF LedgerInv, poolOK
    <3>. QED  BY <3>1 DEF LedgerInv, RecourseMatchesPool, poolFollows, othersKept
  <2>1. ASSUME NEW a \in Accounts
        PROVE  ledger'.byRequester[a] = Total([u \in Tasks |-> requesterShare(task'[u], a)])
    <3> DEFINE f == [u \in Tasks |-> requesterShare(task[u], a)]
               g == [u \in Tasks |-> requesterShare(task'[u], a)]
    <3>1. f \in [Tasks -> Nat] /\ g \in [Tasks -> Nat]
      BY <1>1, ShareTypes
    <3>2. /\ \A u \in Tasks \ {t} : g[u] = f[u]
          /\ f[t] = requesterShare(task[t], a) /\ g[t] = requesterShare(task'[t], a)
      BY DEF othersKept
    <3>3. ledger.byRequester[a] = Total(f)
      BY Zenon DEF LedgerInv, RecourseMatchesPool, requesterShare
    <3> HIDE DEF f, g
    <3>4. ledger'.byRequester[a] = Total(f) - f[t] + g[t]
      BY <3>2, <3>3 DEF ledgerFollows
    <3>5. ledger'.byRequester[a] = Total(g)
      BY <3>1, <3>2, <3>4, SumFollows
    <3>. QED  BY <3>5 DEF g
  <2>2. ASSUME NEW a \in Accounts
        PROVE  ledger'.byAgent[a] = Total([u \in Tasks |-> agentShare(task'[u], a)])
    <3> DEFINE f == [u \in Tasks |-> agentShare(task[u], a)]
               g == [u \in Tasks |-> agentShare(task'[u], a)]
    <3>1. f \in [Tasks -> Nat] /\ g \in [Tasks -> Nat]
      BY <1>1, ShareTypes
    <3>2. /\ \A u \in Tasks \ {t} : g[u] = f[u]
          /\ f[t] = agentShare(task[t], a) /\ g[t] = agentShare(task'[t], a)
      BY DEF othersKept
    <3>3. ledger.byAgent[a] = Total(f)
      BY Zenon DEF LedgerInv, RecourseMatchesPool, agentShare
    <3> HIDE DEF f, g
    <3>4. ledger'.byAgent[a] = Total(f) - f[t] + g[t]
      BY <3>2, <3>3 DEF ledgerFollows
    <3>5. ledger'.byAgent[a] = Total(g)
      BY <3>1, <3>2, <3>4, SumFollows
    <3>. QED  BY <3>5 DEF g
  <2>3. ASSUME NEW a \in Accounts
        PROVE  ledger'.byVerifier[a] = Total([u \in Tasks |-> verifierShare(task'[u], a)])
    <3> DEFINE f == [u \in Tasks |-> verifierShare(task[u], a)]
               g == [u \in Tasks |-> verifierShare(task'[u], a)]
    <3>1. f \in [Tasks -> Nat] /\ g \in [Tasks -> Nat]
      BY <1>1, ShareTypes
    <3>2. /\ \A u \in Tasks \ {t} : g[u] = f[u]
          /\ f[t] = verifierShare(task[t], a) /\ g[t] = verifierShare(task'[t], a)
      BY DEF othersKept
    <3>3. ledger.byVerifier[a] = Total(f)
      BY Zenon DEF LedgerInv, RecourseMatchesPool, verifierShare
    <3> HIDE DEF f, g
    <3>4. ledger'.byVerifier[a] = Total(f) - f[t] + g[t]
      BY <3>2, <3>3 DEF ledgerFollows
    <3>5. ledger'.byVerifier[a] = Total(g)
      BY <3>1, <3>2, <3>4, SumFollows
    <3>. QED  BY <3>5 DEF g
  <2>. QED
    BY <2>0, <2>1, <2>2, <2>3
    DEF RecourseMatchesPool, requesterShare, agentShare, verifierShare, coverageOf, bonded, live
<1>5. \A u \in Tasks : task'[u].status \notin Terminal => ~task'[u].recourseClaimPaid
  BY DEF LedgerInv, othersKept
<1>6. ledger' \in Ledgers /\ stakeOK(stake') /\ poolOK(pool') /\ now' \in 0..MaxTime
  BY DEF LedgerInv, ledgerFollows, stakeFollows, poolFollows
<1>. QED
  BY <1>2, <1>3, <1>4, <1>5, <1>6
  DEF LedgerInv, stakeOK, stakeSolvent, poolOK, poolBacked

-----------------------------------------------------------------------------
(* The totals that a step leaves alone *)

\* A task that is not bonded contributes neither bond nor coverage.
LEMMA NotBonded ==
  ASSUME NEW k, ~bonded(k)
  PROVE  /\ coverageOf(k) = 0
         /\ \A a : /\ bondOf(k, a) = 0 /\ requesterShare(k, a) = 0
                   /\ agentShare(k, a) = 0 /\ verifierShare(k, a) = 0
BY DEF coverageOf, bondOf, requesterShare, agentShare, verifierShare

\* A bonded task contributes its bond and its coverage until it is closed.
LEMMA StaysBonded ==
  ASSUME NEW k, NEW q, bonded(k), bonded(q), sameStakes(k, q),
         q.recourseCoverage = k.recourseCoverage
  PROVE  /\ coverageOf(q) = coverageOf(k) /\ countOf(k) = 1 /\ countOf(q) = 1
         /\ \A a : /\ bondOf(q, a) = bondOf(k, a)
                   /\ requesterShare(q, a) = requesterShare(k, a)
                   /\ agentShare(q, a) = agentShare(k, a)
                   /\ verifierShare(q, a) = verifierShare(k, a)
<1>1. coverageOf(q) = coverageOf(k) /\ countOf(k) = 1 /\ countOf(q) = 1
  BY DEF coverageOf, countOf, bonded
<1>. QED
  BY <1>1 DEF bondOf, requesterShare, agentShare, verifierShare, sameStakes

LEMMA StakeStays ==
  ASSUME LedgerInv, stake' = stake, NEW k \in TaskRecords, NEW q,
         \A a : bondOf(q, a) = bondOf(k, a)
  PROVE  stakeFollows(k, q)
<1>1. stakeOK(stake) /\ stake.openBondExposure \in [Accounts -> Nat]
  BY StakeFields DEF LedgerInv, stakeOK
<1>2. ASSUME NEW a \in Accounts
      PROVE  stake.openBondExposure[a] = stake.openBondExposure[a] - bondOf(k, a) + bondOf(q, a)
  BY <1>1, ShareTypes
<1>. QED  BY <1>1, <1>2 DEF stakeFollows

LEMMA PoolStays ==
  ASSUME LedgerInv, NEW t \in Tasks, pool' = pool, NEW q, coverageOf(q) = coverageOf(task[t])
  PROVE  poolFollows(t, q)
<1>1. poolOK(pool) /\ pool.lockedByTask \in [Tasks -> Nat]
  BY PoolFields DEF LedgerInv, poolOK
<1>2. pool.lockedByTask[t] = coverageOf(q)
  BY DEF LedgerInv, RecourseMatchesPool
<1>. QED  BY <1>1, <1>2 DEF poolFollows

\* Steps that leave the three recourse mappings alone.
LEMMA RecourseStays ==
  ASSUME LedgerInv, NEW k \in TaskRecords, NEW q, ledger' \in Ledgers,
         ledger'.openExposure = ledger.openExposure - lockedFor(k) + lockedFor(q),
         ledger'.openTaskCount = ledger.openTaskCount - countOf(k) + countOf(q),
         ledger'.byRequester = ledger.byRequester, ledger'.byAgent = ledger.byAgent,
         ledger'.byVerifier = ledger.byVerifier,
         \A a : /\ requesterShare(q, a) = requesterShare(k, a)
                /\ agentShare(q, a) = agentShare(k, a)
                /\ verifierShare(q, a) = verifierShare(k, a)
  PROVE  ledgerFollows(k, q)
<1>1. /\ ledger.byRequester \in [Accounts -> Nat] /\ ledger.byAgent \in [Accounts -> Nat]
      /\ ledger.byVerifier \in [Accounts -> Nat]
  BY LedgerFields DEF LedgerInv
<1>2. ASSUME NEW a \in Accounts
      PROVE  /\ ledger.byRequester[a] =
                  ledger.byRequester[a] - requesterShare(k, a) + requesterShare(q, a)
             /\ ledger.byAgent[a] = ledger.byAgent[a] - agentShare(k, a) + agentShare(q, a)
             /\ ledger.byVerifier[a] =
                  ledger.byVerifier[a] - verifierShare(k, a) + verifierShare(q, a)
  BY <1>1, ShareTypes
<1>. QED  BY <1>2 DEF ledgerFollows

-----------------------------------------------------------------------------
(* One lemma for each action on a task *)

LEMMA LedgerAt ==
  ASSUME LedgerInv, NEW t \in Tasks
  PROVE  /\ CustodyInv /\ task \in [Tasks -> TaskRecords] /\ task[t] \in TaskRecords
         /\ ledger \in Ledgers /\ partiesOK(task[t])
         /\ task[t].status \notin Terminal => ~task[t].recourseClaimPaid
BY InvAt DEF LedgerInv, CustodyInv

\* startTask, commitEvidence, submitVerifierReport and confirmVerifierReport
\* touch the record of the task only.
LEMMA WorkLedger ==
  ASSUME LedgerInv, CustodyInv', NEW t \in Tasks,
         \/ startTask(t)
         \/ \E until \in AvailabilityUntil : commitEvidence(t, until)
         \/ \E status \in ReportStatuses : submitVerifierReport(t, status)
         \/ \E v \in Verifiers : confirmVerifierReport(t, v)
  PROVE  LedgerInv'
<1> DEFINE k == task[t]
           q == task'[t]
<1>1. /\ task \in [Tasks -> TaskRecords] /\ k \in TaskRecords /\ partiesOK(k)
      /\ k.status \notin Terminal => ~k.recourseClaimPaid
  BY LedgerAt
<1>2. /\ othersKept(t) /\ q.disputeBondLocked = k.disputeBondLocked
      /\ k.status \in Working \cup ReportStatuses \cup {"EvidenceCommitted"}
      /\ q.status \in Working \cup ReportStatuses \cup {"EvidenceCommitted"}
      /\ sameStakes(k, q) /\ sameRecourse(k, q)
  <2>1. CASE startTask(t)
    BY <1>1, <2>1, StartTaskEffect, Zenon DEF Working
  <2>2. CASE \E until \in AvailabilityUntil : commitEvidence(t, until)
    BY <1>1, <2>2, CommitEvidenceEffect, Zenon DEF Working
  <2>3. CASE \E status \in ReportStatuses : submitVerifierReport(t, status)
    BY <1>1, <2>3, SubmitVerifierReportEffect, Zenon DEF Working
  <2>4. CASE \E v \in Verifiers : confirmVerifierReport(t, v)
    BY <1>1, <2>4, ConfirmVerifierReportEffect, Zenon DEF Working
  <2>. QED  BY <2>1, <2>2, <2>3, <2>4, Zenon
<1>3. ledger' = ledger /\ stake' = stake /\ pool' = pool /\ now' = now
  BY Zenon DEF startTask, commitEvidence, submitVerifierReport, confirmVerifierReport
<1> HIDE DEF k, q
<1>4. bonded(k) /\ bonded(q) /\ k.status # "Challenged" /\ q.status # "Challenged"
  BY <1>2 DEF bonded, live, Working, ReportStatuses, Terminal
<1>5. lockedFor(q) = lockedFor(k)
  BY <1>1, <1>2, <1>4, BondedMoves
<1>6. /\ coverageOf(q) = coverageOf(k) /\ countOf(k) = 1 /\ countOf(q) = 1
      /\ \A a : /\ bondOf(q, a) = bondOf(k, a)
                /\ requesterShare(q, a) = requesterShare(k, a)
                /\ agentShare(q, a) = agentShare(k, a)
                /\ verifierShare(q, a) = verifierShare(k, a)
  BY <1>2, <1>4, StaysBonded DEF sameRecourse
<1>7. ledgerFollows(k, q)
  <2>1. ledger.openExposure \in Nat /\ ledger.openTaskCount \in Nat /\ lockedFor(k) \in Nat
    BY <1>1, LedgerFields, ShareTypes, Zenon DEF LedgerInv
  <2>2. /\ ledger'.openExposure = ledger.openExposure - lockedFor(k) + lockedFor(q)
        /\ ledger'.openTaskCount = ledger.openTaskCount - countOf(k) + countOf(q)
    BY <1>3, <1>5, <1>6, <2>1
  <2>. QED  BY <1>1, <1>3, <1>6, <2>2, RecourseStays DEF LedgerInv
<1>8. stakeFollows(k, q) /\ poolFollows(t, q)
  BY <1>1, <1>3, <1>6, StakeStays, PoolStays DEF k
<1>9. q.status \notin Terminal => ~q.recourseClaimPaid
  BY <1>1, <1>2, <1>4 DEF sameRecourse, bonded, live
<1>. QED  BY <1>2, <1>3, <1>7, <1>8, <1>9, LedgerMoves DEF k, q

\* openTask adds the requester's deposit to the exposure.
LEMMA OpenLedger ==
  ASSUME LedgerInv, CustodyInv', NEW t \in Tasks, NEW r \in Requesters, NEW v \in Verifiers,
         NEW id \in PolicyIds, NEW payout \in Payouts, NEW coverage \in Coverages,
         openTask(t, r, v, id, payout, coverage)
  PROVE  LedgerInv'
<1> DEFINE k == task[t]
           q == task'[t]
           amount == requesterEscrow(q)
<1>1. /\ task \in [Tasks -> TaskRecords] /\ k \in TaskRecords /\ ledger \in Ledgers
      /\ k.status \notin Terminal => ~k.recourseClaimPaid
  BY LedgerAt
<1>2. q \in TaskRecords
  BY DEF CustodyInv
<1>3. /\ othersKept(t) /\ k.status = "Unknown" /\ q.status = "Open"
      /\ q.recourseClaimPaid = k.recourseClaimPaid
  BY <1>1, OpenTaskEffect
<1>4. /\ ledger' = [ledger EXCEPT !.openExposure = @ + amount, !.openTaskCount = @ + 1]
      /\ stake' = stake /\ pool' = pool /\ now' = now
  BY <1>1 DEF openTask
<1> HIDE DEF k, q
<1>5. amount \in Nat /\ ledger.openExposure \in Nat /\ ledger.openTaskCount \in Nat
  BY <1>1, <1>2, TaskFields, LedgerFields
<1> HIDE DEF amount
<1>6. ledger.openExposure + amount \in Nat /\ ledger.openTaskCount + 1 \in Nat
  BY <1>5
<1>7. /\ ledger' \in Ledgers
      /\ ledger'.openExposure = ledger.openExposure + amount
      /\ ledger'.openTaskCount = ledger.openTaskCount + 1
      /\ ledger'.byRequester = ledger.byRequester /\ ledger'.byAgent = ledger.byAgent
      /\ ledger'.byVerifier = ledger.byVerifier
  BY <1>1, <1>4, <1>6, Zenon DEF Ledgers
<1>8. ~bonded(k) /\ ~bonded(q) /\ ~live(k) /\ live(q)
  BY <1>3 DEF bonded, live, Terminal
<1>9. lockedFor(k) = 0 /\ lockedFor(q) = amount /\ countOf(k) = 0 /\ countOf(q) = 1
  BY <1>8 DEF lockedFor, countOf, amount
<1>10. /\ ledger'.openExposure = ledger.openExposure - lockedFor(k) + lockedFor(q)
       /\ ledger'.openTaskCount = ledger.openTaskCount - countOf(k) + countOf(q)
  BY <1>5, <1>7, <1>9
<1>11. /\ coverageOf(q) = coverageOf(k)
       /\ \A a : /\ bondOf(q, a) = bondOf(k, a)
                 /\ requesterShare(q, a) = requesterShare(k, a)
                 /\ agentShare(q, a) = agentShare(k, a)
                 /\ verifierShare(q, a) = verifierShare(k, a)
  BY <1>8, NotBonded
<1>12. ledgerFollows(k, q)
  BY <1>1, <1>7, <1>10, <1>11, RecourseStays
<1>13. stakeFollows(k, q) /\ poolFollows(t, q)
  BY <1>1, <1>4, <1>11, StakeStays, PoolStays DEF k
<1>14. ~q.recourseClaimPaid
  BY <1>1, <1>3 DEF Terminal
<1>. QED  BY <1>3, <1>4, <1>12, <1>13, <1>14, LedgerMoves DEF k, q

\* cancelOpenTask takes the deposit out of the exposure again.
LEMMA CancelLedger ==
  ASSUME LedgerInv, CustodyInv', NEW t \in Tasks, cancelOpenTask(t)
  PROVE  LedgerInv'
<1> DEFINE k == task[t]
           q == task'[t]
           amount == requesterEscrow(k)
<1>1. /\ task \in [Tasks -> TaskRecords] /\ k \in TaskRecords /\ ledger \in Ledgers
  BY LedgerAt
<1>3. othersKept(t) /\ k.status = "Open" /\ q.status = "Refunded"
  BY <1>1, CancelOpenTaskEffect
<1>4. /\ ledger' = [ledger EXCEPT !.openExposure = @ - amount, !.openTaskCount = @ - 1]
      /\ stake' = stake /\ pool' = pool /\ now' = now
      /\ amount <= ledger.openExposure /\ ledger.openTaskCount > 0
  BY DEF cancelOpenTask, cancelAccepted
<1> HIDE DEF k, q
<1>5. amount \in Nat /\ ledger.openExposure \in Nat /\ ledger.openTaskCount \in Nat
  BY <1>1, TaskFields, LedgerFields
<1> HIDE DEF amount
<1>6. ledger.openExposure - amount \in Nat /\ ledger.openTaskCount - 1 \in Nat
  BY <1>4, <1>5
<1>7. /\ ledger' \in Ledgers
      /\ ledger'.openExposure = ledger.openExposure - amount
      /\ ledger'.openTaskCount = ledger.openTaskCount - 1
      /\ ledger'.byRequester = ledger.byRequester /\ ledger'.byAgent = ledger.byAgent
      /\ ledger'.byVerifier = ledger.byVerifier
  BY <1>1, <1>4, <1>6, Zenon DEF Ledgers
<1>8. ~bonded(k) /\ ~bonded(q) /\ live(k) /\ ~live(q)
  BY <1>3 DEF bonded, live, Terminal
<1>9. lockedFor(k) = amount /\ lockedFor(q) = 0 /\ countOf(k) = 1 /\ countOf(q) = 0
  BY <1>8 DEF lockedFor, countOf, amount
<1>10. /\ ledger'.openExposure = ledger.openExposure - lockedFor(k) + lockedFor(q)
       /\ ledger'.openTaskCount = ledger.openTaskCount - countOf(k) + countOf(q)
  BY <1>5, <1>7, <1>9
<1>11. /\ coverageOf(q) = coverageOf(k)
       /\ \A a : /\ bondOf(q, a) = bondOf(k, a)
                 /\ requesterShare(q, a) = requesterShare(k, a)
                 /\ agentShare(q, a) = agentShare(k, a)
                 /\ verifierShare(q, a) = verifierShare(k, a)
  BY <1>8, NotBonded
<1>12. ledgerFollows(k, q)
  BY <1>1, <1>7, <1>10, <1>11, RecourseStays
<1>13. stakeFollows(k, q) /\ poolFollows(t, q)
  BY <1>1, <1>4, <1>11, StakeStays, PoolStays DEF k
<1>14. q.status \in Terminal
  BY <1>3 DEF Terminal
<1>. QED  BY <1>3, <1>4, <1>12, <1>13, <1>14, LedgerMoves DEF k, q

\* challengeTask adds the dispute bond to the exposure.
LEMMA ChallengeLedger ==
  ASSUME LedgerInv, CustodyInv', NEW t \in Tasks, NEW a \in Challengers, challengeTask(t, a)
  PROVE  LedgerInv'
<1> DEFINE k == task[t]
           q == task'[t]
           bond == k.quote.disputeBond
<1>1. /\ task \in [Tasks -> TaskRecords] /\ k \in TaskRecords /\ ledger \in Ledgers
      /\ partiesOK(k)
      /\ k.status \notin Terminal => ~k.recourseClaimPaid
  BY LedgerAt
<1>2. q \in TaskRecords
  BY DEF CustodyInv
<1>3. /\ othersKept(t) /\ k.status \in ReportStatuses /\ q.status = "Challenged"
      /\ q.disputeBondLocked = bond /\ sameStakes(k, q) /\ sameRecourse(k, q)
  BY <1>1, ChallengeTaskEffect, Zenon
<1>4. /\ ledger' = [ledger EXCEPT !.openExposure = @ + bond]
      /\ stake' = stake /\ pool' = pool /\ now' = now
  BY DEF challengeTask
<1> HIDE DEF k, q
<1>5. /\ bond \in Nat /\ ledger.openExposure \in Nat /\ ledger.openTaskCount \in Nat
      /\ escrowedFor(k) \in Nat
  BY <1>1, TaskFields, LedgerFields
<1> HIDE DEF bond
<1>6. ledger.openExposure + bond \in Nat
  BY <1>5
<1>7. /\ ledger' \in Ledgers
      /\ ledger'.openExposure = ledger.openExposure + bond
      /\ ledger'.openTaskCount = ledger.openTaskCount
      /\ ledger'.byRequester = ledger.byRequester /\ ledger'.byAgent = ledger.byAgent
      /\ ledger'.byVerifier = ledger.byVerifier
  BY <1>1, <1>4, <1>6, Zenon DEF Ledgers
<1>8. bonded(k) /\ bonded(q) /\ k.status # "Challenged"
  BY <1>3 DEF bonded, live, Terminal, ReportStatuses
<1>9. /\ coverageOf(q) = coverageOf(k) /\ countOf(k) = 1 /\ countOf(q) = 1
      /\ \A b : /\ bondOf(q, b) = bondOf(k, b)
                /\ requesterShare(q, b) = requesterShare(k, b)
                /\ agentShare(q, b) = agentShare(k, b)
                /\ verifierShare(q, b) = verifierShare(k, b)
  BY <1>3, <1>8, StaysBonded DEF sameRecourse
<1>10. lockedFor(k) = escrowedFor(k) /\ lockedFor(q) = escrowedFor(k) + bond
  <2>1. k.disputeBondLocked = 0
    BY <1>1, <1>8 DEF partiesOK
  <2>2. escrowedFor(q) = escrowedFor(k)
    BY <1>3 DEF escrowedFor, requesterEscrow, sameStakes
  <2>. QED  BY <1>3, <1>5, <1>8, <2>1, <2>2 DEF lockedFor
<1>11. /\ ledger'.openExposure = ledger.openExposure - lockedFor(k) + lockedFor(q)
       /\ ledger'.openTaskCount = ledger.openTaskCount - countOf(k) + countOf(q)
  BY SMTT(30), <1>5, <1>7, <1>9, <1>10
<1>12. ledgerFollows(k, q)
  BY <1>1, <1>7, <1>9, <1>11, RecourseStays
<1>13. stakeFollows(k, q) /\ poolFollows(t, q)
  BY <1>1, <1>4, <1>9, StakeStays, PoolStays DEF k
<1>14. ~q.recourseClaimPaid
  BY <1>1, <1>3, <1>8 DEF sameRecourse, bonded, live
<1>. QED  BY <1>3, <1>4, <1>12, <1>13, <1>14, LedgerMoves DEF k, q

\* slashStake takes from one account what the registry no longer owes it.
LEMMA SlashStakeOK ==
  ASSUME NEW s, stakeOK(s), NEW a \in Accounts, NEW n \in Nat, canSlashStake(s, a, n)
  PROVE  /\ stakeOK(slashStake(s, a, n))
         /\ slashStake(s, a, n).openBondExposure = s.openBondExposure
<1> DEFINE q == slashStake(s, a, n)
<1>1. s \in StakeStorage /\ s.stakeOf \in [Accounts -> Nat]
  BY StakeFields DEF stakeOK
<1>2. /\ s.stakeOf[a] \in Nat /\ s.slashedStake[a] \in Nat /\ s.balance \in Nat
      /\ Total(s.stakeOf) \in Nat /\ n <= s.stakeOf[a] /\ n <= s.balance
  BY <1>1, StakeFields DEF canSlashStake
<1>3. s.stakeOf[a] - n \in Nat /\ s.slashedStake[a] + n \in Nat /\ s.balance - n \in Nat
  BY <1>2
<1>4. q \in StakeStorage
  BY <1>1, <1>3, Zenon DEF StakeStorage, slashStake
<1>5. /\ q.stakeOf = [s.stakeOf EXCEPT ![a] = s.stakeOf[a] - n] /\ q.balance = s.balance - n
      /\ q.openBondExposure = s.openBondExposure
  BY <1>1, Zenon DEF StakeStorage, slashStake
<1> HIDE DEF q
<1>6. Total([s.stakeOf EXCEPT ![a] = s.stakeOf[a] - n])
        = Total(s.stakeOf) - s.stakeOf[a] + (s.stakeOf[a] - n)
  BY <1>1, <1>3, TotalUpdate, PartiesAssumption
<1>7. q.balance = Total(q.stakeOf)
  BY <1>2, <1>5, <1>6 DEF stakeOK, stakeSolvent
<1>. QED  BY <1>4, <1>5, <1>7 DEF stakeOK, stakeSolvent, q

\* What resolveChallenge takes from the verifier: a share of its stake, when the
\* report the challenge attacked is overturned.
challengeSlash(k, status, share) ==
  IF status # k.preChallengeStatus
  THEN (stake.stakeOf[k.verifier] * share) \div 10000 ELSE 0

\* The calls of resolveChallenge on the other contracts and on the totals.
LEMMA ResolveMoves ==
  ASSUME NEW t, NEW status, NEW share, resolveChallenge(t, status, share)
  PROVE  LET slash == challengeSlash(task[t], status, share)
         IN  /\ task[t].disputeBondLocked <= ledger.openExposure
             /\ ledger' = [ledger EXCEPT !.openExposure = @ - task[t].disputeBondLocked]
             /\ slash > 0 => canSlashStake(stake, task[t].verifier, slash)
             /\ stake' = IF slash > 0 THEN slashStake(stake, task[t].verifier, slash)
                         ELSE stake
             /\ UNCHANGED <<settings, pool, now>>
BY SMTT(30) DEF resolveChallenge, challengeSlash

\* resolveChallenge takes the dispute bond out of the exposure; a verifier it
\* slashes keeps its open bonds.
LEMMA ResolveLedger ==
  ASSUME LedgerInv, CustodyInv', NEW t \in Tasks, NEW status \in ReportStatuses,
         NEW share \in SlashBps, resolveChallenge(t, status, share)
  PROVE  LedgerInv'
<1> DEFINE k == task[t]
           q == task'[t]
           bond == k.disputeBondLocked
           slash == challengeSlash(k, status, share)
<1>1. /\ task \in [Tasks -> TaskRecords] /\ k \in TaskRecords /\ ledger \in Ledgers
      /\ partiesOK(k)
      /\ k.status \notin Terminal => ~k.recourseClaimPaid
  BY LedgerAt
<1>3. /\ othersKept(t) /\ k.status = "Challenged" /\ q.status = status
      /\ q.disputeBondLocked = 0 /\ sameStakes(k, q) /\ sameRecourse(k, q)
  BY <1>1, ResolveChallengeEffect, Zenon
<1>2. ledger' = [ledger EXCEPT !.openExposure = @ - bond]
  BY ResolveMoves
<1>4. /\ pool' = pool /\ now' = now /\ bond <= ledger.openExposure
      /\ slash > 0 => canSlashStake(stake, k.verifier, slash)
      /\ stake' = IF slash > 0 THEN slashStake(stake, k.verifier, slash) ELSE stake
  BY ResolveMoves
<1> HIDE DEF k, q
<1>5. /\ bond \in Nat /\ ledger.openExposure \in Nat /\ ledger.openTaskCount \in Nat
      /\ escrowedFor(k) \in Nat
  BY <1>1, TaskFields, LedgerFields
<1> HIDE DEF bond
<1>6. ledger.openExposure - bond \in Nat
  BY SMTT(30), <1>4, <1>5
<1>7. /\ ledger' \in Ledgers
      /\ ledger'.openExposure = ledger.openExposure - bond
      /\ ledger'.openTaskCount = ledger.openTaskCount
      /\ ledger'.byRequester = ledger.byRequester /\ ledger'.byAgent = ledger.byAgent
      /\ ledger'.byVerifier = ledger.byVerifier
  BY <1>1, <1>2, <1>6, Zenon DEF Ledgers
<1>8. bonded(k) /\ bonded(q) /\ live(k)
  BY <1>3 DEF bonded, live, Terminal, ReportStatuses
<1>9. /\ coverageOf(q) = coverageOf(k) /\ countOf(k) = 1 /\ countOf(q) = 1
      /\ \A b : /\ bondOf(q, b) = bondOf(k, b)
                /\ requesterShare(q, b) = requesterShare(k, b)
                /\ agentShare(q, b) = agentShare(k, b)
                /\ verifierShare(q, b) = verifierShare(k, b)
  BY <1>3, <1>8, StaysBonded DEF sameRecourse
<1>10. lockedFor(k) = escrowedFor(k) + bond /\ lockedFor(q) = escrowedFor(k)
  <2>1. escrowedFor(q) = escrowedFor(k)
    BY <1>3 DEF escrowedFor, requesterEscrow, sameStakes
  <2>. QED  BY <1>3, <1>5, <1>8, <2>1 DEF lockedFor, bond
<1>11. /\ ledger'.openExposure = ledger.openExposure - lockedFor(k) + lockedFor(q)
       /\ ledger'.openTaskCount = ledger.openTaskCount - countOf(k) + countOf(q)
  <2>1. /\ ledger'.openExposure = ledger.openExposure - bond
        /\ ledger'.openTaskCount = ledger.openTaskCount
        /\ countOf(k) = 1 /\ countOf(q) = 1
    BY <1>7, <1>9, Zenon
  <2>. QED  BY <1>5, <1>10, <2>1
<1>12. ledgerFollows(k, q)
  BY <1>1, <1>7, <1>9, <1>11, RecourseStays
<1>13. stakeFollows(k, q)
  <2>1. stakeOK(stake) /\ k.verifier \in Accounts
    BY <1>1, <1>8 DEF LedgerInv, partiesOK
  <2>2. slash \in Nat
    <3>1. stake.stakeOf[k.verifier] \in Nat /\ share \in Nat
      BY <2>1, StakeFields, RolesAssumption DEF stakeOK
    <3>2. stake.stakeOf[k.verifier] * share \in Nat
      BY <3>1
    <3>. QED  BY <3>2 DEF challengeSlash
  <2> HIDE DEF slash
  <2>3. stakeOK(stake') /\ stake'.openBondExposure = stake.openBondExposure
    BY <1>4, <2>1, <2>2, SlashStakeOK
  <2>4. stake.openBondExposure \in [Accounts -> Nat]
    BY <2>1, StakeFields DEF stakeOK
  <2>5. ASSUME NEW b \in Accounts
        PROVE  stake'.openBondExposure[b] =
                 stake.openBondExposure[b] - bondOf(k, b) + bondOf(q, b)
    BY SMTT(30), <1>1, <1>9, <2>3, <2>4, ShareTypes
  <2>. QED  BY <2>3, <2>5 DEF stakeFollows
<1>14. poolFollows(t, q)
  <2>1. coverageOf(q) = coverageOf(task[t]) /\ pool' = pool /\ now' = now
    BY <1>4, <1>9 DEF k
  <2>. QED  BY <2>1, PoolStays
<1>15. ~q.recourseClaimPaid
  BY <1>1, <1>3, <1>8 DEF sameRecourse, live
<1>. QED  BY <1>3, <1>4, <1>12, <1>13, <1>14, <1>15, LedgerMoves, Zenon DEF k, q

\* One entry of a mapping goes up with what the task starts to contribute ...
LEMMA EntryAdded ==
  ASSUME NEW f \in [Accounts -> Nat], NEW r \in Accounts, NEW c \in Nat, NEW b \in Accounts,
         NEW x, NEW y, x = 0, y = IF r = b THEN c ELSE 0
  PROVE  [f EXCEPT ![r] = f[r] + c][b] = f[b] - x + y
OBVIOUS

\* ... and down with what it no longer does.
LEMMA EntryRemoved ==
  ASSUME NEW f \in [Accounts -> Nat], NEW r \in Accounts, NEW c \in Nat, NEW b \in Accounts,
         NEW x, NEW y, x = IF r = b THEN c ELSE 0, y = 0
  PROVE  [f EXCEPT ![r] = f[r] - c][b] = f[b] - x + y
OBVIOUS

\* recordOpenBond
LEMMA OpenBondOK ==
  ASSUME NEW s, stakeOK(s), NEW a \in Accounts, NEW n \in Nat
  PROVE  /\ stakeOK(recordOpenBond(s, a, n))
         /\ recordOpenBond(s, a, n).openBondExposure =
              [s.openBondExposure EXCEPT ![a] = s.openBondExposure[a] + n]
<1> DEFINE q == recordOpenBond(s, a, n)
<1>1. s \in StakeStorage
  BY DEF stakeOK
<1>2. s.openBondExposure[a] + n \in Nat
  BY <1>1, StakeFields
<1>3. q \in StakeStorage
  BY <1>1, <1>2, Zenon DEF StakeStorage, recordOpenBond
<1>4. /\ q.stakeOf = s.stakeOf /\ q.balance = s.balance
      /\ q.openBondExposure = [s.openBondExposure EXCEPT ![a] = s.openBondExposure[a] + n]
  BY <1>1, Zenon DEF StakeStorage, recordOpenBond
<1> HIDE DEF q
<1>5. stakeOK(q)
  BY <1>3, <1>4 DEF stakeOK, stakeSolvent
<1>. QED  BY <1>4, <1>5 DEF q

\* recordClosedBond
LEMMA ClosedBondOK ==
  ASSUME NEW s, stakeOK(s), NEW a \in Accounts, NEW n \in Nat, canRecordClosedBond(s, a, n)
  PROVE  /\ stakeOK(recordClosedBond(s, a, n))
         /\ recordClosedBond(s, a, n).openBondExposure =
              [s.openBondExposure EXCEPT ![a] = s.openBondExposure[a] - n]
<1> DEFINE q == recordClosedBond(s, a, n)
<1>1. s \in StakeStorage
  BY DEF stakeOK
<1>2. s.openBondExposure[a] - n \in Nat
  BY <1>1, StakeFields DEF canRecordClosedBond
<1>3. q \in StakeStorage
  BY <1>1, <1>2, Zenon DEF StakeStorage, recordClosedBond
<1>4. /\ q.stakeOf = s.stakeOf /\ q.balance = s.balance
      /\ q.openBondExposure = [s.openBondExposure EXCEPT ![a] = s.openBondExposure[a] - n]
  BY <1>1, Zenon DEF StakeStorage, recordClosedBond
<1> HIDE DEF q
<1>5. stakeOK(q)
  BY <1>3, <1>4 DEF stakeOK, stakeSolvent
<1>. QED  BY <1>4, <1>5 DEF q

\* What lockCoverage and payClaim do to the locks of the pool.
LEMMA LockCoverageLocks ==
  ASSUME NEW p \in PoolStorage, NEW t \in Tasks, NEW n
  PROVE  lockCoverage(p, t, n).lockedByTask = [p.lockedByTask EXCEPT ![t] = n]
BY Zenon DEF PoolStorage, lockCoverage

LEMMA PayClaimLocks ==
  ASSUME NEW p \in PoolStorage, NEW t \in Tasks, NEW n, NEW time
  PROVE  payClaim(p, t, n, time).lockedByTask = [p.lockedByTask EXCEPT ![t] = 0]
<1>1. releaseForTask(p, t).lockedByTask = [p.lockedByTask EXCEPT ![t] = 0]
  BY Zenon DEF PoolStorage, releaseForTask
<1>2. payClaim(p, t, n, time).lockedByTask = releaseForTask(p, t).lockedByTask
  BY DEF payClaim, PoolStorage, releaseForTask
<1>. QED  BY <1>1, <1>2

\* acceptTask adds the bond to the exposure and to the agent's open bonds, locks
\* the coverage in the pool and counts it for the three parties.
LEMMA AcceptLedger ==
  ASSUME LedgerInv, CustodyInv', NEW t \in Tasks, NEW a \in Agents, acceptTask(t, a)
  PROVE  LedgerInv'
<1> DEFINE k == task[t]
           q == task'[t]
           bond == k.quote.agentBond
           c == k.recourseCoverage
<1>1. /\ task \in [Tasks -> TaskRecords] /\ k \in TaskRecords /\ ledger \in Ledgers
      /\ partiesOK(k)
      /\ k.status \notin Terminal => ~k.recourseClaimPaid
  BY LedgerAt
<1>2. q \in TaskRecords
  BY DEF CustodyInv
<1>3. /\ othersKept(t) /\ k.status = "Open" /\ q.status = "Accepted" /\ q.agent = a
      /\ q.requester = k.requester /\ q.verifier = k.verifier /\ q.payout = k.payout
      /\ q.quote = k.quote /\ q.disputeBondLocked = k.disputeBondLocked
      /\ sameRecourse(k, q)
  BY <1>1, AcceptTaskEffect
<1>4. ledger' = [ledger EXCEPT !.openExposure = @ + bond, !.byRequester[k.requester] = @ + c,
                               !.byAgent[a] = @ + c, !.byVerifier[k.verifier] = @ + c]
  BY DEF acceptTask
<1>5. /\ stake' = recordOpenBond(stake, a, bond) /\ now' = now
      /\ covered(k) => canLockCoverage(pool, t, c, now)
      /\ pool' = IF covered(k) THEN lockCoverage(pool, t, c) ELSE pool
  BY DEF acceptTask
<1> HIDE DEF k, q
<1>6. bonded(q) /\ ~bonded(k) /\ live(k) /\ live(q)
  BY <1>3 DEF bonded, live, Terminal
<1>7. a \in Accounts /\ k.requester \in Accounts /\ k.verifier \in Accounts
  BY <1>1, <1>6, RolesAssumption DEF partiesOK
<1>8. /\ bond \in Nat /\ c \in Nat /\ requesterEscrow(k) \in Nat
      /\ ledger.openExposure \in Nat /\ ledger.openTaskCount \in Nat
      /\ ledger.byRequester \in [Accounts -> Nat] /\ ledger.byAgent \in [Accounts -> Nat]
      /\ ledger.byVerifier \in [Accounts -> Nat]
  BY <1>1, TaskFields, ShareTypes, LedgerFields
<1> HIDE DEF bond, c
<1>9. /\ ledger.openExposure + bond \in Nat /\ ledger.byRequester[k.requester] + c \in Nat
      /\ ledger.byAgent[a] + c \in Nat /\ ledger.byVerifier[k.verifier] + c \in Nat
  BY SMTT(30), <1>7, <1>8
<1>10. ledger' \in Ledgers
  BY <1>1, <1>4, <1>9, Zenon DEF Ledgers
<1>11. /\ ledger'.openExposure = ledger.openExposure + bond
       /\ ledger'.openTaskCount = ledger.openTaskCount
       /\ ledger'.byRequester =
            [ledger.byRequester EXCEPT ![k.requester] = ledger.byRequester[k.requester] + c]
       /\ ledger'.byAgent = [ledger.byAgent EXCEPT ![a] = ledger.byAgent[a] + c]
       /\ ledger'.byVerifier =
            [ledger.byVerifier EXCEPT ![k.verifier] = ledger.byVerifier[k.verifier] + c]
  BY <1>1, <1>4, Zenon DEF Ledgers
<1>12. /\ coverageOf(k) = 0 /\ coverageOf(q) = c /\ countOf(k) = 1 /\ countOf(q) = 1
       /\ \A b : /\ bondOf(k, b) = 0 /\ requesterShare(k, b) = 0
                 /\ agentShare(k, b) = 0 /\ verifierShare(k, b) = 0
  BY <1>3, <1>6, NotBonded DEF coverageOf, countOf, sameRecourse, c
<1>13. \A b : /\ bondOf(q, b) = (IF a = b THEN bond ELSE 0)
              /\ requesterShare(q, b) = (IF k.requester = b THEN c ELSE 0)
              /\ agentShare(q, b) = (IF a = b THEN c ELSE 0)
              /\ verifierShare(q, b) = (IF k.verifier = b THEN c ELSE 0)
  BY <1>3, <1>6, <1>12 DEF bondOf, requesterShare, agentShare, verifierShare, bond
<1>14. lockedFor(k) = requesterEscrow(k) /\ lockedFor(q) = requesterEscrow(k) + bond
  <2>1. q.disputeBondLocked = 0
    BY <1>1, <1>3 DEF partiesOK
  <2>2. escrowedFor(q) = requesterEscrow(k) + bond
    BY <1>3 DEF escrowedFor, requesterEscrow, bond
  <2>. QED  BY SMTT(30), <1>6, <1>8, <2>1, <2>2 DEF lockedFor
<1>15. ledgerFollows(k, q)
  <2>1. /\ ledger'.openExposure = ledger.openExposure - lockedFor(k) + lockedFor(q)
        /\ ledger'.openTaskCount = ledger.openTaskCount - countOf(k) + countOf(q)
    BY SMTT(30), <1>8, <1>11, <1>12, <1>14
  <2>2. ASSUME NEW b \in Accounts
        PROVE  /\ ledger'.byRequester[b] =
                    ledger.byRequester[b] - requesterShare(k, b) + requesterShare(q, b)
               /\ ledger'.byAgent[b] = ledger.byAgent[b] - agentShare(k, b) + agentShare(q, b)
               /\ ledger'.byVerifier[b] =
                    ledger.byVerifier[b] - verifierShare(k, b) + verifierShare(q, b)
    <3>1. ledger'.byRequester[b] =
            ledger.byRequester[b] - requesterShare(k, b) + requesterShare(q, b)
      <4>1. /\ ledger.byRequester \in [Accounts -> Nat] /\ k.requester \in Accounts /\ c \in Nat
            /\ ledger'.byRequester = [ledger.byRequester EXCEPT ![k.requester] = ledger.byRequester[k.requester] + c]
            /\ requesterShare(q, b) = (IF k.requester = b THEN c ELSE 0) /\ requesterShare(k, b) = 0
        BY <1>7, <1>8, <1>11, <1>12, <1>13, Zenon
      <4>. QED  BY <4>1, EntryAdded
    <3>2. ledger'.byAgent[b] = ledger.byAgent[b] - agentShare(k, b) + agentShare(q, b)
      <4>1. /\ ledger.byAgent \in [Accounts -> Nat] /\ a \in Accounts /\ c \in Nat
            /\ ledger'.byAgent = [ledger.byAgent EXCEPT ![a] = ledger.byAgent[a] + c]
            /\ agentShare(q, b) = (IF a = b THEN c ELSE 0) /\ agentShare(k, b) = 0
        BY <1>7, <1>8, <1>11, <1>12, <1>13, Zenon
      <4>. QED  BY <4>1, EntryAdded
    <3>3. ledger'.byVerifier[b] =
            ledger.byVerifier[b] - verifierShare(k, b) + verifierShare(q, b)
      <4>1. /\ ledger.byVerifier \in [Accounts -> Nat] /\ k.verifier \in Accounts /\ c \in Nat
            /\ ledger'.byVerifier = [ledger.byVerifier EXCEPT ![k.verifier] = ledger.byVerifier[k.verifier] + c]
            /\ verifierShare(q, b) = (IF k.verifier = b THEN c ELSE 0) /\ verifierShare(k, b) = 0
        BY <1>7, <1>8, <1>11, <1>12, <1>13, Zenon
      <4>. QED  BY <4>1, EntryAdded
    <3>. QED  BY <3>1, <3>2, <3>3
  <2>. QED  BY <1>10, <2>1, <2>2 DEF ledgerFollows
<1>16. stakeFollows(k, q)
  <2>1. stakeOK(stake) /\ stake.openBondExposure \in [Accounts -> Nat]
    BY StakeFields DEF LedgerInv, stakeOK
  <2>2. /\ stakeOK(stake')
        /\ stake'.openBondExposure =
             [stake.openBondExposure EXCEPT ![a] = stake.openBondExposure[a] + bond]
    BY SMTT(30), <1>5, <1>7, <1>8, <2>1, OpenBondOK
  <2>3. ASSUME NEW b \in Accounts
        PROVE  stake'.openBondExposure[b] =
                 stake.openBondExposure[b] - bondOf(k, b) + bondOf(q, b)
    <3>1. bondOf(k, b) = 0 /\ bondOf(q, b) = (IF a = b THEN bond ELSE 0)
      BY <1>12, <1>13, Zenon
    <3>2. a \in Accounts /\ bond \in Nat
      BY <1>7, <1>8, Zenon
    <3>. QED  BY <2>1, <2>2, <3>1, <3>2, EntryAdded
  <2>. QED  BY <2>2, <2>3, Zenon DEF stakeFollows
<1>17. poolFollows(t, q)
  <2>1. CASE covered(k)
    <3>1. poolOK(pool) /\ pool \in PoolStorage
      BY DEF LedgerInv, poolOK
    <3>2. poolOK(pool')
      BY <1>5, <1>8, <2>1, <3>1, LockOK, Zenon
    <3>. QED  BY <1>5, <1>12, <2>1, <3>1, <3>2, LockCoverageLocks, Zenon DEF poolFollows
  <2>2. CASE ~covered(k)
    <3>1. c = 0
      BY <2>2 DEF covered, c
    <3>. QED  BY <1>5, <1>12, <2>2, <3>1, PoolStays DEF k
  <2>. QED  BY <2>1, <2>2
<1>18. ~q.recourseClaimPaid
  BY <1>1, <1>3, <1>6 DEF sameRecourse, live
<1>. QED  BY <1>3, <1>5, <1>15, <1>16, <1>17, <1>18, LedgerMoves, Zenon DEF k, q

\* settleTask and slashExpiredNoSubmission take everything the task contributed
\* out of the totals.
LEMMA CloseLedger ==
  ASSUME LedgerInv, CustodyInv', NEW t \in Tasks,
         settleTask(t) \/ slashExpiredNoSubmission(t)
  PROVE  LedgerInv'
<1> DEFINE k == task[t]
           q == task'[t]
           bond == k.quote.agentBond
           escrowed == escrowedFor(k)
           c == k.recourseCoverage
           due == IF recourseDue(k) THEN c ELSE 0
<1>1. /\ task \in [Tasks -> TaskRecords] /\ k \in TaskRecords /\ ledger \in Ledgers
      /\ partiesOK(k)
      /\ k.status \notin Terminal => ~k.recourseClaimPaid
  BY LedgerAt
<1>2. /\ bonded(k) /\ k.status \in Working \cup ReportStatuses /\ closingAccepted(t)
      /\ \E status \in Terminal, claim \in BOOLEAN :
           /\ closeWith(t, status, claim)
           /\ recourseDue(k) => IF claim THEN canPayClaim(pool, t, c, now)
                                ELSE canReleaseForTask(pool, t)
  BY Closings
<1>3. PICK status \in Terminal, claim \in BOOLEAN :
           /\ closeWith(t, status, claim)
           /\ recourseDue(k) => IF claim THEN canPayClaim(pool, t, c, now)
                                ELSE canReleaseForTask(pool, t)
  BY <1>2
<1>4. othersKept(t) /\ q.status = status
  BY <1>1, <1>3, CloseWithEffect, Zenon
<1>5. ledger' = [ledger EXCEPT !.openExposure = @ - escrowed, !.openTaskCount = @ - 1,
                               !.byRequester[k.requester] = @ - due,
                               !.byAgent[k.agent] = @ - due,
                               !.byVerifier[k.verifier] = @ - due]
  BY <1>3 DEF closeWith, closeTask
<1>6. /\ stake' = recordClosedBond(stake, k.agent, bond) /\ now' = now
      /\ pool' = IF ~recourseDue(k) THEN pool
                 ELSE IF claim THEN payClaim(pool, t, c, now) ELSE releaseForTask(pool, t)
  BY <1>3 DEF closeWith
<1>7. /\ canCloseTask(ledger, k, escrowed) /\ canRecordClosedBond(stake, k.agent, bond)
  BY <1>2 DEF closingAccepted
<1> HIDE DEF k, q
<1>8. ~bonded(q) /\ ~live(q) /\ live(k) /\ k.status # "Challenged" /\ q.status \in Terminal
  BY <1>2, <1>4 DEF bonded, live, Working, ReportStatuses
<1>9. /\ k.agent \in Accounts /\ k.requester \in Accounts /\ k.verifier \in Accounts
      /\ k.disputeBondLocked = 0 /\ ~k.recourseClaimPaid
  BY <1>1, <1>2, <1>8, Zenon DEF partiesOK, live
<1>10. /\ bond \in Nat /\ c \in Nat /\ escrowed \in Nat
       /\ ledger.openExposure \in Nat /\ ledger.openTaskCount \in Nat
       /\ ledger.byRequester \in [Accounts -> Nat] /\ ledger.byAgent \in [Accounts -> Nat]
       /\ ledger.byVerifier \in [Accounts -> Nat]
  BY <1>1, TaskFields, ShareTypes, LedgerFields, Zenon
<1>11. due = c
  BY <1>9, <1>10 DEF recourseDue, covered
<1>12. /\ escrowed <= ledger.openExposure /\ ledger.openTaskCount > 0
       /\ due <= ledger.byRequester[k.requester] /\ due <= ledger.byAgent[k.agent]
       /\ due <= ledger.byVerifier[k.verifier] /\ due \in Nat
  BY SMTT(30), <1>7, <1>9, <1>10, <1>11 DEF canCloseTask, recourseDue, covered
<1> HIDE DEF bond, escrowed, c, due
<1>13. /\ ledger.openExposure - escrowed \in Nat /\ ledger.openTaskCount - 1 \in Nat
       /\ ledger.byRequester[k.requester] - due \in Nat
       /\ ledger.byAgent[k.agent] - due \in Nat /\ ledger.byVerifier[k.verifier] - due \in Nat
  BY SMTT(30), <1>9, <1>10, <1>12
<1>14. ledger' \in Ledgers
  BY <1>1, <1>5, <1>13, Zenon DEF Ledgers
<1>15. /\ ledger'.openExposure = ledger.openExposure - escrowed
       /\ ledger'.openTaskCount = ledger.openTaskCount - 1
       /\ ledger'.byRequester =
            [ledger.byRequester EXCEPT ![k.requester] = ledger.byRequester[k.requester] - due]
       /\ ledger'.byAgent = [ledger.byAgent EXCEPT ![k.agent] = ledger.byAgent[k.agent] - due]
       /\ ledger'.byVerifier =
            [ledger.byVerifier EXCEPT ![k.verifier] = ledger.byVerifier[k.verifier] - due]
  BY <1>1, <1>5, Zenon DEF Ledgers
<1>16. /\ coverageOf(q) = 0 /\ coverageOf(k) = due /\ countOf(k) = 1 /\ countOf(q) = 0
       /\ \A b : /\ bondOf(q, b) = 0 /\ requesterShare(q, b) = 0
                 /\ agentShare(q, b) = 0 /\ verifierShare(q, b) = 0
  BY <1>2, <1>8, <1>11, NotBonded DEF coverageOf, countOf, c
<1>17. \A b : /\ bondOf(k, b) = (IF k.agent = b THEN bond ELSE 0)
              /\ requesterShare(k, b) = (IF k.requester = b THEN due ELSE 0)
              /\ agentShare(k, b) = (IF k.agent = b THEN due ELSE 0)
              /\ verifierShare(k, b) = (IF k.verifier = b THEN due ELSE 0)
  BY <1>2, <1>16 DEF bondOf, requesterShare, agentShare, verifierShare, bond
<1>18. lockedFor(k) = escrowed /\ lockedFor(q) = 0
  <2>1. lockedFor(k) = escrowed + 0 /\ lockedFor(q) = 0
    BY <1>2, <1>8, <1>9, Zenon DEF lockedFor, escrowed
  <2>2. \A n \in Nat : n + 0 = n
    OBVIOUS
  <2>. QED  BY <1>10, <2>1, <2>2, Zenon
<1>19. ledgerFollows(k, q)
  <2>1. /\ ledger'.openExposure = ledger.openExposure - lockedFor(k) + lockedFor(q)
        /\ ledger'.openTaskCount = ledger.openTaskCount - countOf(k) + countOf(q)
    BY SMTT(30), <1>10, <1>15, <1>16, <1>18
  <2>2. ASSUME NEW b \in Accounts
        PROVE  /\ ledger'.byRequester[b] =
                    ledger.byRequester[b] - requesterShare(k, b) + requesterShare(q, b)
               /\ ledger'.byAgent[b] = ledger.byAgent[b] - agentShare(k, b) + agentShare(q, b)
               /\ ledger'.byVerifier[b] =
                    ledger.byVerifier[b] - verifierShare(k, b) + verifierShare(q, b)
    <3>1. ledger'.byRequester[b] =
            ledger.byRequester[b] - requesterShare(k, b) + requesterShare(q, b)
      <4>1. /\ ledger.byRequester \in [Accounts -> Nat] /\ k.requester \in Accounts /\ due \in Nat
            /\ ledger'.byRequester = [ledger.byRequester EXCEPT ![k.requester] = ledger.byRequester[k.requester] - due]
            /\ requesterShare(k, b) = (IF k.requester = b THEN due ELSE 0) /\ requesterShare(q, b) = 0
        BY <1>9, <1>10, <1>12, <1>15, <1>16, <1>17, Zenon
      <4>. QED  BY <4>1, EntryRemoved
    <3>2. ledger'.byAgent[b] = ledger.byAgent[b] - agentShare(k, b) + agentShare(q, b)
      <4>1. /\ ledger.byAgent \in [Accounts -> Nat] /\ k.agent \in Accounts /\ due \in Nat
            /\ ledger'.byAgent = [ledger.byAgent EXCEPT ![k.agent] = ledger.byAgent[k.agent] - due]
            /\ agentShare(k, b) = (IF k.agent = b THEN due ELSE 0) /\ agentShare(q, b) = 0
        BY <1>9, <1>10, <1>12, <1>15, <1>16, <1>17, Zenon
      <4>. QED  BY <4>1, EntryRemoved
    <3>3. ledger'.byVerifier[b] =
            ledger.byVerifier[b] - verifierShare(k, b) + verifierShare(q, b)
      <4>1. /\ ledger.byVerifier \in [Accounts -> Nat] /\ k.verifier \in Accounts /\ due \in Nat
            /\ ledger'.byVerifier = [ledger.byVerifier EXCEPT ![k.verifier] = ledger.byVerifier[k.verifier] - due]
            /\ verifierShare(k, b) = (IF k.verifier = b THEN due ELSE 0) /\ verifierShare(q, b) = 0
        BY <1>9, <1>10, <1>12, <1>15, <1>16, <1>17, Zenon
      <4>. QED  BY <4>1, EntryRemoved
    <3>. QED  BY <3>1, <3>2, <3>3
  <2>. QED  BY <1>14, <2>1, <2>2 DEF ledgerFollows
<1>20. stakeFollows(k, q)
  <2>1. stakeOK(stake) /\ stake.openBondExposure \in [Accounts -> Nat]
    BY StakeFields DEF LedgerInv, stakeOK
  <2>2. /\ stakeOK(stake')
        /\ stake'.openBondExposure =
             [stake.openBondExposure EXCEPT ![k.agent] = stake.openBondExposure[k.agent] - bond]
    <3>1. /\ stake' = recordClosedBond(stake, k.agent, bond)
          /\ canRecordClosedBond(stake, k.agent, bond) /\ k.agent \in Accounts /\ bond \in Nat
      BY <1>6, <1>7, <1>9, <1>10, Zenon
    <3>. QED  BY <2>1, <3>1, ClosedBondOK
  <2>3. ASSUME NEW b \in Accounts
        PROVE  stake'.openBondExposure[b] =
                 stake.openBondExposure[b] - bondOf(k, b) + bondOf(q, b)
    <3>1. bondOf(k, b) = (IF k.agent = b THEN bond ELSE 0) /\ bondOf(q, b) = 0
      BY <1>16, <1>17, Zenon
    <3>2. k.agent \in Accounts /\ bond \in Nat
      BY <1>9, <1>10, Zenon
    <3>. QED  BY <2>1, <2>2, <3>1, <3>2, EntryRemoved
  <2>. QED  BY <2>2, <2>3, Zenon DEF stakeFollows
<1>21. poolFollows(t, q)
  <2>0. poolOK(pool) /\ pool \in PoolStorage /\ now \in 0..MaxTime
    BY DEF LedgerInv, poolOK
  <2>1. CASE ~recourseDue(k)
    <3>1. coverageOf(k) = 0
      BY <1>9, <1>11, <1>16, <2>1 DEF recourseDue, covered, c
    <3>. QED  BY <1>6, <1>16, <2>1, <3>1, PoolStays DEF k
  <2>2. CASE recourseDue(k) /\ claim
    <3>1. pool' = payClaim(pool, t, c, now) /\ canPayClaim(pool, t, c, now)
      BY <1>3, <1>6, <2>2 DEF k
    <3>2. poolOK(pool')
      BY <1>10, <2>0, <3>1, PayClaimOK
    <3>3. payClaim(pool, t, c, now).lockedByTask = [pool.lockedByTask EXCEPT ![t] = 0]
      BY <2>0, PayClaimLocks
    <3>4. pool'.lockedByTask = payClaim(pool, t, c, now).lockedByTask
      BY <3>1
    <3>. QED  BY <1>16, <3>2, <3>3, <3>4 DEF poolFollows
  <2>3. CASE recourseDue(k) /\ ~claim
    <3>1. pool' = releaseForTask(pool, t)
      BY <1>6, <2>3
    <3>2. poolOK(pool') /\ pool'.lockedByTask = [pool.lockedByTask EXCEPT ![t] = 0]
      BY <2>0, <3>1, ReleaseOK
    <3>. QED  BY <1>16, <3>2 DEF poolFollows
  <2>. QED  BY <2>1, <2>2, <2>3
<1>. QED  BY <1>4, <1>6, <1>8, <1>19, <1>20, <1>21, LedgerMoves, Zenon DEF k, q

-----------------------------------------------------------------------------
(* The steps that are not about a task *)

\* Such a step leaves tasks, bonds and locks alone.
LEMMA LedgerStays ==
  ASSUME LedgerInv, CustodyInv', UNCHANGED <<task, ledger>>,
         escrow'.lockedByTask = escrow.lockedByTask,
         stakeOK(stake'), stake'.openBondExposure = stake.openBondExposure,
         poolOK(pool'), pool'.lockedByTask = pool.lockedByTask, now' \in 0..MaxTime
  PROVE  LedgerInv'
<1>1. ExposureMatchesEscrow'
  BY Zenon DEF LedgerInv, ExposureMatchesEscrow, live
<1>2. BondsMatchStake'
  <2>1. stakeSolvent(stake)'
    BY DEF stakeOK, stakeSolvent
  <2>. QED  BY <2>1, Zenon DEF LedgerInv, BondsMatchStake
<1>3. RecourseMatchesPool'
  BY Zenon DEF LedgerInv, RecourseMatchesPool
<1>. QED
  BY <1>1, <1>2, <1>3, Zenon DEF LedgerInv

\* The functions of the stake registry that its accounts and its owner call.
LEMMA StakeStepOK ==
  ASSUME stakeOK(stake), StakeNext \/ StakeOwnerNext
  PROVE  stakeOK(stake') /\ stake'.openBondExposure = stake.openBondExposure
<1>0. stake \in StakeStorage /\ stake.stakeOf \in [Accounts -> Nat] /\ stake.balance \in Nat
  BY StakeFields DEF stakeOK
<1>1. ASSUME NEW a \in Accounts, NEW n \in StakeAmounts, StakeDeposit(a, n)
      PROVE  stakeOK(stake') /\ stake'.openBondExposure = stake.openBondExposure
  <2>1. n \in Nat /\ stake.stakeOf[a] \in Nat /\ Total(stake.stakeOf) \in Nat
    BY <1>0, StakeFields, StakeAssumption
  <2>2. stake.stakeOf[a] + n \in Nat /\ stake.balance + n \in Nat
    BY <1>0, <2>1
  <2>3. stake' \in StakeStorage
    BY <1>0, <1>1, <2>2, Zenon DEF StakeDeposit, StakeStorage
  <2>4. /\ stake'.stakeOf = [stake.stakeOf EXCEPT ![a] = stake.stakeOf[a] + n]
        /\ stake'.balance = stake.balance + n
        /\ stake'.openBondExposure = stake.openBondExposure
    BY <1>0, <1>1, Zenon DEF StakeDeposit, StakeStorage
  <2>5. Total([stake.stakeOf EXCEPT ![a] = stake.stakeOf[a] + n])
          = Total(stake.stakeOf) - stake.stakeOf[a] + (stake.stakeOf[a] + n)
    BY <1>0, <2>2, TotalUpdate, PartiesAssumption
  <2>6. stake'.balance = Total(stake'.stakeOf)
    BY SMTT(30), <1>0, <2>1, <2>4, <2>5 DEF stakeOK, stakeSolvent
  <2>. QED  BY <2>3, <2>4, <2>6 DEF stakeOK, stakeSolvent
<1>2. ASSUME NEW a \in Accounts, NEW n \in StakeAmounts, StakeWithdraw(a, n)
      PROVE  stakeOK(stake') /\ stake'.openBondExposure = stake.openBondExposure
  <2>1. /\ n \in Nat /\ stake.stakeOf[a] \in Nat /\ Total(stake.stakeOf) \in Nat
        /\ n <= stake.stakeOf[a] /\ n <= stake.balance
    BY <1>0, <1>2, StakeFields, StakeAssumption DEF StakeWithdraw
  <2>2. stake.stakeOf[a] - n \in Nat /\ stake.balance - n \in Nat
    BY <1>0, <2>1
  <2>3. stake' \in StakeStorage
    BY <1>0, <1>2, <2>2, Zenon DEF StakeWithdraw, StakeStorage
  <2>4. /\ stake'.stakeOf = [stake.stakeOf EXCEPT ![a] = stake.stakeOf[a] - n]
        /\ stake'.balance = stake.balance - n
        /\ stake'.openBondExposure = stake.openBondExposure
    BY <1>0, <1>2, Zenon DEF StakeWithdraw, StakeStorage
  <2>5. Total([stake.stakeOf EXCEPT ![a] = stake.stakeOf[a] - n])
          = Total(stake.stakeOf) - stake.stakeOf[a] + (stake.stakeOf[a] - n)
    BY <1>0, <2>2, TotalUpdate, PartiesAssumption
  <2>6. stake'.balance = Total(stake'.stakeOf)
    BY SMTT(30), <1>0, <2>1, <2>4, <2>5 DEF stakeOK, stakeSolvent
  <2>. QED  BY <2>3, <2>4, <2>6 DEF stakeOK, stakeSolvent
<1>3. ASSUME NEW params \in StakeParameters, StakeSetParameters(params)
      PROVE  stakeOK(stake') /\ stake'.openBondExposure = stake.openBondExposure
  <2>1. stake' = [stake EXCEPT !.params = params]
    BY <1>3 DEF StakeSetParameters
  <2>2. stake' \in StakeStorage
    BY <1>0, <2>1, StakeAssumption, Zenon DEF StakeStorage
  <2>3. /\ stake'.stakeOf = stake.stakeOf /\ stake'.balance = stake.balance
        /\ stake'.openBondExposure = stake.openBondExposure
    BY <1>0, <2>1, Zenon DEF StakeStorage
  <2>. QED  BY <2>2, <2>3 DEF stakeOK, stakeSolvent
<1>4. ASSUME NEW v \in BOOLEAN, StakeSetSlashAuthority(v)
      PROVE  stakeOK(stake') /\ stake'.openBondExposure = stake.openBondExposure
  <2>1. stake' = [stake EXCEPT !.authority = v]
    BY <1>4 DEF StakeSetSlashAuthority
  <2>2. stake' \in StakeStorage
    BY <1>0, <2>1, Zenon DEF StakeStorage
  <2>3. /\ stake'.stakeOf = stake.stakeOf /\ stake'.balance = stake.balance
        /\ stake'.openBondExposure = stake.openBondExposure
    BY <1>0, <2>1, Zenon DEF StakeStorage
  <2>. QED  BY <2>2, <2>3 DEF stakeOK, stakeSolvent
<1>. QED  BY <1>1, <1>2, <1>3, <1>4 DEF StakeNext, StakeOwnerNext

\* The functions of the pool that its providers and its owner call.
LEMMA PoolStepOK ==
  ASSUME PoolInv, PoolOutsideNext \/ PoolOwnerNext
  PROVE  /\ poolOK(pool') /\ now' = now
         /\ pool'.lockedByTask = pool.lockedByTask /\ pool'.totalLocked = pool.totalLocked
         /\ pool'.lossPaidByEpoch = pool.lossPaidByEpoch
<1>1. pool \in PoolStorage
  BY DEF PoolInv, poolOK
<1>2. PoolNext
  BY RolesAssumption DEF PoolOutsideNext, PoolOwnerNext, PoolNext, PoolStep, PoolProviderNext
<1>3. poolOK(pool')
  BY <1>2, PoolNextInv DEF PoolInv
<1>4. ASSUME NEW a, NEW n, PoolDeposit(a, n)
      PROVE  now' = now /\ pool'.lockedByTask = pool.lockedByTask
                        /\ pool'.totalLocked = pool.totalLocked
                        /\ pool'.lossPaidByEpoch = pool.lossPaidByEpoch
  BY <1>1, <1>4, Zenon DEF PoolDeposit, deposit, PoolStorage
<1>5. ASSUME NEW a, NEW n, PoolWithdraw(a, n)
      PROVE  now' = now /\ pool'.lockedByTask = pool.lockedByTask
                        /\ pool'.totalLocked = pool.totalLocked
                        /\ pool'.lossPaidByEpoch = pool.lossPaidByEpoch
  BY <1>1, <1>5, Zenon DEF PoolWithdraw, withdrawShares, PoolStorage
<1>6. ASSUME NEW a, PoolRequestWithdrawal(a)
      PROVE  now' = now /\ pool'.lockedByTask = pool.lockedByTask
                        /\ pool'.totalLocked = pool.totalLocked
                        /\ pool'.lossPaidByEpoch = pool.lossPaidByEpoch
  BY <1>1, <1>6, Zenon DEF PoolRequestWithdrawal, requestWithdrawal, PoolStorage
<1>7. ASSUME NEW v, setAllocator(v) \/ setPoolParameters(v) \/ setPoolRiskControls(v)
      PROVE  now' = now /\ pool'.lockedByTask = pool.lockedByTask
                        /\ pool'.totalLocked = pool.totalLocked
                        /\ pool'.lossPaidByEpoch = pool.lossPaidByEpoch
  BY <1>1, <1>7, Zenon DEF setAllocator, setPoolParameters, setPoolRiskControls, PoolStorage
<1>. QED  BY <1>3, <1>4, <1>5, <1>6, <1>7 DEF PoolOutsideNext, PoolOwnerNext

\* Nothing is open in the deployment a behaviour starts from.
LEMMA LedgerInit == BondInit => LedgerInv
<1> SUFFICES ASSUME BondInit PROVE LedgerInv
  OBVIOUS
<1>1. /\ CustodyInv /\ now \in 0..MaxTime /\ stake = InitialStake /\ pool = InitialPool
      /\ stakeOK(stake) /\ poolOK(pool)
  <2>1. now = 0 /\ stake = InitialStake /\ pool = InitialPool
    BY Zenon DEF BondInit
  <2>2. stakeOK(InitialStake) /\ poolOK(InitialPool)
    BY DeploymentAssumption DEF stakeOK, poolOK
  <2>3. now \in 0..MaxTime
    BY <2>1, MaxTimeAssumption
  <2>. QED  BY <2>1, <2>2, <2>3, CustodyInit
<1>2. /\ ledger \in Ledgers /\ ledger.openExposure = 0 /\ ledger.openTaskCount = 0
      /\ ledger.byRequester = [a \in Accounts |-> 0]
      /\ ledger.byAgent = [a \in Accounts |-> 0] /\ ledger.byVerifier = [a \in Accounts |-> 0]
  BY Zenon DEF BondInit, Ledgers
<1>3. \A t \in Tasks : /\ task[t].status = "Unknown" /\ ~task[t].recourseClaimPaid
                       /\ ~live(task[t]) /\ ~bonded(task[t])
  BY Zenon DEF BondInit, live, bonded
<1>4. \A f : f \in [Tasks -> {0}] => Total(f) = 0
  <2> SUFFICES ASSUME NEW f \in [Tasks -> {0}] PROVE Total(f) = 0
    OBVIOUS
  <2>1. f \in [Tasks -> Nat] /\ \A t \in Tasks : f[t] = 0
    OBVIOUS
  <2>. QED  BY <2>1, TotalZero
<1>5. ExposureMatchesEscrow
  <2>1. escrow.lockedByTask \in [Tasks -> {0}]
    BY Zenon DEF BondInit, EscrowInit
  <2>2. {t \in Tasks : live(task[t])} = {}
    BY <1>3
  <2>. QED  BY <1>2, <1>4, <2>1, <2>2, FS_EmptySet DEF ExposureMatchesEscrow
<1>6. BondsMatchStake
  <2>1. ASSUME NEW a \in Accounts
        PROVE  Total([t \in Tasks |-> bondOf(task[t], a)]) = 0
    <3>1. [t \in Tasks |-> bondOf(task[t], a)] \in [Tasks -> {0}]
      BY <1>3, NotBonded
    <3>. QED  BY <1>4, <3>1
  <2>. QED  BY <1>1, <2>1, DeploymentAssumption, Zenon DEF BondsMatchStake, stakeOK
<1>7. RecourseMatchesPool
  <2>1. \A t \in Tasks : coverageOf(task[t]) = 0
    BY <1>3, NotBonded, Zenon
  <2>2. ASSUME NEW a \in Accounts
        PROVE  /\ Total([t \in Tasks |->
                           IF task[t].requester = a THEN coverageOf(task[t]) ELSE 0]) = 0
               /\ Total([t \in Tasks |->
                           IF task[t].agent = a THEN coverageOf(task[t]) ELSE 0]) = 0
               /\ Total([t \in Tasks |->
                           IF task[t].verifier = a THEN coverageOf(task[t]) ELSE 0]) = 0
    BY <1>4, <2>1
  <2>. QED  BY <1>1, <1>2, <2>1, <2>2, DeploymentAssumption, Zenon DEF RecourseMatchesPool
<1>. QED  BY <1>1, <1>2, <1>3, <1>5, <1>6, <1>7 DEF LedgerInv

\* Every transaction, and the passing of time, preserves the invariant.
LEMMA LedgerNext == LedgerInv /\ [BondNext]_bondVars => LedgerInv'
<1> SUFFICES ASSUME LedgerInv, [BondNext]_bondVars PROVE LedgerInv'
  OBVIOUS
<1>0. CustodyInv /\ CustodyInv'
  BY CustodyNext DEF LedgerInv
<1>1. ASSUME NEW t \in Tasks, TaskNext(t)
      PROVE  LedgerInv'
  BY <1>0, <1>1, OpenLedger, CancelLedger, AcceptLedger, WorkLedger, ChallengeLedger,
     ResolveLedger, CloseLedger DEF TaskNext
<1>2. now \in 0..MaxTime /\ stakeOK(stake) /\ poolOK(pool) /\ PoolInv /\ escrowOK(escrow)
  BY DEF LedgerInv, PoolInv, CustodyInv, EscrowSolvent, escrowOK
<1>3. CASE EscrowNext \/ EscrowOwnerNext
  <2>1. UNCHANGED <<task, ledger, stake, pool, now>>
    BY <1>3 DEF EscrowNext, EscrowOwnerNext
  <2>2. escrow'.lockedByTask = escrow.lockedByTask
    BY <1>2, <1>3, EscrowWithdrawOK, EscrowWithdrawReserveOK, EscrowSetManagerOK,
       RolesAssumption, Zenon DEF EscrowNext, EscrowOwnerNext
  <2>. QED  BY <1>0, <1>2, <2>1, <2>2, LedgerStays
<1>4. CASE BondTick
  <2>1. UNCHANGED <<task, ledger, escrow, stake, pool>> /\ now' \in 0..MaxTime
    BY <1>2, <1>4, MaxTimeAssumption DEF BondTick, Tick
  <2>. QED  BY <1>0, <1>2, <2>1, LedgerStays
<1>5. CASE AttesterNext \/ ControlNext \/ RegistryNext \/ UNCHANGED bondVars
  <2>1. UNCHANGED <<task, ledger, escrow, stake, pool, now>>
    BY <1>5 DEF AttesterNext, ControlNext, RegistryNext, bondVars
  <2>. QED  BY <1>0, <1>2, <2>1, LedgerStays
<1>6. CASE StakeNext \/ StakeOwnerNext
  <2>1. UNCHANGED <<task, ledger, escrow, pool, now>>
    BY <1>6 DEF StakeNext, StakeOwnerNext
  <2>. QED  BY <1>0, <1>2, <1>6, <2>1, StakeStepOK, LedgerStays
<1>7. CASE PoolOutsideNext \/ PoolOwnerNext
  <2>1. UNCHANGED <<task, ledger, escrow, stake>>
    BY <1>7 DEF PoolOutsideNext, PoolOwnerNext
  <2>. QED  BY <1>0, <1>2, <1>7, <2>1, PoolStepOK, LedgerStays
<1>. QED
  BY <1>1, <1>3, <1>4, <1>5, <1>6, <1>7 DEF BondNext, ByParty, ByOwner, PartyNext, OwnerNext

-----------------------------------------------------------------------------
(* Theorems *)

\* In every reachable state openExposure, which the pilot caps limit, is the sum
\* of what the escrow holds for tasks, and openTaskCount the number of tasks that
\* are not closed.
THEOREM ExposureAlwaysMatches == BondSpec => []ExposureMatchesEscrow
<1>1. LedgerInv => ExposureMatchesEscrow
  BY DEF LedgerInv
<1>. QED  BY <1>1, LedgerInit, LedgerNext, PTL DEF BondSpec

\* In every reachable state the open bonds the stake registry keeps for an agent
\* are the sum of the bonds of its tasks, and the registry can pay all stake.
THEOREM BondsAlwaysMatch == BondSpec => []BondsMatchStake
<1>1. LedgerInv => BondsMatchStake
  BY DEF LedgerInv
<1>. QED  BY <1>1, LedgerInit, LedgerNext, PTL DEF BondSpec

\* In every reachable state the pool has locked exactly the coverage of the tasks
\* that are bonded, and the manager's mappings are the sums of it by party.
THEOREM RecourseAlwaysMatches == BondSpec => []RecourseMatchesPool
<1>1. LedgerInv => RecourseMatchesPool
  BY DEF LedgerInv
<1>. QED  BY <1>1, LedgerInit, LedgerNext, PTL DEF BondSpec

\* The pool stays backed by its tokens with the bond manager as its allocator,
\* from any deployment in which it is.
THEOREM PoolBackedInBonds == BondSpec => []PoolBacked
<1>1. LedgerInv => PoolBacked
  BY DEF LedgerInv, poolOK, PoolBacked
<1>. QED  BY <1>1, LedgerInit, LedgerNext, PTL DEF BondSpec

=============================================================================
