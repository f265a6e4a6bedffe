--------------------- MODULE AgentUnderwriterPoolProofs ---------------------
(***************************************************************************)
(* The pool's accounting, for every set of tasks and providers and every   *)
(* setting of the controls.                                                *)
(***************************************************************************)
EXTENDS AgentUnderwriterPool, TotalsProofs

\* Integer division by a positive number: within bounds and monotone.
LEMMA DivFacts ==
  ASSUME NEW n \in Nat, NEW d \in Nat, d # 0
  PROVE  /\ n \div d \in Nat
         /\ n \div d <= n
         /\ n \div d <= (n + 1) \div d
         /\ (n \div d) * d <= n
BY SMT

\* The epoch of a time the model considers is one it keeps losses for.
LEMMA EpochInRange ==
  ASSUME NEW p \in PoolStorage, NEW time \in 0..MaxTime
  PROVE  currentEpoch(p, time) \in 0..MaxTime
<1>1. p.risk.epochDuration \in Nat
  BY DEF PoolStorage
<1>. QED  BY <1>1, DivFacts, MaxTimeAssumption DEF currentEpoch

-----------------------------------------------------------------------------
(* Each storage operation keeps a well-formed, backed storage so. *)

poolOK(p) == p \in PoolStorage /\ poolBacked(p)

LEMMA PoolFields ==
  ASSUME NEW p \in PoolStorage
  PROVE  /\ p.balance \in Nat /\ p.totalLocked \in Nat /\ p.totalAllocated \in Nat
         /\ p.lockedByTask \in [Tasks -> Nat] /\ p.sharesOf \in [Accounts -> Nat]
         /\ p.totalShares \in Nat /\ p.lossPaidByEpoch \in [0..MaxTime -> Nat]
         /\ p.withdrawalAvailableAt \in [Accounts -> Nat]
         /\ p.risk.epochDuration \in Nat /\ p.risk.maxLossPerEpoch \in Nat
         /\ p.risk.withdrawalCooldown \in Nat
BY DEF PoolStorage

LEMMA DepositOK ==
  ASSUME NEW p, poolOK(p), NEW a \in Accounts, NEW amount \in Nat,
         canDeposit(p, amount)
  PROVE  poolOK(deposit(p, a, amount))
<1> DEFINE m == sharesMinted(p, amount)
           q == deposit(p, a, amount)
<1>0. p \in PoolStorage /\ poolBacked(p)
  BY DEF poolOK
<1>1. m \in Nat
  BY <1>0, PoolFields, DivFacts DEF sharesMinted, canDeposit
<1>2. /\ p.sharesOf \in [Accounts -> Nat] /\ p.sharesOf[a] \in Nat
      /\ p.sharesOf[a] + m \in Nat /\ p.totalShares + m \in Nat
      /\ p.balance + amount \in Nat
  BY <1>0, <1>1, PoolFields
<1> HIDE DEF m
<1>3. q = [p EXCEPT !.sharesOf[a] = @ + m, !.totalShares = @ + m,
                    !.balance = @ + amount]
  BY DEF deposit, m
<1> HIDE DEF q
<1>4. q \in PoolStorage
  BY <1>0, <1>2, <1>3, Zenon DEF PoolStorage
<1>5. /\ q.sharesOf = [p.sharesOf EXCEPT ![a] = p.sharesOf[a] + m]
      /\ q.totalShares = p.totalShares + m /\ q.balance = p.balance + amount
      /\ q.lockedByTask = p.lockedByTask /\ q.totalLocked = p.totalLocked
      /\ q.totalAllocated = p.totalAllocated
  BY <1>0, <1>3, Zenon DEF PoolStorage
<1>6. Total(q.sharesOf) = Total(p.sharesOf) - p.sharesOf[a] + (p.sharesOf[a] + m)
  BY <1>2, <1>5, TotalUpdate, PartiesAssumption
<1>7. poolBacked(q)
  <2>1. /\ p.totalLocked \in Nat /\ p.balance \in Nat /\ p.totalShares \in Nat
        /\ p.totalLocked = Total(p.lockedByTask) /\ p.totalAllocated = p.totalLocked
        /\ p.totalLocked <= p.balance /\ p.totalShares = Total(p.sharesOf)
    BY <1>0, PoolFields DEF poolBacked
  <2>2. q.totalLocked <= q.balance /\ q.totalShares = Total(q.sharesOf)
    BY <1>1, <1>2, <1>5, <1>6, <2>1
  <2>. QED  BY <1>5, <2>1, <2>2 DEF poolBacked
<1>. QED  BY <1>4, <1>7 DEF poolOK, q

LEMMA WithdrawOK ==
  ASSUME NEW p, poolOK(p), NEW a \in Accounts, NEW shares \in Nat, NEW time,
         canWithdrawShares(p, a, shares, time)
  PROVE  poolOK(withdrawShares(p, a, shares))
<1> DEFINE w == withdrawalAmount(p, shares)
           q == withdrawShares(p, a, shares)
<1>0. p \in PoolStorage /\ poolBacked(p)
  BY DEF poolOK
<1>1. /\ p.sharesOf \in [Accounts -> Nat] /\ p.sharesOf[a] \in Nat
      /\ p.sharesOf[a] <= p.totalShares
      /\ shares > 0 /\ shares <= p.sharesOf[a]
  BY <1>0, PoolFields, TotalAtLeast, PartiesAssumption DEF poolBacked, canWithdrawShares
<1>2. w \in Nat
  BY <1>0, <1>1, PoolFields, DivFacts DEF withdrawalAmount
<1>3. p.totalLocked + w <= p.balance
  BY <1>0, <1>2, PoolFields DEF canWithdrawShares, availableCapacity, poolBacked
<1> HIDE DEF w
<1>4. /\ p.sharesOf[a] - shares \in Nat /\ p.totalShares - shares \in Nat
      /\ p.balance - w \in Nat
  <2>1. p.totalLocked \in Nat /\ p.balance \in Nat /\ p.totalShares \in Nat
    BY <1>0, PoolFields
  <2>. QED  BY <1>1, <1>2, <1>3, <2>1
<1>5. q = [p EXCEPT !.sharesOf[a] = @ - shares, !.totalShares = @ - shares,
                    !.balance = @ - w]
  BY DEF withdrawShares, w
<1> HIDE DEF q
<1>6. q \in PoolStorage
  BY <1>0, <1>4, <1>5, Zenon DEF PoolStorage
<1>7. /\ q.sharesOf = [p.sharesOf EXCEPT ![a] = p.sharesOf[a] - shares]
      /\ q.totalShares = p.totalShares - shares /\ q.balance = p.balance - w
      /\ q.lockedByTask = p.lockedByTask /\ q.totalLocked = p.totalLocked
      /\ q.totalAllocated = p.totalAllocated
  BY <1>0, <1>5, Zenon DEF PoolStorage
<1>8. Total(q.sharesOf) = Total(p.sharesOf) - p.sharesOf[a] + (p.sharesOf[a] - shares)
  BY <1>1, <1>4, <1>7, TotalUpdate, PartiesAssumption
<1>9. poolBacked(q)
  <2>1. /\ p.totalLocked \in Nat /\ p.balance \in Nat /\ p.totalShares \in Nat
        /\ p.totalLocked = Total(p.lockedByTask) /\ p.totalAllocated = p.totalLocked
        /\ p.totalShares = Total(p.sharesOf)
    BY <1>0, PoolFields DEF poolBacked
  <2>2. q.totalLocked <= q.balance /\ q.totalShares = Total(q.sharesOf)
    BY <1>1, <1>2, <1>3, <1>7, <1>8, <2>1
  <2>. QED  BY <1>7, <2>1, <2>2 DEF poolBacked
<1>. QED  BY <1>6, <1>9 DEF poolOK, q

LEMMA LockOK ==
  ASSUME NEW p, poolOK(p), NEW t \in Tasks, NEW amount \in Nat, NEW time,
         canLockCoverage(p, t, amount, time)
  PROVE  poolOK(lockCoverage(p, t, amount))
<1> DEFINE q == lockCoverage(p, t, amount)
<1>0. p \in PoolStorage /\ poolBacked(p)
  BY DEF poolOK
<1>1. /\ p.lockedByTask \in [Tasks -> Nat] /\ p.lockedByTask[t] = 0
      /\ p.totalLocked + amount \in Nat /\ p.totalAllocated + amount \in Nat
      /\ p.totalLocked + amount <= p.balance
  BY <1>0, PoolFields DEF canLockCoverage, availableCapacity, poolBacked
<1>2. q \in PoolStorage
  BY <1>0, <1>1, Zenon DEF PoolStorage, lockCoverage
<1>3. /\ q.lockedByTask = [p.lockedByTask EXCEPT ![t] = amount]
      /\ q.totalLocked = p.totalLocked + amount
      /\ q.totalAllocated = p.totalAllocated + amount
      /\ q.balance = p.balance
      /\ q.sharesOf = p.sharesOf /\ q.totalShares = p.totalShares
  BY <1>0, Zenon DEF PoolStorage, lockCoverage
<1> HIDE DEF q
<1>4. Total(q.lockedByTask) = Total(p.lockedByTask) - p.lockedByTask[t] + amount
  <2>1. Total([p.lockedByTask EXCEPT ![t] = amount])
          = Total(p.lockedByTask) - p.lockedByTask[t] + amount
    BY <1>1, TotalUpdate, PartiesAssumption
  <2>. QED  BY <1>3, <2>1
<1>5. poolBacked(q)
  BY <1>0, <1>1, <1>3, <1>4, PoolFields DEF poolBacked
<1>. QED  BY <1>2, <1>5 DEF poolOK, q

LEMMA ReleaseOK ==
  ASSUME NEW p, poolOK(p), NEW t \in Tasks
  PROVE  /\ poolOK(releaseForTask(p, t))
         /\ p.lockedByTask[t] <= p.totalLocked
         /\ releaseForTask(p, t).totalLocked = p.totalLocked - p.lockedByTask[t]
         /\ releaseForTask(p, t).lockedByTask = [p.lockedByTask EXCEPT ![t] = 0]
         /\ releaseForTask(p, t).balance = p.balance
<1> DEFINE q == releaseForTask(p, t)
<1>0. p \in PoolStorage /\ poolBacked(p)
  BY DEF poolOK
<1>1. /\ p.lockedByTask \in [Tasks -> Nat] /\ p.lockedByTask[t] \in Nat
      /\ p.lockedByTask[t] <= p.totalLocked
  BY <1>0, PoolFields, TotalAtLeast, PartiesAssumption DEF poolBacked
<1>2. /\ p.totalLocked - p.lockedByTask[t] \in Nat
      /\ p.totalAllocated - p.lockedByTask[t] \in Nat
  BY <1>0, <1>1, PoolFields DEF poolBacked
<1>3. q \in PoolStorage
  <2>1. 0 \in Nat
    OBVIOUS
  <2>. QED  BY <1>0, <1>2, <2>1, Zenon DEF PoolStorage, releaseForTask
<1>4. /\ q.lockedByTask = [p.lockedByTask EXCEPT ![t] = 0]
      /\ q.totalLocked = p.totalLocked - p.lockedByTask[t]
      /\ q.totalAllocated = p.totalAllocated - p.lockedByTask[t]
      /\ q.balance = p.balance
      /\ q.sharesOf = p.sharesOf /\ q.totalShares = p.totalShares
  BY <1>0, Zenon DEF PoolStorage, releaseForTask
<1> HIDE DEF q
<1>5. Total(q.lockedByTask) = Total(p.lockedByTask) - p.lockedByTask[t] + 0
  BY <1>1, <1>4, TotalUpdate, PartiesAssumption
<1>6. poolBacked(q)
  BY <1>0, <1>1, <1>4, <1>5, PoolFields DEF poolBacked
<1>. QED  BY <1>1, <1>3, <1>4, <1>6 DEF poolOK, q

LEMMA PayClaimOK ==
  ASSUME NEW p, poolOK(p), NEW t \in Tasks, NEW amount \in Nat, NEW time \in 0..MaxTime,
         canPayClaim(p, t, amount, time)
  PROVE  poolOK(payClaim(p, t, amount, time))
<1> DEFINE r == releaseForTask(p, t)
           paid == claimPaid(p, t, amount)
           counted == IF p.risk.maxLossPerEpoch = 0 THEN 0 ELSE paid
           e == currentEpoch(p, time)
           q == payClaim(p, t, amount, time)
<1>0. p \in PoolStorage /\ poolBacked(p)
  BY DEF poolOK
<1>1. /\ r \in PoolStorage /\ poolBacked(r)
      /\ r.totalLocked = p.totalLocked - p.lockedByTask[t]
      /\ r.balance = p.balance
      /\ p.lockedByTask[t] <= p.totalLocked
  BY ReleaseOK, Zenon DEF poolOK
<1>2. paid \in Nat /\ paid <= p.lockedByTask[t] /\ counted \in Nat /\ e \in 0..MaxTime
  BY <1>0, PoolFields, EpochInRange DEF claimPaid
<1>3. q = [r EXCEPT !.lossPaidByEpoch[e] = @ + counted, !.balance = @ - paid]
  BY DEF payClaim
<1> HIDE DEF r, paid, counted, e, q
<1>4. /\ r.lossPaidByEpoch[e] + counted \in Nat /\ r.balance - paid \in Nat
      /\ r.totalLocked <= r.balance - paid
  <2>1. p.totalLocked <= p.balance /\ p.lockedByTask[t] \in Nat /\ p.totalLocked \in Nat
    BY <1>0, PoolFields DEF poolBacked
  <2>2. r.lossPaidByEpoch[e] \in Nat /\ r.balance \in Nat
    BY <1>1, <1>2, PoolFields, Zenon
  <2>. QED  BY <1>1, <1>2, <2>1, <2>2
<1>5. q \in PoolStorage
  BY <1>1, <1>2, <1>3, <1>4, Zenon DEF PoolStorage
<1>6. /\ q.lockedByTask = r.lockedByTask /\ q.totalLocked = r.totalLocked
      /\ q.totalAllocated = r.totalAllocated /\ q.balance = r.balance - paid
      /\ q.sharesOf = r.sharesOf /\ q.totalShares = r.totalShares
  BY <1>1, <1>3, Zenon DEF PoolStorage
<1>7. poolBacked(q)
  BY <1>1, <1>4, <1>6, Zenon DEF poolBacked
<1>. QED  BY <1>5, <1>7 DEF poolOK, q

\* The remaining operations touch one field that the accounting does not read,
\* or add to the balance.
LEMMA SettersOK ==
  ASSUME NEW p, poolOK(p)
  PROVE  /\ \A a \in Accounts, time \in 0..MaxTime : poolOK(requestWithdrawal(p, a, time))
         /\ \A n \in Nat : poolOK([p EXCEPT !.balance = @ + n])
         /\ \A b \in BOOLEAN : poolOK([p EXCEPT !.allocator = b])
         /\ \A c \in CoverageCaps : poolOK([p EXCEPT !.caps = c])
         /\ \A r \in RiskControls : poolOK([p EXCEPT !.risk = r])
<1>0. p \in PoolStorage /\ poolBacked(p)
  BY DEF poolOK
<1>1. ASSUME NEW a \in Accounts, NEW time \in 0..MaxTime
      PROVE  poolOK(requestWithdrawal(p, a, time))
  <2> DEFINE q == requestWithdrawal(p, a, time)
  <2>1. time + p.risk.withdrawalCooldown \in Nat
    BY <1>0, PoolFields
  <2>2. q \in PoolStorage
    BY <1>0, <2>1, Zenon DEF PoolStorage, requestWithdrawal
  <2>3. /\ q.lockedByTask = p.lockedByTask /\ q.totalLocked = p.totalLocked
        /\ q.totalAllocated = p.totalAllocated /\ q.balance = p.balance
        /\ q.sharesOf = p.sharesOf /\ q.totalShares = p.totalShares
    BY <1>0, Zenon DEF PoolStorage, requestWithdrawal
  <2> HIDE DEF q
  <2>. QED  BY <1>0, <2>2, <2>3 DEF poolOK, poolBacked, q
<1>2. ASSUME NEW n \in Nat
      PROVE  poolOK([p EXCEPT !.balance = @ + n])
  <2> DEFINE q == [p EXCEPT !.balance = @ + n]
  <2>1. p.balance + n \in Nat /\ p.balance <= p.balance + n
    BY <1>0, PoolFields
  <2>2. q \in PoolStorage
    BY <1>0, <2>1, Zenon DEF PoolStorage
  <2>3. /\ q.lockedByTask = p.lockedByTask /\ q.totalLocked = p.totalLocked
        /\ q.totalAllocated = p.totalAllocated /\ q.balance = p.balance + n
        /\ q.sharesOf = p.sharesOf /\ q.totalShares = p.totalShares
    BY <1>0, Zenon DEF PoolStorage
  <2> HIDE DEF q
  <2>4. poolBacked(q)
    BY <1>0, <2>1, <2>3, PoolFields DEF poolBacked
  <2>. QED  BY <2>2, <2>4 DEF poolOK, q
<1>3. ASSUME NEW b \in BOOLEAN
      PROVE  poolOK([p EXCEPT !.allocator = b])
  <2>1. [p EXCEPT !.allocator = b] \in PoolStorage
    BY <1>0, Zenon DEF PoolStorage
  <2>. QED  BY <1>0, <2>1, Zenon DEF poolOK, poolBacked, PoolStorage
<1>4. ASSUME NEW c \in CoverageCaps
      PROVE  poolOK([p EXCEPT !.caps = c])
  <2>1. [p EXCEPT !.caps = c] \in PoolStorage
    BY <1>0, PoolAssumption, Zenon DEF PoolStorage
  <2>. QED  BY <1>0, <2>1, Zenon DEF poolOK, poolBacked, PoolStorage
<1>5. ASSUME NEW r \in RiskControls
      PROVE  poolOK([p EXCEPT !.risk = r])
  <2>1. [p EXCEPT !.risk = r] \in PoolStorage
    BY <1>0, PoolAssumption, Zenon DEF PoolStorage
  <2>. QED  BY <1>0, <2>1, Zenon DEF poolOK, poolBacked, PoolStorage
<1>. QED  BY <1>1, <1>2, <1>3, <1>4, <1>5

-----------------------------------------------------------------------------
(* Accounting *)

PoolInv == poolOK(pool) /\ now \in 0..MaxTime

LEMMA PoolInitInv == PoolInit => PoolInv
<1> SUFFICES ASSUME PoolInit PROVE PoolInv
  OBVIOUS
<1>1. PICK risk \in RiskControls, caps \in CoverageCaps :
        pool = [balance |-> 0, totalLocked |-> 0, totalAllocated |-> 0,
                lockedByTask |-> [t \in Tasks |-> 0],
                sharesOf |-> [a \in Accounts |-> 0],
                totalShares |-> 0,
                lossPaidByEpoch |-> [e \in 0..MaxTime |-> 0],
                withdrawalAvailableAt |-> [a \in Accounts |-> 0],
                allocator |-> TRUE,
                risk |-> risk, caps |-> caps]
  BY Zenon DEF PoolInit
<1>2. /\ risk \in [epochDuration : Nat, maxLossPerEpoch : Nat, withdrawalCooldown : Nat]
      /\ caps \in [maxCoveragePerTask : Nat, maxRiskTier : Nat]
  BY PoolAssumption
<1>3. pool \in PoolStorage
  BY <1>1, <1>2 DEF PoolStorage
<1>4. Total(pool.lockedByTask) = 0 /\ Total(pool.sharesOf) = 0
  BY <1>1, TotalZero
<1>5. poolBacked(pool)
  BY <1>1, <1>4 DEF poolBacked
<1>. QED  BY <1>3, <1>5, MaxTimeAssumption DEF PoolInit, PoolInv, poolOK

LEMMA PoolNextInv == PoolInv /\ [PoolNext]_poolVars => PoolInv'
<1> SUFFICES ASSUME PoolInv, [PoolNext]_poolVars PROVE PoolInv'
  OBVIOUS
<1> USE DEF PoolInv
<1>1. ASSUME NEW a \in Accounts, NEW amount \in PoolAmounts, PoolDeposit(a, amount)
      PROVE  PoolInv'
  BY <1>1, DepositOK, PoolAssumption DEF PoolDeposit
<1>2. ASSUME NEW a \in Accounts, NEW shares \in PoolShares, PoolWithdraw(a, shares)
      PROVE  PoolInv'
  BY <1>2, WithdrawOK, PoolAssumption DEF PoolWithdraw
<1>3. ASSUME NEW a \in Accounts, PoolRequestWithdrawal(a)
      PROVE  PoolInv'
  BY <1>3, SettersOK DEF PoolRequestWithdrawal
<1>4. ASSUME NEW amount \in PoolAmounts, PoolTokenTransferIn(amount)
      PROVE  PoolInv'
  BY <1>4, SettersOK, PoolAssumption DEF PoolTokenTransferIn
<1>5. ASSUME NEW t \in Tasks, NEW amount \in PoolAmounts, PoolLockCoverage(t, amount)
      PROVE  PoolInv'
  BY <1>5, LockOK, PoolAssumption DEF PoolLockCoverage
<1>6. ASSUME NEW t \in Tasks, NEW amount \in PoolAmounts, PoolPayClaim(t, amount)
      PROVE  PoolInv'
  BY <1>6, PayClaimOK, PoolAssumption DEF PoolPayClaim
<1>7. ASSUME NEW t \in Tasks, PoolReleaseForTask(t)
      PROVE  PoolInv'
  BY <1>7, ReleaseOK, Zenon DEF PoolReleaseForTask
<1>8. ASSUME NEW authorized \in BOOLEAN, setAllocator(authorized)
      PROVE  PoolInv'
  BY <1>8, SettersOK DEF setAllocator
<1>9. ASSUME NEW caps \in CoverageCaps, setPoolParameters(caps)
      PROVE  PoolInv'
  BY <1>9, SettersOK DEF setPoolParameters
<1>10. ASSUME NEW risk \in RiskControls, setPoolRiskControls(risk)
       PROVE  PoolInv'
  BY <1>10, SettersOK DEF setPoolRiskControls
<1>11. CASE PoolTick
  BY <1>11, MaxTimeAssumption DEF PoolTick, Tick
<1>12. CASE UNCHANGED poolVars
  BY <1>12 DEF poolVars
<1>. QED  BY <1>1, <1>2, <1>3, <1>4, <1>5, <1>6, <1>7, <1>8, <1>9, <1>10, <1>11, <1>12
          DEF PoolNext, PoolStep, PoolProviderNext, PoolAllocatorNext

\* The storage of the pool keeps its types, whatever sequence of deposits,
\* withdrawals, locks, releases, claims and owner settings is executed.
THEOREM PoolTypeCorrect == PoolSpec => []PoolTypeOK
<1>1. PoolInv => PoolTypeOK
  BY DEF PoolInv, poolOK, PoolTypeOK
<1>. QED  BY <1>1, PoolInitInv, PoolNextInv, PTL DEF PoolSpec

\* Every locked coverage is backed by tokens and the running totals of the
\* pool are the sums of its mappings, for every number of tasks and providers.
THEOREM PoolAlwaysBacked == PoolSpec => []PoolBacked
<1>1. PoolInv => PoolBacked
  BY DEF PoolInv, poolOK, PoolBacked
<1>. QED  BY <1>1, PoolInitInv, PoolNextInv, PTL DEF PoolSpec

-----------------------------------------------------------------------------
(* Claims *)

\* What makes ClaimsPayable inductive: the losses paid in the current epoch and
\* all open coverage together fit under the cap, and no later epoch has losses.
epochReserved(p, time) ==
  p.risk.maxLossPerEpoch # 0 =>
    /\ p.risk.epochDuration # 0
    /\ p.lossPaidByEpoch[currentEpoch(p, time)] + p.totalLocked <= p.risk.maxLossPerEpoch
    /\ \A e \in 0..MaxTime : e > currentEpoch(p, time) => p.lossPaidByEpoch[e] = 0

\* Operations that only release, or do not touch, locks and losses.
LEMMA ReservedKept ==
  ASSUME NEW p \in PoolStorage, NEW q \in PoolStorage, NEW time \in 0..MaxTime,
         epochReserved(p, time), q.risk = p.risk,
         q.lossPaidByEpoch = p.lossPaidByEpoch, q.totalLocked <= p.totalLocked
  PROVE  epochReserved(q, time)
<1>1. currentEpoch(q, time) = currentEpoch(p, time)
  BY DEF currentEpoch
<1>2. currentEpoch(p, time) \in 0..MaxTime
  BY EpochInRange
<1>3. /\ p.lossPaidByEpoch[currentEpoch(p, time)] \in Nat
      /\ p.totalLocked \in Nat /\ q.totalLocked \in Nat
      /\ p.risk.maxLossPerEpoch \in Nat
  BY <1>2, PoolFields, Zenon
<1>. QED  BY <1>1, <1>2, <1>3 DEF epochReserved

LEMMA ReservedLock ==
  ASSUME NEW p, poolOK(p), NEW t \in Tasks, NEW amount \in Nat, NEW time \in 0..MaxTime,
         canLockCoverage(p, t, amount, time), epochReserved(p, time)
  PROVE  epochReserved(lockCoverage(p, t, amount), time)
<1> DEFINE q == lockCoverage(p, t, amount)
<1>0. p \in PoolStorage
  BY DEF poolOK
<1>1. /\ q.risk = p.risk /\ q.lossPaidByEpoch = p.lossPaidByEpoch
      /\ q.totalLocked = p.totalLocked + amount
  BY <1>0, Zenon DEF PoolStorage, lockCoverage
<1>2. currentEpoch(q, time) = currentEpoch(p, time)
  BY <1>1 DEF currentEpoch
<1>3. currentEpoch(p, time) \in 0..MaxTime
  BY <1>0, EpochInRange
<1> HIDE DEF q
<1>4. p.risk.maxLossPerEpoch # 0 =>
        p.lossPaidByEpoch[currentEpoch(p, time)] + p.totalLocked + amount
          <= p.risk.maxLossPerEpoch
  BY DEF canLockCoverage, withinEpochCapacity
<1>5. /\ p.lossPaidByEpoch[currentEpoch(p, time)] \in Nat
      /\ p.totalLocked \in Nat /\ p.risk.maxLossPerEpoch \in Nat
  BY <1>0, <1>3, PoolFields, Zenon
<1>6. epochReserved(q, time)
  BY <1>1, <1>2, <1>3, <1>4, <1>5 DEF epochReserved
<1>. QED  BY <1>6 DEF q

LEMMA ReservedClaim ==
  ASSUME NEW p, poolOK(p), NEW t \in Tasks, NEW amount \in Nat, NEW time \in 0..MaxTime,
         canPayClaim(p, t, amount, time), epochReserved(p, time)
  PROVE  epochReserved(payClaim(p, t, amount, time), time)
<1> DEFINE r == releaseForTask(p, t)
           paid == claimPaid(p, t, amount)
           counted == IF p.risk.maxLossPerEpoch = 0 THEN 0 ELSE paid
           e == currentEpoch(p, time)
           q == payClaim(p, t, amount, time)
<1>0. p \in PoolStorage
  BY DEF poolOK
<1>1. r \in PoolStorage /\ r.totalLocked = p.totalLocked - p.lockedByTask[t]
  BY ReleaseOK, Zenon DEF poolOK
<1>2. r.risk = p.risk /\ r.lossPaidByEpoch = p.lossPaidByEpoch
  BY <1>0, Zenon DEF PoolStorage, releaseForTask
<1>3. /\ paid \in Nat /\ paid <= p.lockedByTask[t] /\ p.lockedByTask[t] \in Nat
      /\ counted \in Nat /\ counted <= paid /\ e \in 0..MaxTime
  BY <1>0, PoolFields, EpochInRange DEF claimPaid
<1>4. q = [r EXCEPT !.lossPaidByEpoch[e] = @ + counted, !.balance = @ - paid]
  BY DEF payClaim
<1> HIDE DEF r, paid, counted, e, q
<1>5. /\ q.risk = r.risk /\ q.totalLocked = r.totalLocked
      /\ q.lossPaidByEpoch = [r.lossPaidByEpoch EXCEPT ![e] = r.lossPaidByEpoch[e] + counted]
  BY <1>1, <1>4, Zenon DEF PoolStorage
<1>6. currentEpoch(q, time) = e
  BY <1>2, <1>5 DEF currentEpoch, e
<1>7. /\ q.lossPaidByEpoch[e] = p.lossPaidByEpoch[e] + counted
      /\ \A d \in 0..MaxTime : d # e => q.lossPaidByEpoch[d] = p.lossPaidByEpoch[d]
  BY <1>0, <1>2, <1>3, <1>5, PoolFields, Zenon
<1>8. epochReserved(q, time)
  <2>1. /\ p.lossPaidByEpoch[e] \in Nat /\ p.totalLocked \in Nat
        /\ p.risk.maxLossPerEpoch \in Nat
    BY <1>0, <1>3, PoolFields, Zenon
  <2>. QED  BY <1>1, <1>2, <1>3, <1>5, <1>6, <1>7, <2>1 DEF epochReserved, e
<1>. QED  BY <1>8 DEF q

LEMMA ReservedTick ==
  ASSUME NEW p \in PoolStorage, NEW time \in 0..MaxTime, time + 1 \in 0..MaxTime,
         epochReserved(p, time)
  PROVE  epochReserved(p, time + 1)
<1> DEFINE e == currentEpoch(p, time)
           f == currentEpoch(p, time + 1)
<1>1. SUFFICES ASSUME p.risk.maxLossPerEpoch # 0
               PROVE  /\ p.risk.epochDuration # 0
                      /\ p.lossPaidByEpoch[f] + p.totalLocked <= p.risk.maxLossPerEpoch
                      /\ \A d \in 0..MaxTime : d > f => p.lossPaidByEpoch[d] = 0
  BY DEF epochReserved
<1>2. p.risk.epochDuration \in Nat \ {0}
  BY <1>1, PoolFields DEF epochReserved
<1>3. e \in 0..MaxTime /\ f \in 0..MaxTime
  BY EpochInRange
<1>4. e <= f
  BY <1>2, DivFacts DEF currentEpoch
<1>5. /\ p.lossPaidByEpoch[e] + p.totalLocked <= p.risk.maxLossPerEpoch
      /\ \A d \in 0..MaxTime : d > e => p.lossPaidByEpoch[d] = 0
  BY <1>1 DEF epochReserved
<1> HIDE DEF e, f
<1>6. p.lossPaidByEpoch[e] \in Nat /\ p.totalLocked \in Nat /\ p.risk.maxLossPerEpoch \in Nat
  BY <1>3, PoolFields, Zenon
<1>. QED  BY <1>2, <1>3, <1>4, <1>5, <1>6

\* The inductive invariant of the pool whose risk controls stay as they are.
PoolReserveInv == PoolInv /\ epochReserved(pool, now)

LEMMA PoolReserveInit == PoolInit => PoolReserveInv
<1> SUFFICES ASSUME PoolInit PROVE epochReserved(pool, now)
  BY PoolInitInv DEF PoolReserveInv
<1>1. PICK risk \in RiskControls, caps \in CoverageCaps :
        /\ validRiskControls(risk)
        /\ pool.lossPaidByEpoch = [e \in 0..MaxTime |-> 0]
        /\ pool.totalLocked = 0
        /\ pool.risk = risk
  BY DEF PoolInit
<1>2. pool \in PoolStorage /\ now \in 0..MaxTime
  BY PoolInitInv DEF PoolInv, poolOK
<1>3. currentEpoch(pool, now) \in 0..MaxTime /\ pool.risk.maxLossPerEpoch \in Nat
  BY <1>2, EpochInRange, PoolFields
<1>. QED  BY <1>1, <1>3 DEF epochReserved, validRiskControls

LEMMA PoolReserveNext == PoolReserveInv /\ [PoolStep]_poolVars => PoolReserveInv'
<1> SUFFICES ASSUME PoolReserveInv, [PoolStep]_poolVars PROVE epochReserved(pool', now')
  BY PoolNextInv DEF PoolReserveInv, PoolNext
<1>0. /\ poolOK(pool) /\ now \in 0..MaxTime /\ epochReserved(pool, now)
      /\ poolOK(pool') /\ now' \in 0..MaxTime
  BY PoolNextInv DEF PoolReserveInv, PoolInv, PoolNext
<1>s. pool \in PoolStorage /\ pool' \in PoolStorage
  BY <1>0 DEF poolOK
<1>1. ASSUME NEW a \in Accounts, NEW amount \in PoolAmounts, PoolDeposit(a, amount)
      PROVE  epochReserved(pool', now')
  <2>1. /\ pool'.risk = pool.risk /\ pool'.lossPaidByEpoch = pool.lossPaidByEpoch
        /\ pool'.totalLocked = pool.totalLocked /\ now' = now
    BY <1>1, <1>s, Zenon DEF PoolDeposit, deposit, PoolStorage
  <2>. QED  BY <1>0, <1>s, <2>1, ReservedKept, PoolFields
<1>2. ASSUME NEW a \in Accounts, NEW shares \in PoolShares, PoolWithdraw(a, shares)
      PROVE  epochReserved(pool', now')
  <2>1. /\ pool'.risk = pool.risk /\ pool'.lossPaidByEpoch = pool.lossPaidByEpoch
        /\ pool'.totalLocked = pool.totalLocked /\ now' = now
    BY <1>2, <1>s, Zenon DEF PoolWithdraw, withdrawShares, PoolStorage
  <2>. QED  BY <1>0, <1>s, <2>1, ReservedKept, PoolFields
<1>3. ASSUME NEW a \in Accounts, PoolRequestWithdrawal(a)
      PROVE  epochReserved(pool', now')
  <2>1. /\ pool'.risk = pool.risk /\ pool'.lossPaidByEpoch = pool.lossPaidByEpoch
        /\ pool'.totalLocked = pool.totalLocked /\ now' = now
    BY <1>3, <1>s, Zenon DEF PoolRequestWithdrawal, requestWithdrawal, PoolStorage
  <2>. QED  BY <1>0, <1>s, <2>1, ReservedKept, PoolFields
<1>4. ASSUME NEW amount \in PoolAmounts, PoolTokenTransferIn(amount)
      PROVE  epochReserved(pool', now')
  <2>1. /\ pool'.risk = pool.risk /\ pool'.lossPaidByEpoch = pool.lossPaidByEpoch
        /\ pool'.totalLocked = pool.totalLocked /\ now' = now
    BY <1>4, <1>s, Zenon DEF PoolTokenTransferIn, PoolStorage
  <2>. QED  BY <1>0, <1>s, <2>1, ReservedKept, PoolFields
<1>5. ASSUME NEW t \in Tasks, NEW amount \in PoolAmounts, PoolLockCoverage(t, amount)
      PROVE  epochReserved(pool', now')
  BY <1>0, <1>5, ReservedLock, PoolAssumption DEF PoolLockCoverage
<1>6. ASSUME NEW t \in Tasks, NEW amount \in PoolAmounts, PoolPayClaim(t, amount)
      PROVE  epochReserved(pool', now')
  BY <1>0, <1>6, ReservedClaim, PoolAssumption DEF PoolPayClaim
<1>7. ASSUME NEW t \in Tasks, PoolReleaseForTask(t)
      PROVE  epochReserved(pool', now')
  <2>1. /\ pool'.risk = pool.risk /\ pool'.lossPaidByEpoch = pool.lossPaidByEpoch
        /\ now' = now
    BY <1>7, <1>s, Zenon DEF PoolReleaseForTask, releaseForTask, PoolStorage
  <2>2. pool'.totalLocked = pool.totalLocked - pool.lockedByTask[t]
    BY <1>0, <1>7, ReleaseOK, Zenon DEF PoolReleaseForTask
  <2>3. pool'.totalLocked <= pool.totalLocked
    BY <1>s, <2>2, PoolFields
  <2>. QED  BY <1>0, <1>s, <2>1, <2>3, ReservedKept
<1>8. ASSUME NEW authorized \in BOOLEAN, setAllocator(authorized)
      PROVE  epochReserved(pool', now')
  <2>1. /\ pool'.risk = pool.risk /\ pool'.lossPaidByEpoch = pool.lossPaidByEpoch
        /\ pool'.totalLocked = pool.totalLocked /\ now' = now
    BY <1>8, <1>s, Zenon DEF setAllocator, PoolStorage
  <2>. QED  BY <1>0, <1>s, <2>1, ReservedKept, PoolFields
<1>9. ASSUME NEW caps \in CoverageCaps, setPoolParameters(caps)
      PROVE  epochReserved(pool', now')
  <2>1. /\ pool'.risk = pool.risk /\ pool'.lossPaidByEpoch = pool.lossPaidByEpoch
        /\ pool'.totalLocked = pool.totalLocked /\ now' = now
    BY <1>9, <1>s, Zenon DEF setPoolParameters, PoolStorage
  <2>. QED  BY <1>0, <1>s, <2>1, ReservedKept, PoolFields
<1>10. CASE PoolTick
  BY <1>0, <1>s, <1>10, ReservedTick, MaxTimeAssumption DEF PoolTick, Tick
<1>11. CASE UNCHANGED poolVars
  BY <1>0, <1>11 DEF poolVars
<1>. QED  BY <1>1, <1>2, <1>3, <1>4, <1>5, <1>6, <1>7, <1>8, <1>9, <1>10, <1>11
          DEF PoolStep, PoolProviderNext, PoolAllocatorNext

\* A claim on coverage that is locked finds room in the epoch and tokens.
LEMMA ReservePays == PoolReserveInv => ClaimsPayable
<1> SUFFICES ASSUME PoolReserveInv, pool.allocator, NEW t \in Tasks,
                    pool.lockedByTask[t] > 0
             PROVE  canPayClaim(pool, t, pool.lockedByTask[t], now)
  BY DEF ClaimsPayable
<1>1. pool \in PoolStorage /\ poolBacked(pool) /\ now \in 0..MaxTime
  BY DEF PoolReserveInv, PoolInv, poolOK
<1>2. /\ pool.lockedByTask[t] \in Nat /\ pool.lockedByTask[t] <= pool.totalLocked
      /\ pool.totalLocked <= pool.balance
      /\ pool.totalLocked \in Nat /\ pool.balance \in Nat
      /\ pool.risk.maxLossPerEpoch \in Nat
      /\ pool.lossPaidByEpoch[currentEpoch(pool, now)] \in Nat
  <2>1. currentEpoch(pool, now) \in 0..MaxTime
    BY <1>1, EpochInRange
  <2>2. pool.lockedByTask \in [Tasks -> Nat]
    BY <1>1, PoolFields
  <2>3. pool.lockedByTask[t] <= Total(pool.lockedByTask)
    BY <2>2, TotalAtLeast, PartiesAssumption
  <2>. QED  BY <1>1, <2>1, <2>2, <2>3, PoolFields, Zenon DEF poolBacked
<1>3. claimPaid(pool, t, pool.lockedByTask[t]) = pool.lockedByTask[t]
  BY <1>2 DEF claimPaid
<1>. QED  BY <1>2, <1>3 DEF canPayClaim, PoolReserveInv, epochReserved

\* As long as the owner leaves the risk controls alone, payClaim never reverts
\* for coverage that lockCoverage accepted: neither an earlier claim of the same
\* epoch, nor the turn of an epoch, nor a withdrawal can make it unpayable.
THEOREM LockedClaimsPayable == PoolSpecFixedControls => []ClaimsPayable
BY ReservePays, PoolReserveInit, PoolReserveNext, PTL DEF PoolSpecFixedControls

-----------------------------------------------------------------------------
(* Shares *)

\* Minting and burning round in favour of the pool.
LEMMA RoundingFavoursPool ==
  ASSUME NEW B \in Nat, NEW S \in Nat, NEW n \in Nat, S # 0
  PROVE  /\ B # 0 => (B + n) * S >= B * (S + ((n * S) \div B))
         /\ n <= S => (B - ((B * n) \div S)) * S >= B * (S - n)
<1>1. ASSUME B # 0
      PROVE  (B + n) * S >= B * (S + ((n * S) \div B))
  <2> DEFINE m == (n * S) \div B
  <2>1. n * S \in Nat
    OBVIOUS
  <2>2. m \in Nat /\ m * B <= n * S
    BY <1>1, <2>1, DivFacts
  <2> HIDE DEF m
  <2>3. (B + n) * S = B * S + n * S /\ B * (S + m) = B * S + m * B
    BY <2>2
  <2>4. (B + n) * S >= B * (S + m)
    BY <2>1, <2>2, <2>3
  <2>. QED  BY <2>4 DEF m
<1>2. ASSUME n <= S
      PROVE  (B - ((B * n) \div S)) * S >= B * (S - n)
  <2> DEFINE w == (B * n) \div S
  <2>1. B * n \in Nat
    OBVIOUS
  <2>2. w \in Nat /\ w * S <= B * n
    BY <2>1, DivFacts
  <2> HIDE DEF w
  <2>3. (B - w) * S = B * S - w * S /\ B * (S - n) = B * S - B * n
    BY <2>2
  <2>4. (B - w) * S >= B * (S - n)
    BY <2>1, <2>2, <2>3
  <2>. QED  BY <2>4 DEF w
<1>. QED  BY <1>1, <1>2

\* A step that leaves balance and shares alone leaves the price alone.
LEMMA SamePrice ==
  ASSUME pool \in PoolStorage, pool'.balance >= pool.balance, pool'.balance \in Nat,
         pool'.totalShares = pool.totalShares
  PROVE  PriceStep
<1>1. pool.balance \in Nat /\ pool.totalShares \in Nat
  BY PoolFields
<1>2. \A x, y, z \in Nat : x >= y => x * z >= y * z
  OBVIOUS
<1>. QED  BY <1>1, <1>2 DEF PriceStep

LEMMA PriceNext == PoolInv /\ PoolInv' /\ [PoolNext]_poolVars => [PriceStep]_poolVars
<1> SUFFICES ASSUME PoolInv, PoolInv', PoolNext PROVE PriceStep
  OBVIOUS
<1>s. /\ pool \in PoolStorage /\ poolBacked(pool) /\ pool' \in PoolStorage
      /\ pool.balance \in Nat /\ pool.totalShares \in Nat /\ pool'.balance \in Nat
  <2>1. pool \in PoolStorage /\ poolBacked(pool) /\ pool' \in PoolStorage
    BY DEF PoolInv, poolOK
  <2>. QED  BY <2>1, PoolFields
<1>1. ASSUME NEW a \in Accounts, NEW amount \in PoolAmounts, PoolDeposit(a, amount)
      PROVE  PriceStep
  <2>1. /\ pool'.balance = pool.balance + amount
        /\ pool'.totalShares = pool.totalShares + sharesMinted(pool, amount)
    BY <1>1, <1>s, Zenon DEF PoolDeposit, deposit, PoolStorage
  <2>2. CASE pool.totalShares = 0
    BY <2>2 DEF PriceStep
  <2>3. CASE pool.totalShares # 0
    <3>1. pool.balance # 0 /\ amount \in Nat
      BY <1>1, <1>s, <2>3, PoolAssumption DEF PoolDeposit, canDeposit
    <3>2. (pool.balance + amount) * pool.totalShares
             >= pool.balance * (pool.totalShares + ((amount * pool.totalShares) \div pool.balance))
      BY <1>s, <2>3, <3>1, RoundingFavoursPool, Zenon
    <3>3. sharesMinted(pool, amount) = (amount * pool.totalShares) \div pool.balance
      BY <2>3 DEF sharesMinted
    <3>. QED  BY <2>1, <3>2, <3>3 DEF PriceStep
  <2>. QED  BY <2>2, <2>3
<1>2. ASSUME NEW a \in Accounts, NEW shares \in PoolShares, PoolWithdraw(a, shares)
      PROVE  PriceStep
  <2>1. /\ pool'.balance = pool.balance - withdrawalAmount(pool, shares)
        /\ pool'.totalShares = pool.totalShares - shares
    BY <1>2, <1>s, Zenon DEF PoolWithdraw, withdrawShares, PoolStorage
  <2>2. pool.sharesOf \in [Accounts -> Nat]
    BY <1>s, PoolFields
  <2>3. pool.sharesOf[a] <= pool.totalShares
    BY <1>s, <2>2, TotalAtLeast, PartiesAssumption DEF poolBacked
  <2>4. shares \in Nat /\ shares > 0 /\ shares <= pool.sharesOf[a]
    BY <1>2, PoolAssumption DEF PoolWithdraw, canWithdrawShares
  <2>5. shares <= pool.totalShares /\ pool.totalShares # 0
    BY <1>s, <2>2, <2>3, <2>4
  <2>6. (pool.balance - ((pool.balance * shares) \div pool.totalShares)) * pool.totalShares
          >= pool.balance * (pool.totalShares - shares)
    BY <1>s, <2>4, <2>5, RoundingFavoursPool, Zenon
  <2>. QED  BY <2>1, <2>6 DEF PriceStep, withdrawalAmount
<1>3. ASSUME NEW a \in Accounts, PoolRequestWithdrawal(a)
      PROVE  PriceStep
  <2>1. pool'.balance = pool.balance /\ pool'.totalShares = pool.totalShares
    BY <1>3, <1>s, Zenon DEF PoolRequestWithdrawal, requestWithdrawal, PoolStorage
  <2>. QED  BY <1>s, <2>1, SamePrice
<1>4. ASSUME NEW amount \in PoolAmounts, PoolTokenTransferIn(amount)
      PROVE  PriceStep
  <2>1. pool'.balance = pool.balance + amount /\ pool'.totalShares = pool.totalShares
    BY <1>4, <1>s, Zenon DEF PoolTokenTransferIn, PoolStorage
  <2>. QED  BY <1>s, <2>1, SamePrice, PoolAssumption
<1>5. ASSUME NEW t \in Tasks, NEW amount \in PoolAmounts, PoolLockCoverage(t, amount)
      PROVE  PriceStep
  <2>1. pool'.balance = pool.balance /\ pool'.totalShares = pool.totalShares
    BY <1>5, <1>s, Zenon DEF PoolLockCoverage, lockCoverage, PoolStorage
  <2>. QED  BY <1>s, <2>1, SamePrice
<1>6. ASSUME NEW t \in Tasks, NEW amount \in PoolAmounts, PoolPayClaim(t, amount)
      PROVE  PriceStep
  <2>1. pool'.lockedByTask[t] = 0
    <3> DEFINE r == releaseForTask(pool, t)
    <3>1. r \in PoolStorage /\ r.lockedByTask = [pool.lockedByTask EXCEPT ![t] = 0]
      BY ReleaseOK DEF PoolInv, poolOK
    <3>2. pool.lockedByTask \in [Tasks -> Nat]
      BY <1>s, PoolFields
    <3> HIDE DEF r
    <3>3. pool'.lockedByTask = r.lockedByTask
      BY <1>6, <3>1, Zenon DEF PoolPayClaim, payClaim, PoolStorage, r
    <3>. QED  BY <3>1, <3>2, <3>3
  <2>2. pool.lockedByTask[t] > 0
    BY <1>6 DEF PoolPayClaim, canPayClaim
  <2>. QED  BY <2>1, <2>2 DEF PriceStep
<1>7. ASSUME NEW t \in Tasks, PoolReleaseForTask(t)
      PROVE  PriceStep
  <2>1. pool'.balance = pool.balance /\ pool'.totalShares = pool.totalShares
    BY <1>7, <1>s, Zenon DEF PoolReleaseForTask, releaseForTask, PoolStorage
  <2>. QED  BY <1>s, <2>1, SamePrice
<1>8. ASSUME \/ \E authorized \in BOOLEAN : setAllocator(authorized)
             \/ \E caps \in CoverageCaps : setPoolParameters(caps)
             \/ \E risk \in RiskControls : setPoolRiskControls(risk)
             \/ PoolTick
      PROVE  PriceStep
  <2>1. pool'.balance = pool.balance /\ pool'.totalShares = pool.totalShares
    BY <1>8, <1>s DEF setAllocator, setPoolParameters, setPoolRiskControls, PoolTick, PoolStorage
  <2>. QED  BY <1>s, <2>1, SamePrice
<1>. QED  BY <1>1, <1>2, <1>3, <1>4, <1>5, <1>6, <1>7, <1>8
          DEF PoolNext, PoolStep, PoolProviderNext, PoolAllocatorNext

\* Whatever the amounts, a deposit or withdrawal of one provider never lowers
\* the tokens behind the shares of the others.
THEOREM PriceNeverLowered == PoolSpec => SharePriceKept
BY PoolInitInv, PoolNextInv, PriceNext, PTL DEF PoolSpec, SharePriceKept

=============================================================================
