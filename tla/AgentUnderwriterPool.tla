------------------------ MODULE AgentUnderwriterPool ------------------------
(***************************************************************************)
(* contracts/AgentUnderwriterPool.sol: providers deposit the settlement    *)
(* token for shares; an allocator (the bond manager) locks coverage for a  *)
(* task and later releases it or pays it out as a claim.                   *)
(*                                                                         *)
(* The storage of the contract is one record, `pool`.  Every external      *)
(* function is an operator from storage to storage, beside a predicate     *)
(* that holds when the call does not revert; the actions apply them.       *)
(* `balance` is token.balanceOf(pool).                                     *)
(***************************************************************************)
EXTENDS BlockTime, BondParties

CONSTANTS PoolAmounts,      \* amounts a caller may name
          PoolShares,       \* share counts a caller may name
          RiskControls,     \* settings the owner may give setPoolRiskControls
          CoverageCaps,     \* settings the owner may give setPoolParameters
          MaxBalance,       \* bound of the model: tokens held by the pool
          MaxShares         \* bound of the model: shares ever outstanding

ASSUME PoolAssumption ==
  /\ PoolAmounts \subseteq Nat \ {0} /\ PoolShares \subseteq Nat \ {0}
  /\ RiskControls \subseteq [epochDuration : Nat, maxLossPerEpoch : Nat,
                             withdrawalCooldown : Nat]
  /\ CoverageCaps \subseteq [maxCoveragePerTask : Nat, maxRiskTier : Nat]

VARIABLE pool

poolVars == <<pool, now>>

PoolStorage ==
  [balance : Nat, totalLocked : Nat, totalAllocated : Nat,
   lockedByTask : [Tasks -> Nat], sharesOf : [Accounts -> Nat],
   totalShares : Nat, lossPaidByEpoch : [0..MaxTime -> Nat],
   withdrawalAvailableAt : [Accounts -> Nat], allocator : BOOLEAN,
   risk : [epochDuration : Nat, maxLossPerEpoch : Nat, withdrawalCooldown : Nat],
   caps : [maxCoveragePerTask : Nat, maxRiskTier : Nat]]

-----------------------------------------------------------------------------
(* Views *)

currentEpoch(p, time) ==
  IF p.risk.epochDuration = 0 THEN 0 ELSE time \div p.risk.epochDuration

\* Mutant: open coverage does not count against the cap.
withinEpochCapacityPaidOnly(p, time, amount) ==
  \/ p.risk.maxLossPerEpoch = 0
  \/ p.lossPaidByEpoch[currentEpoch(p, time)] + amount <= p.risk.maxLossPerEpoch

\* amount <= remainingEpochLossCapacity(): open coverage and the losses already
\* paid in this epoch leave room for amount.
withinEpochCapacity(p, time, amount) ==
  \/ p.risk.maxLossPerEpoch = 0
  \/ p.lossPaidByEpoch[currentEpoch(p, time)] + p.totalLocked + amount
       <= p.risk.maxLossPerEpoch

\* Mutant: locked coverage counts as available.
availableCapacityIgnoringLocks(p) == p.balance

availableCapacity(p) ==
  IF p.balance <= p.totalLocked THEN 0 ELSE p.balance - p.totalLocked

withinCoverageCap(p, amount) ==
  p.caps.maxCoveragePerTask = 0 \/ amount <= p.caps.maxCoveragePerTask

canBackTask(p, time, amount, riskTier) ==
  /\ p.caps.maxRiskTier = 0 \/ riskTier <= p.caps.maxRiskTier
  /\ withinCoverageCap(p, amount)
  /\ withinEpochCapacity(p, time, amount)
  /\ amount <= availableCapacity(p)

-----------------------------------------------------------------------------
(* Accounts *)

\* Mutant: shares are rounded up.
sharesMintedRoundedUp(p, amount) ==
  IF p.totalShares = 0 THEN amount
  ELSE (amount * p.totalShares + p.balance - 1) \div p.balance

sharesMinted(p, amount) ==
  IF p.totalShares = 0 THEN amount ELSE (amount * p.totalShares) \div p.balance

canDeposit(p, amount) ==
  amount > 0 /\ (p.totalShares = 0 \/ p.balance > 0)

deposit(p, provider, amount) ==
  [p EXCEPT !.sharesOf[provider] = @ + sharesMinted(p, amount),
            !.totalShares = @ + sharesMinted(p, amount),
            !.balance = @ + amount]

requestWithdrawal(p, provider, time) ==
  [p EXCEPT !.withdrawalAvailableAt[provider] = time + p.risk.withdrawalCooldown]

withdrawalAmount(p, shares) == (p.balance * shares) \div p.totalShares

cooldownOver(p, provider, time) ==
  p.risk.withdrawalCooldown # 0 =>
    p.withdrawalAvailableAt[provider] \in 1..time

canWithdrawShares(p, provider, shares, time) ==
  /\ shares > 0
  /\ cooldownOver(p, provider, time)
  /\ shares <= p.sharesOf[provider]
  /\ withdrawalAmount(p, shares) <= availableCapacity(p)

withdrawShares(p, provider, shares) ==
  [p EXCEPT !.sharesOf[provider] = @ - shares,
            !.totalShares = @ - shares,
            !.balance = @ - withdrawalAmount(p, shares)]

-----------------------------------------------------------------------------
(* The allocator *)

canLockCoverage(p, t, amount, time) ==
  /\ p.allocator
  /\ amount > 0
  /\ p.lockedByTask[t] = 0
  /\ withinCoverageCap(p, amount)
  /\ amount <= availableCapacity(p)
  /\ withinEpochCapacity(p, time, amount)

lockCoverage(p, t, amount) ==
  [p EXCEPT !.lockedByTask[t] = amount,
            !.totalLocked = @ + amount,
            !.totalAllocated = @ + amount]

canReleaseForTask(p, t) ==
  /\ p.allocator
  /\ p.lockedByTask[t] > 0
  /\ p.lockedByTask[t] <= p.totalLocked     \* checked subtraction

releaseForTask(p, t) ==
  [p EXCEPT !.lockedByTask[t] = 0,
            !.totalLocked = @ - p.lockedByTask[t],
            !.totalAllocated = @ - p.lockedByTask[t]]

claimPaid(p, t, amount) ==
  IF amount > p.lockedByTask[t] THEN p.lockedByTask[t] ELSE amount

canPayClaim(p, t, amount, time) ==
  /\ p.allocator
  /\ p.lockedByTask[t] > 0
  /\ \/ p.risk.maxLossPerEpoch = 0
     \/ claimPaid(p, t, amount) = 0
     \/ p.lossPaidByEpoch[currentEpoch(p, time)] + claimPaid(p, t, amount)
          <= p.risk.maxLossPerEpoch
  /\ p.lockedByTask[t] <= p.totalLocked     \* checked subtraction
  /\ claimPaid(p, t, amount) <= p.balance   \* the token transfer

payClaim(p, t, amount, time) ==
  LET paid == claimPaid(p, t, amount)
      counted == IF p.risk.maxLossPerEpoch = 0 THEN 0 ELSE paid
  IN  [releaseForTask(p, t) EXCEPT
         !.lossPaidByEpoch[currentEpoch(p, time)] = @ + counted,
         !.balance = @ - paid]

-----------------------------------------------------------------------------
(* The component on its own: any provider, any allocator call. *)

validRiskControls(risk) == risk.maxLossPerEpoch # 0 => risk.epochDuration # 0

\* The owner's first calls set the risk controls before any provider deposits.
PoolInit ==
  /\ now = 0
  /\ \E risk \in RiskControls, caps \in CoverageCaps :
       /\ validRiskControls(risk)
       /\ pool = [balance |-> 0, totalLocked |-> 0, totalAllocated |-> 0,
                  lockedByTask |-> [t \in Tasks |-> 0],
                  sharesOf |-> [a \in Accounts |-> 0],
                  totalShares |-> 0,
                  lossPaidByEpoch |-> [e \in 0..MaxTime |-> 0],
                  withdrawalAvailableAt |-> [a \in Accounts |-> 0],
                  allocator |-> TRUE,
                  risk |-> risk, caps |-> caps]

PoolDeposit(a, amount) ==
  /\ canDeposit(pool, amount)
  /\ pool.balance + amount <= MaxBalance
  /\ pool.totalShares + sharesMinted(pool, amount) <= MaxShares
  /\ pool' = deposit(pool, a, amount)
  /\ UNCHANGED now

PoolRequestWithdrawal(a) ==
  /\ pool.sharesOf[a] > 0
  /\ pool' = requestWithdrawal(pool, a, now)
  /\ UNCHANGED now

PoolWithdraw(a, shares) ==
  /\ canWithdrawShares(pool, a, shares, now)
  /\ pool' = withdrawShares(pool, a, shares)
  /\ UNCHANGED now

PoolLockCoverage(t, amount) ==
  /\ canLockCoverage(pool, t, amount, now)
  /\ pool' = lockCoverage(pool, t, amount)
  /\ UNCHANGED now

PoolReleaseForTask(t) ==
  /\ canReleaseForTask(pool, t)
  /\ pool' = releaseForTask(pool, t)
  /\ UNCHANGED now

PoolPayClaim(t, amount) ==
  /\ canPayClaim(pool, t, amount, now)
  /\ pool' = payClaim(pool, t, amount, now)
  /\ UNCHANGED now

\* A plain token transfer to the pool's address, which no function of the pool
\* sees but balanceOf counts.
PoolTokenTransferIn(amount) ==
  /\ pool.balance + amount <= MaxBalance
  /\ pool' = [pool EXCEPT !.balance = @ + amount]
  /\ UNCHANGED now

setAllocator(authorized) ==
  /\ pool' = [pool EXCEPT !.allocator = authorized]
  /\ UNCHANGED now

setPoolParameters(caps) ==
  /\ pool' = [pool EXCEPT !.caps = caps]
  /\ UNCHANGED now

setPoolRiskControls(risk) ==
  /\ validRiskControls(risk)
  /\ pool' = [pool EXCEPT !.risk = risk]
  /\ UNCHANGED now

PoolProviderNext ==
  \/ \E a \in Accounts :
       \/ \E amount \in PoolAmounts : PoolDeposit(a, amount)
       \/ \E shares \in PoolShares : PoolWithdraw(a, shares)
       \/ PoolRequestWithdrawal(a)
  \/ \E amount \in PoolAmounts : PoolTokenTransferIn(amount)

PoolAllocatorNext ==
  \E t \in Tasks :
    \/ \E amount \in PoolAmounts : PoolLockCoverage(t, amount) \/ PoolPayClaim(t, amount)
    \/ PoolReleaseForTask(t)

PoolTick == Tick /\ UNCHANGED pool

\* Every step but a change of the risk controls.
PoolStep ==
  \/ PoolProviderNext
  \/ PoolAllocatorNext
  \/ \E authorized \in BOOLEAN : setAllocator(authorized)
  \/ \E caps \in CoverageCaps : setPoolParameters(caps)
  \/ PoolTick

PoolNext == PoolStep \/ \E risk \in RiskControls : setPoolRiskControls(risk)

\* The pool as deployed, and the pool whose owner leaves the risk controls alone.
PoolSpec == PoolInit /\ [][PoolNext]_poolVars

PoolSpecFixedControls == PoolInit /\ [][PoolStep]_poolVars

-----------------------------------------------------------------------------
(* Properties *)

\* The storage keeps its types; in particular no balance, lock or share count
\* ever goes below zero (the subtractions in withdraw, releaseForTask and
\* payClaim).
PoolTypeOK == pool \in PoolStorage /\ now \in 0..MaxTime

\* Locked coverage is backed by tokens, and the running totals are the sums.
poolBacked(p) ==
  /\ p.totalLocked = Total(p.lockedByTask)
  /\ p.totalAllocated = p.totalLocked
  /\ p.totalLocked <= p.balance
  /\ p.totalShares = Total(p.sharesOf)

\* Deposits, withdrawals, token transfers, releases and claims in any order
\* leave every locked coverage backed by tokens in the pool, totalLocked and
\* totalAllocated equal to the sum of lockedByTask, and totalShares equal to
\* the sum of sharesOf.
PoolBacked == poolBacked(pool)

\* While the owner leaves the risk controls alone, a claim on any locked
\* coverage passes the epoch loss check of payClaim, whichever claims are paid
\* first and whenever the epoch turns: lockCoverage reserved the room.
ClaimsPayable ==
  pool.allocator =>
    \A t \in Tasks : pool.lockedByTask[t] > 0 =>
      canPayClaim(pool, t, pool.lockedByTask[t], now)

PriceStep ==
  \/ pool.totalShares = 0
  \/ pool'.totalShares = 0
  \/ pool'.balance * pool.totalShares >= pool.balance * pool'.totalShares
  \/ \E t \in Tasks : pool'.lockedByTask[t] < pool.lockedByTask[t]

\* Rounding never works against the providers who stay: no deposit, withdrawal
\* or token transfer lowers the tokens behind one share.  (Only a claim does.)
SharePriceKept == [][PriceStep]_poolVars

=============================================================================
