----------------------- MODULE AgentBondManagerProofs -----------------------
(***************************************************************************)
(* The custody of the settlement token, for any number of tasks, accounts, *)
(* policies and amounts.                                                   *)
(***************************************************************************)
EXTENDS AgentBondManager, TotalsProofs

-----------------------------------------------------------------------------
(* The escrow's operators *)

\* The fields of the escrow's storage have their types.
LEMMA EscrowFields ==
  ASSUME NEW e \in EscrowStorage
  PROVE  /\ e.lockedByTask \in [Tasks -> Nat] /\ e.withdrawable \in [Accounts -> Nat]
         /\ e.reserveBalance \in Nat /\ e.balance \in Nat /\ e.managed \in BOOLEAN
         /\ Total(e.lockedByTask) \in Nat /\ Total(e.withdrawable) \in Nat
<1>1. /\ e.lockedByTask \in [Tasks -> Nat] /\ e.withdrawable \in [Accounts -> Nat]
      /\ e.reserveBalance \in Nat /\ e.balance \in Nat /\ e.managed \in BOOLEAN
  BY DEF EscrowStorage
<1>2. Total(e.lockedByTask) \in Nat /\ Total(e.withdrawable) \in Nat
  BY <1>1, TotalType, PartiesAssumption
<1>. QED  BY <1>1, <1>2

escrowOK(e) == e \in EscrowStorage /\ escrowSolvent(e)

\* From e to q no tokens leave, and nobody's credit falls.
onlyAdds(e, q) ==
  /\ q.balance = e.balance /\ q.reserveBalance >= e.reserveBalance
  /\ \A a \in Accounts : q.withdrawable[a] >= e.withdrawable[a]

\* lockFrom takes in what it locks for the task.
LEMMA LockFromOK ==
  ASSUME NEW e, escrowOK(e), NEW t \in Tasks, NEW n \in Nat
  PROVE  /\ escrowOK(lockFrom(e, t, n))
         /\ lockFrom(e, t, n).lockedByTask =
              [e.lockedByTask EXCEPT ![t] = e.lockedByTask[t] + n]
         /\ lockFrom(e, t, n).withdrawable = e.withdrawable
         /\ lockFrom(e, t, n).reserveBalance = e.reserveBalance
<1> DEFINE q == lockFrom(e, t, n)
           f == e.lockedByTask
<1>1. e \in EscrowStorage /\ f \in [Tasks -> Nat] /\ e.withdrawable \in [Accounts -> Nat]
  BY EscrowFields DEF escrowOK
<1>2. f[t] \in Nat /\ f[t] + n \in Nat /\ e.balance + n \in Nat
      /\ e.reserveBalance \in Nat /\ e.balance \in Nat /\ Total(f) \in Nat
      /\ Total(e.withdrawable) \in Nat
  BY <1>1, EscrowFields
<1>3. q \in EscrowStorage
  BY <1>1, <1>2, Zenon DEF EscrowStorage, lockFrom
<1>4. /\ q.lockedByTask = [f EXCEPT ![t] = f[t] + n] /\ q.balance = e.balance + n
      /\ q.withdrawable = e.withdrawable /\ q.reserveBalance = e.reserveBalance
  BY <1>1, Zenon DEF EscrowStorage, lockFrom
<1> HIDE DEF q
<1>5. Total([f EXCEPT ![t] = f[t] + n]) = Total(f) - f[t] + (f[t] + n)
  BY <1>1, <1>2, TotalUpdate, PartiesAssumption
<1>6. Total(q.lockedByTask) = Total(f) - f[t] + (f[t] + n)
  BY <1>4, <1>5
<1>7. escrowSolvent(q)
  BY <1>2, <1>4, <1>6 DEF escrowOK, escrowSolvent
<1>. QED  BY <1>3, <1>4, <1>7 DEF escrowOK, q

\* releaseTo moves at most what is locked from the task to the account.
LEMMA ReleaseToOK ==
  ASSUME NEW e, escrowOK(e), NEW t \in Tasks, NEW a \in Accounts, NEW n \in Nat,
         n <= e.lockedByTask[t]
  PROVE  /\ escrowOK(releaseTo(e, t, a, n))
         /\ releaseTo(e, t, a, n).lockedByTask =
              [e.lockedByTask EXCEPT ![t] = e.lockedByTask[t] - n]
<1> DEFINE q == releaseTo(e, t, a, n)
           f == e.lockedByTask
           g == e.withdrawable
<1>1. e \in EscrowStorage /\ f \in [Tasks -> Nat] /\ g \in [Accounts -> Nat]
  BY EscrowFields DEF escrowOK
<1>2. f[t] \in Nat /\ f[t] - n \in Nat /\ g[a] \in Nat /\ g[a] + n \in Nat
      /\ e.reserveBalance \in Nat /\ e.balance \in Nat /\ Total(f) \in Nat
      /\ Total(g) \in Nat
  BY <1>1, EscrowFields
<1>3. q \in EscrowStorage
  BY <1>1, <1>2, Zenon DEF EscrowStorage, releaseTo
<1>4. /\ q.lockedByTask = [f EXCEPT ![t] = f[t] - n] /\ q.balance = e.balance
      /\ q.withdrawable = [g EXCEPT ![a] = g[a] + n]
      /\ q.reserveBalance = e.reserveBalance
  BY <1>1, Zenon DEF EscrowStorage, releaseTo
<1> HIDE DEF q
<1>5. Total([f EXCEPT ![t] = f[t] - n]) = Total(f) - f[t] + (f[t] - n)
  BY <1>1, <1>2, TotalUpdate, PartiesAssumption
<1>6. Total([g EXCEPT ![a] = g[a] + n]) = Total(g) - g[a] + (g[a] + n)
  BY <1>1, <1>2, TotalUpdate, PartiesAssumption
<1>7. /\ Total(q.lockedByTask) = Total(f) - f[t] + (f[t] - n)
      /\ Total(q.withdrawable) = Total(g) - g[a] + (g[a] + n)
  BY <1>4, <1>5, <1>6
<1>8. escrowSolvent(q)
  BY <1>2, <1>4, <1>7 DEF escrowOK, escrowSolvent
<1>. QED  BY <1>3, <1>4, <1>8 DEF escrowOK, q

\* releaseTo credits the account, and nobody else.
LEMMA ReleaseToCredits ==
  ASSUME NEW e, escrowOK(e), NEW t \in Tasks, NEW a \in Accounts, NEW n \in Nat
  PROVE  /\ releaseTo(e, t, a, n).withdrawable =
              [e.withdrawable EXCEPT ![a] = e.withdrawable[a] + n]
         /\ releaseTo(e, t, a, n).reserveBalance = e.reserveBalance
         /\ onlyAdds(e, releaseTo(e, t, a, n))
<1> DEFINE q == releaseTo(e, t, a, n)
           g == e.withdrawable
<1>1. e \in EscrowStorage /\ g \in [Accounts -> Nat] /\ e.reserveBalance \in Nat
  BY EscrowFields DEF escrowOK
<1>2. /\ q.withdrawable = [g EXCEPT ![a] = g[a] + n]
      /\ q.reserveBalance = e.reserveBalance /\ q.balance = e.balance
  BY <1>1, Zenon DEF EscrowStorage, releaseTo
<1> HIDE DEF q
<1>3. onlyAdds(e, q)
  BY <1>1, <1>2 DEF onlyAdds
<1>. QED  BY <1>2, <1>3 DEF q

\* moveToReserve moves at most what is locked from the task to the reserve.
LEMMA MoveToReserveOK ==
  ASSUME NEW e, escrowOK(e), NEW t \in Tasks, NEW n \in Nat, n <= e.lockedByTask[t]
  PROVE  /\ escrowOK(moveToReserve(e, t, n))
         /\ moveToReserve(e, t, n).lockedByTask =
              [e.lockedByTask EXCEPT ![t] = e.lockedByTask[t] - n]
         /\ onlyAdds(e, moveToReserve(e, t, n))
<1> DEFINE q == moveToReserve(e, t, n)
           f == e.lockedByTask
<1>1. e \in EscrowStorage /\ f \in [Tasks -> Nat] /\ e.withdrawable \in [Accounts -> Nat]
  BY EscrowFields DEF escrowOK
<1>2. f[t] \in Nat /\ f[t] - n \in Nat /\ e.reserveBalance + n \in Nat
      /\ e.reserveBalance \in Nat /\ e.balance \in Nat /\ Total(f) \in Nat
      /\ Total(e.withdrawable) \in Nat
  BY <1>1, EscrowFields
<1>3. q \in EscrowStorage
  BY <1>1, <1>2, Zenon DEF EscrowStorage, moveToReserve
<1>4. /\ q.lockedByTask = [f EXCEPT ![t] = f[t] - n] /\ q.balance = e.balance
      /\ q.withdrawable = e.withdrawable /\ q.reserveBalance = e.reserveBalance + n
  BY <1>1, Zenon DEF EscrowStorage, moveToReserve
<1> HIDE DEF q
<1>5. Total([f EXCEPT ![t] = f[t] - n]) = Total(f) - f[t] + (f[t] - n)
  BY <1>1, <1>2, TotalUpdate, PartiesAssumption
<1>6. Total(q.lockedByTask) = Total(f) - f[t] + (f[t] - n)
  BY <1>4, <1>5
<1>7. escrowSolvent(q)
  BY <1>2, <1>4, <1>6 DEF escrowOK, escrowSolvent
<1>8. onlyAdds(e, q)
  BY <1>1, <1>2, <1>4 DEF onlyAdds
<1>. QED  BY <1>3, <1>4, <1>7, <1>8 DEF escrowOK, q

\* q is e after n tokens locked for task t were handed out.
handedOut(e, q, t, n) ==
  /\ escrowOK(q) /\ q.lockedByTask = [e.lockedByTask EXCEPT ![t] = e.lockedByTask[t] - n]
  /\ onlyAdds(e, q)

\* Two payments in a row are one payment of the sum.
LEMMA HandedOutTwice ==
  ASSUME NEW e, escrowOK(e), NEW q, NEW r, NEW t \in Tasks, NEW n \in Nat, NEW m \in Nat,
         handedOut(e, q, t, n), handedOut(q, r, t, m)
  PROVE  handedOut(e, r, t, n + m)
<1>1. e.lockedByTask \in [Tasks -> Nat] /\ e.lockedByTask[t] \in Nat
  BY EscrowFields DEF escrowOK
<1>2. q.lockedByTask[t] = e.lockedByTask[t] - n
  BY <1>1 DEF handedOut
<1>3. (e.lockedByTask[t] - n) - m = e.lockedByTask[t] - (n + m)
  BY <1>1
<1>4. r.lockedByTask = [e.lockedByTask EXCEPT ![t] = (e.lockedByTask[t] - n) - m]
  BY <1>1, <1>2 DEF handedOut
<1>5. onlyAdds(e, r)
  BY EscrowFields DEF handedOut, onlyAdds, escrowOK
<1>. QED  BY <1>3, <1>4, <1>5 DEF handedOut

\* What is left for t after n of its tokens were handed out.
LEMMA LeftAfter ==
  ASSUME NEW e, escrowOK(e), NEW q, NEW t \in Tasks, NEW n \in Nat, handedOut(e, q, t, n)
  PROVE  escrowOK(q) /\ q.lockedByTask[t] = e.lockedByTask[t] - n
         /\ e.lockedByTask[t] \in Nat
BY EscrowFields DEF escrowOK, handedOut

\* A first payment.
LEMMA FirstRelease ==
  ASSUME NEW e, escrowOK(e), NEW t \in Tasks, NEW n \in Nat, NEW a \in Accounts,
         n <= e.lockedByTask[t]
  PROVE  handedOut(e, releaseTo(e, t, a, n), t, n)
<1> DEFINE q == releaseTo(e, t, a, n)
<1>1. escrowOK(q) /\ q.lockedByTask = [e.lockedByTask EXCEPT ![t] = e.lockedByTask[t] - n]
  BY ReleaseToOK
<1>2. onlyAdds(e, q)
  BY ReleaseToCredits, Zenon
<1>. QED  BY <1>1, <1>2, Zenon DEF handedOut

\* A first payment to the reserve.
LEMMA FirstReserve ==
  ASSUME NEW e, escrowOK(e), NEW t \in Tasks, NEW n \in Nat, n <= e.lockedByTask[t]
  PROVE  handedOut(e, moveToReserve(e, t, n), t, n)
BY MoveToReserveOK DEF handedOut

\* A further payment from what n paid tokens have left.
LEMMA ThenRelease ==
  ASSUME NEW e, escrowOK(e), NEW q, NEW t \in Tasks, NEW n \in Nat, NEW m \in Nat,
         NEW a \in Accounts, handedOut(e, q, t, n), n + m <= e.lockedByTask[t]
  PROVE  /\ handedOut(e, releaseTo(q, t, a, m), t, n + m)
         /\ handedOut(e, moveToReserve(q, t, m), t, n + m)
<1>1. escrowOK(q)
  BY LeftAfter, Zenon
<1>2. m <= q.lockedByTask[t]
  BY LeftAfter
<1>3. handedOut(q, releaseTo(q, t, a, m), t, m)
  BY <1>1, <1>2, FirstRelease
<1>4. handedOut(q, moveToReserve(q, t, m), t, m)
  BY <1>1, <1>2, FirstReserve
<1>. QED  BY <1>3, <1>4, HandedOutTwice

-----------------------------------------------------------------------------
(* The settlements *)

\* What a task record says once there is something to pay out for it.
payable(k) ==
  /\ k.requester \in Accounts /\ k.agent \in Accounts /\ k.verifier \in Accounts
  /\ k.challenger \in Accounts \cup {Zero}
  /\ k.payout \in Nat /\ k.quote.agentBond \in Nat /\ k.quote.verifierFee \in Nat
  /\ k.quote.requesterCancelBond \in Nat

\* The shares of a bond are natural numbers and do not exceed it.
LEMMA SharesFit ==
  ASSUME NEW bond \in Nat
  PROVE  /\ bps(bond, VERIFIER_SLASH_BPS) \in Nat /\ bps(bond, RESERVE_SLASH_BPS) \in Nat
         /\ bps(bond, VERIFIER_SLASH_BPS) + bps(bond, RESERVE_SLASH_BPS) <= bond
         /\ bps(bond, LATE_SLASH_BPS) \in Nat /\ bps(bond, LATE_SLASH_BPS) <= bond
         /\ (bond * LATE_SLASH_BPS * RESERVE_SLASH_BPS) \div 100000000 \in Nat
         /\ (bond * LATE_SLASH_BPS * RESERVE_SLASH_BPS) \div 100000000
              <= bps(bond, LATE_SLASH_BPS)
BY DEF bps, VERIFIER_SLASH_BPS, RESERVE_SLASH_BPS, LATE_SLASH_BPS

\* _releaseSlash hands out exactly the bond, whatever the rounding of its shares.
LEMMA ReleaseSlashOK ==
  ASSUME NEW e, escrowOK(e), NEW q, NEW t \in Tasks, NEW n \in Nat, handedOut(e, q, t, n),
         NEW k, payable(k), NEW share \in BOOLEAN,
         n + k.quote.agentBond <= e.lockedByTask[t]
  PROVE  handedOut(e, releaseSlash(q, t, k, share), t, n + k.quote.agentBond)
<1> DEFINE bond == k.quote.agentBond
           middle == IF share THEN bps(bond, VERIFIER_SLASH_BPS) ELSE 0
           reserve == bps(bond, RESERVE_SLASH_BPS)
           first == releaseTo(q, t, k.requester, bond - middle - reserve)
           second == releaseTo(first, t, k.verifier, middle)
<1>1. bond \in Nat /\ k.requester \in Accounts /\ k.verifier \in Accounts
  BY DEF payable
<1>2. middle \in Nat /\ reserve \in Nat /\ bond - middle - reserve \in Nat
  BY <1>1, SharesFit
<1>3. releaseSlash(q, t, k, share) = moveToReserve(second, t, reserve)
  BY DEF releaseSlash
<1>a. e.lockedByTask[t] \in Nat
  BY LeftAfter, Zenon
<1> HIDE DEF middle, reserve, bond
<1>4. n + (bond - middle - reserve) <= e.lockedByTask[t]
  BY <1>1, <1>2, <1>a DEF bond
<1>5. handedOut(e, first, t, n + (bond - middle - reserve))
  BY <1>1, <1>2, <1>4, ThenRelease, Zenon
<1> HIDE DEF first
<1>6. handedOut(e, second, t, n + (bond - middle - reserve) + middle)
  <2>1. n + (bond - middle - reserve) \in Nat
        /\ n + (bond - middle - reserve) + middle <= e.lockedByTask[t]
    BY <1>1, <1>2, <1>a DEF bond
  <2>. QED  BY <1>1, <1>2, <1>5, <2>1, ThenRelease, Zenon
<1> HIDE DEF second
<1>7. handedOut(e, moveToReserve(second, t, reserve), t,
                n + (bond - middle - reserve) + middle + reserve)
  <2>1. n + (bond - middle - reserve) + middle \in Nat
        /\ n + (bond - middle - reserve) + middle + reserve <= e.lockedByTask[t]
    BY <1>1, <1>2, <1>a DEF bond
  <2>. QED  BY <1>1, <1>2, <1>6, <2>1, ThenRelease
<1>8. n + (bond - middle - reserve) + middle + reserve = n + bond
  BY <1>1, <1>2
<1>. QED  BY <1>3, <1>7, <1>8 DEF bond

\* _settleVerified hands out everything escrowed for the task.
LEMMA PayVerifiedOK ==
  ASSUME NEW e, escrowOK(e), NEW t \in Tasks, NEW k, payable(k),
         escrowedFor(k) <= e.lockedByTask[t]
  PROVE  handedOut(e, payVerified(e, t, k), t, escrowedFor(k))
<1> DEFINE bond == k.quote.agentBond
           fee == k.quote.verifierFee
           cancelBond == k.quote.requesterCancelBond
           late == IF lateEvidence(k) THEN bps(bond, LATE_SLASH_BPS) ELSE 0
           reserve == IF lateEvidence(k)
                      THEN (bond * LATE_SLASH_BPS * RESERVE_SLASH_BPS) \div 100000000 ELSE 0
           first == releaseTo(e, t, k.requester, late - reserve + cancelBond)
           second == moveToReserve(first, t, reserve)
           third == releaseTo(second, t, k.agent, k.payout + bond - late)
<1>1. /\ bond \in Nat /\ fee \in Nat /\ cancelBond \in Nat /\ k.payout \in Nat
      /\ k.requester \in Accounts /\ k.agent \in Accounts /\ k.verifier \in Accounts
  BY DEF payable
<1>2. late \in Nat /\ reserve \in Nat /\ reserve <= late /\ late <= bond
  BY <1>1, SharesFit
<1>3. payVerified(e, t, k) = releaseTo(third, t, k.verifier, fee)
  BY DEF payVerified
<1>4. escrowedFor(k) = k.payout + fee + cancelBond + bond
  BY DEF escrowedFor, requesterEscrow
<1>5. e.lockedByTask[t] \in Nat
  BY EscrowFields DEF escrowOK
<1> HIDE DEF late, reserve, bond, fee, cancelBond
<1>6. /\ late - reserve + cancelBond \in Nat /\ k.payout + bond - late \in Nat
      /\ late - reserve + cancelBond <= e.lockedByTask[t]
      /\ late - reserve + cancelBond + reserve <= e.lockedByTask[t]
      /\ late + cancelBond + (k.payout + bond - late) <= e.lockedByTask[t]
      /\ k.payout + bond + cancelBond + fee <= e.lockedByTask[t]
  BY <1>1, <1>2, <1>4, <1>5
<1>7. handedOut(e, first, t, late - reserve + cancelBond)
  BY <1>1, <1>6, FirstRelease
<1> HIDE DEF first
<1>8. handedOut(e, second, t, late + cancelBond)
  <2>1. handedOut(e, second, t, late - reserve + cancelBond + reserve)
    BY <1>1, <1>2, <1>6, <1>7, ThenRelease, Zenon
  <2>2. late - reserve + cancelBond + reserve = late + cancelBond
    BY <1>1, <1>2
  <2>. QED  BY <2>1, <2>2
<1> HIDE DEF second
<1>9. handedOut(e, third, t, k.payout + bond + cancelBond)
  <2>1. late + cancelBond \in Nat
    BY <1>1, <1>2
  <2>2. handedOut(e, third, t, late + cancelBond + (k.payout + bond - late))
    BY <1>1, <1>6, <1>8, <2>1, ThenRelease
  <2>3. late + cancelBond + (k.payout + bond - late) = k.payout + bond + cancelBond
    BY <1>1, <1>2
  <2>. QED  BY <2>2, <2>3
<1> HIDE DEF third
<1>10. handedOut(e, releaseTo(third, t, k.verifier, fee), t,
                 k.payout + bond + cancelBond + fee)
  <2>1. k.payout + bond + cancelBond \in Nat
    BY <1>1
  <2>. QED  BY <1>1, <1>6, <1>9, <2>1, ThenRelease
<1>11. escrowedFor(k) = k.payout + bond + cancelBond + fee
  BY <1>1, <1>4
<1>. QED  BY <1>3, <1>10, <1>11

\* _settleFailed hands out everything escrowed for the task.
LEMMA PayFailedOK ==
  ASSUME NEW e, escrowOK(e), NEW t \in Tasks, NEW k, payable(k),
         escrowedFor(k) <= e.lockedByTask[t]
  PROVE  handedOut(e, payFailed(e, t, k), t, escrowedFor(k))
<1> DEFINE bond == k.quote.agentBond
           fee == k.quote.verifierFee
           cancelBond == k.quote.requesterCancelBond
           recipient == IF challengerTakesFee(k, "Failed") THEN k.challenger ELSE k.verifier
           first == releaseTo(e, t, k.requester, k.payout + cancelBond)
           second == releaseTo(first, t, recipient, fee)
<1>1. /\ bond \in Nat /\ fee \in Nat /\ cancelBond \in Nat /\ k.payout \in Nat
      /\ k.requester \in Accounts /\ recipient \in Accounts
  BY DEF payable, challengerTakesFee
<1>2. payFailed(e, t, k) = releaseSlash(second, t, k, TRUE)
  BY DEF payFailed
<1>3. escrowedFor(k) = k.payout + fee + cancelBond + bond
  BY DEF escrowedFor, requesterEscrow
<1>4. e.lockedByTask[t] \in Nat
  BY EscrowFields DEF escrowOK
<1> HIDE DEF recipient, fee, cancelBond
<1>5. /\ k.payout + cancelBond \in Nat /\ k.payout + cancelBond <= e.lockedByTask[t]
      /\ k.payout + cancelBond + fee \in Nat
      /\ k.payout + cancelBond + fee <= e.lockedByTask[t]
      /\ k.payout + cancelBond + fee + bond <= e.lockedByTask[t]
  BY <1>1, <1>3, <1>4
<1>6. handedOut(e, first, t, k.payout + cancelBond)
  BY <1>1, <1>5, FirstRelease
<1> HIDE DEF first
<1>7. handedOut(e, second, t, k.payout + cancelBond + fee)
  BY <1>1, <1>5, <1>6, ThenRelease
<1> HIDE DEF second
<1>8. handedOut(e, releaseSlash(second, t, k, TRUE), t, k.payout + cancelBond + fee + bond)
  BY <1>5, <1>7, ReleaseSlashOK, Zenon
<1>9. escrowedFor(k) = k.payout + cancelBond + fee + bond
  BY <1>1, <1>3
<1>. QED  BY <1>2, <1>8, <1>9, Zenon

\* _settleRefund hands out everything escrowed for the task.
LEMMA PayRefundOK ==
  ASSUME NEW e, escrowOK(e), NEW t \in Tasks, NEW k, payable(k),
         escrowedFor(k) <= e.lockedByTask[t]
  PROVE  handedOut(e, payRefund(e, t, k), t, escrowedFor(k))
<1> DEFINE bond == k.quote.agentBond
           fee == k.quote.verifierFee
           cancelBond == k.quote.requesterCancelBond
           recipient == IF challengerTakesFee(k, "Refunded") THEN k.challenger ELSE k.verifier
           first == releaseTo(e, t, k.requester, k.payout + cancelBond)
           second == releaseTo(first, t, k.agent, bond)
<1>1. /\ bond \in Nat /\ fee \in Nat /\ cancelBond \in Nat /\ k.payout \in Nat
      /\ k.requester \in Accounts /\ k.agent \in Accounts /\ recipient \in Accounts
  BY DEF payable, challengerTakesFee
<1>2. payRefund(e, t, k) = releaseTo(second, t, recipient, fee)
  BY DEF payRefund
<1>3. escrowedFor(k) = k.payout + fee + cancelBond + bond
  BY DEF escrowedFor, requesterEscrow
<1>4. e.lockedByTask[t] \in Nat
  BY EscrowFields DEF escrowOK
<1> HIDE DEF recipient, fee, cancelBond, bond
<1>5. /\ k.payout + cancelBond \in Nat /\ k.payout + cancelBond <= e.lockedByTask[t]
      /\ k.payout + cancelBond + bond \in Nat
      /\ k.payout + cancelBond + bond <= e.lockedByTask[t]
      /\ k.payout + cancelBond + bond + fee <= e.lockedByTask[t]
  BY <1>1, <1>3, <1>4
<1>6. handedOut(e, first, t, k.payout + cancelBond)
  BY <1>1, <1>5, FirstRelease
<1> HIDE DEF first
<1>7. handedOut(e, second, t, k.payout + cancelBond + bond)
  BY <1>1, <1>5, <1>6, ThenRelease
<1> HIDE DEF second
<1>8. handedOut(e, releaseTo(second, t, recipient, fee), t,
                k.payout + cancelBond + bond + fee)
  BY <1>1, <1>5, <1>7, ThenRelease
<1>9. escrowedFor(k) = k.payout + cancelBond + bond + fee
  BY <1>1, <1>3
<1>. QED  BY <1>2, <1>8, <1>9

\* slashExpiredNoSubmission hands out everything escrowed for the task.
LEMMA PayExpiredOK ==
  ASSUME NEW e, escrowOK(e), NEW t \in Tasks, NEW k, payable(k),
         escrowedFor(k) <= e.lockedByTask[t]
  PROVE  handedOut(e, releaseSlash(releaseTo(e, t, k.requester, requesterEscrow(k)),
                                   t, k, FALSE), t, escrowedFor(k))
<1> DEFINE first == releaseTo(e, t, k.requester, requesterEscrow(k))
<1>1. k.quote.agentBond \in Nat /\ requesterEscrow(k) \in Nat /\ k.requester \in Accounts
  BY DEF payable, requesterEscrow
<1>2. escrowedFor(k) = requesterEscrow(k) + k.quote.agentBond
  BY DEF escrowedFor
<1>3. e.lockedByTask[t] \in Nat
  BY EscrowFields DEF escrowOK
<1>4. requesterEscrow(k) <= e.lockedByTask[t]
  BY <1>1, <1>2, <1>3
<1>5. handedOut(e, first, t, requesterEscrow(k))
  BY <1>1, <1>4, FirstRelease
<1> HIDE DEF first
<1>6. handedOut(e, releaseSlash(first, t, k, FALSE), t,
                requesterEscrow(k) + k.quote.agentBond)
  BY <1>1, <1>2, <1>5, ReleaseSlashOK, Zenon
<1>. QED  BY <1>2, <1>6, Zenon DEF first

-----------------------------------------------------------------------------
(* The inductive invariant *)

\* The parties of a task are known as soon as tokens may be due to them, and a
\* dispute bond is locked only while the task is challenged.
partiesOK(k) ==
  /\ live(k) => /\ k.requester \in Accounts /\ k.verifier \in Accounts
                /\ k.policyId \in PolicyIds
  /\ bonded(k) => k.agent \in Accounts
  /\ k.status = "Challenged" => k.challenger \in Accounts
  /\ k.status # "Challenged" => k.disputeBondLocked = 0

\* Solvency of the escrow alone is not inductive: that a settlement finds its
\* tokens depends on the lock of the task, and that one on its status.
CustodyInv ==
  /\ now \in Nat
  /\ task \in [Tasks -> TaskRecords]
  /\ \A t \in Tasks : partiesOK(task[t])
  /\ escrow \in EscrowStorage
  /\ EscrowSolvent
  /\ LockedMatchesTask

\* The fields of a task record have their types.
LEMMA TaskFields ==
  ASSUME NEW k \in TaskRecords
  PROVE  /\ k.status \in Statuses /\ k.challenger \in Accounts \cup {Zero}
         /\ k.payout \in Nat /\ k.quote \in Quotes
         /\ k.quote.agentBond \in Nat /\ k.quote.verifierFee \in Nat
         /\ k.quote.requesterCancelBond \in Nat /\ k.quote.disputeBond \in Nat
         /\ k.disputeBondLocked \in Nat /\ k.reportConfirmations \in Nat
         /\ k.confirmedBy \in SUBSET Accounts /\ k.recourseClaimPaid \in BOOLEAN
         /\ requesterEscrow(k) \in Nat /\ escrowedFor(k) \in Nat
<1>1. /\ k.status \in Statuses /\ k.challenger \in Accounts \cup {Zero}
      /\ k.payout \in Nat /\ k.quote \in Quotes
      /\ k.disputeBondLocked \in Nat /\ k.reportConfirmations \in Nat
      /\ k.confirmedBy \in SUBSET Accounts /\ k.recourseClaimPaid \in BOOLEAN
  BY Zenon DEF TaskRecords
<1>2. /\ k.quote.agentBond \in Nat /\ k.quote.verifierFee \in Nat
      /\ k.quote.requesterCancelBond \in Nat /\ k.quote.disputeBond \in Nat
  BY <1>1, Zenon DEF Quotes
<1>3. requesterEscrow(k) \in Nat /\ escrowedFor(k) \in Nat
  BY <1>1, <1>2 DEF requesterEscrow, escrowedFor
<1>. QED  BY <1>1, <1>2, <1>3

\* A step that changes task t, and the lock of t with it, keeps the invariant.
LEMMA TaskMoves ==
  ASSUME CustodyInv, NEW t \in Tasks, NEW q \in TaskRecords, partiesOK(q),
         task' = [task EXCEPT ![t] = q], now' = now, escrowOK(escrow'),
         escrow'.lockedByTask = [escrow.lockedByTask EXCEPT ![t] = lockedFor(q)]
  PROVE  CustodyInv'
<1>1. task' \in [Tasks -> TaskRecords] /\ now' \in Nat
  BY DEF CustodyInv
<1>2. task'[t] = q /\ \A u \in Tasks \ {t} : task'[u] = task[u]
  BY DEF CustodyInv
<1>3. \A u \in Tasks : partiesOK(task'[u])
  BY <1>2 DEF CustodyInv
<1>4. \A u \in Tasks : escrow'.lockedByTask[u] = lockedFor(task'[u])
  <2>1. escrow.lockedByTask \in [Tasks -> Nat]
    BY EscrowFields DEF CustodyInv
  <2>. QED  BY <1>2, <2>1 DEF CustodyInv, LockedMatchesTask
<1>5. escrow' \in EscrowStorage /\ EscrowSolvent' /\ LockedMatchesTask'
  BY <1>4 DEF escrowOK, EscrowSolvent, LockedMatchesTask, escrowSolvent, lockedFor,
              bonded, live, requesterEscrow, escrowedFor
<1>6. \A u \in Tasks : partiesOK(task[u])'
  BY <1>3 DEF partiesOK, bonded, live
<1>. QED  BY <1>1, <1>5, <1>6 DEF CustodyInv

\* A step that leaves the escrow alone and does not change what is locked.
LEMMA TaskMovesFree ==
  ASSUME CustodyInv, NEW t \in Tasks, NEW q \in TaskRecords, partiesOK(q),
         task' = [task EXCEPT ![t] = q], now' = now, escrow' = escrow,
         lockedFor(q) = lockedFor(task[t])
  PROVE  CustodyInv'
<1>1. escrow.lockedByTask \in [Tasks -> Nat] /\ escrowOK(escrow')
  BY EscrowFields DEF CustodyInv, EscrowSolvent, escrowOK
<1>2. escrow.lockedByTask[t] = lockedFor(q)
  BY DEF CustodyInv, LockedMatchesTask
<1>3. escrow'.lockedByTask = [escrow.lockedByTask EXCEPT ![t] = lockedFor(q)]
  BY <1>1, <1>2
<1>. QED  BY <1>1, <1>3, TaskMoves, Zenon

\* What the invariant says of one task.
LEMMA InvAt ==
  ASSUME CustodyInv, NEW t \in Tasks
  PROVE  /\ task[t] \in TaskRecords /\ partiesOK(task[t])
         /\ escrowOK(escrow) /\ escrow.lockedByTask \in [Tasks -> Nat]
         /\ escrow.lockedByTask[t] = lockedFor(task[t])
BY EscrowFields DEF CustodyInv, EscrowSolvent, escrowOK, LockedMatchesTask

-----------------------------------------------------------------------------
(* One lemma for each action on a task *)

\* The terms of a policy, and the amounts quoted from them, are natural numbers.
LEMMA QuoteType ==
  ASSUME NEW id \in PolicyIds, NEW payout \in Nat
  PROVE  quote(Policies[id], payout) \in Quotes
<1> DEFINE p == Policies[id]
<1>1. p \in Terms
  BY PolicyAssumption
<1>2. /\ p.agentBondBps \in Nat /\ p.verifierFeeBps \in Nat
      /\ p.requesterCancelBondBps \in Nat /\ p.disputeBondBps \in Nat
      /\ p.minAgentBond \in Nat /\ p.minVerifierFee \in Nat
      /\ p.minRequesterCancelBond \in Nat /\ p.minDisputeBond \in Nat
  BY <1>1, Zenon DEF Terms
<1> HIDE DEF p
<1>3. \A m, n, b \in Nat : larger(m, (n * b) \div 10000) \in Nat
  BY DEF larger
<1>. QED  BY SMTT(30), <1>2, <1>3 DEF quote, Quotes, p

\* openTask locks the requester's deposit.
LEMMA OpenTaskInv ==
  ASSUME CustodyInv, NEW t \in Tasks, NEW r \in Requesters, NEW v \in Verifiers,
         NEW id \in PolicyIds, NEW payout \in Payouts, NEW coverage \in Coverages,
         openTask(t, r, v, id, payout, coverage)
  PROVE  CustodyInv'
<1> DEFINE k == task[t]
           q == [k EXCEPT !.status = "Open", !.requester = r, !.verifier = v,
                          !.policyId = id, !.payout = payout,
                          !.quote = quote(Policies[id], payout),
                          !.recourseCoverage = coverage]
<1>1. k \in TaskRecords /\ k.status = "Unknown" /\ partiesOK(k)
  BY InvAt DEF openTask
<1>2. r \in Accounts /\ v \in Accounts /\ payout \in Nat /\ coverage \in Nat
      /\ quote(Policies[id], payout) \in Quotes
  BY RolesAssumption, QuoteType
<1>3. q \in TaskRecords
  BY <1>1, <1>2, Zenon DEF TaskRecords, Statuses
<1>4. /\ q.status = "Open" /\ q.requester = r /\ q.verifier = v /\ q.policyId = id
      /\ q.disputeBondLocked = k.disputeBondLocked
  BY <1>1, Zenon DEF TaskRecords
<1>5. /\ task' = [task EXCEPT ![t] = q] /\ now' = now
      /\ escrow' = lockFrom(escrow, t, requesterEscrow(q))
  BY DEF openTask
<1> HIDE DEF q
<1>6. partiesOK(q)
  BY <1>1, <1>2, <1>4 DEF partiesOK, live, bonded, Terminal
<1>7. escrow.lockedByTask[t] = 0 /\ lockedFor(q) = requesterEscrow(q)
  BY <1>1, <1>4, InvAt DEF lockedFor, live, bonded, Terminal
<1>8. requesterEscrow(q) \in Nat
  BY <1>3, TaskFields
<1>9. /\ escrowOK(escrow')
      /\ escrow'.lockedByTask = [escrow.lockedByTask EXCEPT ![t] = lockedFor(q)]
  BY SMTT(30), <1>5, <1>7, <1>8, InvAt, LockFromOK
<1>. QED  BY <1>3, <1>5, <1>6, <1>9, TaskMoves, Zenon

\* cancelOpenTask gives the whole deposit back.
LEMMA CancelOpenTaskInv ==
  ASSUME CustodyInv, NEW t \in Tasks, cancelOpenTask(t)
  PROVE  CustodyInv'
<1> DEFINE k == task[t]
           q == [k EXCEPT !.status = "Refunded"]
           n == requesterEscrow(k)
<1>1. k \in TaskRecords /\ k.status = "Open" /\ partiesOK(k)
  BY InvAt DEF cancelOpenTask
<1>2. q \in TaskRecords
  BY <1>1, Zenon DEF TaskRecords, Statuses, Terminal
<1>3. q.status = "Refunded" /\ q.disputeBondLocked = k.disputeBondLocked
  BY <1>1, Zenon DEF TaskRecords
<1>4. /\ task' = [task EXCEPT ![t] = q] /\ now' = now
      /\ escrow' = releaseTo(escrow, t, k.requester, n)
  BY DEF cancelOpenTask
<1> HIDE DEF q
<1>5. partiesOK(q)
  BY <1>1, <1>3 DEF partiesOK, live, bonded, Terminal
<1>6. escrow.lockedByTask[t] = n /\ lockedFor(q) = 0 /\ k.requester \in Accounts
  BY <1>1, <1>3, InvAt DEF lockedFor, live, bonded, Terminal, partiesOK
<1>7. n \in Nat
  BY <1>1, TaskFields
<1>8. escrowOK(escrow') /\ escrow'.lockedByTask = [escrow.lockedByTask EXCEPT ![t] = n - n]
  BY SMTT(30), <1>4, <1>6, <1>7, InvAt, ReleaseToOK
<1>9. n - n = lockedFor(q)
  BY SMTT(30), <1>6, <1>7
<1>. QED  BY <1>2, <1>4, <1>5, <1>8, <1>9, TaskMoves, Zenon

\* acceptTask adds the agent's bond.
LEMMA AcceptTaskInv ==
  ASSUME CustodyInv, NEW t \in Tasks, NEW a \in Agents, acceptTask(t, a)
  PROVE  CustodyInv'
<1> DEFINE k == task[t]
           deadline == now + policyOf(k).submissionWindow
           q == [k EXCEPT !.status = "Accepted", !.agent = a,
                          !.submissionDeadline = deadline]
<1>1. k \in TaskRecords /\ k.status = "Open" /\ partiesOK(k) /\ a \in Accounts
  BY InvAt, RolesAssumption DEF acceptTask
<1>2. k.policyId \in PolicyIds
  BY <1>1 DEF partiesOK, live, Terminal
<1>3. policyOf(k).submissionWindow \in Nat
  BY <1>2, PolicyAssumption DEF policyOf, Terms
<1>4. deadline \in Nat
  BY <1>3 DEF CustodyInv
<1>5. /\ task' = [task EXCEPT ![t] = q] /\ now' = now
      /\ escrow' = lockFrom(escrow, t, k.quote.agentBond)
  BY Zenon DEF acceptTask
<1> HIDE DEF deadline
<1>6. q \in TaskRecords
  BY <1>1, <1>4, Zenon DEF TaskRecords, Statuses, Working
<1>7. /\ q.status = "Accepted" /\ q.agent = a /\ q.requester = k.requester
      /\ q.verifier = k.verifier /\ q.policyId = k.policyId
      /\ q.disputeBondLocked = k.disputeBondLocked /\ q.payout = k.payout
      /\ q.quote = k.quote
  BY <1>1, Zenon DEF TaskRecords
<1> HIDE DEF q
<1>8. partiesOK(q)
  BY <1>1, <1>7 DEF partiesOK, live, bonded, Terminal
<1>9. /\ escrow.lockedByTask[t] = requesterEscrow(k)
      /\ lockedFor(q) = escrowedFor(q) + q.disputeBondLocked /\ q.disputeBondLocked = 0
  BY <1>1, <1>7, <1>8, InvAt, Zenon DEF lockedFor, live, bonded, Terminal, partiesOK
<1>10. k.quote.agentBond \in Nat /\ requesterEscrow(k) \in Nat
  BY <1>1, TaskFields
<1>11. escrowedFor(q) = requesterEscrow(k) + k.quote.agentBond
  BY <1>7 DEF escrowedFor, requesterEscrow
<1>12. /\ escrowOK(escrow')
       /\ escrow'.lockedByTask =
            [escrow.lockedByTask EXCEPT ![t] = requesterEscrow(k) + k.quote.agentBond]
  BY SMTT(30), <1>5, <1>9, <1>10, InvAt, LockFromOK
<1>13. lockedFor(q) = requesterEscrow(k) + k.quote.agentBond
  BY SMTT(30), <1>9, <1>10, <1>11
<1>. QED  BY <1>5, <1>6, <1>8, <1>12, <1>13, TaskMoves, Zenon

\* q has the parties and the amounts of k.
sameStakes(k, q) ==
  /\ q.requester = k.requester /\ q.agent = k.agent /\ q.verifier = k.verifier
  /\ q.policyId = k.policyId /\ q.payout = k.payout /\ q.quote = k.quote

\* Work on a bonded task, its report and the confirmations move no tokens.
LEMMA BondedMoves ==
  ASSUME NEW k, partiesOK(k), bonded(k), k.status # "Challenged",
         NEW q, bonded(q), q.status # "Challenged", sameStakes(k, q),
         q.disputeBondLocked = k.disputeBondLocked
  PROVE  partiesOK(q) /\ lockedFor(q) = lockedFor(k)
<1>1. partiesOK(q)
  BY DEF partiesOK, bonded, sameStakes
<1>2. escrowedFor(q) = escrowedFor(k)
  BY DEF escrowedFor, requesterEscrow, sameStakes
<1>. QED  BY <1>1, <1>2 DEF lockedFor

\* startTask
LEMMA StartTaskInv ==
  ASSUME CustodyInv, NEW t \in Tasks, startTask(t)
  PROVE  CustodyInv'
<1> DEFINE k == task[t]
           q == [k EXCEPT !.status = "Started"]
<1>1. k \in TaskRecords /\ k.status = "Accepted" /\ partiesOK(k)
  BY InvAt DEF startTask
<1>2. task' = [task EXCEPT ![t] = q] /\ now' = now /\ escrow' = escrow
  BY DEF startTask
<1>3. q \in TaskRecords
  BY <1>1, Zenon DEF TaskRecords, Statuses, Working
<1>4. /\ q.status = "Started" /\ sameStakes(k, q)
      /\ q.disputeBondLocked = k.disputeBondLocked
  BY <1>1, Zenon DEF TaskRecords, sameStakes
<1> HIDE DEF q
<1>5. bonded(k) /\ bonded(q)
  BY <1>1, <1>4 DEF bonded, live, Terminal
<1>6. partiesOK(q) /\ lockedFor(q) = lockedFor(k)
  BY <1>1, <1>4, <1>5, BondedMoves
<1>. QED  BY <1>2, <1>3, <1>6, TaskMovesFree, Zenon

\* commitEvidence
LEMMA CommitEvidenceInv ==
  ASSUME CustodyInv, NEW t \in Tasks, NEW until \in AvailabilityUntil,
         commitEvidence(t, until)
  PROVE  CustodyInv'
<1> DEFINE k == task[t]
           q == [k EXCEPT !.status = "EvidenceCommitted",
                          !.evidenceAvailabilityUntil = until,
                          !.evidenceCommittedAt = now]
<1>1. k \in TaskRecords /\ k.status \in Working /\ partiesOK(k)
  BY InvAt DEF commitEvidence
<1>2. task' = [task EXCEPT ![t] = q] /\ now' = now /\ escrow' = escrow
  BY Zenon DEF commitEvidence
<1>3. until \in Nat /\ now \in Nat
  BY RolesAssumption DEF CustodyInv
<1>4. q \in TaskRecords
  BY <1>1, <1>3, Zenon DEF TaskRecords, Statuses
<1>5. /\ q.status = "EvidenceCommitted" /\ sameStakes(k, q)
      /\ q.disputeBondLocked = k.disputeBondLocked
  BY <1>1, Zenon DEF TaskRecords, sameStakes
<1> HIDE DEF q
<1>6. bonded(k) /\ bonded(q) /\ k.status # "Challenged"
  BY <1>1, <1>5 DEF bonded, live, Terminal, Working
<1>7. partiesOK(q) /\ lockedFor(q) = lockedFor(k)
  BY <1>1, <1>5, <1>6, BondedMoves
<1>. QED  BY <1>2, <1>4, <1>7, TaskMovesFree, Zenon

\* submitVerifierReport
LEMMA SubmitVerifierReportInv ==
  ASSUME CustodyInv, NEW t \in Tasks, NEW status \in ReportStatuses,
         submitVerifierReport(t, status)
  PROVE  CustodyInv'
<1> DEFINE k == task[t]
           q == [k EXCEPT !.status = status, !.reportedAt = now,
                          !.reportConfirmations = 0, !.challengeResolved = FALSE,
                          !.confirmedBy = k.confirmedBy \cup {k.verifier}]
<1>1. k \in TaskRecords /\ k.status = "EvidenceCommitted" /\ partiesOK(k)
  BY InvAt DEF submitVerifierReport
<1>2. task' = [task EXCEPT ![t] = q] /\ now' = now /\ escrow' = escrow
  BY Zenon DEF submitVerifierReport
<1>3. /\ bonded(k) /\ now \in Nat /\ status \in Statuses /\ 0 \in Nat
      /\ FALSE \in BOOLEAN
  BY <1>1 DEF bonded, live, Terminal, CustodyInv, Statuses
<1>4. k.confirmedBy \cup {k.verifier} \in SUBSET Accounts
  BY <1>1, <1>3, TaskFields DEF partiesOK, bonded
<1>5. q \in TaskRecords
  BY <1>1, <1>3, <1>4, Zenon DEF TaskRecords
<1>6. /\ q.status = status /\ sameStakes(k, q)
      /\ q.disputeBondLocked = k.disputeBondLocked
  BY <1>1, Zenon DEF TaskRecords, sameStakes
<1> HIDE DEF q
<1>7. bonded(q) /\ q.status # "Challenged"
  BY <1>6 DEF bonded, live, Terminal, ReportStatuses
<1>8. partiesOK(q) /\ lockedFor(q) = lockedFor(k)
  BY <1>1, <1>3, <1>6, <1>7, BondedMoves
<1>. QED  BY <1>2, <1>5, <1>8, TaskMovesFree, Zenon

\* confirmVerifierReport
LEMMA ConfirmVerifierReportInv ==
  ASSUME CustodyInv, NEW t \in Tasks, NEW v \in Verifiers, confirmVerifierReport(t, v)
  PROVE  CustodyInv'
<1> DEFINE k == task[t]
           q == [k EXCEPT !.confirmedBy = k.confirmedBy \cup {v},
                          !.reportConfirmations = k.reportConfirmations + 1]
<1>1. k \in TaskRecords /\ k.status \in ReportStatuses /\ partiesOK(k)
  BY InvAt DEF confirmVerifierReport
<1>2. task' = [task EXCEPT ![t] = q] /\ now' = now /\ escrow' = escrow
  BY Zenon DEF confirmVerifierReport
<1>3. k.confirmedBy \cup {v} \in SUBSET Accounts /\ k.reportConfirmations + 1 \in Nat
  BY SMTT(30), <1>1, TaskFields, RolesAssumption
<1>4. q \in TaskRecords
  BY <1>1, <1>3, Zenon DEF TaskRecords
<1>5. /\ q.status = k.status /\ sameStakes(k, q)
      /\ q.disputeBondLocked = k.disputeBondLocked
  BY <1>1, Zenon DEF TaskRecords, sameStakes
<1> HIDE DEF q
<1>6. bonded(k) /\ bonded(q) /\ k.status # "Challenged"
  BY <1>1, <1>5 DEF bonded, live, Terminal, ReportStatuses
<1>7. partiesOK(q) /\ lockedFor(q) = lockedFor(k)
  BY <1>1, <1>5, <1>6, BondedMoves
<1>. QED  BY <1>2, <1>4, <1>7, TaskMovesFree, Zenon

\* challengeTask adds the dispute bond.
LEMMA ChallengeTaskInv ==
  ASSUME CustodyInv, NEW t \in Tasks, NEW a \in Challengers, challengeTask(t, a)
  PROVE  CustodyInv'
<1> DEFINE k == task[t]
           bond == k.quote.disputeBond
           q == [k EXCEPT !.status = "Challenged", !.challenger = a,
                          !.disputeBondLocked = bond, !.preChallengeStatus = k.status]
<1>1. k \in TaskRecords /\ k.status \in ReportStatuses /\ partiesOK(k) /\ a \in Accounts
  BY InvAt, RolesAssumption DEF challengeTask
<1>2. /\ task' = [task EXCEPT ![t] = q] /\ now' = now
      /\ escrow' = lockFrom(escrow, t, bond)
  BY Zenon DEF challengeTask
<1>3. bond \in Nat /\ k.status \in Statuses /\ escrowedFor(k) \in Nat
  BY <1>1, TaskFields
<1>4. q \in TaskRecords
  BY <1>1, <1>3, Zenon DEF TaskRecords, Statuses
<1>5. /\ q.status = "Challenged" /\ q.challenger = a /\ sameStakes(k, q)
      /\ q.disputeBondLocked = bond
  BY <1>1, Zenon DEF TaskRecords, sameStakes
<1> HIDE DEF q
<1>6. /\ bonded(k) /\ bonded(q) /\ live(k) /\ k.status # "Challenged"
      /\ k.disputeBondLocked = 0
  BY <1>1, <1>5 DEF bonded, live, Terminal, ReportStatuses, partiesOK
<1>7. partiesOK(q)
  BY <1>1, <1>5, <1>6, Zenon DEF partiesOK, sameStakes
<1>8. escrowedFor(q) = escrowedFor(k)
  BY <1>5 DEF escrowedFor, requesterEscrow, sameStakes
<1>9. escrow.lockedByTask[t] = escrowedFor(k) /\ lockedFor(q) = escrowedFor(k) + bond
  <2>1. lockedFor(k) = escrowedFor(k) + 0
    BY <1>6, Zenon DEF lockedFor
  <2>2. lockedFor(q) = escrowedFor(k) + bond
    BY <1>5, <1>6, <1>8, Zenon DEF lockedFor
  <2>3. escrow.lockedByTask[t] = lockedFor(k)
    BY InvAt, Zenon
  <2>4. \A n \in Nat : n + 0 = n
    OBVIOUS
  <2>. QED  BY <1>3, <2>1, <2>2, <2>3, <2>4, Zenon
<1>10. /\ escrowOK(escrow')
       /\ escrow'.lockedByTask = [escrow.lockedByTask EXCEPT ![t] = escrowedFor(k) + bond]
  BY SMTT(30), <1>2, <1>3, <1>9, InvAt, LockFromOK
<1>. QED  BY <1>2, <1>4, <1>7, <1>9, <1>10, TaskMoves, Zenon

\* resolveChallenge hands out exactly the dispute bond.
LEMMA ResolveChallengeInv ==
  ASSUME CustodyInv, NEW t \in Tasks, NEW status \in ReportStatuses, NEW share,
         resolveChallenge(t, status, share)
  PROVE  CustodyInv'
<1> DEFINE k == task[t]
           bond == k.disputeBondLocked
           q == resolved(k, status)
           winner == IF status # k.preChallengeStatus THEN k.challenger ELSE k.agent
<1>1. k \in TaskRecords /\ k.status = "Challenged" /\ partiesOK(k)
  BY InvAt DEF resolveChallenge
<1>2. /\ task' = [task EXCEPT ![t] = q] /\ now' = now
      /\ escrow' = releaseTo(escrow, t, winner, bond)
  BY DEF resolveChallenge
<1>3. /\ bonded(k) /\ live(k) /\ winner \in Accounts /\ k.policyId \in PolicyIds
      /\ status \in Statuses
  BY <1>1 DEF bonded, live, Terminal, partiesOK, Statuses
<1>4. policyOf(k).requiredConfirmations \in Nat
  BY <1>3, PolicyAssumption DEF policyOf, Terms
<1>5. bond \in Nat /\ escrowedFor(k) \in Nat
  BY <1>1, TaskFields
<1>6. q \in TaskRecords
  <2>1. 0 \in Nat /\ TRUE \in BOOLEAN
    OBVIOUS
  <2>. QED  BY <1>1, <1>3, <1>4, <2>1, Zenon DEF TaskRecords, resolved
<1>7. q.status = status /\ sameStakes(k, q) /\ q.disputeBondLocked = 0
  BY <1>1, Zenon DEF TaskRecords, sameStakes, resolved
<1> HIDE DEF q, winner
<1>8. bonded(q) /\ q.status # "Challenged"
  BY <1>7 DEF bonded, live, Terminal, ReportStatuses
<1>9. partiesOK(q)
  BY <1>1, <1>3, <1>7, <1>8 DEF partiesOK, sameStakes
<1>10. escrowedFor(q) = escrowedFor(k)
  BY <1>7 DEF escrowedFor, requesterEscrow, sameStakes
<1>11. escrow.lockedByTask[t] = escrowedFor(k) + bond /\ lockedFor(q) = escrowedFor(k)
  <2>1. lockedFor(k) = escrowedFor(k) + bond
    BY <1>3, Zenon DEF lockedFor
  <2>2. lockedFor(q) = escrowedFor(k) + 0
    BY <1>7, <1>8, <1>10, Zenon DEF lockedFor
  <2>3. escrow.lockedByTask[t] = lockedFor(k)
    BY InvAt, Zenon
  <2>4. \A n \in Nat : n + 0 = n
    OBVIOUS
  <2>. QED  BY <1>5, <2>1, <2>2, <2>3, <2>4, Zenon
<1>12. bond <= escrow.lockedByTask[t] /\ escrow.lockedByTask[t] - bond = lockedFor(q)
  BY <1>5, <1>11
<1>13. /\ escrowOK(escrow')
       /\ escrow'.lockedByTask =
            [escrow.lockedByTask EXCEPT ![t] = escrow.lockedByTask[t] - bond]
  <2>1. escrowOK(escrow)
    BY InvAt, Zenon
  <2>. QED  BY SMTT(30), <1>2, <1>3, <1>5, <1>12, <2>1, ReleaseToOK
<1>. QED  BY <1>2, <1>6, <1>9, <1>12, <1>13, TaskMoves, Zenon

\* A bonded task that is not challenged has what the settlements pay out.
LEMMA BondedPayable ==
  ASSUME CustodyInv, NEW t \in Tasks, bonded(task[t]), task[t].status # "Challenged"
  PROVE  /\ payable(task[t]) /\ escrowedFor(task[t]) \in Nat
         /\ escrow.lockedByTask[t] = escrowedFor(task[t])
         /\ escrowedFor(task[t]) <= escrow.lockedByTask[t]
         /\ escrowOK(escrow) /\ escrow.lockedByTask \in [Tasks -> Nat]
<1> DEFINE k == task[t]
<1>1. /\ k \in TaskRecords /\ partiesOK(k) /\ escrow.lockedByTask[t] = lockedFor(k)
      /\ escrowOK(escrow) /\ escrow.lockedByTask \in [Tasks -> Nat]
  BY InvAt
<1>2. escrowedFor(k) \in Nat /\ k.disputeBondLocked = 0
  BY <1>1, TaskFields DEF partiesOK
<1>3. payable(k)
  BY <1>1, TaskFields DEF payable, partiesOK, bonded
<1>4. lockedFor(k) = escrowedFor(k)
  BY SMTT(30), <1>2 DEF lockedFor
<1>5. escrow.lockedByTask[t] = escrowedFor(k)
  BY <1>1, <1>4
<1>6. escrowedFor(k) <= escrow.lockedByTask[t]
  BY <1>2, <1>5
<1>. QED  BY <1>1, <1>2, <1>3, <1>5, <1>6

\* Closing a task after everything escrowed for it was handed out.
LEMMA CloseWithInv ==
  ASSUME CustodyInv, NEW t \in Tasks, bonded(task[t]), task[t].status # "Challenged",
         NEW status \in Terminal, NEW claim \in BOOLEAN, closeWith(t, status, claim),
         handedOut(escrow, escrow', t, escrowedFor(task[t]))
  PROVE  CustodyInv'
<1> DEFINE k == task[t]
           paid == k.recourseClaimPaid \/ (claim /\ recourseDue(k))
           q == [k EXCEPT !.status = status, !.recourseClaimPaid = paid]
<1>1. k \in TaskRecords /\ partiesOK(k)
  BY InvAt
<1>2. task' = [task EXCEPT ![t] = q] /\ now' = now
  BY Zenon DEF closeWith
<1>3. paid \in BOOLEAN /\ status \in Statuses
  BY <1>1, TaskFields DEF Statuses
<1> HIDE DEF paid
<1>4. q \in TaskRecords
  BY <1>1, <1>3, Zenon DEF TaskRecords
<1>5. q.status = status /\ q.disputeBondLocked = k.disputeBondLocked
  BY <1>1, Zenon DEF TaskRecords
<1> HIDE DEF q
<1>6. partiesOK(q) /\ lockedFor(q) = 0
  BY <1>1, <1>5 DEF partiesOK, live, bonded, Terminal, lockedFor
<1>7. escrow.lockedByTask[t] - escrowedFor(k) = 0
  <2>1. escrow.lockedByTask[t] = escrowedFor(k) /\ escrowedFor(k) \in Nat
    BY BondedPayable, Zenon
  <2>2. \A n \in Nat : n - n = 0
    BY SMTT(30)
  <2>. QED  BY <2>1, <2>2, Zenon
<1>8. /\ escrowOK(escrow')
      /\ escrow'.lockedByTask = [escrow.lockedByTask EXCEPT ![t] = lockedFor(q)]
  BY <1>6, <1>7, Zenon DEF handedOut
<1>. QED  BY <1>2, <1>4, <1>6, <1>8, TaskMoves, Zenon

\* settleTask, on its three paths, hands out everything escrowed for the task.
LEMMA SettleTaskPays ==
  ASSUME CustodyInv, NEW t \in Tasks, settleTask(t)
  PROVE  /\ bonded(task[t]) /\ task[t].status # "Challenged"
         /\ handedOut(escrow, escrow', t, escrowedFor(task[t]))
         /\ \E status \in Terminal, claim \in BOOLEAN : closeWith(t, status, claim)
<1> DEFINE k == task[t]
<1>0. bonded(k) /\ k.status # "Challenged"
  BY Zenon DEF settleTask, settleVerified, settleFailed, settleRefund, bonded, live, Terminal
<1>1. escrowOK(escrow) /\ payable(k) /\ escrowedFor(k) <= escrow.lockedByTask[t]
  BY <1>0, BondedPayable
<1>2. CASE settleVerified(t)
  <2>1. escrow' = payVerified(escrow, t, k)
    BY <1>2 DEF settleVerified
  <2>2. handedOut(escrow, escrow', t, escrowedFor(k))
    BY <1>1, <2>1, PayVerifiedOK
  <2>. QED  BY <1>0, <1>2, <2>2, Zenon DEF settleVerified, Terminal
<1>3. CASE settleFailed(t)
  <2>1. escrow' = payFailed(escrow, t, k)
    BY <1>3 DEF settleFailed
  <2>2. handedOut(escrow, escrow', t, escrowedFor(k))
    BY <1>1, <2>1, PayFailedOK
  <2>. QED  BY <1>0, <1>3, <2>2, Zenon DEF settleFailed, Terminal
<1>4. CASE settleRefund(t)
  <2>1. escrow' = payRefund(escrow, t, k)
    BY <1>4 DEF settleRefund
  <2>2. handedOut(escrow, escrow', t, escrowedFor(k))
    BY <1>1, <2>1, PayRefundOK
  <2>. QED  BY <1>0, <1>4, <2>2, Zenon DEF settleRefund, Terminal
<1>. QED  BY <1>2, <1>3, <1>4, Zenon DEF settleTask

LEMMA SettleTaskInv ==
  ASSUME CustodyInv, NEW t \in Tasks, settleTask(t)
  PROVE  CustodyInv'
BY SettleTaskPays, CloseWithInv

\* slashExpiredNoSubmission hands out everything escrowed for the task.
LEMMA SlashExpiredPays ==
  ASSUME CustodyInv, NEW t \in Tasks, slashExpiredNoSubmission(t)
  PROVE  /\ bonded(task[t]) /\ task[t].status # "Challenged"
         /\ handedOut(escrow, escrow', t, escrowedFor(task[t]))
         /\ \E status \in Terminal, claim \in BOOLEAN : closeWith(t, status, claim)
<1> DEFINE k == task[t]
<1>1. bonded(k) /\ k.status # "Challenged"
  BY DEF slashExpiredNoSubmission, expired, Working, bonded, live, Terminal
<1>2. handedOut(escrow, escrow', t, escrowedFor(k))
  <2>1. /\ payable(k) /\ escrowOK(escrow) /\ escrowedFor(k) \in Nat
        /\ escrow.lockedByTask[t] = escrowedFor(k)
    BY <1>1, BondedPayable
  <2>2. escrowedFor(k) <= escrow.lockedByTask[t]
    BY <2>1
  <2>3. escrow' = releaseSlash(releaseTo(escrow, t, k.requester, requesterEscrow(k)),
                               t, k, FALSE)
    BY DEF slashExpiredNoSubmission
  <2>. QED  BY <2>1, <2>2, <2>3, PayExpiredOK, Zenon
<1>. QED  BY <1>1, <1>2, Zenon DEF slashExpiredNoSubmission, Terminal

LEMMA SlashExpiredInv ==
  ASSUME CustodyInv, NEW t \in Tasks, slashExpiredNoSubmission(t)
  PROVE  CustodyInv'
BY SlashExpiredPays, CloseWithInv

-----------------------------------------------------------------------------
(* Withdrawals, and the steps of the other contracts *)

\* A step that changes neither tasks nor locks keeps the invariant when the
\* escrow stays solvent.
LEMMA LocksKept ==
  ASSUME CustodyInv, UNCHANGED task, now' \in Nat, escrowOK(escrow'),
         escrow'.lockedByTask = escrow.lockedByTask
  PROVE  CustodyInv'
BY Zenon DEF CustodyInv, escrowOK, EscrowSolvent, escrowSolvent, LockedMatchesTask, lockedFor,
       partiesOK, bonded, live, requesterEscrow, escrowedFor

\* withdraw pays an account what it is owed, and only that.
LEMMA EscrowWithdrawOK ==
  ASSUME escrowOK(escrow), NEW a \in Accounts, EscrowWithdraw(a)
  PROVE  /\ escrowOK(escrow') /\ escrow'.lockedByTask = escrow.lockedByTask
         /\ escrow'.withdrawable = [escrow.withdrawable EXCEPT ![a] = 0]
         /\ escrow'.reserveBalance = escrow.reserveBalance
<1> DEFINE g == escrow.withdrawable
           q == [escrow EXCEPT !.withdrawable[a] = 0, !.balance = @ - g[a]]
<1>1. escrow \in EscrowStorage /\ g \in [Accounts -> Nat]
  BY EscrowFields DEF escrowOK
<1>2. /\ g[a] \in Nat /\ escrow.balance \in Nat /\ escrow.reserveBalance \in Nat
      /\ Total(g) \in Nat /\ Total(escrow.lockedByTask) \in Nat
      /\ g[a] <= escrow.balance
  BY <1>1, EscrowFields DEF EscrowWithdraw
<1>3. escrow.balance - g[a] \in Nat /\ 0 \in Nat
  BY <1>2
<1>4. q \in EscrowStorage
  BY <1>1, <1>3, Zenon DEF EscrowStorage
<1>5. /\ q.withdrawable = [g EXCEPT ![a] = 0] /\ q.balance = escrow.balance - g[a]
      /\ q.lockedByTask = escrow.lockedByTask /\ q.reserveBalance = escrow.reserveBalance
  BY <1>1, Zenon DEF EscrowStorage
<1>6. escrow' = q
  BY DEF EscrowWithdraw
<1> HIDE DEF q
<1>7. Total([g EXCEPT ![a] = 0]) = Total(g) - g[a] + 0
  BY <1>1, <1>3, TotalUpdate, PartiesAssumption
<1>8. escrowSolvent(q)
  BY SMTT(30), <1>2, <1>5, <1>7 DEF escrowOK, escrowSolvent
<1>. QED  BY <1>4, <1>5, <1>6, <1>8 DEF escrowOK

\* withdrawReserve pays from the reserve.
LEMMA EscrowWithdrawReserveOK ==
  ASSUME escrowOK(escrow), NEW n \in 1..escrow.reserveBalance, EscrowWithdrawReserve(n)
  PROVE  /\ escrowOK(escrow') /\ escrow'.lockedByTask = escrow.lockedByTask
         /\ escrow'.withdrawable = escrow.withdrawable
         /\ escrow'.reserveBalance < escrow.reserveBalance
<1> DEFINE q == [escrow EXCEPT !.reserveBalance = @ - n, !.balance = @ - n]
<1>1. escrow \in EscrowStorage
  BY DEF escrowOK
<1>2. /\ escrow.balance \in Nat /\ escrow.reserveBalance \in Nat /\ n \in Nat
      /\ Total(escrow.withdrawable) \in Nat /\ Total(escrow.lockedByTask) \in Nat
      /\ n <= escrow.balance /\ n <= escrow.reserveBalance
  BY <1>1, EscrowFields DEF EscrowWithdrawReserve
<1>3. escrow.balance - n \in Nat /\ escrow.reserveBalance - n \in Nat
  BY <1>2
<1>4. q \in EscrowStorage
  BY <1>1, <1>3, Zenon DEF EscrowStorage
<1>5. /\ q.withdrawable = escrow.withdrawable /\ q.balance = escrow.balance - n
      /\ q.lockedByTask = escrow.lockedByTask
      /\ q.reserveBalance = escrow.reserveBalance - n
  BY <1>1, Zenon DEF EscrowStorage
<1>6. escrow' = q
  BY DEF EscrowWithdrawReserve
<1> HIDE DEF q
<1>7. escrowSolvent(q)
  BY SMTT(30), <1>2, <1>5 DEF escrowOK, escrowSolvent
<1>8. escrow.reserveBalance - n < escrow.reserveBalance
  BY <1>2
<1>. QED  BY <1>4, <1>5, <1>6, <1>7, <1>8 DEF escrowOK

\* setManager moves no tokens.
LEMMA EscrowSetManagerOK ==
  ASSUME escrowOK(escrow), NEW v \in BOOLEAN, EscrowSetManager(v)
  PROVE  /\ escrowOK(escrow') /\ escrow'.lockedByTask = escrow.lockedByTask
         /\ escrow'.withdrawable = escrow.withdrawable
         /\ escrow'.reserveBalance = escrow.reserveBalance
<1> DEFINE q == [escrow EXCEPT !.managed = v]
<1>1. escrow \in EscrowStorage /\ escrow' = q
  BY DEF escrowOK, EscrowSetManager
<1>2. q \in EscrowStorage
  BY <1>1, Zenon DEF EscrowStorage
<1>3. /\ q.withdrawable = escrow.withdrawable /\ q.balance = escrow.balance
      /\ q.lockedByTask = escrow.lockedByTask
      /\ q.reserveBalance = escrow.reserveBalance
  BY <1>1, Zenon DEF EscrowStorage
<1> HIDE DEF q
<1>. QED  BY <1>1, <1>2, <1>3 DEF escrowOK, escrowSolvent

\* Nothing is locked, owed or reserved in the deployment.
LEMMA CustodyInit ==
  BondInit => CustodyInv
<1> SUFFICES ASSUME BondInit PROVE CustodyInv
  OBVIOUS
<1>1. now \in Nat
  BY DEF BondInit
<1>2. \A t \in Tasks : task[t].status = "Unknown" /\ task[t].disputeBondLocked = 0
  BY DEF BondInit
<1>3. task \in [Tasks -> TaskRecords]
  <2>1. 0 \in Nat /\ FALSE \in BOOLEAN /\ {} \in SUBSET Accounts
        /\ Zero \in Accounts \cup {Zero} /\ Zero \in PolicyIds \cup {Zero}
        /\ "Unknown" \in Statuses
    BY DEF Statuses
  <2>2. [agentBond |-> 0, verifierFee |-> 0, requesterCancelBond |-> 0, disputeBond |-> 0]
          \in Quotes
    BY <2>1 DEF Quotes
  <2>3. \A t \in Tasks : task[t] \in TaskRecords
    BY <2>1, <2>2, Zenon DEF BondInit, TaskRecords
  <2>. QED  BY <2>3, Zenon DEF BondInit
<1>4. \A t \in Tasks : partiesOK(task[t]) /\ lockedFor(task[t]) = 0
  BY <1>2 DEF partiesOK, live, bonded, lockedFor
<1>5. /\ escrow \in EscrowStorage
      /\ escrow.lockedByTask = [t \in Tasks |-> 0]
      /\ escrow.withdrawable = [a \in Accounts |-> 0]
      /\ escrow.reserveBalance = 0 /\ escrow.balance = 0
  BY Zenon DEF BondInit, EscrowInit, EscrowStorage
<1>6. Total(escrow.lockedByTask) = 0 /\ Total(escrow.withdrawable) = 0
  <2>1. [t \in Tasks |-> 0] \in [Tasks -> Nat] /\ [a \in Accounts |-> 0] \in [Accounts -> Nat]
    OBVIOUS
  <2>2. Total([t \in Tasks |-> 0]) = 0
    BY <2>1, TotalZero
  <2>3. Total([a \in Accounts |-> 0]) = 0
    BY <2>1, TotalZero
  <2>. QED  BY <1>5, <2>2, <2>3
<1>7. EscrowSolvent
  BY <1>5, <1>6 DEF EscrowSolvent, escrowSolvent
<1>8. LockedMatchesTask
  BY <1>4, <1>5 DEF LockedMatchesTask
<1>. QED  BY <1>1, <1>3, <1>4, <1>5, <1>7, <1>8 DEF CustodyInv

\* Every transaction, and the passing of time, preserves the invariant.
LEMMA CustodyNext ==
  CustodyInv /\ [BondNext]_bondVars => CustodyInv'
<1> SUFFICES ASSUME CustodyInv, [BondNext]_bondVars PROVE CustodyInv'
  OBVIOUS
<1>1. ASSUME NEW t \in Tasks, TaskNext(t)
      PROVE  CustodyInv'
  BY <1>1, OpenTaskInv, CancelOpenTaskInv, AcceptTaskInv, StartTaskInv,
     CommitEvidenceInv, SubmitVerifierReportInv, ConfirmVerifierReportInv,
     ChallengeTaskInv, ResolveChallengeInv, SettleTaskInv, SlashExpiredInv DEF TaskNext
<1>2. escrowOK(escrow) /\ now \in Nat
  BY DEF CustodyInv, EscrowSolvent, escrowOK
<1>3. CASE EscrowNext \/ EscrowOwnerNext
  <2>1. task' = task /\ now' = now
    BY <1>3 DEF EscrowNext, EscrowOwnerNext
  <2>2. escrowOK(escrow') /\ escrow'.lockedByTask = escrow.lockedByTask
    BY <1>2, <1>3, EscrowWithdrawOK, EscrowWithdrawReserveOK, EscrowSetManagerOK,
       RolesAssumption, Zenon DEF EscrowNext, EscrowOwnerNext
  <2>. QED  BY <1>2, <2>1, <2>2, LocksKept
<1>4. CASE BondTick
  BY <1>2, <1>4, LocksKept DEF BondTick, Tick
<1>5. CASE \/ StakeNext \/ StakeOwnerNext \/ AttesterNext \/ ControlNext \/ RegistryNext
           \/ UNCHANGED bondVars
  BY <1>2, <1>5, LocksKept DEF StakeNext, StakeOwnerNext, AttesterNext, ControlNext,
                               RegistryNext, bondVars
<1>6. CASE PoolOutsideNext \/ PoolOwnerNext
  <2>1. task' = task /\ escrow' = escrow
    BY <1>6 DEF PoolOutsideNext, PoolOwnerNext
  <2>2. now' = now
    BY <1>6 DEF PoolOutsideNext, PoolOwnerNext, PoolDeposit, PoolWithdraw,
                PoolRequestWithdrawal, setAllocator, setPoolParameters, setPoolRiskControls
  <2>. QED  BY <1>2, <2>1, <2>2, LocksKept
<1>. QED
  BY <1>1, <1>3, <1>4, <1>5, <1>6 DEF BondNext, ByParty, ByOwner, PartyNext, OwnerNext

\* In every reachable state of the composed contracts the escrow can pay all it
\* owes: to tasks, to accounts and to the reserve.
THEOREM EscrowAlwaysSolvent == BondSpec => []EscrowSolvent
<1>1. CustodyInv => EscrowSolvent
  BY DEF CustodyInv
<1>. QED  BY <1>1, CustodyInit, CustodyNext, PTL DEF BondSpec

\* In every reachable state the escrow holds for each task exactly what its
\* status calls for: no settlement pays from the tokens of another task, and
\* none leaves tokens behind.
THEOREM LocksAlwaysMatch == BondSpec => []LockedMatchesTask
<1>1. CustodyInv => LockedMatchesTask
  BY DEF CustodyInv
<1>. QED  BY <1>1, CustodyInit, CustodyNext, PTL DEF BondSpec

=============================================================================
