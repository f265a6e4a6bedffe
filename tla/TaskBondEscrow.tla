--------------------------- MODULE TaskBondEscrow ---------------------------
(***************************************************************************)
(* contracts/TaskBondEscrow.sol: custody of the settlement token.  The     *)
(* manager locks tokens for a task and later releases them to accounts or  *)
(* to the reserve; accounts pull what was released to them.                *)
(*                                                                         *)
(* `balance` is the escrow's token balance.  `managed` holds while         *)
(* escrow.manager is the bond manager, the only caller of onlyManager.     *)
(***************************************************************************)
EXTENDS BondParties

VARIABLE escrow

EscrowStorage ==
  [lockedByTask : [Tasks -> Nat], withdrawable : [Accounts -> Nat],
   reserveBalance : Nat, balance : Nat, managed : BOOLEAN]

EscrowInit ==
  escrow = [lockedByTask |-> [t \in Tasks |-> 0],
            withdrawable |-> [a \in Accounts |-> 0],
            reserveBalance |-> 0, balance |-> 0, managed |-> TRUE]

-----------------------------------------------------------------------------
(* Calls of the manager *)

canLockFrom(e, amount) == e.managed /\ amount > 0

lockFrom(e, t, amount) ==
  [e EXCEPT !.lockedByTask[t] = @ + amount, !.balance = @ + amount]

\* A call of releaseTo or moveToReserve, and equally a chain of such calls for
\* task t that adds up to amount, is paid from what is locked for t.
canDecreaseLocked(e, t, amount) ==
  e.managed /\ amount > 0 /\ amount <= e.lockedByTask[t]

releaseTo(e, t, account, amount) ==
  [e EXCEPT !.lockedByTask[t] = @ - amount, !.withdrawable[account] = @ + amount]

\* Mutant: the reserve is not credited.
moveFromLocked(e, t, amount) == [e EXCEPT !.lockedByTask[t] = @ - amount]

moveToReserve(e, t, amount) ==
  [e EXCEPT !.lockedByTask[t] = @ - amount, !.reserveBalance = @ + amount]

-----------------------------------------------------------------------------
(* Calls of accounts and of the owner *)

\* Mutant: the credit of the account is not cleared.
EscrowWithdrawTwice(account) ==
  /\ escrow.withdrawable[account] > 0
  /\ escrow.withdrawable[account] <= escrow.balance
  /\ escrow' = [escrow EXCEPT !.balance = @ - escrow.withdrawable[account]]

EscrowWithdraw(account) ==
  /\ escrow.withdrawable[account] > 0
  /\ escrow.withdrawable[account] <= escrow.balance    \* the token transfer
  /\ escrow' = [escrow EXCEPT !.withdrawable[account] = 0,
                              !.balance = @ - escrow.withdrawable[account]]

EscrowWithdrawReserve(amount) ==
  /\ amount > 0
  /\ amount <= escrow.reserveBalance
  /\ amount <= escrow.balance                          \* the token transfer
  /\ escrow' = [escrow EXCEPT !.reserveBalance = @ - amount, !.balance = @ - amount]

EscrowSetManager(managed) == escrow' = [escrow EXCEPT !.managed = managed]

-----------------------------------------------------------------------------
\* Every token in the escrow has one owner: a task, an account or the reserve.
escrowSolvent(e) ==
  e.balance = Total(e.lockedByTask) + Total(e.withdrawable) + e.reserveBalance

=============================================================================
