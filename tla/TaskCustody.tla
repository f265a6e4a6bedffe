---------------------------- MODULE TaskCustody -----------------------------
(***************************************************************************)
(* What the Agent Bonds contracts promise about the tokens of a task,      *)
(* whatever the reports, challenges and settlement rules are:              *)
(*   - tokens enter for an open task, and again when it is bonded or       *)
(*     disputed, never for a closed one;                                   *)
(*   - a resolved dispute hands the tokens of the dispute to one account   *)
(*     and leaves the rest as it was;                                      *)
(*   - closing a task hands out everything held for it, once, and only     *)
(*     tokens of a bond may reach the reserve;                             *)
(*   - what an account is owed only falls when it is paid in full.         *)
(***************************************************************************)
EXTENDS BondParties

VARIABLES phase,      \* [Tasks -> {"none", "open", "bonded", "disputed", "closed"}]
          held,       \* [Tasks -> Nat]: tokens held for the task
          disputed,   \* [Tasks -> Nat]: the part of held that is a dispute bond
          owed,       \* [Accounts -> Nat]: tokens released and not yet paid
          reserve     \* tokens of the protocol reserve

custodyVars == <<phase, held, disputed, owed, reserve>>

Custody == Total(held) + Total(owed) + reserve

CustodyInit ==
  /\ phase = [t \in Tasks |-> "none"]
  /\ held = [t \in Tasks |-> 0]
  /\ disputed = [t \in Tasks |-> 0]
  /\ owed = [a \in Accounts |-> 0]
  /\ reserve = 0

\* Task t moves from a phase to another one; the other tasks do not move.
Moves(t, from, to) == phase[t] = from /\ phase' = [phase EXCEPT ![t] = to]

OnlyHeldOf(t) == \A u \in Tasks \ {t} : held'[u] = held[u]

Fund(t) ==
  /\ Moves(t, "none", "open") /\ held'[t] > 0 /\ OnlyHeldOf(t)
  /\ UNCHANGED <<disputed, owed, reserve>>

Bond(t) ==
  /\ Moves(t, "open", "bonded") /\ held'[t] > held[t] /\ OnlyHeldOf(t)
  /\ UNCHANGED <<disputed, owed, reserve>>

Dispute(t) ==
  /\ Moves(t, "bonded", "disputed") /\ OnlyHeldOf(t)
  /\ disputed'[t] > 0 /\ held'[t] = held[t] + disputed'[t]
  /\ \A u \in Tasks \ {t} : disputed'[u] = disputed[u]
  /\ UNCHANGED <<owed, reserve>>

Resolve(t) ==
  /\ Moves(t, "disputed", "bonded")
  /\ \E a \in Accounts : owed' = [owed EXCEPT ![a] = @ + disputed[t]]
  /\ held' = [held EXCEPT ![t] = @ - disputed[t]]
  /\ disputed' = [disputed EXCEPT ![t] = 0]
  /\ UNCHANGED reserve

\* Everything held for t is handed out.
Empty(t) ==
  /\ held' = [held EXCEPT ![t] = 0]
  /\ \A a \in Accounts : owed'[a] >= owed[a]
  /\ Custody' = Custody

Cancel(t) == Moves(t, "open", "closed") /\ Empty(t) /\ UNCHANGED <<disputed, reserve>>

Close(t) ==
  Moves(t, "bonded", "closed") /\ Empty(t) /\ reserve' >= reserve /\ UNCHANGED disputed

Pay(a) ==
  /\ owed[a] > 0 /\ owed' = [owed EXCEPT ![a] = 0]
  /\ UNCHANGED <<phase, held, disputed, reserve>>

PayReserve ==
  reserve' < reserve /\ UNCHANGED <<phase, held, disputed, owed>>

CustodyNext ==
  \/ \E t \in Tasks : \/ Fund(t) \/ Bond(t) \/ Dispute(t) \/ Resolve(t)
                      \/ Cancel(t) \/ Close(t)
  \/ \E a \in Accounts : Pay(a)
  \/ PayReserve

CustodySpec == CustodyInit /\ [][CustodyNext]_custodyVars

=============================================================================
