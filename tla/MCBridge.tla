------------------------------ MODULE MCBridge ------------------------------
(* A cursor loop on one process; the loop, a range read, a canary read, a    *)
(* misconfigured read, a readiness check and a fixture batch on the other.   *)
EXTENDS BridgePilotChecks

event(id, tx, token, amount, nonce) ==
  [depositId |-> id, tx |-> tx, chainId |-> BaseMainnet, lockbox |-> "box", token |-> token,
   amount |-> amount, sender |-> "alice", recipient |-> "acct", nonce |-> nonce, tag |-> "pilot",
   to |-> IF tx = "t2" THEN "router" ELSE "box"]

MCEvents ==
  [e \in {"e1", "e2", "e3", "e4"} |->
     CASE e = "e1" -> event("d1", "t1", "usdc", 2, 1)
       [] e = "e2" -> event("d2", "t2", "usdc", 2, 2)
       [] e = "e3" -> event("d3", "t3", "junk", 1, 3)
       [] e = "e4" -> event("d4", "t4", "usdc", 1, 4)]

MCBodies == {<<>>, <<"e1">>, <<"e2", "e1">>, <<"e3">>, <<"e4">>}

deposit(id, tx, index, amount, recipient) ==
  [depositId |-> id, sourceChainId |-> BaseMainnet, sourceContract |-> "box", txHash |-> tx,
   logIndex |-> index, block |-> 0, token |-> "usdc", amount |-> amount, sender |-> "alice",
   recipient |-> recipient, nonce |-> 1, status |-> "observed"]

\* A duplicate, a deposit over the per-deposit limit and one to nobody.
MCFixture ==
  <<deposit("d1", "t1", 1, 2, "acct"), deposit("d1", "t1", 1, 2, "acct"),
    deposit("d6", "t6", 1, 3, "acct"), deposit("d5", "t5", 1, 1, "zero")>>

pilot ==
  [mode |-> "base-mainnet-pilot", fixture |-> <<>>, rpc |-> TRUE, lockbox |-> "box", from |-> 1,
   to |-> Unset, expectedChain |-> Unset, approved |-> {"box"}, supported |-> {"usdc"},
   decimals |-> 6, depth |-> 1, ackFunds |-> TRUE, ackPilot |-> TRUE, maxUsd |-> 25,
   maxDeposit |-> 2, totalCap |-> 3, apply |-> TRUE, withdrawal |-> TRUE, baseRecipient |-> None,
   state |-> TRUE, cursor |-> TRUE]

\* The end-to-end check's settings and the readiness check's environment.
MCE2E ==
  [mode |-> "mock-pilot", rpc |-> FALSE, lockbox |-> None, from |-> Unset, to |-> Unset,
   approved |-> "box", supported |-> {"usdc"}, decimals |-> 6, confirmations |-> 2, maxUsd |-> 1,
   maxDeposit |-> 2, totalCap |-> 3]

MCEnv ==
  [rpc |-> TRUE, lockbox |-> "box", token |-> "usdc", from |-> 1, to |-> 2, decimals |-> 6,
   confirmations |-> 1, maxUsd |-> 1, maxDeposit |-> 2, totalCap |-> 5,
   ack |-> "I_UNDERSTAND_THIS_IS_CAPPED_BASE8453_OWNER_PILOT"]

ASSUME ToolSettings ==
  parsePilotE2EArgs(MCE2E) /\ liveCheckAccepted(MCEnv) /\ selfTest(baseLiveArgs(MCEnv))

MCCommands ==
  [c \in {"loop", "range", "canary", "sepolia", "batch", "ready"} |->
     CASE c = "loop"    -> pilot
       [] c = "range"   -> [pilot EXCEPT !.to = 2, !.cursor = FALSE, !.totalCap = 5,
                                         !.baseRecipient = "bob"]
       [] c = "canary"  -> [pilot EXCEPT !.mode = "base-mainnet-canary", !.to = 1, !.cursor = FALSE,
                                         !.apply = FALSE, !.withdrawal = FALSE, !.state = FALSE]
       [] c = "sepolia" -> [pilot EXCEPT !.mode = "base-sepolia", !.to = 1, !.cursor = FALSE,
                                         !.depth = Unset, !.decimals = Unset]
       [] c = "ready"   -> baseLiveArgs(MCEnv)
       [] c = "batch"   -> [pipelineArgs(MCE2E, MCFixture) EXCEPT !.state = FALSE]]

MCCommandsOf ==
  [p \in {"r1", "r2"} |-> IF p = "r1" THEN {"loop"}
                          ELSE {"loop", "range", "canary", "sepolia", "batch", "ready"}]

\* Runs that touch no shared file are explored while the loop rests and no
\* file exists yet.
Isolated == {"canary", "sepolia", "batch", "ready"}
IsolatedFirst ==
  \A p \in Processes : procs'[p].pc # "idle" /\ procs'[p].command \in Isolated =>
    cursor = NoCursor /\ ledger = emptyApplicationState /\ ~died
      /\ \A q \in Processes \ {p} : procs[q] = Idle /\ procs'[q] = Idle

\* The first block holds an ordinary deposit or the one the reader throws on,
\* and is final; the others come later.
FirstBlock == {<<"e3">>, <<"e4">>}
DepositFirst ==
  /\ chain' # <<>> => chain'[1].events \in FirstBlock /\ chain'[1].fork = 0
  /\ \A h \in DOMAIN chain' : h > 1 => chain'[h].events \notin FirstBlock

\* Runs start once a block is confirmed: before that they find nothing.
StartLate == (\E p \in Processes : procs[p] = Idle /\ procs'[p] # Idle) => Len(chain) >= 2

\* A range read touches no shared file until its credits are applied, so it
\* reads while the other process rests or waits for the state file.
RangeReadsApart ==
  \A p \in Processes :
    procs'[p].pc \in {"head", "logs", "canonical"} /\ procs'[p].command = "range" =>
      \A q \in Processes \ {p} :
        procs'[q] = procs[q] /\ procs[q].pc \in {"idle", "lockLedger"}

\* Crashes and reorganisations are explored apart.
FaultsApart == died' => forks' = 0
=============================================================================
