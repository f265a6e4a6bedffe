------------------------- MODULE BridgePilotChecks --------------------------
(* The operator tools around the relayer: the pilot end-to-end check, which  *)
(* runs the pipeline and compares amounts; the transaction diagnostic, which *)
(* says why a deposit will not be credited; the readiness check, which       *)
(* builds a live command line from the environment.                          *)
EXTENDS BridgeRelayer

CONSTANTS
  TargetSettlementSeconds,   \* FLOWMEMORY_BRIDGE_TARGET_SETTLEMENT_SECONDS, default 30
  BlockSeconds,              \* FLOWMEMORY_BASE8453_ESTIMATED_BLOCK_SECONDS, default 2
  PollSeconds                \* FLOWMEMORY_BRIDGE_POLL_SECONDS, default 1

-----------------------------------------------------------------------------
(* Command lines the tools build.                                            *)

parsePilotE2EArgs(e) ==
  /\ e.mode \in {"mock-pilot", "base-mainnet-pilot"}
  /\ e.mode = "base-mainnet-pilot" =>
       e.rpc /\ e.lockbox # None /\ e.from # Unset /\ e.to # Unset

\* What the end-to-end check passes to parseBridgeArgs: credits are applied to
\* a state file of the check's own.
pipelineArgs(e, fixture) ==
  LET live == e.mode = "base-mainnet-pilot"
  IN  [mode |-> e.mode, fixture |-> IF live THEN <<>> ELSE fixture, rpc |-> live /\ e.rpc,
       lockbox |-> IF live THEN e.lockbox ELSE None, from |-> IF live THEN e.from ELSE Unset,
       to |-> IF live THEN e.to ELSE Unset, expectedChain |-> Unset, approved |-> {e.approved},
       supported |-> e.supported, decimals |-> e.decimals, depth |-> e.confirmations,
       ackFunds |-> live, ackPilot |-> TRUE, maxUsd |-> e.maxUsd, maxDeposit |-> e.maxDeposit,
       totalCap |-> e.totalCap, apply |-> TRUE, withdrawal |-> TRUE, baseRecipient |-> None,
       state |-> TRUE, cursor |-> FALSE]

\* What the readiness check passes: read only, no credit applied.
baseLiveArgs(env) ==
  [mode |-> "base-mainnet-pilot", fixture |-> <<>>, rpc |-> env.rpc, lockbox |-> env.lockbox,
   from |-> env.from, to |-> env.to, expectedChain |-> Unset, approved |-> {env.lockbox},
   supported |-> {env.token}, decimals |-> env.decimals, depth |-> env.confirmations,
   ackFunds |-> TRUE, ackPilot |-> TRUE, maxUsd |-> env.maxUsd, maxDeposit |-> env.maxDeposit,
   totalCap |-> env.totalCap, apply |-> FALSE, withdrawal |-> FALSE, baseRecipient |-> None,
   state |-> FALSE, cursor |-> FALSE]

\* The environment the live check insists on.
liveCheckAccepted(env) ==
  /\ env.rpc /\ env.lockbox # None /\ env.token # None /\ env.maxDeposit # Unset
  /\ env.totalCap # Unset /\ env.confirmations # Unset /\ env.decimals # Unset
  /\ env.from # Unset /\ env.to # Unset
  /\ env.ack = "I_UNDERSTAND_THIS_IS_CAPPED_BASE8453_OWNER_PILOT"

\* The self-test's broken command lines: each is refused by parseBridgeArgs,
\* or by the reader when it is the lockbox that is not approved.
brokenArgs(o) ==
  {[o EXCEPT !.ackPilot = FALSE, !.ackFunds = FALSE], [o EXCEPT !.depth = Unset],
   [o EXCEPT !.supported = {}], [o EXCEPT !.to = o.from + MaxBlockRange + 1]}

selfTest(o) ==
  /\ \A broken \in brokenArgs(o) : ~parseBridgeArgs(broken)
  /\ ~approvedLockbox(o.lockbox, [o EXCEPT !.approved = {"elsewhere"}])

-----------------------------------------------------------------------------
(* The end-to-end check's assertions.                                        *)

\* buildExactValueReport: amounts, tokens, assets and accounts agree along the
\* first of each artifact.
exactValueReport(handoff) ==
  LET observation == handoff.observations[1]
      credit == handoff.credits[1]
      application == handoff.runtimeApplications[1]
      withdrawal == handoff.withdrawalIntents[1]
      release == handoff.releaseEvidences[1]
  IN  /\ Cardinality({observation.deposit.amount, credit.amount, application.amount,
                      withdrawal.amount, release.amount}) = 1
      /\ credit.token = observation.deposit.token /\ withdrawal.token = credit.token
      /\ release.token = withdrawal.token
      /\ Cardinality({observation.asset, credit.asset, application.asset, withdrawal.asset,
                      release.asset}) = 1
      /\ withdrawal.account = credit.recipient /\ release.recipient = withdrawal.baseRecipient

-----------------------------------------------------------------------------
(* The transaction diagnostic, on the transaction of an event.               *)

estimatedDetectionSeconds(depth) == depth * BlockSeconds + PollSeconds

\* The blocks that hold the event's transaction: one, if it was mined.
receiptBlocks(e) == {h \in DOMAIN chain : e \in Range(chain[h].events)}

\* The receipt's logs that parse as deposits of the lockbox; a log that does
\* not parse is passed over.
parsedDeposits(e, o) ==
  LET logs == UNION {{[event |-> chain[h].events[i], block |-> h, logIndex |-> i] :
                        i \in {k \in DOMAIN chain[h].events :
                                 Events[chain[h].events[k]].tx = Events[e].tx}} :
                       h \in receiptBlocks(e)}
  IN  {parseBridgeDepositLog(l) :
         l \in {k \in logs : Events[k.event].tag = "pilot" /\ Events[k.event].lockbox = o.lockbox}}


confirmationsSatisfied(e, o) ==
  \A h \in receiptBlocks(e) : Len(chain) >= h + confirmationDepth(o)

capMatches(deposits, o) ==
  /\ \A d \in deposits : d.amount <= o.maxDeposit
  /\ FoldSet(LAMBDA d, sum : sum + d.amount, 0, deposits) <= o.totalCap

\* The checks in safeReason's order, each with the reason given when it fails.
\* Receipt status and selector are those of a mined lock call.
checks(e, o) ==
  LET deposits == parsedDeposits(e, o)
  IN  <<[reason |-> "wrong-chain", ok |-> RpcChainId = BaseMainnet],
        [reason |-> "transaction-not-found", ok |-> receiptBlocks(e) # {}],
        [reason |-> "wrong-lockbox", ok |-> Events[e].to = o.lockbox],
        [reason |-> "bridge-deposit-log-invalid", ok |-> deposits # {}],
        [reason |-> "recipient-missing", ok |-> \A d \in deposits : d.recipient # ZeroRecipient],
        [reason |-> "recipient-placeholder",
         ok |-> \A d \in deposits : d.recipient \notin PlaceholderRecipients],
        [reason |-> "unsupported-token", ok |-> \A d \in deposits : d.token \in o.supported],
        [reason |-> "cap-mismatch", ok |-> capMatches(deposits, o)],
        [reason |-> "insufficient-confirmations", ok |-> confirmationsSatisfied(e, o)],
        [reason |-> "settlement-target-infeasible",
         ok |-> estimatedDetectionSeconds(confirmationDepth(o)) <= TargetSettlementSeconds]>>

diagnoseBase8453Tx(e, o) ==
  LET failed == SelectSeq(checks(e, o), LAMBDA c : ~c.ok)
  IN  IF failed = <<>> THEN "valid" ELSE Head(failed).reason

-----------------------------------------------------------------------------
(* Properties.                                                               *)


=============================================================================
