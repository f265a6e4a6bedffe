------------------------------ MODULE FlowPulse -----------------------------
(***************************************************************************)
(* FlowPulse logs as the off-chain services see them: what a JSON-RPC      *)
(* provider returns, how it is decoded, and the identities derived from    *)
(* it.  Keccak-256 is modelled as injective: an identity is the record of  *)
(* the fields in its preimage.  The words of the log's data are a function *)
(* of the pulse, Payload.                                                  *)
(***************************************************************************)
EXTENDS Naturals, Sequences

CONSTANTS Pulses, Payload, TxOf

None == "none"

\* No block number given; the heights of the model start at 1.
NoBlock == 0

LifecycleStates == {"observed", "pending", "finalized", "removed", "superseded", "reorged"}

\* A log is well formed, has a field the RPC reader refuses, or has topics or
\* data that do not decode.
Forms == {"ok", "malformed", "undecodable"}

\* Block numbers as strings: decimal after normalisation, the provider's hex
\* quantity before it.
Decimal(n) == <<"decimal", n>>

Quantity(n) == <<"quantity", n>>

\* A log of pulse p at a height, in the block of fork v at that height.
logAt(p, height, fork, logIndex) ==
  [pulseId |-> p, blockNumber |-> height, blockHash |-> <<height, fork>>,
   txHash |-> TxOf[p], logIndex |-> logIndex, removed |-> FALSE, form |-> "ok"]

\* deriveObservationId: chain and contract are fixed by the source set.
deriveObservationId(log) ==
  [blockNumber |-> log.blockNumber, blockHash |-> log.blockHash, txHash |-> log.txHash,
   logIndex |-> log.logIndex, pulseId |-> log.pulseId,
   rootfieldId |-> Payload[log.pulseId].rootfieldId]

deriveCursorId(log) ==
  [blockNumber |-> log.blockNumber, blockHash |-> log.blockHash, logIndex |-> log.logIndex]

isDecodable(log) == log.form # "undecodable"

parseFlowPulseLog(log) ==
  [observationId |-> deriveObservationId(log),
   cursorId |-> deriveCursorId(log),
   lifecycleState |-> IF log.removed THEN "removed" ELSE "observed",
   blockNumber |-> log.blockNumber, blockHash |-> log.blockHash, txHash |-> log.txHash,
   logIndex |-> log.logIndex, pulseId |-> log.pulseId, payload |-> Payload[log.pulseId]]

=============================================================================
