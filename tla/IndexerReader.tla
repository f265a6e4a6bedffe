---------------------------- MODULE IndexerReader ---------------------------
(***************************************************************************)
(* The Base Sepolia and Base canary readers: one run resolves its block    *)
(* range, fetches the logs, fetches a receipt for each log, indexes them   *)
(* and writes first the state file and then the checkpoint.  The chain     *)
(* grows and reorganises between any two of those awaits, and the process  *)
(* may fail or be killed at each of them.  The chain and its provider are  *)
(* external.                                                               *)
(***************************************************************************)
EXTENDS Indexer, Verifier

CONSTANTS
  Bodies,      \* the sequences of pulses a block may hold
  MaxHeight,   \* bound: blocks of the chain
  MaxForks,    \* bound: reorganisations of the last block
  MaxExtras,   \* bound: stale, repeated or damaged items in one response
  MaxSpan,     \* the reader's maxBlockSpan
  Thresholds   \* the finality thresholds given to a reader

VARIABLES
  chain,       \* sequence of blocks, each with its fork number and its body
  forks,       \* reorganisations so far
  orphans,     \* logs of blocks that left the chain
  reader,      \* memory of the running process
  stateFile,   \* the range of the state on disk
  checkpointFile,
  covered,     \* history: heights of the ranges whose state was written
  since        \* history: first block of the last range that did not resume

chainVars == <<chain, forks, orphans>>
historyVars == <<covered, since>>
vars == <<chain, forks, orphans, reader, stateFile, checkpointFile, covered, since>>

NoFile == [written |-> FALSE]

Idle == [pc |-> "idle"]

Init ==
  /\ chain = <<>> /\ forks = 0 /\ orphans = {}
  /\ reader = Idle
  /\ stateFile = NoFile /\ checkpointFile = NoFile
  /\ covered = {} /\ since = 0

-----------------------------------------------------------------------------
(* The chain and its provider. *)

blockLogs(height) ==
  [i \in DOMAIN chain[height].body |->
     logAt(chain[height].body[i], height, chain[height].fork, i)]

onChain(tx) == \E h \in DOMAIN chain : \E p \in ToSet(chain[h].body) : TxOf[p] = tx

Mine(body) ==
  /\ Len(chain) < MaxHeight
  /\ \A p \in ToSet(body) : ~onChain(TxOf[p])
  /\ chain' = Append(chain, [fork |-> forks, body |-> body])
  /\ UNCHANGED <<forks, orphans, reader, stateFile, checkpointFile, historyVars>>

Reorg(body) ==
  /\ chain # <<>> /\ forks < MaxForks
  /\ forks' = forks + 1
  /\ orphans' = orphans \cup ToSet(blockLogs(Len(chain)))
  /\ chain' = [chain EXCEPT ![Len(chain)] = [fork |-> forks + 1, body |-> body]]
  /\ \A h \in 1..(Len(chain) - 1) : \A p \in ToSet(body) : p \notin ToSet(chain[h].body)
  /\ UNCHANGED <<reader, stateFile, checkpointFile, historyVars>>

\* eth_getLogs: the logs of the range, and in front of them or after them what
\* providers also return around a reorganisation or a fault: a log of a block
\* that left the chain, marked removed or not, or the last log again, intact
\* or damaged.
getLogs(from, to) ==
  LET heights == {h \in DOMAIN chain : h \in from..to}
      base == FlattenSeq([k \in 1..Cardinality(heights) |-> blockLogs(from + k - 1)])
      stale == {log \in orphans : log.blockNumber \in from..to}
      again == IF base = <<>> THEN {} ELSE {[Last(base) EXCEPT !.form = f] : f \in Forms}
      extra == again \cup {[log EXCEPT !.removed = r] : log \in stale, r \in BOOLEAN}
      extras == UNION {[1..n -> extra] : n \in 0..MaxExtras}
  IN  {e \o base : e \in extras} \cup {base \o e : e \in extras}

\* What eth_getTransactionReceipt may answer for a log: its status, null once
\* the transaction left the chain, or a failure of the transport.
receiptAnswers(log) ==
  {"error"}
  \cup (IF onChain(log.txHash) THEN {"0x1"} ELSE {"null"})
  \cup (IF log.blockNumber \in DOMAIN chain
           /\ chain[log.blockNumber].fork = log.blockHash[2] THEN {} ELSE {"0x0"})

-----------------------------------------------------------------------------
(* The reader. *)

\* resolveFromBlock: an explicit block wins.
resolveFromBlock(explicit, resume) ==
  CASE explicit # NoBlock -> explicit
    [] explicit = NoBlock /\ resume /\ checkpointFile # NoFile -> checkpointFile.nextFromBlock
    [] OTHER -> NoBlock

\* assertBaseSepoliaBlockRange, assertCanaryBlockRange.
rangeAccepted(from, to) == from <= to /\ to - from <= MaxSpan

newRun(from, to, finalized, resumed, canary) ==
  [pc |-> "fetch", from |-> from, to |-> to, finalized |-> finalized, resumed |-> resumed,
   canary |-> canary, hashes |-> <<>>, items |-> <<>>, logs |-> <<>>, rejected |-> <<>>,
   next |-> 1]

\* The arguments are resolved and checked; any failed check throws, which
\* leaves everything as it was.
StartReader(explicit, resume, to, finalized) ==
  LET from == resolveFromBlock(explicit, resume)
  IN  /\ reader = Idle
      /\ from # NoBlock /\ rangeAccepted(from, to)
      /\ finalized # NoBlock => finalized <= to
      /\ reader' = newRun(from, to, finalized, explicit = NoBlock, FALSE)
      /\ UNCHANGED <<chainVars, stateFile, checkpointFile, historyVars>>

\* The canary reader needs an acknowledgement and an explicit range, does not
\* compare the finality threshold with it, and has files of its own.
StartCanaryReader(acknowledged, from, to, finalized) ==
  /\ reader = Idle
  /\ acknowledged /\ rangeAccepted(from, to)
  /\ reader' = newRun(from, to, finalized, FALSE, TRUE)
  /\ UNCHANGED <<chainVars, stateFile, checkpointFile, historyVars>>

\* eth_chainId answered with the reader's chain and eth_getLogs with an array.
FetchLogs ==
  /\ reader.pc = "fetch"
  /\ \E items \in getLogs(reader.from, reader.to) :
       reader' = [reader EXCEPT !.pc = "receipts", !.items = items]
  /\ UNCHANGED <<chainVars, stateFile, checkpointFile, historyVars>>

\* safeString keeps the provider's notation of the block number; a damaged
\* item has "unknown" in its place.
rejectedRpcLog(log, reason) ==
  IF log.form = "malformed"
  THEN [blockNumber |-> Quantity(0), blockHash |-> <<0, 0>>, txHash |-> log.txHash,
        logIndex |-> log.logIndex, reasonCode |-> reason]
  ELSE [rejectedLog(log, reason) EXCEPT !.blockNumber = Quantity(log.blockNumber)]

\* Mutant: an item without a receipt is dropped.
readReceiptDropping(log, answer) ==
  IF log.form # "malformed" /\ answer \in {"0x1", "0x0"}
  THEN [logs |-> <<log @@ [receiptStatus |-> IF answer = "0x1" THEN "success" ELSE "reverted"]>>,
        rejected |-> <<>>]
  ELSE [logs |-> <<>>, rejected |-> <<>>]

\* One turn of the loop over the items: what it adds to the raw logs and to
\* the rejected ones.
readReceipt(log, answer) ==
  LET reject(reason) == [logs |-> <<>>, rejected |-> <<rejectedRpcLog(log, reason)>>]
      accept(status) == [logs |-> <<log @@ [receiptStatus |-> status]>>, rejected |-> <<>>]
  IN  CASE log.form = "malformed" -> reject("rpc.log.malformed")
        [] log.form # "malformed" /\ answer = "error" -> reject("rpc.receipt.unavailable")
        [] log.form # "malformed" /\ answer = "null" -> reject("rpc.receipt.malformed")
        [] log.form # "malformed" /\ answer = "0x0" -> accept("reverted")
        [] log.form # "malformed" /\ answer = "0x1" -> accept("success")

ReadReceipt ==
  /\ reader.pc = "receipts" /\ reader.next <= Len(reader.items)
  /\ \E answer \in receiptAnswers(reader.items[reader.next]) :
       LET got == readReceipt(reader.items[reader.next], answer)
       IN  reader' = [reader EXCEPT !.logs = @ \o got.logs, !.rejected = @ \o got.rejected,
                                    !.next = @ + 1]
  /\ UNCHANGED <<chainVars, stateFile, checkpointFile, historyVars>>

indexOf(r) ==
  indexFlowPulseLogs(r.logs, [finalizedBlockNumber |-> r.finalized,
                              canonicalBlockHashes |-> r.hashes], r.rejected)

indexerCheckpoint(r, index) ==
  [written |-> TRUE, fromBlock |-> r.from, lastIndexedBlock |-> r.to,
   nextFromBlock |-> r.to + 1,
   highestObservedBlock |-> Max({c.blockNumber : c \in index.cursors} \cup {NoBlock}),
   emptyRange |-> index.observations = <<>> /\ index.rejectedLogs = <<>>]

readAll == reader.pc = "receipts" /\ reader.next > Len(reader.items)

\* Mutant: the checkpoint is written before the state it describes.
WriteCheckpointFirst ==
  /\ readAll /\ ~reader.canary
  /\ checkpointFile' = indexerCheckpoint(reader, indexOf(reader))
  /\ reader' = [reader EXCEPT !.pc = "stateWritten"]
  /\ since' = IF reader.resumed THEN since ELSE reader.from
  /\ UNCHANGED <<chainVars, stateFile, covered>>

\* writeIndexerState: a temporary file and a rename, so one step.
WriteState ==
  /\ readAll /\ ~reader.canary
  /\ stateFile' = [written |-> TRUE, fromBlock |-> reader.from, toBlock |-> reader.to]
  /\ covered' = covered \cup (reader.from..reader.to)
  /\ reader' = [reader EXCEPT !.pc = "stateWritten"]
  /\ UNCHANGED <<chainVars, checkpointFile, since>>

WriteCheckpoint ==
  /\ reader.pc = "stateWritten"
  /\ checkpointFile' = indexerCheckpoint(reader, indexOf(reader))
  /\ since' = IF reader.resumed THEN since ELSE reader.from
  /\ reader' = Idle
  /\ UNCHANGED <<chainVars, stateFile, covered>>

\* The canary reader writes its state and its checkpoint, which no run reads.
FinishCanaryReader ==
  /\ readAll /\ reader.canary
  /\ reader' = Idle
  /\ UNCHANGED <<chainVars, stateFile, checkpointFile, historyVars>>

\* A refused chain id, a failed call or the end of the process.
Abort ==
  /\ reader # Idle
  /\ reader' = Idle
  /\ UNCHANGED <<chainVars, stateFile, checkpointFile, historyVars>>

\* indexFlowPulseReceipts on receipts at hand: every log known so far, with a
\* finality threshold and possibly the hashes of the canonical blocks.  The
\* process then writes its own output file and ends (Abort).
IndexReceipts(finalized, hashes) ==
  LET current == FlattenSeq([h \in DOMAIN chain |-> blockLogs(h)])
      stale == SetToSeq(orphans)
      success(log) == log @@ [receiptStatus |-> "success"]
  IN  /\ reader = Idle
      /\ \E items \in {stale \o current, current \o stale} :
           reader' = [pc |-> "local", finalized |-> finalized, hashes |-> hashes,
                      items |-> items, logs |-> [i \in DOMAIN items |-> success(items[i])],
                      rejected |-> <<>>]
      /\ UNCHANGED <<chainVars, stateFile, checkpointFile, historyVars>>

canonicalHashes == [h \in DOMAIN chain |-> <<h, chain[h].fork>>]

Next ==
  \/ \E body \in Bodies : Mine(body) \/ Reorg(body)
  \/ \E explicit \in 1..MaxHeight \cup {NoBlock}, resume \in BOOLEAN, to \in 1..MaxHeight,
        finalized \in Thresholds : StartReader(explicit, resume, to, finalized)
  \/ \E finalized \in Thresholds \cup {NoBlock}, hashes \in {<<>>, canonicalHashes} :
        IndexReceipts(finalized, hashes)
  \/ \E acknowledged \in BOOLEAN, from, to, finalized \in 1..MaxHeight :
        StartCanaryReader(acknowledged, from, to, finalized)
  \/ FetchLogs \/ ReadReceipt \/ WriteState \/ WriteCheckpoint \/ FinishCanaryReader \/ Abort

Spec == Init /\ [][Next]_vars

-----------------------------------------------------------------------------
(* What the process is about to write, and the reports on it. *)

complete == readAll \/ reader.pc \in {"stateWritten", "local"}

index == indexOf(reader)

\* Resuming never skips a block: every block from the start of the last range
\* given explicitly up to lastIndexedBlock was in a range whose state reached
\* the disk, wherever a run was cut off.
NoGapBelowCheckpoint ==
  checkpointFile # NoFile => since..checkpointFile.lastIndexedBlock \subseteq covered

\* A faulty provider never makes a log disappear: each item of the response ends
\* as one observation or as one rejected log with a reason, the feed warns about
\* every rejection, and the explorer's tables, filled in two passes with different
\* keys, count each of them once and agree with one another.
EveryLogAccounted ==
  complete =>
    /\ Len(index.observations) + Len(index.rejectedLogs) = Len(reader.items)
    /\ index.rejectedLogs # <<>> => buildDashboardFeed(index).hasIntegrityWarnings
    /\ BlockCountsAddUp(index)
    /\ ExplorerTablesAgree(index)

\* When a pulse is seen at a second location, the observation of its first
\* location is no longer current in the dashboard feed.
RelocatedPulseNotCurrent ==
  complete =>
    \A i, j \in DOMAIN index.observations :
      LET a == index.observations[i]
          b == index.observations[j]
      IN  (/\ i < j /\ a.duplicateKind = "unique"
           /\ a.pulseId = b.pulseId /\ a.observationId # b.observationId)
          => ~dashboardCanonical(a)

\* Reading the same logs a second time in one batch changes neither the
\* rootfields' counts nor the cursors nor what the dashboard shows as current,
\* as long as no pulse of the batch was relocated.
ReplayIdempotent ==
  complete =>
    LET options == [finalizedBlockNumber |-> reader.finalized,
                    canonicalBlockHashes |-> reader.hashes]
        twice == indexFlowPulseLogs(reader.logs \o reader.logs, options, reader.rejected)
        relocated == \E d \in ToSet(index.duplicates) : d.kind # "exactDuplicate"
    IN  ~relocated => /\ twice.rootfields = index.rootfields
                      /\ twice.cursors = index.cursors
                      /\ buildDashboardFeed(twice).canonicalCount
                           = buildDashboardFeed(index).canonicalCount


\* README.md of the indexer: "exactDuplicate: same observationId and canonical
\* observation JSON".  With the same observationId, the JSON differs only when
\* one of the two logs is marked removed.
ExactDuplicatesRecognised ==
  complete =>
    \A i, j \in DOMAIN index.observations :
      LET a == index.observations[i]
          b == index.observations[j]
      IN  (/\ i < j /\ a.observationId = b.observationId
           /\ (a.lifecycleState = "removed") = (b.lifecycleState = "removed"))
          => b.duplicateKind = "exactDuplicate"
=============================================================================
