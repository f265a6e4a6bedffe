------------------------------- MODULE Indexer ------------------------------
(***************************************************************************)
(* indexFlowPulseLogs: from a sequence of raw logs to observations with a  *)
(* life cycle and a duplicate kind, cursors, rootfields and rejected logs. *)
(* The loop over the logs is a left fold; options is a record with the     *)
(* finality threshold (NoBlock when not given) and the known canonical     *)
(* block hashes by height.                                                 *)
(* buildExplorerIndex: the blocks, transactions, receipts, events,         *)
(* accounts and pools derived from an index.  The code fills maps in two   *)
(* passes, first over the observations and then over the rejected logs;    *)
(* here each map is a function on its keys, and "first" and "last" name    *)
(* the entry of the pass that wins.                                        *)
(***************************************************************************)
EXTENDS FlowPulse, SequencesExt

DuplicateKinds == {"unique", "exactDuplicate", "conflictingDuplicate", "pulseDuplicate",
                   "reorgReplacement"}

RejectReasons == {"receipt.reverted", "log.malformed", "rpc.log.malformed",
                  "rpc.receipt.unavailable", "rpc.receipt.malformed"}

observationStatus(observation, options) ==
  LET height == observation.blockNumber
      known == height \in DOMAIN options.canonicalBlockHashes
  IN  CASE observation.lifecycleState = "removed" -> "removed"
        [] observation.lifecycleState # "removed" /\ known
             /\ options.canonicalBlockHashes[height] # observation.blockHash -> "reorged"
        [] OTHER -> IF options.finalizedBlockNumber = NoBlock THEN "observed"
                    ELSE IF height <= options.finalizedBlockNumber THEN "finalized"
                    ELSE "pending"

\* The index while the loop runs: the two maps of seen observations are sets
\* of the observations recorded in them.
emptyIndex(rejected) ==
  [observations |-> <<>>, seen |-> {}, duplicates |-> <<>>, cursors |-> {},
   rootfields |-> <<>>, rejectedLogs |-> rejected]

\* Equality of canonicalObservationJson is equality of the parsed records.
duplicateKindFor(observation, seen) ==
  LET sameId == {o \in seen : o.observationId = observation.observationId}
      samePulse == {o \in seen : o.pulseId = observation.pulseId}
      moved == \E o \in samePulse : \/ o.blockHash # observation.blockHash
                                    \/ o.logIndex # observation.logIndex
  IN  CASE sameId # {} -> IF observation \in sameId THEN "exactDuplicate"
                          ELSE "conflictingDuplicate"
        [] sameId = {} /\ samePulse # {} -> IF moved THEN "reorgReplacement"
                                            ELSE "pulseDuplicate"
        [] OTHER -> "unique"

\* Mutant: the last observation of the pulse, which is the new one itself.
supersedeLast(observations, pulseId) ==
  LET i == SelectLastInSeq(observations, LAMBDA o : o.pulseId = pulseId)
  IN  [observations EXCEPT ![i].lifecycleState = "superseded"]

\* The first observation of the pulse in the list, unless the chain already
\* took it back.
supersedeFirst(observations, pulseId) ==
  LET i == SelectInSeq(observations, LAMBDA o : o.pulseId = pulseId)
  IN  IF observations[i].lifecycleState \in {"removed", "reorged"} THEN observations
      ELSE [observations EXCEPT ![i].lifecycleState = "superseded"]

rejectedLog(log, reason) ==
  [blockNumber |-> Decimal(log.blockNumber), blockHash |-> log.blockHash,
   txHash |-> log.txHash, logIndex |-> log.logIndex, reasonCode |-> reason]

\* Mutant: exact duplicates count as pulses of the rootfield.
countEveryObservation(rootfields, observation, kind) ==
  LET id == observation.payload.rootfieldId
      i == SelectInSeq(rootfields, LAMBDA r : r.rootfieldId = id)
  IN  IF i = 0 THEN Append(rootfields, [rootfieldId |-> id, pulseCount |-> 1])
      ELSE [rootfields EXCEPT ![i].pulseCount = @ + 1]

\* rootfields is a sequence in order of first observation.
countRootfield(rootfields, observation, kind) ==
  LET id == observation.payload.rootfieldId
      i == SelectInSeq(rootfields, LAMBDA r : r.rootfieldId = id)
  IN  CASE i = 0 ->
             Append(rootfields, [rootfieldId |-> id, pulseCount |-> 1,
                                 firstObservationId |-> observation.observationId,
                                 latestObservationId |-> observation.observationId])
        [] i # 0 /\ kind # "exactDuplicate" ->
             [rootfields EXCEPT ![i].latestObservationId = observation.observationId,
                                ![i].pulseCount = @ + 1]
        [] OTHER -> rootfields

indexObservation(index, observation) ==
  LET kind == duplicateKindFor(observation, index.seen)
      pushed == Append(index.observations, observation @@ [duplicateKind |-> kind])
      relocated == kind \in {"pulseDuplicate", "reorgReplacement"}
  IN  [index EXCEPT
         !.observations = IF relocated THEN supersedeFirst(pushed, observation.pulseId)
                          ELSE pushed,
         !.seen = IF kind = "unique" THEN @ \cup {observation} ELSE @,
         !.duplicates = IF kind = "unique" THEN @
                        ELSE Append(@, [kind |-> kind, pulseId |-> observation.pulseId,
                                        observationId |-> observation.observationId]),
         !.cursors = @ \cup {observation.cursorId},
         !.rootfields = countRootfield(@, observation, kind)]

indexLog(index, log, options) ==
  LET parsed == parseFlowPulseLog(log)
  IN  CASE log.receiptStatus # "success" ->
             [index EXCEPT !.rejectedLogs = Append(@, rejectedLog(log, "receipt.reverted"))]
        [] log.receiptStatus = "success" /\ ~isDecodable(log) ->
             [index EXCEPT !.rejectedLogs = Append(@, rejectedLog(log, "log.malformed"))]
        [] OTHER -> indexObservation(index, [parsed EXCEPT !.lifecycleState =
                                               observationStatus(parsed, options)])

indexFlowPulseLogs(logs, options, preRejectedLogs) ==
  FoldLeft(LAMBDA index, log : indexLog(index, log, options), emptyIndex(preRejectedLogs), logs)

-----------------------------------------------------------------------------
(***************************************************************************)
(* The dashboard feed.                                                     *)
(***************************************************************************)
dashboardCanonical(o) ==
  /\ o.duplicateKind # "exactDuplicate"
  /\ o.lifecycleState \notin {"removed", "reorged", "superseded"}

warningCodes(index) ==
  {<<"rejected", index.rejectedLogs[i].reasonCode>> : i \in DOMAIN index.rejectedLogs}
  \cup {<<"duplicate", index.duplicates[i].kind>> : i \in DOMAIN index.duplicates}
  \cup {<<"lifecycle", s>> : s \in {"removed", "reorged"}
                                   \cap {o.lifecycleState : o \in ToSet(index.observations)}}

\* Feed order: by block, then by position in the block.
beforeInFeed(a, b) ==
  \/ a.blockNumber < b.blockNumber
  \/ a.blockNumber = b.blockNumber /\ a.logIndex < b.logIndex

buildDashboardFeed(index) ==
  [observations |-> SortSeq(index.observations, beforeInFeed),
   canonicalCount |-> Len(SelectSeq(index.observations, dashboardCanonical)),
   warningCodes |-> warningCodes(index),
   hasIntegrityWarnings |-> warningCodes(index) # {}]

-----------------------------------------------------------------------------
(* The explorer. *)

firstOf(seq, Test(_)) == seq[SelectInSeq(seq, Test)]

lastOf(seq, Test(_)) == seq[SelectLastInSeq(seq, Test)]

anyOf(seq, Test(_)) == SelectInSeq(seq, Test) # 0

countOf(seq, Test(_)) == Len(SelectSeq(seq, Test))

\* A block is keyed by its number and its hash as they are written in the
\* entry: a number in the provider's notation is another key.
blockKey(number, entry) == <<number, entry.blockHash>>

blockOfObservation(o) == blockKey(Decimal(o.blockNumber), o)

blockOfRejected(r) == blockKey(r.blockNumber, r)

poolIdsForObservation(o) ==
  IF o.payload.pulseType = 4 THEN {o.payload.subject} ELSE {}

explorerEvents(index) ==
  [i \in DOMAIN index.observations |->
     LET o == index.observations[i]
     IN  [eventId |-> o.observationId, block |-> blockOfObservation(o), txId |-> o.txHash,
          status |-> o.lifecycleState]]
  \o
  [i \in DOMAIN index.rejectedLogs |->
     LET r == index.rejectedLogs[i]
     IN  [eventId |-> <<r.txHash, r.logIndex>>, block |-> blockOfRejected(r), txId |-> r.txHash,
          status |-> "failed"]]

observedTx(index) == {o.txHash : o \in ToSet(index.observations)}

rejectedTx(index) == {r.txHash : r \in ToSet(index.rejectedLogs)}

\* A receipt has the life cycle of the last observation of its transaction;
\* one rejected log fails it, with the reason of the last one.
explorerReceipts(index) ==
  [tx \in observedTx(index) \cup rejectedTx(index) |->
     LET ofTx(e) == e.txHash = tx
         events == SelectSeq(index.observations, ofTx)
         failed == tx \in rejectedTx(index)
     IN  [eventIds |-> {o.observationId : o \in ToSet(events)},
          status |-> IF failed THEN "failed" ELSE Last(events).lifecycleState,
          errorCode |-> IF failed THEN lastOf(index.rejectedLogs, ofTx).reasonCode ELSE None]]

\* A transaction stays in the block of its first observation and follows the
\* life cycle of its last; a rejected log replaces the whole entry by a
\* failed one in the block of that log.
explorerTransactions(index) ==
  [tx \in observedTx(index) \cup rejectedTx(index) |->
     LET ofTx(e) == e.txHash = tx
         events == SelectSeq(index.observations, ofTx)
     IN  IF tx \in rejectedTx(index)
         THEN [status |-> "failed", block |-> blockOfRejected(lastOf(index.rejectedLogs, ofTx)),
               accountIds |-> {}, poolIds |-> {}]
         ELSE [status |-> Last(events).lifecycleState, block |-> blockOfObservation(Head(events)),
               accountIds |-> {o.payload.actor : o \in ToSet(events)},
               poolIds |-> UNION {poolIdsForObservation(o) : o \in ToSet(events)}]]

explorerBlocks(index) ==
  LET inBlock(key, o) == blockOfObservation(o) = key
      transactions == explorerTransactions(index)
  IN  [key \in {e.block : e \in ToSet(explorerEvents(index))} |->
         [finalized |-> \E o \in ToSet(index.observations) :
                          inBlock(key, o) /\ o.lifecycleState = "finalized",
          eventCount |-> countOf(explorerEvents(index), LAMBDA e : e.block = key),
          transactionCount |-> Cardinality({tx \in DOMAIN transactions :
                                              transactions[tx].block = key})]]

explorerAccounts(index) ==
  [a \in {o.payload.actor : o \in ToSet(index.observations)} |->
     [recentTransactions |-> {o.txHash : o \in {o \in ToSet(index.observations) :
                                                  o.payload.actor = a}}]]

explorerPools(index) ==
  [p \in UNION {poolIdsForObservation(o) : o \in ToSet(index.observations)} |->
     {o.observationId : o \in {o \in ToSet(index.observations) :
                                 p \in poolIdsForObservation(o)}}]

explorerCounts(index) ==
  [blocks |-> Cardinality(DOMAIN explorerBlocks(index)),
   transactions |-> Cardinality(DOMAIN explorerTransactions(index)),
   events |-> Len(explorerEvents(index)),
   failedTransactions |-> Cardinality({tx \in DOMAIN explorerTransactions(index) :
                                         explorerTransactions(index)[tx].status = "failed"})]

-----------------------------------------------------------------------------
\* buildExplorerIndex counts every transaction in exactly one block and every
\* event once, although its blocks, transactions and events are filled by two
\* passes with different keys: the sums over the blocks are the totals.
BlockCountsAddUp(index) ==
  LET blocks == explorerBlocks(index)
      sum(f(_)) == FoldFunction(LAMBDA b, n : f(b) + n, 0, blocks)
  IN  /\ sum(LAMBDA b : b.transactionCount) = explorerCounts(index).transactions
      /\ sum(LAMBDA b : b.eventCount) = explorerCounts(index).events

\* The receipt and the transaction of the explorer agree on the outcome, only a
\* failed one has an error code, and the accounts and the pools a transaction
\* names list that transaction.
ExplorerTablesAgree(index) ==
  LET receipts == explorerReceipts(index)
      transactions == explorerTransactions(index)
      accounts == explorerAccounts(index)
  IN  /\ DOMAIN receipts = DOMAIN transactions
      /\ \A tx \in DOMAIN transactions :
           /\ receipts[tx].status = transactions[tx].status
           /\ (receipts[tx].errorCode = None) = (receipts[tx].status # "failed")
           /\ \A a \in transactions[tx].accountIds : tx \in accounts[a].recentTransactions
           /\ \A p \in transactions[tx].poolIds :
                \E id \in explorerPools(index)[p] : id.txHash = tx

=============================================================================
