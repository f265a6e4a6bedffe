---------------------------- MODULE BridgeRelayer ---------------------------
(* Bridge relayer processes: each run reads the lockbox deposits of a block  *)
(* range (its own, or the one after the shared cursor file), then applies    *)
(* the credits to the shared application state file.  Both files have an     *)
(* exclusive lock file beside them.  The source chain grows and reorganises, *)
(* RPC calls fail, answers come from a lagging node, and processes crash.    *)
EXTENDS BridgeObserver, Bags

CONSTANTS
  Processes,        \* operating-system processes running the relayer
  Commands,         \* command line name -> options
  CommandsOf,       \* the command lines a process is started with
  Events,           \* deposit event name -> the fields of the event
  Bodies,           \* the sequences of deposit events a block may hold
  RpcChainId,       \* what eth_chainId answers
  MaxHeight,        \* bound on the chain's height
  MaxForks,         \* bound on reorganisations
  ReorgDepth,       \* how many blocks at the tip a reorganisation replaces
  MaxFaults         \* bound on lagging answers and crashes

ASSUME CommandsAssumption == \A c \in DOMAIN Commands : isCliOptions(Commands[c])

VARIABLES
  chain,       \* the canonical source chain: blocks [fork, events]
  oldChain,    \* the chain before the last reorganisation: a lagging node's view
  forks,       \* reorganisations so far
  cursor,      \* cursor state file
  cursorLock,  \* <cursor file>.lock: the process whose open("wx") created it
  ledger,      \* runtime credit application state file
  ledgerLock,  \* <state file>.lock
  procs,       \* what each process is doing
  lagged,      \* a lagging node has answered eth_getLogs
  died,        \* a process has crashed
  lost,        \* replay keys whose run ended after the cursor moved past them
  grants       \* how often a run reported a replay key as applied to the file

chainVars == <<chain, oldChain, forks>>
fileVars == <<cursor, cursorLock, ledger, ledgerLock>>
ghosts == <<lagged, died, lost, grants>>
vars == <<chain, oldChain, forks, cursor, cursorLock, ledger, ledgerLock, procs, lagged,
          died, lost, grants>>

Idle == [pc |-> "idle"]
NoCursor == [lastScannedBlock |-> Unset]
Free == "free"
faults == (IF lagged THEN 1 ELSE 0) + (IF died THEN 1 ELSE 0)
optionsOf(p) == Commands[procs[p].command]
become(p, state) == procs' = [procs EXCEPT ![p] = state]

-----------------------------------------------------------------------------
(* The source chain.                                                         *)

blockHash(view, h) == <<h, view[h].fork>>
eventsOf(view) == UNION {Range(view[h].events) : h \in DOMAIN view}

Mine(body) ==
  /\ Len(chain) < MaxHeight /\ Range(body) \cap eventsOf(chain) = {}
  /\ chain' = Append(chain, [fork |-> forks, events |-> body])
  /\ UNCHANGED <<oldChain, forks, fileVars, procs, ghosts>>

\* The blocks at the tip are replaced by as many others; their transactions
\* may be mined again, in any of the new blocks.
Reorg(bodies) ==
  /\ forks < MaxForks /\ Len(chain) >= ReorgDepth
  /\ LET kept == SubSeq(chain, 1, Len(chain) - ReorgDepth)
         fresh == [i \in 1..ReorgDepth |-> [fork |-> forks + 1, events |-> bodies[i]]]
     IN  /\ \A i \in 1..ReorgDepth : Range(bodies[i]) \cap eventsOf(kept) = {}
         /\ \A i, j \in 1..ReorgDepth : i # j => Range(bodies[i]) \cap Range(bodies[j]) = {}
         /\ chain' = kept \o fresh
  /\ oldChain' = chain /\ forks' = forks + 1
  /\ UNCHANGED <<fileVars, procs, ghosts>>

\* eth_getLogs for one lockbox and the two BridgeDeposit topics, in block order.
getLogs(view, lockbox, from, to) ==
  LET logsAt(h) == LET all == [i \in DOMAIN view[h].events |->
                                [event |-> view[h].events[i], block |-> h, logIndex |-> i,
                                 hash |-> blockHash(view, h)]]
                   IN  SelectSeq(all, LAMBDA l : Events[l.event].lockbox = lockbox)
      heights == {h \in DOMAIN view : from <= h /\ h <= to}
  IN  FlattenSeq([k \in 1..Cardinality(heights) |-> logsAt(SetToSortSeq(heights, <)[k])])

\* The event's topics and words; the removed, topic, width, lockbox and pilot
\* tag checks are the parse conditions below.
parseBridgeDepositLog(log) ==
  LET e == Events[log.event]
  IN  [depositId |-> e.depositId, sourceChainId |-> e.chainId, sourceContract |-> e.lockbox,
       txHash |-> e.tx, logIndex |-> log.logIndex, block |-> log.block, token |-> e.token,
       amount |-> e.amount, sender |-> e.sender, recipient |-> e.recipient, nonce |-> e.nonce,
       status |-> "observed"]

logParses(log, o) ==
  LET e == Events[log.event]
  IN  e.tag = "pilot" /\ e.chainId = expectedChainIdForMode(o)

-----------------------------------------------------------------------------
(* One run of the relayer.                                                   *)

\* parseBridgeArgs, then the fixture in mock modes or the RPC reader.
Start(p, command) ==
  LET o == Commands[command]
  IN  /\ procs[p] = Idle /\ command \in CommandsOf[p]
      /\ parseBridgeArgs(o)
      /\ \/ /\ isMockMode(o.mode) /\ fixtureAccepted(o.fixture)
            /\ become(p, [pc |-> "guard", command |-> command, deposits |-> o.fixture])
         \/ /\ ~isMockMode(o.mode)
            /\ become(p, [pc |-> IF o.cursor THEN "lock" ELSE "head", command |-> command])
      /\ UNCHANGED <<chainVars, fileVars, ghosts>>

AcquireCursorLock(p) ==
  /\ procs[p].pc = "lock" /\ cursorLock = Free
  /\ cursorLock' = p
  /\ become(p, [procs[p] EXCEPT !.pc = "head"])
  /\ UNCHANGED <<chainVars, cursor, ledger, ledgerLock, ghosts>>

\* Mutant: the lock file is left behind.
releaseCursorLockKept(o) == cursorLock' = cursorLock

\* The finally clause: the lock file is removed by name, whoever made it.
releaseCursorLock(o) == cursorLock' = IF o.cursor THEN Free ELSE cursorLock

\* Any throw inside the locked reader.
throwInReader(p, o) == releaseCursorLock(o) /\ become(p, Idle)

bridgeCursorStateId(o, last, head) == <<o.mode, expectedChainIdForMode(o), o.lockbox, last, head>>

loadBridgeCursorState(o) ==
  /\ cursor.mode = o.mode /\ cursor.sourceChainId = expectedChainIdForMode(o)
  /\ cursor.lockbox = o.lockbox
  /\ cursor.stateId = bridgeCursorStateId(o, cursor.lastScannedBlock, cursor.lastConfirmedHead)

readerAccepted(o) ==
  /\ approvedLockbox(o.lockbox, o)
  /\ RpcChainId = expectedChainIdForMode(o)
  /\ o.cursor /\ cursor # NoCursor => loadBridgeCursorState(o)

confirmedHead(o) == IF Len(chain) >= confirmationDepth(o) THEN Len(chain) - confirmationDepth(o)
                    ELSE -1

\* Mutant: the window ends at the latest block.
scanWindowAtHead(o) ==
  LET from == IF cursor = NoCursor THEN o.from ELSE cursor.lastScannedBlock + 1
  IN  [from |-> from, to |-> Len(chain)]

\* The cursor's next window: never past the confirmed head, the range bound
\* or the requested last block.
scanWindow(o) ==
  LET from == IF cursor = NoCursor THEN o.from ELSE cursor.lastScannedBlock + 1
  IN  [from |-> from,
       to |-> Min({confirmedHead(o), from + MaxBlockRange}
                    \cup (IF o.to = Unset THEN {} ELSE {o.to}))]

\* Checks before eth_getLogs, the cursor file and eth_blockNumber.
ReadHead(p) ==
  LET o == optionsOf(p)
      window == IF o.cursor THEN scanWindow(o) ELSE [from |-> o.from, to |-> o.to]
      confirmed == confirmationDepth(o) = 0 \/ confirmedHead(o) >= window.to
      read == [pc |-> "logs", command |-> procs[p].command, from |-> window.from,
               to |-> window.to, head |-> confirmedHead(o)]
  IN  /\ procs[p].pc = "head"
      /\ \/ /\ ~readerAccepted(o)
            /\ throwInReader(p, o)
         \/ /\ readerAccepted(o) /\ o.cursor /\ window.to < window.from
            /\ releaseCursorLock(o)
            /\ become(p, [pc |-> "guard", command |-> procs[p].command, deposits |-> <<>>])
         \/ /\ readerAccepted(o) /\ o.cursor /\ window.to >= window.from
            /\ become(p, read) /\ UNCHANGED cursorLock
         \/ /\ readerAccepted(o) /\ ~o.cursor /\ ~confirmed
            /\ throwInReader(p, o)
         \/ /\ readerAccepted(o) /\ ~o.cursor /\ confirmed
            /\ become(p, read) /\ UNCHANGED cursorLock
      /\ UNCHANGED <<chainVars, cursor, ledger, ledgerLock, ghosts>>

\* eth_getLogs, answered by an up-to-date node or by a lagging one.
GetLogs(p, view) ==
  LET r == procs[p]
  IN  /\ r.pc = "logs"
      /\ view = chain \/ (view = oldChain /\ forks > 0 /\ faults < MaxFaults)
      /\ lagged' = (lagged \/ view # chain)
      /\ become(p, [pc |-> "canonical", command |-> r.command, from |-> r.from, to |-> r.to,
                    head |-> r.head, next |-> 1,
                    logs |-> getLogs(view, optionsOf(p).lockbox, r.from, r.to)])
      /\ UNCHANGED <<chainVars, fileVars, died, lost, grants>>

\* Mutant: the log's own block hash is taken as canonical.
canonicalAlways(log) == TRUE

\* eth_getBlockByNumber answers with the hash of the log's block.
canonical(log) == log.block <= Len(chain) /\ blockHash(chain, log.block) = log.hash

\* One block of assertCanonicalBasePublicLogs; the answer is cached for the
\* block's other logs.
CheckCanonical(p) ==
  LET r == procs[p]
      o == optionsOf(p)
      rest == {i \in DOMAIN r.logs : i > r.next /\ r.logs[i].block # r.logs[r.next].block}
  IN  /\ r.pc = "canonical" /\ isBasePublicNetworkMode(o.mode) /\ r.next <= Len(r.logs)
      /\ IF canonical(r.logs[r.next])
         THEN /\ become(p, [r EXCEPT !.next = IF rest = {} THEN Len(r.logs) + 1 ELSE Min(rest)])
              /\ UNCHANGED cursorLock
         ELSE throwInReader(p, o)
      /\ UNCHANGED <<chainVars, cursor, ledger, ledgerLock, ghosts>>

saveBridgeCursorState(o, from, to, head, count) ==
  [stateId |-> bridgeCursorStateId(o, to, Max({0, head})), mode |-> o.mode,
   sourceChainId |-> expectedChainIdForMode(o), lockbox |-> o.lockbox,
   lastScannedBlock |-> to, lastConfirmedHead |-> Max({0, head}), lastFromBlock |-> from,
   lastToBlock |-> to, lastLogCount |-> count]


\* Every log must parse, from an approved lockbox and for a supported token;
\* then the cursor file is replaced, before any credit is made.
FinishRead(p) ==
  LET r == procs[p]
      o == optionsOf(p)
      deposits == [i \in DOMAIN r.logs |-> parseBridgeDepositLog(r.logs[i])]
      accepted == \A i \in DOMAIN r.logs :
                    /\ logParses(r.logs[i], o)
                    /\ approvedLockbox(deposits[i].sourceContract, o)
                    /\ supportedToken(deposits[i].token, o)
  IN  /\ r.pc = "canonical"
      /\ ~isBasePublicNetworkMode(o.mode) \/ r.next > Len(r.logs)
      /\ \/ /\ ~accepted
            /\ throwInReader(p, o)
            /\ UNCHANGED cursor
         \/ /\ accepted
            /\ cursor' = IF o.cursor
                         THEN saveBridgeCursorState(o, r.from, r.to, r.head, Len(deposits))
                         ELSE cursor
            /\ releaseCursorLock(o)
            /\ become(p, [pc |-> "guard", command |-> r.command, deposits |-> deposits])
      /\ UNCHANGED <<chainVars, ledger, ledgerLock, ghosts>>

\* The replay keys a run has taken from behind the cursor and not yet applied.
heldKeys(p) ==
  LET r == procs[p]
  IN  CASE r.pc \in {"idle", "lock", "head", "logs", "canonical", "write"} -> {}
        [] ~optionsOf(p).cursor -> {}
        [] r.pc = "guard" -> {bridgeReplayKey(r.deposits[i]) : i \in DOMAIN r.deposits}
        [] OTHER -> {r.observations[i].replayKey : i \in DOMAIN r.observations}

abandon(p) == lost' = lost \cup (heldKeys(p) \ DOMAIN ledger.applied)

\* The total cap, then observations and credits.  Without a state file the
\* credits are applied to an empty state that nothing keeps.
Guard(p) ==
  LET r == procs[p]
      o == optionsOf(p)
      observations == makeObservations(r.deposits, o)
      next == [command |-> r.command, observations |-> observations]
  IN  /\ r.pc = "guard"
      /\ \/ /\ ~enforcePilotDepositGuardrails(r.deposits, o)
            /\ abandon(p) /\ become(p, Idle)
         \/ /\ enforcePilotDepositGuardrails(r.deposits, o) /\ o.state
            /\ become(p, [pc |-> "lockLedger"] @@ next) /\ UNCHANGED lost
         \/ /\ enforcePilotDepositGuardrails(r.deposits, o) /\ ~o.state
            /\ become(p, [pc |-> "write", applied |->
                            applyCreditsExactlyOnce(makeCredits(observations, o),
                                                    emptyApplicationState)] @@ next)
            /\ UNCHANGED lost
      /\ UNCHANGED <<chainVars, fileVars, lagged, died, grants>>

\* Mutant: an existing lock file does not stop the open.
LoadStateUnlocked(p) ==
  LET r == procs[p]
  IN  /\ r.pc = "lockLedger"
      /\ ledgerLock' = p
      /\ become(p, [pc |-> "save", command |-> r.command, observations |-> r.observations,
                    applied |-> applyCreditsExactlyOnce(makeCredits(r.observations, optionsOf(p)),
                                                        ledger)])
      /\ UNCHANGED <<chainVars, cursor, cursorLock, ledger, ghosts>>

\* acquireApplicationStateLock, loadApplicationState and the loop over the
\* credits: nobody else touches the file once the lock file exists.
LoadState(p) ==
  LET r == procs[p]
  IN  /\ r.pc = "lockLedger" /\ ledgerLock = Free
      /\ ledgerLock' = p
      /\ become(p, [pc |-> "save", command |-> r.command, observations |-> r.observations,
                    applied |-> applyCreditsExactlyOnce(makeCredits(r.observations, optionsOf(p)),
                                                        ledger)])
      /\ UNCHANGED <<chainVars, cursor, cursorLock, ledger, ghosts>>

appliedKeys(applied) ==
  {applied.applications[i].replayKey :
     i \in {k \in DOMAIN applied.applications : applied.applications[k].status = "applied"}}

\* saveApplicationState: a temporary file renamed over the state file, only
\* when a credit was applied.
SaveState(p) ==
  LET r == procs[p]
      keys == appliedKeys(r.applied)
  IN  /\ r.pc = "save"
      /\ ledger' = IF keys = {} THEN ledger ELSE r.applied.state
      /\ grants' = grants (+) SetToBag(keys)
      /\ become(p, [r EXCEPT !.pc = "unlock"])
      /\ UNCHANGED <<chainVars, cursor, cursorLock, ledgerLock, lagged, died, lost>>

ReleaseLedgerLock(p) ==
  /\ procs[p].pc = "unlock"
  /\ ledgerLock' = Free
  /\ become(p, [procs[p] EXCEPT !.pc = "write"])
  /\ UNCHANGED <<chainVars, cursor, cursorLock, ledger, ghosts>>

\* The artifacts a run writes are those of its handoff.
WriteOutputs(p) ==
  /\ procs[p].pc = "write"
  /\ become(p, Idle)
  /\ UNCHANGED <<chainVars, fileVars, ghosts>>

-----------------------------------------------------------------------------
(* What goes wrong.                                                          *)

\* Ten seconds of retries against somebody else's lock file.
LockTimeout(p) ==
  /\ \/ procs[p].pc = "lock" /\ cursorLock # Free
     \/ procs[p].pc = "lockLedger" /\ ledgerLock # Free
  /\ abandon(p) /\ become(p, Idle)
  /\ UNCHANGED <<chainVars, fileVars, lagged, died, grants>>

\* An RPC call answers with an error: rpcCall throws.
RpcFailure(p) ==
  /\ procs[p].pc \in {"head", "logs", "canonical"}
  /\ throwInReader(p, optionsOf(p))
  /\ UNCHANGED <<chainVars, cursor, ledger, ledgerLock, ghosts>>

\* The process dies: no finally clause runs and its lock files stay.
Crash(p) ==
  /\ procs[p] # Idle /\ died' = TRUE
  /\ faults < MaxFaults
  /\ abandon(p) /\ become(p, Idle)
  /\ UNCHANGED <<chainVars, fileVars, lagged, grants>>

-----------------------------------------------------------------------------

cursorCommands == {c \in DOMAIN Commands : Commands[c].cursor}

Init ==
  /\ chain = <<>> /\ oldChain = <<>> /\ forks = 0
  /\ cursor = NoCursor /\ cursorLock = Free
  /\ ledger = emptyApplicationState /\ ledgerLock = Free
  /\ procs = [p \in Processes |-> Idle]
  /\ lagged = FALSE /\ died = FALSE /\ lost = {} /\ grants = EmptyBag

Step(p) ==
  \/ AcquireCursorLock(p) \/ ReadHead(p) \/ GetLogs(p, chain) \/ CheckCanonical(p)
  \/ FinishRead(p) \/ Guard(p) \/ LoadState(p) \/ SaveState(p)
  \/ ReleaseLedgerLock(p) \/ WriteOutputs(p)

Next ==
  \/ \E body \in Bodies : Mine(body)
  \/ \E bodies \in [1..ReorgDepth -> Bodies] : Reorg(bodies)
  \/ \E p \in Processes :
       \/ \E command \in CommandsOf[p] : Start(p, command)
       \/ Step(p)
       \/ GetLogs(p, oldChain)
       \/ LockTimeout(p) \/ RpcFailure(p) \/ Crash(p)

\* A started process runs on until it ends or dies: one that waits for a lock
\* file gets it or runs into its deadline.  Some operator keeps starting
\* a cursor loop.
Fairness ==
  /\ \A p \in Processes : WF_vars(Step(p) \/ LockTimeout(p))
  /\ WF_vars(\E p \in Processes, command \in cursorCommands : Start(p, command))

Spec == Init /\ [][Next]_vars /\ Fairness

-----------------------------------------------------------------------------
(* Properties.                                                               *)

\* A run's handoff, when its outputs are written.
handoffOf(p) ==
  bridgePipeline(optionsOf(p), procs[p].observations, procs[p].applied)

\* A credit counts once and for good: over all runs, concurrent, cut off and
\* repeated, no replay key is reported as applied twice, and every key reported
\* is in the state file with the application it names (applyCreditsExactlyOnce
\* and saveApplicationState under withApplicationStateLock).
AppliedOnceAndKept ==
  \A key \in BagToSet(grants) :
    /\ CopiesIn(key, grants) = 1
    /\ \E i \in DOMAIN ledger.applications :
         /\ ledger.applications[i].replayKey = key
         /\ ledger.applied[key] = ledger.applications[i].applicationId

onChain(a) ==
  \E h \in DOMAIN chain : \E k \in DOMAIN chain[h].events :
    LET e == Events[chain[h].events[k]]
    IN  /\ a.replayKey = <<e.chainId, e.lockbox, e.tx, k>>
        /\ a.depositId = e.depositId /\ a.amount = e.amount /\ a.recipient = e.recipient

\* With reorganisations no deeper than the confirmation depth, every applied
\* credit is of a canonical deposit, with its recipient and amount, and no
\* deposit is credited twice, even if its transaction moves to another block or
\* log position, which changes its replay key; a lagging node's logs are
\* stopped by the block-hash check.
DepositCreditedOnce ==
  \A i \in DOMAIN ledger.applications :
    /\ onChain(ledger.applications[i])
    /\ \A j \in DOMAIN ledger.applications :
         ledger.applications[i].depositId = ledger.applications[j].depositId => i = j

loopOptions == {Commands[c] : c \in cursorCommands}


\* Only a run that is allowed to moves the cursor, only forward, and only to
\* blocks with the confirmations asked for (readBridgeDepositLogsLocked).
CursorAdvancesConfirmed ==
  [][cursor' # cursor =>
       /\ cursor'.lastScannedBlock > cursor.lastScannedBlock
       /\ cursor # NoCursor => cursor'.lastFromBlock = cursor.lastScannedBlock + 1
       /\ \A o \in loopOptions : cursor'.lastScannedBlock <= Len(chain) - confirmationDepth(o)]_vars

\* A withdrawal intent exists only for a credit this very run applied, with the
\* deposit's account and amount; its release evidence passes
\* validateReleaseEvidenceMatchesWithdrawal and cites the credit's observation.
withdrawalsFollowCredits(p, handoff) ==
  \A i \in DOMAIN handoff.withdrawalIntents :
    LET intent == handoff.withdrawalIntents[i]
    IN  /\ \E k \in DOMAIN handoff.credits :
             LET credit == handoff.credits[k]
             IN  /\ credit.creditId = intent.creditId /\ credit.status = "applied"
                 /\ intent.amount = credit.amount /\ intent.account = credit.recipient
                 /\ credit.replayKey \in appliedKeys(procs[p].applied)
                 /\ handoff.releaseEvidences[i].evidenceHash[2] = credit.observationId
        /\ validateReleaseEvidenceMatchesWithdrawal(intent, handoff.releaseEvidences[i])

\* The evidence of an applying run says of each observation what happened to its
\* own credit, and "accepted once" only of the one that was applied.
evidenceMatchesCredit(handoff) ==
  \A i \in DOMAIN handoff.pilotEvidence :
    LET evidence == handoff.pilotEvidence[i]
    IN  /\ evidence.application.creditId = evidence.creditId
        /\ evidence.appliedExactlyOnce <=> handoff.credits[i].status = "applied"
        /\ evidence.decision = "already_applied_idempotent" <=>
             handoff.credits[i].rejectionReason = "already_applied_replay_key"

\* The run credited no more than its total cap (enforcePilotDepositGuardrails).
batchWithinCap(p) ==
  LET made == {k \in DOMAIN procs[p].applied.applications :
                 procs[p].applied.applications[k].status = "applied"}
  IN  isPilotMode(optionsOf(p).mode) =>
        FoldSet(LAMBDA k, sum : sum + procs[p].applied.applications[k].amount, 0, made)
          <= optionsOf(p).totalCap

\* A deposit the reader throws on (unsupported token, foreign tag) stands in
\* the way of every later window that contains it.
blocksCursor(o, upTo) ==
  \E h \in DOMAIN chain : h <= upTo /\ \E e \in Range(chain[h].events) :
    /\ Events[e].lockbox = o.lockbox
    /\ ~(supportedToken(Events[e].token, o) /\ Events[e].tag = "pilot")

\* Liveness: the cursor catches up with the confirmed head again and again,
\* unless RPC calls fail for ever, a process has died (its lock file may stay)
\* or a deposit the reader throws on is in the way.
CursorCatchesUp ==
  \/ []<>(died \/ \E o \in loopOptions : \/ cursor.lastScannedBlock >= confirmedHead(o)
                                         \/ o.from > confirmedHead(o)
                                         \/ blocksCursor(o, confirmedHead(o)))
  \/ []<><<\E p \in Processes : RpcFailure(p)>>_vars
=============================================================================
