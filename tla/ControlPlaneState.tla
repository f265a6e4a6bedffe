------------------------- MODULE ControlPlaneState -------------------------
(***************************************************************************)
(* How the control plane sees its files                                    *)
(* (services/control-plane/src/fixture-state.ts).  Every request loads the *)
(* whole state from files that other processes write: the local runtime,   *)
(* the indexer, the verifier, the bridge relayer and the wallet.  A file   *)
(* is missing, malformed (a partial write) or loaded; the loader records   *)
(* for every source what it found and what it used instead.                *)
(*                                                                         *)
(* A JSON object is a record or a function; a field that is absent, null   *)
(* or of another type is not in its DOMAIN, so the empty function stands   *)
(* for null and for {}.  An id is a sequence of strings; <<>> is no id.    *)
(***************************************************************************)
EXTENDS Integers, Sequences, FiniteSets, SequencesExt, TLC

CONSTANTS
    rank(_),        \* the place of an id in String.localeCompare's order
    builtIndexer,   \* indexFlowPulseReceipts over the committed fixture receipts
    builtArtifacts, \* the verifier's default artifact fixture
    builtReports(_),           \* verifyObservations(indexer.state.observations, ...)
    builtLaunchCore(_, _),     \* buildLaunchCore(indexer, verifier, ...)
    builtTaskScoutReplay(_),   \* replayTaskScoutFixture(fixture)
    mockObservation            \* makeObservation(the committed mock deposit)

Null == <<>>
NoId == <<>>

loaded(value) == [status |-> "loaded", value |-> value]
missing == [status |-> "missing"]
malformed == [status |-> "malformed"]

---------------------------------------------------------------------------
\* JSON helpers.

isNull(o) == DOMAIN o = {}
hasField(o, f) == f \in DOMAIN o
member(o, f) == IF hasField(o, f) THEN o[f] ELSE Null

\* stringValue(o.a) ?? stringValue(o.b) ?? ... ?? default.
first(o, aliases, default) ==
    LET given == {i \in DOMAIN aliases : hasField(o, aliases[i])}
    IN  IF given = {} THEN default ELSE o[aliases[CHOOSE i \in given : \A j \in given : i <= j]]

mapSeq(s, Op(_)) == [i \in DOMAIN s |-> Op(s[i])]

\* rows.sort by localeCompare of one field; JavaScript's sort is stable.
sortById(rows, f) == SortSeq(rows, LAMBDA a, b : rank(a[f]) < rank(b[f]))

\* Object.entries of a map the runtime serialised from a BTreeMap.
entries(m) ==
    mapSeq(SetToSortSeq(DOMAIN m, LAMBDA a, b : rank(a) < rank(b)),
           LAMBDA id : [id |-> id, object |-> m[id]])

\* rows.find(P): the first row that satisfies P, Null when there is none.
findRow(rows, P(_)) ==
    LET hits == SelectSeq(rows, P) IN IF hits = <<>> THEN Null ELSE Head(hits)

take(rows, n) == SubSeq(rows, 1, IF n < Len(rows) THEN n ELSE Len(rows))

stableId(schema, id) == <<schema>> \o id

---------------------------------------------------------------------------
\* Reading files.

readJsonFile(file) ==
    IF file.status = "malformed" THEN [status |-> "degraded"] ELSE file

\* An NDJSON file is a sequence of lines: rows, a last line a crash left without
\* its end, and lines that hold such a remnant joined to what followed it.
Torn == [torn |-> TRUE]
Garbled == [torn |-> FALSE]

readNdjson(lines) ==
    LET rows == SelectSeq(lines, LAMBDA line : ~ hasField(line, "torn"))
    IN  [rows   |-> rows,
         status |-> IF Len(rows) < Len(lines) THEN "degraded"
                    ELSE IF rows = <<>> THEN "missing" ELSE "loaded"]

\* A persisted file, or what is rebuilt in memory when it cannot be used.
orBuilt(file, built) ==
    CASE file.status = "loaded"    -> [value |-> file.value, status |-> "loaded"]
      [] file.status = "malformed" -> [value |-> built, status |-> "degraded"]
      [] OTHER                     -> [value |-> built, status |-> "recovered"]

loadArtifacts(files) == orBuilt(files.artifacts, builtArtifacts)

loadOrBuildIndexer(files) == orBuilt(files.indexer, builtIndexer)

loadOrBuildVerifier(files, indexer) ==
    orBuilt(files.verifier, builtReports(indexer.observations))

loadOrBuildLaunchCore(files, indexer, verifier) ==
    orBuilt(files.launchCore, builtLaunchCore(indexer, verifier))

\* The rebuild reads the Agent Bonds fixture without catching: loading fails as
\* a whole when neither the launch core nor that fixture can be read.
loadThrows(files) ==
    /\ files.launchCore.status # "loaded"
    /\ files.agentBondFixture.status # "loaded"

loadOptionalSource(file) ==
    LET read == readJsonFile(file)
    IN  [value  |-> IF read.status = "loaded" THEN read.value ELSE Null,
         status |-> read.status]

\* The runtime's state file, then the launch runtime's, then the first again (the
\* committed fixture and the runtime's own state share one key of the paths object).
loadLocalRuntimeSource(files) ==
    LET tried == << files.localRuntime, files.localRuntimeLaunch, files.localRuntime >>
        paths == << "localRuntimePath", "localRuntimeLaunchPath", "localRuntimePath" >>
        usable == { i \in 1..3 : tried[i].status = "loaded" }
        i == CHOOSE k \in usable : \A other \in usable : k <= other
        skipped(n) == \E k \in 1..n : tried[k].status = "malformed"
    IN  IF usable = {}
        THEN [value |-> Null, path |-> "localRuntimePath",
              status |-> IF skipped(3) THEN "degraded" ELSE "missing"]
        ELSE [value |-> tried[i].value, path |-> paths[i],
              status |-> IF skipped(i - 1) THEN "degraded"
                         ELSE IF paths[i] = "localRuntimePath" THEN "loaded" ELSE "recovered"]

loadTxIntake(files) == readNdjson(files.txIntake)

\* The relayer's observation file, or the committed mock deposit, and after it the
\* rows of the local intake file.
loadBridgeObservations(files) ==
    LET persisted == readJsonFile(files.bridgeObservation)
        fixture == readJsonFile(files.mockDeposit)
        base == IF persisted.status = "loaded" THEN << persisted.value >>
                ELSE IF fixture.status = "loaded" THEN << mockObservation >> ELSE <<>>
        intake == readNdjson(files.bridgeIntake)
    IN  [rows   |-> base \o intake.rows,
         intake |-> intake.status,
         status |-> CASE persisted.status = "loaded"   -> "loaded"
                      [] persisted.status = "degraded" -> "degraded"
                      [] fixture.status = "loaded"     -> "recovered"
                      [] OTHER                         -> fixture.status]

OptionalSources == { "localRuntimeIndexerHandoff", "localRuntimeVerifierHandoff",
    "localRuntimeControlPlaneHandoff", "explorerFallback", "txFixtures",
    "bridgeRuntimeHandoff", "walletTransferProof", "walletPublicMetadata",
    "agentBondReplayReport", "agentBondEconomicReport", "agentBondReadinessReport",
    "taskScoutFixture", "taskScoutReplayReport" }

\* loadControlPlaneState: one pass over the files, each read once; sources holds
\* the status recorded for every source.  The task scout fixture is loaded again as
\* an optional source, whose record replaces the one the launch core left.
loadControlPlaneState(files) ==
    LET artifacts == loadArtifacts(files)
        indexer == loadOrBuildIndexer(files)
        verifier == loadOrBuildVerifier(files, indexer.value)
        launchCore == loadOrBuildLaunchCore(files, indexer.value, verifier.value)
        runtime == loadLocalRuntimeSource(files)
        intake == loadTxIntake(files)
        bridge == loadBridgeObservations(files)
        optional == [name \in OptionalSources |-> loadOptionalSource(files[name])]
        scout == optional["taskScoutFixture"].value
        replay == optional["taskScoutReplayReport"].value
    IN  [name \in OptionalSources |-> optional[name].value]
        @@ [artifacts |-> artifacts.value, indexer |-> indexer.value,
            verifier |-> verifier.value, launchCore |-> launchCore.value,
            localRuntime |-> runtime.value, runtimePath |-> runtime.path,
            txIntake |-> intake.rows, bridgeObservations |-> bridge.rows,
            replayReport |-> IF ~isNull(replay) \/ isNull(scout) THEN replay
                             ELSE builtTaskScoutReplay(scout),
            sources |-> [name \in OptionalSources |-> optional[name].status]
                @@ [artifacts |-> artifacts.status, indexer |-> indexer.status,
                    verifier |-> verifier.status, launchCore |-> launchCore.status,
                    localRuntime |-> runtime.status, txIntake |-> intake.status,
                    bridgeObservation |-> bridge.status,
                    bridgeObservationIntake |-> bridge.intake]]
=============================================================================
