-------------------------- MODULE ControlPlaneServer --------------------------
(***************************************************************************)
(* The control plane at work: the HTTP server                               *)
(* (services/control-plane/src/server.ts), a local process that calls the   *)
(* submit methods (the wallet's command line), the runtime node, and the    *)
(* files they share.                                                        *)
(*                                                                          *)
(* The server runs one callback at a time.  A request is seen twice: when   *)
(* it arrives (the state is loaded, the guards are checked, a GET is        *)
(* answered) and when its body is complete.  A handler that writes files or *)
(* runs commands is a `job' of several steps: nothing else of the server    *)
(* runs in between, but the other processes do, and it may crash.           *)
(***************************************************************************)
EXTENDS ControlPlaneRpc, WalletVault, WalletRuntime

CONSTANTS
    Client,               \* callers of the server
    sourcesOf(_),         \* the files nobody writes here, by the condition they are in
    RATE_LIMIT_WINDOW_MS, \* the length of a rate limit window, in ticks of the clock
    InitialUnits,         \* what the balances of the state file add up to at the start
    MaxClock, MaxCrashes, MaxIdleBlocks

VARIABLES
    disk,     \* the files: runtime state, inbox, intake files, wallets, the others' condition
    clients,  \* each caller's request, where it stands, and its reply
    server,   \* the server process: up, its configuration, its buckets, its job, a command left over
    local,    \* the local process: what it is to submit and where it stands
    node,     \* the runtime node: its state in memory
    clock,
    history   \* what the properties remember

serverVars == <<disk, clients, server, local, node, clock, history>>

---------------------------------------------------------------------------
\* Files.

\* The sources loadControlPlaneState reads.
filesOf(d) ==
    [sourcesOf(d.others) EXCEPT !.localRuntime = IF isNull(d.rt) THEN missing ELSE loaded(d.rt),
                      !.txIntake = d.txIntake, !.bridgeIntake = d.bridgeIntake,
                      !.walletPublicMetadata =
                        LET file == d.wallets["operator"].metadata
                        IN  IF isNull(file) THEN missing
                            ELSE IF hasField(file, "torn") THEN malformed ELSE loaded(file)]

\* The context of a handler: the state as it was loaded, the intake files as they are.
contextOf(then, now) ==
    atHandler(loadControlPlaneState(filesOf(then)), filesOf(now))
    @@ [rpcEnv |-> Null, env |-> Null]

NoWallet == [vault |-> Null, metadata |-> Null]

---------------------------------------------------------------------------
\* The guards of a request.

applyCorsHeaders(env, request) ==
    \/ env.allowedOrigins = {} \/ "*" \in env.allowedOrigins
    \/ ~ hasField(request, "origin")
    \/ request.origin \in env.allowedOrigins

isJsonContentType(request) == request.contentType = "json"

\* The window and the count a request leaves its caller with, or nothing when the
\* caller has used up its window.
admitAtLimit(bucket, limit, now) ==
    IF isNull(bucket) \/ now - bucket.windowStartedAtMs >= RATE_LIMIT_WINDOW_MS
    THEN << [windowStartedAtMs |-> now, count |-> 1] >>
    ELSE IF bucket.count > limit THEN <<>>
    ELSE << [bucket EXCEPT !.count = @ + 1] >>

applyRateLimit(bucket, limit, now) ==
    IF isNull(bucket) \/ now - bucket.windowStartedAtMs >= RATE_LIMIT_WINDOW_MS
    THEN << [windowStartedAtMs |-> now, count |-> 1] >>
    ELSE IF bucket.count >= limit THEN <<>>
    ELSE << [bucket EXCEPT !.count = @ + 1] >>

\* The last hop a proxy added, else the socket's address.
rateLimitClientKey(request) ==
    LET chain == first(request, <<"forwardedFor">>, <<>>)
    IN  IF chain # <<>> THEN Last(chain) ELSE request.remoteAddress

\* The tester gateway.  tokenHash and maxSendUnits are sequences of at most one valid
\* value; the cap is one unit when it is not set.
testerWriteConfigured(env) == env.testerEnabled /\ env.tokenHash # <<>> /\ env.maxSendUnits # <<>>

requireTesterWriteAccess(env, request) ==
    CASE ~ testerWriteConfigured(env)      -> 403
      [] ~ hasField(request, "bearer")     -> 401
      [] <<request.bearer>> # env.tokenHash -> 403
      [] OTHER                             -> 200

\* A tester's payload with the cap enforced and a block asked for; empty on a throw.
enforceTesterSendCap(env, payload) ==
    LET amount == first(payload, <<"amountUnits", "amount_units">>, NotAnAmount)
    IN  IF amount <= 0 \/ amount > env.maxSendUnits[1] THEN <<>>
        ELSE << [amountUnits |-> amount, applyBlock |-> TRUE,
                 createRecipient |-> hasField(payload, "createRecipient") /\ payload.createRecipient]
                @@ payload >>

\* A tester's faucet reason names the time when none is given.
enforceTesterFaucetCap(env, payload, now) ==
    LET capped == enforceTesterSendCap(env, payload)
        account == first(payload, <<"accountId", "toAccountId", "walletAddress", "recipient">>, NoId)
    IN  IF capped = <<>> \/ account = NoId THEN <<>>
        ELSE << [accountId |-> account] @@ capped[1] @@ [reason |-> <<"tester-faucet", now>>] >>

TesterRoutes == {"/tester/wallets/create", "/tester/wallets/send", "/tester/faucet"}
BodyRoutes == TesterRoutes \cup {"/wallets/create", "/wallets/send", "/rpc"}

\* What a request is answered with as soon as it arrives; empty when its body is read.
\* The reply of a route that runs a method keeps the files the method saw: bodyOf is
\* what it says.
arrivalReply(env, request, d) ==
    LET path == request.path IN
    CASE request.verb = "OPTIONS" -> << [status |-> 204] >>
      [] request.verb = "GET" /\ path \in DOMAIN GetRoutes \cup {"/explorer/search"} ->
           << [status |-> 200, seen |-> d, known |-> history.accepted] >>
      [] request.verb = "GET" /\ path = "/wallets/operator" ->
           << [status |-> 200, exists |-> filesOf(d).walletPublicMetadata.status = "loaded"] >>
      [] request.verb = "GET" /\ path = "/tester/status" ->
           << [status |-> 200, configured |-> testerWriteConfigured(env)] >>
      [] request.verb = "POST" /\ path = "/bridge/observations" ->
           << [status |-> 200, body |-> rejected("method.not_found")] >>
      [] request.verb = "POST" /\ path \in BodyRoutes ->
           IF ~ isJsonContentType(request) THEN << [status |-> 415] >>
           ELSE IF path \in TesterRoutes /\ requireTesterWriteAccess(env, request) # 200
           THEN << [status |-> requireTesterWriteAccess(env, request)] >> ELSE <<>>
      [] OTHER -> << [status |-> 404] >>

---------------------------------------------------------------------------
\* A request arrives.

awaiting(c) == clients[c].phase = "body"

\* The server has nothing on its stack.
free == server.up /\ isNull(server.job)

withReply(c, reply) == [clients EXCEPT ![c].phase = "answered", ![c].reply = reply]

\* Whatever the process was doing for its callers is gone with it.
droppedClients ==
    [c \in Client |-> IF \/ awaiting(c) \/ (~ isNull(server.job) /\ server.job.client = c)
                      THEN [clients[c] EXCEPT !.phase = "lost"] ELSE clients[c]]

ServerDown == [server EXCEPT !.up = FALSE, !.job = Null, !.buckets = <<>>]

bucketOf(key) == IF key \in DOMAIN server.buckets THEN server.buckets[key] ELSE Null

\* Loading the state happens before anything can be answered, and outside any handler
\* of errors: when it throws, the exception ends the process.
ArriveUnloadable(c) ==
    /\ free /\ clients[c].phase = "new"
    /\ loadThrows(filesOf(disk))
    /\ server' = ServerDown
    /\ clients' = [droppedClients EXCEPT ![c].phase = "lost"]
    /\ history' = [history EXCEPT !.admitted = <<>>]
    /\ UNCHANGED <<disk, local, node, clock>>

Arrive(c) ==
    LET request == clients[c].request
        env == server.env
        key == rateLimitClientKey(request)
        bucket == IF env.rateLimit = 0 THEN << Null >>
                  ELSE applyRateLimit(bucketOf(key), env.rateLimit, clock)
        admitted == applyCorsHeaders(env, request) /\ bucket # <<>>
        reply == arrivalReply(env, request, disk)
    IN  /\ free /\ clients[c].phase = "new"
        /\ ~ loadThrows(filesOf(disk))
        /\ clients' =
             CASE ~ applyCorsHeaders(env, request) -> withReply(c, [status |-> 403])
               [] applyCorsHeaders(env, request) /\ bucket = <<>> -> withReply(c, [status |-> 429])
               [] admitted /\ reply # <<>> -> [withReply(c, reply[1]) EXCEPT ![c].loaded = disk]
               [] OTHER -> [clients EXCEPT ![c].phase = "body", ![c].loaded = disk]
        /\ server' = IF admitted /\ env.rateLimit # 0
                     THEN [server EXCEPT !.buckets = (key :> bucket[1]) @@ @] ELSE server
        /\ history' = IF admitted /\ env.rateLimit # 0
                      THEN [history EXCEPT !.admitted = Append(@, [key |-> key, time |-> clock])]
                      ELSE history
        /\ UNCHANGED <<disk, local, node, clock>>

---------------------------------------------------------------------------
\* The body of a request is complete.

readable(c) == clients[c].request.body = "json"

\* A body that is too large, or is not JSON.
BodyRefused(c) ==
    /\ free /\ awaiting(c) /\ ~ readable(c)
    /\ clients' = withReply(c, [status |-> IF clients[c].request.body = "oversize" THEN 413 ELSE 400])
    /\ UNCHANGED <<disk, server, local, node, clock, history>>

\* The rows the methods of a payload append to the intake files.
intakeCalls(payload) ==
    SelectSeq(IF payload.kind = "array" THEN payload.entries ELSE <<payload>>,
              LAMBDA r : /\ wellFormed(r) /\ isPublicRpcMethod(r.method)
                         /\ r.method \in LocalFileIntake)

IntakeFile == [transaction_submit |-> "txIntake", bridge_observation_submit |-> "bridgeIntake"]

afterCalls(d, calls, context) ==
    LET append(file, r) ==
          [file EXCEPT ![IntakeFile[r.method]] =
             FoldLeft(appendNdjson, @, intakeMethod(r.method, member(r, "params"), context).append)]
    IN  FoldLeft(append, d, calls)

\* Whether a payload gets a response: it may hold notifications and nested batches only.
expectsResponse(payload) ==
    LET one(r) == r.kind # "array" /\ (hasField(r, "id") \/ ~ wellFormed(r))
    IN  IF payload.kind = "array" THEN \E i \in DOMAIN payload.entries : one(payload.entries[i])
        ELSE one(payload)

BodyRpc(c) ==
    LET payload == clients[c].request.payload
        context == contextOf(clients[c].loaded, disk)
        status == validateJsonRpcHttpPayload(payload)
    IN  /\ free /\ awaiting(c) /\ readable(c)
        /\ clients[c].request.path = "/rpc"
        /\ clients' = withReply(c,
             CASE status # 200 -> [status |-> status]
               [] status = 200 /\ ~ expectsResponse(payload) -> [status |-> 204]
               [] OTHER -> [status |-> 200, seen |-> disk, known |-> history.accepted])
        /\ disk' = IF status = 200 THEN afterCalls(disk, intakeCalls(payload), context) ELSE disk
        /\ UNCHANGED <<server, local, node, clock, history>>

\* Wallet creation.
labelSlug(payload) == first(payload, <<"label">>, "flowmemory-operator")

isolatedCreate(request) ==
    \/ request.path = "/tester/wallets/create"
    \/ \E f \in {"isolated", "localTester"} \cap DOMAIN request.payload : request.payload[f]

walletBase(request) ==
    IF isolatedCreate(request) THEN labelSlug(request.payload) ELSE "operator"

replaces(payload) == hasField(payload, "replace") /\ payload.replace

exists(file) == ~ isNull(file)

keepsExisting(d, request) ==
    LET wallet == d.wallets[walletBase(request)] IN
    ~ replaces(request.payload) /\ exists(wallet.vault) /\ exists(wallet.metadata)

\* The reply for a wallet that is left unchanged: an isolated one is read again, the
\* operator's is shown as it was when the request arrived.
existingWalletReply(c) ==
    LET request == clients[c].request
        base == walletBase(request)
        now == disk.wallets[base].metadata
        then == clients[c].loaded.wallets[base].metadata
        shown == IF isolatedCreate(request) THEN now
                 ELSE IF hasField(then, "torn") THEN Null ELSE then
    IN  IF hasField(shown, "torn") THEN [status |-> 400]
        ELSE [status |-> 200, created |-> FALSE, shown |-> shown]

BodyCreate(c) ==
    LET request == clients[c].request
        key == <<"wallet", history.keys>>
        vault == createEncryptedTestVault(key, key, "operator", DEFAULT_LOCAL_WALLET_CHAIN_ID)
        accepted == hasField(request.payload, "password")
    IN  /\ free /\ awaiting(c) /\ readable(c)
        /\ request.path \in {"/wallets/create", "/tester/wallets/create"}
        /\ IF accepted /\ ~ keepsExisting(disk, request)
           THEN /\ server' = [server EXCEPT !.job =
                     [client |-> c, kind |-> "create", stage |-> "first", base |-> walletBase(request),
                      vault |-> vault, over |-> exists(disk.wallets[walletBase(request)].metadata)]]
                /\ clients' = [clients EXCEPT ![c].phase = "running"]
                /\ history' = [history EXCEPT !.keys = @ + 1]
           ELSE /\ clients' = withReply(c, IF accepted THEN existingWalletReply(c) ELSE [status |-> 400])
                /\ UNCHANGED <<server, history>>
        /\ UNCHANGED <<disk, local, node, clock>>

walletWrite(job) ==
    IF job.stage = "first" THEN [file |-> "vault", contents |-> job.vault]
    ELSE [file |-> "metadata", contents |-> exportLocalWalletPublicMetadata(job.vault)]

JobWritesWallet ==
    LET job == server.job
        write == walletWrite(job)
    IN  /\ server.up /\ ~ isNull(job) /\ job.kind = "create"
        /\ disk' = [disk EXCEPT !.wallets[job.base][write.file] = write.contents]
        /\ IF job.stage = "first"
           THEN /\ server' = [server EXCEPT !.job.stage = "second"]
                /\ UNCHANGED <<clients, history>>
           ELSE /\ server' = [server EXCEPT !.job = Null]
                /\ clients' = withReply(job.client, [status |-> 200, created |-> TRUE])
                /\ history' = [history EXCEPT !.unfinished = @ \ {job.base}]
        /\ UNCHANGED <<local, node, clock>>

---------------------------------------------------------------------------
\* Sends and faucet drips.

RuntimeRoutes == {"/wallets/send", "/tester/wallets/send", "/tester/faucet"}

\* The work a request comes to, once its payload and the runtime's state are checked.
requestedWork(env, request, rt, now) ==
    LET capped == CASE request.path = "/wallets/send" -> << request.payload >>
                    [] request.path = "/tester/wallets/send" ->
                         enforceTesterSendCap(env, request.payload)
                    [] OTHER -> enforceTesterFaucetCap(env, request.payload, now)
    IN  IF capped = <<>> \/ isNull(rt) THEN <<>>
        ELSE IF request.path = "/tester/faucet" THEN localFaucetChecked(capped[1])
        ELSE walletSendChecked(rt, capped[1])

\* A transfer that fits: the recipient's balance does not overflow.
fits(rt, tx) ==
    tx.type = "TransferLocalTestUnits" =>
      \/ tx.fromAccountId = tx.toAccountId \/ ~ hasBalance(rt, tx.toAccountId)
      \/ unitsOf(rt, tx.toAccountId) + tx.amountUnits <= U64_MAX

startWork(c, work) ==
    IF work = <<>>
    THEN clients' = withReply(c, [status |-> 400]) /\ UNCHANGED server
    ELSE /\ clients' = [clients EXCEPT ![c].phase = "running"]
         /\ server' = [server EXCEPT !.job =
              [client |-> c, kind |-> work[1].kind, work |-> work[1], stage |-> "submit",
               loaded |-> Null, expected |-> disk.rt, clean |-> disk.rt.pendingTxs = <<>>,
               fits |-> \A tx \in Range(work[1].txs) : fits(disk.rt, tx)]]

BodyRuntime(c) ==
    /\ free /\ awaiting(c) /\ readable(c)
    /\ clients[c].request.path \in RuntimeRoutes
    /\ startWork(c, requestedWork(server.env, clients[c].request, disk.rt, clock))
    /\ UNCHANGED <<disk, local, node, clock, history>>

runs(stage) ==
    /\ server.up /\ ~ isNull(server.job)
    /\ server.job.kind \in {"send", "faucet"} /\ server.job.stage = stage

SaveStage == [submit |-> "submit-save", block |-> "block-save"]

\* A command reads the state file, works on what it read and replaces the file.
load_or_genesis(job, rt) == rt

\* The server's own command starts: submit-tx --direct, or run --blocks 1.
JobLoads(stage) ==
    /\ runs(stage) /\ server.job.work.direct
    /\ server' = [server EXCEPT !.job.loaded = load_or_genesis(server.job, disk.rt),
                                !.job.stage = SaveStage[stage],
                                !.job.clean = @ /\ disk.rt = server.job.expected]
    /\ UNCHANGED <<disk, clients, local, node, clock, history>>

commandResult(job) ==
    IF job.stage = "submit-save" THEN queue_txs_direct(job.loaded, job.work.txs)
    ELSE build_block(job.loaded)

\* A save over a file that has changed since it was read loses the change.
lostUpdate(read) == history.overwritten \/ read # disk.rt

JobSaves(stage) ==
    LET job == server.job
        result == commandResult(job)
    IN  /\ runs(SaveStage[stage])
        /\ disk' = [disk EXCEPT !.rt = result]
        /\ server' = [server EXCEPT !.job.stage = IF stage = "submit" THEN "block" ELSE "answer",
                                    !.job.expected = result]
        /\ history' = [history EXCEPT !.overwritten = lostUpdate(job.loaded)]
        /\ UNCHANGED <<clients, local, node, clock>>

\* Without a block the transactions are left to the node.
JobQueues ==
    /\ runs("submit") /\ ~ server.job.work.direct
    /\ disk' = [disk EXCEPT !.inbox = write_txs_to_inbox(@, server.job.work.txs)]
    /\ server' = [server EXCEPT !.job.stage = "answer"]
    /\ history' = [history EXCEPT !.queued = @ \cup {server.job.work.txs}]
    /\ UNCHANGED <<clients, local, node, clock>>

\* A job whose error is not turned into a reply.
JobFailsSilently ==
    /\ \E stage \in {"submit", "block"} : runs(stage)
    /\ clients' = [clients EXCEPT ![server.job.client].phase = "none"]
    /\ server' = [server EXCEPT !.job = Null]
    /\ UNCHANGED <<disk, local, node, clock, history>>

\* A command that fails ends the job with an error, whatever earlier ones have done.
JobFails ==
    /\ \E stage \in {"submit", "block"} : runs(stage)
    /\ clients' = withReply(server.job.client, [status |-> 400])
    /\ server' = [server EXCEPT !.job = Null]
    /\ UNCHANGED <<disk, local, node, clock, history>>

JobAnswers ==
    /\ runs("answer")
    /\ clients' = withReply(server.job.client,
                            [status |-> 200, result |-> runtimeAnswer(server.job.work, disk.rt)])
    /\ server' = [server EXCEPT !.job = Null]
    /\ UNCHANGED <<disk, local, node, clock, history>>

JobStep ==
    \/ JobWritesWallet \/ JobQueues \/ JobFails \/ JobAnswers
    \/ \E stage \in {"submit", "block"} : JobLoads(stage) \/ JobSaves(stage)

---------------------------------------------------------------------------
\* The server stops and starts.

\* What a crash leaves of the file it is writing: nothing new, or one that cannot be parsed.
cutShort(d, job) ==
    {d} \cup IF isNull(job) \/ job.kind # "create" THEN {}
             ELSE {[d EXCEPT !.wallets[job.base][walletWrite(job).file] = Torn]}

\* A command is a process of its own and may outlive the server that started it.
orphans(job) ==
    {Null} \cup IF isNull(job) \/ job.stage \notin {"submit-save", "block-save"} THEN {} ELSE {job}

Crash ==
    /\ server.up /\ history.crashes < MaxCrashes
    /\ disk' \in cutShort(disk, server.job)
    /\ \E orphan \in orphans(server.job) : server' = [ServerDown EXCEPT !.orphan = orphan]
    /\ clients' = droppedClients
    /\ history' = [history EXCEPT
         !.crashes = @ + 1, !.admitted = <<>>,
         !.unfinished = IF ~ isNull(server.job) /\ server.job.kind = "create" /\ server.job.over
                        THEN @ \cup {server.job.base} ELSE @]
    /\ UNCHANGED <<local, node, clock>>

OrphanSaves ==
    /\ ~ isNull(server.orphan)
    /\ disk' = [disk EXCEPT !.rt = commandResult(server.orphan)]
    /\ server' = [server EXCEPT !.orphan = Null]
    /\ history' = [history EXCEPT !.overwritten = lostUpdate(server.orphan.loaded)]
    /\ UNCHANGED <<clients, local, node, clock>>

Restart ==
    /\ ~ server.up
    /\ server' = [server EXCEPT !.up = TRUE]
    /\ UNCHANGED <<disk, clients, local, node, clock, history>>

Tick ==
    /\ clock < MaxClock
    /\ clock' = clock + 1
    /\ UNCHANGED <<disk, clients, server, local, node, history>>

---------------------------------------------------------------------------
\* The local process: transaction_submit and bridge_observation_submit.  One call at
\* a time: the operator waits for one command to end before starting the next.

call == Head(local.todo)

ended(outcome) ==
    [local EXCEPT !.todo = Tail(@), !.stage = "idle", !.row = Null, !.submit = <<>>,
                  !.loaded = Null, !.done = Append(@, outcome)]

\* The transactions answered as accepted and not appended behind a torn line.
acceptedWith(row) ==
    IF row \in history.hidden THEN history.accepted
    ELSE history.accepted \cup {row[f] : f \in {"txId"} \cap DOMAIN row}

\* The state is loaded and the submission checked.
toAppend(result) ==
    IF result.append = <<>> THEN ended("rejected")
    ELSE [local EXCEPT !.stage = "append", !.row = result.append[1], !.submit = result.submit,
                       !.outcome = IF answered(result) THEN "accepted" ELSE "rejected"]

LocalCall ==
    /\ local.stage = "idle" /\ local.todo # <<>>
    /\ ~ loadThrows(filesOf(disk))
    /\ local' = toAppend(intakeMethod(call.method, call.params, contextOf(disk, disk)))
    /\ UNCHANGED <<disk, clients, server, node, clock, history>>

\* The row is appended, behind whatever a crash left at the end of the file.
LocalAppend ==
    LET file == IntakeFile[call.method]
        hidden == disk[file] # <<>> /\ Last(disk[file]) = Torn
        last == local.submit = <<>>
    IN  /\ local.stage = "append"
        /\ disk' = [disk EXCEPT ![file] = appendNdjson(@, local.row)]
        /\ local' = IF last THEN ended(local.outcome) ELSE [local EXCEPT !.stage = "forward"]
        /\ history' = [history EXCEPT
             !.hidden = IF hidden THEN @ \cup {local.row} ELSE @,
             !.accepted = IF last /\ local.outcome = "accepted" /\ ~ hidden THEN acceptedWith(local.row)
                          ELSE @]
        /\ UNCHANGED <<clients, server, node, clock>>

\* submitEnvelopeToRuntime: a document that is no transaction of the runtime is refused
\* by the command, after the row was appended.
LocalForward ==
    LET tx == local.submit[1].tx
        direct == local.submit[1].mode = "direct"
        known == hasField(tx, "type") /\ tx.type \in RuntimeTransactionTypes
    IN  /\ local.stage = "forward"
        /\ IF known /\ direct
           THEN /\ local' = [local EXCEPT !.stage = "forward-save", !.loaded = disk.rt]
                /\ UNCHANGED <<disk, history>>
           ELSE IF known
           THEN /\ disk' = [disk EXCEPT !.inbox = write_txs_to_inbox(@, <<tx>>)]
                /\ local' = ended("accepted")
                /\ history' = [history EXCEPT !.queued = @ \cup {<<tx>>},
                                              !.accepted = acceptedWith(local.row)]
           ELSE /\ local' = ended("rejected")
                /\ UNCHANGED <<disk, history>>
        /\ UNCHANGED <<clients, server, node, clock>>

LocalForwardSave ==
    /\ local.stage = "forward-save"
    /\ disk' = [disk EXCEPT !.rt = queue_txs_direct(local.loaded, <<local.submit[1].tx>>)]
    /\ local' = ended("accepted")
    /\ history' = [history EXCEPT !.overwritten = lostUpdate(local.loaded), !.forwarded = TRUE,
                                  !.accepted = acceptedWith(local.row)]
    /\ UNCHANGED <<clients, server, node, clock>>

tornAfter(lines) == IF lines # <<>> /\ Last(lines) = Torn THEN lines ELSE Append(lines, Torn)

\* The process dies, perhaps halfway through the line it appends; the operator tries
\* the same call again.
LocalCrash ==
    LET file == IntakeFile[call.method] IN
    /\ local.stage # "idle" /\ history.crashes < MaxCrashes
    /\ disk' \in {disk} \cup IF local.stage = "append"
                           THEN {[disk EXCEPT ![file] = tornAfter(@)]} ELSE {}
    /\ local' = [local EXCEPT !.stage = "idle", !.row = Null, !.submit = <<>>, !.loaded = Null]
    /\ history' = [history EXCEPT !.crashes = @ + 1]
    /\ UNCHANGED <<clients, server, node, clock>>

---------------------------------------------------------------------------
\* The runtime node: it reads the state file once, and from then on replaces it with
\* what it has in memory.

NodeStart ==
    /\ node.phase = "off" /\ ~ isNull(disk.rt)
    /\ node' = [node EXCEPT !.phase = "idle", !.memory = disk.rt, !.saved = disk.rt, !.ran = TRUE]
    /\ UNCHANGED <<disk, clients, server, local, clock, history>>

\* The files of the inbox are moved away before the block with their transactions is
\* saved.  An empty inbox is drained too; such blocks are bounded.
NodeDrain ==
    /\ node.phase = "idle"
    /\ disk.inbox # {} \/ node.memory.pendingTxs # <<>> \/ node.idle < MaxIdleBlocks
    /\ \E order \in SetToSeqs(disk.inbox) :
            node' = [node EXCEPT !.phase = "drained", !.memory = drain_inbox(@, order),
                                 !.idle = IF disk.inbox = {} /\ @ < MaxIdleBlocks THEN @ + 1 ELSE @]
    /\ disk' = [disk EXCEPT !.inbox = {}]
    /\ UNCHANGED <<clients, server, local, clock, history>>

NodeBuild ==
    LET next == build_block(node.memory) IN
    /\ node.phase = "drained"
    /\ node' = [node EXCEPT !.phase = "idle", !.memory = next, !.saved = next]
    /\ disk' = [disk EXCEPT !.rt = next]
    /\ history' = [history EXCEPT !.overwritten = lostUpdate(node.saved)]
    /\ UNCHANGED <<clients, server, local, clock>>

\* The node stops between two blocks, or dies with the transactions it has drained.
NodeExit ==
    /\ node.phase \in {"idle", "drained"} /\ history.crashes < MaxCrashes
    /\ node' = [node EXCEPT !.phase = "off", !.memory = Null, !.saved = Null]
    /\ history' = [history EXCEPT !.crashes = @ + 1,
                     !.drainLost = @ \/ node.phase = "drained"]
    /\ UNCHANGED <<disk, clients, server, local, clock>>

---------------------------------------------------------------------------
ServerNext ==
    \/ \E c \in Client : \/ ArriveUnloadable(c) \/ Arrive(c) \/ BodyRefused(c) \/ BodyRpc(c)
                         \/ BodyCreate(c) \/ BodyRuntime(c)
    \/ JobStep \/ Crash \/ OrphanSaves \/ Restart \/ Tick

LocalNext == LocalCall \/ LocalAppend \/ LocalForward \/ LocalForwardSave \/ LocalCrash

NodeNext == NodeStart \/ NodeDrain \/ NodeBuild \/ NodeExit

ControlPlaneNext == ServerNext \/ LocalNext \/ NodeNext

BodyStep(c) == BodyRefused(c) \/ BodyRpc(c) \/ BodyCreate(c) \/ BodyRuntime(c)

\* When these steps can be taken.
bodyReady(c) == free /\ awaiting(c)
jobReady == server.up /\ ~ isNull(server.job)

\* Weak fairness, with the enabling conditions written out: the event loop runs what it
\* can, a caller that has announced a body sends it, and a command ends.
ControlPlaneFairness ==
    /\ \A c \in Client : []<>(~ bodyReady(c)) \/ []<><<BodyStep(c)>>_serverVars
    /\ []<>(~ jobReady) \/ []<><<JobStep>>_serverVars

---------------------------------------------------------------------------
\* Properties.

job == server.job
busy(kinds) == ~ isNull(job) /\ job.kind \in kinds

rowsOf(file) == readNdjson(disk[file]).rows

\* transaction_submit: no two rows of the transaction intake file carry the same replay
\* key or the same transaction id, over retries of a call that crashed after its append.
acceptedOnce ==
    LET rows == rowsOf("txIntake") IN
    \A i, j \in DOMAIN rows : i # j =>
      /\ rows[i].cryptoReplayKey # rows[j].cryptoReplayKey
      /\ rows[i].txId # rows[j].txId

\* bridge_observation_submit: the bridge intake file holds each source event once.
bridgeIntakeOnce ==
    LET rows == rowsOf("bridgeIntake") IN
    \A i, j \in DOMAIN rows : i # j => rows[i].replayKey # rows[j].replayKey

\* appendNdjson: a transaction that was answered as accepted stays readable in the intake
\* file, whatever is appended, torn or retried after it.
acceptedIsReadable ==
    history.accepted \subseteq {row.txId : row \in Range(rowsOf("txIntake"))}

\* The body of the reply to a request that ran a method.
bodyOf(c) ==
    LET request == clients[c].request
        context == contextOf(clients[c].loaded, clients[c].reply.seen)
    IN  IF request.verb = "GET" THEN getRoute(request.path, request.query, context)
        ELSE dispatchPublicJsonRpc(request.payload, context)

listsMempool(c) ==
    /\ hasField(clients[c].reply, "seen") /\ clients[c].request.path = "/rpc"
    /\ hasField(clients[c].request.payload, "method")
    /\ clients[c].request.payload.method = "mempool_list"

\* mempool_list shows every transaction accepted before its handler ran, even one accepted
\* after the request had arrived and its state was loaded: the intake file is read again.
acceptedIsListed ==
    \A c \in Client : listsMempool(c) =>
         clients[c].reply.known \subseteq {row.transactionId : row \in Range(bodyOf(c).result)}

totalUnits(rt) ==
    SumFunction([a \in DOMAIN rt.localTestUnitBalances |-> rt.localTestUnitBalances[a].units])

drippedUnits(rt) == SumFunction([id \in DOMAIN rt.faucetRecords |-> rt.faucetRecords[id].amountUnits])

loadedByServer ==
    {j.loaded : j \in {j \in {job, server.orphan} : ~ isNull(j) /\ hasField(j, "loaded")}}


\* executeWalletSend and executeLocalFaucet answer "applied" without looking at the
\* receipt.  The answer is true when nothing was pending, no other process has written
\* the state file since the checks, and the recipient's balance had room.
appliedIsRecorded ==
    (/\ busy({"send", "faucet"}) /\ job.stage = "answer" /\ job.work.direct
     /\ job.clean /\ job.fits /\ disk.rt = job.expected) =>
       job.work.id \in DOMAIN disk.rt.balanceTransfers \cup DOMAIN disk.rt.faucetRecords

\* The commands of a send read the state file anew, so an update of the file is lost only
\* when a node or a forwarding process writes it beside the server, or when a command of a
\* crashed server is still running.
updatesLostBesideOthers ==
    history.overwritten => node.ran \/ history.forwarded \/ history.crashes > 0

receiptIds(rt) == UNION {{r.txId : r \in Range(b.receipts)} : b \in Range(rt.blocks)}

settling(rt) == receiptIds(rt) \cup {p.txId : p \in Range(rt.pendingTxs)}

\* write_txs_to_inbox, drain_inbox: a queued batch waits in the inbox, or the node has it
\* in memory or in a block, unless the node died between draining and saving or its
\* blocks were overwritten.
queuedSendsSettle ==
    \A batch \in history.queued :
      \/ batch \in disk.inbox \/ history.drainLost \/ history.overwritten
      \/ {envelope_tx(tx).txId : tx \in Range(batch)}
           \subseteq settling(IF isNull(node.memory) THEN disk.rt ELSE node.memory)

whole(file) == ~ isNull(file) /\ ~ hasField(file, "torn")

\* createLocalWallet: the public metadata on disk is that of the vault beside it, at every
\* moment a reader or a crash may see, except while an existing wallet is being replaced
\* or after a crash in the middle of that.
walletFilesAgree ==
    \A base \in DOMAIN disk.wallets :
      LET wallet == disk.wallets[base]
          replacing == busy({"create"}) /\ job.base = base /\ job.over
      IN  whole(wallet.metadata) /\ ~ replacing /\ base \notin history.unfinished =>
            /\ whole(wallet.vault)
            /\ wallet.metadata = exportLocalWalletPublicMetadata(wallet.vault)

admittedIn(key, from, to) ==
    Cardinality({i \in DOMAIN history.admitted :
      /\ history.admitted[i].key = key
      /\ history.admitted[i].time >= from /\ history.admitted[i].time < to})

\* applyRateLimit: since the server started, a caller has at most the limit of requests
\* admitted in the window it is in, which its bucket counts, and at most twice the limit
\* in any stretch as long as a window.
rateLimitHolds ==
    server.env.rateLimit # 0 =>
      \A key \in DOMAIN server.buckets :
        LET bucket == server.buckets[key] IN
        /\ bucket.count <= server.env.rateLimit
        /\ bucket.count = admittedIn(key, bucket.windowStartedAtMs, clock + 1)
        /\ \A t \in 0..MaxClock :
             admittedIn(key, t, t + RATE_LIMIT_WINDOW_MS) <= 2 * server.env.rateLimit

\* The tester gateway: what a tester's request makes the runtime do was authorised when
\* the request arrived, moves at most the configured cap and goes into a block at once.
testerWorkCapped ==
    busy({"send", "faucet"}) /\ clients[job.client].request.path \in TesterRoutes =>
      /\ testerWriteConfigured(server.env)
      /\ <<clients[job.client].request.bearer>> = server.env.tokenHash
      /\ job.work.direct
      /\ \A tx \in Range(job.work.txs) :
           hasField(tx, "amountUnits") => tx.amountUnits <= server.env.maxSendUnits[1]

\* A wallet with both of its files is only changed by a request that says replace.
walletKeptUnlessReplaced ==
    \A base \in DOMAIN disk.wallets :
         LET before == disk.wallets[base] IN
         exists(before.vault) /\ exists(before.metadata) /\ disk'.wallets[base] # before =>
           /\ busy({"create"}) /\ job.base = base
           /\ job.stage = "second" \/ replaces(clients[job.client].request.payload)

\* The intake files grow only by the local process: the methods that append to them are
\* off the public allowlist, also inside a batch.
onlyLocalCallsAppend ==
    <<disk.txIntake, disk.bridgeIntake>>' # <<disk.txIntake, disk.bridgeIntake>>
         => local' # local

\* What the server keeps in files survives retries and crashes: each accepted
\* transaction and each bridge event is in its intake file once and stays readable,
\* and the two files of a wallet belong together.
FilesConsistent == acceptedOnce /\ bridgeIntakeOnce /\ acceptedIsReadable /\ walletFilesAgree

\* The files are served as they are and changed only by those who may: an accepted
\* transaction is listed, a wallet is replaced only on request, and the intake files
\* grow by the local process alone.
FilesServedAndGuarded ==
    [][acceptedIsListed /\ walletKeptUnlessReplaced /\ onlyLocalCallsAppend]_serverVars


\* The limits of the public server hold: the request rate per caller and, at the tester
\* gateway, the token and the cap on an amount.
LimitsHold == rateLimitHolds /\ testerWorkCapped

\* A caller whose body is awaited or being worked on is answered, or lost with the process.
EveryRequestAnswered ==
    \A c \in Client :
      clients[c].phase \in {"body", "running"} ~> clients[c].phase \in {"answered", "lost"}
=============================================================================
