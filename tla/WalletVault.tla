---------------------------- MODULE WalletVault -----------------------------
(* The local test wallet: accounts and their keys, signing through a vault,  *)
(* the documents the wallet builds, and the pilot operator's configuration.  *)
(*                                                                           *)
(* A vault is a record of its id and the sequence of its accounts; the       *)
(* private key of an account is known by its public key.  Encryption is      *)
(* left out: an operation on a vault succeeds for the holder of its password. *)
EXTENDS Envelopes

DEFAULT_LOCAL_WALLET_CHAIN_ID == 31337

\* What a call that throws returns.
Threw == [schema |-> "threw"]

nextNonce(lastKnownNonce) == lastKnownNonce + 1

-----------------------------------------------------------------------------
(* Accounts.                                                                 *)

signerKeyIdOf(publicKey) == <<"local-alpha.signer-key", publicKey>>

\* A fresh account keeps the given signer id, or is named by its key (`<<>>').
createVaultAccount(publicKey, signerRole, signerId, chainId, rotatedFrom) ==
  LET id == IF signerId = <<>> THEN signerAddressFromPublicKey(publicKey) ELSE signerId
      role == IF isFlowMemoryRole(signerRole) THEN signerRole ELSE "user"
  IN [signerRole |-> signerRole, signerRoleCode |-> LOCAL_ALPHA_SIGNER_ROLES[signerRole],
      accountId |-> id, address |-> id, signerId |-> id,
      signerKeyId |-> signerKeyIdOf(publicKey), publicKey |-> publicKey,
      flowmemory |-> flowmemoryPublicAccountMetadata(publicKey, role),
      chainId |-> chainId, lastKnownNonce |-> 0, nextNonce |-> nextNonce(0),
      active |-> TRUE, rotatedFrom |-> rotatedFrom]

createEncryptedTestVault(vaultId, publicKey, signerRole, chainId) ==
  [vaultId |-> vaultId,
   accounts |-> <<createVaultAccount(publicKey, signerRole, <<>>, chainId, <<>>)>>]

addEncryptedTestVaultAccount(vault, publicKey, signerRole, chainId) ==
  [vault EXCEPT !.accounts =
     Append(@, createVaultAccount(publicKey, signerRole, <<>>, chainId, <<>>))]


\* The replacement follows the key it replaces and keeps its signer id.
rotateEncryptedTestVaultAccount(vault, signerKeyId, publicKey) ==
  LET i == SelectInSeq(vault.accounts, LAMBDA a : a.signerKeyId = signerKeyId)
      previous == [vault.accounts[i] EXCEPT !.active = FALSE]
      replacement == createVaultAccount(publicKey, previous.signerRole, previous.signerId,
                                        previous.chainId, previous.signerKeyId)
  IN [vault EXCEPT !.accounts =
        SubSeq(@, 1, i - 1) \o <<previous, replacement>> \o SubSeq(@, i + 1, Len(@))]

\* The first account holding the key while it is active.
signingAccount(vault, signerKeyId) ==
  LET i == SelectInSeq(vault.accounts, LAMBDA a : a.signerKeyId = signerKeyId /\ a.active)
  IN IF i = 0 THEN <<>> ELSE <<vault.accounts[i]>>

withSignature(account, unsigned) ==
  [signature |-> signDigest(account.publicKey, unsigned.signingDigest),
   signerAddress |-> account.address] @@ unsigned

withTransactionId(signed) == [transactionId |-> flowmemoryTransactionId(signed)] @@ signed

signLocalTransactionWithVault(vault, signerKeyId, document, chainId, nonce, issuedAtUnixMs) ==
  LET account == signingAccount(vault, signerKeyId)[1]
  IN withTransactionId(withSignature(account,
       buildUnsignedLocalTransactionEnvelope(document, account, chainId, nonce, issuedAtUnixMs)))

\* The key the command line signs with when none is named: the first account
\* of the preferred address, otherwise the first active one.
selectSignerKeyId(vault, preferredAddress) ==
  LET named == SelectSeq(vault.accounts, LAMBDA a : a.signerId = preferredAddress)
      active == SelectSeq(vault.accounts, LAMBDA a : a.active)
  IN IF preferredAddress # <<>> THEN (IF named = <<>> THEN <<>> ELSE named[1].signerKeyId)
     ELSE (active \o vault.accounts)[1].signerKeyId

-----------------------------------------------------------------------------
(* The public metadata a vault exports, and its validation.                  *)

localWalletPublicAccount(a) ==
  [f \in {"accountId", "address", "signerId", "signerKeyId", "signerRole", "signerRoleCode",
          "publicKey", "active", "chainId", "lastKnownNonce", "nextNonce"} |-> a[f]]

exportLocalWalletPublicMetadata(vault) ==
  [vaultId |-> vault.vaultId,
   accounts |-> [i \in DOMAIN vault.accounts |-> localWalletPublicAccount(vault.accounts[i])]]

validateLocalWalletPublicAccount(a, expectedChainId) ==
  UNION
  { when(Malformed \in {a.accountId, a.address, a.signerId, a.signerKeyId}, "bad-account-id"),
    when({a.accountId, a.address} # {a.signerId}, "address-mismatch"),
    when(LOCAL_ALPHA_SIGNER_ROLES[a.signerRole] # a.signerRoleCode, "bad-signer-role"),
    IF a.publicKey = Malformed THEN {"malformed-public-key"}
    ELSE when(\/ a.signerId # signerAddressFromPublicKey(a.publicKey)
              \/ a.signerKeyId # signerKeyIdOf(a.publicKey), "public-key-mismatch"),
    when(a.chainId # expectedChainId, "wrong-chain-id") }

validateLocalWalletPublicMetadata(metadata, expectedChainId) ==
  when(metadata.vaultId = Malformed, "bad-vault-id")
  \cup when(metadata.accounts = <<>>, "missing-accounts")
  \cup UNION { validateLocalWalletPublicAccount(metadata.accounts[i], expectedChainId)
               : i \in DOMAIN metadata.accounts }

-----------------------------------------------------------------------------
(* The documents the wallet and the pilot operator build.                    *)

\* A document takes its id from the fields it was given.
withObjectId(schema, fields) ==
  LET d == LOCAL_ALPHA_OBJECT_DESCRIPTORS[schema]
      blank == [schema |-> schema] @@ (d.idField :> ZERO_BYTES32) @@ fields
  IN [blank EXCEPT ![d.idField] = localAlphaObjectId(blank)]

\* The builder throws unless its inputs are well formed.
built(wellFormed, schema, fields) ==
  IF wellFormed THEN withObjectId(schema, fields) ELSE Threw

LOCAL_TEST_UNIT_ASSET_ID == keccakUtf8("local-test-unit")

requireHex32(fields, names) == \A f \in names : isHex32(fields[f])

requirePositive(fields, names) == \A f \in names : fields[f] > 0

buildProductTransferDocument(in) ==
  built(/\ requireHex32(in, {"fromAccountId", "toAccountId", "assetId", "memoHash"})
        /\ requirePositive(in, {"amount"}), "flowmemory.product_transfer.v0", in)

buildProductTokenLaunchDocument(in) ==
  built(/\ requireHex32(in, {"issuerAccountId", "tokenId", "metadataHash", "recipientAccountId",
                             "launchPolicyHash"})
        /\ in.decimals \in 0..18 /\ requirePositive(in, {"initialSupply"}),
        "flowmemory.product_token_launch.v0", in)

buildProductPoolCreateDocument(in) ==
  built(/\ requireHex32(in, {"creatorAccountId", "poolId", "baseAssetId", "quoteAssetId",
                             "metadataHash"})
        /\ in.baseAssetId # in.quoteAssetId
        /\ in.feeBps \in 0..10000 /\ in.tickSpacing \in 1..1000000,
        "flowmemory.product_pool_create.v0", in)

buildProductAddLiquidityDocument(in) ==
  built(/\ requireHex32(in, {"providerAccountId", "poolId"})
        /\ requirePositive(in, {"baseAmount", "quoteAmount"}),
        "flowmemory.product_add_liquidity.v0", in)

buildProductRemoveLiquidityDocument(in) ==
  built(/\ requireHex32(in, {"providerAccountId", "poolId"})
        /\ requirePositive(in, {"liquidityTokens"}), "flowmemory.product_remove_liquidity.v0", in)

buildProductSwapDocument(in) ==
  built(/\ requireHex32(in, {"traderAccountId", "poolId", "assetInId", "assetOutId"})
        /\ in.assetInId # in.assetOutId /\ requirePositive(in, {"amountIn"}),
        "flowmemory.product_swap.v0", in)

\* The flags of the record default to those of a test record.
buildBridgeWithdrawalIntentDocument(in) ==
  LET fields == in @@ [status |-> "requested", testMode |-> TRUE, broadcast |-> FALSE,
                       releasePolicy |-> "test_record_only", productionReady |-> FALSE]
  IN built(/\ requireHex32(in, {"creditId", "depositId", "token", "flowmemoryAccount",
                                "baseRecipient"})
           /\ {in.sourceChainId, in.destinationChainId} \subseteq PilotChains
           /\ requirePositive(in, {"amount"}), "flowmemory.bridge_withdrawal_intent.v0", fields)

buildFinalityActionDocument(in) ==
  built(/\ requireHex32(in, {"receiptId", "reportId", "challengeRoot", "finalizedBlockHash",
                             "policyHash"})
        /\ in.finalityStateCode \in 1..8, "flowmemory.finality_receipt.v0", in)

\* The pilot builders check only their addresses.
buildPilotBridgeCreditAckDocument(in) ==
  built(requireHex32(in, {"contractAddress"}), "flowmemory.pilot_bridge_credit_ack.v0", in)

buildPilotWithdrawalIntentDocument(in) ==
  built(requireHex32(in, {"contractAddress", "token", "baseRecipient"}),
        "flowmemory.pilot_withdrawal_intent.v0", in)

buildPilotReleaseEvidenceDocument(in) ==
  built(requireHex32(in, {"contractAddress", "token", "recipient"}),
        "flowmemory.pilot_release_evidence.v0", in)

buildPilotEmergencyControlDocument(in) ==
  built(requireHex32(in, {"contractAddress"}), "flowmemory.pilot_emergency_control.v0", in)

buildDocument(schema, in) ==
  CASE schema = "flowmemory.product_transfer.v0" -> buildProductTransferDocument(in)
    [] schema = "flowmemory.product_token_launch.v0" -> buildProductTokenLaunchDocument(in)
    [] schema = "flowmemory.product_pool_create.v0" -> buildProductPoolCreateDocument(in)
    [] schema = "flowmemory.product_add_liquidity.v0" -> buildProductAddLiquidityDocument(in)
    [] schema = "flowmemory.product_remove_liquidity.v0" -> buildProductRemoveLiquidityDocument(in)
    [] schema = "flowmemory.product_swap.v0" -> buildProductSwapDocument(in)
    [] schema = "flowmemory.bridge_withdrawal_intent.v0" -> buildBridgeWithdrawalIntentDocument(in)
    [] schema = "flowmemory.finality_receipt.v0" -> buildFinalityActionDocument(in)
    [] schema = "flowmemory.pilot_bridge_credit_ack.v0" -> buildPilotBridgeCreditAckDocument(in)
    [] schema = "flowmemory.pilot_withdrawal_intent.v0" -> buildPilotWithdrawalIntentDocument(in)
    [] schema = "flowmemory.pilot_release_evidence.v0" -> buildPilotReleaseEvidenceDocument(in)
    [] schema = "flowmemory.pilot_emergency_control.v0" -> buildPilotEmergencyControlDocument(in)

-----------------------------------------------------------------------------
(* The pilot operator's configuration and the key that signs for it.         *)

CONSTANT BASE_MAINNET_MAX_CAP  \* 25 USDC in its six decimals

\* The environment names the chain, the contract, the operator and the cap.
createPilotOperatorConfigFromEnv(env) ==
  LET config == [chainId |-> env.chainId, contractAddress |-> env.contractAddress,
                 operatorId |-> env.operatorId,
                 pilotCap |-> [realValuePilot |-> TRUE, productionReady |-> FALSE] @@ env.cap]
  IN IF /\ env.chainId \in PilotChains
        /\ isHex32(env.contractAddress) /\ isHex32(env.operatorId)
        /\ hasPilotCap(config.pilotCap)
        /\ env.chainId = 8453
             => config.pilotCap.unit = "USDC-6" /\ config.pilotCap.maxAmount <= BASE_MAINNET_MAX_CAP
     THEN <<config>> ELSE <<>>

isPilotOperatorSigner(config, a) ==
  a.signerId = config.operatorId /\ a.signerRole = "operator" /\ a.active

exportPilotPublicMetadata(config, accounts) ==
  IF \E i \in DOMAIN accounts : isPilotOperatorSigner(config, accounts[i])
  THEN <<[config |-> config, accounts |-> accounts]>> ELSE <<>>

selectOperatorSignerKeyId(vault, config) ==
  LET operators == SelectSeq(vault.accounts, LAMBDA a : isPilotOperatorSigner(config, a))
  IN IF operators = <<>> THEN <<>> ELSE operators[1].signerKeyId

\* What `pilot-wallet verify' expects of an envelope.
pilotVerifyContext(config, expectedNonce, nowUnixMs) ==
  [chainId |-> config.chainId, expectedContractAddress |-> config.contractAddress,
   expectedOperatorId |-> config.operatorId, expectedNonce |-> expectedNonce,
   nowUnixMs |-> nowUnixMs]

=============================================================================
