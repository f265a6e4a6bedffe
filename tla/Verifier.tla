------------------------------ MODULE Verifier ------------------------------
(***************************************************************************)
(* verifyObservation: the status of a report from an observation and the   *)
(* artifact its URI resolves to.  An artifact is its kind, the word its    *)
(* pulse's subject must equal (root, poolId, newRoot), the sequence of     *)
(* words its commitment hashes, and its size.                              *)
(***************************************************************************)
EXTENDS FlowPulse

CONSTANTS ArtifactsByUri, MaxArtifactBytes

VerifierStatuses == {"valid", "invalid", "unresolved", "unsupported", "reorged"}

Zero == "zero"

\* The kind of artifact each supported pulse type is checked against.
ArtifactKindFor ==
  [t \in {1, 2, 4, 16, 18} |->
     CASE t = 1 -> "rootfield-registration" [] t = 2 -> "root-commitment"
       [] t = 4 -> "swap-memory-signal"     [] t = 16 -> "agent-step-commitment"
       [] t = 18 -> "agent-memory-commitment"]

\* The commitment of an agent step is its receipt id; the others are the hash
\* of the artifact's words, modelled as the words.
commitmentOf(artifact) == artifact.words

subjectMatches(payload, artifact) ==
  CASE payload.pulseType = 1 -> payload.subject = payload.rootfieldId
    [] payload.pulseType = 16 -> payload.subject # Zero
    [] OTHER -> payload.subject = artifact.anchor

commitmentMatches(payload, artifact) == payload.commitment = commitmentOf(artifact)

report(observation, status, reasons) ==
  [observationId |-> observation.observationId, status |-> status, reasonCodes |-> reasons]


verifyObservation(observation) ==
  LET payload == observation.payload
      artifact == ArtifactsByUri[payload.uri]
      mismatches == (IF subjectMatches(payload, artifact) THEN {} ELSE {"subject.mismatch"})
                    \cup (IF commitmentMatches(payload, artifact) THEN {}
                          ELSE {"commitment.mismatch"})
  IN  IF observation.lifecycleState \in {"reorged", "removed"}
      THEN report(observation, "reorged", {"observation.reorged"})
      ELSE IF payload.pulseType \notin DOMAIN ArtifactKindFor
      THEN report(observation, "unsupported", {"pulse.type.unsupported"})
      ELSE IF payload.uri \notin DOMAIN ArtifactsByUri
      THEN report(observation, "unresolved", {"artifact.unavailable"})
      ELSE IF artifact.size > MaxArtifactBytes
      THEN report(observation, "unresolved", {"artifact.too_large"})
      ELSE IF artifact.kind # ArtifactKindFor[payload.pulseType]
      THEN report(observation, "invalid", {"artifact.schema_mismatch"})
      ELSE report(observation, IF mismatches = {} THEN "valid" ELSE "invalid", mismatches)

verifyObservations(observations) ==
  [i \in DOMAIN observations |-> verifyObservation(observations[i])]

=============================================================================
