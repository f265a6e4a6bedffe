----------------------------- MODULE MCIndexer ------------------------------
(* Three pulses: two of one transaction, with a valid and a mismatched       *)
(* artifact, and a swap signal whose artifact is too large.                  *)
EXTENDS IndexerReader

MCPulses == {"p1", "p2", "p3"}

MCTxOf == [p \in MCPulses |-> IF p = "p3" THEN "t2" ELSE "t1"]

MCPayload ==
  [p \in MCPulses |->
     CASE p = "p1" -> [rootfieldId |-> "r1", actor |-> "a1", pulseType |-> 2, subject |-> "root",
                       commitment |-> <<"root", "art">>, uri |-> "u1"]
       [] p = "p2" -> [rootfieldId |-> "r1", actor |-> "a2", pulseType |-> 1, subject |-> "r1",
                       commitment |-> <<"schema", "other">>, uri |-> "u2"]
       [] p = "p3" -> [rootfieldId |-> "r2", actor |-> "a1", pulseType |-> 4, subject |-> "pool",
                       commitment |-> <<"pool", "data", "memory">>, uri |-> "u3"]]

MCArtifacts ==
  [u \in {"u1", "u2", "u3"} |->
     CASE u = "u1" -> [kind |-> "root-commitment", anchor |-> "root", words |-> <<"root", "art">>,
                       size |-> 1]
       [] u = "u2" -> [kind |-> "rootfield-registration", anchor |-> "r1",
                       words |-> <<"schema", "meta">>, size |-> 1]
       [] u = "u3" -> [kind |-> "swap-memory-signal", anchor |-> "pool",
                       words |-> <<"pool", "data", "memory">>, size |-> 3]]

MCBodies == {<<"p1", "p2">>, <<"p3">>}

\* The canary reader touches none of the Base Sepolia files, so its runs are
\* explored only while those are absent.
CanaryRunsFirst ==
  (reader = Idle /\ reader'.pc = "fetch" /\ reader'.canary) => stateFile = [written |-> FALSE]
=============================================================================
