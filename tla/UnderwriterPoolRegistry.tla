----------------------- MODULE UnderwriterPoolRegistry ----------------------
(***************************************************************************)
(* contracts/UnderwriterPoolRegistry.sol: the owner's record of the one    *)
(* pool of the model.  `recourse` holds when the recorded asset is the     *)
(* settlement token and the recorded type is UsdcRecoursePool.             *)
(***************************************************************************)

VARIABLE poolRecord

PoolRecords == [registered : BOOLEAN, active : BOOLEAN, recourse : BOOLEAN]

PoolRegistryTypeOK == poolRecord \in PoolRecords

registerPool(recourse) ==
  poolRecord' = [registered |-> TRUE, active |-> TRUE, recourse |-> recourse]

setPoolStatus(active) ==
  /\ poolRecord.registered
  /\ poolRecord' = [poolRecord EXCEPT !.active = active]

isPoolApproved == poolRecord.active

=============================================================================
