----------------------------- MODULE FlashUsers -----------------------------
(***************************************************************************)
(* The FPGA update and the block device on one flash.  There is one        *)
(* thread, but a wait for the flash polls the hook, the hook runs a        *)
(* scheduled callback, and the callback may use the flash: the call that   *)
(* waits is then suspended under the callback's.  A callback runs no       *)
(* further callbacks, and an exception in it ends with it.                 *)
(***************************************************************************)
EXTENDS FpgaUpdate, Storage

ASSUME UsersAssumption ==
  /\ StorageBase >= AppSize
  /\ StorageBase % SectorSize = 0

VARIABLES
  top          \* "update" or "storage": whose call is the innermost

allVars == <<vars, storage, top>>

BlockCells == {BlockByte(d, i) : d \in BlockData, i \in 0 .. SectorSize - 1}

(* Types, and that top names the innermost call: every call that began on  *)
(* top of another gives the flash back to it when it ends.                 *)
AllTypeOK ==
  /\ mem \in [Addresses -> Cells \cup BlockCells]
  /\ busy \in BOOLEAN
  /\ UpdateOK
  /\ call.step \in {"none", "erase", "ioctl", "write", "read"}
  /\ call.step \in {"write", "erase"} => progress < call.length
  /\ top = "storage" => ~Idle
  /\ top = "update" /\ pc = "idle" => Idle

AllInit == Init /\ StorageInit /\ top = "update"

UpdateIdle == pc = "idle"

\* The caller has taken the answer of the latest call.
StorageStays == answer' = <<"none">> /\ UNCHANGED <<device, call, progress>>

\* A function of the update is called, from the main thread or a callback.
UpdateCalled ==
  /\ Idle \/ StorageWaits
  /\ CallErase \/ CallWrite
  /\ top' = IF pc' = "idle" THEN top ELSE "update"
  /\ StorageStays

UpdateGoesOn ==
  /\ top = "update"
  /\ EraseSector \/ EraseReturns \/ WriteChunk \/ WriteReturns \/ HookRaises
  /\ top' = IF pc' = "idle" /\ ~Idle THEN "storage" ELSE "update"
  /\ StorageStays

StorageCalled ==
  /\ UpdateIdle \/ UpdateWaits
  /\ CallWriteBlock \/ CallWritePiece \/ CallEraseBlock \/ CallReadBlock
  /\ top' = IF call'.step = "none" THEN top ELSE "storage"
  /\ UNCHANGED <<update, updater, erasedAll, boot>>

\* Mutant: the call below is forgotten.
StorageGoesOnKeepingTop ==
  /\ top = "storage"
  /\ EraseBlock \/ WritePart \/ ReadBlock \/ StorageRaises
  /\ UNCHANGED <<update, updater, erasedAll, boot, top>>

StorageGoesOn ==
  /\ top = "storage"
  /\ EraseBlock \/ WritePart \/ ReadBlock \/ StorageRaises
  /\ top' = IF call'.step = "none" THEN "update" ELSE "storage"
  /\ UNCHANGED <<update, updater, erasedAll, boot>>

\* The FPGA is restarted from the flash, and the flash gets ready.
Booted == FpgaRun /\ Idle /\ StorageStays /\ UNCHANGED top

Ready == FlashReady /\ StorageStays /\ UNCHANGED top

\* The innermost call may have a program command on the bus.
ResetAll ==
  /\ IF top = "update" THEN CutChunk ELSE CutPart(mem')
  /\ Restart
  /\ End(<<"none">>)
  /\ top' = "update"

AllNext ==
  \/ UpdateCalled \/ UpdateGoesOn \/ StorageCalled \/ StorageGoesOn
  \/ Booted \/ Ready \/ ResetAll

AllSpec == AllInit /\ [][AllNext]_allVars

(* What the file system is promised (BlockStore) holds although updates,   *)
(* their interrupts and resets come between any two flash commands of a    *)
(* call: a block is never changed by a call for another, nor by an update, *)
(* and a write that succeeds has stored its data.                          *)
DeviceSpec == Device!Spec
=============================================================================
