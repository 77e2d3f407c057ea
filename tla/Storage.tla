------------------------------ MODULE Storage ------------------------------
(***************************************************************************)
(* device.Storage (storage.c), the block device on the part of the flash   *)
(* behind the FPGA image, with the flash driver below it.  Every wait for  *)
(* the flash polls the hook, so a call can be cut there by                 *)
(* KeyboardInterrupt, and anywhere by a reset.                             *)
(*                                                                         *)
(* The file system above is external: it names blocks of the device only.  *)
(***************************************************************************)
EXTENDS Flash

CONSTANTS
  StorageBase,   \* 0x6D000, the first sector behind the FPGA image
  StartLengths,  \* what scripts give device.Storage(start, length)
  BlockData,     \* what a call writes
  Pieces,        \* <<offset, length>> of the calls with an offset
  Lengths,       \* lengths of the calls without one
  BlockNums,     \* the blocks the file system uses
  Anything       \* of a call that promises nothing of what it stores

ASSUME StorageAssumption ==
  /\ StorageBase \in 0 .. FlashSize
  /\ StartLengths \subseteq Int \X Int
  /\ Pieces \subseteq Nat \X Nat
  /\ \A p \in Pieces : p[1] + p[2] <= SectorSize
  /\ Lengths \subseteq {n \in Nat : n >= SectorSize}
  /\ BlockNums \subseteq Nat

VARIABLES
  device,    \* the storage object: [start, length]
  call,      \* the running call
  progress,  \* bytes_written in monocle_flash_write
  answer     \* how the latest call ended

storage == <<device, call, progress, answer>>

\* Mutant: the range is not tied to the end of the flash image.
AcceptedAnywhere(start, length) == length >= 0 /\ length + start <= FlashSize

\* storage_make_new raises ValueError for anything else.  The code adds length and
\* start in 32 bits; no range given here is large enough for the sum to wrap.
Accepted(start, length) ==
  /\ start >= StorageBase
  /\ length >= 0
  /\ length + start <= FlashSize

\* MP_BLOCKDEV_IOCTL_BLOCK_COUNT
BlockCount == device.length \div SectorSize
DeviceBlocks == 0 .. BlockCount - 1
Address(block) == device.start + block * SectorSize

\* The data is known by where it lies in its block.
BlockByte(d, i) == <<d, i % SectorSize>>
Content(block) == [i \in 0 .. SectorSize - 1 |-> mem[Address(block) + i]]
Stored(d) == [i \in 0 .. SectorSize - 1 |-> BlockByte(d, i)]

NoCall == [step |-> "none"]
Idle == call.step = "none"

StorageInit ==
  /\ device \in {[start |-> a[1], length |-> a[2]] : a \in {b \in StartLengths : Accepted(b[1], b[2])}}
  /\ call = NoCall
  /\ progress = 0
  /\ answer = <<"none">>

End(outcome) ==
  /\ call' = NoCall
  /\ progress' = 0
  /\ answer' = outcome
  /\ UNCHANGED device

Goto(c) ==
  /\ call' = c
  /\ progress' = 0
  /\ answer' = <<"none">>
  /\ UNCHANGED device

-----------------------------------------------------------------------------
(* The calls.                                                              *)

\* monocle_flash_page_erase and monocle_flash_write check their arguments
\* before they wait for the flash.
Aligned(address) == address % SectorSize = 0
InFlash(address, n) == address + n <= FlashSize

\* storage_writeblocks without an offset: the sector is erased first, and
\* only then does monocle_flash_write look at the length.
CallWriteBlock ==
  /\ Idle
  /\ \E b \in DeviceBlocks \cap BlockNums, d \in BlockData, n \in Lengths :
       \/ ~Aligned(Address(b)) /\ End(<<"raised">>)
       \/ /\ Aligned(Address(b))
          /\ Goto([step |-> "erase", block |-> b, address |-> Address(b), from |-> 0,
                   length |-> n, data |-> d, whole |-> n = SectorSize])
  /\ UNCHANGED <<mem, busy>>

\* storage_writeblocks with an offset: nothing is erased.
CallWritePiece ==
  /\ Idle
  /\ \E b \in DeviceBlocks \cap BlockNums, d \in BlockData, p \in Pieces :
       IF p[2] = 0 THEN End(<<"done">>)
       ELSE Goto([step |-> "write", block |-> b, address |-> Address(b) + p[1], from |-> p[1],
                  length |-> p[2], data |-> d, whole |-> FALSE])
  /\ UNCHANGED <<mem, busy>>

\* MP_BLOCKDEV_IOCTL_BLOCK_ERASE
CallEraseBlock ==
  /\ Idle
  /\ \E b \in DeviceBlocks \cap BlockNums :
       \/ ~Aligned(Address(b)) /\ End(<<"raised">>)  \* -EIO
       \/ /\ Aligned(Address(b))
          /\ Goto([step |-> "ioctl", block |-> b, address |-> Address(b), length |-> SectorSize, whole |-> FALSE])
  /\ UNCHANGED <<mem, busy>>

\* storage_readblocks
CallReadBlock ==
  /\ Idle
  /\ \E b \in DeviceBlocks \cap BlockNums : Goto([step |-> "read", block |-> b])
  /\ UNCHANGED <<mem, busy>>

-----------------------------------------------------------------------------
(* The flash commands.                                                     *)

EraseBlock ==
  /\ call.step \in {"erase", "ioctl"}
  /\ ~busy
  /\ mem' = SectorErased(mem, call.address)
  /\ busy' = TRUE
  /\ IF call.step = "ioctl" THEN End(<<"done">>)
     ELSE IF ~InFlash(call.address, call.length) THEN End(<<"raised">>)
     ELSE Goto([call EXCEPT !.step = "write"])

\* Mutant: every part is taken from the start of the buffer.
CallDataFromStart(offset) ==
  [i \in 0 .. call.length - 1 - offset |-> BlockByte(call.data, call.from + i)]

CallData(offset) ==
  [i \in 0 .. call.length - 1 - offset |-> BlockByte(call.data, call.from + offset + i)]
NextPart == ChunkLength(call.address + progress, call.length - progress)

WritePart ==
  /\ call.step = "write"
  /\ ~busy
  /\ mem' = Programmed(mem, call.address + progress, CallData(progress), NextPart)
  /\ busy' = TRUE
  /\ IF progress + NextPart = call.length THEN End(<<"done">>)
     ELSE progress' = progress + NextPart /\ UNCHANGED <<device, call, answer>>

ReadBlock ==
  /\ call.step = "read"
  /\ ~busy
  /\ End(<<"read", call.block, Content(call.block)>>)
  /\ UNCHANGED <<mem, busy>>

-----------------------------------------------------------------------------
(* KeyboardInterrupt, and what a reset does to the flash and to the call.  *)

StorageWaits == ~Idle /\ busy
StorageRaises == StorageWaits /\ End(<<"raised">>) /\ UNCHANGED <<mem, busy>>

CutPart(m) ==
  \/ m = mem
  \/ /\ call.step = "write" /\ ~busy
     /\ \E n \in 1 .. NextPart :
          m = Programmed(mem, call.address + progress, CallData(progress), n)

-----------------------------------------------------------------------------
(* The block device promised by BlockStore.                                *)

Writes == call.step \in {"erase", "write", "ioctl"}
CallBlocks ==
  {b \in DeviceBlocks :
     \E i \in 0 .. call.length - 1 :
       call.address + i \in Address(b) .. Address(b) + SectorSize - 1}
Change ==
  IF Writes
  THEN [blocks |-> CallBlocks, data |-> IF call.whole THEN Stored(call.data) ELSE Anything]
  ELSE [blocks |-> {}, data |-> Anything]

Device == INSTANCE BlockStore WITH
  disk <- [b \in DeviceBlocks |-> Content(b)], change <- Change
=============================================================================
