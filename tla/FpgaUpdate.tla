----------------------------- MODULE FpgaUpdate -----------------------------
(***************************************************************************)
(* Updating the FPGA image in the external flash (update.c, the flash      *)
(* driver in monocle-drivers.c) and choosing the image the FPGA boots from *)
(* (monocle_fpga_reset).                                                   *)
(*                                                                         *)
(* Every wait for the flash polls the event hook, so KeyboardInterrupt can *)
(* end update_fpga_app_delete or update_fpga_app_write between two of      *)
(* their flash commands; a reset can end them anywhere.                    *)
(*                                                                         *)
(* The updater on the other side of the REPL is external: it erases, sends *)
(* the image in pieces, sends a piece again when the call that carried it  *)
(* was interrupted, and starts over after a reset.                         *)
(***************************************************************************)
EXTENDS Flash

CONSTANTS
  AppSize,     \* 0x6C80E + 4, the length of an image, the magic word last
  Images,      \* the images that exist
  PieceSizes   \* the lengths the updater sends

ASSUME AppAssumption ==
  /\ AppSize \in Nat \ {0}
  /\ AppSize <= FlashSize
  /\ PieceSizes \subseteq Nat \ {0}
  /\ \A k \in Images, a \in Addresses : <<k, a>> \notin {Erased, Garbage}

VARIABLES
  programmed,  \* fpga_app_programmed_bytes
  pc,          \* "idle", "erase" or "write": the update function running
  sector,      \* i, the next sector update_fpga_app_delete erases
  length,      \* length of the data of update_fpga_app_write
  written,     \* bytes_written in monocle_flash_write
  image,       \* the image the updater sends
  position,    \* how much of it was accepted
  phase,       \* of the updater: "none", "erase", "send" or "done"
  erasedAll,   \* history: the latest erase was carried to its end
  boot         \* where the FPGA's image was last loaded from

update == <<programmed, pc, sector, length, written>>
updater == <<image, position, phase>>
vars == <<mem, busy, update, updater, erasedAll, boot>>

\* Mutant: the sector the image ends in is forgotten.
AppSectorsRoundedDown == AppSize \div SectorSize
AppSectors == (AppSize + SectorSize - 1) \div SectorSize

\* Byte a of image k, and whether the flash holds the whole of it.
Byte(k, a) == <<k, a>>
Holds(k) == \A a \in 0 .. AppSize - 1 : mem[a] = Byte(k, a)
HoldsSome == \E k \in Images : Holds(k)
Cells == {Erased, Garbage} \cup {Byte(k, a) : k \in Images, a \in Addresses}

UpdateOK ==
  /\ programmed \in 0 .. AppSize
  /\ pc \in {"idle", "erase", "write"}
  /\ sector \in 0 .. AppSectors
  /\ length \in 0 .. AppSize
  /\ written \in 0 .. length
  /\ image \in Images
  /\ position \in 0 .. AppSize
  /\ phase \in {"none", "erase", "send", "done"}
  /\ erasedAll \in BOOLEAN
  /\ boot \in {"flash", "internal"}

\* "done" at 0x6C80E, the last word of every image, is modelled as one cell.
MagicFound(m) == \E k \in Images : m[AppSize - 1] = Byte(k, AppSize - 1)
BootSource(m) == IF MagicFound(m) THEN "flash" ELSE "internal"

\* The device leaves the factory with an image or with an empty flash.
Init ==
  /\ \/ mem = [a \in Addresses |-> Erased]
     \/ \E k \in Images :
          mem = [a \in Addresses |-> IF a < AppSize THEN Byte(k, a) ELSE Erased]
  /\ busy = FALSE
  /\ programmed = 0
  /\ pc = "idle"
  /\ sector = 0
  /\ length = 0
  /\ written = 0
  /\ image \in Images
  /\ position = 0
  /\ phase = "none"
  /\ erasedAll = TRUE
  /\ boot = BootSource(mem)

-----------------------------------------------------------------------------
(* update_fpga_app_delete                                                  *)

\* The updater calls update.Fpga.erase(), for a new image or once more, and
\* at any time: it may give up an image it has sent a part of.
CallErase ==
  /\ pc = "idle"
  /\ pc' = "erase"
  /\ sector' = 0
  /\ image' \in Images
  /\ position' = 0
  /\ phase' = "erase"
  /\ UNCHANGED <<mem, busy, programmed, length, written, erasedAll, boot>>

EraseSector ==
  /\ pc = "erase"
  /\ sector < AppSectors
  /\ ~busy
  /\ mem' = SectorErased(mem, sector * SectorSize)
  /\ busy' = TRUE
  /\ sector' = sector + 1
  /\ erasedAll' = FALSE
  /\ UNCHANGED <<programmed, pc, length, written, updater, boot>>

\* Mutant: fpga_app_programmed_bytes is not reset.
EraseReturnsKeepingCount ==
  /\ pc = "erase"
  /\ sector = AppSectors
  /\ pc' = "idle"
  /\ phase' = "send"
  /\ erasedAll' = TRUE
  /\ UNCHANGED <<mem, busy, programmed, sector, length, written, image, position, boot>>

EraseReturns ==
  /\ pc = "erase"
  /\ sector = AppSectors
  /\ programmed' = 0
  /\ pc' = "idle"
  /\ phase' = "send"
  /\ erasedAll' = TRUE
  /\ UNCHANGED <<mem, busy, sector, length, written, image, position, boot>>

-----------------------------------------------------------------------------
(* update_fpga_app_write and monocle_flash_write                           *)

TooLong(n) == programmed + n > AppSize

\* The updater calls update.Fpga.write(data) with the next n bytes, possibly
\* more than an image has.
CallWrite ==
  /\ pc = "idle"
  /\ phase = "send"
  /\ \E n \in PieceSizes :
       \/ /\ TooLong(n)  \* ValueError: the updater has to erase again
          /\ phase' = "erase"
          /\ UNCHANGED <<pc, length, written>>
       \/ /\ ~TooLong(n)
          /\ pc' = "write"
          /\ length' = n
          /\ written' = 0
          /\ UNCHANGED phase
  /\ UNCHANGED <<mem, busy, programmed, sector, image, position, erasedAll, boot>>

\* Mutant: every chunk is taken from the start of the buffer.
DataFromStart(offset) == [i \in 0 .. length - 1 - offset |-> Byte(image, position + i)]

\* The bytes of the call's buffer that n bytes from offset are taken from.
Data(offset) == [i \in 0 .. length - 1 - offset |-> Byte(image, position + offset + i)]
NextChunk == ChunkLength(programmed + written, length - written)

\* Mutant: a whole transfer is counted, whatever was sent.
WriteChunkCountsDma ==
  /\ pc = "write"
  /\ written < length
  /\ ~busy
  /\ mem' = Programmed(mem, programmed + written, Data(written), NextChunk)
  /\ busy' = TRUE
  /\ written' = written + DmaMax
  /\ UNCHANGED <<programmed, pc, sector, length, updater, erasedAll, boot>>

WriteChunk ==
  /\ pc = "write"
  /\ written < length
  /\ ~busy
  /\ mem' = Programmed(mem, programmed + written, Data(written), NextChunk)
  /\ busy' = TRUE
  /\ written' = written + NextChunk
  /\ UNCHANGED <<programmed, pc, sector, length, updater, erasedAll, boot>>

WriteReturns ==
  /\ pc = "write"
  /\ written = length
  /\ programmed' = programmed + length
  /\ pc' = "idle"
  /\ position' = position + length
  /\ phase' = IF position + length = AppSize THEN "done" ELSE "send"
  /\ UNCHANGED <<mem, busy, sector, length, written, image, erasedAll, boot>>

-----------------------------------------------------------------------------
(* What happens around them.                                               *)

\* The flash is done with its command.
FlashReady ==
  /\ busy
  /\ busy' = FALSE
  /\ UNCHANGED <<mem, update, updater, erasedAll, boot>>

\* The thread is in "while (flash_is_busy())", polling the hook.
UpdateWaits ==
  /\ busy
  /\ \/ pc = "erase" /\ sector < AppSectors
     \/ pc = "write" /\ written < length

\* KeyboardInterrupt, raised by the hook.
HookRaises ==
  /\ UpdateWaits
  /\ pc' = "idle"
  /\ UNCHANGED <<mem, busy, programmed, sector, length, written, updater, erasedAll, boot>>

\* What a reset leaves in the flash.  A program command on the bus takes
\* effect with the bytes that were sent; a command the flash has begun comes
\* to its end, within the 200 ms before power_all_rails(false) takes its
\* supply away.
CutChunk ==
  \/ UNCHANGED mem
  \/ /\ pc = "write" /\ written < length /\ ~busy
     /\ \E n \in 1 .. NextChunk :
          mem' = Programmed(mem, programmed + written, Data(written), n)

\* The start-up that follows reads the flash before it boots the FPGA.
Restart ==
  /\ busy' = FALSE
  /\ programmed' = 0
  /\ pc' = "idle"
  /\ sector' = 0
  /\ length' = 0
  /\ written' = 0
  /\ phase' = "none"
  /\ position' = 0
  /\ boot' = BootSource(mem')
  /\ UNCHANGED <<image, erasedAll>>

\* A reset, at any point.
Reset == CutChunk /\ Restart

\* fpga.run(True) after fpga.run(False): monocle_fpga_reset(true) once more.
FpgaRun ==
  /\ pc = "idle"
  /\ ~busy
  /\ boot' = BootSource(mem)
  /\ UNCHANGED <<mem, busy, update, updater, erasedAll>>

Next ==
  \/ CallErase \/ EraseSector \/ EraseReturns
  \/ CallWrite \/ WriteChunk \/ WriteReturns
  \/ FlashReady \/ HookRaises \/ Reset \/ FpgaRun

Spec == Init /\ [][Next]_vars

-----------------------------------------------------------------------------
(* Properties.                                                             *)

(* An updater that has sent its last piece has a whole image in the flash, *)
(* however often its calls were interrupted: a piece that was partly       *)
(* programmed is programmed again at the same place.                       *)
FinishedImageIsWhole == phase = "done" => Holds(image)

(* While pieces are sent the driver's cursor and the updater's agree, and  *)
(* everything behind them is in the flash.                                 *)
AcceptedIsProgrammed ==
  phase = "send" =>
    /\ programmed = position
    /\ \A a \in 0 .. position - 1 : mem[a] = Byte(image, a)

(* Page and transfer limits are respected: no program command is cut in    *)
(* two by the end of a page (it would wrap to its start), and nothing is   *)
(* ever programmed over other data or behind the image.                    *)
NothingSpoiled ==
  /\ \A a \in 0 .. AppSize - 1 : mem[a] # Garbage
  /\ \A a \in AppSize .. AppSectors * SectorSize - 1 : mem[a] = Erased

(* An update that stops while pieces are being written does not boot: the  *)
(* magic word is the last thing written.                                   *)
HalfWrittenNotBooted == (boot' = "flash" /\ erasedAll) => HoldsSome'
BootAfterWrite == [][ (Reset \/ FpgaRun) => HalfWrittenNotBooted ]_vars

(* "Check flash for a valid FPGA image" (monocle-critical.c:369): the FPGA *)
(* is booted from the flash only when a whole image is there.              *)
BootsOnlyValidImage == [][ (Reset /\ boot' = "flash") => HoldsSome' ]_vars
=============================================================================
