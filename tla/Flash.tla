-------------------------------- MODULE Flash --------------------------------
(***************************************************************************)
(* The external NOR flash and the arithmetic of the driver on top of it    *)
(* (monocle_flash_write, monocle_flash_page_erase).  The FPGA update and   *)
(* the block device share it.                                              *)
(***************************************************************************)
EXTENDS Integers, FiniteSetsExt

CONSTANTS
  PageSize,    \* what one program command can reach, 256
  DmaMax,      \* longest SPI transfer, 255
  SectorSize,  \* what one erase command clears, 4096
  FlashSize,   \* 0x100000
  Erased,      \* an erased cell, 0xFF
  Garbage      \* a cell programmed over other data

ASSUME FlashAssumption ==
  /\ {PageSize, DmaMax, SectorSize, FlashSize} \subseteq Nat \ {0}
  /\ SectorSize % PageSize = 0
  /\ FlashSize % SectorSize = 0
  /\ Erased # Garbage

VARIABLES
  mem,         \* its contents: Erased, Garbage or a byte some caller wrote
  busy         \* it is executing a program or erase command

Addresses == 0 .. FlashSize - 1

\* Mutant: the end of the page is forgotten.
ChunkLengthAcrossPages(address, left) == Min({left, DmaMax})

\* How many bytes the driver sends next when left bytes remain for address:
\* up to the end of the page, and no more than one DMA transfer.
ChunkLength(address, left) ==
  Min({PageSize - (address % PageSize), left, DmaMax})

\* Programming only clears bits: over other data it leaves neither value.
ProgramCell(old, new) == IF old \in {Erased, new} THEN new ELSE Garbage

\* The chip's page program command: the address counts up within the page
\* and wraps to its start.
Programmed(m, address, data, n) ==
  LET page == address - (address % PageSize)
      cell(i) == page + ((address + i) % PageSize)
  IN  [a \in DOMAIN m |->
         IF \E i \in 0 .. n - 1 : cell(i) = a
         THEN ProgramCell(m[a], data[CHOOSE i \in 0 .. n - 1 : cell(i) = a])
         ELSE m[a]]

SectorErased(m, address) ==
  [a \in DOMAIN m |->
     IF a \in address .. address + SectorSize - 1 THEN Erased ELSE m[a]]
=============================================================================
