-------------------------- MODULE FlashUsers_proofs --------------------------
(* Theorems about FpgaUpdate, for any sizes of pages, transfers, sectors,  *)
(* pieces and images, and about FlashUsers: the update stays safe with the *)
(* block device on the same flash, and the block device is the one that    *)
(* BlockStore promises, for any sizes, devices, calls and nesting.         *)
EXTENDS FlashUsers, TLAPS

-----------------------------------------------------------------------------
(* Arithmetic of pages and sectors.                                        *)

LEMMA Division ==
  ASSUME NEW a \in Int, NEW b \in Int, b > 0
  PROVE  /\ a \div b \in Int
         /\ a % b \in Int
         /\ 0 <= a % b /\ a % b < b
         /\ a = b * (a \div b) + (a % b)
BY SMTT(20)

LEMMA Remainder ==
  ASSUME NEW q \in Int, NEW r \in Nat, NEW b \in Nat \ {0}, r < b
  PROVE  (b * q + r) % b = r
BY SMTT(20)

(* Counting up from an address without reaching the end of its page.       *)
LEMMA InPage ==
  ASSUME NEW address \in Nat, NEW i \in Nat, (address % PageSize) + i < PageSize
  PROVE  address - (address % PageSize) + ((address + i) % PageSize) = address + i
<1> DEFINE q == address \div PageSize
<1> DEFINE r == address % PageSize
<1>1. PageSize \in Nat \ {0}
  BY FlashAssumption
<1>2. q \in Int /\ r \in Int /\ 0 <= r /\ address = PageSize * q + r
  BY <1>1, Division
<1>3. r + i \in Nat /\ r + i < PageSize
  BY <1>2
<1> HIDE DEF q, r
<1>4. (PageSize * q + (r + i)) % PageSize = r + i
  BY <1>1, <1>2, <1>3, Remainder
<1>5. PageSize * q \in Int
  BY <1>1, <1>2
<1>6. PageSize * q + (r + i) = address + i
  BY <1>2, <1>5
<1>7. (address + i) % PageSize = r + i
  BY <1>4, <1>6
<1>8. QED
  BY <1>2, <1>7 DEF r

LEMMA Monotone ==
  ASSUME NEW a \in Int, NEW b \in Int, NEW c \in Nat, a <= b
  PROVE  c * a <= c * b
BY SMTT(20)

(* The sectors an erase goes through cover the image and are in the flash. *)
LEMMA SectorsCover ==
  /\ AppSectors \in Nat
  /\ AppSectors * SectorSize \in Nat
  /\ AppSize <= AppSectors * SectorSize
  /\ AppSectors * SectorSize <= FlashSize
<1> DEFINE last == AppSize + SectorSize - 1
<1> DEFINE q == FlashSize \div SectorSize
<1>1. /\ SectorSize \in Nat \ {0} /\ FlashSize \in Nat \ {0} /\ FlashSize % SectorSize = 0
      /\ AppSize \in Nat \ {0} /\ AppSize <= FlashSize
  BY FlashAssumption, AppAssumption
<1>2. /\ AppSectors \in Int
      /\ 0 <= last % SectorSize /\ last % SectorSize < SectorSize /\ last % SectorSize \in Int
      /\ last = SectorSize * AppSectors + (last % SectorSize)
  BY <1>1, Division DEF AppSectors
<1>3. q \in Int /\ FlashSize = SectorSize * q
  <2>1. q \in Int /\ FlashSize = SectorSize * q + (FlashSize % SectorSize)
    BY <1>1, Division
  <2>2. SectorSize * q \in Int
    BY <1>1, <2>1
  <2>3. QED
    BY <1>1, <2>1, <2>2
<1> HIDE DEF q
<1> DEFINE covered == SectorSize * AppSectors
<1>4. covered \in Int /\ covered = AppSectors * SectorSize
  BY <1>1, <1>2
<1>5. AppSize <= covered /\ covered < AppSize + SectorSize
  <2>1. last \in Int /\ last = covered + (last % SectorSize)
    BY <1>1, <1>2
  <2>2. QED
    BY <1>1, <1>2, <1>4, <2>1
<1>6. AppSectors <= q
  <2>1. SUFFICES ASSUME q + 1 <= AppSectors PROVE FALSE
    BY <1>2, <1>3
  <2>2. SectorSize * (q + 1) <= covered
    BY <1>1, <1>2, <1>3, <2>1, Monotone
  <2>3. SectorSize * (q + 1) = FlashSize + SectorSize
    BY <1>1, <1>3
  <2>4. QED
    BY <1>1, <1>4, <1>5, <2>2, <2>3
<1>7. covered <= FlashSize
  BY <1>1, <1>2, <1>3, <1>6, Monotone
<1>8. AppSectors \in Nat
  <2>1. SUFFICES ASSUME AppSectors <= 0 PROVE FALSE
    BY <1>2
  <2>2. covered <= SectorSize * 0
    BY <1>1, <1>2, <2>1, Monotone
  <2>3. QED
    BY <1>1, <1>4, <1>5, <2>2
<1>9. QED
  BY <1>1, <1>4, <1>5, <1>7, <1>8

LEMMA SmallestOfThree ==
  ASSUME NEW a \in Int, NEW b \in Int, NEW c \in Int
  PROVE  /\ Min({a, b, c}) \in {a, b, c}
         /\ Min({a, b, c}) <= a /\ Min({a, b, c}) <= b /\ Min({a, b, c}) <= c
<1>1. \E x \in {a, b, c} : \A y \in {a, b, c} : x <= y
  OBVIOUS
<1>2. QED
  BY <1>1 DEF Min

(* A part that the driver sends is not empty, and ends in its page.        *)
LEMMA ChunkFits ==
  ASSUME NEW address \in Nat, NEW left \in Nat \ {0}
  PROVE  /\ ChunkLength(address, left) \in 1 .. left
         /\ (address % PageSize) + ChunkLength(address, left) <= PageSize
<1>1. PageSize \in Nat \ {0} /\ DmaMax \in Nat \ {0}
  BY FlashAssumption
<1>2. address % PageSize \in Int /\ 0 <= address % PageSize /\ address % PageSize < PageSize
  BY <1>1, Division
<1> DEFINE room == PageSize - (address % PageSize)
<1>3. room \in Int /\ room >= 1 /\ PageSize = room + (address % PageSize)
  BY <1>1, <1>2
<1>4. ChunkLength(address, left) = Min({room, left, DmaMax})
  BY DEF ChunkLength
<1> HIDE DEF room
<1>5. /\ ChunkLength(address, left) \in {room, left, DmaMax}
      /\ ChunkLength(address, left) <= room /\ ChunkLength(address, left) <= left
  <2>1. left \in Int /\ DmaMax \in Int
    BY <1>1
  <2> DEFINE least == Min({room, left, DmaMax})
  <2>2. least \in {room, left, DmaMax} /\ least <= room /\ least <= left
    BY <1>3, <2>1, SmallestOfThree
  <2> HIDE DEF least
  <2>3. ChunkLength(address, left) = least
    BY <1>4 DEF least
  <2>4. QED
    BY <2>2, <2>3
<1>6. QED
  BY <1>1, <1>2, <1>3, <1>5

(* A program command that stays in its page changes just the cells meant.  *)
LEMMA ProgramsInPlace ==
  ASSUME NEW m, NEW address \in Nat, NEW data, NEW n \in Nat,
         (address % PageSize) + n <= PageSize
  PROVE  Programmed(m, address, data, n) =
           [a \in DOMAIN m |-> IF a \in address .. address + n - 1
                               THEN ProgramCell(m[a], data[a - address]) ELSE m[a]]
<1> DEFINE cell(i) == address - (address % PageSize) + ((address + i) % PageSize)
<1>1. address % PageSize \in Int /\ 0 <= address % PageSize
  BY FlashAssumption, Division
<1>2. ASSUME NEW i \in 0 .. n - 1 PROVE cell(i) = address + i
  <2>1. i \in Nat /\ (address % PageSize) + i < PageSize
    BY <1>1, FlashAssumption
  <2>2. QED
    BY <2>1, InPage
<1> HIDE DEF cell
<1>3. ASSUME NEW a
      PROVE  (\E i \in 0 .. n - 1 : cell(i) = a) <=> a \in address .. address + n - 1
  <2>1. ASSUME NEW i \in 0 .. n - 1, cell(i) = a PROVE a \in address .. address + n - 1
    BY <1>2, <2>1
  <2>2. ASSUME a \in address .. address + n - 1 PROVE \E i \in 0 .. n - 1 : cell(i) = a
    <3>1. a - address \in 0 .. n - 1 /\ address + (a - address) = a
      BY <2>2
    <3>2. QED
      BY <1>2, <3>1
  <2>3. QED
    BY <2>1, <2>2
<1>4. ASSUME NEW a \in address .. address + n - 1
      PROVE  (CHOOSE i \in 0 .. n - 1 : cell(i) = a) = a - address
  <2>1. a - address \in 0 .. n - 1 /\ cell(a - address) = a
    BY <1>2
  <2>2. \A i \in 0 .. n - 1 : cell(i) = a => i = a - address
    BY <1>2
  <2>3. QED
    BY <2>1, <2>2
<1>5. Programmed(m, address, data, n) =
        [a \in DOMAIN m |-> IF \E i \in 0 .. n - 1 : cell(i) = a
                            THEN ProgramCell(m[a], data[CHOOSE i \in 0 .. n - 1 : cell(i) = a]) ELSE m[a]]
  BY DEF Programmed, cell
<1>6. QED
  BY <1>3, <1>4, <1>5

-----------------------------------------------------------------------------
(* The invariant.                                                          *)

UpdateTyped ==
  /\ DOMAIN mem = Addresses
  /\ programmed \in 0 .. AppSize
  /\ pc \in {"idle", "erase", "write"}
  /\ sector \in 0 .. AppSectors
  /\ length \in 0 .. AppSize
  /\ written \in 0 .. length
  /\ image \in Images
  /\ position \in 0 .. AppSize
  /\ phase \in {"none", "erase", "send", "done"}
  /\ boot \in {"flash", "internal"}

(* What the updater believes and what the driver does belong together.     *)
InStep ==
  /\ pc = "erase" => phase = "erase" /\ position = 0
  /\ pc = "write" => phase = "send" /\ programmed + length <= AppSize
  /\ phase = "send" => programmed = position
  /\ phase = "done" => position = AppSize

(* An erase has cleared the sectors before the next one.                   *)
ErasedSoFar == pc = "erase" => \A a \in Addresses : a < sector * SectorSize => mem[a] = Erased

(* What was accepted is in the flash, and so are the parts of the piece    *)
(* that is being written.                                                  *)
AcceptedIsThere ==
  phase \in {"send", "done"} => \A a \in 0 .. position - 1 : mem[a] = Byte(image, a)
PartsAreThere ==
  pc = "write" => \A a \in 0 .. programmed + written - 1 : mem[a] = Byte(image, a)

(* While an image is sent there is nothing else in its place, so that a    *)
(* piece can be programmed again.                                          *)
NothingElse == phase = "send" => \A a \in 0 .. AppSize - 1 : mem[a] \in {Erased, Byte(image, a)}

(* Unless an erase was cut, the magic word has its image before it.        *)
MagicIsLast == (erasedAll /\ MagicFound(mem)) => HoldsSome

UpdateInv ==
  /\ UpdateTyped
  /\ InStep
  /\ ErasedSoFar
  /\ AcceptedIsThere
  /\ PartsAreThere
  /\ NothingElse
  /\ NothingSpoiled
  /\ MagicIsLast

(* What the invariant says of the flash, for any contents m of it.         *)
Whole(m, k) == \A a \in 0 .. AppSize - 1 : m[a] = Byte(k, a)
Spared(m) ==
  /\ \A a \in 0 .. AppSize - 1 : m[a] # Garbage
  /\ \A a \in AppSize .. AppSectors * SectorSize - 1 : m[a] = Erased

LEMMA AppCells ==
  ASSUME NEW a \in 0 .. AppSize - 1, NEW k \in Images
  PROVE  /\ a \in Addresses
         /\ Byte(k, a) # Erased /\ Byte(k, a) # Garbage
<1>1. a \in Addresses
  BY AppAssumption, FlashAssumption DEF Addresses
<1>2. QED
  BY <1>1, AppAssumption DEF Byte

LEMMA SameByte == ASSUME NEW j, NEW k, NEW a, Byte(j, a) = Byte(k, a) PROVE j = k
BY DEF Byte

LEMMA UpdateInit == Init => UpdateInv
<1> SUFFICES ASSUME Init PROVE UpdateInv
  OBVIOUS
<1>1. /\ programmed = 0 /\ pc = "idle" /\ sector = 0 /\ length = 0 /\ written = 0
      /\ image \in Images /\ position = 0 /\ phase = "none"
  BY DEF Init
<1>2. AppSize \in Nat \ {0} /\ AppSectors \in Nat /\ AppSectors * SectorSize \in Nat
      /\ AppSectors * SectorSize <= FlashSize /\ FlashSize \in Nat
  BY AppAssumption, FlashAssumption, SectorsCover
<1>3. boot \in {"flash", "internal"}
  BY DEF Init, BootSource
<1>4. CASE mem = [a \in Addresses |-> Erased]
  <2>1. DOMAIN mem = Addresses /\ \A a \in Addresses : mem[a] = Erased
    BY <1>4
  <2>2. NothingSpoiled
    BY <1>2, <2>1, AppAssumption, FlashAssumption DEF NothingSpoiled, Addresses
  <2>3. ~MagicFound(mem)
    <3>1. AppSize - 1 \in 0 .. AppSize - 1
      BY <1>2
    <3>2. mem[AppSize - 1] = Erased
      BY <1>2, <2>1, AppAssumption DEF Addresses
    <3>3. QED
      BY <3>1, <3>2, AppCells DEF MagicFound
  <2>4. QED
    BY <1>1, <1>2, <1>3, <2>1, <2>2, <2>3
    DEF UpdateInv, UpdateTyped, InStep, ErasedSoFar, AcceptedIsThere, PartsAreThere, NothingElse, MagicIsLast
<1>5. ASSUME NEW k \in Images, mem = [a \in Addresses |-> IF a < AppSize THEN Byte(k, a) ELSE Erased]
      PROVE  UpdateInv
  <2>1. DOMAIN mem = Addresses
    BY <1>5
  <2>2. Holds(k)
    BY <1>2, <1>5, AppAssumption DEF Holds, Addresses
  <2>3. NothingSpoiled
    <3>1. \A a \in 0 .. AppSize - 1 : mem[a] # Garbage
      BY <2>2, AppCells DEF Holds
    <3>2. ASSUME NEW a \in AppSize .. AppSectors * SectorSize - 1 PROVE mem[a] = Erased
      BY <1>2, <1>5 DEF Addresses
    <3>3. QED
      BY <3>1, <3>2 DEF NothingSpoiled
  <2>4. HoldsSome
    BY <2>2 DEF HoldsSome
  <2>5. QED
    BY <1>1, <1>2, <1>3, <2>1, <2>3, <2>4
    DEF UpdateInv, UpdateTyped, InStep, ErasedSoFar, AcceptedIsThere, PartsAreThere, NothingElse, MagicIsLast
<1>6. QED
  BY <1>4, <1>5 DEF Init

LEMMA CallEraseKeeps == ASSUME UpdateInv, CallErase PROVE UpdateInv'
<1>1. /\ pc = "idle" /\ pc' = "erase" /\ sector' = 0 /\ image' \in Images /\ position' = 0 /\ phase' = "erase"
      /\ UNCHANGED <<mem, programmed, length, written, erasedAll, boot>>
  BY DEF CallErase
<1>2. AppSectors \in Nat /\ AppSize \in Nat /\ SectorSize \in Nat
  BY AppAssumption, FlashAssumption, SectorsCover
<1>3. UpdateTyped'
  BY <1>1, <1>2 DEF UpdateInv, UpdateTyped
<1>4. ErasedSoFar'
  BY <1>1, <1>2 DEF ErasedSoFar, Addresses
<1>5. InStep' /\ AcceptedIsThere' /\ PartsAreThere' /\ NothingElse'
  BY <1>1 DEF InStep, AcceptedIsThere, PartsAreThere, NothingElse
<1>6. NothingSpoiled' /\ MagicIsLast'
  BY <1>1 DEF UpdateInv, NothingSpoiled, MagicIsLast, MagicFound, HoldsSome, Holds
<1>7. QED
  BY <1>3, <1>4, <1>5, <1>6 DEF UpdateInv

LEMMA EraseSectorKeeps == ASSUME UpdateInv, EraseSector PROVE UpdateInv'
<1> DEFINE at == sector * SectorSize
<1>1. /\ pc = "erase" /\ sector < AppSectors /\ mem' = SectorErased(mem, at)
      /\ sector' = sector + 1 /\ erasedAll' = FALSE
      /\ UNCHANGED <<programmed, pc, length, written, image, position, phase, boot>>
  BY DEF EraseSector, updater
<1>2. AppSectors \in Nat /\ AppSize \in Nat /\ SectorSize \in Nat \ {0} /\ AppSectors * SectorSize <= FlashSize
      /\ AppSectors * SectorSize \in Nat /\ FlashSize \in Nat /\ AppSize <= FlashSize
  BY AppAssumption, FlashAssumption, SectorsCover
<1>3. UpdateTyped /\ InStep /\ phase = "erase"
  BY <1>1 DEF UpdateInv, InStep
<1>4. at \in Nat /\ (sector + 1) * SectorSize = at + SectorSize
  BY <1>2, <1>3 DEF UpdateTyped
<1> HIDE DEF at
<1>5. DOMAIN mem' = Addresses
  BY <1>1, <1>3 DEF UpdateTyped, SectorErased
<1>6. \A a \in Addresses : mem'[a] = IF a \in at .. at + SectorSize - 1 THEN Erased ELSE mem[a]
  BY <1>1, <1>3 DEF UpdateTyped, SectorErased
<1>7. UpdateTyped'
  BY <1>1, <1>2, <1>3, <1>5 DEF UpdateTyped
<1>8. ErasedSoFar'
  <2>1. SUFFICES ASSUME NEW a \in Addresses, a < at + SectorSize PROVE mem'[a] = Erased
    BY <1>1, <1>4 DEF ErasedSoFar
  <2>2. a < at => mem[a] = Erased
    BY <1>1 DEF UpdateInv, ErasedSoFar, at
  <2>3. QED
    BY <1>2, <1>4, <1>6, <2>1, <2>2 DEF Addresses
<1>9. NothingSpoiled'
  <2>1. ASSUME NEW a \in 0 .. AppSize - 1 PROVE mem'[a] # Garbage
    <3>1. a \in Addresses /\ mem[a] # Garbage
      BY <1>2 DEF UpdateInv, NothingSpoiled, Addresses
    <3>2. QED
      BY <1>6, <3>1, FlashAssumption
  <2>2. ASSUME NEW a \in AppSize .. AppSectors * SectorSize - 1 PROVE mem'[a] = Erased
    <3>1. a \in Addresses /\ mem[a] = Erased
      BY <1>2 DEF UpdateInv, NothingSpoiled, Addresses
    <3>2. QED
      BY <1>6, <3>1
  <2>3. QED
    BY <2>1, <2>2 DEF NothingSpoiled
<1>10. InStep' /\ AcceptedIsThere' /\ PartsAreThere' /\ NothingElse' /\ MagicIsLast'
  BY <1>1, <1>3 DEF InStep, AcceptedIsThere, PartsAreThere, NothingElse, MagicIsLast
<1>11. QED
  BY <1>7, <1>8, <1>9, <1>10 DEF UpdateInv

LEMMA EraseReturnsKeeps == ASSUME UpdateInv, EraseReturns PROVE UpdateInv'
<1>1. /\ pc = "erase" /\ sector = AppSectors /\ programmed' = 0 /\ pc' = "idle" /\ phase' = "send"
      /\ UNCHANGED <<mem, sector, length, written, image, position, boot>>
  BY DEF EraseReturns
<1>2. AppSize \in Nat \ {0} /\ AppSize <= AppSectors * SectorSize /\ AppSize <= FlashSize
      /\ AppSectors * SectorSize \in Nat /\ FlashSize \in Nat
  BY AppAssumption, FlashAssumption, SectorsCover
<1>3. position = 0 /\ UpdateTyped
  BY <1>1 DEF UpdateInv, InStep
<1>4. ASSUME NEW a \in 0 .. AppSize - 1 PROVE mem[a] = Erased
  <2>1. a \in Addresses /\ a < AppSectors * SectorSize
    BY <1>2 DEF Addresses
  <2>2. QED
    BY <1>1, <2>1 DEF UpdateInv, ErasedSoFar
<1>5. UpdateTyped'
  BY <1>1, <1>2, <1>3 DEF UpdateTyped
<1>6. InStep' /\ ErasedSoFar' /\ AcceptedIsThere' /\ PartsAreThere'
  BY <1>1, <1>3 DEF InStep, ErasedSoFar, AcceptedIsThere, PartsAreThere
<1>7. NothingElse'
  BY <1>1, <1>4 DEF NothingElse
<1>8. NothingSpoiled'
  BY <1>1 DEF UpdateInv, NothingSpoiled
<1>9. MagicIsLast'
  <2>1. AppSize - 1 \in 0 .. AppSize - 1
    BY <1>2
  <2>2. ~MagicFound(mem)
    BY <1>4, <2>1, AppCells DEF MagicFound
  <2>3. QED
    BY <1>1, <2>2 DEF MagicIsLast, MagicFound
<1>10. QED
  BY <1>5, <1>6, <1>7, <1>8, <1>9 DEF UpdateInv

(* What a part of a piece, sent whole or cut by a reset, leaves.           *)
LEMMA PartWritten ==
  ASSUME UpdateInv, pc = "write", written < length, NEW n \in 1 .. NextChunk,
         NEW m, m = Programmed(mem, programmed + written, Data(written), n)
  PROVE  /\ DOMAIN m = Addresses
         /\ n <= length - written
         /\ \A a \in 0 .. programmed + written + n - 1 : m[a] = Byte(image, a)
         /\ \A a \in 0 .. AppSize - 1 : m[a] \in {Erased, Byte(image, a)}
         /\ Spared(m)
         /\ erasedAll /\ MagicFound(m) => \E k \in Images : Whole(m, k)
<1> DEFINE at == programmed + written
<1>1. /\ UpdateTyped /\ phase = "send" /\ programmed = position /\ programmed + length <= AppSize
      /\ \A a \in 0 .. at - 1 : mem[a] = Byte(image, a)
      /\ \A a \in 0 .. AppSize - 1 : mem[a] \in {Erased, Byte(image, a)}
  <2>1. UpdateTyped /\ InStep /\ PartsAreThere /\ NothingElse
    BY DEF UpdateInv
  <2>2. phase = "send" /\ programmed = position /\ programmed + length <= AppSize
    BY <2>1 DEF InStep
  <2>3. \A a \in 0 .. at - 1 : mem[a] = Byte(image, a)
    <3>1. programmed \in Nat /\ written \in Nat
      BY <2>1, AppAssumption DEF UpdateTyped
    <3>2. QED
      BY <2>1, <3>1 DEF PartsAreThere
  <2>4. \A a \in 0 .. AppSize - 1 : mem[a] \in {Erased, Byte(image, a)}
    BY <2>1, <2>2 DEF NothingElse
  <2>5. QED
    BY <2>1, <2>2, <2>3, <2>4
<1>2. /\ AppSize \in Nat \ {0} /\ FlashSize \in Nat /\ AppSize <= FlashSize /\ AppSectors * SectorSize \in Nat
      /\ AppSectors * SectorSize <= FlashSize
  BY AppAssumption, FlashAssumption, SectorsCover
<1>3. programmed \in Nat /\ length \in Nat /\ written \in Nat /\ position \in Nat /\ image \in Images
  BY <1>1, <1>2 DEF UpdateTyped
<1>4. at \in Nat /\ length - written \in Nat \ {0}
  BY <1>3
<1>5. NextChunk = ChunkLength(at, length - written)
  BY DEF NextChunk
<1> DEFINE chunk == ChunkLength(at, length - written)
<1>6. chunk \in 1 .. length - written /\ (at % PageSize) + chunk <= PageSize
  BY <1>4, ChunkFits
<1>7. n \in 1 .. chunk
  BY <1>5
<1> HIDE DEF chunk
<1>8. n \in Nat /\ n >= 1 /\ n <= length - written /\ (at % PageSize) + n <= PageSize
  <2>1. at % PageSize \in Int
    BY <1>4, FlashAssumption, Division
  <2> DEFINE into == at % PageSize
  <2>2. into \in Int /\ into + chunk <= PageSize
    BY <1>6, <2>1
  <2>3. PageSize \in Int /\ chunk \in Int /\ chunk <= length - written
    BY <1>3, <1>6, FlashAssumption
  <2> HIDE DEF into
  <2>4. n \in Nat /\ n >= 1 /\ n <= chunk
    BY <1>7, <2>3
  <2>5. into + n <= PageSize /\ n <= length - written
    BY <1>3, <2>2, <2>3, <2>4
  <2>6. QED
    BY <2>4, <2>5 DEF into
<1>9. m = [a \in Addresses |-> IF a \in at .. at + n - 1
                              THEN ProgramCell(mem[a], Data(written)[a - at]) ELSE mem[a]]
  <2>1. DOMAIN mem = Addresses
    BY <1>1 DEF UpdateTyped
  <2>2. QED
    BY <1>4, <1>8, <2>1, ProgramsInPlace
<1>10. at + n <= AppSize
  BY <1>1, <1>2, <1>3, <1>8
<1>11. ASSUME NEW a \in at .. at + n - 1
       PROVE  a \in Addresses /\ m[a] = Byte(image, a)
  <2>1. a \in 0 .. AppSize - 1 /\ a \in Addresses
    BY <1>2, <1>4, <1>8, <1>10 DEF Addresses
  <2>2. a - at \in 0 .. length - 1 - written /\ position + written + (a - at) = a
    BY <1>1, <1>3, <1>4, <1>8
  <2>3. Data(written)[a - at] = Byte(image, a)
    BY <2>2 DEF Data
  <2>4. mem[a] \in {Erased, Byte(image, a)}
    BY <1>1, <2>1
  <2>5. QED
    BY <1>9, <2>1, <2>3, <2>4 DEF ProgramCell
<1>12. \A a \in Addresses : a \notin at .. at + n - 1 => m[a] = mem[a]
  BY <1>9
<1> HIDE DEF at
<1>13. DOMAIN m = Addresses
  BY <1>9
<1>14. ASSUME NEW a \in 0 .. at + n - 1 PROVE m[a] = Byte(image, a)
  <2>1. a \in Addresses
    BY <1>2, <1>4, <1>8, <1>10 DEF Addresses
  <2>2. CASE a \in 0 .. at - 1
    <3>1. a \notin at .. at + n - 1
      BY <1>4, <2>2
    <3>2. QED
      BY <1>1, <1>12, <2>1, <2>2, <3>1 DEF at
  <2>3. CASE a \in at .. at + n - 1
    BY <1>11, <2>3
  <2>4. QED
    BY <1>4, <1>8, <2>2, <2>3
<1>15. ASSUME NEW a \in 0 .. AppSize - 1 PROVE m[a] \in {Erased, Byte(image, a)}
  <2>1. a \in Addresses
    BY <1>2 DEF Addresses
  <2>2. QED
    BY <1>1, <1>11, <1>12, <2>1
<1>16. Spared(m)
  <2>1. \A a \in 0 .. AppSize - 1 : m[a] # Garbage
    BY <1>3, <1>15, AppCells, FlashAssumption
  <2>2. ASSUME NEW a \in AppSize .. AppSectors * SectorSize - 1 PROVE m[a] = Erased
    <3>1. a \in Addresses /\ a \notin at .. at + n - 1
      BY <1>2, <1>4, <1>8, <1>10 DEF Addresses
    <3>2. mem[a] = Erased
      BY DEF UpdateInv, NothingSpoiled
    <3>3. QED
      BY <1>12, <3>1, <3>2
  <2>3. QED
    BY <2>1, <2>2 DEF Spared
<1>17. ASSUME erasedAll, MagicFound(m) PROVE \E k \in Images : Whole(m, k)
  <2> DEFINE last == AppSize - 1
  <2>1. last \in 0 .. AppSize - 1 /\ last \in Addresses
    BY <1>2 DEF Addresses
  <2>2. CASE at + n = AppSize
    <3>1. \A a \in 0 .. AppSize - 1 : m[a] = Byte(image, a)
      BY <1>4, <1>8, <1>14, <2>2, <1>2
    <3>2. QED
      BY <1>3, <3>1 DEF Whole
  <2>3. CASE at + n # AppSize
    <3>1. last \notin at .. at + n - 1
      BY <1>2, <1>4, <1>8, <1>10, <2>3
    <3>2. PICK k \in Images : m[last] = Byte(k, last)
      BY <1>17 DEF MagicFound
    <3>3. mem[last] = Byte(k, last)
      BY <1>12, <2>1, <3>1, <3>2
    <3>4. PICK j \in Images : Holds(j)
      BY <1>17, <3>3 DEF UpdateInv, MagicIsLast, MagicFound, HoldsSome
    <3>5. \A a \in 0 .. AppSize - 1 : mem[a] = Byte(image, a)
      <4>1. mem[last] = Byte(j, last) /\ mem[last] = Byte(image, last)
        <5>1. mem[last] = Byte(j, last)
          BY <2>1, <3>4 DEF Holds
        <5>2. QED
          BY <1>1, <2>1, <5>1, AppCells
      <4>2. j = image
        BY <4>1, SameByte
      <4>3. QED
        BY <3>4, <4>2 DEF Holds
    <3>6. ASSUME NEW a \in 0 .. AppSize - 1 PROVE m[a] = Byte(image, a)
      <4>1. a \in Addresses
        BY <1>2 DEF Addresses
      <4>2. QED
        BY <1>11, <1>12, <3>5, <4>1
    <3>7. QED
      BY <1>3, <3>6 DEF Whole
  <2>4. QED
    BY <2>2, <2>3
<1>18. QED
  BY <1>8, <1>13, <1>14, <1>15, <1>16, <1>17 DEF at

LEMMA CallWriteKeeps == ASSUME UpdateInv, CallWrite PROVE UpdateInv'
<1>1. /\ pc = "idle" /\ phase = "send"
      /\ UNCHANGED <<mem, programmed, sector, image, position, erasedAll, boot>>
  BY DEF CallWrite
<1>2. UpdateTyped /\ InStep /\ AcceptedIsThere /\ NothingElse
  BY DEF UpdateInv
<1>3. AppSize \in Nat /\ programmed \in Nat /\ position \in Nat /\ programmed = position
  BY <1>1, <1>2, AppAssumption DEF UpdateTyped, InStep
<1>4. NothingSpoiled' /\ MagicIsLast'
  BY <1>1 DEF UpdateInv, NothingSpoiled, MagicIsLast, MagicFound, HoldsSome, Holds
<1>5. PICK n \in PieceSizes :
        \/ /\ TooLong(n)
           /\ phase' = "erase"
           /\ UNCHANGED <<pc, length, written>>
        \/ /\ ~TooLong(n)
           /\ pc' = "write"
           /\ length' = n
           /\ written' = 0
           /\ UNCHANGED phase
  BY DEF CallWrite
<1>6. n \in Nat \ {0}
  BY AppAssumption
<1>7. CASE phase' = "erase" /\ UNCHANGED <<pc, length, written>>
  <2>1. UpdateTyped'
    BY <1>1, <1>2, <1>7 DEF UpdateTyped
  <2>2. InStep' /\ ErasedSoFar' /\ AcceptedIsThere' /\ PartsAreThere' /\ NothingElse'
    BY <1>1, <1>7 DEF InStep, ErasedSoFar, AcceptedIsThere, PartsAreThere, NothingElse
  <2>3. QED
    BY <1>4, <2>1, <2>2 DEF UpdateInv
<1>8. CASE ~TooLong(n) /\ pc' = "write" /\ length' = n /\ written' = 0 /\ UNCHANGED phase
  <2>1. programmed + n <= AppSize
    BY <1>3, <1>6, <1>8 DEF TooLong
  <2>2. UpdateTyped'
    BY <1>1, <1>2, <1>3, <1>6, <1>8, <2>1 DEF UpdateTyped
  <2>3. InStep' /\ ErasedSoFar' /\ AcceptedIsThere' /\ NothingElse'
    BY <1>1, <1>2, <1>8, <2>1 DEF InStep, ErasedSoFar, AcceptedIsThere, NothingElse
  <2>4. PartsAreThere'
    BY <1>1, <1>2, <1>3, <1>8 DEF AcceptedIsThere, PartsAreThere
  <2>5. QED
    BY <1>4, <2>2, <2>3, <2>4 DEF UpdateInv
<1>9. QED
  BY <1>5, <1>7, <1>8

LEMMA WriteChunkKeeps == ASSUME UpdateInv, WriteChunk PROVE UpdateInv'
<1>1. /\ pc = "write" /\ written < length
      /\ mem' = Programmed(mem, programmed + written, Data(written), NextChunk)
      /\ written' = written + NextChunk
      /\ UNCHANGED <<programmed, pc, sector, length, image, position, phase, erasedAll, boot>>
  BY DEF WriteChunk, updater
<1>2. UpdateTyped /\ InStep /\ phase = "send"
  BY <1>1 DEF UpdateInv, InStep
<1>3. /\ programmed \in Nat /\ written \in Nat /\ length \in Nat /\ position \in Nat
      /\ programmed = position
  BY <1>2, AppAssumption DEF UpdateTyped, InStep
<1>4. NextChunk \in 1 .. length - written
  BY <1>1, <1>3, ChunkFits DEF NextChunk
<1>5. NextChunk \in 1 .. NextChunk
  BY <1>3, <1>4
<1>6. /\ DOMAIN mem' = Addresses
      /\ \A a \in 0 .. programmed + written + NextChunk - 1 : mem'[a] = Byte(image, a)
      /\ \A a \in 0 .. AppSize - 1 : mem'[a] \in {Erased, Byte(image, a)}
      /\ Spared(mem')
      /\ erasedAll /\ MagicFound(mem') => \E k \in Images : Whole(mem', k)
  BY <1>1, <1>5, PartWritten
<1>7. written' \in 0 .. length
  BY <1>1, <1>3, <1>4
<1>8. UpdateTyped'
  BY <1>1, <1>2, <1>6, <1>7 DEF UpdateTyped
<1>9. InStep' /\ ErasedSoFar'
  BY <1>1, <1>2 DEF InStep, ErasedSoFar
<1>10. AcceptedIsThere' /\ PartsAreThere'
  BY <1>1, <1>3, <1>4, <1>6 DEF AcceptedIsThere, PartsAreThere
<1>11. NothingElse' /\ NothingSpoiled'
  BY <1>1, <1>6 DEF NothingElse, NothingSpoiled, Spared
<1>12. MagicIsLast'
  BY <1>1, <1>6 DEF MagicIsLast, MagicFound, HoldsSome, Holds, Whole
<1>13. QED
  BY <1>8, <1>9, <1>10, <1>11, <1>12 DEF UpdateInv

LEMMA WriteReturnsKeeps == ASSUME UpdateInv, WriteReturns PROVE UpdateInv'
<1>1. /\ pc = "write" /\ written = length /\ programmed' = programmed + length /\ pc' = "idle"
      /\ position' = position + length
      /\ phase' = IF position + length = AppSize THEN "done" ELSE "send"
      /\ UNCHANGED <<mem, sector, length, written, image, erasedAll, boot>>
  BY DEF WriteReturns
<1>2. UpdateTyped /\ phase = "send" /\ programmed = position /\ programmed + length <= AppSize
  BY <1>1 DEF UpdateInv, InStep
<1>3. programmed \in Nat /\ length \in Nat /\ written \in Nat /\ position \in Nat /\ AppSize \in Nat
  BY <1>2, AppAssumption DEF UpdateTyped
<1>4. UpdateTyped'
  BY <1>1, <1>2, <1>3 DEF UpdateTyped
<1>5. InStep' /\ ErasedSoFar' /\ PartsAreThere'
  BY <1>1, <1>2 DEF InStep, ErasedSoFar, PartsAreThere
<1>6. AcceptedIsThere'
  <2>1. \A a \in 0 .. programmed + written - 1 : mem[a] = Byte(image, a)
    BY <1>1 DEF UpdateInv, PartsAreThere
  <2>2. QED
    BY <1>1, <1>2, <1>3, <2>1 DEF AcceptedIsThere
<1>7. NothingElse'
  <2>1. \A a \in 0 .. AppSize - 1 : mem[a] \in {Erased, Byte(image, a)}
    BY <1>2 DEF UpdateInv, NothingElse
  <2>2. QED
    BY <1>1, <2>1 DEF NothingElse
<1>8. NothingSpoiled' /\ MagicIsLast'
  BY <1>1 DEF UpdateInv, NothingSpoiled, MagicIsLast, MagicFound, HoldsSome, Holds
<1>9. QED
  BY <1>4, <1>5, <1>6, <1>7, <1>8 DEF UpdateInv

(* KeyboardInterrupt out of a wait, the flash coming ready, the FPGA       *)
(* booted once more: the flash stays, and no call makes progress.          *)
LEMMA OthersKeep ==
  ASSUME UpdateInv, FlashReady \/ HookRaises \/ FpgaRun \/ UNCHANGED vars
  PROVE  UpdateInv'
<1>1. /\ pc' \in {pc, "idle"} /\ boot' \in {boot, "flash", "internal"}
      /\ UNCHANGED <<mem, programmed, sector, length, written, image, position, phase, erasedAll>>
  BY DEF FlashReady, HookRaises, FpgaRun, BootSource, vars, update, updater
<1>2. UpdateTyped'
  BY <1>1 DEF UpdateInv, UpdateTyped
<1>3. InStep' /\ ErasedSoFar' /\ AcceptedIsThere' /\ PartsAreThere' /\ NothingElse'
  BY <1>1 DEF UpdateInv, InStep, ErasedSoFar, AcceptedIsThere, PartsAreThere, NothingElse
<1>4. NothingSpoiled' /\ MagicIsLast'
  BY <1>1 DEF UpdateInv, NothingSpoiled, MagicIsLast, MagicFound, HoldsSome, Holds
<1>5. QED
  BY <1>2, <1>3, <1>4 DEF UpdateInv

(* A restart, whatever is left in the flash, if the image is not spoiled.  *)
LEMMA RestartKeeps ==
  ASSUME UpdateInv, Restart, DOMAIN mem' = Addresses, Spared(mem'),
         erasedAll /\ MagicFound(mem') => \E k \in Images : Whole(mem', k)
  PROVE  UpdateInv'
<1>1. /\ programmed' = 0 /\ pc' = "idle" /\ sector' = 0 /\ length' = 0 /\ written' = 0
      /\ phase' = "none" /\ position' = 0 /\ boot' \in {"flash", "internal"}
      /\ UNCHANGED <<image, erasedAll>>
  BY DEF Restart, BootSource
<1>2. AppSize \in Nat /\ AppSectors \in Nat
  BY AppAssumption, SectorsCover
<1>3. UpdateTyped'
  BY <1>1, <1>2 DEF UpdateInv, UpdateTyped
<1>4. InStep' /\ ErasedSoFar' /\ AcceptedIsThere' /\ PartsAreThere' /\ NothingElse'
  BY <1>1 DEF InStep, ErasedSoFar, AcceptedIsThere, PartsAreThere, NothingElse
<1>5. NothingSpoiled' /\ MagicIsLast'
  BY <1>1 DEF NothingSpoiled, Spared, MagicIsLast, MagicFound, HoldsSome, Holds, Whole
<1>6. QED
  BY <1>3, <1>4, <1>5 DEF UpdateInv

LEMMA ResetKeeps == ASSUME UpdateInv, Reset PROVE UpdateInv'
<1>1. Restart
  BY DEF Reset
<1>2. /\ DOMAIN mem' = Addresses
      /\ Spared(mem')
      /\ erasedAll /\ MagicFound(mem') => \E k \in Images : Whole(mem', k)
  <2>1. CASE mem' = mem
    BY <2>1 DEF UpdateInv, UpdateTyped, NothingSpoiled, Spared, MagicIsLast, HoldsSome, Holds, Whole
  <2>2. ASSUME pc = "write", written < length, NEW n \in 1 .. NextChunk,
               mem' = Programmed(mem, programmed + written, Data(written), n)
        PROVE  /\ DOMAIN mem' = Addresses
               /\ Spared(mem')
               /\ erasedAll /\ MagicFound(mem') => \E k \in Images : Whole(mem', k)
    BY <2>2, PartWritten
  <2>3. QED
    BY <2>1, <2>2 DEF Reset, CutChunk
<1>3. QED
  BY <1>1, <1>2, RestartKeeps

LEMMA UpdateNext == UpdateInv /\ [Next]_vars => UpdateInv'
<1> SUFFICES ASSUME UpdateInv, [Next]_vars PROVE UpdateInv'
  OBVIOUS
<1>1. CASE CallErase \/ EraseSector \/ EraseReturns
  BY <1>1, CallEraseKeeps, EraseSectorKeeps, EraseReturnsKeeps
<1>2. CASE CallWrite \/ WriteChunk \/ WriteReturns
  BY <1>2, CallWriteKeeps, WriteChunkKeeps, WriteReturnsKeeps
<1>3. CASE FlashReady \/ HookRaises \/ FpgaRun \/ UNCHANGED vars
  BY <1>3, OthersKeep
<1>4. CASE Reset
  BY <1>4, ResetKeeps
<1>5. QED
  BY <1>1, <1>2, <1>3, <1>4 DEF Next

-----------------------------------------------------------------------------
(* What the invariant is for.                                              *)

LEMMA SafeUpdate ==
  ASSUME UpdateInv
  PROVE  AcceptedIsProgrammed /\ FinishedImageIsWhole /\ NothingSpoiled
<1>1. AcceptedIsProgrammed
  BY DEF UpdateInv, InStep, AcceptedIsThere, AcceptedIsProgrammed
<1>2. FinishedImageIsWhole
  <2> SUFFICES ASSUME phase = "done" PROVE Holds(image)
    BY DEF FinishedImageIsWhole
  <2>1. position = AppSize /\ \A a \in 0 .. position - 1 : mem[a] = Byte(image, a)
    BY DEF UpdateInv, InStep, AcceptedIsThere
  <2>2. QED
    BY <2>1 DEF Holds
<1>3. QED
  BY <1>1, <1>2 DEF UpdateInv

LEMMA SafeBoot == UpdateInv' /\ (Reset \/ FpgaRun) => HalfWrittenNotBooted
<1> SUFFICES ASSUME UpdateInv', Reset \/ FpgaRun, boot' = "flash", erasedAll PROVE HoldsSome'
  BY DEF HalfWrittenNotBooted
<1>1. MagicFound(mem') /\ erasedAll'
  BY DEF Reset, Restart, FpgaRun, BootSource
<1>2. MagicIsLast'
  BY DEF UpdateInv
<1>3. QED
  BY <1>1, <1>2 DEF MagicIsLast, MagicFound

(* The updater alone on its flash is safe; below the block device is       *)
(* beside it.                                                              *)
THEOREM UpdateSafe == Spec => [](AcceptedIsProgrammed /\ FinishedImageIsWhole /\ NothingSpoiled)
<1>1. Spec => []UpdateInv
  BY UpdateInit, UpdateNext, PTL DEF Spec
<1>2. QED
  BY <1>1, SafeUpdate, PTL

-----------------------------------------------------------------------------
(* The block device beside the update.                                     *)

(* A call of the block device works behind the FPGA image.                 *)
InDevice ==
  /\ device.start \in Int /\ device.start >= StorageBase
  /\ progress \in Nat
  /\ call.step \in {"none", "erase", "ioctl", "write", "read"}
  /\ call.step \in {"erase", "ioctl", "write"} => call.address \in Nat /\ call.address >= StorageBase
  /\ call.step \in {"erase", "write"} => call.length \in Nat /\ progress < call.length

AllInv == UpdateInv /\ InDevice

(* No sector that holds a part of the image reaches into the device.       *)
LEMMA SectorsEndBeforeDevice ==
  /\ StorageBase \in Nat
  /\ AppSectors * SectorSize <= StorageBase
<1> DEFINE q == StorageBase \div SectorSize
<1>1. /\ SectorSize \in Nat \ {0} /\ StorageBase \in Nat /\ StorageBase % SectorSize = 0
      /\ AppSize \in Nat \ {0} /\ AppSize <= StorageBase
  BY FlashAssumption, AppAssumption, StorageAssumption, UsersAssumption
<1>2. q \in Int /\ StorageBase = SectorSize * q
  <2>1. q \in Int /\ StorageBase = SectorSize * q + (StorageBase % SectorSize)
    BY <1>1, Division
  <2>2. SectorSize * q \in Int
    BY <1>1, <2>1
  <2>3. QED
    BY <1>1, <2>1, <2>2
<1> HIDE DEF q
<1> DEFINE sum == AppSize + SectorSize - 1
<1>3. /\ AppSectors \in Nat
      /\ 0 <= sum % SectorSize /\ sum % SectorSize \in Int
      /\ sum = SectorSize * AppSectors + (sum % SectorSize)
  <2>1. sum \in Int
    BY <1>1
  <2>2. QED
    BY <1>1, <2>1, Division, SectorsCover DEF AppSectors
<1> DEFINE covered == SectorSize * AppSectors
<1>4. covered \in Int /\ covered = AppSectors * SectorSize /\ covered < AppSize + SectorSize
  BY <1>1, <1>3
<1>5. AppSectors <= q
  <2>1. SUFFICES ASSUME q + 1 <= AppSectors PROVE FALSE
    BY <1>2, <1>3
  <2>2. SectorSize * (q + 1) <= covered
    BY <1>1, <1>2, <1>3, <2>1, Monotone
  <2>3. SectorSize * (q + 1) = StorageBase + SectorSize
    BY <1>1, <1>2
  <2>4. QED
    BY <1>1, <1>4, <2>2, <2>3
<1>6. covered <= StorageBase
  BY <1>1, <1>2, <1>3, <1>5, Monotone
<1>7. QED
  BY <1>1, <1>4, <1>6

(* The part of the flash in front of the device is as it was.              *)
FrontKept == DOMAIN mem' = Addresses /\ \A a \in Addresses : a < StorageBase => mem'[a] = mem[a]

LEMMA InFront ==
  /\ \A a \in 0 .. AppSize - 1 : a \in Addresses /\ a < StorageBase
  /\ \A a \in AppSize .. AppSectors * SectorSize - 1 : a \in Addresses /\ a < StorageBase
  /\ AppSize - 1 \in 0 .. AppSize - 1
<1>1. /\ AppSize \in Nat \ {0} /\ StorageBase \in Nat /\ FlashSize \in Nat
      /\ StorageBase <= FlashSize /\ AppSize <= StorageBase
      /\ AppSectors * SectorSize \in Nat /\ AppSectors * SectorSize <= StorageBase
  BY FlashAssumption, AppAssumption, StorageAssumption, UsersAssumption, SectorsCover, SectorsEndBeforeDevice
<1>2. QED
  BY <1>1 DEF Addresses

LEMMA FrontIsEnough ==
  ASSUME UpdateInv, FrontKept
  PROVE  /\ Spared(mem')
         /\ erasedAll /\ MagicFound(mem') => \E k \in Images : Whole(mem', k)
         /\ \A a \in 0 .. AppSize - 1 : mem'[a] = mem[a]
<1>1. \A a \in 0 .. AppSize - 1 : mem'[a] = mem[a]
  BY InFront DEF FrontKept
<1>2. \A a \in AppSize .. AppSectors * SectorSize - 1 : mem'[a] = mem[a]
  BY InFront DEF FrontKept
<1>3. Spared(mem')
  BY <1>1, <1>2 DEF UpdateInv, NothingSpoiled, Spared
<1>4. MagicFound(mem') <=> MagicFound(mem)
  BY <1>1, InFront DEF MagicFound
<1>5. \A k \in Images : Holds(k) => Whole(mem', k)
  BY <1>1 DEF Holds, Whole
<1>6. QED
  BY <1>1, <1>3, <1>4, <1>5 DEF UpdateInv, MagicIsLast, HoldsSome

(* A step of the block device leaves the update as it was.                 *)
LEMMA BesideUpdate ==
  ASSUME UpdateInv, FrontKept, UNCHANGED <<update, updater, erasedAll, boot>>
  PROVE  UpdateInv'
<1>1. UNCHANGED <<programmed, pc, sector, length, written, image, position, phase, erasedAll, boot>>
  BY DEF update, updater
<1>2. /\ \A a \in 0 .. AppSize - 1 : mem'[a] = mem[a]
      /\ Spared(mem')
      /\ erasedAll /\ MagicFound(mem') => \E k \in Images : Whole(mem', k)
  BY FrontIsEnough
<1>3. /\ AppSize \in Nat /\ AppSectors \in Nat /\ SectorSize \in Nat
      /\ AppSectors * SectorSize \in Nat /\ AppSectors * SectorSize <= StorageBase /\ StorageBase \in Nat
  BY FlashAssumption, AppAssumption, SectorsCover, SectorsEndBeforeDevice
<1>4. UpdateTyped /\ UpdateTyped'
  BY <1>1 DEF UpdateInv, UpdateTyped, FrontKept
<1>5. InStep' /\ AcceptedIsThere' /\ PartsAreThere' /\ NothingElse'
  <2>1. InStep'
    BY <1>1 DEF UpdateInv, InStep
  <2>2. AcceptedIsThere'
    BY <1>1, <1>2, <1>3, <1>4 DEF UpdateInv, UpdateTyped, AcceptedIsThere
  <2>3. PartsAreThere'
    <3>1. SUFFICES ASSUME pc = "write", NEW a \in 0 .. programmed + written - 1
                   PROVE  mem'[a] = Byte(image, a)
      BY <1>1 DEF PartsAreThere
    <3>2. programmed \in Nat /\ written \in Nat /\ length \in Nat /\ written <= length
          /\ programmed + length <= AppSize
      BY <1>3, <1>4, <3>1 DEF UpdateInv, UpdateTyped, InStep
    <3>3. a \in 0 .. AppSize - 1 /\ mem[a] = Byte(image, a)
      BY <1>3, <3>1, <3>2 DEF UpdateInv, PartsAreThere
    <3>4. QED
      BY <1>2, <3>3
  <2>4. NothingElse'
    BY <1>1, <1>2 DEF UpdateInv, NothingElse
  <2>5. QED
    BY <2>1, <2>2, <2>3, <2>4
<1>6. ErasedSoFar'
  <2>1. SUFFICES ASSUME pc = "erase", NEW a \in Addresses, a < sector * SectorSize
                 PROVE  mem'[a] = Erased
    BY <1>1 DEF ErasedSoFar
  <2>2. sector \in Nat /\ sector <= AppSectors
    BY <1>3, <1>4 DEF UpdateTyped
  <2>3. SectorSize * sector <= SectorSize * AppSectors
    BY <1>3, <2>2, Monotone
  <2>4. SectorSize * sector = sector * SectorSize /\ SectorSize * AppSectors = AppSectors * SectorSize
        /\ sector * SectorSize \in Nat
    BY <1>3, <2>2
  <2>5. a < StorageBase
    BY <1>3, <2>1, <2>3, <2>4, FlashAssumption DEF Addresses
  <2>6. QED
    BY <2>1, <2>5 DEF UpdateInv, ErasedSoFar, FrontKept
<1>7. NothingSpoiled' /\ MagicIsLast'
  BY <1>1, <1>2 DEF NothingSpoiled, Spared, MagicIsLast, MagicFound, HoldsSome, Holds, Whole
<1>8. QED
  BY <1>4, <1>5, <1>6, <1>7 DEF UpdateInv

(* A program command of the block device, whole or cut.                    *)
LEMMA PartBehind ==
  ASSUME UpdateInv, InDevice, call.step = "write", NEW n \in 1 .. NextPart,
         mem' = Programmed(mem, call.address + progress, CallData(progress), n)
  PROVE  FrontKept
<1> DEFINE at == call.address + progress
<1> DEFINE left == call.length - progress
<1>1. /\ at \in Nat /\ at >= StorageBase /\ left \in Nat \ {0}
      /\ StorageBase \in Nat /\ DOMAIN mem = Addresses
  BY SectorsEndBeforeDevice DEF InDevice, UpdateInv, UpdateTyped
<1>2. NextPart = ChunkLength(at, left)
  BY DEF NextPart
<1> HIDE DEF at, left
<1>3. NextPart \in 1 .. left /\ (at % PageSize) + NextPart <= PageSize
  BY <1>1, <1>2, ChunkFits
<1>4. n \in Nat /\ (at % PageSize) + n <= PageSize
  <2>1. at % PageSize \in Int /\ PageSize \in Int
    BY <1>1, FlashAssumption, Division
  <2> DEFINE into == at % PageSize
  <2>2. into \in Int /\ into + NextPart <= PageSize /\ NextPart \in Int
    BY <1>1, <1>3, <2>1
  <2> HIDE DEF into
  <2>3. n \in Nat /\ n <= NextPart
    BY <2>2
  <2>4. into + n <= PageSize
    BY <2>1, <2>2, <2>3
  <2>5. QED
    BY <2>3, <2>4 DEF into
<1>5. mem' = [a \in Addresses |-> IF a \in at .. at + n - 1
                                  THEN ProgramCell(mem[a], CallData(progress)[a - at]) ELSE mem[a]]
  BY <1>1, <1>4, ProgramsInPlace DEF at
<1>6. \A a \in Addresses : a < StorageBase => a \notin at .. at + n - 1
  BY <1>1, <1>4, FlashAssumption DEF Addresses
<1>7. QED
  BY <1>5, <1>6 DEF FrontKept

-----------------------------------------------------------------------------
(* The steps of the block device.                                          *)

LEMMA BlocksBehind ==
  ASSUME InDevice, NEW b \in DeviceBlocks
  PROVE  Address(b) \in Int /\ Address(b) >= StorageBase
<1>1. b \in Nat /\ SectorSize \in Nat
  BY FlashAssumption DEF DeviceBlocks
<1>2. b * SectorSize \in Nat
  BY <1>1
<1>3. device.start \in Int /\ device.start >= StorageBase /\ StorageBase \in Nat
  BY SectorsEndBeforeDevice DEF InDevice
<1>4. QED
  BY <1>2, <1>3 DEF Address

(* A call that is made.                                                    *)
LEMMA CalledInDevice ==
  ASSUME InDevice, CallWriteBlock \/ CallWritePiece \/ CallEraseBlock \/ CallReadBlock
  PROVE  InDevice' /\ mem' = mem
<1> USE SectorsEndBeforeDevice
<1>1. CASE CallWriteBlock
  <2>1. PICK b \in DeviceBlocks, d \in BlockData, n \in Lengths :
          \/ End(<<"raised">>)
          \/ Goto([step |-> "erase", block |-> b, address |-> Address(b), from |-> 0,
                   length |-> n, data |-> d, whole |-> n = SectorSize])
    BY <1>1 DEF CallWriteBlock
  <2>2. n \in Nat /\ n > 0
    BY StorageAssumption, FlashAssumption
  <2>3. Address(b) \in Int /\ Address(b) >= StorageBase
    BY BlocksBehind
  <2>4. QED
    BY <1>1, <2>1, <2>2, <2>3 DEF CallWriteBlock, InDevice, End, Goto, NoCall
<1>2. CASE CallWritePiece
  <2>1. PICK b \in DeviceBlocks, d \in BlockData, p \in Pieces :
          \/ End(<<"done">>)
          \/ /\ p[2] # 0
             /\ Goto([step |-> "write", block |-> b, address |-> Address(b) + p[1], from |-> p[1],
                      length |-> p[2], data |-> d, whole |-> FALSE])
    BY <1>2 DEF CallWritePiece
  <2>2. p[1] \in Nat /\ p[2] \in Nat
    BY StorageAssumption
  <2>3. Address(b) \in Int /\ Address(b) >= StorageBase
    BY BlocksBehind
  <2>4. QED
    BY <1>2, <2>1, <2>2, <2>3 DEF CallWritePiece, InDevice, End, Goto, NoCall
<1>3. CASE CallEraseBlock
  <2>1. PICK b \in DeviceBlocks :
          \/ End(<<"raised">>)
          \/ Goto([step |-> "ioctl", block |-> b, address |-> Address(b), length |-> SectorSize, whole |-> FALSE])
    BY <1>3 DEF CallEraseBlock
  <2>2. Address(b) \in Int /\ Address(b) >= StorageBase
    BY BlocksBehind
  <2>3. QED
    BY <1>3, <2>1, <2>2 DEF CallEraseBlock, InDevice, End, Goto, NoCall
<1>4. CASE CallReadBlock
  BY <1>4 DEF CallReadBlock, InDevice, Goto
<1>5. QED
  BY <1>1, <1>2, <1>3, <1>4

(* A call that ends.                                                       *)
LEMMA EndInDevice ==
  ASSUME InDevice, call' = NoCall, progress' = 0, device' = device
  PROVE  InDevice'
<1>1. call'.step = "none"
  BY DEF NoCall
<1>2. device'.start \in Int /\ device'.start >= StorageBase
  BY DEF InDevice
<1>3. QED
  BY <1>1, <1>2 DEF InDevice

(* A command that is sent, and an interrupt of the wait before it.         *)
LEMMA CommandInDevice ==
  ASSUME UpdateInv, InDevice, EraseBlock \/ WritePart \/ ReadBlock \/ StorageRaises
  PROVE  InDevice' /\ FrontKept
<1>0. DOMAIN mem = Addresses
  BY DEF UpdateInv, UpdateTyped
<1>1. CASE EraseBlock
  <2>1. /\ call.address \in Nat /\ call.address >= StorageBase
        /\ mem' = SectorErased(mem, call.address)
    BY <1>1 DEF EraseBlock, InDevice
  <2>2. FrontKept
    BY <1>0, <2>1, SectorsEndBeforeDevice, FlashAssumption DEF FrontKept, SectorErased, Addresses
  <2>3. CASE call.step = "ioctl"
    <3>1. call' = NoCall /\ progress' = 0 /\ device' = device
      BY <1>1, <2>3 DEF EraseBlock, End
    <3>2. QED
      BY <2>2, <3>1, EndInDevice
  <2>4. CASE call.step = "erase"
    <3>1. CASE ~InFlash(call.address, call.length)
      <4>1. call.step # "ioctl"
        BY <2>4
      <4>2. call' = NoCall /\ progress' = 0 /\ device' = device
        BY <1>1, <3>1, <4>1 DEF EraseBlock, End
      <4>3. QED
        BY <2>2, <4>2, EndInDevice
    <3>2. CASE InFlash(call.address, call.length)
      <4>1. /\ call' = [call EXCEPT !.step = "write"] /\ progress' = 0 /\ UNCHANGED device
        BY <1>1, <2>4, <3>2 DEF EraseBlock, Goto
      <4>2. call'.step = "write" /\ call'.address = call.address /\ call'.length = call.length
        BY <4>1
      <4>3. call.length \in Nat /\ progress < call.length /\ progress \in Nat
        BY <2>4 DEF InDevice
      <4>4. call.length \in Nat /\ 0 < call.length
        BY <4>3
      <4>5. /\ call'.step \in {"none", "erase", "ioctl", "write", "read"}
            /\ call'.address \in Nat /\ call'.address >= StorageBase
            /\ call'.length \in Nat /\ progress' < call'.length /\ progress' \in Nat
        BY <2>1, <4>1, <4>2, <4>4
      <4>6. device'.start \in Int /\ device'.start >= StorageBase
        BY <4>1 DEF InDevice
      <4>7. QED
        BY <2>2, <4>5, <4>6 DEF InDevice
    <3>3. QED
      BY <3>1, <3>2
  <2>5. QED
    BY <1>1, <2>2, <2>3, <2>4 DEF EraseBlock
<1>2. CASE WritePart
  <2>1. /\ call.step = "write" /\ mem' = Programmed(mem, call.address + progress, CallData(progress), NextPart)
    BY <1>2 DEF WritePart
  <2>2. /\ call.address \in Nat /\ call.length \in Nat /\ progress \in Nat /\ progress < call.length
        /\ call.address + progress \in Nat /\ call.length - progress \in Nat \ {0}
    BY <2>1, SectorsEndBeforeDevice DEF InDevice
  <2>3. NextPart \in 1 .. call.length - progress
    BY <2>2, ChunkFits DEF NextPart
  <2>4. NextPart \in 1 .. NextPart
    BY <2>2, <2>3
  <2>5. FrontKept
    BY <2>1, <2>4, PartBehind
  <2>6. CASE progress + NextPart = call.length
    BY <1>2, <2>5, <2>6 DEF WritePart, InDevice, End, NoCall
  <2>7. CASE progress + NextPart # call.length
    <3>1. progress' = progress + NextPart /\ UNCHANGED <<device, call>>
      BY <1>2, <2>7 DEF WritePart
    <3>2. progress' \in Nat /\ progress' < call.length
      BY <2>2, <2>3, <2>7, <3>1
    <3>3. QED
      BY <2>5, <3>1, <3>2 DEF InDevice
  <2>8. QED
    BY <2>6, <2>7
<1>3. CASE ReadBlock \/ StorageRaises
  BY <1>0, <1>3 DEF ReadBlock, StorageRaises, End, NoCall, InDevice, FrontKept
<1>4. QED
  BY <1>1, <1>2, <1>3

-----------------------------------------------------------------------------
(* The steps of the update beside it.                                      *)

LEMMA DeviceStays ==
  ASSUME InDevice, UNCHANGED <<device, call, progress>>
  PROVE  InDevice'
BY DEF InDevice

LEMMA AllInitInv == AllInit => AllInv
<1> SUFFICES ASSUME AllInit PROVE AllInv
  OBVIOUS
<1>1. UpdateInv
  BY UpdateInit DEF AllInit
<1>2. InDevice
  <2>1. PICK b \in StartLengths : Accepted(b[1], b[2]) /\ device = [start |-> b[1], length |-> b[2]]
    BY DEF AllInit, StorageInit
  <2>2. b[1] \in Int /\ b[1] >= StorageBase
    BY <2>1, StorageAssumption DEF Accepted
  <2>3. QED
    BY <2>1, <2>2 DEF AllInit, StorageInit, InDevice, NoCall
<1>3. QED
  BY <1>1, <1>2 DEF AllInv

LEMMA ResetAllKeeps == ASSUME AllInv, ResetAll PROVE AllInv'
<1>1. UpdateInv /\ InDevice /\ Restart
  BY DEF AllInv, ResetAll
<1>2. InDevice'
  BY <1>1 DEF ResetAll, End, NoCall, InDevice
<1>3. UpdateInv'
  <2>1. CASE top = "update"
    BY <1>1, <2>1, ResetKeeps DEF ResetAll, Reset
  <2>2. CASE top # "update"
    <3>1. CutPart(mem')
      BY <2>2 DEF ResetAll
    <3>2. FrontKept
      <4>1. CASE mem' = mem
        BY <1>1, <4>1 DEF FrontKept, UpdateInv, UpdateTyped
      <4>2. ASSUME call.step = "write", NEW n \in 1 .. NextPart,
                   mem' = Programmed(mem, call.address + progress, CallData(progress), n)
            PROVE  FrontKept
        BY <1>1, <4>2, PartBehind
      <4>3. QED
        BY <3>1, <4>1, <4>2 DEF CutPart
    <3>3. QED
      BY <1>1, <3>2, FrontIsEnough, RestartKeeps DEF FrontKept
  <2>3. QED
    BY <2>1, <2>2
<1>4. QED
  BY <1>2, <1>3 DEF AllInv

LEMMA AllNextInv == AllInv /\ [AllNext]_allVars => AllInv'
<1> SUFFICES ASSUME AllInv, [AllNext]_allVars PROVE AllInv'
  OBVIOUS
<1>0. UpdateInv /\ InDevice
  BY DEF AllInv
<1>1. CASE UpdateCalled \/ UpdateGoesOn \/ Booted \/ Ready
  <2>1. [Next]_vars
    BY <1>1 DEF UpdateCalled, UpdateGoesOn, Booted, Ready, Next
  <2>2. UNCHANGED <<device, call, progress>>
    BY <1>1 DEF UpdateCalled, UpdateGoesOn, Booted, Ready, StorageStays
  <2>3. QED
    BY <1>0, <2>1, <2>2, UpdateNext, DeviceStays DEF AllInv
<1>2. CASE StorageCalled
  <2>1. InDevice' /\ mem' = mem /\ UNCHANGED <<update, updater, erasedAll, boot>>
    BY <1>0, <1>2, CalledInDevice DEF StorageCalled
  <2>2. FrontKept
    BY <1>0, <2>1 DEF FrontKept, UpdateInv, UpdateTyped
  <2>3. QED
    BY <1>0, <2>1, <2>2, BesideUpdate DEF AllInv
<1>3. CASE StorageGoesOn
  <2>1. InDevice' /\ FrontKept /\ UNCHANGED <<update, updater, erasedAll, boot>>
    BY <1>0, <1>3, CommandInDevice DEF StorageGoesOn
  <2>2. QED
    BY <1>0, <2>1, BesideUpdate DEF AllInv
<1>4. CASE ResetAll
  BY <1>4, ResetAllKeeps
<1>5. CASE UNCHANGED allVars
  <2>1. UNCHANGED vars /\ UNCHANGED <<device, call, progress>>
    BY <1>5 DEF allVars, storage
  <2>2. QED
    BY <1>0, <2>1, UpdateNext, DeviceStays DEF AllInv
<1>6. QED
  BY <1>1, <1>2, <1>3, <1>4, <1>5 DEF AllNext

LEMMA AllSafe == AllSpec => []AllInv
BY AllInitInv, AllNextInv, PTL DEF AllSpec

-----------------------------------------------------------------------------
(* While pieces are sent, fpga_app_programmed_bytes and the updater agree, *)
(* and all that update_fpga_app_write has accepted is in the flash,        *)
(* whatever the block device does in between.                              *)
THEOREM AcceptedStaysProgrammed == AllSpec => []AcceptedIsProgrammed
<1>1. AllInv => AcceptedIsProgrammed
  BY SafeUpdate DEF AllInv
<1>2. QED
  BY <1>1, AllSafe, PTL

(* When the updater has sent its last piece the whole image is there,      *)
(* however often KeyboardInterrupt or a reset cut a call, and although     *)
(* callbacks used the block device in the waits of update_fpga_app_write.  *)
THEOREM FinishedStaysWhole == AllSpec => []FinishedImageIsWhole
<1>1. AllInv => FinishedImageIsWhole
  BY SafeUpdate DEF AllInv
<1>2. QED
  BY <1>1, AllSafe, PTL

(* monocle_flash_write never sends more than the rest of a page or of a    *)
(* transfer: nothing is programmed over other data of an image or behind   *)
(* it, and storage_writeblocks reaches no sector of it.                    *)
THEOREM NothingIsSpoiled == AllSpec => []NothingSpoiled
<1>1. AllInv => NothingSpoiled
  BY SafeUpdate DEF AllInv
<1>2. QED
  BY <1>1, AllSafe, PTL

(* monocle_fpga_reset boots the FPGA from the flash only with a whole      *)
(* image there, unless an erase was cut: the magic word is written last,   *)
(* and nothing else writes it.                                             *)
THEOREM WrittenIsBooted == AllSpec => BootAfterWrite
<1>1. AllInv' => [(Reset \/ FpgaRun) => HalfWrittenNotBooted]_vars
  BY SafeBoot DEF AllInv
<1>2. QED
  BY <1>1, AllSafe, PTL DEF BootAfterWrite

-----------------------------------------------------------------------------
(* The block device.                                                       *)

(* The object that storage_make_new made, and what the arguments of a call *)
(* have to do with the block that was named.                               *)
DeviceTyped ==
  /\ device.start \in Nat /\ device.length \in Nat
  /\ device.start + device.length <= FlashSize
CallSound ==
  /\ call.step = "ioctl" => call.length = SectorSize /\ ~call.whole
  /\ call.step = "erase" => call.length >= SectorSize
  /\ call.step = "write" => answer = <<"none">>
  /\ call.step = "read" => call.block \in DeviceBlocks
  /\ call.step \in {"erase", "write"} /\ call.whole =>
       /\ call.block \in DeviceBlocks /\ call.address = Address(call.block)
       /\ call.from = 0 /\ call.length = SectorSize

(* A call for a whole block has erased it, and then stored its data up to  *)
(* bytes_written.                                                          *)
WholeSoFar ==
  call.step = "write" /\ call.whole =>
    \A i \in 0 .. SectorSize - 1 :
      mem[call.address + i] = IF i < progress THEN BlockByte(call.data, i) ELSE Erased

DeviceInv == AllInv /\ DeviceTyped /\ CallSound /\ WholeSoFar

-----------------------------------------------------------------------------
(* The blocks in the flash.                                                *)

LEMMA BlockInFlash ==
  ASSUME DeviceTyped, InDevice, NEW b \in DeviceBlocks
  PROVE  /\ b \in Nat /\ Address(b) \in Nat
         /\ Address(b) = device.start + SectorSize * b
         /\ \A i \in 0 .. SectorSize - 1 : Address(b) + i \in Addresses /\ Address(b) + i >= StorageBase
<1> DEFINE q == device.length \div SectorSize
<1>1. /\ SectorSize \in Nat \ {0} /\ FlashSize \in Nat /\ StorageBase \in Nat
      /\ device.start \in Nat /\ device.start >= StorageBase
      /\ device.length \in Nat /\ device.start + device.length <= FlashSize
  BY FlashAssumption, SectorsEndBeforeDevice DEF DeviceTyped, InDevice
<1>2. q \in Int /\ SectorSize * q <= device.length
  <2>1. q \in Int /\ device.length = SectorSize * q + (device.length % SectorSize)
        /\ device.length % SectorSize \in Nat
    BY <1>1, Division
  <2>2. SectorSize * q \in Int
    BY <1>1, <2>1
  <2> HIDE DEF q
  <2>3. QED
    BY <1>1, <2>1, <2>2
<1>3. b \in 0 .. q - 1
  BY DEF DeviceBlocks, BlockCount
<1> HIDE DEF q
<1>4. b \in Nat /\ b + 1 <= q
  BY <1>2, <1>3
<1>5. SectorSize * (b + 1) <= SectorSize * q
  BY <1>1, <1>2, <1>4, Monotone
<1>6. SectorSize * (b + 1) = SectorSize * b + SectorSize /\ SectorSize * b \in Nat /\ SectorSize * q \in Int
  BY <1>1, <1>2, <1>4
<1>7. b * SectorSize = SectorSize * b
  BY <1>1, <1>4
<1>8. Address(b) = device.start + SectorSize * b
  BY <1>7 DEF Address
<1>9. Address(b) \in Nat /\ Address(b) >= StorageBase /\ Address(b) + SectorSize <= FlashSize
  BY <1>1, <1>2, <1>5, <1>6, <1>8
<1>10. QED
  BY <1>1, <1>4, <1>8, <1>9 DEF Addresses

LEMMA BlocksApart ==
  ASSUME DeviceTyped, InDevice, NEW b \in DeviceBlocks, NEW c \in DeviceBlocks,
         NEW i \in 0 .. SectorSize - 1, NEW j \in 0 .. SectorSize - 1,
         Address(b) + i = Address(c) + j
  PROVE  b = c
<1>1. SectorSize \in Nat \ {0} /\ device.start \in Nat
  BY FlashAssumption DEF DeviceTyped
<1>2. /\ b \in Nat /\ c \in Nat
      /\ Address(b) = device.start + SectorSize * b /\ Address(c) = device.start + SectorSize * c
  BY BlockInFlash
<1> DEFINE before(k) == SectorSize * k
<1>3. before(b) \in Int /\ before(c) \in Int /\ before(b + 1) = before(b) + SectorSize
      /\ before(c + 1) = before(c) + SectorSize
  BY <1>1, <1>2
<1>4. b < c => before(b + 1) <= before(c)
  BY <1>1, <1>2, Monotone
<1>5. c < b => before(c + 1) <= before(b)
  BY <1>1, <1>2, Monotone
<1>6. before(b) + i = before(c) + j
  <2>1. Address(b) = device.start + before(b) /\ Address(c) = device.start + before(c)
    BY <1>2
  <2> HIDE DEF before
  <2>2. QED
    BY <1>1, <1>3, <2>1
<1> HIDE DEF before
<1>7. QED
  BY <1>1, <1>2, <1>3, <1>4, <1>5, <1>6

(* A part of monocle_flash_write, sent whole or cut.                       *)
LEMMA PartInPlace ==
  ASSUME NEW at \in Nat, NEW left \in Nat \ {0}, NEW n \in 1 .. ChunkLength(at, left), NEW data,
         DOMAIN mem = Addresses
  PROVE  /\ n \in 1 .. left
         /\ Programmed(mem, at, data, n) =
              [a \in Addresses |-> IF a \in at .. at + n - 1
                                   THEN ProgramCell(mem[a], data[a - at]) ELSE mem[a]]
<1> DEFINE most == ChunkLength(at, left)
<1> DEFINE into == at % PageSize
<1>1. most \in 1 .. left /\ into + most <= PageSize
  BY ChunkFits
<1>2. into \in Int /\ PageSize \in Int
  BY FlashAssumption, Division
<1>3. n \in 1 .. most
  OBVIOUS
<1> HIDE DEF most, into
<1>4. n \in 1 .. left /\ n \in Nat /\ into + n <= PageSize
  BY <1>1, <1>2, <1>3
<1>5. QED
  BY <1>4, ProgramsInPlace DEF into

(* The part of the flash behind the image is as it was.                    *)
BackKept == \A a \in Addresses : a >= StorageBase => mem'[a] = mem[a]

LEMMA UpdateInFront ==
  ASSUME UpdateInv, EraseSector \/ WriteChunk \/ CutChunk
  PROVE  BackKept
<1>1. /\ DOMAIN mem = Addresses /\ AppSize \in Nat /\ SectorSize \in Nat \ {0}
      /\ AppSectors \in Nat /\ AppSectors * SectorSize \in Nat /\ StorageBase \in Nat
      /\ AppSectors * SectorSize <= StorageBase /\ AppSize <= StorageBase
  BY AppAssumption, FlashAssumption, UsersAssumption, SectorsCover, SectorsEndBeforeDevice
     DEF UpdateInv, UpdateTyped
<1>2. ASSUME EraseSector PROVE BackKept
  <2> DEFINE at == sector * SectorSize
  <2>1. sector \in Nat /\ sector + 1 <= AppSectors /\ mem' = SectorErased(mem, at)
    BY <1>1, <1>2 DEF EraseSector, UpdateInv, UpdateTyped
  <2>2. SectorSize * (sector + 1) <= SectorSize * AppSectors
    BY <1>1, <2>1, Monotone
  <2>3. at \in Nat /\ SectorSize * (sector + 1) = at + SectorSize
        /\ SectorSize * AppSectors = AppSectors * SectorSize
    BY <1>1, <2>1
  <2> HIDE DEF at
  <2>4. \A a \in Addresses : a >= StorageBase => a \notin at .. at + SectorSize - 1
    BY <1>1, <2>2, <2>3, FlashAssumption DEF Addresses
  <2>5. QED
    BY <1>1, <2>1, <2>4 DEF BackKept, SectorErased
<1>3. ASSUME pc = "write", written < length, NEW n \in 1 .. NextChunk,
             mem' = Programmed(mem, programmed + written, Data(written), n)
      PROVE  BackKept
  <2> DEFINE at == programmed + written
  <2> DEFINE left == length - written
  <2>1. /\ programmed \in Nat /\ written \in Nat /\ length \in Nat
        /\ programmed + length <= AppSize
    BY <1>1, <1>3 DEF UpdateInv, UpdateTyped, InStep
  <2>2. at \in Nat /\ left \in Nat \ {0} /\ at + left <= AppSize
    BY <1>1, <1>3, <2>1
  <2>3. NextChunk = ChunkLength(at, left) /\ mem' = Programmed(mem, at, Data(written), n)
    BY <1>3 DEF NextChunk
  <2> HIDE DEF at, left
  <2>4. /\ n \in 1 .. left
        /\ mem' = [a \in Addresses |-> IF a \in at .. at + n - 1
                                       THEN ProgramCell(mem[a], Data(written)[a - at]) ELSE mem[a]]
    BY <1>1, <2>2, <2>3, PartInPlace
  <2>5. \A a \in Addresses : a >= StorageBase => a \notin at .. at + n - 1
    BY <1>1, <2>2, <2>4, FlashAssumption DEF Addresses
  <2>6. QED
    BY <2>4, <2>5 DEF BackKept
<1>4. ASSUME WriteChunk PROVE BackKept
  <2>1. programmed + written \in Nat /\ length - written \in Nat \ {0}
    BY <1>1, <1>4 DEF WriteChunk, UpdateInv, UpdateTyped
  <2>2. NextChunk \in 1 .. NextChunk
    BY <2>1, ChunkFits DEF NextChunk
  <2>3. QED
    BY <1>3, <1>4, <2>2 DEF WriteChunk
<1>5. ASSUME CutChunk PROVE BackKept
  BY <1>3, <1>5 DEF CutChunk, BackKept
<1>6. QED
  BY <1>2, <1>4, <1>5

-----------------------------------------------------------------------------
(* What a step shows of the device.                                        *)

\* One block after a step that left its cells alone.
LEMMA BlockKept ==
  ASSUME DeviceTyped, InDevice, device' = device, NEW b \in DeviceBlocks,
         \A i \in 0 .. SectorSize - 1 : mem'[Address(b) + i] = mem[Address(b) + i]
  PROVE  Content(b)' = Content(b)
<1>1. Address(b)' = Address(b)
  BY DEF Address
<1>2. QED
  BY <1>1 DEF Content

LEMMA DeviceKept ==
  ASSUME DeviceTyped, InDevice, device' = device, BackKept, NEW b \in DeviceBlocks
  PROVE  Content(b)' = Content(b)
BY BlockInFlash, BlockKept DEF BackKept

\* A step that changed no cell but those a call is for.
LEMMA KeptOutside ==
  ASSUME DeviceTyped, InDevice, device' = device, call.address \in Nat, call.length \in Nat,
         \A a \in Addresses : a \notin call.address .. call.address + call.length - 1 => mem'[a] = mem[a],
         NEW b \in DeviceBlocks, b \notin CallBlocks
  PROVE  Content(b)' = Content(b)
<1>1. ASSUME NEW i \in 0 .. SectorSize - 1
      PROVE  mem'[Address(b) + i] = mem[Address(b) + i]
  <2>1. Address(b) + i \in Addresses /\ Address(b) \in Nat /\ SectorSize \in Nat
    BY BlockInFlash, FlashAssumption
  <2>2. ASSUME Address(b) + i \in call.address .. call.address + call.length - 1
        PROVE  FALSE
    <3> DEFINE k == Address(b) + i - call.address
    <3>1. k \in 0 .. call.length - 1 /\ call.address + k = Address(b) + i
      BY <2>1, <2>2
    <3>2. call.address + k \in Address(b) .. Address(b) + SectorSize - 1
      BY <2>1, <3>1
    <3> HIDE DEF k
    <3>3. QED
      BY <3>1, <3>2 DEF CallBlocks
  <2>3. QED
    BY <2>1, <2>2
<1>2. QED
  BY <1>1, BlockKept

LEMMA OthersAreKept ==
  ASSUME device' = device, \A b \in DeviceBlocks \ Change.blocks : Content(b)' = Content(b)
  PROVE  Device!OthersKept
<1>1. DeviceBlocks' = DeviceBlocks
  BY DEF DeviceBlocks, BlockCount
<1>2. QED
  BY <1>1 DEF Device!OthersKept, Device!Blocks

LEMMA NoWriteNoChange ==
  /\ ~Writes => Change = Device!NoChange
  /\ ~Writes' => Change' = Device!NoChange
  /\ Idle => ~Writes
  /\ call' = NoCall => ~Writes'
BY DEF Change, Writes, Device!NoChange, Idle, NoCall

LEMMA SameChange ==
  ASSUME UNCHANGED <<device, call>>
  PROVE  Change' = Change
<1>1. DeviceBlocks' = DeviceBlocks /\ \A b : Address(b)' = Address(b)
  BY DEF DeviceBlocks, BlockCount, Address
<1>2. CallBlocks' = CallBlocks
  BY <1>1 DEF CallBlocks
<1>3. \A d : Stored(d)' = Stored(d)
  BY DEF Stored, BlockByte
<1>4. QED
  BY <1>2, <1>3 DEF Change, Writes

\* A step of the update, a boot, a wait that is over.
LEMMA Beside ==
  ASSUME DeviceInv, BackKept, UNCHANGED <<device, call, progress>>, answer' \in {answer, <<"none">>}
  PROVE  DeviceTyped' /\ CallSound' /\ WholeSoFar'
<1>1. DeviceTyped /\ CallSound /\ WholeSoFar /\ InDevice
  BY DEF DeviceInv, AllInv
<1>2. DeviceTyped'
  BY <1>1 DEF DeviceTyped
<1>3. DeviceBlocks' = DeviceBlocks /\ \A b : Address(b)' = Address(b)
  BY DEF DeviceBlocks, BlockCount, Address
<1>4. CallSound'
  BY <1>1, <1>3 DEF CallSound
<1>5. WholeSoFar'
  <2>1. SUFFICES ASSUME call.step = "write", call.whole, NEW i \in 0 .. SectorSize - 1
                 PROVE  mem'[call.address + i] = IF i < progress THEN BlockByte(call.data, i) ELSE Erased
    BY DEF WholeSoFar, BlockByte
  <2>2. call.block \in DeviceBlocks /\ call.address = Address(call.block)
    BY <1>1, <2>1 DEF CallSound
  <2>3. mem'[call.address + i] = mem[call.address + i]
    BY <1>1, <2>2, BlockInFlash DEF BackKept
  <2>4. QED
    BY <1>1, <2>1, <2>3 DEF WholeSoFar
<1>6. QED
  BY <1>2, <1>4, <1>5

LEMMA BesideDevice ==
  ASSUME DeviceInv, BackKept, UNCHANGED <<device, call>>, answer' = <<"none">>
  PROVE  Device!Disturb
<1>1. \A b \in DeviceBlocks : Content(b)' = Content(b)
  BY DeviceKept DEF DeviceInv, AllInv
<1>2. Change' = Change
  BY SameChange
<1>3. Device!OthersKept
  BY <1>1, OthersAreKept
<1>4. QED
  BY <1>2, <1>3 DEF Device!Disturb

\* A call that ends.
LEMMA EndSound ==
  ASSUME DeviceInv, call' = NoCall, device' = device
  PROVE  DeviceTyped' /\ CallSound' /\ WholeSoFar'
BY DEF DeviceInv, DeviceTyped, CallSound, WholeSoFar, NoCall

-----------------------------------------------------------------------------
(* The steps.                                                              *)

LEMMA CalledStep ==
  ASSUME DeviceInv, StorageCalled
  PROVE  /\ DeviceTyped' /\ CallSound' /\ WholeSoFar'
         /\ Device!Next
<1>0. DeviceTyped /\ CallSound /\ InDevice
  BY DEF DeviceInv, AllInv
<1>1. mem' = mem /\ device' = device /\ Idle
  BY DEF StorageCalled, CallWriteBlock, CallWritePiece, CallEraseBlock, CallReadBlock, End, Goto
<1>2. Change = Device!NoChange
  BY <1>1, NoWriteNoChange
<1>3. DeviceBlocks' = DeviceBlocks /\ \A b : Address(b)' = Address(b)
  BY <1>1 DEF DeviceBlocks, BlockCount, Address
<1>4. \A b \in DeviceBlocks : Content(b)' = Content(b)
  BY <1>1, <1>3 DEF Content
<1>5. Device!OthersKept
  BY <1>1, <1>4, OthersAreKept
<1>6. ASSUME call' = NoCall, answer' \in {<<"raised">>, <<"done">>}
      PROVE  DeviceTyped' /\ CallSound' /\ WholeSoFar' /\ Device!Next
  <2>1. Change' = Device!NoChange
    BY <1>6, NoWriteNoChange
  <2>2. DeviceTyped' /\ CallSound' /\ WholeSoFar'
    BY <1>1, <1>6, EndSound
  <2>3. Device!Disturb \/ Device!Succeed
    BY <1>2, <1>5, <1>6, <2>1 DEF Device!Disturb, Device!Succeed, Device!NoChange
  <2>4. QED
    BY <2>2, <2>3 DEF Device!Next
<1>7. ASSUME answer' = <<"none">> PROVE Device!Next
  <2>1. Change'.blocks \subseteq DeviceBlocks
    BY <1>3 DEF Change, CallBlocks
  <2>2. [b \in DeviceBlocks |-> Content(b)]' = [b \in DeviceBlocks |-> Content(b)]
    BY <1>3, <1>4
  <2>3. Device!Begin
    BY <1>2, <1>7, <2>1, <2>2 DEF Device!Begin, Device!Blocks
  <2>4. QED
    BY <2>3 DEF Device!Next
<1>8. DeviceTyped'
  BY <1>0, <1>1 DEF DeviceTyped
<1>9. CASE CallWriteBlock
  <2>1. PICK b \in DeviceBlocks, d \in BlockData, n \in Lengths :
          \/ End(<<"raised">>)
          \/ Goto([step |-> "erase", block |-> b, address |-> Address(b), from |-> 0,
                   length |-> n, data |-> d, whole |-> n = SectorSize])
    BY <1>9 DEF CallWriteBlock
  <2>2. n >= SectorSize
    BY StorageAssumption
  <2>3. CASE End(<<"raised">>)
    BY <1>6, <2>3 DEF End
  <2>4. CASE Goto([step |-> "erase", block |-> b, address |-> Address(b), from |-> 0,
                   length |-> n, data |-> d, whole |-> n = SectorSize])
    <3>1. /\ call'.step = "erase" /\ call'.block = b /\ call'.address = Address(b) /\ call'.from = 0
          /\ call'.length = n /\ (call'.whole <=> n = SectorSize) /\ answer' = <<"none">>
      BY <2>4 DEF Goto
    <3>2. CallSound' /\ WholeSoFar'
      BY <1>3, <2>2, <3>1 DEF CallSound, WholeSoFar
    <3>3. QED
      BY <1>7, <1>8, <3>1, <3>2
  <2>5. QED
    BY <2>1, <2>3, <2>4
<1>10. CASE CallWritePiece
  <2>1. PICK b \in DeviceBlocks, d \in BlockData, p \in Pieces :
          \/ End(<<"done">>)
          \/ Goto([step |-> "write", block |-> b, address |-> Address(b) + p[1], from |-> p[1],
                   length |-> p[2], data |-> d, whole |-> FALSE])
    BY <1>10 DEF CallWritePiece
  <2>2. CASE End(<<"done">>)
    BY <1>6, <2>2 DEF End
  <2>3. CASE Goto([step |-> "write", block |-> b, address |-> Address(b) + p[1], from |-> p[1],
                   length |-> p[2], data |-> d, whole |-> FALSE])
    <3>1. call'.step = "write" /\ ~call'.whole /\ answer' = <<"none">>
      BY <2>3 DEF Goto
    <3>2. CallSound' /\ WholeSoFar'
      BY <3>1 DEF CallSound, WholeSoFar
    <3>3. QED
      BY <1>7, <1>8, <3>1, <3>2
  <2>4. QED
    BY <2>1, <2>2, <2>3
<1>11. CASE CallEraseBlock
  <2>1. PICK b \in DeviceBlocks :
          \/ End(<<"raised">>)
          \/ Goto([step |-> "ioctl", block |-> b, address |-> Address(b), length |-> SectorSize, whole |-> FALSE])
    BY <1>11 DEF CallEraseBlock
  <2>2. CASE End(<<"raised">>)
    BY <1>6, <2>2 DEF End
  <2>3. CASE Goto([step |-> "ioctl", block |-> b, address |-> Address(b), length |-> SectorSize, whole |-> FALSE])
    <3>1. call'.step = "ioctl" /\ ~call'.whole /\ call'.length = SectorSize /\ answer' = <<"none">>
      BY <2>3 DEF Goto
    <3>2. CallSound' /\ WholeSoFar'
      BY <3>1 DEF CallSound, WholeSoFar
    <3>3. QED
      BY <1>7, <1>8, <3>1, <3>2
  <2>4. QED
    BY <2>1, <2>2, <2>3
<1>12. CASE CallReadBlock
  <2>1. call'.step = "read" /\ call'.block \in DeviceBlocks /\ answer' = <<"none">>
    BY <1>12 DEF CallReadBlock, Goto
  <2>2. CallSound' /\ WholeSoFar'
    BY <1>3, <2>1 DEF CallSound, WholeSoFar
  <2>3. QED
    BY <1>7, <1>8, <2>1, <2>2
<1>13. QED
  BY <1>9, <1>10, <1>11, <1>12 DEF StorageCalled

\* A part that is programmed changes only cells its call is for, and goes on
\* where a call for a whole block has come to.
LEMMA PartStored ==
  ASSUME DeviceInv, call.step = "write", NEW n \in 1 .. NextPart,
         mem' = Programmed(mem, call.address + progress, CallData(progress), n)
  PROVE  /\ call.address \in Nat /\ call.length \in Nat /\ progress \in Nat
         /\ progress + n <= call.length
         /\ \A a \in Addresses : a \notin call.address .. call.address + call.length - 1 => mem'[a] = mem[a]
         /\ call.whole => \A i \in 0 .. SectorSize - 1 :
              mem'[call.address + i] = IF i < progress + n THEN BlockByte(call.data, i) ELSE Erased
<1> DEFINE at == call.address + progress
<1> DEFINE left == call.length - progress
<1> DEFINE data == CallData(progress)
<1>0. DeviceTyped /\ CallSound /\ WholeSoFar /\ InDevice /\ DOMAIN mem = Addresses
  BY DEF DeviceInv, AllInv, UpdateInv, UpdateTyped
<1>1. /\ call.address \in Nat /\ call.length \in Nat /\ progress \in Nat
      /\ at \in Nat /\ left \in Nat \ {0} /\ call.length = progress + left
  BY <1>0 DEF InDevice
<1>2. NextPart = ChunkLength(at, left) /\ mem' = Programmed(mem, at, data, n)
  BY DEF NextPart
<1> HIDE DEF left, data
<1>3. /\ n \in 1 .. left
      /\ mem' = [a \in Addresses |-> IF a \in at .. at + n - 1
                                     THEN ProgramCell(mem[a], data[a - at]) ELSE mem[a]]
  <2> HIDE DEF at
  <2>1. QED
    BY <1>0, <1>1, <1>2, PartInPlace
<1>4. progress + n <= call.length
  BY <1>1, <1>3
<1>5. \A a \in Addresses : a \notin call.address .. call.address + call.length - 1 => mem'[a] = mem[a]
  <2>1. \A a \in Int : a \in at .. at + n - 1 => a \in call.address .. call.address + call.length - 1
    BY <1>1, <1>3
  <2>2. Addresses \subseteq Int
    BY FlashAssumption DEF Addresses
  <2>3. QED
    BY <1>3, <2>1, <2>2
<1>6. ASSUME call.whole, NEW i \in 0 .. SectorSize - 1
      PROVE  mem'[call.address + i] = IF i < progress + n THEN BlockByte(call.data, i) ELSE Erased
  <2>1. /\ call.address = Address(call.block) /\ call.block \in DeviceBlocks
        /\ call.from = 0 /\ call.length = SectorSize
    BY <1>0, <1>6 DEF CallSound
  <2>2. call.address + i \in Addresses /\ SectorSize \in Nat
    BY <1>0, <2>1, BlockInFlash, FlashAssumption
  <2>3. mem[call.address + i] = IF i < progress THEN BlockByte(call.data, i) ELSE Erased
    BY <1>0, <1>6 DEF WholeSoFar
  <2>4. CASE call.address + i \in at .. at + n - 1
    <3>1. /\ progress <= i /\ i < progress + n
          /\ i - progress \in 0 .. call.length - 1 - progress
          /\ call.address + i - at = i - progress
          /\ call.from + progress + (i - progress) = i
      BY <1>1, <1>3, <1>4, <2>1, <2>2, <2>4
    <3>2. data[i - progress] = BlockByte(call.data, call.from + progress + (i - progress))
      BY <3>1 DEF data, CallData
    <3> HIDE DEF at
    <3> DEFINE a == call.address + i
    <3>3. a \in Addresses /\ a \in at .. at + n - 1 /\ a - at = i - progress
      <4>1. a \in Addresses
        BY <2>2
      <4>2. a \in at .. at + n - 1
        BY <2>4
      <4>3. a - at = i - progress
        BY <1>1, <3>1 DEF at
      <4>4. QED
        BY <4>1, <4>2, <4>3
    <3>4. mem[a] = Erased
      BY <1>1, <2>3, <3>1
    <3> HIDE DEF a
    <3>5. mem'[a] = BlockByte(call.data, i)
      <4>1. mem'[a] = ProgramCell(mem[a], data[a - at])
        BY <1>3, <3>3
      <4>2. data[a - at] = BlockByte(call.data, i)
        BY <3>1, <3>2, <3>3
      <4>3. QED
        BY <3>4, <4>1, <4>2 DEF ProgramCell
    <3>6. QED
      BY <3>1, <3>5 DEF a
  <2>5. CASE call.address + i \notin at .. at + n - 1
    <3>1. mem'[call.address + i] = mem[call.address + i]
      BY <1>3, <2>2, <2>5
    <3>2. i < progress <=> i < progress + n
      BY <1>1, <1>3, <2>2, <2>5
    <3>3. QED
      BY <2>3, <3>1, <3>2
  <2>6. QED
    BY <2>4, <2>5
<1>7. QED
  BY <1>1, <1>4, <1>5, <1>6

\* The only block of a call for a whole block is the one it names.
LEMMA WholeBlock ==
  ASSUME DeviceTyped, CallSound, InDevice, call.step = "write", call.whole, NEW b \in CallBlocks
  PROVE  b = call.block /\ b \in DeviceBlocks /\ call.address = Address(b)
<1>1. call.block \in DeviceBlocks /\ call.address = Address(call.block) /\ call.length = SectorSize
  BY DEF CallSound
<1>2. PICK i \in 0 .. SectorSize - 1 :
        call.address + i \in Address(b) .. Address(b) + SectorSize - 1
  BY <1>1 DEF CallBlocks
<1>3. b \in DeviceBlocks
  BY DEF CallBlocks
<1> DEFINE j == call.address + i - Address(b)
<1>4. Address(b) \in Nat /\ call.address \in Nat /\ SectorSize \in Nat
  BY <1>1, <1>3, BlockInFlash, FlashAssumption
<1>5. j \in 0 .. SectorSize - 1 /\ Address(call.block) + i = Address(b) + j
  BY <1>1, <1>2, <1>4
<1> HIDE DEF j
<1>6. call.block = b
  BY <1>1, <1>3, <1>5, BlocksApart
<1>7. QED
  BY <1>1, <1>3, <1>6

LEMMA EraseStep ==
  ASSUME DeviceInv, EraseBlock
  PROVE  /\ DeviceTyped' /\ CallSound' /\ WholeSoFar'
         /\ Device!Next
<1>0. DeviceTyped /\ CallSound /\ InDevice /\ DOMAIN mem = Addresses /\ SectorSize \in Nat \ {0}
  BY FlashAssumption DEF DeviceInv, AllInv, UpdateInv, UpdateTyped
<1>1. call.step \in {"erase", "ioctl"} /\ mem' = SectorErased(mem, call.address) /\ device' = device
  BY DEF EraseBlock, End, Goto
<1>2. call.address \in Nat /\ call.length \in Nat /\ call.length >= SectorSize
  BY <1>0, <1>1 DEF InDevice, CallSound
<1>3. \A a \in Addresses : mem'[a] = IF a \in call.address .. call.address + SectorSize - 1
                                     THEN Erased ELSE mem[a]
  BY <1>0, <1>1 DEF SectorErased
<1>4. \A a \in Addresses : a \notin call.address .. call.address + call.length - 1 => mem'[a] = mem[a]
  BY <1>0, <1>2, <1>3, FlashAssumption DEF Addresses
<1>5. Change.blocks = CallBlocks
  BY <1>1 DEF Change, Writes
<1>6. Device!OthersKept
  BY <1>0, <1>1, <1>2, <1>4, <1>5, KeptOutside, OthersAreKept
<1>7. CASE call.step = "ioctl"
  <2>1. call' = NoCall /\ answer' = <<"done">>
    BY <1>7 DEF EraseBlock, End
  <2>2. Change.data = Anything
    BY <1>0, <1>7 DEF Change, Writes, CallSound
  <2>3. Device!Succeed
    BY <1>6, <2>1, <2>2, NoWriteNoChange DEF Device!Succeed
  <2>4. QED
    BY <1>1, <2>1, <2>3, EndSound DEF Device!Next
<1>8. CASE call.step = "erase" /\ ~InFlash(call.address, call.length)
  <2>1. call' = NoCall /\ answer' = <<"raised">>
    BY <1>8 DEF EraseBlock, End
  <2>2. Device!Disturb
    BY <1>6, <2>1, NoWriteNoChange DEF Device!Disturb
  <2>3. QED
    BY <1>1, <2>1, <2>2, EndSound DEF Device!Next
<1>9. CASE call.step = "erase" /\ InFlash(call.address, call.length)
  <2>1. call' = [call EXCEPT !.step = "write"] /\ progress' = 0 /\ answer' = <<"none">>
    BY <1>9 DEF EraseBlock, Goto
  <2>2. /\ call'.step = "write" /\ call'.address = call.address /\ call'.length = call.length
        /\ call'.block = call.block /\ call'.data = call.data /\ call'.from = call.from
        /\ call'.whole = call.whole
    BY <2>1
  <2>3. DeviceBlocks' = DeviceBlocks /\ \A b : Address(b)' = Address(b)
    BY <1>1 DEF DeviceBlocks, BlockCount, Address
  <2>4. DeviceTyped'
    BY <1>0, <1>1 DEF DeviceTyped
  <2>5. CallSound'
    BY <1>0, <1>9, <2>1, <2>2, <2>3 DEF CallSound
  <2>6. WholeSoFar'
    <3>1. SUFFICES ASSUME call.whole, NEW i \in 0 .. SectorSize - 1
                   PROVE  mem'[call.address + i] = IF i < 0 THEN BlockByte(call.data, i) ELSE Erased
      BY <2>1, <2>2 DEF WholeSoFar, BlockByte
    <3>2. call.block \in DeviceBlocks /\ call.address = Address(call.block)
      BY <1>0, <1>9, <3>1 DEF CallSound
    <3>3. call.address + i \in Addresses
      BY <1>0, <3>2, BlockInFlash
    <3>4. call.address + i \in call.address .. call.address + SectorSize - 1 /\ ~(i < 0)
      BY <1>0, <1>2
    <3>5. QED
      BY <1>3, <3>3, <3>4
  <2>7. Change' = Change
    <3>1. CallBlocks' = CallBlocks
      BY <2>2, <2>3 DEF CallBlocks
    <3>2. Stored(call.data)' = Stored(call.data)
      BY <2>2 DEF Stored, BlockByte
    <3>3. Writes /\ Writes'
      BY <1>9, <2>2 DEF Writes
    <3>4. QED
      BY <2>2, <3>1, <3>2, <3>3 DEF Change
  <2>8. Device!Disturb
    BY <1>6, <2>1, <2>7 DEF Device!Disturb
  <2>9. QED
    BY <2>4, <2>5, <2>6, <2>8 DEF Device!Next
<1>10. QED
  BY <1>1, <1>7, <1>8, <1>9

LEMMA WriteStep ==
  ASSUME DeviceInv, WritePart
  PROVE  /\ DeviceTyped' /\ CallSound' /\ WholeSoFar'
         /\ Device!Next
<1>0. DeviceTyped /\ CallSound /\ InDevice
  BY DEF DeviceInv, AllInv
<1>1. /\ call.step = "write" /\ device' = device
      /\ mem' = Programmed(mem, call.address + progress, CallData(progress), NextPart)
  BY DEF WritePart, End
<1>2. NextPart \in 1 .. NextPart
  <2>1. call.address + progress \in Nat /\ call.length - progress \in Nat \ {0}
    BY <1>0, <1>1 DEF InDevice
  <2>2. QED
    BY <2>1, ChunkFits DEF NextPart
<1>3. /\ call.address \in Nat /\ call.length \in Nat /\ progress \in Nat
      /\ \A a \in Addresses : a \notin call.address .. call.address + call.length - 1 => mem'[a] = mem[a]
      /\ call.whole => \A i \in 0 .. SectorSize - 1 :
           mem'[call.address + i] = IF i < progress + NextPart THEN BlockByte(call.data, i) ELSE Erased
  BY <1>1, <1>2, PartStored
<1>4. Change.blocks = CallBlocks
  BY <1>1 DEF Change, Writes
<1>5. Device!OthersKept
  BY <1>0, <1>1, <1>3, <1>4, KeptOutside, OthersAreKept
<1>6. DeviceBlocks' = DeviceBlocks /\ \A b : Address(b)' = Address(b)
  BY <1>1 DEF DeviceBlocks, BlockCount, Address
<1>7. CASE progress + NextPart = call.length
  <2>1. call' = NoCall /\ answer' = <<"done">>
    BY <1>7 DEF WritePart, End
  <2>2. ASSUME call.whole, NEW b \in CallBlocks
        PROVE  Content(b)' = Stored(call.data)
    <3>1. b \in DeviceBlocks /\ call.address = Address(b) /\ call.length = SectorSize
      BY <1>0, <1>1, <2>2, WholeBlock DEF CallSound
    <3>2. ASSUME NEW i \in 0 .. SectorSize - 1
          PROVE  mem'[Address(b) + i] = BlockByte(call.data, i)
      <4>1. i < progress + NextPart
        BY <1>3, <1>7, <3>1
      <4>2. QED
        BY <1>3, <2>2, <3>1, <4>1
    <3>3. QED
      BY <1>6, <3>2 DEF Content, Stored
  <2>3. Change.data # Anything => call.whole /\ Change.data = Stored(call.data)
    BY <1>1 DEF Change, Writes
  <2>4. \A b \in CallBlocks : b \in DeviceBlocks
    BY DEF CallBlocks
  <2>5. Change.data # Anything =>
          \A b \in Change.blocks : [c \in DeviceBlocks |-> Content(c)]'[b] = Change.data
    BY <1>4, <1>6, <2>2, <2>3, <2>4
  <2>6. Device!Succeed
    BY <1>5, <2>1, <2>5, NoWriteNoChange DEF Device!Succeed
  <2>7. QED
    BY <1>1, <2>1, <2>6, EndSound DEF Device!Next
<1>8. CASE progress + NextPart # call.length
  <2>1. progress' = progress + NextPart /\ UNCHANGED <<device, call, answer>>
    BY <1>8 DEF WritePart
  <2>2. DeviceTyped' /\ CallSound'
    BY <1>0, <1>1, <1>6, <2>1 DEF DeviceTyped, CallSound
  <2>3. WholeSoFar'
    BY <1>3, <2>1 DEF WholeSoFar, BlockByte
  <2>4. Change' = Change
    BY <2>1, SameChange
  <2>5. QED
    BY <1>0, <1>1, <1>5, <2>1, <2>2, <2>3, <2>4 DEF CallSound, Device!Next, Device!Disturb
<1>9. QED
  BY <1>7, <1>8

LEMMA GoesOnStep ==
  ASSUME DeviceInv, StorageGoesOn
  PROVE  /\ DeviceTyped' /\ CallSound' /\ WholeSoFar'
         /\ Device!Next
<1>0. CallSound
  BY DEF DeviceInv
<1>1. CASE EraseBlock
  BY <1>1, EraseStep
<1>2. CASE WritePart
  BY <1>2, WriteStep
<1>3. CASE ReadBlock \/ StorageRaises
  <2>1. call' = NoCall /\ device' = device /\ mem' = mem
    BY <1>3 DEF ReadBlock, StorageRaises, End
  <2>2. DeviceBlocks' = DeviceBlocks /\ \A b : Address(b)' = Address(b)
    BY <2>1 DEF DeviceBlocks, BlockCount, Address
  <2>3. \A b \in DeviceBlocks : Content(b)' = Content(b)
    BY <2>1, <2>2 DEF Content
  <2>4. Device!OthersKept
    BY <2>1, <2>3, OthersAreKept
  <2>5. Change' = Device!NoChange
    BY <2>1, NoWriteNoChange
  <2>6. CASE StorageRaises
    BY <2>1, <2>4, <2>5, <2>6, EndSound DEF StorageRaises, End, Device!Next, Device!Disturb
  <2>7. CASE ReadBlock
    <3>1. Change = Device!NoChange
      BY <2>7, NoWriteNoChange DEF ReadBlock, Writes
    <3>2. call.block \in DeviceBlocks /\ answer' = <<"read", call.block, Content(call.block)>>
      BY <1>0, <2>7 DEF ReadBlock, End, CallSound
    <3>3. [b \in DeviceBlocks |-> Content(b)]' = [b \in DeviceBlocks |-> Content(b)]
      BY <2>2, <2>3
    <3>4. Device!Read
      BY <2>5, <3>1, <3>2, <3>3 DEF Device!Read, Device!Blocks
    <3>5. QED
      BY <2>1, <3>4, EndSound DEF Device!Next
  <2>8. QED
    BY <1>3, <2>6, <2>7
<1>4. QED
  BY <1>1, <1>2, <1>3 DEF StorageGoesOn

LEMMA ResetStep ==
  ASSUME DeviceInv, ResetAll
  PROVE  /\ DeviceTyped' /\ CallSound' /\ WholeSoFar'
         /\ Device!Next
<1>0. DeviceTyped /\ CallSound /\ InDevice /\ UpdateInv
  BY DEF DeviceInv, AllInv
<1>1. call' = NoCall /\ device' = device /\ answer' = <<"none">>
  BY DEF ResetAll, End
<1>2. \A b \in DeviceBlocks \ Change.blocks : Content(b)' = Content(b)
  <2>1. CASE CutChunk
    BY <1>0, <1>1, <2>1, UpdateInFront, DeviceKept
  <2>2. CASE mem' = mem
    BY <1>0, <1>1, <2>2, DeviceKept DEF BackKept
  <2>3. ASSUME call.step = "write", NEW n \in 1 .. NextPart,
               mem' = Programmed(mem, call.address + progress, CallData(progress), n)
        PROVE  \A b \in DeviceBlocks \ Change.blocks : Content(b)' = Content(b)
    <3>1. Change.blocks = CallBlocks
      BY <2>3 DEF Change, Writes
    <3>2. /\ call.address \in Nat /\ call.length \in Nat
          /\ \A a \in Addresses : a \notin call.address .. call.address + call.length - 1 => mem'[a] = mem[a]
      BY <2>3, PartStored
    <3>3. QED
      BY <1>0, <1>1, <3>1, <3>2, KeptOutside
  <2>4. QED
    BY <2>1, <2>2, <2>3 DEF ResetAll, CutPart
<1>3. Device!Disturb
  BY <1>1, <1>2, OthersAreKept, NoWriteNoChange DEF Device!Disturb
<1>4. QED
  BY <1>1, <1>3, EndSound DEF Device!Next

LEMMA UpdateStep ==
  ASSUME DeviceInv, UpdateCalled \/ UpdateGoesOn \/ Booted \/ Ready
  PROVE  /\ DeviceTyped' /\ CallSound' /\ WholeSoFar'
         /\ Device!Next
<1>1. UNCHANGED <<device, call, progress>> /\ answer' = <<"none">>
  BY DEF UpdateCalled, UpdateGoesOn, Booted, Ready, StorageStays
<1>2. BackKept
  <2>1. CASE EraseSector \/ WriteChunk
    BY <2>1, UpdateInFront DEF DeviceInv, AllInv
  <2>2. CASE ~(EraseSector \/ WriteChunk)
    <3>1. mem' = mem
      BY <2>2 DEF UpdateCalled, UpdateGoesOn, Booted, Ready, CallErase, CallWrite, EraseReturns,
                  WriteReturns, HookRaises, FpgaRun, FlashReady
    <3>2. QED
      BY <3>1 DEF BackKept
  <2>3. QED
    BY <2>1, <2>2
<1>3. QED
  BY <1>1, <1>2, Beside, BesideDevice DEF Device!Next

LEMMA DeviceStep ==
  ASSUME DeviceInv, [AllNext]_allVars
  PROVE  /\ DeviceInv'
         /\ [Device!Next]_<<[b \in DeviceBlocks |-> Content(b)], Change, answer>>
<1>0. AllInv'
  BY AllNextInv DEF DeviceInv
<1>1. CASE AllNext
  <2>1. DeviceTyped' /\ CallSound' /\ WholeSoFar' /\ Device!Next
    BY <1>1, UpdateStep, CalledStep, GoesOnStep, ResetStep DEF AllNext
  <2>2. QED
    BY <1>0, <2>1 DEF DeviceInv
<1>2. CASE UNCHANGED allVars
  <2>1. UNCHANGED <<device, call, progress, answer, mem>>
    BY <1>2 DEF allVars, vars, storage
  <2>2. DeviceTyped' /\ CallSound' /\ WholeSoFar'
    BY <2>1, Beside DEF BackKept
  <2>3. DeviceBlocks' = DeviceBlocks /\ \A b : Content(b)' = Content(b)
    BY <2>1 DEF DeviceBlocks, BlockCount, Content, Address
  <2>4. Change' = Change
    BY <2>1, SameChange
  <2>5. [b \in DeviceBlocks |-> Content(b)]' = [b \in DeviceBlocks |-> Content(b)]
    BY <2>3
  <2>6. QED
    BY <1>0, <2>1, <2>2, <2>4, <2>5 DEF DeviceInv
<1>3. QED
  BY <1>1, <1>2

LEMMA DeviceStart ==
  ASSUME AllInit
  PROVE  DeviceInv /\ Device!Init
<1>1. AllInv
  BY AllInitInv
<1>2. call = NoCall /\ answer = <<"none">>
  BY DEF AllInit, StorageInit
<1>3. CallSound /\ WholeSoFar
  BY <1>2 DEF CallSound, WholeSoFar, NoCall
<1>4. DeviceTyped
  <2>1. PICK b \in StartLengths : Accepted(b[1], b[2]) /\ device = [start |-> b[1], length |-> b[2]]
    BY DEF AllInit, StorageInit
  <2>2. b[1] \in Int /\ b[2] \in Int /\ StorageBase \in Nat /\ FlashSize \in Nat
    BY StorageAssumption, FlashAssumption
  <2>3. QED
    BY <2>1, <2>2 DEF Accepted, DeviceTyped
<1>5. Device!Init
  BY <1>2, NoWriteNoChange DEF Device!Init, Idle, NoCall
<1>6. QED
  BY <1>1, <1>3, <1>4, <1>5 DEF DeviceInv

-----------------------------------------------------------------------------
(* device.Storage is the block device that BlockStore promises to the file *)
(* system, although callbacks, updates of the FPGA, KeyboardInterrupt and  *)
(* resets come between any two flash commands of a call: no call changes a *)
(* block that is not its own, a write of a block that succeeds has stored  *)
(* its data, and a read returns what is stored.                            *)
THEOREM StorageIsBlockStore == AllSpec => DeviceSpec
<1>1. AllSpec => Device!Init /\ [][Device!Next]_<<[b \in DeviceBlocks |-> Content(b)], Change, answer>>
  BY DeviceStart, DeviceStep, PTL DEF AllSpec
<1>2. QED
  BY <1>1, PTL DEF DeviceSpec, Device!Spec

-----------------------------------------------------------------------------
(* The types.                                                              *)

FlashCells == Cells \cup BlockCells

(* What the flash and the calls hold, and whose call is the innermost.     *)
AllTyped ==
  /\ mem \in [Addresses -> FlashCells]
  /\ busy \in BOOLEAN
  /\ erasedAll \in BOOLEAN
  /\ call.step \in {"erase", "write"} => call.data \in BlockData /\ call.from \in Nat
  /\ top = "storage" => ~Idle
  /\ top = "update" /\ pc = "idle" => Idle

TypedInv == AllInv /\ AllTyped

LEMMA ProgrammedTyped ==
  ASSUME NEW at \in Nat, NEW left \in Nat \ {0}, NEW n \in 1 .. ChunkLength(at, left), NEW data,
         mem \in [Addresses -> FlashCells], \A i \in 0 .. left - 1 : data[i] \in FlashCells
  PROVE  Programmed(mem, at, data, n) \in [Addresses -> FlashCells]
<1>1. /\ n \in 1 .. left
      /\ Programmed(mem, at, data, n) =
           [a \in Addresses |-> IF a \in at .. at + n - 1
                                THEN ProgramCell(mem[a], data[a - at]) ELSE mem[a]]
  BY PartInPlace
<1>2. ASSUME NEW a \in Addresses, a \in at .. at + n - 1
      PROVE  ProgramCell(mem[a], data[a - at]) \in FlashCells
  <2>1. a - at \in 0 .. left - 1
    BY <1>1, <1>2
  <2>2. data[a - at] \in FlashCells /\ Garbage \in FlashCells
    BY <2>1 DEF FlashCells, Cells
  <2>3. QED
    BY <2>2 DEF ProgramCell
<1>3. QED
  BY <1>1, <1>2

LEMMA ErasedTyped ==
  ASSUME mem \in [Addresses -> FlashCells], NEW at
  PROVE  SectorErased(mem, at) \in [Addresses -> FlashCells]
<1>1. Erased \in FlashCells
  BY DEF FlashCells, Cells
<1>2. QED
  BY <1>1 DEF SectorErased

(* What update_fpga_app_write sends.                                       *)
LEMMA ImageTyped ==
  ASSUME UpdateInv, pc = "write", written < length
  PROVE  /\ programmed + written \in Nat /\ length - written \in Nat \ {0}
         /\ \A i \in 0 .. (length - written) - 1 : Data(written)[i] \in FlashCells
<1>1. /\ programmed \in Nat /\ written \in Nat /\ length \in Nat /\ position \in Nat
      /\ programmed = position /\ programmed + length <= AppSize
      /\ AppSize \in Nat /\ FlashSize \in Nat /\ AppSize <= FlashSize /\ image \in Images
  BY AppAssumption, FlashAssumption DEF UpdateInv, UpdateTyped, InStep
<1>2. ASSUME NEW i \in 0 .. (length - written) - 1 PROVE Data(written)[i] \in FlashCells
  <2>1. i \in 0 .. length - 1 - written /\ position + written + i \in Addresses
    BY <1>1 DEF Addresses
  <2>2. Data(written)[i] = Byte(image, position + written + i)
    BY <2>1 DEF Data
  <2>3. QED
    BY <1>1, <2>1, <2>2 DEF FlashCells, Cells
<1>3. QED
  BY <1>1, <1>2

(* What storage_writeblocks sends.                                         *)
LEMMA BlockTyped ==
  ASSUME InDevice, AllTyped, call.step = "write"
  PROVE  /\ call.address + progress \in Nat /\ call.length - progress \in Nat \ {0}
         /\ \A i \in 0 .. (call.length - progress) - 1 : CallData(progress)[i] \in FlashCells
<1>1. /\ call.address \in Nat /\ call.length \in Nat /\ progress \in Nat /\ progress < call.length
      /\ call.data \in BlockData /\ call.from \in Nat /\ SectorSize \in Nat \ {0}
  BY FlashAssumption DEF InDevice, AllTyped
<1>2. ASSUME NEW i \in 0 .. (call.length - progress) - 1 PROVE CallData(progress)[i] \in FlashCells
  <2> DEFINE x == call.from + progress + i
  <2> DEFINE y == x % SectorSize
  <2>1. i \in 0 .. call.length - 1 - progress /\ x \in Nat
    BY <1>1
  <2>2. CallData(progress)[i] = <<call.data, y>>
    BY <2>1 DEF CallData, BlockByte
  <2> HIDE DEF x
  <2>3. y \in 0 .. SectorSize - 1
    BY <1>1, <2>1, Division
  <2> HIDE DEF y
  <2>4. y % SectorSize = y
    BY <1>1, <2>3, SMTT(20)
  <2>5. <<call.data, y>> = BlockByte(call.data, y)
    BY <2>4 DEF BlockByte
  <2>6. <<call.data, y>> \in BlockCells
    BY <1>1, <2>3, <2>5 DEF BlockCells
  <2>7. QED
    BY <2>2, <2>6 DEF FlashCells
<1>3. QED
  BY <1>1, <1>2

LEMMA TypedStart == AllInit => TypedInv
<1> SUFFICES ASSUME AllInit PROVE TypedInv
  OBVIOUS
<1>1. AllInv /\ Init /\ call = NoCall /\ top = "update"
  BY AllInitInv DEF AllInit, StorageInit
<1>2. mem \in [Addresses -> FlashCells]
  <2>1. Erased \in FlashCells /\ \A k \in Images, a \in Addresses : Byte(k, a) \in FlashCells
    BY DEF FlashCells, Cells
  <2>2. CASE mem = [a \in Addresses |-> Erased]
    BY <2>1, <2>2
  <2>3. ASSUME NEW k \in Images, mem = [a \in Addresses |-> IF a < AppSize THEN Byte(k, a) ELSE Erased]
        PROVE  mem \in [Addresses -> FlashCells]
    BY <2>1, <2>3
  <2>4. QED
    BY <1>1, <2>2, <2>3 DEF Init
<1>3. QED
  BY <1>1, <1>2 DEF Init, TypedInv, AllTyped, Idle, NoCall

(* The contents of the flash over a step of the update.                    *)
LEMMA UpdateStepTyped ==
  ASSUME TypedInv, Next \/ CutChunk
  PROVE  mem' \in [Addresses -> FlashCells]
<1>1. UpdateInv /\ mem \in [Addresses -> FlashCells]
  BY DEF TypedInv, AllInv, AllTyped
<1>2. ASSUME pc = "write", written < length, NEW n \in 1 .. NextChunk,
             mem' = Programmed(mem, programmed + written, Data(written), n)
      PROVE  mem' \in [Addresses -> FlashCells]
  <2> DEFINE at == programmed + written
  <2> DEFINE left == length - written
  <2> DEFINE data == Data(written)
  <2>1. at \in Nat /\ left \in Nat \ {0} /\ \A i \in 0 .. left - 1 : data[i] \in FlashCells
    BY <1>1, <1>2, ImageTyped
  <2>2. NextChunk = ChunkLength(at, left) /\ mem' = Programmed(mem, at, data, n)
    BY <1>2 DEF NextChunk
  <2> HIDE DEF at, left, data
  <2>3. QED
    BY <1>1, <2>1, <2>2, ProgrammedTyped
<1>3. CASE WriteChunk
  <2>1. NextChunk \in 1 .. NextChunk
    BY <1>1, <1>3, ImageTyped, ChunkFits DEF WriteChunk, NextChunk
  <2>2. QED
    BY <1>2, <1>3, <2>1 DEF WriteChunk
<1>4. CASE CutChunk
  BY <1>1, <1>2, <1>4 DEF CutChunk
<1>5. CASE EraseSector
  BY <1>1, <1>5, ErasedTyped DEF EraseSector
<1>6. CASE CallErase \/ EraseReturns \/ CallWrite \/ WriteReturns \/ FlashReady \/ HookRaises \/ FpgaRun
  BY <1>1, <1>6 DEF CallErase, EraseReturns, CallWrite, WriteReturns, FlashReady, HookRaises, FpgaRun
<1>7. QED
  BY <1>3, <1>4, <1>5, <1>6 DEF Next, Reset

(* The contents of the flash over a step of the block device.              *)
LEMMA StorageStepTyped ==
  ASSUME TypedInv, EraseBlock \/ WritePart \/ ReadBlock \/ StorageRaises \/ CutPart(mem')
  PROVE  mem' \in [Addresses -> FlashCells]
<1>1. InDevice /\ AllTyped /\ mem \in [Addresses -> FlashCells]
  BY DEF TypedInv, AllInv, AllTyped
<1>2. ASSUME call.step = "write", NEW n \in 1 .. NextPart,
             mem' = Programmed(mem, call.address + progress, CallData(progress), n)
      PROVE  mem' \in [Addresses -> FlashCells]
  <2> DEFINE at == call.address + progress
  <2> DEFINE left == call.length - progress
  <2> DEFINE data == CallData(progress)
  <2>1. at \in Nat /\ left \in Nat \ {0} /\ \A i \in 0 .. left - 1 : data[i] \in FlashCells
    BY <1>1, <1>2, BlockTyped
  <2>2. NextPart = ChunkLength(at, left) /\ mem' = Programmed(mem, at, data, n)
    BY <1>2 DEF NextPart
  <2> HIDE DEF at, left, data
  <2>3. QED
    BY <1>1, <2>1, <2>2, ProgrammedTyped
<1>3. CASE WritePart
  <2>1. NextPart \in 1 .. NextPart
    BY <1>1, <1>3, BlockTyped, ChunkFits DEF WritePart, NextPart
  <2>2. QED
    BY <1>2, <1>3, <2>1 DEF WritePart
<1>4. CASE CutPart(mem')
  BY <1>1, <1>2, <1>4 DEF CutPart
<1>5. CASE EraseBlock
  BY <1>1, <1>5, ErasedTyped DEF EraseBlock
<1>6. QED
  BY <1>1, <1>3, <1>4, <1>5 DEF ReadBlock, StorageRaises

(* What a call of the block device keeps of its arguments.                 *)
LEMMA CallTyped ==
  ASSUME AllTyped, StorageCalled \/ StorageGoesOn
  PROVE  call'.step \in {"erase", "write"} => call'.data \in BlockData /\ call'.from \in Nat
<1>1. call' = NoCall \/ call' = call => (call'.step \in {"erase", "write"} => call'.data \in BlockData /\ call'.from \in Nat)
  BY DEF AllTyped, NoCall
<1>2. CASE CallWriteBlock
  BY <1>1, <1>2 DEF CallWriteBlock, Goto, End
<1>3. CASE CallWritePiece
  BY <1>1, <1>3, StorageAssumption DEF CallWritePiece, Goto, End
<1>4. CASE CallEraseBlock \/ CallReadBlock
  BY <1>1, <1>4 DEF CallEraseBlock, CallReadBlock, Goto, End
<1>5. CASE EraseBlock
  <2>1. CASE call' = [call EXCEPT !.step = "write"] /\ call.step = "erase"
    <3>1. call'.data = call.data /\ call'.from = call.from
      BY <2>1
    <3>2. QED
      BY <2>1, <3>1 DEF AllTyped
  <2>2. QED
    BY <1>1, <1>5, <2>1 DEF EraseBlock, Goto, End
<1>6. CASE WritePart \/ ReadBlock \/ StorageRaises
  BY <1>1, <1>6 DEF WritePart, ReadBlock, StorageRaises, End
<1>7. QED
  BY <1>2, <1>3, <1>4, <1>5, <1>6 DEF StorageCalled, StorageGoesOn

(* Whose call is the innermost.                                            *)
LEMMA TopKept ==
  ASSUME AllTyped, AllNext
  PROVE  /\ top' = "storage" => ~Idle'
         /\ top' = "update" /\ pc' = "idle" => Idle'
<1>1. CASE UpdateCalled
  <2>1. pc = "idle" /\ call' = call
    BY <1>1 DEF UpdateCalled, CallErase, CallWrite, StorageStays
  <2>2. QED
    BY <1>1, <2>1 DEF UpdateCalled, AllTyped, Idle
<1>2. CASE UpdateGoesOn
  BY <1>2 DEF UpdateGoesOn, StorageStays, Idle
<1>3. CASE StorageCalled
  <2>1. Idle
    BY <1>3 DEF StorageCalled, CallWriteBlock, CallWritePiece, CallEraseBlock, CallReadBlock
  <2>2. QED
    BY <1>3, <2>1 DEF StorageCalled, AllTyped, Idle
<1>4. CASE StorageGoesOn
  BY <1>4 DEF StorageGoesOn, Idle
<1>5. CASE Booted \/ Ready
  BY <1>5 DEF Booted, Ready, FpgaRun, FlashReady, StorageStays, AllTyped, Idle, update
<1>6. CASE ResetAll
  BY <1>6 DEF ResetAll, End, NoCall, Idle
<1>7. QED
  BY <1>1, <1>2, <1>3, <1>4, <1>5, <1>6 DEF AllNext

LEMMA FlagsTyped ==
  ASSUME AllTyped, AllNext
  PROVE  busy' \in BOOLEAN /\ erasedAll' \in BOOLEAN
<1>1. busy \in BOOLEAN /\ erasedAll \in BOOLEAN
  BY DEF AllTyped
<1>2. CASE UpdateCalled \/ UpdateGoesOn
  BY <1>1, <1>2 DEF UpdateCalled, UpdateGoesOn, CallErase, CallWrite, EraseSector, EraseReturns, WriteChunk,
                    WriteReturns, HookRaises
<1>3. CASE StorageCalled
  BY <1>1, <1>3 DEF StorageCalled, CallWriteBlock, CallWritePiece, CallEraseBlock, CallReadBlock
<1>4. CASE StorageGoesOn
  BY <1>1, <1>4 DEF StorageGoesOn, EraseBlock, WritePart, ReadBlock, StorageRaises
<1>5. CASE Booted \/ Ready \/ ResetAll
  BY <1>1, <1>5 DEF Booted, Ready, ResetAll, FpgaRun, FlashReady, Restart
<1>6. QED
  BY <1>2, <1>3, <1>4, <1>5 DEF AllNext

LEMMA TypedNext == TypedInv /\ [AllNext]_allVars => TypedInv'
<1> SUFFICES ASSUME TypedInv, [AllNext]_allVars PROVE TypedInv'
  OBVIOUS
<1>1. AllInv' /\ AllTyped
  BY AllNextInv DEF TypedInv
<1>2. CASE UNCHANGED allVars
  BY <1>1, <1>2 DEF allVars, vars, update, updater, storage, TypedInv, AllTyped, Idle
<1>3. CASE AllNext
  <2>1. mem' \in [Addresses -> FlashCells]
    <3>1. CASE UpdateCalled \/ UpdateGoesOn \/ Booted \/ Ready
      BY <3>1, UpdateStepTyped DEF UpdateCalled, UpdateGoesOn, Booted, Ready, Next
    <3>2. CASE StorageCalled
      BY <1>1, <3>2 DEF StorageCalled, CallWriteBlock, CallWritePiece, CallEraseBlock, CallReadBlock, AllTyped
    <3>3. CASE StorageGoesOn
      BY <3>3, StorageStepTyped DEF StorageGoesOn
    <3>4. CASE ResetAll
      BY <3>4, UpdateStepTyped, StorageStepTyped DEF ResetAll
    <3>5. QED
      BY <1>3, <3>1, <3>2, <3>3, <3>4 DEF AllNext
  <2>2. call'.step \in {"erase", "write"} => call'.data \in BlockData /\ call'.from \in Nat
    <3>1. CASE StorageCalled \/ StorageGoesOn
      BY <1>1, <3>1, CallTyped
    <3>2. CASE ResetAll
      BY <3>2 DEF ResetAll, End, NoCall
    <3>3. CASE UpdateCalled \/ UpdateGoesOn \/ Booted \/ Ready
      BY <1>1, <3>3 DEF UpdateCalled, UpdateGoesOn, Booted, Ready, StorageStays, AllTyped
    <3>4. QED
      BY <1>3, <3>1, <3>2, <3>3 DEF AllNext
  <2>3. QED
    BY <1>1, <1>3, <2>1, <2>2, TopKept, FlagsTyped DEF TypedInv, AllTyped
<1>4. QED
  BY <1>2, <1>3

(* Everything keeps its type; the innermost call is the one that goes on,  *)
(* and gives the flash back to the call under it when it ends.             *)
THEOREM AllTypeCorrect == AllSpec => []AllTypeOK
<1>1. TypedInv => AllTypeOK
  <2> SUFFICES ASSUME TypedInv PROVE AllTypeOK
    OBVIOUS
  <2>1. UpdateOK
    BY DEF TypedInv, AllTyped, AllInv, UpdateInv, UpdateTyped, UpdateOK
  <2>2. call.step \in {"none", "erase", "ioctl", "write", "read"} /\ (call.step \in {"write", "erase"} => progress < call.length)
    BY DEF TypedInv, AllInv, InDevice
  <2>3. QED
    BY <2>1, <2>2 DEF TypedInv, AllTyped, AllTypeOK, FlashCells
<1>2. QED
  BY <1>1, TypedStart, TypedNext, PTL DEF AllSpec
=============================================================================
