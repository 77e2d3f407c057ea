------------------------------- MODULE TwiBus -------------------------------
(***************************************************************************)
(* The I2C bus to the PMIC: monocle_i2c_read and monocle_i2c_write on the  *)
(* main thread, interrupted by the handlers that use the bus themselves:   *)
(* the charge check of the 0.5 s timer and the touch interrupt.            *)
(*                                                                         *)
(* A register access is several transfers.  A read first writes the        *)
(* register's address, which the PMIC remembers in its pointer, and then   *)
(* reads from there in a second transfer; a masked write is such a read    *)
(* and a third transfer.  A handler runs whole between two steps of the    *)
(* main thread; when a transfer is in flight its own is refused with       *)
(* NRFX_ERROR_BUSY, and app_err resets the chip.                           *)
(*                                                                         *)
(* A register's value is the set of its bits that are 1.                   *)
(***************************************************************************)
EXTENDS Naturals

CONSTANTS
  Registers,   \* of the PMIC
  Status,      \* STAT_CHG_B, the register the charge check reads
  Bits         \* the bits of a register

ASSUME BusAssumption == Status \in Registers

VARIABLES
  reg,         \* external: the PMIC's registers
  pointer,     \* external: the register the PMIC reads from next
  pc,          \* the next transfer of the main thread, or "idle"
  inFlight,    \* that transfer has been started
  tries,       \* i, how many tries have failed
  target, mask, set,  \* register_address, register_mask and set_value
  writes,      \* the call is monocle_i2c_write
  txOk,        \* tx_err == NRFX_SUCCESS in this try
  value, fail, \* the response: the value read, and whether the call failed
  disturbed    \* history: the charge check ran between address and read

call == <<target, mask, set, writes>>
response == <<value, fail>>
busVars == <<reg, pointer, pc, inFlight, tries, call, txOk, response, disturbed>>

Values == SUBSET Bits
Tries == 3

BusTypeOK ==
  /\ reg \in [Registers -> Values]
  /\ pointer \in Registers
  /\ pc \in {"idle", "address", "read", "write"}
  /\ tries \in 0 .. Tries - 1
  /\ target \in Registers
  /\ {mask, set, value} \subseteq Values
  /\ {inFlight, writes, txOk, fail, disturbed} \subseteq BOOLEAN

\* Start-up, before the first access.
Idle ==
  /\ pc = "idle"
  /\ inFlight = FALSE
  /\ tries = 0
  /\ target = Status
  /\ mask = {}
  /\ set = {}
  /\ writes = FALSE
  /\ txOk = FALSE
  /\ value = {}
  /\ fail = FALSE
  /\ disturbed = FALSE

BusInit == reg \in [Registers -> Values] /\ pointer \in Registers /\ Idle

\* (resp.value & ~register_mask) | (set_value & register_mask)
UpdatedValue == (value \ mask) \cup (set \cap mask)
Written == [reg EXCEPT ![target] = UpdatedValue]

\* app_err: the chip starts again, and the PMIC does not notice; it may have
\* taken the value of a write that was in flight.
Restart ==
  /\ pc' = "idle"
  /\ inFlight' = FALSE
  /\ tries' = 0
  /\ target' = Status
  /\ mask' = {}
  /\ set' = {}
  /\ writes' = FALSE
  /\ txOk' = FALSE
  /\ value' = {}
  /\ fail' = FALSE
  /\ disturbed' = FALSE
  /\ \/ UNCHANGED <<reg, pointer>>
     \/ /\ pc = "write"
        /\ inFlight
        /\ reg' = Written
        /\ pointer' = target

-----------------------------------------------------------------------------
(* monocle_i2c_read and monocle_i2c_write                                  *)

Start(register, first) ==
  /\ pc = "idle"
  /\ pc' = first
  /\ target' = register
  /\ value' = {}
  /\ fail' = FALSE
  /\ tries' = 0
  /\ disturbed' = FALSE
  /\ UNCHANGED <<reg, pointer, inFlight, txOk>>

CallRead ==
  \E r \in Registers, m \in Values :
    /\ Start(r, "address")
    /\ writes' = FALSE
    /\ mask' = m
    /\ UNCHANGED set

\* With the mask 0xFF there is nothing to keep, and nothing is read.
CallWrite ==
  \E r \in Registers \ {Status}, m \in Values, v \in Values :
    /\ Start(r, IF m = Bits THEN "write" ELSE "address")
    /\ writes' = TRUE
    /\ mask' = m
    /\ set' = v

\* nrfx_twim_xfer starts the next transfer and waits for its end.
BeginTransfer ==
  /\ pc # "idle"
  /\ ~inFlight
  /\ inFlight' = TRUE
  /\ UNCHANGED <<reg, pointer, pc, tries, call, txOk, response, disturbed>>

\* The PMIC acknowledges the register's address, or does not.
AddressSent ==
  /\ pc = "address"
  /\ inFlight
  /\ \/ txOk' = TRUE /\ pointer' = target
     \/ txOk' = FALSE /\ UNCHANGED pointer
  /\ inFlight' = FALSE
  /\ pc' = "read"
  /\ disturbed' = FALSE
  /\ UNCHANGED <<reg, tries, call, response>>

\* Mutant: only the second transfer is looked at.
ReadIsGoodIfReceived(rxOk) == rxOk
\* Mutant: the last try is never noticed.
LastTryMissed == tries = Tries

\* The byte arrives, or does not; the read is good if both transfers were.
ReadIsGood(rxOk) == txOk /\ rxOk
LastTry == tries = Tries - 1

ValueRead ==
  /\ pc = "read"
  /\ inFlight
  /\ inFlight' = FALSE
  /\ \E rxOk \in BOOLEAN :
       LET got == IF rxOk THEN reg[pointer] ELSE value
       IN  /\ value' = IF writes THEN got ELSE got \cap mask
           /\ \/ /\ ReadIsGood(rxOk)
                 /\ pc' = IF writes THEN "write" ELSE "idle"
                 /\ tries' = 0
                 /\ UNCHANGED fail
              \/ /\ ~ReadIsGood(rxOk)
                 /\ ~LastTry
                 /\ pc' = "address"
                 /\ tries' = tries + 1
                 /\ UNCHANGED fail
              \/ /\ ~ReadIsGood(rxOk)
                 /\ LastTry
                 /\ pc' = "idle"
                 /\ fail' = TRUE
                 /\ UNCHANGED tries
  /\ UNCHANGED <<reg, pointer, call, txOk, disturbed>>

\* Mutant: the last failed try is not reported.
ValueWrittenQuietly ==
  /\ pc = "write"
  /\ inFlight
  /\ inFlight' = FALSE
  /\ \/ /\ reg' = Written
        /\ pointer' = target
        /\ pc' = "idle"
        /\ UNCHANGED <<tries, fail>>
     \/ /\ tries' = IF LastTry THEN 0 ELSE tries + 1
        /\ pc' = IF LastTry THEN "idle" ELSE "write"
        /\ UNCHANGED <<reg, pointer, fail>>
  /\ UNCHANGED <<call, txOk, value, disturbed>>

\* Mutant: a failed try is not counted.
ValueWrittenForever ==
  /\ pc = "write"
  /\ inFlight
  /\ inFlight' = FALSE
  /\ \/ /\ reg' = Written
        /\ pointer' = target
        /\ pc' = "idle"
     \/ UNCHANGED <<reg, pointer, pc>>
  /\ UNCHANGED <<tries, fail, call, txOk, value, disturbed>>

ValueWritten ==
  /\ pc = "write"
  /\ inFlight
  /\ inFlight' = FALSE
  /\ \/ /\ reg' = Written
        /\ pointer' = target
        /\ pc' = "idle"
        /\ UNCHANGED <<tries, fail>>
     \/ /\ ~LastTry
        /\ tries' = tries + 1
        /\ UNCHANGED <<reg, pointer, pc, fail>>
     \/ /\ LastTry
        /\ pc' = "idle"
        /\ fail' = TRUE
        /\ UNCHANGED <<reg, pointer, tries>>
  /\ UNCHANGED <<call, txOk, value, disturbed>>

Transfer == BeginTransfer \/ AddressSent \/ ValueRead \/ ValueWritten

-----------------------------------------------------------------------------
(* The handlers.                                                           *)

\* check_if_battery_charging_and_sleep reads STAT_CHG_B: its three tries
\* leave the pointer there, or it fails and resets the chip.
ChargeCheck ==
  \/ /\ ~inFlight
     /\ pointer' = Status
     /\ disturbed' = (disturbed \/ pc = "read")
     /\ UNCHANGED <<reg, pc, inFlight, tries, call, txOk, response>>
  \/ Restart

\* touch_interrupt_handler reads the touch controller, which has a pointer of
\* its own; it resets the chip when the bus is busy or the read fails.
TouchInterrupt == Restart

\* The charger is plugged in or out.
StatusChanges ==
  /\ \E v \in Values : reg' = [reg EXCEPT ![Status] = v]
  /\ UNCHANGED <<pointer, pc, inFlight, tries, call, txOk, response, disturbed>>

BusNext ==
  \/ CallRead \/ CallWrite \/ Transfer
  \/ ChargeCheck \/ TouchInterrupt \/ StatusChanges

BusSpec == BusInit /\ [][BusNext]_busVars

\* Transfers end: the interrupts come 0.5 s apart, a transfer takes 0.3 ms.
BusFairSpec == BusSpec /\ WF_busVars(Transfer)

-----------------------------------------------------------------------------
(* Properties.                                                             *)

Kept(v) == v[target] \ mask
WritesRegister == pc = "write" /\ reg' # reg

(* However many transfers were refused, a masked write leaves the bits     *)
(* outside the mask as they were, unless the charge check ran between the  *)
(* two transfers of the read: the value merged in is the target's own and  *)
(* never what an earlier pointer led to.                                   *)
UndisturbedWriteMerges ==
  [][ (WritesRegister /\ ~disturbed) => Kept(reg') = Kept(reg) ]_busVars

(* Even with the charge check in between: after a write that did not       *)
(* report failure the bits of the mask have the values asked for.          *)
RequestedBitsSet ==
  (pc = "idle" /\ writes /\ ~fail) => reg[target] \cap mask = set \cap mask

(* An access comes to its end: three tries, whatever the PMIC does.        *)
AccessEnds == (pc # "idle") ~> (pc = "idle")

(* "Create a combined value with the existing data and the new value"      *)
(* (monocle-drivers.c:161): a masked write changes only bits of the mask.  *)
WriteKeepsOtherBits ==
  [][ WritesRegister => Kept(reg') = Kept(reg) ]_busVars
=============================================================================
