-------------------------------- MODULE I2C --------------------------------
(***************************************************************************)
(* The I2C1 master driver (Drivers/Src/i2c.c) against the peripheral: one  *)
(* task calls i2c_write, i2c_read and i2c_read_reg while the hardware      *)
(* sends, receives and acknowledges bytes at its own pace.                 *)
(*                                                                         *)
(* A wait_flag is one step: the flag comes, or the spin budget runs out.   *)
(* It runs out when the flag cannot come (BUSY of a bus that no one will   *)
(* release, RXNE when the slave sends nothing more) or when the slave or   *)
(* the bus is at fault.                                                    *)
(***************************************************************************)
EXTENDS Integers

CONSTANTS
  Lengths,      \* bound: the values of len
  Environments  \* the callers, slaves and buses: records of
                \*   calls: the functions that are called,
                \*   faults: the flags that may fail to come,
                \*   prompt: is the task never delayed by the time of a byte (90 us)?

Functions == {"write", "read", "read_reg"}
Flags     == {"SB", "ADDR", "TXE", "BTF", "RXNE"}

ASSUME I2CAssumption ==
  /\ Lengths \subseteq Nat
  /\ Environments \subseteq
       [calls : SUBSET Functions, faults : SUBSET Flags, prompt : BOOLEAN]

I2C_OK    == 0
I2C_ERROR == 1

VARIABLES
  at,        \* where the driver is; "out": in no call
  fn, len,   \* the call, and its argument
  reading,   \* the direction of the current transfer
  i,         \* the loop counter
  result,    \* what the last call returned
  busy,      \* SR2.BUSY: a START was sent and no STOP since
  ack, stop, \* CR1.ACK, CR1.STOP
  late,      \* CR1.START is still set from a call that gave up on it
  sending,   \* the slave is sending a byte
  rx,        \* received bytes not yet read: the data and the shift register
  clocked,   \* bytes the slave has sent in this call
  env        \* the environment, which never changes

driverVars == <<at, fn, len, reading, i, result>>
hwVars     == <<busy, ack, stop, late, sending, rx, clocked>>
i2cVars    == <<driverVars, hwVars, env>>

\* i2c_init resets the peripheral.
I2CInit ==
  /\ at = "out" /\ fn = "write" /\ len = 0 /\ reading = FALSE /\ i = 0
  /\ result = I2C_OK
  /\ busy = FALSE /\ ack = FALSE /\ stop = FALSE /\ late = FALSE
  /\ sending = FALSE /\ rx = 0 /\ clocked = 0
  /\ env \in Environments

GoOn(place) == at' = place /\ UNCHANGED <<fn, len, reading, i, result>>

\* return from the call.
Finish(r) == at' = "out" /\ result' = r /\ UNCHANGED <<fn, len, reading, i>>

-----------------------------------------------------------------------------
(* The driver.                                                             *)

\* Mutant: i2c_read of no bytes is not caught.
Call_NoZeroCheck(f, n) ==
  /\ at = "out"
  /\ f = "write" /\ n = 0 => "BTF" \in env.faults
  /\ fn' = f /\ len' = n /\ i' = 0 /\ reading' = (f = "read")
  /\ at' = "idle" /\ clocked' = 0
  /\ UNCHANGED <<result, busy, ack, stop, late, sending, rx>>

\* A call.  i2c_read of no bytes returns at once.  i2c_write of no bytes waits for
\* BTF like any other; the peripheral may not set it then, so such a call belongs
\* to the environments in which BTF can fail to come.
Call(f, n) ==
  /\ at = "out"
  /\ f = "write" /\ n = 0 => "BTF" \in env.faults
  /\ fn' = f /\ len' = n /\ i' = 0 /\ reading' = (f = "read")
  /\ IF f = "read" /\ n = 0
     THEN at' = "out" /\ result' = I2C_OK
     ELSE at' = "idle" /\ UNCHANGED result
  /\ clocked' = 0
  /\ UNCHANGED <<busy, ack, stop, late, sending, rx>>

\* Mutant: the driver does not wait for the bus.
BusFree_Assumed ==
  /\ at = "idle"
  /\ GoOn("free")
  /\ UNCHANGED hwVars

\* The wait for BUSY to clear.
BusFree ==
  /\ at = "idle" /\ ~busy
  /\ GoOn("free")
  /\ UNCHANGED hwVars

BusStaysBusy ==
  /\ at = "idle" /\ busy /\ ~stop
  /\ Finish(I2C_ERROR)
  /\ UNCHANGED hwVars

\* i2c_read turns ACK on, and START is set.  It is one bit: a START that is still
\* pending becomes that of this call.
SetStart ==
  /\ at = "free"
  /\ ack' = (ack \/ reading)
  /\ late' = FALSE
  /\ GoOn("start")
  /\ UNCHANGED <<busy, stop, sending, rx, clocked>>

\* i2c_start: START goes out, SB comes.
StartSent ==
  /\ at = "start"
  /\ busy' = TRUE
  /\ GoOn("addr")
  /\ UNCHANGED <<ack, stop, late, sending, rx, clocked>>

\* SB does not come in time; START stays set.
StartFails ==
  /\ at = "start" /\ "SB" \in env.faults
  /\ late' = TRUE
  /\ Finish(I2C_ERROR)
  /\ UNCHANGED <<busy, ack, stop, sending, rx, clocked>>

\* The slave acknowledges its address and ADDR is cleared: a slave that is read
\* starts to send.
AddrAcked ==
  /\ at = "addr"
  /\ sending' = reading
  /\ GoOn(IF reading THEN "rx" ELSE "tx")
  /\ UNCHANGED <<busy, ack, stop, late, rx, clocked>>

\* Mutant: the bus is not released.
AddrNacked_KeepsBus ==
  /\ at = "addr" /\ "ADDR" \in env.faults
  /\ Finish(I2C_ERROR)
  /\ UNCHANGED hwVars

AddrNacked ==
  /\ at = "addr" /\ "ADDR" \in env.faults
  /\ stop' = TRUE
  /\ Finish(I2C_ERROR)
  /\ UNCHANGED <<busy, ack, late, sending, rx, clocked>>

\* Bytes to send: the data, or the register number.
ToSend == IF fn = "write" THEN len ELSE 1

SendByte ==
  /\ at = "tx" /\ i < ToSend
  /\ i' = i + 1
  /\ UNCHANGED <<at, fn, len, reading, result, hwVars>>

SendFails ==
  /\ \/ at = "tx" /\ i < ToSend /\ "TXE" \in env.faults
     \/ at = "tx" /\ i = ToSend /\ "BTF" \in env.faults
  /\ Finish(I2C_ERROR)
  /\ UNCHANGED hwVars

\* BTF: i2c_write sends a STOP.
WriteDone ==
  /\ at = "tx" /\ i = ToSend /\ fn = "write"
  /\ stop' = TRUE
  /\ Finish(I2C_OK)
  /\ UNCHANGED <<busy, ack, late, sending, rx, clocked>>

\* BTF: i2c_read_reg calls i2c_read, from its beginning.
RegSent ==
  /\ at = "tx" /\ i = ToSend /\ fn = "read_reg"
  /\ IF len = 0 THEN Finish(I2C_OK)
     ELSE at' = "idle" /\ reading' = TRUE /\ i' = 0 /\ UNCHANGED <<fn, len, result>>
  /\ UNCHANGED hwVars

\* The top of the loop of i2c_read: before the last byte ACK is turned off and a
\* STOP is queued.
PrepareByte ==
  /\ at = "rx"
  /\ ack' = (ack /\ i + 1 # len)
  /\ stop' = (stop \/ i + 1 = len)
  /\ GoOn("rxne")
  /\ UNCHANGED <<busy, late, sending, rx, clocked>>

ReadByte ==
  /\ at = "rxne" /\ rx > 0
  /\ rx' = rx - 1
  /\ i' = i + 1
  /\ IF i + 1 = len THEN at' = "out" /\ result' = I2C_OK
     ELSE at' = "rx" /\ UNCHANGED result
  /\ UNCHANGED <<fn, len, reading, busy, ack, stop, late, sending, clocked>>

\* Mutant: the wait for RXNE starts over.
ReadFails_Retries ==
  /\ at = "rxne" /\ rx = 0 /\ (~sending \/ "RXNE" \in env.faults)
  /\ UNCHANGED i2cVars

ReadFails ==
  /\ at = "rxne" /\ rx = 0 /\ (~sending \/ "RXNE" \in env.faults)
  /\ Finish(I2C_ERROR)
  /\ UNCHANGED hwVars

Driver ==
  \/ BusFree \/ BusStaysBusy \/ SetStart \/ StartSent \/ StartFails \/ AddrAcked \/ AddrNacked
  \/ SendByte \/ SendFails \/ WriteDone \/ RegSent
  \/ PrepareByte \/ ReadByte \/ ReadFails

-----------------------------------------------------------------------------
(* The peripheral and the slave.                                           *)

\* A byte has been received and is acknowledged as CR1.ACK says; a slave whose
\* byte was acknowledged sends the next one.  With both registers full the clock
\* is stretched.  A STOP that was set meanwhile goes out after the byte.
ByteReceived ==
  /\ sending /\ rx < 2
  /\ env.prompt => at # "rx" /\ ~(at = "rxne" /\ rx > 0)
  /\ rx' = rx + 1
  /\ clocked' = clocked + 1
  /\ sending' = (ack /\ ~stop)
  /\ IF stop THEN busy' = FALSE /\ stop' = FALSE ELSE UNCHANGED <<busy, stop>>
  /\ UNCHANGED <<driverVars, ack, late>>

\* The slave goes silent (it was unplugged, or it is reset) and lets go of SDA.
SlaveDies ==
  /\ sending /\ "RXNE" \in env.faults
  /\ sending' = FALSE
  /\ UNCHANGED <<driverVars, busy, ack, stop, late, rx, clocked>>

\* STOP goes out while nothing is being received.
StopSent ==
  /\ stop /\ ~sending
  /\ stop' = FALSE /\ busy' = FALSE
  /\ UNCHANGED <<driverVars, ack, late, sending, rx, clocked>>

\* The START of a call that gave up goes out after all, or never does.
LateStart ==
  /\ late
  /\ late' = FALSE /\ busy' = TRUE
  /\ UNCHANGED <<driverVars, ack, stop, sending, rx, clocked>>

Hardware == ByteReceived \/ SlaveDies \/ StopSent

I2CNext ==
  /\ \/ \E f \in env.calls, n \in Lengths : Call(f, n)
     \/ Driver \/ Hardware \/ LateStart
  /\ UNCHANGED env

I2CSpec == I2CInit /\ [][I2CNext]_i2cVars
=============================================================================
