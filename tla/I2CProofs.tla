------------------------------ MODULE I2CProofs ------------------------------
(***************************************************************************)
(* The I2C driver hands the bus on clean, for transfers of any length and  *)
(* any environment.                                                        *)
(***************************************************************************)
EXTENDS I2CProps, TLAPS

-----------------------------------------------------------------------------
(* The inductive invariant.                                                *)

I2CTypeOK ==
  /\ at \in {"out", "idle", "free", "start", "addr", "tx", "rx", "rxne"}
  /\ fn \in Functions /\ len \in Nat /\ i \in Nat
  /\ reading \in BOOLEAN /\ result \in {I2C_OK, I2C_ERROR}
  /\ busy \in BOOLEAN /\ ack \in BOOLEAN /\ stop \in BOOLEAN /\ sending \in BOOLEAN
  /\ late \in BOOLEAN
  /\ rx \in Nat /\ clocked \in Nat
  /\ env \in [calls : SUBSET Functions, faults : SUBSET Flags, prompt : BOOLEAN]

\* A transfer reads or writes, as its place in the driver says.
Direction == (at \in {"rx", "rxne"} => reading) /\ (at = "tx" => ~reading)

\* The bus is held from the START to the STOP, and a STOP is pending or a byte
\* on its way only while it is held.  A START is late only where SB can fail, and
\* becomes that of the next call when this sets START.
BusHeld ==
  /\ stop \/ sending => busy
  /\ late => "SB" \in env.faults /\ at \in {"out", "idle", "free"}
  /\ at \in {"free", "start"} => ~stop /\ ~sending /\ ("SB" \notin env.faults => ~busy)
  /\ at \in {"addr", "tx", "rx"} => busy /\ ~stop
  /\ at = "rxne" => IF i + 1 = len THEN ~busy \/ stop ELSE busy /\ ~stop

\* With calls and faults as in Benign the bus is passed on free, and a slave that
\* is acknowledged goes on sending until the last byte was announced.
PassedOn ==
  Benign =>
    /\ fn # "read_reg"
    /\ at \in {"out", "idle"} => ~busy \/ stop
    /\ at \in {"start", "addr"} /\ reading => ack
    /\ at = "rx" \/ (at = "rxne" /\ i + 1 # len) => ack /\ sending

\* If the task is prompt besides, every byte is read before the next one comes,
\* and the last one is refused its acknowledgement.
ByteByByte ==
  Benign /\ env.prompt =>
    /\ at \notin {"rx", "rxne"} => ~sending /\ rx = 0 /\ clocked <= len
    /\ at \in {"idle", "free", "start", "addr"} => clocked = 0 /\ i = 0 /\ len > 0
    /\ at = "rx" => rx = 0 /\ clocked = i /\ i < len
    /\ at = "rxne" => /\ i < len /\ rx <= 1 /\ clocked = i + rx
                      /\ i + 1 = len => ~ack /\ (sending <=> rx = 0)

\* i2c_read_reg waits for itself: it keeps the bus, and the i2c_read it calls waits
\* for the bus to be free.
RegisterReadFails ==
  fn = "read_reg" /\ len > 0 =>
    /\ reading => at \in {"idle", "out"} /\ busy /\ ~stop
    /\ at = "out" => result = I2C_ERROR

BusInv ==
  /\ I2CTypeOK /\ Direction /\ BusHeld /\ PassedOn /\ ByteByByte
  /\ RegisterReadFails

\* The invariant says what the properties say.
LEMMA BusInvImplies ==
  BusInv => StartOnFreeBus /\ BusReleased /\ ExactBytes
BY DEF BusInv, I2CTypeOK, BusHeld, PassedOn, ByteByByte, StartOnFreeBus, BusReleased, ExactBytes

\* i2c_init leaves a free bus.
LEMMA BusInit == I2CInit => BusInv
<1> SUFFICES ASSUME I2CInit PROVE BusInv
  OBVIOUS
<1>1. I2CTypeOK
  <2>1. env \in [calls : SUBSET Functions, faults : SUBSET Flags, prompt : BOOLEAN]
    BY I2CAssumption DEF I2CInit
  <2> QED BY <2>1 DEF I2CInit, I2CTypeOK, Functions
<1>2. Direction /\ BusHeld /\ PassedOn /\ ByteByByte /\ RegisterReadFails
  BY DEF I2CInit, Direction, BusHeld, PassedOn, ByteByByte, RegisterReadFails
<1> QED BY <1>1, <1>2 DEF BusInv

\* A new call finds the bus free or about to become free.
LEMMA CallKeeps ==
  ASSUME BusInv, NEW f \in env.calls, NEW n \in Lengths, Call(f, n), env' = env
  PROVE  BusInv'
<1>1. f \in Functions /\ n \in Nat
  BY I2CAssumption DEF BusInv, I2CTypeOK
<1>2. I2CTypeOK' /\ Direction' /\ BusHeld'
  BY <1>1 DEF BusInv, I2CTypeOK, Direction, BusHeld, Call, I2C_OK
<1>3. PassedOn' /\ ByteByByte'
  BY <1>1 DEF BusInv, I2CTypeOK, PassedOn, ByteByByte, Benign, Call, Functions
<1>4. RegisterReadFails'
  BY <1>1 DEF BusInv, I2CTypeOK, RegisterReadFails, Call
<1> QED BY <1>2, <1>3, <1>4 DEF BusInv

\* The steps of the driver.
LEMMA DriverKeeps ==
  ASSUME BusInv, Driver, env' = env
  PROVE  BusInv'
<1> USE DEF BusInv, Functions, Flags
<1>1. CASE BusFree
  BY <1>1 DEF BusFree, GoOn, hwVars, I2CTypeOK, Direction, BusHeld, PassedOn, ByteByByte, Benign, RegisterReadFails
<1>2. CASE BusStaysBusy
  BY <1>2 DEF BusStaysBusy, Finish, hwVars, I2CTypeOK, Direction, BusHeld, PassedOn, ByteByByte, Benign, RegisterReadFails
<1>3. CASE StartSent
  BY <1>3 DEF StartSent, GoOn, I2CTypeOK, Direction, BusHeld, PassedOn, ByteByByte, Benign, RegisterReadFails
<1>4. CASE StartFails
  BY <1>4 DEF StartFails, Finish, I2CTypeOK, Direction, BusHeld, PassedOn, ByteByByte, Benign, RegisterReadFails
<1>5. CASE AddrAcked
  BY <1>5 DEF AddrAcked, GoOn, I2CTypeOK, Direction, BusHeld, PassedOn, ByteByByte, Benign, RegisterReadFails
<1>6. CASE AddrNacked
  BY <1>6 DEF AddrNacked, Finish, I2CTypeOK, Direction, BusHeld, PassedOn, ByteByByte, Benign, RegisterReadFails
<1>7. CASE SendByte
  BY <1>7 DEF SendByte, ToSend, hwVars, I2CTypeOK, Direction, BusHeld, PassedOn, ByteByByte, Benign, RegisterReadFails
<1>8. CASE SendFails
  BY <1>8 DEF SendFails, Finish, hwVars, I2CTypeOK, Direction, BusHeld, PassedOn, ByteByByte, Benign, RegisterReadFails
<1>9. CASE WriteDone
  BY <1>9 DEF WriteDone, Finish, I2CTypeOK, Direction, BusHeld, PassedOn, ByteByByte, Benign, RegisterReadFails
<1>10. CASE RegSent
  <2>1. I2CTypeOK'
    <3>1. CASE len = 0
      BY <1>10, <3>1 DEF RegSent, Finish, hwVars, I2CTypeOK
    <3>2. CASE len # 0
      BY <1>10, <3>2 DEF RegSent, hwVars, I2CTypeOK
    <3> QED BY <3>1, <3>2
  <2>2. Direction' /\ BusHeld'
    BY <1>10 DEF RegSent, Finish, hwVars, I2CTypeOK, Direction, BusHeld
  <2>3. PassedOn'
    BY <1>10 DEF RegSent, Finish, hwVars, I2CTypeOK, BusHeld, PassedOn, Benign
  <2>4. ByteByByte'
    BY <1>10 DEF RegSent, Finish, hwVars, I2CTypeOK, Direction, BusHeld, PassedOn, ByteByByte, Benign
  <2>5. RegisterReadFails'
    BY <1>10 DEF RegSent, Finish, hwVars, I2CTypeOK, Direction, BusHeld, RegisterReadFails
  <2> QED BY <2>1, <2>2, <2>3, <2>4, <2>5
<1>11. CASE PrepareByte
  <2>1. I2CTypeOK'
    BY <1>11 DEF PrepareByte, GoOn, I2CTypeOK
  <2>2. Direction' /\ BusHeld'
    BY <1>11 DEF PrepareByte, GoOn, I2CTypeOK, Direction, BusHeld
  <2>3. PassedOn'
    BY <1>11 DEF PrepareByte, GoOn, I2CTypeOK, BusHeld, PassedOn, Benign
  <2>4. ByteByByte'
    BY <1>11 DEF PrepareByte, GoOn, I2CTypeOK, Direction, BusHeld, PassedOn, ByteByByte, Benign
  <2>5. RegisterReadFails'
    BY <1>11 DEF PrepareByte, GoOn, I2CTypeOK, Direction, BusHeld, RegisterReadFails
  <2> QED BY <2>1, <2>2, <2>3, <2>4, <2>5
<1>12. CASE ReadByte
  BY <1>12 DEF ReadByte, I2CTypeOK, Direction, BusHeld, PassedOn, ByteByByte, Benign, RegisterReadFails
<1>13. CASE ReadFails
  BY <1>13 DEF ReadFails, Finish, hwVars, I2CTypeOK, Direction, BusHeld, PassedOn, ByteByByte, Benign, RegisterReadFails
<1>14. CASE SetStart
  BY <1>14 DEF SetStart, GoOn, I2CTypeOK, Direction, BusHeld, PassedOn, ByteByByte, Benign, RegisterReadFails
<1> QED BY <1>1, <1>2, <1>3, <1>4, <1>5, <1>6, <1>7, <1>8, <1>9, <1>10, <1>11, <1>12, <1>13, <1>14
        DEF Driver

\* The steps of the peripheral and the slave.
LEMMA HardwareKeeps ==
  ASSUME BusInv, Hardware, env' = env
  PROVE  BusInv'
<1> USE DEF BusInv, Functions, Flags
<1>1. CASE ByteReceived
  <2>1. I2CTypeOK'
    <3>1. sending' \in BOOLEAN /\ busy' \in BOOLEAN /\ stop' \in BOOLEAN
      BY <1>1 DEF ByteReceived, I2CTypeOK
    <3>2. rx' \in Nat /\ clocked' \in Nat
      BY <1>1 DEF ByteReceived, I2CTypeOK
    <3>3. UNCHANGED <<at, fn, len, i, reading, result, ack, late, env>>
      BY <1>1 DEF ByteReceived, driverVars
    <3> QED BY <3>1, <3>2, <3>3 DEF I2CTypeOK
  <2>2. Direction' /\ BusHeld'
    BY <1>1 DEF ByteReceived, driverVars, I2CTypeOK, Direction, BusHeld
  <2>3. PassedOn'
    BY <1>1 DEF ByteReceived, driverVars, I2CTypeOK, BusHeld, PassedOn, Benign
  <2>4. ByteByByte'
    BY <1>1 DEF ByteReceived, driverVars, I2CTypeOK, Direction, BusHeld, PassedOn, ByteByByte, Benign
  <2>5. RegisterReadFails'
    BY <1>1 DEF ByteReceived, driverVars, I2CTypeOK, Direction, BusHeld, RegisterReadFails
  <2> QED BY <2>1, <2>2, <2>3, <2>4, <2>5
<1>2. CASE SlaveDies
  <2>1. I2CTypeOK'
    BY <1>2 DEF SlaveDies, driverVars, I2CTypeOK, BusHeld
  <2>2. Direction' /\ BusHeld'
    BY <1>2 DEF SlaveDies, driverVars, I2CTypeOK, Direction, BusHeld
  <2>3. PassedOn'
    BY <1>2 DEF SlaveDies, driverVars, I2CTypeOK, BusHeld, PassedOn, Benign
  <2>4. ByteByByte'
    BY <1>2 DEF SlaveDies, driverVars, I2CTypeOK, Direction, BusHeld, PassedOn, ByteByByte, Benign
  <2>5. RegisterReadFails'
    BY <1>2 DEF SlaveDies, driverVars, I2CTypeOK, Direction, BusHeld, RegisterReadFails
  <2> QED BY <2>1, <2>2, <2>3, <2>4, <2>5
<1>3. CASE StopSent
  <2>1. I2CTypeOK'
    BY <1>3 DEF StopSent, driverVars, I2CTypeOK, BusHeld
  <2>2. Direction' /\ BusHeld'
    BY <1>3 DEF StopSent, driverVars, I2CTypeOK, Direction, BusHeld
  <2>3. PassedOn'
    BY <1>3 DEF StopSent, driverVars, I2CTypeOK, BusHeld, PassedOn, Benign
  <2>4. ByteByByte'
    BY <1>3 DEF StopSent, driverVars, I2CTypeOK, Direction, BusHeld, PassedOn, ByteByByte, Benign
  <2>5. RegisterReadFails'
    BY <1>3 DEF StopSent, driverVars, I2CTypeOK, Direction, BusHeld, RegisterReadFails
  <2> QED BY <2>1, <2>2, <2>3, <2>4, <2>5
<1> QED BY <1>1, <1>2, <1>3 DEF Hardware

\* The START of a call that gave up.
LEMMA LateStartKeeps ==
  ASSUME BusInv, LateStart, env' = env
  PROVE  BusInv'
<1> USE DEF BusInv, LateStart, driverVars
<1>1. I2CTypeOK' /\ Direction' /\ BusHeld'
  BY DEF I2CTypeOK, Direction, BusHeld
<1>2. ~Benign /\ ~Benign'
  BY DEF BusHeld, Benign
<1>3. PassedOn' /\ ByteByByte'
  BY <1>2 DEF PassedOn, ByteByByte
<1>4. RegisterReadFails'
  BY DEF RegisterReadFails
<1> QED BY <1>1, <1>3, <1>4

\* The bus invariant holds of the driver, in any environment.
THEOREM BusInvariant == I2CSpec => []BusInv
<1>1. ASSUME BusInv, [I2CNext]_i2cVars PROVE BusInv'
  <2>1. CASE I2CNext
    BY <1>1, <2>1, CallKeeps, DriverKeeps, HardwareKeeps, LateStartKeeps DEF I2CNext
  <2>2. CASE UNCHANGED i2cVars
    BY <1>1, <2>2 DEF i2cVars, driverVars, hwVars, BusInv, I2CTypeOK, Direction, BusHeld,
       PassedOn, ByteByByte, Benign, RegisterReadFails
  <2> QED BY <1>1, <2>1, <2>2
<1> QED BY <1>1, BusInit, PTL DEF I2CSpec

\* A START goes out on a free bus only, whatever fails and however long the task is
\* held up (i2c_start).
THEOREM StartSound == I2CSpec => []StartOnFreeBus
BY BusInvariant, BusInvImplies, PTL

\* i2c_write and i2c_read pass the bus on free, or with a STOP under way.
THEOREM ReleaseOfBusSound == I2CSpec => []BusReleased
BY BusInvariant, BusInvImplies, PTL

\* A prompt i2c_read of any length clocks in as many bytes as it was asked for, and
\* leaves none behind.
THEOREM BytesSound == I2CSpec => []ExactBytes
BY BusInvariant, BusInvImplies, PTL

\* i2c_read_reg of one byte or more never succeeds, whatever the slave, the bus and
\* the timing: RegisterRead is violated by every such call and not by a rare one.
THEOREM RegisterReadsFail ==
  I2CSpec => [](fn = "read_reg" /\ len > 0 /\ at = "out" => result = I2C_ERROR)
<1>1. BusInv => (fn = "read_reg" /\ len > 0 /\ at = "out" => result = I2C_ERROR)
  BY DEF BusInv, RegisterReadFails
<1> QED BY <1>1, BusInvariant, PTL
=============================================================================
