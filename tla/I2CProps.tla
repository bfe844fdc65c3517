------------------------------ MODULE I2CProps ------------------------------
(***************************************************************************)
(* What the I2C driver promises its callers and the bus.                   *)
(***************************************************************************)
EXTENDS I2C

\* A START is never set while the STOP of the previous call is still on its way out
\* (a call may return before its STOP is sent) or while a slave sends, and it is set
\* on a free bus, unless the START of a call that gave up comes out late.
StartOnFreeBus ==
  at = "start" => /\ ~stop /\ ~sending
                  /\ "SB" \notin env.faults => ~busy

\* Writes and reads whose only fault is that no slave answers.
Benign == env.calls \subseteq {"write", "read"} /\ env.faults \subseteq {"ADDR"}

\* A call that succeeds, or that no slave answers, leaves the bus free or about
\* to become free for the next call.
BusReleased == Benign /\ at = "out" => ~busy \/ stop

\* The slave sends exactly the bytes that were asked for, and none of them stays
\* in the data register for the next call, if the task is prompt.
ExactBytes ==
  Benign /\ env.prompt => clocked <= len /\ (at = "out" => rx = 0)

\* What i2c.h says of i2c_read_reg: it writes the register address and reads len bytes
\* back.  With a slave that does all it should, the call succeeds with that many
\* bytes.  Violated: i2c_read_reg keeps the bus for a repeated START, and the
\* i2c_read it calls first waits for the bus to be free.
RegisterRead ==
  fn = "read_reg" /\ at = "out" /\ env.faults = {} /\ env.prompt =>
    result = I2C_OK /\ clocked = len

\* Every call ends, whatever flag fails to come: each wait_flag is bounded.
I2CFairSpec == I2CSpec /\ WF_i2cVars(Driver /\ UNCHANGED env)
               /\ WF_i2cVars(Hardware /\ UNCHANGED env)
CallsEnd == at # "out" ~> at = "out"
=============================================================================
