--------------------------- MODULE ModbusPolling ---------------------------
(***************************************************************************)
(* The polling of the Modbus devices (modbus.go runModbusLoop), the        *)
(* collector it fills, the telemetry loop that empties it (telemetry.go)   *)
(* and the read_register command (commands.go).                            *)
(*                                                                         *)
(* One goroutine polls the devices that main could connect to, one after   *)
(* the other in the order of the configuration: a device whose ticker has  *)
(* fired has all its registers read, whatever time that takes, before the  *)
(* next one is looked at.  The collector is abstracted to the devices it   *)
(* has values of, a poll to whether any register answered, a publication   *)
(* to its length in time: its retries change nothing here.  External: the  *)
(* devices, the library's client, which takes one request at a time, the   *)
(* broker, and the tickers, whose channels hold one tick.                  *)
(***************************************************************************)
EXTENDS ModbusDecode, Sequences

CONSTANTS
    Setup        \* cfg.Modbus.Devices: the registers of each device, in order

\* A register without a quantity has the quantity 0.
Kinds == [type : Types, quantity : Nat]

ASSUME PollingAssumption == Setup \in Seq(Seq(Kinds))

VARIABLES
    pool,        \* modbusPools: the devices that were connected at the start
    alive,       \* devices that answer
    tick,        \* devices whose ticker has a tick waiting
    at,          \* the poller the loop is at, 0 at its top, past them if it has ended
    reg,         \* the register it reads, 0 if it does not
    got,         \* a register has given a value in this poll
    values,      \* modbusCol: the devices with values
    publisher,   \* where the telemetry loop is
    batch,       \* the devices in its telemetry
    reply,       \* what read_register has read
    cancelled    \* main has cancelled the context

loopVars == <<at, reg, got, values>>
telemetryVars == <<publisher, batch>>
vars == <<pool, alive, tick, loopVars, telemetryVars, reply, cancelled>>

Devices == 1..Len(Setup)
Ended   == Len(Setup) + 1

NoReply == [type |-> "none", raw |-> << >>, value |-> Nil]

\* The loops are at places the code has: registers are read of devices that
\* were connected, and only those are in the collector.
TypeOK ==
    /\ pool \subseteq Devices /\ alive \subseteq Devices
    /\ tick \subseteq pool
    /\ at \in {0, Ended} \cup pool
    /\ reg \in Nat
    /\ IF at \in pool THEN reg <= Len(Setup[at]) + 1 ELSE reg = 0
    /\ got \in BOOLEAN
    /\ values \subseteq pool
    /\ publisher \in {"wait", "publish", "ended"}
    /\ batch \subseteq pool
    /\ reply.type \in Types \cup {"none"}
    /\ cancelled \in BOOLEAN

\* main has tried every device once; those it could not connect to are left out
\* for good.
Init ==
    /\ pool \in SUBSET Devices
    /\ alive = pool
    /\ tick = {}
    /\ at = 0 /\ reg = 0 /\ got = FALSE
    /\ values = {}
    /\ publisher = "wait" /\ batch = {}
    /\ reply = NoReply
    /\ cancelled = FALSE

-----------------------------------------------------------------------------
(* runModbusLoop *)

\* The poller after d, or else the sleep at the end of the round.
After(d) ==
    LET later == {e \in pool : e > d} IN
    IF later = {} THEN {0} ELSE {e \in later : \A f \in later : e <= f}

\* Mutant: the context is not looked at.
Round_Blind ==
    /\ at = 0
    /\ at' \in After(0)
    /\ UNCHANGED <<pool, alive, tick, reg, got, values, telemetryVars, reply, cancelled>>

Round ==
    /\ at = 0
    /\ at' \in IF cancelled THEN {Ended} ELSE After(0)
    /\ UNCHANGED <<pool, alive, tick, reg, got, values, telemetryVars, reply, cancelled>>

\* The ticker of the poller: if it has fired, the poll begins.
Look ==
    /\ at \in pool /\ reg = 0
    /\ IF at \in tick
       THEN tick' = tick \ {at} /\ reg' = 1 /\ UNCHANGED at
       ELSE at' \in After(at) /\ UNCHANGED <<tick, reg>>
    /\ UNCHANGED <<pool, alive, got, values, telemetryVars, reply, cancelled>>

\* What readRegister may get of device d: its answer, if it gives one, or a byte
\* that does not come from the device.
Readings(d, k) ==
    IF Asked(k.type, k.quantity) /\ d \notin alive THEN {} ELSE Answers(k.type, k.quantity)

\* readRegister: a register is read, or the request fails and it is left out.
Read ==
    /\ at \in pool /\ reg \in DOMAIN Setup[at]
    /\ reg' = reg + 1
    /\ LET k == Setup[at][reg] IN
         \/ Readings(at, k) # {} /\ got' = TRUE
         \/ Asked(k.type, k.quantity) /\ UNCHANGED got
    /\ UNCHANGED <<pool, alive, tick, at, values, telemetryVars, reply, cancelled>>

\* Mutant: after a poll the loop begins again with the first device.
Store_StartsOver ==
    /\ at \in pool /\ reg = Len(Setup[at]) + 1
    /\ reg' = 0 /\ got' = FALSE
    /\ at' = 0
    /\ values' = IF got THEN values \cup {at} ELSE values \ {at}
    /\ UNCHANGED <<pool, alive, tick, telemetryVars, reply, cancelled>>

\* Mutant: a poll without an answer leaves the collector as it is.
Store_KeepsOld ==
    /\ at \in pool /\ reg = Len(Setup[at]) + 1
    /\ reg' = 0 /\ got' = FALSE
    /\ at' \in After(at)
    /\ values' = IF got THEN values \cup {at} ELSE values
    /\ UNCHANGED <<pool, alive, tick, telemetryVars, reply, cancelled>>

\* Mutant: the loop goes on with the next entry of the configuration.
Store_NextEntry ==
    /\ at \in pool /\ reg = Len(Setup[at]) + 1
    /\ reg' = 0 /\ got' = FALSE
    /\ at' = IF at = Len(Setup) THEN 0 ELSE at + 1
    /\ values' = IF got THEN values \cup {at} ELSE values \ {at}
    /\ UNCHANGED <<pool, alive, tick, telemetryVars, reply, cancelled>>

\* modbusCol.set: values of the device replace the old ones; without any, the
\* device is removed.
Store ==
    /\ at \in pool /\ reg = Len(Setup[at]) + 1
    /\ reg' = 0 /\ got' = FALSE
    /\ at' \in After(at)
    /\ values' = IF got THEN values \cup {at} ELSE values \ {at}
    /\ UNCHANGED <<pool, alive, tick, telemetryVars, reply, cancelled>>

LoopStep == Round \/ Look \/ Read \/ Store

-----------------------------------------------------------------------------
(* runTelemetryLoop *)

\* A tick: the telemetry is collected, modbusCol.getAll with it.
Collect ==
    /\ publisher = "wait"
    /\ publisher' = "publish"
    /\ batch' = values
    /\ UNCHANGED <<pool, alive, tick, loopVars, reply, cancelled>>

\* publishTelemetry succeeds or gives up after three attempts.
Publish ==
    /\ publisher = "publish"
    /\ publisher' = "wait"
    /\ batch' = {}
    /\ UNCHANGED <<pool, alive, tick, loopVars, reply, cancelled>>

TelemetryEnds ==
    /\ publisher = "wait"
    /\ cancelled
    /\ publisher' = "ended"
    /\ UNCHANGED <<pool, alive, tick, loopVars, batch, reply, cancelled>>

-----------------------------------------------------------------------------
(* read_register *)

\* Register i of a connected device is read; a failure is reported as such.
ReadRegister(d, i) ==
    /\ reply = NoReply
    /\ d \in pool
    /\ LET k == Setup[d][i] IN
         \E raw \in Readings(d, k) :
           reply' = [type |-> k.type, raw |-> raw, value |-> Decode(k.type, raw)]
    /\ UNCHANGED <<pool, alive, tick, loopVars, telemetryVars, cancelled>>

\* sendCommandResponse
Respond ==
    /\ reply # NoReply
    /\ reply' = NoReply
    /\ UNCHANGED <<pool, alive, tick, loopVars, telemetryVars, cancelled>>

-----------------------------------------------------------------------------
(* The environment *)

\* A ticker fires; a tick that finds one waiting is dropped.  The loop stops the
\* tickers when it ends.
Tick(d) ==
    /\ d \in pool
    /\ at # Ended
    /\ tick' = tick \cup {d}
    /\ UNCHANGED <<pool, alive, loopVars, telemetryVars, reply, cancelled>>

\* A device stops answering.
Die(d) ==
    /\ d \in alive
    /\ alive' = alive \ {d}
    /\ UNCHANGED <<pool, tick, loopVars, telemetryVars, reply, cancelled>>

Cancel ==
    /\ ~cancelled
    /\ cancelled' = TRUE
    /\ UNCHANGED <<pool, alive, tick, loopVars, telemetryVars, reply>>

Next ==
    \/ LoopStep
    \/ Collect \/ Publish \/ TelemetryEnds
    \/ \E d \in Devices : \E i \in DOMAIN Setup[d] : ReadRegister(d, i)
    \/ Respond
    \/ \E d \in Devices : Tick(d) \/ Die(d)
    \/ Cancel

Spec == Init /\ [][Next]_vars

\* The goroutines run, the library's timeouts end a read, the tickers tick, and
\* a select with two channels ready does not always leave out the same one.
Fairness ==
    /\ WF_vars(LoopStep)
    /\ \A d \in Devices : WF_vars(Tick(d))
    /\ WF_vars(Publish)
    /\ SF_vars(TelemetryEnds)

FairSpec == Spec /\ Fairness

-----------------------------------------------------------------------------
(* Properties *)

\* read_register answers with the number the register's bytes stand for, and nil
\* if they are too few.  A bool is true if the register is at least 256: a
\* register that holds 1 is reported false.
DecodedRight ==
    /\ reply.type \in {"int16", "uint16", "int32", "uint32"} =>
         reply.value = IF Has(reply.raw, Width(reply.type))
                       THEN Number(Meaning(reply.type, reply.raw)) ELSE Nil
    /\ reply.type = "bool" => reply.value = Bool(Word(reply.raw) >= Base)

\* A slow or dead device delays the others but does not starve them: every tick
\* of a device gets it polled.
EveryTickIsServed == \A d \in Devices : (d \in tick) ~> (d \notin tick \/ cancelled)

\* Every register of the device is asked for.
Probed(d) ==
    \A i \in DOMAIN Setup[d] : Asked(Setup[d][i].type, Setup[d][i].quantity)

\* A device that has stopped answering disappears from the telemetry, if its
\* registers are all asked for.  One that is not has a value in every poll: with
\* it a dead device is never taken out of the collector.
DeadDeviceDropsOut ==
    \A d \in Devices : Probed(d) =>
        ((d \notin alive) ~> ([](d \notin values \cup batch) \/ cancelled))

\* Both loops end after the context is cancelled, whatever they were doing.
LoopsEnd == cancelled ~> (at = Ended /\ publisher = "ended")
=============================================================================
