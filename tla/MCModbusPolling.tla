-------------------------- MODULE MCModbusPolling --------------------------
(***************************************************************************)
(* A small instance of ModbusPolling: two devices, each of which may be    *)
(* left out, slow or dead, with bytes of one bit.                          *)
(***************************************************************************)
EXTENDS ModbusPolling

Register(type, quantity) == [type |-> type, quantity |-> quantity]

\* One device whose registers, signed numbers of two and four bytes and a bool,
\* are all asked for; and one with coils that are not, and a number that gets
\* too few bytes.
SmallSetup ==
    << << Register("int16", 1), Register("int32", 2), Register("bool", 1) >>,
       << Register("coil", 0), Register("int32", 1) >> >>

=============================================================================
