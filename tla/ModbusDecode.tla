---------------------------- MODULE ModbusDecode ----------------------------
(***************************************************************************)
(* What readRegister (modbus.go) makes of the bytes of a register, for     *)
(* bytes of any even number of values: 256 in the program, fewer in an     *)
(* instance.  A value is a number, the bits of a float, a Boolean as 0 or  *)
(* 1, the bytes as they are, or nil.                                       *)
(***************************************************************************)
EXTENDS Integers

CONSTANT Base       \* the values of a byte

ASSUME BaseAssumption == Base \in Nat \ {0} /\ Base % 2 = 0

Bytes == 0..(Base - 1)

Types == {"coil", "discrete", "holding", "input", "float32",
          "int16", "uint16", "int32", "uint32", "bool"}

Nil       == [kind |-> "nil", n |-> 0]
Number(n) == [kind |-> "number", n |-> n]
Float(n)  == [kind |-> "float", n |-> n]
Bool(b)   == [kind |-> "bool", n |-> IF b THEN 1 ELSE 0]
AsIs      == [kind |-> "bytes", n |-> 0]

Values == [kind : {"nil", "number", "float", "bool", "bytes"}, n : Int]

\* Coils are asked for one at a time.  Any other quantity of them, and that is 0
\* where the configuration has none, is not asked for: the byte is made up.
Asked(type, quantity) == type # "coil" \/ quantity = 1

\* The bytes that reading may give.  The bits of coils and of discrete inputs
\* come packed, a register has two bytes; the library refuses a quantity of 0.
Answers(type, quantity) ==
    IF ~Asked(type, quantity) THEN [1..1 -> {0}]
    ELSE IF type = "coil" THEN [1..1 -> {0, 1}]
    ELSE IF quantity = 0 THEN {}
    ELSE IF type = "discrete" THEN [1..((quantity + 7) \div 8) -> Bytes]
    ELSE [1..(2 * quantity) -> Bytes]

\* len(raw) >= n
Has(raw, n) == n \in DOMAIN raw

\* The bits of the first two and of the first four bytes, big-endian.
Word(raw)   == raw[1] * Base + raw[2]
Double(raw) == Word(raw) * (Base * Base) + (raw[3] * Base + raw[4])

\* int16(b) << 8 and int32(b) << 24: b ends up in the highest byte, and its
\* highest bit is the sign.
Top(b) == IF 2 * b >= Base THEN b - Base ELSE b

\* Mutant: the highest byte is shifted before it is converted.
Decode_Unsigned(type, raw) ==
    CASE type = "float32" -> IF Has(raw, 4) THEN Float(Double(raw)) ELSE Nil
      [] type \in {"int16", "uint16"} -> IF Has(raw, 2) THEN Number(Word(raw)) ELSE Nil
      [] type \in {"int32", "uint32"} -> IF Has(raw, 4) THEN Number(Double(raw)) ELSE Nil
      [] type = "bool" -> IF Has(raw, 1) THEN Bool(raw[1] # 0) ELSE Nil
      [] OTHER -> AsIs

\* A short answer is no error and leaves the value nil; bool looks at the first
\* byte, which is the register's high one.
Decode(type, raw) ==
    CASE type = "float32" -> IF Has(raw, 4) THEN Float(Double(raw)) ELSE Nil
      [] type = "int16"   -> IF Has(raw, 2) THEN Number(Top(raw[1]) * Base + raw[2]) ELSE Nil
      [] type = "uint16"  -> IF Has(raw, 2) THEN Number(Word(raw)) ELSE Nil
      [] type = "int32"   -> IF Has(raw, 4)
                             THEN Number((Top(raw[1]) * Base + raw[2]) * (Base * Base)
                                           + (raw[3] * Base + raw[4]))
                             ELSE Nil
      [] type = "uint32"  -> IF Has(raw, 4) THEN Number(Double(raw)) ELSE Nil
      [] type = "bool"    -> IF Has(raw, 1) THEN Bool(raw[1] # 0) ELSE Nil
      [] OTHER            -> AsIs

-----------------------------------------------------------------------------
(* What a register means (the Modbus specification) *)

\* The number that n stands for in two's complement, of modulus m.
TwosComplement(n, m) == IF 2 * n >= m THEN n - m ELSE n

Meaning(type, raw) ==
    CASE type = "int16"  -> TwosComplement(Word(raw), Base * Base)
      [] type = "uint16" -> Word(raw)
      [] type = "int32"  -> TwosComplement(Double(raw), (Base * Base) * (Base * Base))
      [] type = "uint32" -> Double(raw)

Width(type) == IF type \in {"int16", "uint16"} THEN 2 ELSE 4
=============================================================================
