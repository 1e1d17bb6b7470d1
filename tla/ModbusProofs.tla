---------------------------- MODULE ModbusProofs ----------------------------
(***************************************************************************)
(* Proofs about ModbusPolling and ModbusDecode, for any devices and        *)
(* registers and bytes of any even number of values: what read_register    *)
(* answers is what the bytes of the register mean, different answers give  *)
(* different numbers, a device that has dropped out of the telemetry stays *)
(* out, if its registers are all asked for, and one with a register that   *)
(* is not never drops out.                                                 *)
(*                                                                         *)
(* The sign is the one thing to show of the decoding: shifting the         *)
(* converted highest byte gives the two's complement of the whole          *)
(* (SignOfTop).  The bytes can be read off the number because a quotient   *)
(* and its remainder are unique (DigitsUnique) and no two bytes give the   *)
(* same signed one (TopUnique).  That a device stays out needs that no     *)
(* answer of the poll before is held when the loop comes to it             *)
(* (AnswerInv); that the other kind never does, that a poll which is past  *)
(* the register has a value (MadeUpInv).                                   *)
(***************************************************************************)
EXTENDS ModbusPolling, TLAPS

-----------------------------------------------------------------------------
(* Decoding *)

\* h is the highest byte and r the rest, below m.
LEMMA SignOfTop ==
    ASSUME NEW h \in Bytes, NEW m \in Nat \ {0}, NEW r \in 0..(m - 1)
    PROVE  TwosComplement(h * m + r, Base * m) = Top(h) * m + r
<1>1. PICK k \in Nat \ {0} : Base = 2 * k
  <2>1. Base \in Nat \ {0} /\ Base % 2 = 0
    BY BaseAssumption
  <2>2. Base = 2 * (Base \div 2) /\ Base \div 2 \in Nat \ {0}
    BY <2>1
  <2> QED
    BY <2>2
<1>2. h \in Nat /\ h * m \in Nat /\ k * m \in Nat /\ Base * m = 2 * (k * m)
  BY <1>1 DEF Bytes
<1>3. CASE h >= k
  <2>1. h * m >= k * m
    BY <1>1, <1>2, <1>3
  <2>2. TwosComplement(h * m + r, Base * m) = h * m + r - Base * m
    BY <1>2, <2>1 DEF TwosComplement
  <2>3. Top(h) = h - Base
    BY <1>1, <1>2, <1>3 DEF Top
  <2>4. (h - Base) * m = h * m - Base * m
    BY <1>1, <1>2
  <2> QED
    BY <1>1, <1>2, <2>2, <2>3, <2>4
<1>4. CASE h < k
  <2>1. h * m + m <= k * m
    <3>1. (h + 1) * m <= k * m
      BY <1>1, <1>2, <1>4
    <3> QED
      BY <1>2, <3>1
  <2>2. TwosComplement(h * m + r, Base * m) = h * m + r
    BY <1>2, <2>1 DEF TwosComplement
  <2>3. Top(h) = h
    BY <1>1, <1>2, <1>4 DEF Top
  <2> QED
    BY <2>2, <2>3
<1> QED
  BY <1>1, <1>2, <1>3, <1>4

LEMMA WordDecoded ==
    ASSUME NEW raw, raw[1] \in Bytes, raw[2] \in Bytes
    PROVE  TwosComplement(Word(raw), Base * Base) = Top(raw[1]) * Base + raw[2]
  BY SignOfTop, BaseAssumption DEF Word, Bytes

LEMMA DoubleDecoded ==
    ASSUME NEW raw, \A i \in 1..4 : raw[i] \in Bytes
    PROVE  TwosComplement(Double(raw), (Base * Base) * (Base * Base))
             = (Top(raw[1]) * Base + raw[2]) * (Base * Base) + (raw[3] * Base + raw[4])
<1> DEFINE m == Base * (Base * Base)
           r == raw[2] * (Base * Base) + (raw[3] * Base + raw[4])
<1>1. /\ Base \in Nat \ {0}
      /\ raw[1] \in Nat /\ raw[2] \in Nat /\ raw[3] \in Nat /\ raw[4] \in Nat
      /\ raw[2] <= Base - 1 /\ raw[3] <= Base - 1 /\ raw[4] <= Base - 1
  BY BaseAssumption DEF Bytes
<1>2. m \in Nat \ {0}
  BY <1>1
<1>3. raw[3] * Base + raw[4] \in 0..(Base * Base - 1)
  <2>1. raw[3] * Base <= (Base - 1) * Base
    BY <1>1
  <2> QED
    BY <1>1, <2>1
<1>4. r \in 0..(m - 1)
  <2>1. raw[2] * (Base * Base) <= (Base - 1) * (Base * Base)
    BY <1>1
  <2> QED
    BY <1>1, <1>3, <2>1
<1>5. TwosComplement(raw[1] * m + r, Base * m) = Top(raw[1]) * m + r
  BY <1>2, <1>4, SignOfTop
<1>6. Double(raw) = raw[1] * m + r /\ Base * m = (Base * Base) * (Base * Base)
  BY <1>1 DEF Double, Word
<1>7. Top(raw[1]) \in Int
  BY <1>1 DEF Top
<1>8. Top(raw[1]) * m + r
        = (Top(raw[1]) * Base + raw[2]) * (Base * Base) + (raw[3] * Base + raw[4])
  BY <1>1, <1>7
<1> QED
  BY <1>5, <1>6, <1>8

LEMMA BoolDecoded ==
    ASSUME NEW raw, raw[1] \in Bytes, raw[2] \in Bytes
    PROVE  raw[1] # 0 <=> Word(raw) >= Base
<1>1. Base \in Nat \ {0} /\ raw[1] \in Nat /\ raw[2] \in 0..(Base - 1)
  BY BaseAssumption DEF Bytes
<1>2. CASE raw[1] = 0
  BY <1>1, <1>2 DEF Word
<1>3. CASE raw[1] >= 1
  <2>1. raw[1] * Base >= Base
    BY <1>1, <1>3
  <2> QED
    BY <1>1, <1>3, <2>1 DEF Word
<1> QED
  BY <1>1, <1>2, <1>3

Numbers == {"int16", "uint16", "int32", "uint32"}

\* readRegister decodes any answer to what it means, or to nil.
LEMMA DecodeIsRight ==
    ASSUME NEW t \in Types, NEW q \in Nat, NEW raw \in Answers(t, q)
    PROVE  /\ t \in Numbers => Decode(t, raw) = IF Has(raw, Width(t))
                                                THEN Number(Meaning(t, raw)) ELSE Nil
           /\ t = "bool" => Decode(t, raw) = Bool(Word(raw) >= Base)
<1>1. ASSUME t \in Numbers \cup {"bool"}
      PROVE  q # 0 /\ raw \in [1..(2 * q) -> Bytes]
  BY <1>1 DEF Answers, Asked, Numbers
<1>2. CASE t = "int16"
  BY <1>1, <1>2, WordDecoded DEF Numbers, Decode, Has, Width, Meaning
<1>3. CASE t = "uint16"
  BY <1>3 DEF Numbers, Decode, Width, Meaning
<1>4. CASE t = "int32"
  <2>1. ASSUME Has(raw, 4) PROVE \A i \in 1..4 : raw[i] \in Bytes
    BY <1>1, <1>4, <2>1 DEF Has, Numbers
  <2> QED
    BY <1>4, <2>1, DoubleDecoded DEF Numbers, Decode, Width, Meaning
<1>5. CASE t = "uint32"
  BY <1>5 DEF Numbers, Decode, Width, Meaning
<1>6. CASE t = "bool"
  <2>1. raw[1] \in Bytes /\ raw[2] \in Bytes /\ Has(raw, 1)
    BY <1>1, <1>6 DEF Has
  <2> QED
    BY <1>6, <2>1, BoolDecoded DEF Numbers, Decode, Bool
<1> QED
  BY <1>2, <1>3, <1>4, <1>5, <1>6 DEF Numbers

\* The quotient and the remainder are unique.
LEMMA DigitsUnique ==
    ASSUME NEW m \in Nat \ {0}, NEW h \in Int, NEW i \in Int,
           NEW r \in 0..(m - 1), NEW s \in 0..(m - 1),
           h * m + r = i * m + s
    PROVE  h = i /\ r = s
<1>1. ASSUME NEW a \in Int, NEW b \in Int, a < b PROVE a * m + m <= b * m
  <2>1. (a + 1) * m <= b * m
    BY <1>1
  <2> QED
    BY <2>1
<1>2. h * m \in Int /\ i * m \in Int
  OBVIOUS
<1>3. ~(h < i)
  BY <1>1, <1>2
<1>4. ~(i < h)
  BY <1>1, <1>2
<1> QED
  BY <1>2, <1>3, <1>4

LEMMA TopUnique ==
    ASSUME NEW a \in Bytes, NEW b \in Bytes, Top(a) = Top(b)
    PROVE  a = b
  BY BaseAssumption DEF Top, Bytes

LEMMA TwoDigits ==
    ASSUME NEW h \in Int, NEW i \in Int, NEW r \in Bytes, NEW s \in Bytes,
           h * Base + r = i * Base + s
    PROVE  h = i /\ r = s
<1>1. Base \in Nat \ {0} /\ r \in 0..(Base - 1) /\ s \in 0..(Base - 1)
  BY BaseAssumption DEF Bytes
<1> QED
  BY <1>1, DigitsUnique

LEMMA FourDigits ==
    ASSUME NEW h \in Int, NEW h2 \in Bytes, NEW h3 \in Bytes, NEW h4 \in Bytes,
           NEW i \in Int, NEW i2 \in Bytes, NEW i3 \in Bytes, NEW i4 \in Bytes,
           (h * Base + h2) * (Base * Base) + (h3 * Base + h4)
             = (i * Base + i2) * (Base * Base) + (i3 * Base + i4)
    PROVE  h = i /\ h2 = i2 /\ h3 = i3 /\ h4 = i4
<1> DEFINE m  == Base * Base
           hh == h * Base + h2
           hl == h3 * Base + h4
           ih == i * Base + i2
           il == i3 * Base + i4
<1>1. Base \in Nat \ {0} /\ m \in Nat \ {0}
  BY BaseAssumption
<1>2. ASSUME NEW c \in Bytes, NEW d \in Bytes PROVE c * Base + d \in 0..(m - 1)
  <2>1. c \in Nat /\ d \in Nat /\ c <= Base - 1 /\ d <= Base - 1
    BY <1>1 DEF Bytes
  <2>2. c * Base <= (Base - 1) * Base /\ c * Base \in Nat
    BY <1>1, <2>1
  <2> QED
    BY <1>1, <2>1, <2>2
<1>3. hl \in 0..(m - 1) /\ il \in 0..(m - 1)
  BY <1>2
<1>4. hh \in Int /\ ih \in Int
  BY <1>1 DEF Bytes
<1>5. hh * m + hl = ih * m + il
  OBVIOUS
<1>6. hh = ih /\ hl = il
  <2> HIDE DEF m, hh, hl, ih, il
  <2> QED
    BY <1>1, <1>3, <1>4, <1>5, DigitsUnique
<1>7. h = i /\ h2 = i2
  BY <1>6, TwoDigits
<1>8. h3 = i3 /\ h4 = i4
  BY <1>6, TwoDigits DEF Bytes
<1> QED
  BY <1>7, <1>8

LEMMA SameBytes ==
    ASSUME NEW S, NEW a \in [S -> Bytes], NEW b \in [S -> Bytes], \A i \in S : a[i] = b[i]
    PROVE  a = b
  OBVIOUS

\* The highest byte as decoding a t shifts it.
Highest(t, c) == IF t \in {"int16", "int32"} THEN Top(c) ELSE c

LEMMA HighestUnique ==
    ASSUME NEW t, NEW c \in Bytes, NEW d \in Bytes
    PROVE  /\ Highest(t, c) \in Int /\ Highest(t, d) \in Int
           /\ Highest(t, c) = Highest(t, d) => c = d
<1>1. \A e \in Bytes : e \in Int /\ Top(e) \in Int
  BY BaseAssumption DEF Bytes, Top
<1> QED
  BY <1>1, TopUnique DEF Highest

\* readRegister keeps apart what differs: two full answers that are reported as
\* the same number of a type are the same bytes.
THEOREM DecodingLosesNothing ==
    ASSUME NEW t \in Numbers,
           NEW a \in [1..Width(t) -> Bytes], NEW b \in [1..Width(t) -> Bytes],
           Decode(t, a) = Decode(t, b)
    PROVE  a = b
<1>1. CASE t \in {"int16", "uint16"}
  <2>1. Width(t) = 2
    BY <1>1 DEF Width
  <2>2. /\ a[1] \in Bytes /\ a[2] \in Bytes /\ b[1] \in Bytes /\ b[2] \in Bytes
        /\ Has(a, 2) /\ Has(b, 2)
    BY <2>1 DEF Has
  <2>3. Highest(t, a[1]) * Base + a[2] = Highest(t, b[1]) * Base + b[2]
    BY <1>1, <2>2 DEF Decode, Number, Word, Highest
  <2>4. Highest(t, a[1]) = Highest(t, b[1]) /\ a[2] = b[2]
    <3>1. Highest(t, a[1]) \in Int /\ Highest(t, b[1]) \in Int
      BY <2>2, HighestUnique
    <3> QED
      BY <2>2, <2>3, <3>1, TwoDigits
  <2>5. a[1] = b[1]
    BY <2>2, <2>4, HighestUnique
  <2>6. \A i \in 1..Width(t) : a[i] = b[i]
    BY <2>1, <2>4, <2>5
  <2> QED
    BY <2>6, SameBytes
<1>2. CASE t \in {"int32", "uint32"}
  <2>1. Width(t) = 4
    BY <1>2 DEF Width
  <2>2. /\ a[1] \in Bytes /\ a[2] \in Bytes /\ a[3] \in Bytes /\ a[4] \in Bytes
        /\ b[1] \in Bytes /\ b[2] \in Bytes /\ b[3] \in Bytes /\ b[4] \in Bytes
        /\ Has(a, 4) /\ Has(b, 4)
    BY <2>1 DEF Has
  <2>3. (Highest(t, a[1]) * Base + a[2]) * (Base * Base) + (a[3] * Base + a[4])
          = (Highest(t, b[1]) * Base + b[2]) * (Base * Base) + (b[3] * Base + b[4])
    BY <1>2, <2>2 DEF Decode, Number, Word, Double, Highest
  <2>4. /\ Highest(t, a[1]) = Highest(t, b[1])
        /\ a[2] = b[2] /\ a[3] = b[3] /\ a[4] = b[4]
    <3>1. Highest(t, a[1]) \in Int /\ Highest(t, b[1]) \in Int
      BY <2>2, HighestUnique
    <3> QED
      BY <2>2, <2>3, <3>1, FourDigits
  <2>5. a[1] = b[1]
    BY <2>2, <2>4, HighestUnique
  <2>6. \A i \in 1..Width(t) : a[i] = b[i]
    BY <2>1, <2>4, <2>5
  <2> QED
    BY <2>6, SameBytes
<1> QED
  BY <1>1, <1>2 DEF Numbers

-----------------------------------------------------------------------------
(* Invariants *)

LEMMA AfterType ==
    ASSUME NEW d, NEW e \in After(d)
    PROVE  e \in {0} \cup pool
  BY DEF After

LEMMA SetupType ==
    /\ Len(Setup) \in Nat
    /\ \A d \in Devices :
         /\ Setup[d] \in Seq(Kinds)
         /\ Len(Setup[d]) \in Nat
         /\ \A i \in DOMAIN Setup[d] : Setup[d][i].type \in Types /\ Setup[d][i].quantity \in Nat
<1>1. Setup \in Seq(Seq(Kinds))
  BY PollingAssumption
<1>2. Len(Setup) \in Nat /\ \A d \in Devices : Setup[d] \in Seq(Kinds)
  BY <1>1 DEF Devices
<1>3. ASSUME NEW k \in Kinds PROVE k.type \in Types /\ k.quantity \in Nat
  BY DEF Kinds
<1>4. ASSUME NEW s \in Seq(Kinds), NEW i \in DOMAIN s
      PROVE  s[i].type \in Types /\ s[i].quantity \in Nat
  <2>1. s[i] \in Kinds
    OBVIOUS
  <2> QED
    BY <2>1, <1>3
<1> QED
  BY <1>2, <1>4

LEMMA TypeStep ==
    ASSUME TypeOK, [Next]_vars
    PROVE  TypeOK'
<1> USE SetupType DEF TypeOK, loopVars, telemetryVars
<1>1. CASE Round
  <2>1. 0 \notin pool /\ Ended \notin pool
    BY DEF Ended, Devices
  <2>2. reg = 0 /\ at' \in {0, Ended} \cup pool
    BY <1>1, <2>1, AfterType DEF Round
  <2> QED
    BY <1>1, <2>1, <2>2 DEF Round
<1>2. CASE Look
  <2>1. CASE at \in tick
    <3>1. at \notin {0, Ended}
      BY <1>2 DEF Look, Ended, Devices
    <3>2. reg' = 1 /\ at \in pool /\ Len(Setup[at]) \in Nat
      BY <1>2, <2>1, SetupType DEF Look
    <3>3. tick' = tick \ {at} /\ UNCHANGED <<pool, alive, at, got, values, publisher,
                                             batch, reply, cancelled>>
      BY <1>2, <2>1 DEF Look
    <3> QED
      BY <3>1, <3>2, <3>3 DEF Ended, Devices
  <2>2. CASE at \notin tick
    <3>1. reg = 0 /\ at' \in {0} \cup pool
      BY <1>2, <2>2, AfterType DEF Look
    <3>2. 0 \notin pool
      BY DEF Devices
    <3>3. reg' = 0 /\ UNCHANGED <<pool, alive, tick, got, values, publisher, batch, reply,
                                  cancelled>>
      BY <1>2, <2>2, <3>1 DEF Look
    <3>4. IF at' \in pool THEN reg' <= Len(Setup[at']) + 1 ELSE reg' = 0
      BY <3>3
    <3> QED
      BY <3>1, <3>3, <3>4
  <2> QED
    BY <2>1, <2>2
<1>3. CASE Read
  <2>1. got' \in BOOLEAN
    BY <1>3, Zenon DEF Read
  <2>2. at \in Devices /\ reg' <= Len(Setup[at]) + 1 /\ reg' \in Nat
    BY <1>3, SetupType DEF Read
  <2> QED
    BY <1>3, <2>1, <2>2 DEF Read
<1>4. CASE Store
  <2>1. got' \in BOOLEAN
    BY <1>4, Zenon DEF Store
  <2>2. at \in pool
    BY <1>4 DEF Store
  <2> QED
    BY <1>4, <2>1, <2>2, AfterType DEF Store
<1>5. CASE Collect \/ Publish \/ TelemetryEnds
  BY <1>5 DEF Collect, Publish, TelemetryEnds
<1>6. ASSUME NEW d \in Devices, NEW i \in DOMAIN Setup[d], ReadRegister(d, i) PROVE TypeOK'
  BY <1>6 DEF ReadRegister
<1>7. CASE Respond
  BY <1>7 DEF Respond, NoReply
<1>8. ASSUME NEW d \in Devices, Tick(d) \/ Die(d) PROVE TypeOK'
  BY <1>8 DEF Tick, Die
<1>9. CASE Cancel
  BY <1>9 DEF Cancel
<1>10. CASE UNCHANGED vars
  BY <1>10 DEF vars
<1> QED
  BY <1>1, <1>2, <1>3, <1>4, <1>5, <1>6, <1>7, <1>8, <1>9, <1>10 DEF Next, LoopStep

LEMMA DecodedStep ==
    ASSUME DecodedRight, [Next]_vars
    PROVE  DecodedRight'
<1>1. CASE UNCHANGED reply
  BY <1>1 DEF DecodedRight
<1>2. ASSUME NEW d \in Devices, NEW i \in DOMAIN Setup[d], ReadRegister(d, i)
      PROVE  DecodedRight'
  <2> DEFINE k == Setup[d][i]
  <2>1. PICK raw \in Answers(k.type, k.quantity) :
          reply' = [type |-> k.type, raw |-> raw, value |-> Decode(k.type, raw)]
    BY <1>2 DEF ReadRegister, Readings
  <2>2. k.type \in Types /\ k.quantity \in Nat
    BY SetupType
  <2> HIDE DEF k
  <2> QED
    BY <2>1, <2>2, DecodeIsRight DEF DecodedRight, Numbers
<1>3. CASE Respond
  BY <1>3 DEF Respond, NoReply, DecodedRight
<1>4. CASE LoopStep
  BY <1>1, <1>4 DEF LoopStep, Round, Look, Read, Store
<1>5. CASE Collect \/ Publish \/ TelemetryEnds
  BY <1>1, <1>5 DEF Collect, Publish, TelemetryEnds
<1>6. ASSUME NEW d \in Devices, Tick(d) \/ Die(d) PROVE DecodedRight'
  BY <1>1, <1>6 DEF Tick, Die
<1>7. CASE Cancel \/ UNCHANGED vars
  BY <1>1, <1>7 DEF Cancel, vars
<1> QED
  BY <1>2, <1>3, <1>4, <1>5, <1>6, <1>7 DEF Next

-----------------------------------------------------------------------------
(* Theorems *)

\* The loops, the collector and the telemetry keep their types, and hold values
\* of connected devices only, for any number of devices and registers (TypeOK).
THEOREM PollingTypes == Spec => []TypeOK
<1>1. Init => TypeOK
  <2> SUFFICES ASSUME Init PROVE TypeOK
    OBVIOUS
  <2>1. got \in BOOLEAN /\ cancelled \in BOOLEAN
    BY Zenon DEF Init
  <2> QED
    BY <2>1, SetupType DEF Init, TypeOK, NoReply, Devices
<1>2. TypeOK /\ [Next]_vars => TypeOK'
  BY TypeStep
<1> QED
  BY <1>1, <1>2, PTL DEF Spec

\* read_register's answer is what the register's bytes stand for, with bytes of
\* any even number of values (readRegister; DecodedRight).
THEOREM ReadsAreDecoded == Spec => []DecodedRight
<1>1. Init => DecodedRight
  BY DEF Init, DecodedRight, NoReply
<1>2. DecodedRight /\ [Next]_vars => DecodedRight'
  BY DecodedStep
<1> QED
  BY <1>1, <1>2, PTL DEF Spec

\* Nothing brings back a device that has stopped answering and has dropped out,
\* if its registers are all asked for: no answer of another device is taken for
\* one of its own, and no telemetry under way puts it back.
GoneStaysGone ==
    [][\A d \in Devices :
         /\ Probed(d)
         /\ d \notin alive \cup values \cup batch /\ ~(at = d /\ got)
         => d \notin values' \cup batch' /\ ~(at' = d /\ got')]_vars

\* Between two polls no answer is held.
AnswerInv == got => reg # 0

LEMMA AnswerStep ==
    ASSUME TypeOK, AnswerInv, [Next]_vars
    PROVE  AnswerInv'
<1> USE DEF AnswerInv, loopVars
<1>1. CASE Round
  BY <1>1 DEF Round
<1>2. CASE Look
  BY <1>2 DEF Look
<1>3. CASE Read
  BY <1>3, PollingAssumption DEF Read, TypeOK
<1>4. CASE Store
  BY <1>4 DEF Store
<1>5. CASE Collect \/ Publish \/ TelemetryEnds \/ Respond \/ Cancel \/ UNCHANGED vars
  BY <1>5 DEF Collect, Publish, TelemetryEnds, Respond, Cancel, vars
<1>6. ASSUME NEW d \in Devices, (\E i \in DOMAIN Setup[d] : ReadRegister(d, i)) \/ Tick(d) \/ Die(d)
      PROVE  AnswerInv'
  BY <1>6 DEF ReadRegister, Tick, Die
<1> QED
  BY <1>1, <1>2, <1>3, <1>4, <1>5, <1>6 DEF Next, LoopStep

\* One device: out of the collector and the telemetry, and without an answer.
Out(d) == d \notin alive \cup values \cup batch /\ ~(at = d /\ got)

LEMMA OutStep ==
    ASSUME TypeOK, AnswerInv, [Next]_vars, NEW d \in Devices, Probed(d), Out(d)
    PROVE  d \notin values' \cup batch' /\ ~(at' = d /\ got')
<1> USE DEF Out, AnswerInv, loopVars, telemetryVars
<1>1. CASE Round
  <2>1. 0 \notin pool
    BY DEF TypeOK, Devices
  <2> QED
    BY <1>1, <2>1 DEF Round, TypeOK
<1>2. CASE Look
  BY <1>2 DEF Look
<1>3. CASE Read
  <2>1. at = d => Readings(at, Setup[at][reg]) = {}
    BY <1>3 DEF Read, Readings, Probed
  <2>2. at = d => ~got'
    BY <1>3, <2>1 DEF Read
  <2> QED
    BY <1>3, <2>2 DEF Read
<1>4. CASE Store
  BY <1>4 DEF Store
<1>5. CASE Collect \/ Publish \/ TelemetryEnds \/ Respond \/ Cancel \/ UNCHANGED vars
  BY <1>5 DEF Collect, Publish, TelemetryEnds, Respond, Cancel, vars
<1>6. ASSUME NEW e \in Devices, (\E i \in DOMAIN Setup[e] : ReadRegister(e, i)) \/ Tick(e) \/ Die(e)
      PROVE  d \notin values' \cup batch' /\ ~(at' = d /\ got')
  BY <1>6 DEF ReadRegister, Tick, Die
<1> QED
  BY <1>1, <1>2, <1>3, <1>4, <1>5, <1>6 DEF Next, LoopStep

\* A device that has stopped answering and dropped out of the telemetry does not
\* come back, for any number of devices with registers that are all asked for
\* (runModbusLoop).
THEOREM DropOutIsFinal == Spec => GoneStaysGone
<1>1. Init => AnswerInv
  BY DEF Init, AnswerInv
<1>2. TypeOK /\ AnswerInv /\ [Next]_vars =>
        \A d \in Devices :
          /\ Probed(d)
          /\ d \notin alive \cup values \cup batch /\ ~(at = d /\ got)
          => d \notin values' \cup batch' /\ ~(at' = d /\ got')
  BY OutStep DEF Out
<1> QED
  BY <1>1, <1>2, AnswerStep, PollingTypes, PTL DEF Spec, GoneStaysGone

\* A device with a register that is not asked for, once polled, is in the
\* collector for good, dead or alive: every poll has a value.
MadeUpStays ==
    [][\A d \in Devices : ~Probed(d) /\ d \in values => d \in values']_vars

\* A poll that is past such a register has a value.
MadeUpInv ==
    at \in pool =>
        \A i \in DOMAIN Setup[at] :
            ~Asked(Setup[at][i].type, Setup[at][i].quantity) /\ i < reg => got

LEMMA MadeUpReads ==
    ASSUME NEW d, NEW k, ~Asked(k.type, k.quantity)
    PROVE  Readings(d, k) # {}
<1>1. [j \in 1..1 |-> 0] \in [1..1 -> {0}]
  OBVIOUS
<1> QED
  BY <1>1 DEF Readings, Answers

LEMMA MadeUpStep ==
    ASSUME TypeOK, MadeUpInv, [Next]_vars
    PROVE  MadeUpInv'
<1> USE DEF MadeUpInv, loopVars
<1>1. CASE Round \/ Look \/ Store
  <2>1. CASE UNCHANGED at /\ reg' = 1
    <3>1. \A d \in pool : \A i \in DOMAIN Setup[d] : ~(i < 1)
      BY SetupType DEF TypeOK
    <3> QED
      BY <1>1, <2>1, <3>1 DEF Round, Look, Store
  <2>2. CASE reg' = 0
    <3>1. \A d \in pool : \A i \in DOMAIN Setup[d] : ~(i < 0)
      BY SetupType DEF TypeOK
    <3> QED
      BY <1>1, <2>2, <3>1 DEF Round, Look, Store
  <2> QED
    BY <1>1, <2>1, <2>2 DEF Round, Look, Store, TypeOK, Devices
<1>2. CASE Read
  <2> SUFFICES ASSUME NEW i \in DOMAIN Setup[at], i < reg + 1,
                      ~Asked(Setup[at][i].type, Setup[at][i].quantity)
               PROVE  got'
    BY <1>2 DEF Read
  <2>1. CASE i = reg
    BY <1>2, <2>1 DEF Read
  <2>2. CASE i < reg
    BY <1>2, <2>2 DEF Read
  <2>3. i \in Nat /\ reg \in Nat
    BY <1>2, SetupType DEF Read, TypeOK
  <2> QED
    BY <2>1, <2>2, <2>3
<1>3. CASE Collect \/ Publish \/ TelemetryEnds \/ Respond \/ Cancel \/ UNCHANGED vars
  BY <1>3 DEF Collect, Publish, TelemetryEnds, Respond, Cancel, vars
<1>4. ASSUME NEW d \in Devices,
             (\E i \in DOMAIN Setup[d] : ReadRegister(d, i)) \/ Tick(d) \/ Die(d)
      PROVE  MadeUpInv'
  BY <1>4 DEF ReadRegister, Tick, Die
<1> QED
  BY <1>1, <1>2, <1>3, <1>4 DEF Next, LoopStep

LEMMA StaysStep ==
    ASSUME TypeOK, MadeUpInv, [Next]_vars, NEW d \in Devices, ~Probed(d), d \in values
    PROVE  d \in values'
<1>1. CASE Store
  <2>1. at = d => got
    <3> SUFFICES ASSUME at = d PROVE got
      OBVIOUS
    <3>1. PICK i \in DOMAIN Setup[d] : ~Asked(Setup[d][i].type, Setup[d][i].quantity)
      BY DEF Probed
    <3>2. i < reg
      BY <1>1, SetupType DEF Store
    <3> QED
      BY <1>1, <3>1, <3>2 DEF MadeUpInv, Store
  <2> QED
    BY <1>1, <2>1 DEF Store
<1>2. CASE Round \/ Look \/ Read \/ Collect \/ Publish \/ TelemetryEnds \/ Respond
             \/ Cancel \/ UNCHANGED vars
  BY <1>2 DEF Round, Look, Read, Collect, Publish, TelemetryEnds, Respond, Cancel, vars,
              loopVars
<1>3. ASSUME NEW e \in Devices,
             (\E i \in DOMAIN Setup[e] : ReadRegister(e, i)) \/ Tick(e) \/ Die(e)
      PROVE  d \in values'
  BY <1>3 DEF ReadRegister, Tick, Die, loopVars
<1> QED
  BY <1>1, <1>2, <1>3 DEF Next, LoopStep

\* Why DeadDeviceDropsOut leaves some devices out: one with coils that are not
\* asked for never leaves the collector again (readRegister).
THEOREM MadeUpIsKept == Spec => MadeUpStays
<1>1. Init => MadeUpInv
  BY DEF Init, MadeUpInv, Devices
<1>2. TypeOK /\ MadeUpInv /\ [Next]_vars =>
        \A d \in Devices : ~Probed(d) /\ d \in values => d \in values'
  BY StaysStep
<1> QED
  BY <1>1, <1>2, MadeUpStep, PollingTypes, PTL DEF Spec, MadeUpStays
=============================================================================
