----------------------------- MODULE DhtDecode -----------------------------
(***************************************************************************)
(* What pi_2_dht_read makes of the pulses of a frame: five bytes, each bit *)
(* a low pulse of constant length and a high one whose length is the bit.  *)
(* The bytes have BitsPerByte bits; a count is a turn of the waiting loop, *)
(* taken to last a microsecond.                                            *)
(***************************************************************************)
EXTENDS Integers, FiniteSets, Functions

CONSTANTS
    BitsPerByte,    \* 8 in the driver
    Frames,         \* the frames the sensor may send, 0..4 -> bytes
    Slight, Gross   \* by how much a pulse may always be off, and by how much seldom

ASSUME DecodeAssumption == BitsPerByte \in Nat \ {0} /\ Slight \cup Gross \subseteq Int

Bits == 0 .. 5 * BitsPerByte - 1
Bytes == 0 .. 2 ^ BitsPerByte - 1
SHORT == 28
LOW == 50
LONG == 70

\* What the sensor calls a frame: the last byte is the sum of the others.
Checksum(d) == (d[0] + d[1] + d[2] + d[3]) % 2 ^ BitsPerByte

\* The bit that comes as number b: the bytes in order, the highest bit first.
BitOf(d, b) == (d[b \div BitsPerByte] \div 2 ^ (BitsPerByte - 1 - (b % BitsPerByte))) % 2

Clean(d) ==
    [low |-> [b \in Bits |-> LOW],
     high |-> [b \in Bits |-> IF BitOf(d, b) = 1 THEN LONG ELSE SHORT]]

\* The average length of the low pulses.
Threshold(p) == SumFunction(p.low) \div (5 * BitsPerByte)

BitRead(p, b) == IF p.high[b] >= Threshold(p) THEN 1 ELSE 0

\* data[index] <<= 1, data[index] |= the bit.
ByteRead(p, i) ==
    SumFunction([k \in 0 .. BitsPerByte - 1 |->
        BitRead(p, i * BitsPerByte + k) * 2 ^ (BitsPerByte - 1 - k)])

\* Mutant: the last byte of the temperature is not checked.
AcceptsLoosely(d) == d[4] = (d[0] + d[1] + d[2]) % 2 ^ BitsPerByte

Accepts(d) == d[4] = (d[0] + d[1] + d[2] + d[3]) % 2 ^ BitsPerByte

-----------------------------------------------------------------------------
(* What arrives of a frame, and what the driver makes of it.               *)

Arrival(f, pulses) == [sent |-> f, data |-> [i \in 0..4 |-> ByteRead(pulses, i)]]

\* The pulses of a frame with some of them longer or shorter than they should be.
Pulses(f, off) ==
    LET clean == Clean(f)
        Count(kind, b) == clean[kind][b] + (IF <<kind, b>> \in DOMAIN off THEN off[<<kind, b>>] ELSE 0)
    IN [kind \in {"low", "high"} |-> [b \in Bits |-> Count(kind, b)]]

\* Up to two pulses that are slightly off.
SlightArrivals ==
    {Arrival(f, Pulses(f, off)) : f \in Frames,
        off \in UNION {[{x, y} -> Slight \cup {0}] : x, y \in {"low", "high"} \X Bits}}

\* One pulse, low or high, that is grossly off.
GrossArrivals ==
    {Arrival(f, Pulses(f, off)) : f \in Frames,
        off \in UNION {[{x} -> Gross] : x \in {"low", "high"} \X Bits}}

Zeros == [i \in 0..4 |-> 0]
=============================================================================
