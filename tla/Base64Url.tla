------------------------------- MODULE Base64Url -------------------------------
(***************************************************************************)
(* base64UrlEncode, which writes session ids and OAuth states: bytes are   *)
(* shifted into an int, and six bits are taken out as soon as they are     *)
(* there.  The int overflows; it is val modulo 2^Width, with a sign.       *)
(*                                                                         *)
(* A character of the alphabet is its index.                               *)
(***************************************************************************)
EXTENDS Integers, Sequences

CONSTANTS Bytes,     \* values of a byte, in 0 .. 255
          MaxLength, \* bound on the length of data
          Width      \* bits of an int, 16 or more

VARIABLES
  data,  \* the bytes the loop has seen
  val,   \* the int with the bits not yet written, and older ones above
  valb,  \* how many bits are waiting, less 6
  result,
  ended

vars == <<data, val, valb, result, ended>>

TypeOK ==
  /\ data \in Seq(Bytes) /\ Len(data) <= MaxLength
  /\ val \in -(2 ^ (Width - 1)) .. 2 ^ (Width - 1) - 1
  /\ valb \in -6 .. 7 /\ (ended => valb < 0)
  /\ result \in Seq(0 .. 63)
  /\ ended \in BOOLEAN

Init == data = <<>> /\ val = 0 /\ valb = -6 /\ result = <<>> /\ ended = FALSE

\* Overflow wraps around; in a mutant the int stays at its limit.
Saturated(x) == IF x > 2 ^ (Width - 1) - 1 THEN 2 ^ (Width - 1) - 1 ELSE x
AsInt(x) == ((x + 2 ^ (Width - 1)) % 2 ^ Width) - 2 ^ (Width - 1)
ShiftedIn(c) == AsInt(AsInt(val * 256) + c)
LowSix(x, shift) == (x \div 2 ^ shift) % 64

\* The next byte of the range.
ShiftIn(c) ==
  /\ ~ended /\ valb < 0 /\ Len(data) < MaxLength
  /\ data' = Append(data, c)
  /\ val' = ShiftedIn(c)
  /\ valb' = valb + 8
  /\ UNCHANGED <<result, ended>>

\* One turn of the inner loop.
PushSix ==
  /\ valb >= 0
  /\ result' = Append(result, LowSix(val, valb))
  /\ valb' = valb - 6
  /\ UNCHANGED <<data, val, ended>>

\* The range ends; the bits that are left are written with zeros after them.
Finish ==
  /\ ~ended /\ valb < 0
  /\ result' = IF valb > -6 THEN Append(result, LowSix(AsInt(val * 256), valb + 8)) ELSE result
  /\ ended' = TRUE
  /\ UNCHANGED <<data, val, valb>>

Next == (\E c \in Bytes : ShiftIn(c)) \/ PushSix \/ Finish \/ (ended /\ UNCHANGED vars)

Spec == Init /\ [][Next]_vars

-----------------------------------------------------------------------------
\* RFC 4648: the bits of the data in order, in groups of six, zeros at the end.
Bit(k) == IF k < 8 * Len(data) THEN (data[k \div 8 + 1] \div 2 ^ (7 - (k % 8))) % 2 ELSE 0
Group(i) == 32 * Bit(6 * i) + 16 * Bit(6 * i + 1) + 8 * Bit(6 * i + 2) + 4 * Bit(6 * i + 3) + 2 * Bit(6 * i + 4) + Bit(6 * i + 5)
Encoding(length) == [i \in 1 .. length |-> Group(i - 1)]

(***************************************************************************)
(* The token has every bit of the random bytes, in order, also after the   *)
(* int has overflowed: what is written is a prefix of the encoding, all of *)
(* it in the end, ceil(8n / 6) characters without padding.                 *)
(***************************************************************************)
EncodesEveryBit ==
  /\ result = Encoding(Len(result))
  /\ ended => Len(result) = (8 * Len(data) + 5) \div 6
=============================================================================
