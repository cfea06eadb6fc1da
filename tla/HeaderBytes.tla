----------------------------- MODULE HeaderBytes -----------------------------
(***************************************************************************)
(* The 32 bytes of a header, as both implementations write and read them   *)
(* (LIB/COMMON/zrlmpi_common.cpp): a start sequence, three integers, the   *)
(* call, the type, empty bytes and an end sequence.                        *)
(***************************************************************************)
EXTENDS Integers

Byte   == 0 .. 255
UINT32 == {n \in Nat : n \div 16777216 < 256}    \* of four bytes

Fields == [dst : UINT32, src : UINT32, size : UINT32, call : Byte, type : Byte]

Magic == 150    \* 0x96

Weight == <<1, 256, 65536, 16777216>>

(* A mutant of integerToBigEndian: only the lowest byte is masked out. *)
OneByte(n) == [k \in 0 .. 3 |-> IF k = 0 THEN n % 256 ELSE 0]

(* In spite of its name, the lowest byte comes first. *)
integerToBigEndian(n) == [k \in 0 .. 3 |-> (n \div Weight[k + 1]) % 256]

bigEndianToInteger(bytes, lsb) ==
  bytes[lsb] + 256 * bytes[lsb + 1] + 65536 * bytes[lsb + 2] + 16777216 * bytes[lsb + 3]

headerToBytes(h) ==
  [b \in 0 .. 31 |->
     IF b < 4 \/ b >= 28 THEN Magic
     ELSE IF b < 8  THEN integerToBigEndian(h.dst)[b - 4]
     ELSE IF b < 12 THEN integerToBigEndian(h.src)[b - 8]
     ELSE IF b < 16 THEN integerToBigEndian(h.size)[b - 12]
     ELSE IF b = 16 THEN h.call ELSE IF b = 17 THEN h.type ELSE 0]

(* The last check that fails decides; 0 is success. *)
HeaderError(bytes) ==
  IF \E b \in 28 .. 31 : bytes[b] # Magic THEN -3
  ELSE IF \E b \in 18 .. 27 : bytes[b] # 0 THEN -2
  ELSE IF \E b \in 0 .. 3 : bytes[b] # Magic THEN -1 ELSE 0

bytesToHeader(bytes) ==
  [dst  |-> bigEndianToInteger(bytes, 4), src |-> bigEndianToInteger(bytes, 8),
   size |-> bigEndianToInteger(bytes, 12), call |-> bytes[16], type |-> bytes[17]]

(* The header is recognised, and every field is what was written. *)
IsRead(h) ==
  LET bytes == headerToBytes(h)
  IN  HeaderError(bytes) = 0 /\ bytesToHeader(bytes) = h

=============================================================================
