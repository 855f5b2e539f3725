------------------------------- MODULE Endian --------------------------------
(***************************************************************************)
(* utilmm::endian between two hosts: one converts a number from the order  *)
(* of its bytes in memory and writes the memory, the other one reads and   *)
(* converts it back.  A byte has Byte values, 256 in the code.             *)
(***************************************************************************)
EXTENDS Naturals, Sequences

CONSTANTS Byte, Widths, Nothing

ASSUME EndianAssumption == Byte \in Nat \ {0} /\ Widths \subseteq {1, 2, 4, 8}

Power[i \in 0 .. 8] == IF i = 0 THEN 1 ELSE Power[i - 1] * Byte

VARIABLES number, bytes,     \* what is sent, and its sizeof
          sender, receiver,  \* the order of each host
          agreed,            \* the order that they have agreed on
          wire,              \* the bytes on their way, <<>> before
          got                \* what the receiver has, or Nothing

endianVars == <<number, bytes, sender, receiver, agreed, wire, got>>
Orders == {"big", "little"}

(* swap_helper<2>, <4> and <8>: shifts and masks of whole bytes.           *)
Digit(data, i) == (data \div Power[i]) % Byte
Swap2(data) == Digit(data, 1) + Digit(data, 0) * Byte
Swap4(data) == Digit(data, 3) + Digit(data, 2) * Byte + Digit(data, 1) * Power[2] + Digit(data, 0) * Power[3]
Swap8(data) == Swap4(data \div Power[4]) + Swap4(data % Power[4]) * Power[4]
Swap(data, size) ==
    CASE size = 1 -> data [] size = 2 -> Swap2(data) [] size = 4 -> Swap4(data) [] size = 8 -> Swap8(data)

(* to_big() and to_little(), of which network order is the first, and the  *)
(* from_ functions, which are the same.                                    *)
Convert(data, size, host, order) == IF host = order THEN data ELSE Swap(data, size)

(* How a number lies in the memory of a host.                              *)
Memory(data, size, host) ==
    [i \in 1 .. size |-> Digit(data, IF host = "little" THEN i - 1 ELSE size - i)]
Number(memory, host) ==
    LET place(i) == IF host = "little" THEN i - 1 ELSE Len(memory) - i
        sum[i \in 0 .. Len(memory)] == IF i = 0 THEN 0 ELSE sum[i - 1] + memory[i] * Power[place(i)]
    IN  sum[Len(memory)]

EndianInit ==
    /\ bytes \in Widths /\ number \in 0 .. Power[bytes] - 1
    /\ sender \in Orders /\ receiver \in Orders /\ agreed \in Orders
    /\ wire = <<>> /\ got = Nothing

Send ==
    /\ wire = <<>>
    /\ wire' = Memory(Convert(number, bytes, sender, agreed), bytes, sender)
    /\ UNCHANGED <<number, bytes, sender, receiver, agreed, got>>

Receive ==
    /\ wire # <<>> /\ got = Nothing
    /\ got' = Convert(Number(wire, receiver), bytes, receiver, agreed)
    /\ UNCHANGED <<number, bytes, sender, receiver, agreed, wire>>

EndianNext == Send \/ Receive
-----------------------------------------------------------------------------
(* The bytes are in the order that was agreed on, whoever sends them, and  *)
(* whoever receives them has the number again.                             *)
BytesArrive ==
    /\ wire # <<>> => wire = Memory(number, bytes, agreed)
    /\ got # Nothing => got = number
=============================================================================
