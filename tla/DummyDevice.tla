---------------------------- MODULE DummyDevice ----------------------------
(***************************************************************************)
(* The dummy platform device of HW12: a window of DRAM that a user program *)
(* (send_data2.c, through /dev/mem) and the platform driver                *)
(* (platform_test.c, through ioremap) share.  It has a data area of        *)
(* MEM_SIZE bytes and two registers.  Both sides map it uncached, so every *)
(* store is seen by the other side in program order.                       *)
(***************************************************************************)
EXTENDS Integers, Sequences

CONSTANTS
  Byte,      \* the values a byte of data can take
  MEM_SIZE   \* size of the data area

ASSUME DeviceAssumption ==
  /\ 0 \in Byte
  /\ MEM_SIZE \in Nat \ {0}

VARIABLES
  flag_reg,  \* bit 0 of the flag register, PLAT_IO_DATA_READY
  size_reg,  \* the data size register
  mem        \* the data area

device == <<flag_reg, size_reg, mem>>

(* min() of the kernel and the ?: of send_data2.c *)
min(a, b) == IF a < b THEN a ELSE b

DeviceTypeOK ==
  /\ flag_reg \in {0, 1}
  /\ size_reg \in Nat
  /\ mem \in [0 .. MEM_SIZE - 1 -> Byte]

(* Nothing is ready before the first file is sent. *)
DeviceInit ==
  /\ flag_reg = 0
  /\ size_reg = 0
  /\ mem = [i \in 0 .. MEM_SIZE - 1 |-> 0]

=============================================================================
