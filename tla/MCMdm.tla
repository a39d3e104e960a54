------------------------------- MODULE MCMdm --------------------------------
(* Values for the constants of Mdm.  The widths of the machine are scaled  *)
(* down: a byte has 16 values, the packet holds 20 bytes, so the first     *)
(* command of a list is read, the second lies beyond the packet, and the   *)
(* offset of the third wraps.  A sequence that is sent as 5 is stored as 1,*)
(* a count of 8 as 0, and one of 7 as 3.                                   *)
EXTENDS Mdm

C(code, sum, delay, seq, count, first, third) ==
  [code |-> code, sum |-> sum, delay |-> delay, seq |-> seq, count |-> count,
   at |-> [o \in 0..(Byte - 1) |-> CASE o = 2 -> first [] o = 6 -> third
                                     [] OTHER -> "blank"]]

Table ==
  [blank   |-> C("nop", 0, 0, 0, 0, "blank", "blank"),
   later   |-> C("nop", 15, 1, 0, 0, "blank", "blank"),
   wrong   |-> C("refused", 0, 0, 0, 0, "blank", "blank"),
   other   |-> C("unknown", 0, 0, 0, 0, "blank", "blank"),
   warm    |-> C("warm", 0, 0, 0, 0, "blank", "blank"),
   cold    |-> C("cold", 0, 1, 0, 0, "blank", "blank"),
   abort   |-> C("abort", 14, 0, 0, 0, "blank", "blank"),
   nested  |-> C("exec", 15, 1, 0, 2, "later", "blank"),
   empty   |-> C("exec", 0, 0, 2, 8, "blank", "blank"),
   zero    |-> C("exec", 0, 0, 0, 1, "cold", "blank"),
   one     |-> C("exec", 0, 0, 2, 1, "blank", "blank"),
   three   |-> C("exec", 0, 0, 1, 7, "later", "abort"),
   wide    |-> C("exec", 0, 0, 5, 1, "nested", "blank")]

MCCommands == DOMAIN Table
MCUplinked == {"wrong", "other", "warm", "cold", "abort", "empty", "zero", "three", "wide"}
MCOneNop == {"one"}
MCCode == [c \in MCCommands |-> Table[c].code]
MCSum == [c \in MCCommands |-> Table[c].sum]
MCDelay == [c \in MCCommands |-> Table[c].delay]
MCSeqId == [c \in MCCommands |-> Table[c].seq]
MCCount == [c \in MCCommands |-> Table[c].count]
MCAt == [c \in MCCommands |-> Table[c].at]
==============================================================================
