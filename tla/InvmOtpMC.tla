----------------------------- MODULE InvmOtpMC -----------------------------
(***************************************************************************)
(* A small instance of InvmOtp: five usable words of two bits and three    *)
(* that belong to the hardware.                                            *)
(***************************************************************************)
EXTENDS InvmOtp

MCBits == {1, 2}
MCMacWords == <<{1}, {1, 2}, {2}>>

Padded(words) ==
  [w \in 0..(NumWords - 1) |-> IF w < Len(words) THEN words[w + 1] ELSE {}]

(* In turn: room for a MAC address between its words, a part of the first,  *)
(* one empty usable word too few, no empty word at all.                     *)
MCImages == {
  Padded(<<{1, 2}, {}, {}, {2}>>),
  Padded(<<{1}>>),
  Padded(<<{1}, {1}, {}, {2}>>),
  Padded([i \in 1..NumWords |-> {2}])}

(* In turn: a lock set; set and cleared again; a dropped last line; lines   *)
(* behind one that cannot be read; a number out of range.                   *)
Other(kind) == [kind |-> kind, num |-> 0, bit |-> 0]
MCLockFiles == {
  [lines |-> <<Says(1, 1)>>, newline |-> TRUE],
  [lines |-> <<Says(0, 1), Says(0, 0)>>, newline |-> TRUE],
  [lines |-> <<Says(0, 1), Says(1, 1)>>, newline |-> FALSE],
  [lines |-> <<Other("short"), Says(0, 1)>>, newline |-> TRUE],
  [lines |-> <<Says(0, 1), Other("range")>>, newline |-> TRUE]}
=============================================================================
