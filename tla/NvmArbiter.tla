----------------------------- MODULE NvmArbiter -----------------------------
(***************************************************************************)
(* What the SW_FW_SYNC register of the I210 promises to its two kinds of   *)
(* clients: at any time the NVM belongs to software, to the firmware of    *)
(* the NIC or to nobody, and it changes hands only through "nobody".       *)
(* NvmSync, which works on the register bits, implements this.             *)
(***************************************************************************)
VARIABLE owner

Owners == {"nobody", "software", "firmware"}

Init == owner = "nobody"

Take(who) ==
  /\ owner = "nobody"
  /\ owner' = who

Drop(who) ==
  /\ owner = who
  /\ owner' = "nobody"

Next == \E who \in Owners \ {"nobody"} : Take(who) \/ Drop(who)

Spec == Init /\ [][Next]_owner
=============================================================================
