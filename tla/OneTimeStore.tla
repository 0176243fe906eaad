---------------------------- MODULE OneTimeStore ----------------------------
(***************************************************************************)
(* What programming the one-time memory (iNVM) of an I210 or I211 promises *)
(* to whoever runs the tool.  A bit that was burnt stays burnt.  An image  *)
(* is burnt only when everything in the store belongs to it; a run that    *)
(* does not finish leaves a store the same image still fits, so that it    *)
(* can be run again; success is reported only of a store that is equal to  *)
(* the image.  InvmOtp, which works word by word on the registers,         *)
(* implements this.                                                        *)
(***************************************************************************)
CONSTANTS Word, Bits

VARIABLES
  store,    \* the bits burnt in each word
  image,    \* what the current or last run wants the store to be
  open,     \* TRUE while a run burns
  success   \* TRUE once the run has reported success

vars == <<store, image, open, success>>

Contents == [Word -> SUBSET Bits]

Within(a, b) == \A w \in Word : a[w] \subseteq b[w]

Init ==
  /\ store \in Contents /\ image \in Contents
  /\ open = FALSE /\ success = FALSE

Propose ==
  /\ ~open
  /\ image' \in Contents
  /\ success' = FALSE
  /\ UNCHANGED <<store, open>>

Accept ==
  /\ ~open
  /\ Within(store, image)
  /\ open' = TRUE
  /\ UNCHANGED <<store, image, success>>

Burn ==
  /\ open
  /\ store' \in Contents
  /\ Within(store, store') /\ Within(store', image)
  /\ UNCHANGED <<image, open, success>>

Succeed ==
  /\ store = image
  /\ success' = TRUE /\ open' = FALSE
  /\ UNCHANGED <<store, image>>

Abandon ==
  /\ open
  /\ open' = FALSE
  /\ UNCHANGED <<store, image, success>>

Next == Propose \/ Accept \/ Burn \/ Succeed \/ Abandon

Spec == Init /\ [][Next]_vars
=============================================================================
