------------------------------ MODULE Delivery ------------------------------
(***************************************************************************)
(* What Transfer promises of the changes it is given, whatever queue they  *)
(* come from and whatever fails on the way.  The destination may gain and  *)
(* lose the effect of changes that nobody has acknowledged yet: a batch    *)
(* that is written again after a restart passes through older versions of  *)
(* its rows.  A change is acknowledged to the queue only while the         *)
(* destination reflects it; from then on the queue will not deliver it     *)
(* again, so no later write may undo it, and no acknowledgement is ever    *)
(* taken back.                                                             *)
(***************************************************************************)
CONSTANT Changes  \* the changes of one stream

VARIABLES
  reflected,      \* changes whose effect, or that of a later version, is in the destination
  acknowledged    \* changes the queue considers delivered

vars == <<reflected, acknowledged>>

Init ==
  /\ reflected = {}
  /\ acknowledged = {}

\* A write to the destination, complete or not.
Write ==
  /\ reflected' \in SUBSET Changes
  /\ acknowledged \subseteq reflected'
  /\ UNCHANGED acknowledged

\* Some of the changes the destination reflects are acknowledged.
Acknowledge ==
  /\ acknowledged' \in SUBSET reflected
  /\ acknowledged \subseteq acknowledged'
  /\ UNCHANGED reflected

Next == Write \/ Acknowledge

Spec == Init /\ [][Next]_vars

=============================================================================
