----------------------------- MODULE MCCrossNet -----------------------------
(* Instance of CrossNet for TLC. *)
EXTENDS CrossNet

OneOrNone == {{}, Couriers}
=============================================================================
