-------------------------- MODULE MCNotifications --------------------------
(* Notifications for TLC: handler slots are interchangeable.               *)
EXTENDS Notifications, TLC

Slots == Permutations(Jobs)
=============================================================================
