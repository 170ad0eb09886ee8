------------------------ MODULE MCNotificationSweep ------------------------
(* Instances of NotificationSweep for TLC: one brand, and a brand code the *)
(* map lacks at the end of one filter.                                     *)
EXTENDS NotificationSweep, TLC

CONSTANTS b1, bx

Filters == [j \in Jobs |-> IF j = "dup_rule" THEN <<b1, bx>> ELSE <<b1>>]
=============================================================================
