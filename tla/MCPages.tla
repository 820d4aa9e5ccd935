-------------------------------- MODULE MCPages --------------------------------
(* The values TLC checks Pages with. *)
EXTENDS Pages, TLC

CONSTANTS q1, q2, q3

(* The values of the constants that are not model values or numbers.       *)
mcKindOf == (q1 :> "json") @@ (q2 :> "json") @@ (q3 :> "knowledge")
mcRunsMax == ("a" :> 2) @@ ("b" :> 0)
mcFirstStatus == ("a" :> "UPLOADED") @@ ("b" :> "READY")
mcLinks == {[item |-> "COUPON_PACK", plan |-> Absent, period |-> Absent],
            [item |-> Absent, plan |-> "TEAM", period |-> "monthly"],
            [item |-> Absent, plan |-> Absent, period |-> "yearly"]}
mcContents == {[long |-> FALSE, scene |-> "LABOR"], [long |-> TRUE, scene |-> "CUSTOM"]}
===============================================================================
