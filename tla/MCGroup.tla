------------------------------ MODULE MCGroup ------------------------------
(* Instances of GroupSafety small enough for TLC.                          *)
EXTENDS GroupSafety, TLC

CONSTANTS ann, bob

(* Ann pays dinner, split in half; Bob pays the taxi, abroad.  The         *)
(* lopsided bill does not add up.                                          *)
halves == [label |-> "dinner", total |-> 2, paid |-> (ann :> 2),
           owed |-> (ann :> 1 @@ bob :> 1), rate |-> None]
taxi == [label |-> "taxi", total |-> 1, paid |-> (bob :> 1),
         owed |-> (ann :> 1), rate |-> [home |-> 4, per |-> 3]]
lopsided == [label |-> "dinner", total |-> 2, paid |-> (ann :> 2),
             owed |-> (bob :> 1), rate |-> None]

MCUsers == {ann, bob}
OneBill == {halves}
ThreeBills == {halves, taxi, lopsided}

Lifecycle == {"found", "lock", "unlock", "archive", "erase"}
Membership == {"invite", "join", "add", "leave", "closeAccount"}
Expenses == {"upload", "create", "update", "softDelete", "restore"}
Settlements == {"pay", "confirm", "withdraw"}

SerialOps == Lifecycle \cup Membership \cup Expenses \cup Settlements
RaceOps == {"found", "invite", "join", "erase", "lock", "archive", "create",
            "update", "pay", "confirm"}
SettleRaceOps == {"found", "invite", "join"} \cup Settlements
DoubleTapOps == {"found", "invite", "join", "create"}
LockedRestoreOps == {"found", "invite", "join", "lock", "create", "softDelete",
                     "restore"}
=============================================================================
