--------------------------- MODULE MCBalanceReads ---------------------------
(* Instances of BalanceReads small enough for TLC.                         *)
EXTENDS BalanceReads, TLC

CONSTANTS ann, bob, cyd

(* Dinner split in half; corrected, it was abroad and for Bob and Cyd, and *)
(* each half cent of theirs is rounded up.                                 *)
halves == [label |-> "dinner", total |-> 2, paid |-> (ann :> 2),
           owed |-> (ann :> 1 @@ bob :> 1), rate |-> None]
corrected == [label |-> "dinner", total |-> 2, paid |-> (ann :> 2),
              owed |-> (bob :> 1 @@ cyd :> 1), rate |-> [home |-> 3, per |-> 2]]

MCUsers == {ann, bob, cyd}
MCBills == {halves, corrected}

MoneyOps == {"found", "add", "create", "update", "softDelete", "restore",
             "pay", "confirm", "withdraw"}

=============================================================================
