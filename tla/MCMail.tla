------------------------------- MODULE MCMail -------------------------------
(* One topic at a time, and the cron through all of them.                  *)
EXTENDS Mail

CONSTANTS ann, bob, payment, expense, edit, comment

MCPeople == {ann, bob}
MCEvents == {payment, expense, edit, comment}

(* Carol adds an expense; Bob edits another and comments on it.            *)
MCAudience ==
  [e \in MCEvents |-> IF e \in {edit, comment} THEN {ann} ELSE MCPeople]

(* Ann has two payments to confirm, and Bob owes in one group and is asked *)
(* for it.                                                                 *)
SomeDues ==
  {[kind |-> "settlement", to |-> ann, about |-> 1],
   [kind |-> "settlement", to |-> ann, about |-> 2],
   [kind |-> "balance", to |-> bob, about |-> 3],
   [kind |-> "nudge", to |-> bob, about |-> 3]}

SomeTopics ==
  {{payment, "settings", "leaving"}, {expense, "digest"},
   {expense, "leaving"}, {edit, comment, "digest"}, {"reminders"},
   {"nudges", "settings"}, {"reports"}, {"owner"}}

(* Where MutedHearsNothing is seen to fail.                                *)
MutedTopics == {{expense, "digest", "settings"}}
=============================================================================
