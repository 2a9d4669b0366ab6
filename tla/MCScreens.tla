------------------------------ MODULE MCScreens ------------------------------
(* Both clients.  Each behaviour keeps to a page and a few of its sheets:  *)
(* those that open one another, or that an answer may find in front.       *)
EXTENDS Screens

SomeHabits ==
  {{"group", "adding", "editing"}, {"group", "settings", "adding"},
   {"group", "invite"}, {"group", "import", "categories"},
   {"group", "member", "settle"}, {"home", "pick", "adding"},
   {"home", "activity"}, {"home", "newGroup", "friend"}, {"home", "profile"}}
=============================================================================
