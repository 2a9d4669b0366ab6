----------------------------- MODULE MCSession -----------------------------
(* Two servers, and one person with an account on each; a second person    *)
(* has one on the shipped server, where they take turns in one browser.    *)
EXTENDS Session

CONSTANTS home, club

At(server, name) == [server |-> server, name |-> name]

TwoAccounts == {At(home, "ann"), At(club, "ann")}

ThreeAccounts == {At(home, "ann"), At(home, "bob"), At(club, "ann")}
=============================================================================
