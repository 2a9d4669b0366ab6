------------------------------- MODULE Turns -------------------------------
(***************************************************************************)
(* What the scan queue promises the clients and the model, without rows or *)
(* locks: who asks is read, told to wait or turned away, and a backend     *)
(* reads for one client at a time, from the start of a parse to its end.   *)
(* Only when locks cannot be had does nothing hold the parses apart.       *)
(***************************************************************************)
CONSTANTS
  Tabs,      \* clients
  Backends,  \* what the model runs on
  None

VARIABLES
  stage,    \* where each client is with its scan
  serving,  \* backend -> the client it reads for, or None
  guarded   \* whether locks can be had

state == <<stage, serving, guarded>>

Init ==
  /\ stage = [p \in Tabs |-> "away"]
  /\ serving = [i \in Backends |-> None]
  /\ guarded \in BOOLEAN

Moves(p, from, to) == stage[p] \in from /\ stage' = [stage EXCEPT ![p] = to]

Ask(p) ==
  Moves(p, {"away", "waiting"}, "asking") /\ UNCHANGED <<serving, guarded>>

Wait(p) == Moves(p, {"asking"}, "waiting") /\ UNCHANGED <<serving, guarded>>

(* Turned away, killed, or the client has gone.                            *)
GiveUp(p) ==
  Moves(p, {"asking", "waiting"}, "away") /\ UNCHANGED <<serving, guarded>>

(* A free backend, and no other, begins to read for this client.           *)
Begin(p) ==
  /\ Moves(p, {"asking"}, "reading")
  /\ IF guarded
     THEN \E i \in Backends :
            serving[i] = None /\ serving' = [serving EXCEPT ![i] = p]
     ELSE UNCHANGED serving
  /\ UNCHANGED guarded

End(p) ==
  /\ Moves(p, {"reading"}, "away")
  /\ serving' = [i \in Backends |-> IF serving[i] = p THEN None ELSE serving[i]]
  /\ UNCHANGED guarded

Next == \E p \in Tabs : Ask(p) \/ Wait(p) \/ GiveUp(p) \/ Begin(p) \/ End(p)

Spec == Init /\ [][Next]_state

=============================================================================
