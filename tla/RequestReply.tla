---------------------------- MODULE RequestReply ----------------------------
(***************************************************************************)
(* What the daemon promises a client that waits for each answer before it   *)
(* sends the next request: every request is performed at most once and      *)
(* before it is answered, and a client without an answer knows that at most *)
(* its last request is in doubt.                                            *)
(***************************************************************************)
EXTENDS Naturals

CONSTANTS Clients, MaxRequests

VARIABLES asked, performed, answered, connected

vars == <<asked, performed, answered, connected>>

Init ==
  /\ asked = [c \in Clients |-> 0]
  /\ performed = [c \in Clients |-> 0]
  /\ answered = [c \in Clients |-> 0]
  /\ connected = [c \in Clients |-> TRUE]

Ask(c) ==
  /\ connected[c]
  /\ asked[c] = answered[c] /\ asked[c] < MaxRequests
  /\ asked' = [asked EXCEPT ![c] = @ + 1]
  /\ UNCHANGED <<performed, answered, connected>>

Perform(c) ==
  /\ connected[c]
  /\ performed[c] < asked[c]
  /\ performed' = [performed EXCEPT ![c] = @ + 1]
  /\ UNCHANGED <<asked, answered, connected>>

Answer(c) ==
  /\ connected[c]
  /\ answered[c] < performed[c]
  /\ answered' = [answered EXCEPT ![c] = @ + 1]
  /\ UNCHANGED <<asked, performed, connected>>

\* The connection ends, and a request it still holds is performed or not.
Disconnect(c) ==
  /\ connected[c]
  /\ connected' = [connected EXCEPT ![c] = FALSE]
  /\ \E n \in performed[c]..asked[c] : performed' = [performed EXCEPT ![c] = n]
  /\ UNCHANGED <<asked, answered>>

Next == \E c \in Clients : Ask(c) \/ Perform(c) \/ Answer(c) \/ Disconnect(c)

Spec == Init /\ [][Next]_vars

=============================================================================
