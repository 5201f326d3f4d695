------------------------------ MODULE Admission -----------------------------
(***************************************************************************)
(* What the join gate promises (the class comment of ServerAuthHandler):   *)
(* every join is held, and a held player is let in only on the strength of *)
(* an HTTP 200 of /validate.  Each 200 lets a player in at most once; one  *)
(* that comes too late, or is never read, is lost.                         *)
(***************************************************************************)
EXTENDS Integers

CONSTANT Player

VARIABLES
    place,   \* place[p]: "out", "held" or "in"
    granted  \* granted[p]: answers 200 for p that have not been acted on

vars == <<place, granted>>

Init ==
    /\ place = [p \in Player |-> "out"]
    /\ granted = [p \in Player |-> 0]

Join(p) ==
    /\ place[p] = "out"
    /\ place' = [place EXCEPT ![p] = "held"]
    /\ UNCHANGED granted

Grant(p) ==
    /\ granted' = [granted EXCEPT ![p] = @ + 1]
    /\ UNCHANGED place

LetIn(p) ==
    /\ place[p] = "held"
    /\ granted[p] > 0
    /\ place' = [place EXCEPT ![p] = "in"]
    /\ granted' = [granted EXCEPT ![p] = @ - 1]

Lose(p) ==
    /\ granted[p] > 0
    /\ granted' = [granted EXCEPT ![p] = @ - 1]
    /\ UNCHANGED place

Leave(p) ==
    /\ place[p] # "out"
    /\ place' = [place EXCEPT ![p] = "out"]
    /\ UNCHANGED granted

(* The server stops or dies: everybody is out, no answer is acted on.      *)
Stop ==
    /\ place' = [p \in Player |-> "out"]
    /\ granted' = [p \in Player |-> 0]

Next ==
    \/ \E p \in Player : Join(p) \/ Grant(p) \/ LetIn(p) \/ Lose(p) \/ Leave(p)
    \/ Stop

Spec == Init /\ [][Next]_vars

=============================================================================
