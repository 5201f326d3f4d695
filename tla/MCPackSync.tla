------------------------------ MODULE MCPackSync ------------------------------
EXTENDS PackSync, TLC

(* Cfg and cfg differ in case only; cfg is once a file and once the         *)
(* directory of cfg/x, beside a file of the player's; Logs is a path that   *)
(* the launcher takes for its protected logs.                               *)
MCPath   == {"mod", "auth", "Cfg", "cfg", "cfg/x", "Logs"}
MCInside == {<<"cfg/x", "cfg">>}
MCKey    == {"mod", "auth", "cfg", "cfg/x", "cfg/own", "logs", "options.txt"}
MCFold   == [p \in MCPath |-> CASE p = "Cfg" -> "cfg" [] p = "Logs" -> "logs"
                                [] OTHER -> p]
MCAbove  == [k \in MCKey |-> IF k \in {"cfg/x", "cfg/own"} THEN {"cfg"} ELSE {}]
MCFirst  == {[p \in MCPath |-> IF p \in P THEN c ELSE Absent] : c \in Content,
                P \in {{"auth", "cfg"}, {"auth", "cfg/x"}}}

Symmetry == Permutations(Content)

=============================================================================
