--------------------------- MODULE BackupTheorems ---------------------------
(* Proofs about Backup, for every set of files, every number of archives   *)
(* kept and every bound.                                                   *)
EXTENDS Backup, SetFacts, SequenceTheorems

(* A new archive comes first.                                              *)
LEMMA Prepended ==
    ASSUME NEW S, NEW seq \in Seq(S), NEW a \in S
    PROVE  /\ <<a>> \o seq \in Seq(S)
           /\ Len(<<a>> \o seq) = Len(seq) + 1
           /\ (<<a>> \o seq)[1] = a
           /\ \A i \in 2..(Len(seq) + 1) : (<<a>> \o seq)[i] = seq[i - 1]
  OBVIOUS

(* One archive less: those before the place stay, those after it move up.  *)
LEMMA WithoutFacts ==
    ASSUME NEW S, NEW seq \in Seq(S), NEW n \in Nat, 1 < n, n <= Len(seq)
    PROVE  /\ Without(seq, n) \in Seq(S) /\ Len(Without(seq, n)) = Len(seq) - 1
           /\ Without(seq, n) # <<>> /\ Without(seq, n)[1] = seq[1]
           /\ \A i \in DOMAIN Without(seq, n) :
                 \E j \in DOMAIN seq : Without(seq, n)[i] = seq[j]
<1> DEFINE new == Without(seq, n)
<1>1. Len(seq) \in Nat /\ Len(seq) - 1 \in Nat /\ 1 <= Len(seq) - 1
      /\ DOMAIN seq = 1..Len(seq)
  OBVIOUS
<1>2. \A i \in 1..(Len(seq) - 1) : i \in 1..Len(seq) /\ i + 1 \in 1..Len(seq)
  BY <1>1
<1>3. new = [i \in 1..(Len(seq) - 1) |-> IF i < n THEN seq[i] ELSE seq[i + 1]]
  BY DEF Without
<1>4. new \in [1..(Len(seq) - 1) -> S]
  BY <1>1, <1>2, <1>3
<1>5. new \in Seq(S) /\ Len(new) = Len(seq) - 1 /\ DOMAIN new = 1..(Len(seq) - 1)
  BY <1>1, <1>3, <1>4
<1>6. new # <<>> /\ new[1] = seq[1]
  <2>1. new # <<>>
    BY <1>1, <1>5
  <2>2. 1 \in 1..(Len(seq) - 1) /\ 1 < n
    BY <1>1
  <2>3. new[1] = seq[1]
    BY <1>3, <2>2
  <2>4. QED
    BY <2>1, <2>3
<1> HIDE DEF new
<1>7. ASSUME NEW i \in DOMAIN new PROVE \E j \in DOMAIN seq : new[i] = seq[j]
  BY <1>1, <1>2, <1>3, <1>5
<1>8. QED
  BY <1>5, <1>6, <1>7 DEF new

(* Every step of a script but its end.                                     *)
Busy == {"off", "all", "settle", "tar", "check", "rotate", "exit", "on", "stop",
         "stopped", "move", "extract", "undo", "putback", "tidy", "start"}

(* What the updates of the script's record leave.                          *)
LEMMA GoToFacts ==
    ASSUME script \in Script, NEW p \in Busy, GoTo(p)
    PROVE  /\ script' \in Script /\ script'.pc = p
           /\ script'.op = script.op /\ script'.arch = script.arch
           /\ script'.todo = script.todo /\ script'.since = script.since
           /\ script'.from = script.from /\ script'.touched = script.touched
           /\ script'.overlapped = script.overlapped
  BY DEF GoTo, Script, Busy

LEMMA NoScriptFacts ==
    /\ NoScript \in Script /\ NoScript.op = "none" /\ NoScript.pc = "end"
    /\ NoScript.todo = {} /\ ~NoScript.touched /\ ~NoScript.overlapped
<1>1. 0 \in Stamp /\ Missing \in Tree
  BY BackupAssumption DEF Stamp, Missing, Tree
<1>2. QED
  BY <1>1 DEF NoScript, Script

LEMMA TurnFacts ==
    ASSUME script \in Script, NEW p \in Busy, Turn(p)
    PROVE  /\ script' \in Script /\ script'.pc = p /\ script'.op = script.op
           /\ script'.from = script.from /\ script'.todo = {}
           /\ ~script'.touched /\ ~script'.overlapped
  BY NoScriptFacts DEF Turn, Script, Busy

LEMMA TouchFacts ==
    ASSUME script \in Script, Touch
    PROVE  /\ script' \in Script /\ script'.pc = script.pc
           /\ script'.op = script.op /\ script'.arch = script.arch
           /\ script'.todo = script.todo /\ script'.since = script.since
           /\ script'.from = script.from
           /\ script.op # "none" => script'.touched
           /\ script.op # "none" =>
                 script'.overlapped = (script.overlapped \/ Replacing)
  BY DEF Touch, Script, Replacing

(* A crash disturbs a running script, but starts nothing by itself.        *)
LEMMA CrashFacts ==
    ASSUME script \in Script, Crash
    PROVE  /\ script' \in Script /\ script'.pc = script.pc
           /\ script'.op = script.op /\ script'.arch = script.arch
           /\ script'.todo = script.todo /\ script'.since = script.since
           /\ script'.from = script.from
           /\ script.op # "none" => script'.touched
           /\ script'.overlapped = script.overlapped
  BY DEF Crash, Script

(* What the updates of the server's record leave.                          *)
LEMMA DownFacts ==
    ASSUME server \in Server, NEW unit \in {"on", "inactive", "failed"}, Down(unit)
    PROVE  /\ server' \in Server /\ ~server'.up /\ server'.unit = unit
           /\ server'.saving = server.saving /\ server'.pending = {}
  BY DEF Down, Server

LEMMA FlushFacts ==
    ASSUME server \in Server, server' = [server EXCEPT !.pending = File, !.cap = server.mem]
    PROVE  /\ server' \in Server /\ server'.up = server.up
           /\ server'.unit = server.unit /\ server'.saving = server.saving
           /\ server'.cap = server.mem /\ server'.pending = File
<1>1. server.mem \in Stamp
  BY DEF Server
<1>2. [server EXCEPT !.pending = File, !.cap = server.mem] \in Server
  BY <1>1 DEF Server
<1>3. QED
  BY <1>2 DEF Server

LEMMA SavingFacts ==
    ASSUME server \in Server, NEW b \in BOOLEAN, server' = [server EXCEPT !.saving = b]
    PROVE  /\ server' \in Server /\ server'.up = server.up
           /\ server'.unit = server.unit /\ server'.saving = b
           /\ server'.cap = server.cap /\ server'.pending = server.pending
  BY DEF Server

LEMMA WriteFacts ==
    ASSUME server \in Server, world \in Tree, aside \in Tree,
           NEW f \in File, WriteOut(f)
    PROVE  /\ server' \in Server /\ server'.up = server.up
           /\ server'.unit = server.unit /\ server'.saving = server.saving
           /\ server'.cap = server.cap /\ server.pending # {}
           /\ server'.pending = server.pending \ {f}
           /\ \/ /\ aside' = aside /\ world' = [world EXCEPT ![f] = server.cap]
              \/ /\ world' = world /\ aside # Missing
                 /\ aside' = [aside EXCEPT ![f] = server.cap]
           /\ world' \in Tree /\ aside' \in Tree
           /\ \A g \in File : world'[g] = None => world[g] = None
           /\ \A g \in File : aside'[g] = None => aside[g] = None
<1>1. server' = [server EXCEPT !.pending = server.pending \ {f}] /\ f \in server.pending
  BY DEF WriteOut
<1>2. server.pending \ {f} \in SUBSET File /\ server.cap \in Stamp
  BY DEF Server
<1>3. [server EXCEPT !.pending = server.pending \ {f}] \in Server
  BY <1>2 DEF Server
<1>4. /\ server'.up = server.up /\ server'.unit = server.unit
      /\ server'.saving = server.saving /\ server'.cap = server.cap
      /\ server'.pending = server.pending \ {f}
  BY <1>1 DEF Server
<1>5. server.cap # None
  BY <1>2, BackupAssumption DEF Stamp
<1>6. \/ /\ aside' = aside /\ world' = [world EXCEPT ![f] = server.cap]
      \/ /\ world' = world /\ aside # Missing
         /\ aside' = [aside EXCEPT ![f] = server.cap]
  BY DEF WriteOut
<1>7. world' \in Tree /\ aside' \in Tree
  BY <1>2, <1>6 DEF Tree
<1>8. /\ \A g \in File : world'[g] = None => world[g] = None
      /\ \A g \in File : aside'[g] = None => aside[g] = None
  BY <1>2, <1>5, <1>6 DEF Tree
<1>9. QED
  BY <1>1, <1>3, <1>4, <1>6, <1>7, <1>8

(* A stopping server leaves no file out.                                   *)
LEMMA SavedFacts ==
    ASSUME server \in Server, world \in Tree, NEW S \in SUBSET File
    PROVE  /\ Saved(S) \in Tree
           /\ \A f \in File : Saved(S)[f] = None => world[f] = None
<1>1. server.mem \in Stamp /\ server.mem # None
  BY BackupAssumption DEF Server, Stamp
<1>2. QED
  BY <1>1 DEF Saved, Tree

LEMMA BootFacts ==
    ASSUME TypeOK, Boot
    PROVE  /\ server' \in Server /\ server'.up /\ server'.unit = "on"
           /\ server'.saving
<1>1. /\ server \in Server /\ clock \in Stamp /\ world \in Tree
      /\ Level \in File /\ None \notin Stamp /\ Stamp \subseteq Nat
      /\ \A s \in Stamp : s <= MaxStamp
      /\ MaxStamp \in Nat
  BY BackupAssumption DEF TypeOK, Stamp
<1> DEFINE found == {world[f] : f \in File} \ {None}
           mem   == IF world[Level] = None THEN clock ELSE Max(found)
<1>2. mem \in Stamp
  <2>1. CASE world[Level] = None
    BY <1>1, <2>1
  <2>2. CASE world[Level] # None
    <3>1. found \subseteq Stamp
      BY <1>1 DEF Tree
    <3>2. world[Level] \in found
      BY <1>1, <2>2
    <3> HIDE DEF found
    <3>3. Max(found) \in found
      BY <1>1, <3>1, <3>2, MaxOfBounded
    <3>4. QED
      BY <2>2, <3>1, <3>3
  <2>3. QED
    BY <2>1, <2>2
<1>3. /\ server' = [server EXCEPT !.up = TRUE, !.saving = TRUE,
                                  !.mem = mem, !.cap = mem]
      /\ server.unit = "on"
  BY DEF Boot
<1> HIDE DEF mem
<1>4. QED
  BY <1>1, <1>2, <1>3 DEF Server

(* How a restore ends before its start.                                    *)
LEMMA AbandonFacts ==
    ASSUME TypeOK, NEW off, Abandon(off)
    PROVE  /\ script' = NoScript /\ left' = left \cup off
           /\ aside' = Missing
           /\ strays' \subseteq Tree /\ inside' \subseteq Tree
           /\ strays \cup inside \subseteq strays' \cup inside'
           /\ aside # Missing => aside \in strays'
<1>1. /\ aside \in Tree /\ strays \subseteq Tree /\ inside \subseteq Tree
      /\ aside # Missing => Moved
  BY DEF TypeOK
<1>2. QED
  BY <1>1 DEF TypeOK, Abandon, dirs

(* The server is in a state of its own; only a running one writes.         *)
LEMMA ServerTypes ==
    ASSUME TypeOK, [Next]_vars
    PROVE  /\ server' \in Server
           /\ server'.pending # {} => server'.up
           /\ clock' \in Stamp /\ trouble' \in 0..MaxTrouble /\ trouble <= trouble'
           /\ left' \subseteq {"saving", "service"}
<1> DEFINE Goal == /\ server' \in Server /\ (server'.pending # {} => server'.up)
                   /\ clock' \in Stamp
                   /\ trouble' \in 0..MaxTrouble /\ trouble <= trouble'
                   /\ left' \subseteq {"saving", "service"}
           Time == /\ clock' = clock
                   /\ left' \subseteq {"saving", "service"}
                   /\ trouble' = trouble \/ Trouble
<1>1. /\ server \in Server /\ (server.pending # {} => server.up)
      /\ world \in Tree /\ aside \in Tree /\ script \in Script
      /\ server.mem \in Stamp /\ clock \in Stamp /\ clock \in Nat
      /\ trouble \in 0..MaxTrouble /\ MaxTrouble \in Nat /\ MaxStamp \in Nat
      /\ left \subseteq {"saving", "service"}
      /\ Stopped \subseteq {"service"}
  BY BackupAssumption DEF TypeOK, Stamp, Server, Stopped
<1>2. Time => /\ clock' \in Stamp
              /\ trouble' \in 0..MaxTrouble /\ trouble <= trouble'
              /\ left' \subseteq {"saving", "service"}
  BY <1>1 DEF Trouble
<1>3. CASE Play
  <2>1. clock + 1 \in Stamp
    BY <1>1, <1>3 DEF Play, Stamp
  <2>2. /\ server' = [server EXCEPT !.mem = clock + 1] /\ server.up
        /\ clock' = clock + 1 /\ UNCHANGED <<left, trouble>>
    BY <1>3 DEF Play
  <2>3. server' \in Server /\ server'.up
    BY <1>1, <2>1, <2>2 DEF Server
  <2>4. QED
    BY <1>1, <2>1, <2>2, <2>3
<1>4. ASSUME server.up, Time,
             server' = [server EXCEPT !.pending = File, !.cap = server.mem]
      PROVE  Goal
  BY <1>1, <1>2, <1>4, FlushFacts
<1>5. ASSUME server' = server, Time PROVE Goal
  BY <1>1, <1>2, <1>5
<1>6. ASSUME NEW b \in BOOLEAN, server' = [server EXCEPT !.saving = b], Time PROVE Goal
  BY <1>1, <1>2, <1>6, SavingFacts
<1>7. ASSUME NEW unit \in {"on", "inactive", "failed"}, Down(unit), Time PROVE Goal
  BY <1>1, <1>2, <1>7, DownFacts
<1>8. CASE Autosave
  BY <1>1, <1>4, <1>8 DEF Autosave
<1>9. ASSUME NEW f \in File, WriteOut(f) PROVE Goal
  <2>1. Time
    BY <1>1, <1>9 DEF WriteOut
  <2>2. server' \in Server /\ server'.up = server.up /\ server.pending # {}
    BY <1>1, <1>9, WriteFacts
  <2>3. QED
    BY <1>1, <1>2, <2>1, <2>2
<1>10. CASE Crash \/ Restart
  BY <1>1, <1>7, <1>10 DEF Crash, Restart
<1>11. CASE Boot
  <2>1. Time
    BY <1>1, <1>11 DEF Boot
  <2>2. QED
    BY <1>2, <1>11, <2>1, BootFacts
<1>12. ASSUME StartBackup \/ \E i \in DOMAIN archives : StartRestore(i) PROVE Goal
  BY <1>1, <1>5, <1>12 DEF StartBackup, StartRestore
<1>13. CASE SaveOff \/ SaveOffFails
  <2>1. Time
    BY <1>1, <1>13 DEF SaveOff, SaveOffFails, Fine
  <2>2. server' = server \/ server' = [server EXCEPT !.saving = FALSE]
    BY <1>13 DEF SaveOff, SaveOffFails
  <2>3. QED
    BY <1>5, <1>6, <2>1, <2>2
<1>14. CASE SaveAll \/ SaveAllFails
  <2>1. Time
    BY <1>1, <1>14 DEF SaveAll, SaveAllFails, Fine
  <2>2. \/ server' = server
        \/ /\ server.up
           /\ server' = [server EXCEPT !.pending = File, !.cap = server.mem]
    BY <1>14 DEF SaveAll, SaveAllFails, Flush
  <2>3. QED
    BY <1>4, <1>5, <2>1, <2>2
<1>15. CASE Settle \/ TarFails \/ EndTar \/ CheckSize \/ Undersized
  BY <1>1, <1>5, <1>15 DEF Settle, TarFails, EndTar, CheckSize, Undersized, Fine
<1>16. CASE RemoveOld \/ RemoveOldFails \/ Report \/ EndSafetyTar
  BY <1>1, <1>5, <1>16 DEF RemoveOld, RemoveOldFails, Report, EndSafetyTar
<1>17. CASE Exit \/ SafetySaveOn
  <2>1. PICK next : SaveOn(next)
    BY <1>17 DEF Exit, SafetySaveOn
  <2>2. Time
    BY <1>1, <2>1 DEF SaveOn, Fine
  <2>3. PICK b \in BOOLEAN : server' = server \/ server' = [server EXCEPT !.saving = b]
    BY <1>1, <2>1 DEF SaveOn, Server
  <2>4. QED
    BY <1>5, <1>6, <2>2, <2>3
<1>18. CASE Stop \/ StopKills
  BY <1>1, <1>7, <1>18 DEF Stop, StopKills
<1>19. CASE Refuse \/ StepFails
  <2>1. Time
    BY <1>1, <1>19 DEF Refuse, StepFails, Quit, Abandon, Fine
  <2>2. QED
    BY <1>5, <1>19, <2>1 DEF Refuse, StepFails
<1>20. CASE Confirm \/ MoveAside \/ ExtractFails \/ EndUndo \/ EndExtract
  BY <1>1, <1>5, <1>20 DEF Confirm, MoveAside, ExtractFails, EndUndo, EndExtract
<1>21. CASE PutBack \/ PutInside \/ TidyInside \/ EndTidy
  BY <1>1, <1>5, <1>21 DEF PutBack, PutInside, TidyInside, EndTidy
<1>22. ASSUME NEW f \in File, TarFile(f) \/ Extract(f) \/ Undo(f) \/ Tidy(f) PROVE Goal
  BY <1>1, <1>5, <1>22 DEF TarFile, Extract, Undo, Tidy
<1>23. CASE StartServer
  <2>1. server' \in Server /\ server'.up = server.up /\ server'.pending = server.pending
    BY <1>1, <1>23 DEF StartServer, Server
  <2>2. Time
    BY <1>1, <1>23 DEF StartServer
  <2>3. QED
    BY <1>1, <1>2, <2>1, <2>2
<1>24. CASE Kill
  <2>1. Time
    BY <1>1, <1>24 DEF Kill, Abandon
  <2>2. QED
    BY <1>5, <1>24, <2>1 DEF Kill
<1>25. CASE UNCHANGED vars
  BY <1>1, <1>5, <1>25 DEF vars
<1>26. QED
  BY <1>3, <1>8, <1>9, <1>10, <1>11, <1>12, <1>13, <1>14, <1>15, <1>16, <1>17,
     <1>18, <1>19, <1>20, <1>21, <1>22, <1>23, <1>24, <1>25
  DEF Next

(* The script is in a step of its own and holds what that step needs.      *)
LEMMA ScriptTypes ==
    ASSUME TypeOK, [Next]_vars
    PROVE  script' \in Script /\ (script'.pc = "end" <=> script'.op = "none")
<1> DEFINE Goal == script' \in Script /\ (script'.pc = "end" <=> script'.op = "none")
<1>1. /\ script \in Script /\ (script.pc = "end" <=> script.op = "none")
      /\ server \in Server /\ server.mem \in Stamp
      /\ world \in Tree /\ script.touched \in BOOLEAN /\ script.todo \in SUBSET File
      /\ script.arch \in Tree
      /\ "end" \notin Busy
  BY DEF TypeOK, Script, Server, Busy
<1>2. ASSUME script' = script \/ script' = NoScript PROVE Goal
  BY <1>1, <1>2, NoScriptFacts
<1>3. ASSUME script.op # "none", NEW p \in Busy, GoTo(p) \/ Turn(p) PROVE Goal
  <2>1. script' \in Script /\ script'.pc = p /\ script'.op = script.op
    BY <1>1, <1>3, GoToFacts, TurnFacts
  <2>2. QED
    BY <1>1, <1>3, <2>1
<1>4. ASSUME script.op # "none", NEW t \in Stamp, NEW T \in SUBSET File,
             NEW b \in BOOLEAN, NEW p \in Busy,
             \/ script' = [script EXCEPT !.pc = p, !.since = t]
             \/ script' = [script EXCEPT !.pc = p, !.since = t, !.touched = b]
             \/ script' = [script EXCEPT !.pc = p, !.todo = T]
             \/ script' = [script EXCEPT !.pc = p, !.todo = T, !.touched = b]
      PROVE  Goal
  <2>1. /\ [script EXCEPT !.pc = p, !.since = t] \in Script
        /\ [script EXCEPT !.pc = p, !.todo = T] \in Script
    BY <1>1 DEF Script, Busy
  <2>2. [script EXCEPT !.pc = p, !.since = t, !.touched = b] \in Script
    BY <1>1 DEF Script, Busy
  <2>3. [script EXCEPT !.pc = p, !.todo = T, !.touched = b] \in Script
    BY <1>1 DEF Script, Busy
  <2>4. script'.op = script.op /\ script'.pc = p
    BY <1>1, <1>4 DEF Script
  <2>5. QED
    BY <1>1, <1>4, <2>1, <2>2, <2>3, <2>4
<1>5. ASSUME script.op # "none", NEW T \in SUBSET File,
             script' = [script EXCEPT !.todo = T]
      PROVE  Goal
  <2>1. script' \in Script /\ script'.op = script.op /\ script'.pc = script.pc
    BY <1>1, <1>5 DEF Script
  <2>2. QED
    BY <1>1, <1>5, <2>1
<1>6. \A op, pc : At(op, pc) /\ "none" \notin op => script.op # "none"
  BY DEF At
<1>7. CASE Play \/ Autosave \/ Boot
  BY <1>2, <1>7 DEF Play, Autosave, Boot
<1>8. ASSUME NEW f \in File, WriteOut(f) \/ Undo(f) \/ Tidy(f) PROVE Goal
  BY <1>2, <1>8 DEF WriteOut, Undo, Tidy
<1>9. CASE Crash \/ Restart
  <2>1. /\ script' \in Script /\ script'.pc = script.pc /\ script'.op = script.op
    BY <1>1, <1>9, CrashFacts, TouchFacts DEF Restart
  <2>2. QED
    BY <1>1, <2>1
<1>10. CASE StartBackup
  BY <1>10, NoScriptFacts DEF StartBackup, Script
<1>11. ASSUME NEW i \in DOMAIN archives, StartRestore(i) PROVE Goal
  <2> DEFINE s == [NoScript EXCEPT !.op = "restore", !.pc = "off",
                                   !.from = archives[i].files]
  <2>1. archives[i].files \in Tree
    <3>1. archives[i] \in Archive
      BY DEF TypeOK
    <3>2. QED
      BY <3>1 DEF Archive
  <2>2. s \in Script
    BY <2>1, NoScriptFacts DEF Script
  <2>3. s.op = "restore" /\ s.pc = "off"
    BY NoScriptFacts DEF Script
  <2>4. script' = s
    BY <1>11 DEF StartRestore
  <2> HIDE DEF s
  <2>5. QED
    BY <2>2, <2>3, <2>4
<1>12. CASE SaveOff \/ SaveOffFails \/ SaveAllFails \/ TarFails \/ EndTar
  <2>1. script.op # "none"
    BY <1>6, <1>12 DEF SaveOff, SaveOffFails, SaveAllFails, TarFails, EndTar, Both
  <2>2. \/ script' = NoScript
        \/ \E p \in Busy : GoTo(p) \/ Turn(p)
    BY <1>12 DEF SaveOff, SaveOffFails, SaveAllFails, TarFails, EndTar, Busy
  <2>3. QED
    BY <1>2, <1>3, <2>1, <2>2
<1>13. CASE SaveAll
  <2>1. script' = [script EXCEPT !.pc = "settle", !.since = server.mem]
    BY <1>13 DEF SaveAll
  <2>2. QED
    BY <1>1, <1>4, <1>6, <1>13, <2>1 DEF SaveAll, Both, Busy
<1>14. CASE Settle
  <2>1. PICK b \in BOOLEAN :
            script' = [script EXCEPT !.pc = "tar", !.todo = File, !.touched = b]
    BY <1>1, <1>14 DEF Settle
  <2>2. QED
    BY <1>1, <1>4, <1>6, <1>14, <2>1 DEF Settle, Both, Busy
<1>15. ASSUME NEW f \in File, TarFile(f) PROVE Goal
  <2>1. [script.arch EXCEPT ![f] = world[f]] \in Tree
    BY <1>1 DEF Tree
  <2>2. script' = [script EXCEPT !.arch = [script.arch EXCEPT ![f] = world[f]],
                                 !.todo = script.todo \ {f}]
    BY <1>15 DEF TarFile
  <2>3. script' \in Script
    BY <1>1, <2>1, <2>2 DEF Script
  <2>4. script'.op = script.op /\ script'.pc = script.pc
    BY <1>1, <2>2 DEF Script
  <2>5. QED
    BY <1>1, <2>3, <2>4
<1>16. CASE CheckSize \/ Undersized \/ RemoveOld \/ RemoveOldFails \/ Report
  <2>1. script.op # "none"
    BY <1>6, <1>16 DEF CheckSize, Undersized, RemoveOld, RemoveOldFails, Report
  <2>2. script' = script \/ \E p \in Busy : GoTo(p) \/ Turn(p)
    BY <1>16 DEF CheckSize, Undersized, RemoveOld, RemoveOldFails, Report, Busy
  <2>3. QED
    BY <1>2, <1>3, <2>1, <2>2
<1>17. CASE Exit \/ PutBack \/ PutInside \/ StartServer
  BY <1>2, <1>17 DEF Exit, SaveOn, PutBack, PutInside, StartServer
<1>18. CASE Refuse \/ StepFails \/ Kill
  BY <1>2, <1>18 DEF Refuse, StepFails, Kill, Quit, Abandon
<1>19. CASE SafetySaveOn
  <2>1. GoTo("stop")
    BY <1>19 DEF SafetySaveOn, SaveOn, GoTo
  <2>2. QED
    BY <1>3, <1>6, <1>19, <2>1 DEF SafetySaveOn, Busy
<1>20. CASE Stop
  <2>1. script' = [script EXCEPT !.pc = "stopped", !.since = server.mem, !.touched = FALSE]
    BY <1>20 DEF Stop
  <2>2. QED
    BY <1>1, <1>4, <1>6, <1>20, <2>1 DEF Stop, Busy
<1>21. CASE EndSafetyTar \/ StopKills \/ Confirm \/ ExtractFails \/ EndUndo
  <2>1. script.op # "none"
    BY <1>6, <1>21 DEF EndSafetyTar, StopKills, Confirm, ExtractFails, EndUndo
  <2>2. \E p \in Busy : GoTo(p) \/ Turn(p)
    BY <1>21 DEF EndSafetyTar, StopKills, Confirm, ExtractFails, EndUndo, Busy
  <2>3. QED
    BY <1>3, <2>1, <2>2
<1>22. CASE EndExtract \/ EndTidy
  <2>1. script.op # "none" /\ \E p \in Busy : GoTo(p)
    BY <1>6, <1>22 DEF EndExtract, EndTidy, Busy
  <2>2. QED
    BY <1>3, <2>1
<1>23. CASE MoveAside
  <2>1. script' = [script EXCEPT !.pc = "extract", !.todo = File]
    BY <1>23 DEF MoveAside
  <2>2. QED
    BY <1>1, <1>4, <1>6, <1>23, <2>1 DEF MoveAside, Busy
<1>24. ASSUME NEW f \in File, Extract(f) PROVE Goal
  <2>1. script' = [script EXCEPT !.todo = script.todo \ {f}]
    BY <1>24 DEF Extract
  <2>2. QED
    BY <1>1, <1>5, <1>6, <1>24, <2>1 DEF Extract
<1>25. CASE TidyInside \/ UNCHANGED vars
  BY <1>2, <1>25 DEF TidyInside, vars
<1>26. QED
  BY <1>7, <1>8, <1>9, <1>10, <1>11, <1>12, <1>13, <1>14, <1>15, <1>16, <1>17,
     <1>18, <1>19, <1>20, <1>21, <1>22, <1>23, <1>24, <1>25
  DEF Next

(* The world, the ones moved aside and the safety archive are trees; one   *)
(* is aside only while a restore has it in its hands.                      *)
LEMMA TreeTypes ==
    ASSUME TypeOK, [Next]_vars
    PROVE  /\ world' \in Tree /\ aside' \in Tree /\ pre' \in Tree
           /\ strays' \subseteq Tree /\ inside' \subseteq Tree
           /\ aside' # Missing => Moved'
<1> DEFINE Goal == /\ world' \in Tree /\ aside' \in Tree /\ pre' \in Tree
                   /\ strays' \subseteq Tree /\ inside' \subseteq Tree
                   /\ aside' # Missing => Moved'
<1>1. /\ world \in Tree /\ aside \in Tree /\ pre \in Tree /\ Missing \in Tree
      /\ strays \subseteq Tree /\ inside \subseteq Tree
      /\ script \in Script /\ server \in Server
      /\ aside # Missing => Moved
      /\ script.op = "none" => script.pc = "end"
  BY DEF TypeOK, Tree, Missing
<1>2. Moved' = (script'.pc \in {"extract", "undo", "putback", "tidy"})
      /\ Moved = (script.pc \in {"extract", "undo", "putback", "tidy"})
  BY DEF Moved
<1>3. ASSUME UNCHANGED <<dirs, pre>>, world' \in Tree, ~Moved \/ Moved' PROVE Goal
  BY <1>1, <1>3 DEF dirs
<1>4. CASE Play \/ Autosave \/ Boot
  BY <1>1, <1>2, <1>3, <1>4 DEF Play, Autosave, Boot, ours
<1>5. ASSUME NEW f \in File, WriteOut(f) PROVE Goal
  <2>1. world' \in Tree /\ aside' \in Tree /\ (aside' = aside \/ aside # Missing)
    BY <1>1, <1>5, WriteFacts
  <2>2. UNCHANGED <<strays, inside, pre, script>>
    BY <1>5 DEF WriteOut, ours
  <2>3. QED
    BY <1>1, <1>2, <2>1, <2>2
<1>6. CASE Crash \/ Restart
  <2>1. world' \in Tree /\ UNCHANGED <<dirs, pre>>
    BY <1>1, <1>6, SavedFacts DEF Crash, Restart, ours
  <2>2. script'.pc = script.pc
    BY <1>1, <1>6, CrashFacts, TouchFacts DEF Restart
  <2>3. QED
    BY <1>2, <1>3, <2>1, <2>2
<1>7. ASSUME StartBackup \/ \E i \in DOMAIN archives : StartRestore(i) PROVE Goal
  <2>1. UNCHANGED <<dirs, pre, world>> /\ script.pc = "end"
    BY <1>1, <1>7 DEF StartBackup, StartRestore, ours
  <2>2. QED
    BY <1>1, <1>2, <1>3, <2>1
<1>8. CASE SaveOff \/ SaveOffFails \/ SaveAll \/ SaveAllFails \/ Settle
  BY <1>1, <1>2, <1>3, <1>8
  DEF SaveOff, SaveOffFails, SaveAll, SaveAllFails, Settle, At, ours
<1>9. CASE TarFails \/ EndTar \/ CheckSize \/ Undersized
  BY <1>1, <1>2, <1>3, <1>9 DEF TarFails, EndTar, CheckSize, Undersized, At, ours
<1>10. CASE RemoveOld \/ RemoveOldFails \/ Report
  BY <1>1, <1>2, <1>3, <1>10 DEF RemoveOld, RemoveOldFails, Report, At, ours
<1>11. ASSUME NEW f \in File, TarFile(f) PROVE Goal
  BY <1>1, <1>2, <1>3, <1>11 DEF TarFile, At, ours
<1>12. CASE Exit \/ SafetySaveOn \/ StartServer \/ Confirm
  BY <1>1, <1>2, <1>3, <1>12 DEF Exit, SafetySaveOn, SaveOn, StartServer, Confirm, At, ours
<1>13. CASE EndSafetyTar
  <2>1. script.arch \in Tree
    BY <1>1 DEF Script
  <2>2. QED
    BY <1>1, <1>2, <1>13, <2>1 DEF EndSafetyTar, At, dirs
<1>14. CASE Stop \/ StopKills
  <2>1. world' \in Tree
    BY <1>1, <1>14, SavedFacts DEF Stop, StopKills
  <2>2. QED
    BY <1>1, <1>2, <1>3, <1>14, <2>1 DEF Stop, StopKills, At, ours
<1>15. CASE Refuse \/ StepFails \/ Kill
  <2>1. UNCHANGED <<world, pre>> /\ \E off : Abandon(off)
    BY <1>15 DEF Refuse, StepFails, Kill, Quit, ours
  <2>2. QED
    BY <1>1, <2>1, AbandonFacts
<1>16. CASE MoveAside
  <2>1. script'.pc = "extract"
    BY <1>1, <1>16 DEF MoveAside, Script
  <2>2. QED
    BY <1>1, <1>2, <1>16, <2>1 DEF MoveAside, ours
<1>17. ASSUME NEW f \in File, Extract(f) PROVE Goal
  <2>1. script'.pc = script.pc
    BY <1>1, <1>17 DEF Extract, Script
  <2>2. script.from \in Tree
    BY <1>1 DEF Script
  <2>3. world' \in Tree
    BY <1>1, <1>17, <2>2 DEF Extract, Tree
  <2>4. QED
    BY <1>1, <1>2, <1>3, <1>17, <2>1, <2>3 DEF Extract, ours
<1>18. ASSUME NEW f \in File, Undo(f) PROVE Goal
  <2>1. world' \in Tree
    BY <1>1, <1>18 DEF Undo, Tree
  <2>2. QED
    BY <1>2, <1>3, <1>18, <2>1 DEF Undo, ours
<1>19. CASE ExtractFails \/ EndUndo \/ EndExtract
  <2>1. UNCHANGED <<world, dirs, pre>>
    BY <1>19 DEF ExtractFails, EndUndo, EndExtract, ours
  <2>2. script'.pc \in {"undo", "putback", "tidy"}
    BY <1>1, <1>19, GoToFacts DEF ExtractFails, EndUndo, EndExtract, Busy
  <2>3. QED
    BY <1>1, <1>2, <1>3, <2>1, <2>2
<1>20. CASE PutBack \/ PutInside
  BY <1>1, <1>20 DEF PutBack, PutInside, ours
<1>21. ASSUME NEW f \in File, Tidy(f) PROVE Goal
  <2>1. aside' \in Tree
    BY <1>1, <1>21 DEF Tidy, Tree
  <2>2. UNCHANGED <<world, strays, inside, pre, script>> /\ script.pc = "tidy"
    BY <1>21 DEF Tidy, At, ours
  <2>3. QED
    BY <1>1, <1>2, <2>1, <2>2
<1>22. CASE TidyInside \/ EndTidy
  BY <1>1, <1>2, <1>22 DEF TidyInside, EndTidy, ours, dirs
<1>23. CASE UNCHANGED vars
  BY <1>1, <1>2, <1>23 DEF vars
<1>24. QED
  BY <1>4, <1>5, <1>6, <1>7, <1>8, <1>9, <1>10, <1>11, <1>12, <1>13, <1>14,
     <1>15, <1>16, <1>17, <1>18, <1>19, <1>20, <1>21, <1>22, <1>23
  DEF Next

(* A step that leaves the script at a step that does not take part in an   *)
(* undisturbed tar keeps TarInv, whatever it does.                         *)
LEMMA TarStep ==
    ASSUME TypeOK, TarInv, [Next]_vars
    PROVE  TarInv'
<1> DEFINE Taring == {"all", "settle", "tar"}
<1>1. /\ script \in Script /\ server \in Server /\ world \in Tree /\ aside \in Tree
      /\ script.op = "none" => script.pc = "end"
      /\ aside # Missing => script.pc \in {"extract", "undo", "putback", "tidy"}
  BY DEF TypeOK, Moved
<1>2. ASSUME script'.pc \in Taring => script'.touched PROVE TarInv'
  BY <1>2 DEF TarInv
<1>3. ASSUME script' = NoScript PROVE TarInv'
  BY <1>2, <1>3, NoScriptFacts
<1>4. ASSUME NEW p \in Busy, p \notin Taring, GoTo(p) \/ Turn(p) PROVE TarInv'
  BY <1>1, <1>2, <1>4, GoToFacts, TurnFacts
<1>5. ASSUME script.pc \notin Taring, script'.pc = script.pc PROVE TarInv'
  BY <1>2, <1>5
<1>6. CASE Play
  <2>1. /\ server'.up = server.up /\ server'.saving = server.saving
        /\ server'.cap = server.cap /\ server'.pending = server.pending
        /\ UNCHANGED <<script, world>>
    BY <1>1, <1>6 DEF Play, Server
  <2>2. QED
    BY <2>1 DEF TarInv
<1>7. CASE Autosave \/ Boot
  <2>1. script' = script /\ (server.saving \/ ~server.up)
    BY <1>7 DEF Autosave, Boot
  <2>2. QED
    BY <1>2, <2>1 DEF TarInv
<1>8. ASSUME NEW f \in File, WriteOut(f) PROVE TarInv'
  <2>1. /\ server'.up = server.up /\ server'.saving = server.saving
        /\ server'.cap = server.cap /\ server'.pending = server.pending \ {f}
        /\ f \in server.pending /\ script' = script
        /\ aside # Missing \/ world' = [world EXCEPT ![f] = server.cap]
    BY <1>1, <1>8, WriteFacts DEF WriteOut
  <2>2. CASE script.pc \notin Taring
    BY <1>5, <2>1, <2>2
  <2>3. CASE script.pc \in Taring
    <3>1. world' = [world EXCEPT ![f] = server.cap]
      BY <1>1, <2>1, <2>3
    <3>2. world'[f] = server.cap /\ \A g \in File : g # f => world'[g] = world[g]
      BY <1>1, <3>1 DEF Tree
    <3>3. QED
      BY <2>1, <3>2 DEF TarInv
  <2>4. QED
    BY <2>2, <2>3
<1>9. CASE Crash \/ Restart
  <2>1. /\ script'.pc = script.pc /\ script'.op = script.op
        /\ script.op # "none" => script'.touched
    BY <1>1, <1>9, CrashFacts, TouchFacts DEF Restart
  <2>2. QED
    BY <1>1, <1>2, <2>1
<1>10. ASSUME StartBackup \/ \E i \in DOMAIN archives : StartRestore(i) PROVE TarInv'
  <2>1. script'.pc = "off"
    BY <1>10, NoScriptFacts DEF StartBackup, StartRestore, Script
  <2>2. QED
    BY <1>2, <2>1
<1>11. CASE SaveOff
  <2>1. /\ server'.up /\ server'.saving = FALSE
        /\ script'.pc = "all"
    BY <1>1, <1>11, SavingFacts, GoToFacts DEF SaveOff, Busy
  <2>2. QED
    BY <2>1 DEF TarInv
<1>12. CASE SaveOffFails \/ SaveAllFails \/ TarFails \/ EndTar
  <2>1. script' = NoScript \/ \E p \in Busy \ Taring : Turn(p)
    BY <1>12 DEF SaveOffFails, SaveAllFails, TarFails, EndTar, Busy
  <2>2. QED
    BY <1>3, <1>4, <2>1
<1>13. CASE SaveAll
  <2>1. /\ server'.up = server.up /\ server'.saving = server.saving
        /\ server'.cap = server.mem /\ server'.pending = File
    BY <1>1, <1>13, FlushFacts DEF SaveAll, Flush
  <2>2. /\ script'.pc = "settle" /\ script'.since = server.mem
        /\ script'.touched = script.touched /\ script.pc = "all"
    BY <1>1, <1>13 DEF SaveAll, Script, At
  <2>3. QED
    BY <2>1, <2>2 DEF TarInv
<1>14. CASE Settle
  <2>1. /\ script'.pc = "tar" /\ script'.since = script.since
        /\ script'.todo = File /\ script.pc = "settle"
        /\ ~script'.touched => ~script.touched /\ server.pending = {}
        /\ UNCHANGED <<server, world>>
    BY <1>1, <1>14 DEF Settle, Script, At
  <2>2. CASE ~script'.touched
    <3>1. \A f \in File : world[f] = script.since
      BY <2>1, <2>2 DEF TarInv
    <3>2. world = All(script.since)
      BY <1>1, <3>1 DEF All, Tree
    <3>3. QED
      BY <2>1, <2>2, <3>2 DEF TarInv, All
  <2>3. QED
    BY <1>2, <2>2
<1>15. ASSUME NEW f \in File, TarFile(f) PROVE TarInv'
  <2>1. /\ script'.pc = script.pc /\ script'.since = script.since
        /\ script'.touched = script.touched /\ script.pc = "tar"
        /\ script'.todo = script.todo \ {f}
        /\ script'.arch = [script.arch EXCEPT ![f] = world[f]]
        /\ UNCHANGED <<server, world>>
    BY <1>1, <1>15 DEF TarFile, Script, At
  <2>2. /\ script'.arch[f] = world[f]
        /\ \A g \in File : g # f => script'.arch[g] = script.arch[g]
    BY <1>1, <2>1 DEF Script, Tree
  <2>3. ~script.touched => world[f] = script.since
    BY <2>1 DEF TarInv, All
  <2>4. QED
    BY <2>1, <2>2, <2>3 DEF TarInv
<1>16. CASE CheckSize \/ Undersized \/ RemoveOldFails \/ Report
  <2>1. \E p \in Busy \ Taring : GoTo(p) \/ Turn(p)
    BY <1>16 DEF CheckSize, Undersized, RemoveOldFails, Report, Busy
  <2>2. QED
    BY <1>4, <2>1
<1>17. CASE RemoveOld \/ TidyInside
  BY <1>5, <1>17 DEF RemoveOld, TidyInside, At
<1>18. CASE Exit \/ PutBack \/ PutInside \/ StartServer
  BY <1>3, <1>18 DEF Exit, SaveOn, PutBack, PutInside, StartServer
<1>19. CASE Refuse \/ StepFails \/ Kill
  BY <1>3, <1>19 DEF Refuse, StepFails, Kill, Quit, Abandon
<1>20. CASE SafetySaveOn
  <2>1. GoTo("stop")
    BY <1>20 DEF SafetySaveOn, SaveOn, GoTo
  <2>2. QED
    BY <1>4, <2>1 DEF Busy
<1>21. CASE Stop \/ MoveAside
  <2>1. script'.pc \in {"stopped", "extract"}
    BY <1>1, <1>21 DEF Stop, MoveAside, Script
  <2>2. QED
    BY <1>2, <2>1
<1>22. CASE EndSafetyTar \/ StopKills \/ Confirm \/ ExtractFails \/ EndUndo
  <2>1. \E p \in Busy \ Taring : GoTo(p) \/ Turn(p)
    BY <1>22 DEF EndSafetyTar, StopKills, Confirm, ExtractFails, EndUndo, Busy
  <2>2. QED
    BY <1>4, <2>1
<1>23. CASE EndExtract \/ EndTidy
  <2>1. \E p \in Busy \ Taring : GoTo(p)
    BY <1>23 DEF EndExtract, EndTidy, Busy
  <2>2. QED
    BY <1>4, <2>1
<1>24. ASSUME NEW f \in File, Extract(f) \/ Undo(f) \/ Tidy(f) PROVE TarInv'
  <2>1. script'.pc = script.pc /\ script.pc \notin Taring
    BY <1>1, <1>24 DEF Extract, Undo, Tidy, At, Script
  <2>2. QED
    BY <1>5, <2>1
<1>25. CASE UNCHANGED vars
  BY <1>25 DEF vars, TarInv
<1>26. QED
  BY <1>6, <1>7, <1>8, <1>9, <1>10, <1>11, <1>12, <1>13, <1>14, <1>15, <1>16,
     <1>17, <1>18, <1>19, <1>20, <1>21, <1>22, <1>23, <1>24, <1>25
  DEF Next

(* Every way out of a script turns saving and the service on again, or is  *)
(* remembered in `left'.                                                   *)
LEMMA ServerStep ==
    ASSUME TypeOK, ServerInv, [Next]_vars
    PROVE  ServerInv'
<1> DEFINE Quiet == {"all", "settle", "tar", "check", "rotate", "exit", "on"}
           Off   == {"stopped", "move", "extract", "undo", "putback", "tidy", "start"}
           Lost  == "saving" \in left
           Gone  == "service" \in left
<1>1. /\ script \in Script /\ server \in Server /\ world \in Tree /\ aside \in Tree
      /\ script.op = "none" => script.pc = "end"
      /\ Stopped \subseteq {"service"}
      /\ server.unit # "on" => Stopped = {"service"}
  BY DEF TypeOK, Stopped
<1>2. /\ server.up => server.unit = "on"
      /\ ~server.saving => ~server.up \/ script.pc \in Quiet \/ Lost
      /\ server.unit # "on" => script.pc \in Off \/ Gone
  BY DEF ServerInv, Replacing
<1>3. ASSUME server'.up => server'.unit = "on",
             ~server'.saving => ~server'.up \/ script'.pc \in Quiet \/ Lost',
             server'.unit # "on" => script'.pc \in Off \/ Gone'
      PROVE  ServerInv'
  BY <1>3 DEF ServerInv, Replacing
<1>4. ASSUME server'.up = server.up, server'.unit = server.unit,
             server'.saving = server.saving \/ server'.saving,
             script.pc \in Quiet /\ server.up /\ ~server.saving
                => script'.pc \in Quiet \/ "saving" \in left',
             script.pc \in Off /\ server.unit # "on"
                => script'.pc \in Off \/ "service" \in left',
             left \subseteq left'
      PROVE  ServerInv'
  BY <1>2, <1>3, <1>4
<1>5. ASSUME ~server'.up, script'.pc \in Off \/ server'.unit = "on" PROVE ServerInv'
  BY <1>3, <1>5
<1>6. CASE Play
  <2>1. /\ server'.up = server.up /\ server'.unit = server.unit
        /\ server'.saving = server.saving /\ UNCHANGED <<script, left>>
    BY <1>1, <1>6 DEF Play, Server
  <2>2. QED
    BY <1>4, <2>1
<1>7. CASE Autosave
  <2>1. /\ server'.up = server.up /\ server'.unit = server.unit
        /\ server'.saving = server.saving /\ UNCHANGED <<script, left>>
    BY <1>1, <1>7, FlushFacts DEF Autosave
  <2>2. QED
    BY <1>4, <2>1
<1>8. ASSUME NEW f \in File, WriteOut(f) PROVE ServerInv'
  <2>1. /\ server'.up = server.up /\ server'.unit = server.unit
        /\ server'.saving = server.saving /\ UNCHANGED <<script, left>>
    BY <1>1, <1>8, WriteFacts DEF WriteOut
  <2>2. QED
    BY <1>4, <2>1
<1>9. CASE Crash \/ Restart
  <2>1. ~server'.up /\ server'.unit = "on"
    BY <1>1, <1>9, DownFacts DEF Crash, Restart
  <2>2. QED
    BY <1>5, <2>1
<1>10. CASE Boot
  BY <1>3, <1>10, BootFacts
<1>11. ASSUME StartBackup \/ \E i \in DOMAIN archives : StartRestore(i)
       PROVE  ServerInv'
  <2>1. UNCHANGED <<server, left>> /\ script.pc = "end"
    BY <1>1, <1>11 DEF StartBackup, StartRestore
  <2>2. QED
    BY <1>4, <2>1
<1>12. CASE SaveOff
  <2>1. /\ server'.up = server.up /\ server'.unit = server.unit
        /\ server.up /\ script'.pc = "all"
    BY <1>1, <1>12, SavingFacts, GoToFacts DEF SaveOff, Busy
  <2>2. QED
    BY <1>2, <1>3, <2>1
<1>13. CASE SaveOffFails
  <2>1. script.pc = "off"
    BY <1>13 DEF SaveOffFails, At
  <2>2. CASE UNCHANGED <<server, left>>
    BY <1>4, <2>1, <2>2
  <2>3. CASE /\ server.up /\ server' = [server EXCEPT !.saving = FALSE]
             /\ left' = IF script.op = "restore" THEN left \cup {"saving"} ELSE left
    <3>1. server'.up /\ server'.unit = server.unit
      BY <1>1, <2>3, SavingFacts
    <3>2. script'.pc = "exit" \/ "saving" \in left'
      BY <1>1, <1>13, <2>3, TurnFacts DEF SaveOffFails, Busy
    <3>3. QED
      BY <1>2, <1>3, <2>3, <3>1, <3>2
  <2>4. QED
    BY <1>13, <2>2, <2>3 DEF SaveOffFails
<1>14. CASE SaveAll \/ SaveAllFails
  <2>1. /\ server'.up = server.up /\ server'.unit = server.unit
        /\ server'.saving = server.saving
    BY <1>1, <1>14, FlushFacts DEF SaveAll, SaveAllFails, Flush
  <2>2. script.pc = "all" /\ script'.pc \in {"settle", "exit"} /\ left' = left
    <3>1. CASE SaveAll
      BY <1>1, <3>1 DEF SaveAll, At, Script
    <3>2. CASE SaveAllFails
      BY <1>1, <3>2, TurnFacts DEF SaveAllFails, At, Busy
    <3>3. QED
      BY <1>14, <3>1, <3>2
  <2>3. QED
    BY <1>4, <2>1, <2>2
<1>15. CASE Settle
  <2>1. UNCHANGED <<server, left>> /\ script'.pc = "tar" /\ script.pc = "settle"
    BY <1>1, <1>15 DEF Settle, Script, At
  <2>2. QED
    BY <1>4, <2>1
<1>16. ASSUME NEW f \in File, TarFile(f) \/ Extract(f) \/ Undo(f) \/ Tidy(f)
       PROVE  ServerInv'
  <2>1. UNCHANGED <<server, left>> /\ script'.pc = script.pc
    BY <1>1, <1>16 DEF TarFile, Extract, Undo, Tidy, Script
  <2>2. QED
    BY <1>4, <2>1
<1>17. CASE TarFails \/ EndTar \/ EndSafetyTar
  <2>1. UNCHANGED <<server, left>> /\ \E p \in {"exit", "check", "on"} : Turn(p)
    BY <1>17 DEF TarFails, EndTar, EndSafetyTar
  <2>2. script'.pc \in Quiet /\ script.pc = "tar"
    BY <1>1, <1>17, <2>1, TurnFacts DEF TarFails, EndTar, EndSafetyTar, At, Busy
  <2>3. QED
    BY <1>4, <2>1, <2>2
<1>18. CASE CheckSize \/ Undersized \/ RemoveOldFails \/ Report
  <2>1. /\ UNCHANGED <<server, left>>
        /\ \E p \in {"exit", "rotate"} : Turn(p) \/ GoTo(p)
    BY <1>18 DEF CheckSize, Undersized, RemoveOldFails, Report, ours
  <2>2. script.pc \in {"check", "rotate"}
    BY <1>18 DEF CheckSize, Undersized, RemoveOldFails, Report, At
  <2>3. script'.pc \in Quiet
    BY <1>1, <2>1, TurnFacts, GoToFacts DEF Busy
  <2>4. QED
    BY <1>4, <2>1, <2>2, <2>3
<1>19. CASE RemoveOld \/ TidyInside
  <2>1. UNCHANGED <<server, left, script>>
    BY <1>19 DEF RemoveOld, TidyInside
  <2>2. QED
    BY <1>4, <2>1
<1>20. CASE Exit \/ SafetySaveOn
  <2>1. script.pc \in {"exit", "on"}
    BY <1>20 DEF Exit, SafetySaveOn, At
  <2>2. PICK next : SaveOn(next)
    BY <1>20 DEF Exit, SafetySaveOn
  <2>3. CASE /\ server' = [server EXCEPT !.saving = IF server.up THEN TRUE ELSE @]
             /\ left' = left \ (IF server.up THEN {"saving"} ELSE {})
    <3>1. /\ server'.up = server.up /\ server'.unit = server.unit
          /\ server.up => server'.saving
      BY <1>1, <2>3 DEF Server
    <3>2. Gone => "service" \in left'
      BY <2>3
    <3>3. QED
      BY <1>2, <1>3, <2>1, <3>1, <3>2
  <2>4. CASE server' = server /\ left' = left \cup {"saving"}
    BY <1>4, <2>1, <2>4
  <2>5. QED
    BY <2>2, <2>3, <2>4 DEF SaveOn
<1>21. CASE Stop \/ StopKills
  <2>1. ~server'.up
    BY <1>1, <1>21, DownFacts DEF Stop, StopKills
  <2>2. script'.pc = "stopped"
    <3>1. CASE Stop
      BY <1>1, <3>1 DEF Stop, Script
    <3>2. CASE StopKills
      BY <1>1, <3>2, GoToFacts DEF StopKills, Busy
    <3>3. QED
      BY <1>21, <3>1, <3>2
  <2>3. QED
    BY <1>5, <2>1, <2>2
<1>22. CASE Refuse \/ StepFails
  <2>1. /\ server' = server /\ left' = left \cup Stopped
        /\ script.pc \notin Quiet
    BY <1>22 DEF Refuse, StepFails, Quit, Abandon, At
  <2>2. QED
    BY <1>1, <1>4, <2>1
<1>23. CASE Confirm \/ ExtractFails \/ EndUndo \/ EndExtract \/ EndTidy
  <2>1. /\ UNCHANGED <<server, left>>
        /\ \E p \in {"move", "undo", "putback", "tidy", "start"} : GoTo(p)
    BY <1>23 DEF Confirm, ExtractFails, EndUndo, EndExtract, EndTidy, ours
  <2>2. script.pc \in {"stopped", "extract", "undo", "tidy"}
    BY <1>23 DEF Confirm, ExtractFails, EndUndo, EndExtract, EndTidy, At
  <2>3. script'.pc \in Off
    BY <1>1, <2>1, GoToFacts DEF Busy
  <2>4. QED
    BY <1>4, <2>1, <2>2, <2>3
<1>24. CASE MoveAside
  <2>1. /\ UNCHANGED <<server, left>> /\ script'.pc = "extract" /\ script.pc = "move"
    BY <1>1, <1>24 DEF MoveAside, At, Script
  <2>2. QED
    BY <1>4, <2>1
<1>25. CASE PutBack \/ PutInside
  <2>1. /\ server' = server /\ left' = left \cup Stopped /\ script.pc = "putback"
    BY <1>25 DEF PutBack, PutInside, At
  <2>2. QED
    BY <1>1, <1>4, <2>1
<1>26. CASE StartServer
  <2>1. /\ server'.up = server.up /\ server'.unit = "on"
        /\ server'.saving = server.saving /\ script.pc = "start"
        /\ left' = left \ {"service"}
    BY <1>1, <1>26 DEF StartServer, At, Server
  <2>2. Lost => "saving" \in left'
    BY <2>1
  <2>3. QED
    BY <1>2, <1>3, <2>1, <2>2
<1>27. CASE Kill
  <2>1. /\ server' = server
        /\ left' = left \cup (Stopped \cup (IF server.saving THEN {} ELSE {"saving"}))
    BY <1>27 DEF Kill, Abandon
  <2>2. QED
    BY <1>1, <1>4, <2>1
<1>28. CASE UNCHANGED vars
  BY <1>4, <1>28 DEF vars
<1>29. QED
  BY <1>6, <1>7, <1>8, <1>9, <1>10, <1>11, <1>12, <1>13, <1>14, <1>15, <1>16,
     <1>17, <1>18, <1>19, <1>20, <1>21, <1>22, <1>23, <1>24, <1>25, <1>26, <1>27,
     <1>28
  DEF Next

(* An archive that a script leaves is one: its files are a tree.           *)
LEMMA MadeArchive ==
    ASSUME TypeOK, NEW whole \in BOOLEAN
    PROVE  /\ Made(whole) \in Archive
           /\ Made(whole).whole = whole /\ Made(whole).files = script.arch
           /\ Made(whole).touched = script.touched
           /\ Made(whole).since = script.since
  BY DEF TypeOK, Script, Archive, Made

(* A new archive in front of the others: sound when it is, and what last   *)
(* passed its checks is still there.                                       *)
LEMMA ArchiveAdded ==
    ASSUME TypeOK, ArchiveSound, LastBackupKept, NEW a \in Archive,
           a.whole /\ ~a.touched => a.files = All(a.since),
           archives' = <<a>> \o archives, made' = made
    PROVE  /\ archives' \in Seq(Archive) /\ Len(archives') = Len(archives) + 1
           /\ ArchiveSound' /\ LastBackupKept'
<1>1. archives \in Seq(Archive) /\ Len(archives) \in Nat
  BY DEF TypeOK
<1>2. /\ archives' \in Seq(Archive) /\ Len(archives') = Len(archives) + 1
      /\ archives'[1] = a
      /\ \A i \in 2..(Len(archives) + 1) : archives'[i] = archives[i - 1]
  BY <1>1, Prepended
<1>3. DOMAIN archives = 1..Len(archives) /\ DOMAIN archives' = 1..(Len(archives) + 1)
  BY <1>1, <1>2
<1>4. ASSUME NEW i \in DOMAIN archives'
      PROVE  archives'[i].whole /\ ~archives'[i].touched
                => archives'[i].files = All(archives'[i].since)
  <2>1. CASE i = 1
    BY <1>2, <2>1
  <2>2. CASE i # 1
    <3>1. i - 1 \in DOMAIN archives /\ archives'[i] = archives[i - 1]
      BY <1>1, <1>2, <1>3, <2>2
    <3>2. QED
      BY <3>1 DEF ArchiveSound
  <2>3. QED
    BY <2>1, <2>2
<1>5. ArchiveSound'
  BY <1>4 DEF ArchiveSound, All
<1>6. LastBackupKept'
  <2>1. SUFFICES ASSUME made # None PROVE made \in Range(archives')
    BY DEF LastBackupKept
  <2>2. PICK i \in DOMAIN archives : made = archives[i]
    BY <2>1 DEF LastBackupKept, Range
  <2>3. i + 1 \in DOMAIN archives' /\ archives'[i + 1] = archives[i]
    BY <1>1, <1>2, <1>3
  <2>4. QED
    BY <2>2, <2>3 DEF Range
<1>7. QED
  BY <1>2, <1>5, <1>6

(* Only the end of a tar, a kill during one and the rotation touch the     *)
(* archives; the rotation leaves the one that passed its checks last.      *)
LEMMA ArchivesStep ==
    ASSUME TypeOK, TarInv, ArchivesInv, [Next]_vars
    PROVE  archives' \in Seq(Archive) /\ made' \in Archive \cup {None} /\ ArchivesInv'
<1> DEFINE Goal == /\ archives' \in Seq(Archive) /\ made' \in Archive \cup {None}
                   /\ ArchivesInv'
           Late  == {"check", "rotate"}
<1>1. /\ archives \in Seq(Archive) /\ made \in Archive \cup {None}
      /\ Len(archives) \in Nat /\ Keep \in Nat \ {0}
      /\ trouble \in Nat /\ trouble' \in Nat /\ trouble <= trouble'
      /\ script \in Script
      /\ script.op = "none" => script.pc = "end"
  BY ServerTypes, BackupAssumption DEF TypeOK
<1>2. /\ Len(archives) <= Keep + trouble + (IF script.pc \in Late THEN 1 ELSE 0)
      /\ script.pc \in Late => archives # <<>>
      /\ script.pc = "rotate" => made = archives[1]
      /\ ArchiveSound /\ LastBackupKept
  BY DEF ArchivesInv
<1>3. ASSUME archives' \in Seq(Archive), made' \in Archive \cup {None},
             Len(archives') <= Keep + trouble' + (IF script'.pc \in Late THEN 1 ELSE 0),
             script'.pc \in Late => archives' # <<>>,
             script'.pc = "rotate" => made' = archives'[1],
             ArchiveSound', LastBackupKept'
      PROVE  Goal
  BY <1>3 DEF ArchivesInv
<1>4. ASSUME UNCHANGED <<archives, made>>
      PROVE  ArchiveSound' /\ LastBackupKept'
  BY <1>2, <1>4 DEF ArchiveSound, LastBackupKept, All
<1>5. ASSUME UNCHANGED <<archives, made>>, script.pc \notin Late,
             script'.pc \notin Late
      PROVE  Goal
  <2>1. Len(archives') <= Keep + trouble'
    BY <1>1, <1>2, <1>5
  <2>2. QED
    BY <1>1, <1>3, <1>4, <1>5, <2>1
<1>6. ASSUME UNCHANGED <<archives, made>>, script'.pc = script.pc PROVE Goal
  <2>1. Len(archives') <= Keep + trouble' + (IF script'.pc \in Late THEN 1 ELSE 0)
    BY <1>1, <1>2, <1>6
  <2>2. QED
    BY <1>1, <1>2, <1>3, <1>4, <1>6, <2>1
<1>7. CASE Play \/ Autosave \/ Boot \/ TidyInside
  BY <1>6, <1>7 DEF Play, Autosave, Boot, TidyInside, ours
<1>8. ASSUME NEW f \in File, WriteOut(f) \/ Undo(f) \/ Tidy(f) PROVE Goal
  BY <1>6, <1>8 DEF WriteOut, Undo, Tidy, ours
<1>9. CASE Crash \/ Restart
  <2>1. UNCHANGED <<archives, made>>
    BY <1>9 DEF Crash, Restart, ours
  <2>2. script'.pc = script.pc
    BY <1>1, <1>9, CrashFacts, TouchFacts DEF Restart
  <2>3. QED
    BY <1>6, <2>1, <2>2
<1>10. ASSUME StartBackup \/ \E i \in DOMAIN archives : StartRestore(i) PROVE Goal
  <2>1. UNCHANGED <<archives, made>> /\ script.pc \notin Late
    BY <1>1, <1>10 DEF StartBackup, StartRestore, ours
  <2>2. script'.pc = "off"
    BY <1>10, NoScriptFacts DEF StartBackup, StartRestore, Script
  <2>3. QED
    BY <1>5, <2>1, <2>2
<1>11. CASE SaveOff \/ SaveOffFails \/ SaveAllFails \/ TarFails
  <2>1. UNCHANGED <<archives, made>> /\ script.pc \notin Late
    BY <1>11 DEF SaveOff, SaveOffFails, SaveAllFails, TarFails, At, ours
  <2>2. script' = NoScript \/ \E p \in Busy \ Late : GoTo(p) \/ Turn(p)
    BY <1>11 DEF SaveOff, SaveOffFails, SaveAllFails, TarFails, Busy
  <2>3. script'.pc \notin Late
    BY <1>1, <2>2, GoToFacts, TurnFacts, NoScriptFacts
  <2>4. QED
    BY <1>5, <2>1, <2>3
<1>12. CASE SaveAll \/ Settle \/ Stop \/ MoveAside
  <2>1. UNCHANGED <<archives, made>> /\ script.pc \notin Late
    BY <1>12 DEF SaveAll, Settle, Stop, MoveAside, At, ours
  <2>2. script'.pc \in {"settle", "tar", "stopped", "extract"}
    BY <1>1, <1>12 DEF SaveAll, Settle, Stop, MoveAside, Script
  <2>3. QED
    BY <1>5, <2>1, <2>2
<1>13. ASSUME NEW f \in File, TarFile(f) \/ Extract(f) PROVE Goal
  <2>1. UNCHANGED <<archives, made>>
    BY <1>13 DEF TarFile, Extract, ours
  <2>2. script'.pc = script.pc
    BY <1>1, <1>13 DEF TarFile, Extract, Script
  <2>3. QED
    BY <1>6, <2>1, <2>2
<1>14. CASE EndSafetyTar \/ StopKills \/ Confirm \/ ExtractFails \/ EndUndo
  <2>1. UNCHANGED <<archives, made>> /\ script.pc \notin Late
    BY <1>14 DEF EndSafetyTar, StopKills, Confirm, ExtractFails, EndUndo, At, ours
  <2>2. \E p \in Busy \ Late : GoTo(p) \/ Turn(p)
    BY <1>14 DEF EndSafetyTar, StopKills, Confirm, ExtractFails, EndUndo, Busy
  <2>3. script'.pc \notin Late
    BY <1>1, <2>2, GoToFacts, TurnFacts
  <2>4. QED
    BY <1>5, <2>1, <2>3
<1>15. CASE EndExtract \/ EndTidy \/ SafetySaveOn
  <2>1. UNCHANGED <<archives, made>> /\ script.pc \notin Late
    BY <1>15 DEF EndExtract, EndTidy, SafetySaveOn, SaveOn, At, ours
  <2>2. \E p \in Busy \ Late : GoTo(p)
    BY <1>15 DEF EndExtract, EndTidy, SafetySaveOn, SaveOn, GoTo, Busy
  <2>3. script'.pc \notin Late
    BY <1>1, <2>2, GoToFacts
  <2>4. QED
    BY <1>5, <2>1, <2>3
<1>16. CASE Exit \/ PutBack \/ PutInside \/ StartServer
  <2>1. /\ UNCHANGED <<archives, made>> /\ script.pc \notin Late
        /\ script' = NoScript
    BY <1>16 DEF Exit, SaveOn, PutBack, PutInside, StartServer, At, ours
  <2>2. QED
    BY <1>5, <2>1, NoScriptFacts
<1>17. CASE Refuse \/ StepFails
  <2>1. /\ UNCHANGED <<archives, made>> /\ script.pc \notin Late
        /\ script' = NoScript
    BY <1>17 DEF Refuse, StepFails, Quit, Abandon, At, ours
  <2>2. QED
    BY <1>5, <2>1, NoScriptFacts
<1>18. CASE EndTar
  <2>1. /\ script.pc = "tar" /\ script.todo = {} /\ Turn("check")
        /\ archives' = <<Made(TRUE)>> \o archives /\ made' = made
    BY <1>18 DEF EndTar, At
  <2>2. script'.pc = "check"
    BY <1>1, <2>1, TurnFacts DEF Busy
  <2>3. ~script.touched => \A f \in File : script.arch[f] = script.since
    BY <2>1 DEF TarInv
  <2>4. ~script.touched => script.arch = All(script.since)
    BY <1>1, <2>3 DEF Script, Tree, All
  <2>5. /\ archives' \in Seq(Archive) /\ Len(archives') = Len(archives) + 1
        /\ ArchiveSound' /\ LastBackupKept'
    BY <1>2, <2>1, <2>4, MadeArchive, ArchiveAdded
  <2>6. archives' # <<>>
    BY <1>1, <2>5
  <2>7. Len(archives') <= Keep + trouble' + 1
    BY <1>1, <1>2, <2>1, <2>5
  <2>8. QED
    BY <1>1, <1>3, <2>1, <2>2, <2>5, <2>6, <2>7
<1>19. CASE CheckSize
  <2>1. /\ script.pc = "check" /\ GoTo("rotate")
        /\ archives' = archives /\ made' = archives[1]
    BY <1>19 DEF CheckSize, At
  <2>2. script'.pc = "rotate"
    BY <1>1, <2>1, GoToFacts DEF Busy
  <2>3. 1 \in DOMAIN archives /\ archives[1] \in Archive
    BY <1>1, <1>2, <2>1
  <2>4. LastBackupKept'
    BY <2>1, <2>3 DEF LastBackupKept, Range
  <2>5. ArchiveSound'
    BY <1>2, <2>1 DEF ArchiveSound, All
  <2>6. Len(archives') <= Keep + trouble' + 1
    BY <1>1, <1>2, <2>1
  <2>7. QED
    BY <1>1, <1>2, <1>3, <2>1, <2>2, <2>3, <2>4, <2>5, <2>6
<1>20. CASE Undersized \/ RemoveOldFails
  <2>1. /\ UNCHANGED <<archives, made>> /\ script.pc \in Late
        /\ Turn("exit") /\ trouble' = trouble + 1
    BY <1>20 DEF Undersized, RemoveOldFails, At, Trouble, ours
  <2>2. script'.pc = "exit"
    BY <1>1, <2>1, TurnFacts DEF Busy
  <2>3. Len(archives') <= Keep + trouble'
    BY <1>1, <1>2, <2>1
  <2>4. QED
    BY <1>1, <1>3, <1>4, <2>1, <2>2, <2>3
<1>21. CASE Report
  <2>1. /\ UNCHANGED <<archives, made>> /\ Turn("exit") /\ Len(archives) <= Keep
    BY <1>21 DEF Report, ours
  <2>2. script'.pc = "exit"
    BY <1>1, <2>1, TurnFacts DEF Busy
  <2>3. Len(archives') <= Keep + trouble'
    BY <1>1, <2>1
  <2>4. QED
    BY <1>1, <1>3, <1>4, <2>1, <2>2, <2>3
<1>22. CASE RemoveOld
  <2>1. /\ archives' = Without(archives, Keep + 1) /\ Len(archives) > Keep
        /\ made' = made /\ script' = script /\ script.pc = "rotate"
    BY <1>22 DEF RemoveOld, Rotated, At
  <2>2. Keep + 1 \in Nat /\ 1 < Keep + 1 /\ Keep + 1 <= Len(archives)
    BY <1>1, <2>1
  <2>3. /\ archives' \in Seq(Archive) /\ Len(archives') = Len(archives) - 1
        /\ archives' # <<>> /\ archives'[1] = archives[1]
        /\ \A i \in DOMAIN archives' :
              \E j \in DOMAIN archives : archives'[i] = archives[j]
    BY <1>1, <2>1, <2>2, WithoutFacts
  <2>4. ArchiveSound'
    <3>1. ASSUME NEW i \in DOMAIN archives'
          PROVE  archives'[i].whole /\ ~archives'[i].touched
                    => archives'[i].files = All(archives'[i].since)
      BY <1>2, <2>3 DEF ArchiveSound
    <3>2. QED
      BY <3>1 DEF ArchiveSound, All
  <2>5. made' = archives'[1]
    BY <1>2, <2>1, <2>3
  <2>6. LastBackupKept'
    <3>1. 1 \in DOMAIN archives'
      BY <2>3
    <3>2. QED
      BY <2>5, <3>1 DEF LastBackupKept, Range
  <2>7. Len(archives') <= Keep + trouble' + 1
    BY <1>1, <1>2, <2>1, <2>3
  <2>8. QED
    BY <1>1, <1>3, <2>1, <2>3, <2>4, <2>5, <2>6, <2>7
<1>23. CASE Kill
  <2>1. /\ made' = made /\ script'.pc = "end" /\ trouble' = trouble + 1
    BY <1>23, NoScriptFacts DEF Kill, Abandon, Trouble
  <2>2. CASE At({"backup"}, "tar")
    <3>1. script.pc = "tar" /\ archives' = <<Made(FALSE)>> \o archives
      BY <1>23, <2>2 DEF Kill, At
    <3>2. /\ archives' \in Seq(Archive) /\ Len(archives') = Len(archives) + 1
          /\ ArchiveSound' /\ LastBackupKept'
      BY <1>2, <2>1, <3>1, MadeArchive, ArchiveAdded
    <3>3. Len(archives') <= Keep + trouble'
      BY <1>1, <1>2, <2>1, <3>1, <3>2
    <3>4. QED
      BY <1>1, <1>3, <2>1, <3>2, <3>3
  <2>3. CASE ~At({"backup"}, "tar")
    <3>1. archives' = archives
      BY <1>23, <2>3 DEF Kill
    <3>2. Len(archives') <= Keep + trouble'
      BY <1>1, <1>2, <2>1, <3>1
    <3>3. QED
      BY <1>1, <1>3, <1>4, <2>1, <3>1, <3>2
  <2>4. QED
    BY <2>2, <2>3
<1>24. CASE UNCHANGED vars
  BY <1>6, <1>24 DEF vars
<1>25. QED
  BY <1>7, <1>8, <1>9, <1>10, <1>11, <1>12, <1>13, <1>14, <1>15, <1>16, <1>17,
     <1>18, <1>19, <1>20, <1>21, <1>22, <1>23, <1>24
  DEF Next

(* The pieces together.                                                    *)
LEMMA TypeStep ==
    ASSUME TypeOK, TarInv, ArchivesInv, [Next]_vars
    PROVE  TypeOK'
<1>1. /\ Keep \in Nat /\ MaxTrouble \in Nat /\ trouble' \in 0..MaxTrouble
      /\ Len(archives') \in Nat
      /\ Len(archives') <= Keep + trouble'
                             + (IF script'.pc \in {"check", "rotate"} THEN 1 ELSE 0)
  BY ServerTypes, ArchivesStep, BackupAssumption DEF ArchivesInv
<1>2. Len(archives') <= Keep + MaxTrouble + 1
  BY <1>1
<1>3. QED
  BY <1>1, <1>2, ServerTypes, ScriptTypes, TreeTypes, ArchivesStep DEF TypeOK

(* Until a world with a level.dat is extracted the one that was there lies *)
(* elsewhere, and what is in the way of the replacement is the daily       *)
(* restart after is-active.                                                *)
LEMMA WorldStep ==
    ASSUME TypeOK, ServerInv, WorldInv, [Next]_vars
    PROVE  WorldInv'
<1> DEFINE Hands == {"move", "extract", "undo", "putback", "tidy", "start"}
           Exact == \A f \in File : f \in script.todo \/ world[f] = script.from[f]
<1>1. /\ script \in Script /\ server \in Server /\ world \in Tree /\ aside \in Tree
      /\ Level \in File /\ Missing[Level] = None
      /\ server.pending # {} => server.up
      /\ script.op = "none" => script.pc = "end"
      /\ aside # Missing => script.pc \in {"extract", "undo", "putback", "tidy"}
      /\ strays \subseteq Tree /\ inside \subseteq Tree
      /\ Replacing <=> script.pc \in Hands
      /\ Replacing' <=> script'.pc \in Hands
  BY BackupAssumption DEF TypeOK, Missing, Replacing, Moved
<1>2. /\ script.op = "restore" => script.from[Level] # None
      /\ script.pc = "extract" /\ Level \notin script.todo => world[Level] # None
      /\ script.pc \in {"tidy", "start"} => world[Level] # None
      /\ script.pc \in Hands /\ ~script.overlapped => ~server.up /\ server.unit = "inactive"
      /\ script.pc \in {"extract", "tidy", "start"} /\ ~script.overlapped => Exact
      /\ script.pc \in {"tidy", "start"} => script.todo = {}
      /\ script.pc \in {"extract", "undo", "putback"} => Elsewhere
      /\ world[Level] = None => Elsewhere
  BY <1>1 DEF WorldInv, WorldKept
<1>3. ASSUME script'.op = "restore" => script'.from[Level] # None,
             script'.pc = "extract" /\ Level \notin script'.todo => world'[Level] # None,
             script'.pc \in {"tidy", "start"} => world'[Level] # None,
             script'.pc \in Hands /\ ~script'.overlapped
                => ~server'.up /\ server'.unit = "inactive",
             script'.pc \in {"extract", "tidy", "start"} /\ ~script'.overlapped => Exact',
             script'.pc \in {"tidy", "start"} => script'.todo = {},
             script'.pc \in {"extract", "undo", "putback"} => Elsewhere',
             world'[Level] = None => Elsewhere'
      PROVE  WorldInv'
  BY <1>1, <1>3 DEF WorldInv, WorldKept
<1>4. ASSUME UNCHANGED dirs PROVE Elsewhere <=> Elsewhere'
  BY <1>4 DEF Elsewhere, dirs
<1>5. ASSUME script'.pc = script.pc, script'.op = script.op,
             script'.from = script.from, script'.todo = script.todo,
             script'.overlapped = script.overlapped,
             Elsewhere => Elsewhere', world'[Level] = None => world[Level] = None,
             script.pc \in Hands /\ ~script.overlapped =>
                server'.up = server.up /\ server'.unit = server.unit /\ world' = world
      PROVE  WorldInv'
  BY <1>2, <1>3, <1>5
<1>6. ASSUME script'.pc \notin Hands,
             script'.op = "restore" => script.op = "restore" /\ script'.from = script.from,
             world'[Level] = None => Elsewhere'
      PROVE  WorldInv'
  BY <1>2, <1>3, <1>6
<1>7. ASSUME UNCHANGED <<world, dirs>>, script'.pc \notin Hands,
             script'.op = "restore" => script.op = "restore" /\ script'.from = script.from
      PROVE  WorldInv'
  BY <1>2, <1>4, <1>6, <1>7
<1>8. CASE Play \/ Autosave
  <2>1. /\ server.up /\ server'.up = server.up /\ server'.unit = server.unit
        /\ UNCHANGED <<script, world, dirs>>
    BY <1>1, <1>8, FlushFacts DEF Play, Autosave, Server
  <2>2. QED
    BY <1>4, <1>5, <2>1
<1>9. ASSUME NEW f \in File, WriteOut(f) PROVE WorldInv'
  <2>1. /\ server.up /\ UNCHANGED <<script, strays, inside>>
        /\ world'[Level] = None => world[Level] = None
        /\ aside'[Level] = None => aside[Level] = None
    BY <1>1, <1>9, WriteFacts DEF WriteOut
  <2>2. Elsewhere => Elsewhere'
    BY <2>1 DEF Elsewhere
  <2>3. QED
    BY <1>2, <1>5, <2>1, <2>2
<1>10. CASE Crash
  <2>1. UNCHANGED <<world, dirs>>
    BY <1>10 DEF Crash
  <2>2. /\ script'.pc = script.pc /\ script'.op = script.op
        /\ script'.from = script.from /\ script'.todo = script.todo
        /\ script'.overlapped = script.overlapped
    BY <1>1, <1>10, CrashFacts
  <2>3. script.pc \in Hands => script.overlapped
    BY <1>2, <1>10 DEF Crash
  <2>4. QED
    BY <1>4, <1>5, <2>1, <2>2, <2>3
<1>11. CASE Restart
  <2>1. UNCHANGED dirs /\ (world'[Level] = None => world[Level] = None)
    BY <1>1, <1>11, SavedFacts DEF Restart
  <2>2. /\ script'.pc = script.pc /\ script'.op = script.op
        /\ script'.from = script.from /\ script'.todo = script.todo
        /\ script.pc \in Hands => script'.overlapped
    BY <1>1, <1>11, TouchFacts DEF Restart
  <2>3. QED
    BY <1>2, <1>3, <1>4, <2>1, <2>2
<1>12. CASE Boot
  <2>1. server.unit = "on" /\ UNCHANGED <<script, world, dirs>>
    BY <1>12 DEF Boot
  <2>2. QED
    BY <1>2, <1>4, <1>5, <2>1
<1>13. CASE StartBackup
  <2>1. /\ UNCHANGED <<world, dirs>> /\ script'.pc = "off" /\ script'.op = "backup"
    BY <1>13, NoScriptFacts DEF StartBackup, Script
  <2>2. QED
    BY <1>7, <2>1
<1>14. ASSUME NEW i \in DOMAIN archives, StartRestore(i) PROVE WorldInv'
  <2>1. /\ UNCHANGED <<world, dirs>> /\ script'.pc = "off"
        /\ script'.from = archives[i].files /\ archives[i].files[Level] # None
    BY <1>14, NoScriptFacts DEF StartRestore, Script
  <2>2. QED
    BY <1>2, <1>3, <1>4, <2>1
<1>15. CASE SaveOff \/ SaveOffFails \/ SaveAllFails \/ TarFails \/ EndTar
  <2>1. UNCHANGED <<world, dirs>>
    BY <1>15 DEF SaveOff, SaveOffFails, SaveAllFails, TarFails, EndTar
  <2>2. script' = NoScript \/ \E p \in Busy \ Hands : GoTo(p) \/ Turn(p)
    BY <1>15 DEF SaveOff, SaveOffFails, SaveAllFails, TarFails, EndTar, Busy
  <2>3. /\ script'.pc \notin Hands
        /\ script'.op = "restore" => script.op = "restore" /\ script'.from = script.from
    BY <1>1, <2>2, GoToFacts, TurnFacts, NoScriptFacts
  <2>4. QED
    BY <1>7, <2>1, <2>3
<1>16. CASE SaveAll \/ Settle
  <2>1. UNCHANGED <<world, dirs>>
    BY <1>16 DEF SaveAll, Settle
  <2>2. /\ script'.pc \in {"settle", "tar"} /\ script'.op = script.op
        /\ script'.from = script.from
    BY <1>1, <1>16 DEF SaveAll, Settle, Script
  <2>3. QED
    BY <1>7, <2>1, <2>2
<1>17. ASSUME NEW f \in File, TarFile(f) PROVE WorldInv'
  <2>1. UNCHANGED <<world, dirs>> /\ script.pc = "tar"
    BY <1>17 DEF TarFile, At
  <2>2. script'.pc = script.pc /\ script'.op = script.op /\ script'.from = script.from
    BY <1>1, <1>17 DEF TarFile, Script
  <2>3. QED
    BY <1>7, <2>1, <2>2
<1>18. CASE CheckSize \/ Undersized \/ RemoveOldFails \/ Report
  <2>1. UNCHANGED <<world, dirs>>
    BY <1>18 DEF CheckSize, Undersized, RemoveOldFails, Report
  <2>2. \E p \in Busy \ Hands : GoTo(p) \/ Turn(p)
    BY <1>18 DEF CheckSize, Undersized, RemoveOldFails, Report, Busy
  <2>3. /\ script'.pc \notin Hands /\ script'.op = script.op
        /\ script'.from = script.from
    BY <1>1, <2>2, GoToFacts, TurnFacts
  <2>4. QED
    BY <1>7, <2>1, <2>3
<1>19. CASE RemoveOld
  BY <1>7, <1>19 DEF RemoveOld, At
<1>20. CASE EndSafetyTar \/ SafetySaveOn
  <2>1. UNCHANGED <<world, dirs>>
    BY <1>20 DEF EndSafetyTar, SafetySaveOn, SaveOn
  <2>2. \E p \in Busy \ Hands : GoTo(p) \/ Turn(p)
    BY <1>20 DEF EndSafetyTar, SafetySaveOn, SaveOn, GoTo, Busy
  <2>3. /\ script'.pc \notin Hands /\ script'.op = script.op
        /\ script'.from = script.from
    BY <1>1, <2>2, GoToFacts, TurnFacts
  <2>4. QED
    BY <1>7, <2>1, <2>3
<1>21. CASE Exit \/ StartServer
  <2>1. UNCHANGED <<world, dirs>> /\ script' = NoScript
    BY <1>21 DEF Exit, SaveOn, StartServer
  <2>2. QED
    BY <1>7, <2>1, NoScriptFacts
<1>22. CASE Stop \/ StopKills
  <2>1. UNCHANGED dirs /\ (world'[Level] = None => world[Level] = None)
    BY <1>1, <1>22, SavedFacts DEF Stop, StopKills
  <2>2. /\ script'.pc = "stopped" /\ script'.op = script.op
        /\ script'.from = script.from
    <3>1. CASE Stop
      BY <1>1, <3>1 DEF Stop, Script
    <3>2. CASE StopKills
      BY <1>1, <3>2, GoToFacts DEF StopKills, Busy
    <3>3. QED
      BY <1>22, <3>1, <3>2
  <2>3. QED
    BY <1>2, <1>4, <1>6, <2>1, <2>2
<1>23. CASE Refuse \/ StepFails \/ Kill
  <2>1. world' = world /\ \E off : Abandon(off)
    BY <1>23 DEF Refuse, StepFails, Kill, Quit
  <2>2. /\ script' = NoScript
        /\ strays \cup inside \subseteq strays' \cup inside'
        /\ aside # Missing => aside \in strays'
    BY <2>1, AbandonFacts
  <2>3. Elsewhere => Elsewhere'
    BY <1>1, <2>2 DEF Elsewhere
  <2>4. QED
    BY <1>2, <1>6, <2>1, <2>2, <2>3, NoScriptFacts
<1>24. CASE Confirm
  <2>1. /\ UNCHANGED <<server, world, dirs>> /\ GoTo("move")
        /\ server.unit = "inactive"
    BY <1>24 DEF Confirm
  <2>2. /\ script'.pc = "move" /\ script'.op = script.op
        /\ script'.from = script.from
    BY <1>1, <2>1, GoToFacts DEF Busy
  <2>3. ~server.up
    BY <2>1 DEF ServerInv
  <2>4. QED
    BY <1>2, <1>3, <1>4, <2>1, <2>2, <2>3
<1>25. CASE MoveAside
  <2>1. /\ UNCHANGED <<server, strays, inside>> /\ script.pc = "move"
        /\ aside' = world /\ world' = Missing
    BY <1>25 DEF MoveAside, At
  <2>2. /\ script'.pc = "extract" /\ script'.todo = File /\ script'.op = script.op
        /\ script'.from = script.from /\ script'.overlapped = script.overlapped
    BY <1>1, <1>25 DEF MoveAside, Script
  <2>3. Elsewhere'
    BY <1>1, <1>2, <2>1 DEF Elsewhere
  <2>4. QED
    BY <1>1, <1>2, <1>3, <2>1, <2>2, <2>3
<1>26. ASSUME NEW f \in File, Extract(f) PROVE WorldInv'
  <2>1. /\ script.pc = "extract" /\ script.op = "restore" /\ UNCHANGED <<server, dirs>>
        /\ world' = [world EXCEPT ![f] = script.from[f]]
    BY <1>26 DEF Extract, At
  <2>2. /\ script'.pc = "extract" /\ script'.todo = script.todo \ {f}
        /\ script'.op = script.op /\ script'.from = script.from
        /\ script'.overlapped = script.overlapped
    BY <1>1, <1>26, <2>1 DEF Extract, Script
  <2>3. /\ world'[f] = script.from[f]
        /\ \A g \in File : g # f => world'[g] = world[g]
    BY <1>1, <2>1 DEF Tree
  <2>4. Exact => Exact'
    BY <2>2, <2>3
  <2>5. Level \notin script'.todo => world'[Level] # None
    BY <1>1, <1>2, <2>1, <2>2, <2>3
  <2>6. QED
    BY <1>2, <1>3, <1>4, <2>1, <2>2, <2>4, <2>5
<1>27. CASE ExtractFails \/ EndUndo
  <2>1. /\ UNCHANGED <<server, world, dirs>> /\ script.pc \in {"extract", "undo"}
        /\ \E p \in {"undo", "putback"} : GoTo(p)
    BY <1>27 DEF ExtractFails, EndUndo, At
  <2>2. /\ script'.pc \in {"undo", "putback"} /\ script'.op = script.op
        /\ script'.from = script.from /\ script'.overlapped = script.overlapped
    BY <1>1, <2>1, GoToFacts DEF Busy
  <2>3. QED
    BY <1>2, <1>3, <1>4, <2>1, <2>2
<1>28. ASSUME NEW f \in File, Undo(f) PROVE WorldInv'
  <2>1. script.pc = "undo" /\ UNCHANGED <<server, dirs, script>>
    BY <1>28 DEF Undo, At
  <2>2. QED
    BY <1>2, <1>3, <1>4, <2>1
<1>29. CASE PutBack
  <2>1. /\ script.pc = "putback" /\ world' = aside /\ script' = NoScript
        /\ UNCHANGED <<strays, inside>>
    BY <1>29 DEF PutBack, At
  <2>2. world'[Level] = None => Elsewhere'
    BY <1>2, <2>1 DEF Elsewhere
  <2>3. QED
    BY <1>6, <2>1, <2>2, NoScriptFacts
<1>30. CASE PutInside
  <2>1. /\ world' = world /\ strays' = strays /\ script' = NoScript
        /\ inside' = inside \cup ({aside} \ {Missing})
    BY <1>30 DEF PutInside
  <2>2. Elsewhere => Elsewhere'
    BY <1>1, <2>1 DEF Elsewhere
  <2>3. QED
    BY <1>2, <1>6, <2>1, <2>2, NoScriptFacts
<1>31. CASE EndExtract
  <2>1. /\ script.pc = "extract" /\ script.todo = {}
        /\ UNCHANGED <<server, world, dirs>> /\ GoTo("tidy")
    BY <1>31 DEF EndExtract, At
  <2>2. /\ script'.pc = "tidy" /\ script'.todo = {} /\ script'.op = script.op
        /\ script'.from = script.from /\ script'.overlapped = script.overlapped
    BY <1>1, <2>1, GoToFacts DEF Busy
  <2>3. Exact => Exact'
    BY <2>1, <2>2
  <2>4. QED
    BY <1>2, <1>3, <1>4, <2>1, <2>2, <2>3
<1>32. ASSUME TidyInside \/ \E f \in File : Tidy(f) PROVE WorldInv'
  <2>1. script.pc = "tidy" /\ UNCHANGED <<server, world, script>>
    BY <1>32 DEF TidyInside, Tidy, At
  <2>2. QED
    BY <1>2, <1>3, <2>1
<1>33. CASE EndTidy
  <2>1. /\ script.pc = "tidy" /\ UNCHANGED <<server, world, dirs>> /\ GoTo("start")
    BY <1>33 DEF EndTidy, At
  <2>2. /\ script'.pc = "start" /\ script'.todo = script.todo
        /\ script'.op = script.op /\ script'.from = script.from
        /\ script'.overlapped = script.overlapped
    BY <1>1, <2>1, GoToFacts DEF Busy
  <2>3. Exact => Exact'
    BY <2>1, <2>2
  <2>4. QED
    BY <1>2, <1>3, <2>1, <2>2, <2>3
<1>34. CASE UNCHANGED vars
  <2>1. UNCHANGED <<server, script, world, dirs>>
    BY <1>34 DEF vars, dirs
  <2>2. QED
    BY <1>4, <1>5, <2>1
<1>35. QED
  BY <1>8, <1>9, <1>10, <1>11, <1>12, <1>13, <1>14, <1>15, <1>16, <1>17, <1>18, <1>19,
     <1>20, <1>21, <1>22, <1>23, <1>24, <1>25, <1>26, <1>27, <1>28, <1>29, <1>30,
     <1>31, <1>32, <1>33, <1>34
  DEF Next

LEMMA InitBackup == Init => BackupInv
<1> SUFFICES ASSUME Init PROVE BackupInv
  OBVIOUS
<1>1. /\ Keep \in Nat \ {0} /\ MaxTrouble \in Nat /\ MaxStamp \in Nat
      /\ 0 \in Stamp /\ 0 # None /\ Level \in File
  BY BackupAssumption DEF Stamp
<1>2. All(0) \in Tree /\ Missing \in Tree
  BY <1>1 DEF All, Missing, Tree
<1>3. server \in Server /\ server.up /\ server.unit = "on" /\ server.saving
      /\ server.pending = {}
  BY <1>1 DEF Init, Server
<1>4. archives = <<>> /\ Len(archives) = 0 /\ archives \in Seq(Archive)
      /\ DOMAIN archives = {}
  BY DEF Init
<1>5. TypeOK
  BY <1>1, <1>2, <1>3, <1>4, NoScriptFacts DEF Init, TypeOK
<1>6. ServerInv /\ TarInv
  BY <1>3, NoScriptFacts DEF Init, ServerInv, TarInv
<1>7. WorldInv
  BY <1>1, NoScriptFacts DEF Init, WorldInv, WorldKept, Replacing, All
<1>8. ArchivesInv
  BY <1>1, <1>4, NoScriptFacts DEF Init, ArchivesInv, ArchiveSound, LastBackupKept
<1>9. QED
  BY <1>5, <1>6, <1>7, <1>8 DEF BackupInv

LEMMA StepBackup == BackupInv /\ [Next]_vars => BackupInv'
  BY TypeStep, ServerStep, TarStep, WorldStep, ArchivesStep DEF BackupInv

(* The inductive invariant holds in every reachable state of the scripts,  *)
(* the server and its service.                                             *)
THEOREM BackupInductive == Spec => []BackupInv
  BY InitBackup, StepBackup, PTL DEF Spec

(* backup.sh, restore.sh and the service stay within their types: a file   *)
(* of the world is one stamp old or absent, the archives stay as many as   *)
(* are kept and one for each run that failed, and a world is in the hands  *)
(* of a restore only while it is being replaced.                           *)
THEOREM BackupTypeCorrect == Spec => []TypeOK
<1>1. BackupInv => TypeOK
  BY DEF BackupInv
<1>2. QED
  BY <1>1, BackupInductive, PTL

(* backup.sh: an archive that tar wrote to its end is the world as its     *)
(* save-all found it, every file of the same moment, unless the server     *)
(* went down under the script or needed more than the five seconds.        *)
THEOREM BackupArchiveSound == Spec => []ArchiveSound
<1>1. BackupInv => ArchiveSound
  BY DEF BackupInv, ArchivesInv
<1>2. QED
  BY <1>1, BackupInductive, PTL

(* on_exit of backup.sh and the error paths of restore.sh: the ways a run  *)
(* can leave a running server not saving are a kill, a refused save-on and *)
(* an unanswered save-off of a restore; those that leave the service off   *)
(* are a kill and an error of a restore after its stop.                    *)
THEOREM BackupNothingLeftOff == Spec => []NothingLeftOff
<1>1. BackupInv => NothingLeftOff
  BY DEF BackupInv, TypeOK, ServerInv, Replacing, NothingLeftOff
<1>2. QED
  BY <1>1, BackupInductive, PTL

(* restore.sh: the service is started on exactly the archived world, all   *)
(* its files and no other's, unless the daily restart started it between   *)
(* is-active and the end of the same run.                                  *)
THEOREM BackupRestoredWhole == Spec => []RestoredWhole
<1>1. BackupInv => RestoredWhole
  <2>1. SUFFICES ASSUME BackupInv, script.pc = "start", ~script.overlapped
                 PROVE  world = script.from
    BY DEF RestoredWhole
  <2>2. world \in Tree /\ script.from \in Tree
    BY <2>1 DEF BackupInv, TypeOK, Script
  <2>3. \A f \in File : world[f] = script.from[f]
    BY <2>1 DEF BackupInv, WorldInv
  <2>4. QED
    BY <2>2, <2>3 DEF Tree
<1>2. QED
  BY <1>1, BackupInductive, PTL

(* restore.sh: whatever fails, is killed or restarted in the middle of a   *)
(* restore, while server/world has no level.dat a moved-aside world has.   *)
THEOREM BackupWorldKept == Spec => []WorldKept
<1>1. BackupInv => WorldKept
  BY DEF BackupInv, WorldInv
<1>2. QED
  BY <1>1, BackupInductive, PTL

(* The rotation of backup.sh: the archive that passed its checks last      *)
(* stays, wherever a run after it is cut short.                            *)
THEOREM BackupKeepsLast == Spec => []LastBackupKept
<1>1. BackupInv => LastBackupKept
  BY DEF BackupInv, ArchivesInv
<1>2. QED
  BY <1>1, BackupInductive, PTL

=============================================================================
