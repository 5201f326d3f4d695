-------------------------------- MODULE Backup --------------------------------
(***************************************************************************)
(* scripts/backup.sh and scripts/restore.sh beside the running game        *)
(* server, its service (Restart=on-failure) and the daily restart.         *)
(*                                                                         *)
(* The world is a few files; a file holds the stamp of the moment it was   *)
(* saved at, and a copy is consistent when all its files have one stamp.   *)
(* The server takes a stamp at once and writes the files one by one; tar   *)
(* and rm go over them one by one too.  One script at a time holds         *)
(* .backup.lock; the daily restart does not ask for it.  The accounts      *)
(* snapshot and the CA files ride along in the archive: only their errors  *)
(* are here.                                                               *)
(***************************************************************************)
EXTENDS Naturals, Sequences, SequencesExt

CONSTANTS
    File,       \* the files of server/world
    Level,      \* level.dat among them: what makes the directory a world
    None,       \* no such file; no archive
    Keep,       \* BACKUP_KEEP
    MaxStamp,   \* bound: changes of the world
    MaxTrouble  \* bound: crashes, kills, restarts, errors

VARIABLES
    server,   \* the game server and its service
    world,    \* server/world on disk
    aside,    \* the server/world.pre-restore-* of the running restore
    strays,   \* those that ended restores have left behind
    inside,   \* those that mv put inside server/world; they move along with it
    archives, \* the world-*.tar.zst, newest first
    pre,      \* the latest pre-restore-*.tar.zst
    script,   \* the running backup.sh or restore.sh
    made,     \* history: the last archive that passed its checks
    clock,    \* history: the last stamp
    left,     \* history: what a script could not switch on again
    trouble

vars == <<server, world, aside, strays, inside, archives, pre, script, made,
          clock, left, trouble>>
dirs == <<aside, strays, inside>>
ours == <<archives, pre, made>>

ASSUME BackupAssumption ==
    /\ Keep \in Nat \ {0} /\ MaxStamp \in Nat /\ MaxTrouble \in Nat
    /\ Level \in File /\ None \notin 0..MaxStamp

Stamp   == 0..MaxStamp
Tree    == [File -> Stamp \cup {None}]
Missing == [f \in File |-> None]
All(s)  == [f \in File |-> s]
Archive == [files : Tree, whole : BOOLEAN, touched : BOOLEAN, since : Stamp]
Server  == [up : BOOLEAN, unit : {"on", "inactive", "failed"}, saving : BOOLEAN,
            mem : Stamp, cap : Stamp, pending : SUBSET File]
Script  == [op : {"none", "backup", "restore"},
            pc : {"end", "off", "all", "settle", "tar", "check", "rotate",
                  "exit", "on", "stop", "stopped", "move", "extract", "undo",
                  "putback", "tidy", "start"},
            arch : Tree, todo : SUBSET File, since : Stamp, from : Tree,
            touched : BOOLEAN,     \* the server went down, or was still writing
            overlapped : BOOLEAN]  \* restarted while the world was replaced

NoScript == [op |-> "none", pc |-> "end", arch |-> Missing, todo |-> {},
             since |-> 0, from |-> Missing, touched |-> FALSE,
             overlapped |-> FALSE]

(* From is-active to systemctl start the world is in the hands of restore.  *)
Replacing == script.pc \in {"move", "extract", "undo", "putback", "tidy", "start"}
Moved     == script.pc \in {"extract", "undo", "putback", "tidy"}

TypeOK ==
    /\ server \in Server
    /\ server.pending # {} => server.up
    /\ world \in Tree /\ aside \in Tree
    /\ strays \subseteq Tree /\ inside \subseteq Tree
    /\ archives \in Seq(Archive) /\ Len(archives) <= Keep + MaxTrouble + 1
    /\ pre \in Tree /\ made \in Archive \cup {None}
    /\ script \in Script
    /\ script.pc = "end" <=> script.op = "none"
    /\ aside # Missing => Moved
    /\ clock \in Stamp /\ trouble \in 0..MaxTrouble
    /\ left \subseteq {"saving", "service"}

Init ==
    /\ server = [up |-> TRUE, unit |-> "on", saving |-> TRUE, mem |-> 0,
                 cap |-> 0, pending |-> {}]
    /\ world = All(0) /\ aside = Missing /\ strays = {} /\ inside = {}
    /\ archives = <<>> /\ pre = Missing
    /\ script = NoScript /\ made = None /\ clock = 0 /\ left = {} /\ trouble = 0

Trouble == trouble < MaxTrouble /\ trouble' = trouble + 1
Fine    == UNCHANGED trouble
-----------------------------------------------------------------------------
(* The server: play changes the world in memory, saving takes what memory   *)
(* holds and writes it out.                                                 *)
Play ==
    /\ server.up /\ clock < MaxStamp
    /\ clock' = clock + 1
    /\ server' = [server EXCEPT !.mem = clock + 1]
    /\ UNCHANGED <<world, dirs, script, left, trouble, ours>>

Autosave ==
    /\ server.up /\ server.saving /\ server.pending = {} /\ world # All(server.mem)
    /\ server' = [server EXCEPT !.pending = File, !.cap = server.mem]
    /\ UNCHANGED <<world, dirs, script, clock, left, trouble, ours>>

(* A server that runs while its world is moved aside writes by name, or to  *)
(* a file it has had open since before.                                     *)
WriteOut(f) ==
    /\ f \in server.pending
    /\ \/ world' = [world EXCEPT ![f] = server.cap] /\ UNCHANGED aside
       \/ /\ aside # Missing /\ aside' = [aside EXCEPT ![f] = server.cap]
          /\ UNCHANGED world
    /\ server' = [server EXCEPT !.pending = @ \ {f}]
    /\ UNCHANGED <<strays, inside, script, clock, left, trouble, ours>>

Down(unit) ==
    server' = [server EXCEPT !.up = FALSE, !.unit = unit, !.pending = {}]

Stopped == IF server.unit = "on" THEN {} ELSE {"service"}

(* What a stopping server gets to save: everything, also when saving is     *)
(* off, or what it can before TimeoutStopSec.                               *)
Saved(S) ==
    IF server.up THEN [f \in File |-> IF f \in S THEN server.mem ELSE world[f]]
    ELSE world

Touch ==
    script' = IF script.op = "none" THEN script
              ELSE [script EXCEPT !.touched = TRUE, !.overlapped = @ \/ Replacing]

Crash ==
    /\ server.up /\ Trouble
    /\ Down("on")
    /\ script' = IF script.op = "none" THEN script
                 ELSE [script EXCEPT !.touched = TRUE]
    /\ UNCHANGED <<world, dirs, clock, left, ours>>

(* systemctl restart, daily; a service that is stopped or failed is started. *)
Restart ==
    /\ Trouble
    /\ Down("on") /\ Touch
    /\ \E S \in SUBSET File : world' = Saved(S)
    /\ left' = left \ {"service"}
    /\ UNCHANGED <<dirs, clock, ours>>

(* A start loads the world that is there; without level.dat it generates    *)
(* a new one.                                                               *)
Boot ==
    /\ server.unit = "on" /\ ~server.up
    /\ LET mem == IF world[Level] = None THEN clock
                  ELSE Max({world[f] : f \in File} \ {None})
       IN  server' = [server EXCEPT !.up = TRUE, !.saving = TRUE,
                                    !.mem = mem, !.cap = mem]
    /\ left' = left \ {"saving"}
    /\ UNCHANGED <<world, dirs, script, clock, trouble, ours>>
-----------------------------------------------------------------------------
(* Both scripts: the lock, then save-off, save-all, five seconds, tar.      *)
At(op, pc) == script.op \in op /\ script.pc = pc
Both       == {"backup", "restore"}
GoTo(pc)   == script' = [script EXCEPT !.pc = pc]

(* The same, with what the archive was made from forgotten.                 *)
Turn(pc) == script' = [NoScript EXCEPT !.op = script.op, !.pc = pc,
                                       !.from = script.from]

StartBackup ==
    /\ script.op = "none"
    /\ script' = [NoScript EXCEPT !.op = "backup", !.pc = "off"]
    /\ UNCHANGED <<server, world, dirs, clock, left, trouble, ours>>

(* The newest archive, or the one that was named; one that cannot be listed *)
(* to its end, or lists no level.dat, is refused and nothing is touched.    *)
StartRestore(i) ==
    /\ script.op = "none" /\ archives[i].whole /\ archives[i].files[Level] # None
    /\ script' = [NoScript EXCEPT !.op = "restore", !.pc = "off",
                                  !.from = archives[i].files]
    /\ UNCHANGED <<server, world, dirs, clock, left, trouble, ours>>

SaveOff ==
    /\ At(Both, "off") /\ server.up
    /\ server' = [server EXCEPT !.saving = FALSE]
    /\ GoTo("all")
    /\ UNCHANGED <<world, dirs, clock, left, trouble, ours>>

(* RCON does not answer when the server is down; or the answer fails, of a  *)
(* command that was carried out or not.  backup.sh ends through its trap,   *)
(* restore.sh ends at once.                                                 *)
SaveOffFails ==
    /\ At(Both, "off")
    /\ \/ ~server.up /\ Fine /\ UNCHANGED <<server, left>>
       \/ server.up /\ Trouble /\ UNCHANGED <<server, left>>
       \/ /\ server.up /\ Trouble
          /\ server' = [server EXCEPT !.saving = FALSE]
          /\ left' = IF script.op = "restore" THEN left \cup {"saving"} ELSE left
    /\ IF script.op = "restore" THEN script' = NoScript ELSE Turn("exit")
    /\ UNCHANGED <<world, dirs, clock, ours>>

(* Mutated form of Flush: saving is off, but nothing is flushed.            *)
FlushNothing == UNCHANGED server

Flush == server' = [server EXCEPT !.pending = File, !.cap = server.mem]

SaveAll ==
    /\ At(Both, "all") /\ server.up
    /\ Flush
    /\ script' = [script EXCEPT !.pc = "settle", !.since = server.mem]
    /\ UNCHANGED <<world, dirs, clock, left, trouble, ours>>

SaveAllFails ==
    /\ At(Both, "all")
    /\ \/ ~server.up /\ Fine /\ UNCHANGED server
       \/ server.up /\ Trouble /\ (Flush \/ UNCHANGED server)
    /\ Turn("exit")
    /\ UNCHANGED <<world, dirs, clock, left, ours>>

(* Five seconds; a flush that takes longer is trouble.                      *)
Settle ==
    /\ At(Both, "settle")
    /\ IF server.pending = {} THEN Fine ELSE Trouble
    /\ script' = [script EXCEPT !.pc = "tar", !.todo = File,
                                !.touched = @ \/ server.pending # {}]
    /\ UNCHANGED <<server, world, dirs, clock, left, ours>>

TarFile(f) ==
    /\ At(Both, "tar") /\ f \in script.todo /\ world # Missing
    /\ script' = [script EXCEPT !.arch[f] = world[f], !.todo = @ \ {f}]
    /\ UNCHANGED <<server, world, dirs, clock, left, trouble, ours>>

(* tar fails, or something between the flush and tar does: what there is of *)
(* the archive is removed.                                                  *)
TarFails ==
    /\ At(Both, "tar")
    /\ IF world = Missing /\ script.todo # {} THEN Fine ELSE Trouble
    /\ Turn("exit")
    /\ UNCHANGED <<server, world, dirs, clock, left, ours>>

Made(whole) == [files |-> script.arch, whole |-> whole, touched |-> script.touched,
                since |-> script.since]

EndTar ==
    /\ At({"backup"}, "tar") /\ script.todo = {}
    /\ archives' = <<Made(TRUE)>> \o archives
    /\ Turn("check")
    /\ UNCHANGED <<server, world, dirs, pre, made, clock, left, trouble>>

CheckSize ==
    /\ At({"backup"}, "check")
    /\ made' = archives[1]
    /\ GoTo("rotate")
    /\ UNCHANGED <<server, world, dirs, archives, pre, clock, left, trouble>>

(* Under 1 MB: the run fails, the archive stays and is not rotated.         *)
Undersized ==
    /\ At({"backup"}, "check") /\ Trouble
    /\ Turn("exit")
    /\ UNCHANGED <<server, world, dirs, clock, left, ours>>

Without(seq, n) == [i \in 1..(Len(seq) - 1) |-> IF i < n THEN seq[i] ELSE seq[i + 1]]

(* Mutated form of Rotated: ls -tr, the newest goes.                        *)
RotatedNewest(seq) == Without(seq, 1)

(* ls -t, the first beyond the newest BACKUP_KEEP goes.                     *)
Rotated(seq) == Without(seq, Keep + 1)

RemoveOld ==
    /\ At({"backup"}, "rotate") /\ Len(archives) > Keep
    /\ archives' = Rotated(archives)
    /\ UNCHANGED <<server, world, dirs, pre, script, made, clock, left, trouble>>

RemoveOldFails ==
    /\ At({"backup"}, "rotate") /\ Len(archives) > Keep /\ Trouble
    /\ Turn("exit")
    /\ UNCHANGED <<server, world, dirs, clock, left, ours>>

(* Backup OK.                                                               *)
Report ==
    /\ At({"backup"}, "rotate") /\ Len(archives) <= Keep
    /\ Turn("exit")
    /\ UNCHANGED <<server, world, dirs, clock, left, trouble, ours>>

(* Mutated form of Exit: no trap.                                           *)
ExitUntrapped ==
    /\ At(Both, "exit")
    /\ script' = NoScript
    /\ UNCHANGED <<server, world, dirs, clock, left, trouble, ours>>

(* on_exit, and what restore.sh does on its own errors: save-on.  It is not *)
(* answered when the server is down, and may be refused.                    *)
SaveOn(next) ==
    /\ \/ /\ server' = [server EXCEPT !.saving = IF server.up THEN TRUE ELSE @]
          /\ left' = left \ (IF server.up THEN {"saving"} ELSE {})
          /\ Fine
       \/ /\ server.up /\ Trouble
          /\ left' = left \cup {"saving"} /\ UNCHANGED server
    /\ script' = next
    /\ UNCHANGED <<world, dirs, clock, ours>>

Exit == At(Both, "exit") /\ SaveOn(NoScript)
-----------------------------------------------------------------------------
(* restore.sh from its safety archive on.                                   *)
EndSafetyTar ==
    /\ At({"restore"}, "tar") /\ script.todo = {}
    /\ pre' = script.arch
    /\ Turn("on")
    /\ UNCHANGED <<server, world, dirs, archives, made, clock, left, trouble>>

SafetySaveOn ==
    At({"restore"}, "on") /\ SaveOn([script EXCEPT !.pc = "stop"])

(* A script that ends where it is leaves the world it moved aside, with     *)
(* what is inside, and the service stopped if it is.                        *)
Abandon(off) ==
    /\ script' = NoScript
    /\ IF Moved
       THEN /\ strays' = strays \cup inside \cup ({aside} \ {Missing})
            /\ aside' = Missing /\ inside' = {}
       ELSE UNCHANGED dirs
    /\ left' = left \cup off

Quit == Abandon(Stopped)

(* A graceful stop saves; since now remembers what it saved.                *)
Stop ==
    /\ At({"restore"}, "stop")
    /\ Down("inactive") /\ world' = Saved(File)
    /\ script' = [script EXCEPT !.pc = "stopped", !.since = server.mem,
                                !.touched = FALSE]
    /\ UNCHANGED <<dirs, clock, left, trouble, ours>>

(* The server outlives TimeoutStopSec and is killed: the service has failed. *)
StopKills ==
    /\ At({"restore"}, "stop") /\ server.up /\ Trouble
    /\ Down("failed") /\ (\E S \in SUBSET File : world' = Saved(S))
    /\ GoTo("stopped")
    /\ UNCHANGED <<dirs, clock, left, ours>>

(* is-active: anything but inactive is refused.                             *)
Refuse ==
    /\ At({"restore"}, "stopped") /\ server.unit # "inactive"
    /\ Quit
    /\ UNCHANGED <<server, world, clock, trouble, ours>>

Confirm ==
    /\ At({"restore"}, "stopped") /\ server.unit = "inactive"
    /\ GoTo("move")
    /\ UNCHANGED <<server, world, dirs, clock, left, trouble, ours>>

MoveAside ==
    /\ At({"restore"}, "move") /\ world # Missing
    /\ aside' = world /\ world' = Missing
    /\ script' = [script EXCEPT !.pc = "extract", !.todo = File]
    /\ UNCHANGED <<server, strays, inside, clock, left, trouble, ours>>

Extract(f) ==
    /\ At({"restore"}, "extract") /\ f \in script.todo
    /\ world' = [world EXCEPT ![f] = script.from[f]]
    /\ script' = [script EXCEPT !.todo = @ \ {f}]
    /\ UNCHANGED <<server, dirs, clock, left, trouble, ours>>

(* Mutated form of ExtractFails: the error of tar is not looked at.         *)
ExtractFailsUnseen ==
    /\ At({"restore"}, "extract") /\ Trouble
    /\ script' = [script EXCEPT !.todo = {}]
    /\ UNCHANGED <<server, world, dirs, clock, left, ours>>

ExtractFails ==
    /\ At({"restore"}, "extract") /\ Trouble
    /\ GoTo("undo")
    /\ UNCHANGED <<server, world, dirs, clock, left, ours>>

(* rm -rf of what was extracted, then the world is put back; mv puts it     *)
(* inside a world that a started server has made meanwhile.  The service    *)
(* stays stopped.                                                           *)
Undo(f) ==
    /\ At({"restore"}, "undo") /\ world[f] # None
    /\ world' = [world EXCEPT ![f] = None]
    /\ UNCHANGED <<server, dirs, script, clock, left, trouble, ours>>

EndUndo ==
    /\ At({"restore"}, "undo") /\ world = Missing
    /\ GoTo("putback")
    /\ UNCHANGED <<server, world, dirs, clock, left, trouble, ours>>

PutBack ==
    /\ At({"restore"}, "putback") /\ world = Missing
    /\ world' = aside /\ aside' = Missing
    /\ script' = NoScript /\ left' = left \cup Stopped
    /\ UNCHANGED <<server, strays, inside, clock, trouble, ours>>

PutInside ==
    /\ At({"restore"}, "putback") /\ world # Missing
    /\ inside' = inside \cup ({aside} \ {Missing}) /\ aside' = Missing
    /\ script' = NoScript /\ left' = left \cup Stopped
    /\ UNCHANGED <<server, world, strays, clock, trouble, ours>>

(* Mutated form of EndExtract: the end of tar is not waited for.            *)
EndExtractEarly ==
    /\ At({"restore"}, "extract")
    /\ GoTo("tidy")
    /\ UNCHANGED <<server, world, dirs, clock, left, trouble, ours>>

EndExtract ==
    /\ At({"restore"}, "extract") /\ script.todo = {}
    /\ GoTo("tidy")
    /\ UNCHANGED <<server, world, dirs, clock, left, trouble, ours>>

(* rm -rf of the moved-aside world and what is inside.                      *)
Tidy(f) ==
    /\ At({"restore"}, "tidy") /\ aside[f] # None
    /\ aside' = [aside EXCEPT ![f] = None]
    /\ UNCHANGED <<server, world, strays, inside, script, clock, left, trouble, ours>>

TidyInside ==
    /\ At({"restore"}, "tidy") /\ inside # {}
    /\ inside' = {}
    /\ UNCHANGED <<server, world, aside, strays, script, clock, left, trouble, ours>>

(* Mutated form of EndTidy: the moved-aside world stays.                    *)
EndTidyKeeps ==
    /\ At({"restore"}, "tidy")
    /\ GoTo("start")
    /\ UNCHANGED <<server, world, dirs, clock, left, trouble, ours>>

EndTidy ==
    /\ At({"restore"}, "tidy") /\ aside = Missing /\ inside = {}
    /\ GoTo("start")
    /\ UNCHANGED <<server, world, dirs, clock, left, trouble, ours>>

StartServer ==
    /\ At({"restore"}, "start")
    /\ server' = [server EXCEPT !.unit = "on"]
    /\ script' = NoScript /\ left' = left \ {"service"}
    /\ UNCHANGED <<world, dirs, clock, trouble, ours>>

(* set -e: systemctl, rm or mv fails, also the mv of the accounts snapshot  *)
(* before the start, and the script ends where it is.                       *)
StepFails ==
    /\ script.op = "restore"
    /\ script.pc \in {"stop", "move", "undo", "putback", "tidy", "start"}
    /\ IF script.pc = "move" /\ world = Missing THEN Fine ELSE Trouble
    /\ Quit
    /\ UNCHANGED <<server, world, clock, ours>>

(* The script is killed: no trap runs, a half-written archive stays.        *)
Kill ==
    /\ script.op # "none" /\ Trouble
    /\ archives' = IF At({"backup"}, "tar") THEN <<Made(FALSE)>> \o archives
                   ELSE archives
    /\ Abandon(Stopped \cup (IF server.saving THEN {} ELSE {"saving"}))
    /\ UNCHANGED <<server, world, pre, made, clock>>

Next ==
    \/ Play \/ Autosave \/ (\E f \in File : WriteOut(f))
    \/ Crash \/ Restart \/ Boot
    \/ StartBackup \/ (\E i \in DOMAIN archives : StartRestore(i))
    \/ SaveOff \/ SaveOffFails \/ SaveAll \/ SaveAllFails \/ Settle
    \/ (\E f \in File : TarFile(f)) \/ TarFails
    \/ EndTar \/ CheckSize \/ Undersized
    \/ RemoveOld \/ RemoveOldFails \/ Report \/ Exit
    \/ EndSafetyTar \/ SafetySaveOn \/ Stop \/ StopKills
    \/ Refuse \/ Confirm \/ MoveAside
    \/ (\E f \in File : Extract(f)) \/ ExtractFails
    \/ (\E f \in File : Undo(f)) \/ EndUndo \/ PutBack \/ PutInside
    \/ EndExtract \/ (\E f \in File : Tidy(f)) \/ TidyInside \/ EndTidy
    \/ StartServer \/ StepFails \/ Kill

Spec == Init /\ [][Next]_vars
-----------------------------------------------------------------------------
(* A whole archive is the world of one moment, that of its save-all, unless *)
(* the server went down during the run or needed more than the five seconds *)
(* to flush.                                                                *)
ArchiveSound ==
    \A i \in DOMAIN archives :
        LET a == archives[i] IN a.whole /\ ~a.touched => a.files = All(a.since)

(* With no script running, a running server saves, unless since it last did *)
(* a script was killed, RCON refused a save-on, or a restore ended on an    *)
(* unanswered save-off; and the service is on, unless since it last was a   *)
(* restore ended after its stop by an error or a kill.                      *)
NothingLeftOff ==
    script.op = "none" =>
        /\ server.up => server.saving \/ "saving" \in left
        /\ server.unit = "on" \/ "service" \in left

(* The service is started again on exactly the archived world, unless the   *)
(* daily restart started it between is-active and the end of this restore.  *)
RestoredWhole ==
    script.pc = "start" => world = script.from \/ script.overlapped

(* A moved-aside copy of a world.                                           *)
Elsewhere == \/ aside[Level] # None
             \/ \E tree \in strays \cup inside : tree[Level] # None

(* Whatever fails, is killed or is restarted in the middle of however many  *)
(* restores: while server/world lacks level.dat, so that a start generates  *)
(* a new world, a moved-aside copy of a world still has it.                 *)
WorldKept == world[Level] = None => Elsewhere

(* The last archive that passed its checks is there: neither rotation, also *)
(* one cut short before its report, nor failed or killed runs remove it.    *)
LastBackupKept == made # None => made \in Range(archives)

(* restore.sh: "a restore never destroys the only copy of the present       *)
(* state": when the moved-aside world is gone, the safety archive holds the *)
(* world as the stop saved it.                                              *)
PresentKept == script.pc = "start" => pre = All(script.since)
-----------------------------------------------------------------------------
(* The inductive invariant behind the theorems of BackupTheorems.           *)

(* Who may have left saving off or the service stopped.                     *)
ServerInv ==
    /\ server.up => server.unit = "on"
    /\ ~server.saving =>
          \/ ~server.up
          \/ script.pc \in {"all", "settle", "tar", "check", "rotate", "exit", "on"}
          \/ "saving" \in left
    /\ server.unit # "on" =>
          script.pc = "stopped" \/ Replacing \/ "service" \in left

(* An undisturbed run: from its save-all on nothing but that save writes    *)
(* the world, and from the start of its tar on nothing does.                *)
TarInv ==
    ~script.touched =>
        /\ script.pc \in {"all", "settle", "tar"} => server.up /\ ~server.saving
        /\ script.pc = "settle" =>
              /\ server.cap = script.since
              /\ \A f \in File \ server.pending : world[f] = script.since
        /\ script.pc = "tar" =>
              /\ server.pending = {} /\ world = All(script.since)
              /\ \A f \in File \ script.todo : script.arch[f] = script.since

(* What is extracted has a level.dat, and until it is there another copy    *)
(* has; until the restart comes in between, nobody else touches the world   *)
(* that is being replaced.                                                  *)
WorldInv ==
    /\ script.op = "restore" => script.from[Level] # None
    /\ script.pc = "extract" /\ Level \notin script.todo => world[Level] # None
    /\ script.pc \in {"tidy", "start"} => world[Level] # None
    /\ Replacing /\ ~script.overlapped => ~server.up /\ server.unit = "inactive"
    /\ script.pc \in {"extract", "tidy", "start"} /\ ~script.overlapped =>
          \A f \in File : f \in script.todo \/ world[f] = script.from[f]
    /\ script.pc \in {"tidy", "start"} => script.todo = {}
    /\ script.pc \in {"extract", "undo", "putback"} => Elsewhere
    /\ WorldKept

(* Only a successful run rotates, and it has the newest archive.            *)
ArchivesInv ==
    /\ Len(archives) <= Keep + trouble
                          + (IF script.pc \in {"check", "rotate"} THEN 1 ELSE 0)
    /\ script.pc \in {"check", "rotate"} => archives # <<>>
    /\ script.pc = "rotate" => made = archives[1]
    /\ ArchiveSound /\ LastBackupKept

BackupInv == TypeOK /\ ServerInv /\ TarInv /\ WorldInv /\ ArchivesInv
=============================================================================
