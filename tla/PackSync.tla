------------------------------- MODULE PackSync -------------------------------
(***************************************************************************)
(* The launcher's mirror of the pack: sync and verify of core/src/         *)
(* manifest.rs, against a pack that is being published (PackTree).         *)
(*                                                                         *)
(* The game directory maps a key to a file, a directory or nothing.  Fold  *)
(* takes a path to its key: on the shipped targets names that differ in    *)
(* case are one file, and share one temporary file, .<name>.tmp-<pid>.  A  *)
(* run pins one manifest and goes on with it.  Only one run at a time:     *)
(* Play and Verify disable each other's button.                            *)
(***************************************************************************)
EXTENDS PackTree

CONSTANTS
    Key,       \* names in the game directory
    Fold,      \* [Path -> Key]
    Above,     \* [Key -> SUBSET Key]: the directories a key lies in
    Options,   \* the key of options.txt
    Edited,    \* bound: the keys the player, or a running game, writes
    Refused,   \* paths that the publisher takes and validate rejects
    Protected, \* those of them that it rejects in the delete list too
    User,      \* the content of a file of the player's own
    Seeded,    \* the options shipped with the launcher
    Mixed,     \* what several downloads at once left in one file
    Dir,
    Slots      \* DOWNLOAD_CONCURRENCY

VARIABLES
    disk,    \* the game directory
    job      \* the running sync or verify

vars == <<server, disk, job>>

Packed == Content \cup {Mixed}

File == Packed \cup {User, Seeded}

Job == [op : {"none", "sync", "verify"},
        pc : {"idle", "download", "delete", "repair", "done", "failed"},
        man : Manifest \cup {NoManifest},
        todo : SUBSET Path,
        open : UNION {[P -> Content \cup {Empty}] : P \in SUBSET Path},
                                \* the downloads in flight, and what each reads
        tmp : SUBSET Path,      \* those that wrote the temporary file there is
        loose : SUBSET Path,    \* those whose file another one has renamed
        failed : BOOLEAN,       \* sync: some download has failed
        faulted : BOOLEAN,      \* history: a network or disk error
        torn : BOOLEAN,         \* history: the tree differed from man
        edited : SUBSET Key]    \* history: keys written by the player

NoOpen == [p \in {} |-> Empty]

NoJob == [op |-> "none", pc |-> "idle", man |-> NoManifest, todo |-> {},
          open |-> NoOpen, tmp |-> {}, loose |-> {}, failed |-> FALSE,
          faulted |-> FALSE, torn |-> FALSE, edited |-> {}]

ASSUME PackSyncAssumption ==
    /\ Fold \in [Path -> Key] /\ Above \in [Key -> SUBSET Key]
    /\ Edited \subseteq Key /\ \A p \in Path : Fold[p] # Options
    /\ Protected \subseteq Refused /\ Refused \subseteq Path
    /\ {User, Seeded, Mixed, Dir, Absent} \cap Content = {}
    /\ {User, Seeded} \cap {Mixed, Dir, Absent} = {} /\ Dir # Absent
    /\ Mixed \notin {Dir, Absent} /\ Options \in Key /\ Slots \in Nat \ {0}
    /\ \A k \in Key : k \notin Above[k]
                     /\ \A d \in Above[k] : Above[d] \subseteq Above[k]
    /\ Above[Options] = {}
    /\ \A t \in FirstTrees : \A p, q \in Path :
          {t[p], t[q]} \subseteq Content => Fold[p] \notin Above[Fold[q]]
                                        /\ Options \notin Above[Fold[q]]

(* The launcher has synced the first pack.                                 *)
Init ==
    /\ InitServer
    /\ disk = [k \in Key |->
                 IF k = Options THEN Seeded
                 ELSE IF \E p \in DOMAIN FilesOf : Fold[p] = k
                 THEN tree[CHOOSE p \in DOMAIN FilesOf : Fold[p] = k]
                 ELSE IF \E p \in DOMAIN FilesOf : k \in Above[Fold[p]]
                 THEN Dir ELSE Absent]
    /\ job = NoJob

Disturb == /\ trouble < MaxTrouble /\ trouble' = trouble + 1
           /\ UNCHANGED <<tree, manifest, phase, changes, publishes, lost,
                          promised>>

(* The report follows the last step at once.                               *)
Over == job.pc \in {"done", "failed"}

Running == job.pc \in {"download", "delete", "repair"}

(* History: the tree t is not what the manifest man says.                  *)
Torn(t, man) == \E p \in DOMAIN man.files : t[p] # man.files[p]

UpToDate(p, man) == disk[Fold[p]] = man.files[p]

-----------------------------------------------------------------------------
(* validate: one bad entry rejects the whole manifest.                     *)
Rejected(man) ==
    DOMAIN man.files \cap Refused # {} \/ man.delete \cap Protected # {}

(* fetch_manifest: the manifest there is, as it was written at once.       *)
Fetchable == manifest # NoManifest

(* fetch_manifest, validate and, for sync, the comparison of every file.   *)
Start(op) ==
    /\ job = NoJob /\ Fetchable
    /\ job' = [NoJob EXCEPT
          !.op = op, !.man = manifest, !.torn = Torn(tree, manifest),
          !.pc = IF Rejected(manifest) THEN "failed"
                 ELSE IF op = "sync" THEN "download" ELSE "delete",
          !.todo = IF Rejected(manifest) THEN {} ELSE IF op = "sync"
                   THEN {p \in DOMAIN manifest.files : ~UpToDate(p, manifest)}
                   ELSE manifest.delete]
    /\ UNCHANGED <<server, disk>>

(* Mutated form: the parent is taken to exist.                             *)
MakeDirsNone(k) == disk

(* create_dir_all of the parent: nothing happens below a plain file.       *)
MakeDirs(k) ==
    IF \E d \in Above[k] : disk[d] \in File THEN disk
    ELSE [d \in Key |-> IF d \in Above[k] THEN Dir ELSE disk[d]]

(* The parent directory is there and the server has an answer.             *)
Reachable(p) ==
    /\ \A d \in Above[Fold[p]] : MakeDirs(Fold[p])[d] = Dir
    /\ tree[p] # Absent

(* The downloads that have written the temporary file of p's name.         *)
Writers(p) == {q \in job.tmp : Fold[q] = Fold[p]}

(* File::create makes the temporary file, or empties the one there is.     *)
Opened(p) ==
    [job EXCEPT !.todo = @ \ {p},
                !.open = [q \in DOMAIN @ \cup {p} |-> IF q = p THEN tree[p] ELSE @[q]],
                !.tmp = (@ \ (Writers(p) \ DOMAIN job.open)) \cup {p}]

Closed(p) == [job EXCEPT !.open = [q \in DOMAIN @ \ {p} |-> @[q]],
                         !.loose = @ \ {p}]

(* remove_file of the temporary file, whoever writes it.                   *)
Unlinked(p) == [Closed(p) EXCEPT !.tmp = @ \ Writers(p)]

(* The rename takes the file from under those who still write it.          *)
Landed(p) ==
    [Closed(p) EXCEPT
        !.tmp = @ \ Writers(p),
        !.loose = {q \in @ : Fold[q] # Fold[p]}
                     \cup ((Writers(p) \cap DOMAIN job.open) \ {p})]

Failing(j) == [j EXCEPT !.pc = "failed", !.todo = {}, !.open = NoOpen,
                        !.tmp = {}, !.loose = {}]

(* A sync tries every entry, whatever the others do; a verify ends.        *)
Lost(j) == IF j.pc = "download" THEN [j EXCEPT !.failed = TRUE] ELSE Failing(j)

(* What a file may hold that the downloads S write at once: the whole of   *)
(* one of them, or some of each.                                           *)
Pieces(S) == ({job.open[q] : q \in S \cap DOMAIN job.open} \cap Content)
                \cup {Mixed}

(* A download goes on writing where its file is now.                       *)
Spill(p) ==
    \/ UNCHANGED disk
    \/ /\ p \in job.loose /\ disk[Fold[p]] \in File
       /\ \E c \in Pieces({p}) : disk' = [disk EXCEPT ![Fold[p]] = c]

(* download_one up to the first chunk; a verify goes file by file.         *)
Open(p) ==
    /\ p \in job.todo
    /\ \/ job.pc = "download" /\ Cardinality(DOMAIN job.open) < Slots
       \/ job.pc = "repair" /\ DOMAIN job.open = {} /\ ~UpToDate(p, job.man)
    /\ disk' = MakeDirs(Fold[p])
    /\ job' = IF Reachable(p) THEN Opened(p)
              ELSE Lost([job EXCEPT !.todo = @ \ {p}])
    /\ UNCHANGED server

(* verify: a file that is as it should be.                                 *)
Check(p) ==
    /\ job.pc = "repair" /\ p \in job.todo /\ DOMAIN job.open = {}
    /\ UpToDate(p, job.man)
    /\ job' = [job EXCEPT !.todo = @ \ {p}]
    /\ UNCHANGED <<server, disk>>

(* Mutated form: whatever the server sends is renamed into place.          *)
IntactAny(p) == job.open[p] \in Content

(* Size and hash of what was read, not of the file it was written to.      *)
Intact(p) == job.open[p] = job.man.files[p]

(* The rename: the file that has the temporary name goes into place.       *)
Land(p) ==
    /\ p \in DOMAIN job.open /\ Intact(p)
    /\ Writers(p) # {} /\ disk[Fold[p]] # Dir
    /\ \E c \in IF Writers(p) = {p} THEN {job.open[p]} ELSE Pieces(Writers(p)) :
         disk' = [disk EXCEPT ![Fold[p]] = c]
    /\ job' = Landed(p)
    /\ UNCHANGED server

(* Another download has renamed or removed the file, or a directory is in  *)
(* the way, and then the temporary file is left behind.                    *)
RenameFails(p) ==
    /\ p \in DOMAIN job.open /\ Intact(p)
    /\ Writers(p) = {} \/ disk[Fold[p]] = Dir
    /\ Spill(p) /\ job' = Lost(Closed(p))
    /\ UNCHANGED server

(* What came is not what the manifest says, or changed while it came.      *)
Mismatch(p) ==
    /\ p \in DOMAIN job.open
    /\ ~Intact(p) \/ tree[p] # job.open[p]
    /\ Spill(p) /\ job' = Lost(Unlinked(p))
    /\ UNCHANGED server

(* A lost connection or a full disk, before a download, in it, or at its   *)
(* rename; apply_deletes ends with the first error as well.                *)
Fault ==
    /\ Running /\ Disturb
    /\ \/ /\ \E p \in job.todo :
               job' = [Lost([job EXCEPT !.todo = @ \ {p}]) EXCEPT !.faulted = TRUE]
          /\ UNCHANGED disk
       \/ \E p \in DOMAIN job.open :
            /\ Spill(p)
            /\ \E j \in {Closed(p), Unlinked(p)} :
                 job' = [Lost(j) EXCEPT !.faulted = TRUE]

(* Mutated form: a failed download does not end the sync.                  *)
EndDownloadsRegardless ==
    /\ job.pc = "download" /\ job.todo = {} /\ DOMAIN job.open = {}
    /\ job' = [job EXCEPT !.pc = "delete", !.todo = job.man.delete]
    /\ UNCHANGED <<server, disk>>

(* The first error of the batch, if any, ends the sync before any delete.  *)
EndDownloads ==
    /\ job.pc = "download" /\ job.todo = {} /\ DOMAIN job.open = {}
    /\ job' = IF job.failed THEN Failing(job)
              ELSE [job EXCEPT !.pc = "delete", !.todo = job.man.delete,
                               !.tmp = {}, !.loose = {}]
    /\ UNCHANGED <<server, disk>>

(* Mutated form: the directory goes with whatever it holds.                *)
PrunableAll(k) ==
    {j \in Key : j \in Above[k] \/ Above[k] \cap Above[j] # {}}

(* prune_empty_ancestors: the directories above k that hold nothing else.  *)
Prunable(k) ==
    {d \in Above[k] : \A j \in Key : d \in Above[j] /\ disk[j] # Absent
                                        => j = k \/ j \in Above[k]}

(* apply_deletes, one entry; only a plain file is removed.                 *)
Delete(p) ==
    /\ job.pc = "delete" /\ p \in job.todo
    /\ job' = [job EXCEPT !.todo = @ \ {p}]
    /\ disk' = IF disk[Fold[p]] \in File
               THEN [k \in Key |->
                       IF k \in {Fold[p]} \cup Prunable(Fold[p]) THEN Absent
                       ELSE disk[k]]
               ELSE disk
    /\ UNCHANGED server

(* seed_options, once; a running verify goes on to the files first.        *)
Seed == disk' = [disk EXCEPT ![Options] = IF @ = Absent THEN Seeded ELSE @]

EndDeletes ==
    /\ job.pc = "delete" /\ job.todo = {}
    /\ IF job.op = "sync"
       THEN Seed /\ job' = [job EXCEPT !.pc = "done"]
       ELSE /\ job' = [job EXCEPT !.pc = "repair", !.todo = DOMAIN job.man.files]
            /\ UNCHANGED disk
    /\ UNCHANGED server

EndRepairs ==
    /\ job.pc = "repair" /\ job.todo = {} /\ DOMAIN job.open = {}
    /\ Seed /\ job' = [job EXCEPT !.pc = "done"]
    /\ UNCHANGED server

(* The run returns its report, or its error, or the launcher is closed.     *)
End == job # NoJob /\ job' = NoJob /\ UNCHANGED <<server, disk>>

(* The player, or a game that runs beside the launcher.                    *)
Edit ==
    /\ ~Over /\ Disturb
    /\ \E k \in Edited :
         /\ disk[k] # Dir /\ \A d \in Above[k] : disk[d] \notin File
         /\ \E c \in {User, Absent} : disk' = [MakeDirs(k) EXCEPT ![k] = c]
         /\ job' = IF Running THEN [job EXCEPT !.edited = @ \cup {k}] ELSE job

(* What a publish does, as a running sync sees it.                         *)
Watch == /\ ~Over
         /\ job' = [job EXCEPT !.torn = @ \/ (Running /\ Torn(tree', job.man))]
         /\ UNCHANGED disk

Next ==
    \/ \E op \in {"sync", "verify"} : Start(op)
    \/ \E p \in Path : Open(p) \/ Check(p) \/ Land(p) \/ RenameFails(p)
                         \/ Mismatch(p) \/ Delete(p)
    \/ Fault \/ EndDownloads \/ EndDeletes \/ EndRepairs \/ End \/ Edit
    \/ (Begin /\ Watch)           \/ (FetchFile /\ Watch)
    \/ (ExtractOverride /\ Watch) \/ (OverlayConfig /\ Watch)
    \/ (RemoveJar /\ Watch)       \/ (CopyJar /\ Watch)
    \/ (NextPhase /\ Watch)       \/ (Publish /\ Watch)
    \/ (Abort /\ Watch)           \/ (ByHand /\ Watch)
    \/ (LosePack /\ Watch)

Spec == Init /\ [][Next]_vars
-----------------------------------------------------------------------------
(* Types of the tree, the manifest and the game directory: a manifest      *)
(* lists non-empty files only, a pinned one too.                           *)
TypeOK ==
    /\ tree \in [Path -> Content \cup {Absent, Empty}]
    /\ manifest \in Manifest \cup {NoManifest}
    /\ phase \in Phase
    /\ changes \in 0..MaxChanges /\ publishes \in 0..MaxPublishes
    /\ promised \subseteq Path \X Content
    /\ disk \in [Key -> File \cup {Absent, Dir}]
    /\ job \in Job /\ trouble \in 0..MaxTrouble /\ lost \in BOOLEAN

(* The manifest has no other name for this file of the client.             *)
Names(man) == DOMAIN man.files \cup man.delete
Lone(p, man) == \A q \in Names(man) : Fold[q] = Fold[p] => q = p

(* When sync or verify reports Done, every file of the pinned manifest is  *)
(* there with its content and no deleted one is, whatever was published,   *)
(* lost or interrupted before; except for what the player wrote meanwhile  *)
(* and for a file that this manifest names twice, in spellings that differ *)
(* in case only: manifest.rs:548 and 654.                                  *)
SyncedExactly ==
    job.pc = "done" =>
        /\ \A p \in DOMAIN job.man.files : Lone(p, job.man) =>
             UpToDate(p, job.man) \/ Fold[p] \in job.edited
        /\ \A p \in job.man.delete : Lone(p, job.man) =>
             disk[Fold[p]] \notin File \/ Fold[p] \in job.edited

(* A client that skipped publishes, or installed half of one, is left with *)
(* no file of an older pack, as long as the pack directory with its delete *)
(* list was never lost: gen-manifest.py:176, manifest.rs:440.              *)
NothingStale ==
    job.pc = "done" /\ ~lost =>
        \A k \in Key : disk[k] \in Packed =>
            \E p \in DOMAIN job.man.files : Fold[p] = k

(* Names of one file that have both been published.                        *)
TwoNames(k) == \E a, b \in promised : /\ a[1] # b[1]
                                      /\ Fold[a[1]] = k /\ Fold[b[1]] = k

(* Nothing is ever installed that a manifest did not promise for its path, *)
(* though four downloads run at once against a tree that changes, except   *)
(* where names that differ in case only were published: their downloads    *)
(* share a temporary file, and what is renamed is not what was hashed      *)
(* (manifest.rs:363 and 401).                                              *)
OnlyPromised ==
    \A k \in Key : disk[k] \in Packed =>
        \/ \E p \in Path : Fold[p] = k /\ <<p, disk[k]>> \in promised
        \/ TwoNames(k)

(* A sync or verify that fails without an error of the network or the disk *)
(* met a tree that was not what the manifest says, a manifest its guard    *)
(* rejects, a file where a directory must be, or the reverse, or one file  *)
(* listed under two names, whose second rename fails (manifest.rs:411).    *)
Clash(man) ==
    \E p \in DOMAIN man.files :
        \/ disk[Fold[p]] = Dir
        \/ \E d \in Above[Fold[p]] : disk[d] \in File
Twice(man) == \E p, q \in DOMAIN man.files : p # q /\ Fold[p] = Fold[q]
FailureExplained ==
    job.pc = "failed" /\ ~job.faulted /\ ~job.torn /\ job.edited = {} =>
        Rejected(job.man) \/ Clash(job.man) \/ Twice(job.man)

(* The launcher never changes a file of the player's that the pinned       *)
(* manifest does not name: not through a delete, not through a directory   *)
(* it prunes or creates, not by seeding options (manifest.rs:416, 437,     *)
(* 455).                                                                   *)
UserFilesKept ==
    [][trouble' = trouble =>
         \A k \in Key : disk[k] = User /\ disk'[k] # User =>
           \E p \in DOMAIN job.man.files \cup job.man.delete : Fold[p] = k]_disk

(* A sync removes nothing before all it installs is in place, so that one  *)
(* that fails or is interrupted while downloading has removed nothing      *)
(* (manifest.rs:616).                                                      *)
ReplaceBeforeRemove ==
    [][job.op = "sync" /\ trouble' = trouble
         /\ (\E k \in Key : disk[k] \in File /\ disk'[k] \notin File) =>
           \A p \in DOMAIN job.man.files : Lone(p, job.man) =>
               UpToDate(p, job.man) \/ Fold[p] \in job.edited]_disk
-----------------------------------------------------------------------------
(* The inductive invariant.  A manifest promises what it lists and deletes *)
(* nothing of it.                                                          *)
Sound(man) ==
    /\ man \in Manifest /\ man.delete \cap DOMAIN man.files = {}
    /\ \A p \in DOMAIN man.files : <<p, man.files[p]>> \in promised

ServerInv ==
    /\ phase # "idle" => publishes < MaxPublishes
    /\ manifest # NoManifest => Sound(manifest)

(* What is left to do is taken from the pinned manifest, and a file listed *)
(* under one name has its temporary file to itself.                        *)
Alone(p) == \A q \in DOMAIN job.man.files : Fold[q] = Fold[p] => q = p

JobInv ==
    /\ job.pc = "idle" \/ Sound(job.man)
    /\ job.pc = "download" => job.op = "sync" /\ job.todo \subseteq DOMAIN job.man.files
    /\ job.pc = "repair" => job.op = "verify" /\ job.todo \subseteq DOMAIN job.man.files
    /\ job.pc = "delete" =>
          job.todo \subseteq job.man.delete /\ job.tmp \cup job.loose = {}
    /\ job.op = "none" => job.pc = "idle"
    /\ job.pc \notin {"download", "repair"} => DOMAIN job.open = {}
    /\ job.pc \in {"download", "repair"} =>
          DOMAIN job.open \cup job.tmp \cup job.loose \subseteq DOMAIN job.man.files
    /\ \A p \in DOMAIN job.open : Alone(p) => p \in job.tmp
    /\ \A p \in job.loose : ~Alone(p)

(* Whatever is there lies in directories.                                  *)
DiskInv == \A k \in Key : disk[k] # Absent => \A d \in Above[k] : disk[d] = Dir

(* A download in flight has its directory.                                 *)
ParentsInv == \A p \in DOMAIN job.open : \A d \in Above[Fold[p]] : disk[d] = Dir

(* What a run has dealt with so far is as the pinned manifest says, but    *)
(* for what the player wrote meanwhile.                                    *)
There(p) == Lone(p, job.man) => UpToDate(p, job.man) \/ Fold[p] \in job.edited
Gone(p)  == Lone(p, job.man) => disk[Fold[p]] \notin File \/ Fold[p] \in job.edited

ProgressInv ==
    job.pc # "idle" =>
        /\ (job.op = "sync" /\ job.pc = "delete") \/ job.pc = "done"
              => \A p \in DOMAIN job.man.files : There(p)
        /\ (job.pc = "download" /\ ~job.failed) \/ job.pc = "repair"
              => \A p \in DOMAIN job.man.files \ (job.todo \cup DOMAIN job.open) :
                    There(p)
        /\ job.pc = "delete" => \A p \in job.man.delete \ job.todo : Gone(p)
        /\ job.pc \in {"repair", "done"} => \A p \in job.man.delete : Gone(p)

(* Whatever of the pack is on the client has a name that the manifest     *)
(* still lists or deletes, and every manifest knows all the names of those *)
(* before it; what a run has dealt with so far leaves only listed names.   *)
Named(P)   == \A k \in Key : disk[k] \in Packed => \E p \in P : Fold[p] = k

StaleInv ==
    ~lost =>
        /\ manifest # NoManifest /\ Named(Names(manifest))
        /\ job.pc # "idle" =>
              Names(job.man) \subseteq Names(manifest) /\ Named(Names(job.man))
        /\ job.pc = "delete" => Named(DOMAIN job.man.files \cup job.todo)
        /\ job.pc \in {"repair", "done"} => Named(DOMAIN job.man.files)

(* A download that failed with nothing else in its way met a clash, which  *)
(* lasts as long as the run only installs, or a second name of its file.   *)
ExplainInv ==
    job.pc # "idle" /\ ~job.faulted /\ ~job.torn /\ job.edited = {} =>
        /\ job.pc \in {"delete", "repair", "done"} => ~job.failed
        /\ Running => ~Torn(tree, job.man)
        /\ \A p \in DOMAIN job.open : job.open[p] = job.man.files[p]
        /\ job.failed \/ job.pc = "failed" =>
              Rejected(job.man) \/ Clash(job.man) \/ Twice(job.man)

PackInv ==
    /\ TypeOK /\ ServerInv /\ JobInv /\ DiskInv /\ ParentsInv
    /\ OnlyPromised /\ ProgressInv /\ StaleInv /\ ExplainInv

=============================================================================
