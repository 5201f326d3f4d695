------------------------------- MODULE PackTree -------------------------------
(***************************************************************************)
(* Publishing the pack: scripts/publish-pack.sh and gen-manifest.py.       *)
(*                                                                         *)
(* The tree pack/ is served file by file while a publish rewrites it, one  *)
(* path at a time and phase by phase; the manifest is replaced at the very *)
(* end, at once, and a publish may stop anywhere before that.  A file is   *)
(* one content; Empty is a zero-byte placeholder.                          *)
(***************************************************************************)
EXTENDS Integers, FiniteSets

CONSTANTS
    Path,         \* paths of the tree, in the spelling of the server
    Content,      \* non-empty contents
    Fetched,      \* paths that CurseForge provides: mods, resource packs
    Overridden,   \* paths in overrides/ of the client zip
    Config,       \* paths under config/
    Jar,          \* paths that match mods/campfire-auth-*.jar
    Inside,       \* pairs <<p, d>>: p lies in a directory of the name d
    Absent, Empty, NoManifest,
    FirstTrees,   \* the trees the history may begin with
    MaxChanges,   \* bound: files that become what the manifest does not say
    MaxPublishes, \* bound: manifests written after the first
    MaxTrouble    \* bound: losses of the pack, errors, edits

VARIABLES
    tree,      \* what the web server serves
    manifest,  \* manifest.json
    phase,     \* where the running publish is
    changes, publishes, trouble,   \* counted against the bounds
    lost,      \* history: the whole pack directory was lost once
    promised   \* history: <<path, content>> of every manifest so far

server == <<tree, manifest, phase, changes, publishes, trouble, lost, promised>>

Manifest == [files : UNION {[P -> Content] : P \in SUBSET Path},
             delete : SUBSET Path]

ASSUME PackTreeAssumption ==
    /\ Fetched \cup Overridden \cup Config \cup Jar \subseteq Path
    /\ Inside \subseteq Path \X Path
    /\ Absent \notin Content /\ Empty \notin Content /\ Absent # Empty
    /\ NoManifest \notin Manifest
    /\ FirstTrees \subseteq [Path -> Content \cup {Absent, Empty}]
    /\ MaxChanges \in Nat /\ MaxPublishes \in Nat /\ MaxTrouble \in Nat

Phase == {"idle", "fetch", "overrides", "config", "jar", "manifest"}

(* Mutated form: empty files are listed too.                               *)
FilesOfAll == [p \in {q \in Path : tree[q] # Absent} |-> tree[p]]

(* build_files: empty files are collected but not listed.                  *)
FilesOf == [p \in {q \in Path : tree[q] \in Content} |-> tree[p]]

(* The pack has been published once.                                       *)
InitServer ==
    /\ tree \in FirstTrees
    /\ manifest = [files |-> FilesOf, delete |-> {}]
    /\ promised = {<<p, tree[p]>> : p \in DOMAIN FilesOf}
    /\ phase = "idle" /\ changes = 0 /\ publishes = 0 /\ trouble = 0 /\ lost = FALSE

(* A path cannot be a file and a directory at once.                        *)
Room(p) == \A q \in Path : <<p, q>> \in Inside \/ <<q, p>> \in Inside
                              => tree[q] = Absent

(* The bound does not count a file that becomes what the manifest says.    *)
Listed(p, c) == /\ manifest # NoManifest /\ p \in DOMAIN manifest.files
                /\ c = manifest.files[p]

Put(p, c) ==
    /\ c # tree[p] /\ (c = Absent \/ Room(p))
    /\ tree' = [tree EXCEPT ![p] = c]
    /\ changes' = changes + (IF Listed(p, c) THEN 0 ELSE 1)
    /\ changes' <= MaxChanges
    /\ UNCHANGED <<manifest, publishes, trouble, lost, promised>>

Enter(from, to) ==
    /\ phase = from /\ phase' = to
    /\ UNCHANGED <<tree, manifest, changes, publishes, trouble, lost, promised>>

(* main: --skip-fetch goes straight to the overlay.                        *)
Begin == publishes < MaxPublishes /\
         (Enter("idle", "fetch") \/ Enter("idle", "config"))

(* fetch_cf_files: a file that is present and not empty is skipped, so it  *)
(* is neither updated nor removed when the client manifest drops it.       *)
FetchFile ==
    /\ phase = "fetch" /\ UNCHANGED phase
    /\ \E p \in Fetched, c \in Content : tree[p] \notin Content /\ Put(p, c)

(* rsync -a without --delete.                                              *)
ExtractOverride ==
    /\ phase = "overrides" /\ UNCHANGED phase
    /\ \E p \in Overridden, c \in Content \cup {Empty} : Put(p, c)

(* rsync -a --delete server/config/ over whatever overrides/ left there.   *)
OverlayConfig ==
    /\ phase = "config" /\ UNCHANGED phase
    /\ \E p \in Config, c \in Content \cup {Empty, Absent} : Put(p, c)

(* rm -f of the old auth jars, then cp of the new ones.                    *)
RemoveJar ==
    /\ phase = "config" /\ phase' = "jar"
    /\ tree' = [p \in Path |-> IF p \in Jar THEN Absent ELSE tree[p]]
    /\ UNCHANGED <<manifest, changes, publishes, trouble, lost, promised>>

CopyJar ==
    /\ phase = "jar" /\ UNCHANGED phase
    /\ \E p \in Jar, c \in Content : tree[p] = Absent /\ Put(p, c)

NextPhase ==
    \/ Enter("fetch", "overrides") \/ Enter("overrides", "config")
    \/ /\ \E p \in Jar : tree[p] # Absent
       /\ Enter("jar", "manifest")

(* Mutated form: only the last publish's removals are listed.              *)
DeleteListLast(previous, current) ==
    IF previous = NoManifest THEN {} ELSE DOMAIN previous.files \ current

(* Mutated form: a file that came back stays on the list.                  *)
DeleteListSticky(previous, current) ==
    IF previous = NoManifest THEN {}
    ELSE previous.delete \cup (DOMAIN previous.files \ current)

(* compute_delete_list.                                                    *)
DeleteList(previous, current) ==
    IF previous = NoManifest THEN {}
    ELSE (previous.delete \cup DOMAIN previous.files) \ current

(* gen-manifest.py; write_manifest_atomic replaces the file at once.       *)
Publish ==
    /\ phase = "manifest" /\ phase' = "idle"
    /\ publishes' = publishes + 1
    /\ manifest' = [files |-> FilesOf,
                    delete |-> DeleteList(manifest, DOMAIN FilesOf)]
    /\ promised' = promised \cup {<<p, tree[p]>> : p \in DOMAIN FilesOf}
    /\ UNCHANGED <<tree, changes, trouble, lost>>

(* Any refused file, failing command or gate of either script, and the     *)
(* steps before and between that only refuse (check_disk_space,            *)
(* acquire_client_zip, extract_client_zip): the tree stays as it is.       *)
Abort ==
    /\ phase # "idle" /\ phase' = "idle"
    /\ UNCHANGED <<tree, manifest, changes, publishes, trouble, lost, promised>>

(* docs/DIST-OPS.md: a refused mod is placed by hand; the same way one that*)
(* the pack has dropped is removed, since no script does.                  *)
ByHand ==
    /\ phase = "idle" /\ UNCHANGED phase
    /\ \E p \in Fetched \cup Overridden, c \in Content \cup {Absent} : Put(p, c)

(* The pack directory is in no backup and is rebuilt after a lost disk.    *)
LosePack ==
    /\ trouble < MaxTrouble /\ trouble' = trouble + 1 /\ lost' = TRUE
    /\ tree' = [p \in Path |-> Absent]
    /\ manifest' = NoManifest /\ phase' = "idle"
    /\ UNCHANGED <<changes, publishes, promised>>

=============================================================================
