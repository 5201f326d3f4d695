------------------------------ MODULE Provision ------------------------------
(***************************************************************************)
(* What Play does after the session and the pack: Java (core/src/java.rs), *)
(* the vanilla files (mojang.rs), Forge (forge.rs), OpenAL (openal.rs) and *)
(* the launch command (launch.rs), in the order of play.rs.                *)
(*                                                                         *)
(* A file is absent, good (the content its hash names) or bad.  Every      *)
(* download goes to a temporary file, is hashed and then renamed, so it    *)
(* makes a file good or leaves it alone.  Only the Forge installer, a      *)
(* process of its own that outlives a closed launcher, and the natives,    *)
(* extracted and copied, write in place: what they do not finish is bad.   *)
(* Java and the cached OpenAL are hashed when they are downloaded and      *)
(* never again.                                                            *)
(***************************************************************************)
EXTENDS VersionRules

CONSTANTS
    Child, Parent,   \* the libraries of Forge's and of Mojang's version file
    Client, Asset,   \* the client jar; an object of the asset index
    Json,            \* Forge's version file, bad when it does not parse
    Entry,           \* [Natives -> the files in a natives archive]
    OpenAL,          \* the native that the fixed OpenAL replaces
    Java, Cache,     \* the names of the runtime and of the cached OpenAL
    MaxTrouble,      \* bound: errors, closed windows and damaged files
    Rule, MaxRules,       \* what lists of rules are made of, and how long
    Library, MaxLibraries \* they may be; the same for lists of libraries

VARIABLES
    disk,       \* the files above
    java,       \* the runtime; "headless" when its executable is missing
    natives,    \* the natives directory; "soft" is the fixed OpenAL
    openal,     \* the cached OpenAL
    installers, \* the running Forge installers
    play,       \* the running Play
    left,       \* history: what was altered or left unfinished, and is still
    hurt,       \* history: what of it was altered since the click
    trouble

vars == <<disk, java, natives, openal, installers, play, left, hurt, trouble>>

Merged   == Merge(Child, Parent)
Batch    == Jars(Parent) \cup Natives(Parent)
Vanilla  == {Client, Asset} \cup Batch
Forge    == Jars(Child)
Files    == Vanilla \cup Forge \cup {Json}
Unpacked == UNION {Entry[a] : a \in Natives(Merged)}
Things   == Files \cup Unpacked \cup {Java, Cache}

(* The jar of the first library with an empty URL, if there is one.         *)
Own == {Child[i].jar : i \in {k \in DOMAIN Child :
           Child[k].own /\ \A j \in 1..(k - 1) : ~Child[j].own}}

ASSUME ProvisionAssumption ==
    /\ Own \subseteq Forge \ Vanilla
    /\ \A libs \in {Child, Parent} : libs \in Seq(Range(libs))
    /\ Natives(Child) \subseteq Natives(Parent)
    /\ Json \notin Vanilla \cup Forge /\ Json # None
    /\ DOMAIN Entry = Natives(Parent) /\ OpenAL \in Unpacked
    /\ Java # Cache /\ {Java, Cache} \cap (Files \cup Unpacked) = {}
    /\ Files \cap Unpacked = {}
    /\ {MaxTrouble, MaxRules, MaxLibraries} \subseteq Nat

NoPlay == [pc |-> "idle", todo |-> {}, failed |-> FALSE, ran |-> FALSE,
           soft |-> FALSE]

Stages == {"java", "client", "libs", "assets", "forge", "install", "wait",
           "check", "openal", "natives", "extract", "override", "classpath"}

(* todo: what the stage has not come to yet; ran: this Play has run an      *)
(* installer; soft: it has the path of the cached OpenAL.                   *)
Playing   == [pc : Stages \cup {"idle", "started", "failed"},
              todo : SUBSET (Batch \cup Unpacked),
              failed : BOOLEAN, ran : BOOLEAN, soft : BOOLEAN]
Installer == [of : {"play", "nobody"}, left : SUBSET (Forge \cup {Json}),
              open : Forge \cup {Json, None}]

InHands(f) == \E i \in installers : f \in i.left \cup {i.open}

TypeOK ==
    /\ disk \in [Files -> {"absent", "bad", "good"}]
    /\ java \in {"absent", "headless", "bad", "good"}
    /\ natives \in [Unpacked -> {"absent", "bad", "good", "soft"}]
    /\ openal \in {"absent", "bad", "good"}
    /\ installers \subseteq Installer
    /\ \A i, j \in installers : i.of = j.of => i = j
    /\ (\E i \in installers : i.of = "play") <=> play.pc = "wait"
    /\ play \in Playing
    /\ play.soft => openal = "good" \/ Cache \in left
    /\ left \subseteq Things /\ hurt \subseteq left
    /\ trouble \in 0..MaxTrouble

Init ==
    /\ disk = [f \in Files |-> "absent"] /\ java = "absent"
    /\ natives = [e \in Unpacked |-> "absent"] /\ openal = "absent"
    /\ installers = {} /\ play = NoPlay /\ left = {} /\ hurt = {}
    /\ trouble = 0

GoTo(stage) == play' = [play EXCEPT !.pc = stage]

Kept == UNCHANGED <<left, hurt, trouble>>

(* A thing is made what it should be, or is altered from outside.           *)
Right(things) ==
    /\ left' = left \ things /\ hurt' = hurt \ things
    /\ UNCHANGED trouble

Altered(things) ==
    /\ left' = left \cup things /\ hurt' = hurt \cup things
    /\ trouble' = trouble + 1
-----------------------------------------------------------------------------
(* play: one at a time, the button is disabled while it runs.               *)
Click ==
    /\ play.pc = "idle"
    /\ play' = [NoPlay EXCEPT !.pc = "java"]
    /\ hurt' = {}
    /\ UNCHANGED <<disk, java, natives, openal, installers, left, trouble>>

(* ensure_java: an executable in place is taken as it is.  A runtime is     *)
(* extracted beside its place and renamed, which fails when a directory is  *)
(* there.                                                                   *)
RuntimeInstalled ==
    /\ java' = IF java = "absent" THEN "good" ELSE java
    /\ Right(IF java = "absent" THEN {Java} ELSE {})

EnsureJava ==
    /\ play.pc = "java"
    /\ RuntimeInstalled
    /\ GoTo(IF java = "headless" THEN "failed" ELSE "client")
    /\ UNCHANGED <<disk, natives, openal, installers>>

(* Mutated form of Fetched: a file that exists is not hashed.               *)
FetchedIfAbsent(f) ==
    /\ disk' = IF disk[f] = "absent" THEN [disk EXCEPT ![f] = "good"] ELSE disk
    /\ Right({f})

(* download_sha1_verified: a file whose hash is wrong is fetched again.     *)
Fetched(f) ==
    /\ disk' = [disk EXCEPT ![f] = "good"]
    /\ Right({f})

FetchClient ==
    /\ play.pc = "client"
    /\ Fetched(Client)
    /\ play' = [play EXCEPT !.pc = "libs", !.todo = Batch]
    /\ UNCHANGED <<java, natives, openal, installers>>

(* run_download_batch goes on after an error and reports it at the end.     *)
FetchLibrary(f) ==
    /\ play.pc = "libs" /\ f \in play.todo
    /\ play' = [play EXCEPT !.todo = @ \ {f}]
    /\ Fetched(f)
    /\ UNCHANGED <<java, natives, openal, installers>>

FetchFails(f) ==
    /\ play.pc = "libs" /\ f \in play.todo /\ trouble < MaxTrouble
    /\ play' = [play EXCEPT !.todo = @ \ {f}, !.failed = TRUE]
    /\ trouble' = trouble + 1
    /\ UNCHANGED <<disk, java, natives, openal, installers, left, hurt>>

EndBatch ==
    /\ play.pc = "libs" /\ play.todo = {}
    /\ GoTo(IF play.failed THEN "failed" ELSE "assets")
    /\ UNCHANGED <<disk, java, natives, openal, installers>> /\ Kept

FetchAssets ==
    /\ play.pc = "assets"
    /\ Fetched(Asset)
    /\ GoTo("forge")
    /\ UNCHANGED <<java, natives, openal, installers>>
-----------------------------------------------------------------------------

(* try_load_forge_json: the version file parses.                            *)
Installed == disk[Json] = "good"

(* ensure_forge: an installed Forge is taken as it is.                      *)
ForgePresent ==
    /\ play.pc = "forge"
    /\ GoTo(IF Installed THEN IF disk[Json] = "good" THEN "openal" ELSE "failed"
            ELSE "install")
    /\ UNCHANGED <<disk, java, natives, openal, installers>> /\ Kept

(* The installer jar has its hash and the profile stub is written; Java is  *)
(* provisioned once more, then run_installer.                               *)
StartInstaller ==
    /\ play.pc = "install"
    /\ RuntimeInstalled
    /\ \/ /\ java # "headless"
          /\ installers' = installers \cup
                {[of |-> "play", left |-> Forge \cup {Json}, open |-> None]}
          /\ play' = [play EXCEPT !.pc = "wait", !.ran = TRUE]
       \/ java = "headless" /\ GoTo("failed") /\ UNCHANGED installers
    /\ UNCHANGED <<disk, natives, openal>>

(* The installer, for all the launcher knows: it writes its files in some   *)
(* order, skips a library that is already good, and may give up at any time *)
(* with exit code 0.  Two may write the same content to one file.           *)
Replace(i, j) == installers' = (installers \ {i}) \cup {j}

InstallerOpens(i, f) ==
    /\ i.open = None /\ f \in i.left
    /\ Replace(i, [i EXCEPT !.left = @ \ {f},
                            !.open = IF f # Json /\ disk[f] = "good" THEN None ELSE f])
    /\ disk' = [disk EXCEPT ![f] = IF f # Json /\ @ = "good" THEN "good" ELSE "bad"]
    /\ UNCHANGED <<java, natives, openal, play>> /\ Kept

InstallerCloses(i) ==
    /\ i.open # None
    /\ Replace(i, [i EXCEPT !.open = None])
    /\ IF \E j \in installers \ {i} : j.open = i.open
       THEN UNCHANGED disk /\ Kept
       ELSE disk' = [disk EXCEPT ![i.open] = "good"] /\ Right({i.open})
    /\ UNCHANGED <<java, natives, openal, play>>

Exit(i) ==
    /\ installers' = installers \ {i}
    /\ IF i.of = "play" THEN GoTo("check") ELSE UNCHANGED play
    /\ UNCHANGED <<disk, java, natives, openal>>

InstallerEnds(i) ==
    /\ i.open = None /\ i.left = {}
    /\ Exit(i) /\ Kept

InstallerFails(i) ==
    /\ trouble < MaxTrouble
    /\ Exit(i)
    /\ Altered({f \in i.left \cup ({i.open} \ {None}) : disk[f] # "good"})

(* The version file must parse and the jar with the empty URL have its hash *)
Check ==
    /\ play.pc = "check"
    /\ GoTo(IF disk[Json] = "good" /\ \A f \in Own : disk[f] = "good"
            THEN "openal" ELSE "failed")
    /\ UNCHANGED <<disk, java, natives, openal, installers>> /\ Kept
-----------------------------------------------------------------------------
(* ensure_openal_soft, on macOS: whatever file is in the cache is taken;    *)
(* one that cannot be had is done without.                                  *)
EnsureOpenAL ==
    /\ play.pc = "openal"
    /\ openal' = IF openal = "absent" THEN "good" ELSE openal
    /\ Right(IF openal = "absent" THEN {Cache} ELSE {})
    /\ play' = [play EXCEPT !.pc = "natives", !.soft = TRUE]
    /\ UNCHANGED <<disk, java, natives, installers>>

(* Mutated form of SkipOpenAL: its path is handed on all the same.          *)
SkipOpenALReady ==
    /\ play.pc = "openal" /\ openal = "absent" /\ trouble < MaxTrouble
    /\ play' = [play EXCEPT !.pc = "natives", !.soft = TRUE]
    /\ trouble' = trouble + 1
    /\ UNCHANGED <<disk, java, natives, openal, installers, left, hurt>>

SkipOpenAL ==
    /\ play.pc = "openal" /\ openal = "absent" /\ trouble < MaxTrouble
    /\ GoTo("natives")
    /\ trouble' = trouble + 1
    /\ UNCHANGED <<disk, java, natives, openal, installers, left, hurt>>

AfterNatives == IF play.soft THEN "override" ELSE "classpath"

(* extract_natives: a directory with anything in it is left as it is.       *)
BeginNatives ==
    /\ play.pc = "natives"
    /\ \/ /\ \E e \in Unpacked : natives[e] # "absent"
          /\ GoTo(AfterNatives)
       \/ /\ \A e \in Unpacked : natives[e] = "absent"
          /\ play' = [play EXCEPT !.pc = "extract", !.todo = Unpacked]
    /\ UNCHANGED <<disk, java, natives, openal, installers>> /\ Kept

(* One file after the other, each once, in place: see Cut for a file that   *)
(* is not finished.  The archive is not hashed any more.                    *)
Unpack(e) ==
    /\ play.pc = "extract" /\ e \in play.todo
    /\ play' = [play EXCEPT !.todo = @ \ {e}]
    /\ \E a \in Natives(Merged) :
          /\ e \in Entry[a] /\ disk[a] # "absent"
          /\ natives' = [natives EXCEPT ![e] = disk[a]]
          /\ left' = IF disk[a] = "good" THEN left \ {e} ELSE left \cup {e}
    /\ hurt' = hurt \ {e}
    /\ UNCHANGED <<disk, java, openal, installers, trouble>>

(* An archive that is not there is passed over.                             *)
Wanted == UNION {Entry[a] : a \in {b \in Natives(Merged) : disk[b] # "absent"}}

EndUnpack ==
    /\ play.pc = "extract" /\ play.todo \cap Wanted = {}
    /\ GoTo(AfterNatives)
    /\ left' = left \cup play.todo
    /\ UNCHANGED <<disk, java, natives, openal, installers, hurt, trouble>>

(* apply_openal_override: a copy in place of what the cache holds, on every *)
(* launch.                                                                  *)
Override ==
    /\ play.pc = "override" /\ openal # "absent"
    /\ natives' = [natives EXCEPT ![OpenAL] =
                     IF openal = "good" THEN "soft" ELSE "bad"]
    /\ left' = IF openal = "good" THEN left \ {OpenAL} ELSE left \cup {OpenAL}
    /\ hurt' = hurt \ {OpenAL}
    /\ GoTo("classpath")
    /\ UNCHANGED <<disk, java, openal, installers, trouble>>

(* What is written in place when the launcher stops is not finished, and    *)
(* what was to come is missing.                                             *)
Cut ==
    \/ /\ play.pc = "extract"
       /\ \/ UNCHANGED natives
          \/ \E e \in play.todo \cap Wanted : natives' = [natives EXCEPT ![e] = "bad"]
       /\ left' = left \cup play.todo
    \/ /\ play.pc = "override"
       /\ natives' = [natives EXCEPT ![OpenAL] = "bad"]
       /\ left' = left \cup {OpenAL}
    \/ play.pc # "extract" /\ UNCHANGED <<natives, left>>

(* An archive that cannot be read, or a cached OpenAL that has gone.        *)
Unreadable ==
    /\ \/ /\ play.pc = "extract" /\ Cut
          /\ \E a \in Natives(Merged) : disk[a] = "bad"
       \/ /\ play.pc = "override" /\ openal = "absent"
          /\ UNCHANGED <<natives, left>>
    /\ GoTo("failed")
    /\ UNCHANGED <<disk, java, openal, installers, hurt, trouble>>

(* build_classpath: every file of it exists; then spawn.                    *)
Spawn ==
    /\ play.pc = "classpath"
    /\ GoTo(IF /\ \A f \in Jars(Merged) \cup {Client} : disk[f] # "absent"
               /\ java \notin {"absent", "headless"}
            THEN "started" ELSE "failed")
    /\ UNCHANGED <<disk, java, natives, openal, installers>> /\ Kept

EndPlay ==
    /\ play.pc \in {"started", "failed"}
    /\ play' = NoPlay
    /\ UNCHANGED <<disk, java, natives, openal, installers>> /\ Kept
-----------------------------------------------------------------------------
(* A network or disk error ends the play, a closed window the launcher.  An *)
(* installer that runs goes on without it.                                  *)
Fault ==
    /\ play.pc \in Stages \ {"wait"} /\ trouble < MaxTrouble
    /\ trouble' = trouble + 1
    /\ GoTo("failed") /\ Cut
    /\ UNCHANGED <<disk, java, openal, installers, hurt>>

Close ==
    /\ play.pc \in Stages /\ trouble < MaxTrouble
    /\ play.pc = "wait" => ~ \E i \in installers : i.of = "nobody"
    /\ trouble' = trouble + 1
    /\ play' = NoPlay /\ Cut
    /\ installers' = {[i EXCEPT !.of = "nobody"] : i \in installers}
    /\ UNCHANGED <<disk, java, openal, hurt>>

(* Another program, or the player, removes or alters a thing: not a file    *)
(* that an installer is writing.                                            *)
Worse(state) == IF state = "absent" THEN {}
                ELSE IF state = "bad" THEN {"absent"} ELSE {"absent", "bad"}

DamageFile(f) ==
    /\ \A i \in installers : i.open # f
    /\ \E to \in Worse(disk[f]) : disk' = [disk EXCEPT ![f] = to]
    /\ Altered({f})
    /\ UNCHANGED <<java, natives, openal>>

DamageNative(e) ==
    /\ \E to \in Worse(natives[e]) : natives' = [natives EXCEPT ![e] = to]
    /\ Altered({e})
    /\ UNCHANGED <<disk, java, openal>>

DamageJava ==
    /\ \/ java = "good" /\ java' \in {"absent", "headless", "bad"}
       \/ java \in {"headless", "bad"} /\ java' = "absent"
    /\ Altered({Java})
    /\ UNCHANGED <<disk, natives, openal>>

DamageCache ==
    /\ openal' \in Worse(openal)
    /\ Altered({Cache})
    /\ UNCHANGED <<disk, java, natives>>

Damage ==
    /\ trouble < MaxTrouble
    /\ \/ \E f \in Files : DamageFile(f)
       \/ \E e \in Unpacked : DamageNative(e)
       \/ DamageJava \/ DamageCache
    /\ UNCHANGED <<installers, play>>
-----------------------------------------------------------------------------
(* What the launcher does when nothing goes wrong.                          *)
PlayStep ==
    \/ EnsureJava \/ FetchClient \/ EndBatch \/ FetchAssets
    \/ \E f \in Batch : FetchLibrary(f)
    \/ ForgePresent \/ StartInstaller \/ Check \/ EnsureOpenAL
    \/ BeginNatives \/ EndUnpack \/ Override \/ Unreadable \/ Spawn \/ EndPlay
    \/ \E e \in Unpacked : Unpack(e)

InstallerStep(of) ==
    \E i \in installers : i.of = of /\
        \/ \E f \in i.left : InstallerOpens(i, f)
        \/ InstallerCloses(i)
        \/ InstallerEnds(i)

Next ==
    \/ Click
    \/ PlayStep
    \/ InstallerStep("play") \/ InstallerStep("nobody")
    \/ \E f \in Batch : FetchFails(f)
    \/ \E i \in installers : InstallerFails(i)
    \/ SkipOpenAL \/ Fault \/ Close \/ Damage

(* Every request has a connect and a read timeout, so a step that does not  *)
(* fail ends; each installer ends; the player clicks again.                 *)
Spec == Init /\ [][Next]_vars
        /\ WF_vars(PlayStep) /\ WF_vars(Click)
        /\ \A of \in {"play", "nobody"} : WF_vars(InstallerStep(of))
-----------------------------------------------------------------------------
(* The game is started with everything it needs, each thing by itself: Java *)
(* that this Play has seen, never altered since it was installed; every     *)
(* vanilla file good whatever happened in earlier runs; the version file    *)
(* and every library of Forge good, but for one that was altered, that an   *)
(* installer gave up or that one left running still has before it (and its  *)
(* own jar good when this Play has run the installer); every native         *)
(* complete, but for one altered or left unfinished in any run; and the     *)
(* fixed OpenAL, but for a cache altered since it was fetched.              *)
StartedComplete ==
    play.pc = "started" =>
        /\ java = "good" \/ Java \in left
        /\ java \in {"good", "bad"} \/ Java \in hurt
        /\ \A f \in Vanilla : disk[f] = "good" \/ f \in hurt
        /\ disk[Json] = "good" \/ Json \in hurt \/ InHands(Json)
        /\ \A f \in Forge : disk[f] = "good" \/ f \in left \/ InHands(f)
        /\ play.ran => \A f \in Own : disk[f] = "good" \/ f \in hurt
        /\ \A e \in Unpacked : natives[e] \in {"good", "soft"} \/ e \in left
        /\ play.soft => \/ natives[OpenAL] = "soft"
                        \/ OpenAL \in hurt \/ Cache \in left

EveryRuleList    == RulesAgreeOn(Rule, MaxRules)
EveryLibraryList == MergeShadowsOn(Library, MaxLibraries)

(* rule_allows, where downloads and the classpath use it: the last rule that *)
(* applies decides, over every list of at most MaxRules rules.              *)
RulesAgree == play.pc \in {"client", "classpath"} => EveryRuleList

(* merge, where the launch uses it: every library name once, in the order   *)
(* of its first mention, with what Forge's file says of it before what the  *)
(* vanilla one says, over all pairs of lists of at most MaxLibraries.       *)
MergeShadows == play.pc = "openal" => EveryLibraryList

(* Two directories that no later Play repairs: a runtime without its        *)
(* executable, and a Forge whose version file parses and a library is gone. *)
Stuck ==
    \/ java = "headless"
    \/ Installed /\ \E f \in Forge \ Vanilla : disk[f] = "absent"

-----------------------------------------------------------------------------
(* The inductive invariant behind the theorems of ProvisionTheorems.        *)

AfterForge == {"openal", "natives", "extract", "override", "classpath", "started"}
AfterBatch == {"assets", "forge", "install", "wait", "check"} \cup AfterForge

(* What is marked as not right is not good, and what was never altered is   *)
(* as its installation left it.                                             *)
LeftInv ==
    /\ \A f \in Files : f \in left => disk[f] # "good"
    /\ java \in {"bad", "headless"} => Java \in left
    /\ openal = "bad" => Cache \in left

(* What this Play has installed stands, unless it was altered meanwhile.    *)
VanillaInv ==
    /\ play.pc \in Stages \cup {"started"} /\ play.pc # "java" =>
          /\ java # "absent" \/ Java \in hurt
          /\ java # "headless" \/ Java \in hurt
    /\ play.pc \in AfterBatch \cup {"libs"} =>
          disk[Client] = "good" \/ Client \in hurt
    /\ play.pc = "libs" /\ ~play.failed =>
          \A f \in Batch \ play.todo : disk[f] = "good" \/ f \in hurt
    /\ play.pc \in AfterBatch =>
          \A f \in Batch : disk[f] = "good" \/ f \in hurt
    /\ play.pc \in AfterBatch \ {"assets"} =>
          disk[Asset] = "good" \/ Asset \in hurt

(* Once there is a version file or an installer, every file of Forge is     *)
(* good, marked, or in the hands of an installer that runs.                 *)
ForgeInv ==
    /\ \/ disk[Json] = "absent" /\ Json \notin left /\ installers = {}
       \/ \A f \in Forge \cup {Json} :
             disk[f] = "good" \/ f \in left \/ InHands(f)
    /\ play.ran => play.pc \in {"wait", "check", "failed"} \cup AfterForge
    /\ play.pc \in AfterForge =>
          /\ disk[Json] = "good" \/ Json \in hurt \/ InHands(Json)
          /\ play.ran => \A f \in Own : disk[f] = "good" \/ f \in hurt

(* Except while it is being filled, the natives directory is empty, or what *)
(* is not whole in it is marked.                                            *)
NativesInv ==
    /\ play.pc = "extract" =>
          /\ play.todo \subseteq Unpacked
          /\ \A e \in Unpacked \ play.todo : natives[e] \in {"good", "soft"} \/ e \in left
    /\ play.pc # "extract" =>
          \/ /\ play.pc \notin {"override", "classpath", "started"}
             /\ \A e \in Unpacked : natives[e] = "absent"
          \/ \A e \in Unpacked : natives[e] \in {"good", "soft"} \/ e \in left

SoftInv ==
    /\ play.pc = "override" => play.soft
    /\ play.pc \in {"classpath", "started"} /\ play.soft =>
          natives[OpenAL] = "soft" \/ OpenAL \in hurt \/ Cache \in left

ProvisionInv ==
    TypeOK /\ LeftInv /\ VanillaInv /\ ForgeInv /\ NativesInv /\ SoftInv
=============================================================================
