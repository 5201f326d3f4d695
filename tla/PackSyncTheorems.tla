--------------------------- MODULE PackSyncTheorems --------------------------
(* Proofs about PackSync, for every set of paths, every naming of files on  *)
(* the client and every bound: what a sync or verify reports as done is the *)
(* pinned pack exactly, and what it never touches.                          *)
EXTENDS PackSync, TLAPS

Disk == [Key -> File \cup {Absent, Dir}]

(* What the assumptions say of the kinds of a file.                         *)
LEMMA Kinds ==
    /\ Dir \notin File /\ Absent \notin File /\ Dir # Absent
    /\ User \notin Content /\ Seeded \notin Content
    /\ Dir \notin Content /\ Absent \notin Content /\ Empty \notin Content
    /\ Absent # Empty
    /\ User \in File /\ Seeded \in File /\ Content \subseteq File
    /\ Content \subseteq Packed /\ Packed \subseteq File /\ Mixed \in Packed
    /\ User \notin Packed /\ Seeded \notin Packed
    /\ Dir \notin Packed /\ Absent \notin Packed
BY PackSyncAssumption, PackTreeAssumption DEF File, Packed

(* A file list is made of files that are not empty.                         *)
LEMMA FilesOfFacts ==
    ASSUME tree \in [Path -> Content \cup {Absent, Empty}]
    PROVE  /\ FilesOf \in UNION {[P -> Content] : P \in SUBSET Path}
           /\ \A p \in DOMAIN FilesOf : p \in Path /\ FilesOf[p] = tree[p]
           /\ \A p \in DOMAIN FilesOf : FilesOf[p] \in Content
           /\ \A p \in Path : tree[p] \in Content => p \in DOMAIN FilesOf
<1> DEFINE P == {q \in Path : tree[q] \in Content}
<1>1. FilesOf \in [P -> Content]
  BY DEF FilesOf
<1>2. P \in SUBSET Path
  OBVIOUS
<1>3. QED
  BY <1>1, <1>2 DEF FilesOf

(* What a manifest is made of.                                              *)
LEMMA SoundFacts ==
    ASSUME NEW man, Sound(man)
    PROVE  /\ DOMAIN man.files \subseteq Path /\ man.delete \subseteq Path
           /\ \A p \in DOMAIN man.files : man.files[p] \in Content
           /\ man.delete \cap DOMAIN man.files = {}
           /\ \A p \in DOMAIN man.files : <<p, man.files[p]>> \in promised
<1>1. PICK P \in SUBSET Path : man.files \in [P -> Content]
  BY DEF Sound, Manifest
<1>2. QED
  BY <1>1 DEF Sound, Manifest

(* Creating directories leaves every file alone, and what is there lies in  *)
(* directories afterwards too.                                              *)
LEMMA MakeDirsFacts ==
    ASSUME disk \in Disk, DiskInv, NEW k \in Key
    PROVE  /\ MakeDirs(k) \in Disk
           /\ \A j \in Key : disk[j] \in File <=> MakeDirs(k)[j] \in File
           /\ \A j \in Key : disk[j] \in File => MakeDirs(k)[j] = disk[j]
           /\ \A j \in Key : disk[j] = Dir => MakeDirs(k)[j] = Dir
           /\ \A j \in Key : MakeDirs(k)[j] # Absent
                    => \A d \in Above[j] : MakeDirs(k)[d] = Dir
           /\ \A j \in Key : j \notin Above[k] => MakeDirs(k)[j] = disk[j]
<1>1. CASE \E d \in Above[k] : disk[d] \in File
  BY <1>1 DEF MakeDirs, DiskInv
<1>2. CASE ~ \E d \in Above[k] : disk[d] \in File
  <2> DEFINE m == MakeDirs(k)
  <2>1. m = [d \in Key |-> IF d \in Above[k] THEN Dir ELSE disk[d]]
    BY <1>2 DEF MakeDirs
  <2> HIDE DEF m
  <2>2. Above[k] \subseteq Key /\ \A j \in Key : Above[j] \subseteq Key
    BY PackSyncAssumption
  <2>3. m \in Disk
    BY <2>1 DEF Disk
  <2>4. \A j \in Key : j \in Above[k] => m[j] = Dir /\ disk[j] \notin File
    BY <1>2, <2>1
  <2>5. \A j \in Key : j \notin Above[k] => m[j] = disk[j]
    BY <2>1
  <2>6. ASSUME NEW j \in Key, m[j] # Absent, NEW d \in Above[j]
        PROVE  m[d] = Dir
    <3>1. CASE j \in Above[k]
      <4>1. d \in Above[k]
        BY <3>1, PackSyncAssumption
      <4>2. QED
        BY <4>1, <2>4, <2>2
    <3>2. CASE j \notin Above[k]
      <4>1. disk[d] = Dir /\ d \in Key
        BY <3>2, <2>5, <2>6, <2>2 DEF DiskInv
      <4>2. QED
        BY <4>1, <2>4, <2>5
    <3>3. QED
      BY <3>1, <3>2
  <2>7. QED
    BY <2>3, <2>4, <2>5, <2>6, Kinds DEF m
<1>3. QED
  BY <1>1, <1>2

-----------------------------------------------------------------------------
(* The publisher's steps, and the launcher's.                               *)
Publishing ==
    \/ Begin \/ FetchFile \/ ExtractOverride \/ OverlayConfig \/ RemoveJar
    \/ CopyJar \/ NextPhase \/ Publish \/ Abort \/ ByHand \/ LosePack

Launching ==
    \/ \E op \in {"sync", "verify"} : Start(op)
    \/ \E p \in Path : Open(p) \/ Check(p) \/ Land(p) \/ RenameFails(p)
                         \/ Mismatch(p) \/ Delete(p)
    \/ Fault \/ EndDownloads \/ EndDeletes \/ EndRepairs \/ End \/ Edit

ServerTypeOK ==
    /\ tree \in [Path -> Content \cup {Absent, Empty}]
    /\ manifest \in Manifest \cup {NoManifest}
    /\ phase \in Phase
    /\ changes \in 0..MaxChanges /\ publishes \in 0..MaxPublishes
    /\ promised \subseteq Path \X Content
    /\ trouble \in 0..MaxTrouble /\ lost \in BOOLEAN

(* A step is one of the publisher, watched by a run, or of the launcher.    *)
LEMMA Steps ==
    ASSUME [Next]_vars
    PROVE  (Publishing /\ Watch) \/ Launching \/ UNCHANGED vars
BY DEF Next, Publishing, Launching

(* One file is written.                                                     *)
LEMMA PutStep ==
    ASSUME ServerTypeOK, NEW p \in Path, NEW c \in Content \cup {Absent, Empty},
           Put(p, c), UNCHANGED phase
    PROVE  ServerTypeOK'
<1>1. changes' \in 0..MaxChanges
  BY PackTreeAssumption DEF Put, ServerTypeOK
<1>2. QED
  BY <1>1 DEF Put, ServerTypeOK

(* A manifest that is written is sound.                                     *)
LEMMA PublishStep ==
    ASSUME ServerTypeOK, ServerInv, Publish
    PROVE  /\ ServerTypeOK' /\ ServerInv' /\ promised \subseteq promised'
           /\ manifest' \in Manifest
<1> DEFINE D == DeleteList(manifest, DOMAIN FilesOf)
<1>1. manifest' = [files |-> FilesOf, delete |-> D]
  BY DEF Publish
<1>2. /\ FilesOf \in UNION {[P -> Content] : P \in SUBSET Path}
      /\ \A p \in DOMAIN FilesOf : p \in Path /\ FilesOf[p] = tree[p]
      /\ \A p \in DOMAIN FilesOf : FilesOf[p] \in Content
  BY FilesOfFacts DEF ServerTypeOK
<1>3. D \subseteq Path /\ D \cap DOMAIN FilesOf = {}
  BY SoundFacts DEF DeleteList, ServerInv
<1>4. manifest' \in Manifest
  BY <1>1, <1>2, <1>3 DEF Manifest
<1>5. promised' = promised \cup {<<p, tree[p]>> : p \in DOMAIN FilesOf}
  BY DEF Publish
<1>6. promised' \subseteq Path \X Content
  BY <1>2, <1>5 DEF ServerTypeOK
<1>7. publishes' \in 0..MaxPublishes
  BY PackTreeAssumption DEF Publish, ServerTypeOK, ServerInv
<1>8. ServerTypeOK'
  BY <1>4, <1>6, <1>7 DEF Publish, ServerTypeOK, Phase
<1>9. Sound(manifest)'
  BY <1>1, <1>2, <1>3, <1>4, <1>5 DEF Sound
<1>10. QED
  BY <1>4, <1>5, <1>8, <1>9 DEF Publish, ServerInv

(* No step of a publish makes a manifest that is not sound.                 *)
LEMMA PublishingStep ==
    ASSUME ServerTypeOK, ServerInv, Publishing
    PROVE  ServerTypeOK' /\ ServerInv' /\ promised \subseteq promised'
<1> USE PackTreeAssumption
<1>1. CASE Begin
  BY <1>1 DEF Begin, Enter, ServerTypeOK, ServerInv, Sound, Phase
<1>2. CASE FetchFile
  <2>1. PICK p \in Fetched, c \in Content : Put(p, c)
    BY <1>2 DEF FetchFile
  <2>2. ServerTypeOK'
    BY <1>2, <2>1, PutStep DEF FetchFile
  <2>3. QED
    BY <1>2, <2>1, <2>2 DEF FetchFile, Put, ServerInv, Sound
<1>3. CASE ExtractOverride
  <2>1. PICK p \in Overridden, c \in Content \cup {Empty} : Put(p, c)
    BY <1>3 DEF ExtractOverride
  <2>2. ServerTypeOK'
    BY <1>3, <2>1, PutStep DEF ExtractOverride
  <2>3. QED
    BY <1>3, <2>1, <2>2 DEF ExtractOverride, Put, ServerInv, Sound
<1>4. CASE OverlayConfig
  <2>1. PICK p \in Config, c \in Content \cup {Empty, Absent} : Put(p, c)
    BY <1>4 DEF OverlayConfig
  <2>2. ServerTypeOK'
    BY <1>4, <2>1, PutStep DEF OverlayConfig
  <2>3. QED
    BY <1>4, <2>1, <2>2 DEF OverlayConfig, Put, ServerInv, Sound
<1>5. CASE RemoveJar
  BY <1>5 DEF RemoveJar, ServerTypeOK, ServerInv, Sound, Phase
<1>6. CASE CopyJar
  <2>1. PICK p \in Jar, c \in Content : Put(p, c)
    BY <1>6 DEF CopyJar
  <2>2. ServerTypeOK'
    BY <1>6, <2>1, PutStep DEF CopyJar
  <2>3. QED
    BY <1>6, <2>1, <2>2 DEF CopyJar, Put, ServerInv, Sound
<1>7. CASE NextPhase
  BY <1>7 DEF NextPhase, Enter, ServerTypeOK, ServerInv, Sound, Phase
<1>8. CASE Publish
  BY <1>8, PublishStep
<1>9. CASE Abort
  BY <1>9 DEF Abort, ServerTypeOK, ServerInv, Sound, Phase
<1>10. CASE ByHand
  <2>1. PICK p \in Fetched \cup Overridden, c \in Content \cup {Absent} : Put(p, c)
    BY <1>10 DEF ByHand
  <2>2. ServerTypeOK'
    BY <1>10, <2>1, PutStep DEF ByHand
  <2>3. QED
    BY <1>10, <2>1, <2>2 DEF ByHand, Put, ServerInv, Sound
<1>11. CASE LosePack
  BY <1>11 DEF LosePack, ServerTypeOK, ServerInv, Sound, Phase
<1>12. QED
  BY <1>1, <1>2, <1>3, <1>4, <1>5, <1>6, <1>7, <1>8, <1>9, <1>10, <1>11
     DEF Publishing

(* The launcher reads the server only; an error or an edit is counted.      *)
LEMMA LaunchingServer ==
    ASSUME Launching
    PROVE  /\ UNCHANGED <<tree, manifest, phase, changes, publishes, lost, promised>>
           /\ UNCHANGED trouble \/ (trouble < MaxTrouble /\ trouble' = trouble + 1)
BY DEF Launching, Start, Open, Check, Land, RenameFails, Mismatch, Delete, Fault, Disturb, EndDownloads,
       EndDeletes, EndRepairs, End, Edit, server

(* The same of every step; a promise is never taken back.                   *)
LEMMA ServerStep ==
    ASSUME ServerTypeOK, ServerInv, [Next]_vars
    PROVE  ServerTypeOK' /\ ServerInv' /\ promised \subseteq promised'
<1>1. CASE Launching
  BY <1>1, LaunchingServer, PackTreeAssumption DEF ServerTypeOK, ServerInv, Sound
<1>2. CASE UNCHANGED vars
  BY <1>2 DEF vars, server, ServerTypeOK, ServerInv, Sound
<1>3. QED
  BY <1>1, <1>2, Steps, PublishingStep

-----------------------------------------------------------------------------
(* What a publish does beside a run: nothing but the history changes.       *)
LEMMA WatchFacts ==
    ASSUME job \in Job, Watch
    PROVE  /\ disk' = disk /\ job' \in Job
           /\ job'.op = job.op /\ job'.pc = job.pc /\ job'.man = job.man
           /\ job'.todo = job.todo /\ job'.failed = job.failed
           /\ job'.edited = job.edited /\ job'.open = job.open
           /\ job'.tmp = job.tmp /\ job'.loose = job.loose
BY DEF Watch, Job, Running, Over, Torn

(* The downloads in flight, and what each reads.                            *)
Flights == UNION {[P -> Content \cup {Empty}] : P \in SUBSET Path}

LEMMA NoOpenFacts ==
    NoOpen \in Flights /\ DOMAIN NoOpen = {}
<1>1. NoOpen \in [{} -> Content \cup {Empty}] /\ {} \in SUBSET Path
  BY DEF NoOpen
<1>2. QED
  BY <1>1 DEF Flights

(* The pinned manifest of a run is the one it fetched.                      *)
LEMMA StartFacts ==
    ASSUME TypeOK, ServerInv, NEW op \in {"sync", "verify"}, Start(op)
    PROVE  /\ job' \in Job /\ disk' = disk /\ Sound(manifest)
           /\ job'.op = op /\ job'.man = manifest /\ ~job'.failed
           /\ DOMAIN job'.open = {} /\ job'.tmp = {} /\ job'.loose = {}
           /\ \/ /\ job'.pc = "failed" /\ job'.todo = {}
              \/ /\ op = "sync" /\ job'.pc = "download"
                 /\ job'.todo = {p \in DOMAIN manifest.files : ~UpToDate(p, manifest)}
              \/ /\ op = "verify" /\ job'.pc = "delete"
                 /\ job'.todo = manifest.delete
<1>1. Sound(manifest) /\ manifest \in Manifest
  BY DEF Start, Fetchable, ServerInv, Sound
<1>2. DOMAIN manifest.files \subseteq Path /\ manifest.delete \subseteq Path
  BY <1>1, SoundFacts
<1>3. job' = [NoJob EXCEPT
          !.op = op, !.man = manifest, !.torn = Torn(tree, manifest),
          !.pc = IF Rejected(manifest) THEN "failed"
                 ELSE IF op = "sync" THEN "download" ELSE "delete",
          !.todo = IF Rejected(manifest) THEN {} ELSE IF op = "sync"
                   THEN {p \in DOMAIN manifest.files : ~UpToDate(p, manifest)}
                   ELSE manifest.delete]
  BY DEF Start
<1>4. Torn(tree, manifest) \in BOOLEAN
  BY DEF Torn
<1> DEFINE todo == {p \in DOMAIN manifest.files : ~UpToDate(p, manifest)}
<1>5. todo \subseteq Path
  BY <1>2
<1> HIDE DEF todo
<1>6. ASSUME NEW pc \in {"failed", "download", "delete"}, NEW T \in SUBSET Path,
             job' = [NoJob EXCEPT !.op = op, !.man = manifest,
                                  !.torn = Torn(tree, manifest), !.pc = pc, !.todo = T]
      PROVE  /\ job' \in Job /\ job'.op = op /\ job'.man = manifest /\ ~job'.failed
             /\ job'.pc = pc /\ job'.todo = T
             /\ DOMAIN job'.open = {} /\ job'.tmp = {} /\ job'.loose = {}
  <2>1. NoOpen \in Flights /\ DOMAIN NoOpen = {}
    BY NoOpenFacts
  <2>2. job' = [op |-> op, pc |-> pc, man |-> manifest, todo |-> T, open |-> NoOpen,
                tmp |-> {}, loose |-> {}, failed |-> FALSE, faulted |-> FALSE,
                torn |-> Torn(tree, manifest), edited |-> {}]
    BY <1>6 DEF NoJob
  <2>3. job' \in Job
    BY <1>1, <1>4, <2>1, <2>2 DEF Job, Flights
  <2>4. QED
    BY <2>1, <2>2, <2>3
<1>7. disk' = disk /\ {} \subseteq Path
  BY DEF Start
<1>8. CASE Rejected(manifest)
  <2>1. job' = [NoJob EXCEPT !.op = op, !.man = manifest, !.torn = Torn(tree, manifest),
                             !.pc = "failed", !.todo = {}]
    BY <1>3, <1>8
  <2>2. {} \in SUBSET Path
    OBVIOUS
  <2>3. /\ job' \in Job /\ job'.op = op /\ job'.man = manifest /\ ~job'.failed
        /\ job'.pc = "failed" /\ job'.todo = {}
        /\ DOMAIN job'.open = {} /\ job'.tmp = {} /\ job'.loose = {}
    BY <1>6, <2>1, <2>2
  <2>4. QED
    BY <1>1, <1>7, <2>3
<1>9. CASE ~Rejected(manifest) /\ op = "sync"
  BY <1>1, <1>3, <1>5, <1>6, <1>7, <1>9 DEF todo
<1>10. CASE ~Rejected(manifest) /\ op = "verify"
  BY <1>1, <1>2, <1>3, <1>6, <1>7, <1>10
<1>11. QED
  BY <1>8, <1>9, <1>10

(* The same run, with the same history.                                     *)
SameRun(j) == /\ j.op = job.op /\ j.man = job.man /\ j.faulted = job.faulted
              /\ j.torn = job.torn /\ j.edited = job.edited

(* The ways a step changes the job.                                         *)
LEMMA JobEdits ==
    ASSUME NEW j \in Job, NEW T \in SUBSET Path,
           NEW pc \in {"download", "delete", "repair", "done", "failed"},
           NEW E \in SUBSET Key
    PROVE  /\ [j EXCEPT !.todo = T] \in Job
           /\ [j EXCEPT !.pc = pc] \in Job
           /\ [j EXCEPT !.pc = pc, !.todo = T] \in Job
           /\ [j EXCEPT !.pc = pc, !.todo = T, !.tmp = {}, !.loose = {}] \in Job
           /\ [j EXCEPT !.edited = E] \in Job
           /\ [j EXCEPT !.faulted = TRUE] \in Job
BY DEF Job

(* A download that begins has a temporary file, and takes none from those   *)
(* in flight.                                                               *)
LEMMA OpenedFacts ==
    ASSUME job \in Job, tree \in [Path -> Content \cup {Absent, Empty}],
           NEW p \in Path, tree[p] # Absent
    PROVE  /\ Opened(p) \in Job /\ SameRun(Opened(p))
           /\ Opened(p).pc = job.pc /\ Opened(p).failed = job.failed
           /\ Opened(p).todo = job.todo \ {p} /\ Opened(p).loose = job.loose
           /\ DOMAIN Opened(p).open = DOMAIN job.open \cup {p}
           /\ \A q \in DOMAIN job.open \cup {p} :
                 Opened(p).open[q] = IF q = p THEN tree[p] ELSE job.open[q]
           /\ p \in Opened(p).tmp /\ Opened(p).tmp \subseteq job.tmp \cup {p}
           /\ DOMAIN job.open \cap job.tmp \subseteq Opened(p).tmp
<1> DEFINE O == [q \in DOMAIN job.open \cup {p} |-> IF q = p THEN tree[p] ELSE job.open[q]]
           T == (job.tmp \ (Writers(p) \ DOMAIN job.open)) \cup {p}
<1>1. PICK P \in SUBSET Path : job.open \in [P -> Content \cup {Empty}]
  BY DEF Job
<1>2. tree[p] \in Content \cup {Empty}
  OBVIOUS
<1>3. O \in [P \cup {p} -> Content \cup {Empty}] /\ P \cup {p} \in SUBSET Path
  BY <1>1, <1>2
<1>4. /\ O \in Flights /\ DOMAIN O = DOMAIN job.open \cup {p}
      /\ \A q \in DOMAIN job.open \cup {p} :
            O[q] = IF q = p THEN tree[p] ELSE job.open[q]
  BY <1>3 DEF Flights
<1>5. /\ T \subseteq Path /\ p \in T /\ T \subseteq job.tmp \cup {p}
      /\ DOMAIN job.open \cap job.tmp \subseteq T
  BY DEF Job
<1>6. Opened(p) = [job EXCEPT !.todo = job.todo \ {p}, !.open = O, !.tmp = T]
  BY DEF Opened
<1> HIDE DEF O, T
<1>7. Opened(p) \in Job
  BY <1>4, <1>5, <1>6 DEF Job, Flights
<1>8. /\ Opened(p).open = O /\ Opened(p).tmp = T /\ Opened(p).todo = job.todo \ {p}
      /\ SameRun(Opened(p)) /\ Opened(p).pc = job.pc /\ Opened(p).failed = job.failed
      /\ Opened(p).loose = job.loose
  BY <1>6 DEF Job, SameRun
<1>9. QED
  BY <1>4, <1>5, <1>7, <1>8

(* A download that ends disturbs those of its own name only.                *)
LEMMA ClosedFacts ==
    ASSUME job \in Job, NEW p
    PROVE  \A j \in {Closed(p), Unlinked(p), Landed(p)} :
           /\ j \in Job /\ SameRun(j) /\ j.pc = job.pc /\ j.failed = job.failed
           /\ j.todo = job.todo /\ DOMAIN j.open = DOMAIN job.open \ {p}
           /\ \A q \in DOMAIN job.open \ {p} : j.open[q] = job.open[q]
           /\ j.tmp \subseteq job.tmp
           /\ \A q \in job.tmp : Fold[q] # Fold[p] => q \in j.tmp
           /\ \A q \in j.loose : q \in job.loose
                                   \/ (q \in job.tmp /\ q # p /\ Fold[q] = Fold[p])
<1>0. SUFFICES ASSUME NEW j \in {Closed(p), Unlinked(p), Landed(p)}
               PROVE  /\ j \in Job /\ SameRun(j) /\ j.pc = job.pc /\ j.failed = job.failed
                      /\ j.todo = job.todo /\ DOMAIN j.open = DOMAIN job.open \ {p}
                      /\ \A q \in DOMAIN job.open \ {p} : j.open[q] = job.open[q]
                      /\ j.tmp \subseteq job.tmp
                      /\ \A q \in job.tmp : Fold[q] # Fold[p] => q \in j.tmp
                      /\ \A q \in j.loose :
                            \/ q \in job.loose
                            \/ q \in job.tmp /\ q # p /\ Fold[q] = Fold[p]
  OBVIOUS
<1> DEFINE O == [q \in DOMAIN job.open \ {p} |-> job.open[q]]
           L == {q \in job.loose \ {p} : Fold[q] # Fold[p]}
                   \cup ((Writers(p) \cap DOMAIN job.open) \ {p})
<1>1. PICK P \in SUBSET Path : job.open \in [P -> Content \cup {Empty}]
  BY DEF Job
<1>2. O \in [P \ {p} -> Content \cup {Empty}] /\ P \ {p} \in SUBSET Path
  BY <1>1
<1>3. /\ O \in Flights /\ DOMAIN O = DOMAIN job.open \ {p}
      /\ \A q \in DOMAIN job.open \ {p} : O[q] = job.open[q]
  BY <1>2 DEF Flights
<1>4. /\ job.tmp \ Writers(p) \subseteq Path /\ job.loose \ {p} \subseteq Path
      /\ L \subseteq Path
      /\ \A q \in L : q \in job.loose \/ (q \in job.tmp /\ q # p /\ Fold[q] = Fold[p])
      /\ \A q \in job.tmp : Fold[q] # Fold[p] => q \in job.tmp \ Writers(p)
  BY DEF Job, Writers
<1> DEFINE c == [job EXCEPT !.open = O, !.loose = job.loose \ {p}]
<1>5. Closed(p) = c
  BY DEF Closed
<1> HIDE DEF O, L
<1>6. c \in Job
  BY <1>3, <1>4 DEF Job, Flights
<1>7. /\ SameRun(c) /\ c.pc = job.pc /\ c.failed = job.failed /\ c.todo = job.todo
      /\ c.open = O /\ c.tmp = job.tmp /\ c.loose = job.loose \ {p}
  BY DEF Job, SameRun
<1>8. CASE j = Closed(p)
  BY <1>3, <1>5, <1>6, <1>7, <1>8
<1>9. CASE j = Unlinked(p)
  <2>1. j = [c EXCEPT !.tmp = c.tmp \ Writers(p)]
    BY <1>5, <1>9 DEF Unlinked
  <2> HIDE DEF c
  <2>2. j \in Job
    BY <1>4, <1>6, <1>7, <2>1 DEF Job
  <2>3. /\ SameRun(j) /\ j.pc = job.pc /\ j.failed = job.failed /\ j.todo = job.todo
        /\ j.open = O /\ j.tmp = job.tmp \ Writers(p) /\ j.loose = job.loose \ {p}
    BY <1>6, <1>7, <2>1 DEF Job, SameRun
  <2>4. QED
    BY <1>3, <1>4, <2>2, <2>3
<1>10. CASE j = Landed(p)
  <2>1. j = [c EXCEPT !.tmp = c.tmp \ Writers(p),
                      !.loose = {q \in c.loose : Fold[q] # Fold[p]}
                                   \cup ((Writers(p) \cap DOMAIN job.open) \ {p})]
    BY <1>5, <1>10 DEF Landed
  <2>2. j = [c EXCEPT !.tmp = job.tmp \ Writers(p), !.loose = L]
    BY <1>7, <2>1 DEF L
  <2> HIDE DEF c
  <2>3. j \in Job
    BY <1>4, <1>6, <2>2 DEF Job
  <2>4. /\ SameRun(j) /\ j.pc = job.pc /\ j.failed = job.failed /\ j.todo = job.todo
        /\ j.open = O /\ j.tmp = job.tmp \ Writers(p) /\ j.loose = L
    BY <1>6, <1>7, <2>2 DEF Job, SameRun
  <2>5. QED
    BY <1>3, <1>4, <2>3, <2>4
<1>11. QED
  BY <1>8, <1>9, <1>10

(* A run that fails drops what is in flight.                                *)
LEMMA FailingFacts ==
    ASSUME NEW j \in Job
    PROVE  /\ Failing(j) \in Job
           /\ Failing(j).pc = "failed" /\ Failing(j).failed = j.failed
           /\ Failing(j).todo = {} /\ DOMAIN Failing(j).open = {}
           /\ Failing(j).tmp = {} /\ Failing(j).loose = {}
           /\ Failing(j).op = j.op /\ Failing(j).man = j.man
           /\ Failing(j).faulted = j.faulted /\ Failing(j).torn = j.torn
           /\ Failing(j).edited = j.edited
<1>1. NoOpen \in Flights /\ DOMAIN NoOpen = {}
  BY NoOpenFacts
<1>2. Failing(j) \in Job
  BY <1>1 DEF Failing, Job, Flights
<1>3. /\ Failing(j).pc = "failed" /\ Failing(j).failed = j.failed
      /\ Failing(j).todo = {} /\ Failing(j).open = NoOpen
      /\ Failing(j).tmp = {} /\ Failing(j).loose = {}
      /\ Failing(j).op = j.op /\ Failing(j).man = j.man
      /\ Failing(j).faulted = j.faulted /\ Failing(j).torn = j.torn
      /\ Failing(j).edited = j.edited
  BY DEF Failing, Job
<1>4. QED
  BY <1>1, <1>2, <1>3

(* A lost download leaves a sync its other ones, and ends a verify.         *)
LEMMA LostFacts ==
    ASSUME job \in Job, NEW j \in Job, SameRun(j), j.pc = job.pc
    PROVE  /\ Lost(j) \in Job /\ SameRun(Lost(j))
           /\ [Lost(j) EXCEPT !.faulted = TRUE] \in Job
           /\ job.pc = "download" =>
                 /\ Lost(j).pc = "download" /\ Lost(j).failed
                 /\ Lost(j).todo = j.todo /\ Lost(j).open = j.open
                 /\ Lost(j).tmp = j.tmp /\ Lost(j).loose = j.loose
           /\ job.pc # "download" =>
                 /\ Lost(j).pc = "failed" /\ Lost(j).failed = j.failed
                 /\ Lost(j).todo = {} /\ DOMAIN Lost(j).open = {}
                 /\ Lost(j).tmp = {} /\ Lost(j).loose = {}
<1>1. Lost(j) \in Job => [Lost(j) EXCEPT !.faulted = TRUE] \in Job
  BY JobEdits
<1>2. CASE job.pc = "download"
  <2>1. Lost(j) = [j EXCEPT !.failed = TRUE]
    BY <1>2 DEF Lost
  <2>2. QED
    BY <1>1, <1>2, <2>1 DEF Job, SameRun
<1>3. CASE job.pc # "download"
  <2>1. Lost(j) = Failing(j)
    BY <1>3 DEF Lost
  <2>2. QED
    BY <1>1, <1>3, <2>1, FailingFacts DEF SameRun
<1>4. QED
  BY <1>2, <1>3

(* What is left to do without one of it.                                    *)
LEMMA SkippedFacts ==
    ASSUME job \in Job, NEW p, NEW j, j = [job EXCEPT !.todo = @ \ {p}]
    PROVE  /\ j \in Job /\ SameRun(j) /\ j.pc = job.pc /\ j.failed = job.failed
           /\ j.todo = job.todo \ {p} /\ j.open = job.open
           /\ j.tmp = job.tmp /\ j.loose = job.loose
<1>1. job.todo \ {p} \subseteq Path
  BY DEF Job
<1>2. QED
  BY <1>1 DEF Job, SameRun

(* The steps of a download: it begins, it lands, or it is lost.             *)
Fetch(p) == Open(p) \/ Land(p) \/ RenameFails(p) \/ Mismatch(p)

LEMMA FetchJob ==
    ASSUME TypeOK, JobInv, NEW p \in Path, Fetch(p)
    PROVE  /\ job.pc \in {"download", "repair"} /\ Sound(job.man)
           /\ p \in DOMAIN job.man.files
           /\ \/ Open(p) /\ Reachable(p) /\ job' = Opened(p)
              \/ Land(p) /\ job' = Landed(p)
              \/ \E j \in Job :
                    /\ SameRun(j) /\ j.pc = job.pc /\ job' = Lost(j)
                    /\ \/ Open(p) /\ ~Reachable(p) /\ j = [job EXCEPT !.todo = @ \ {p}]
                       \/ RenameFails(p) /\ j = Closed(p)
                       \/ Mismatch(p) /\ j = Unlinked(p)
<1>0. job \in Job
  BY DEF TypeOK
<1>1. CASE Open(p)
  <2>1. job.pc \in {"download", "repair"} /\ p \in job.todo
    BY <1>1 DEF Open
  <2>2. Sound(job.man) /\ p \in DOMAIN job.man.files
    BY <2>1 DEF JobInv
  <2>3. CASE Reachable(p)
    BY <1>1, <2>1, <2>2, <2>3 DEF Open
  <2>4. CASE ~Reachable(p)
    <3> DEFINE j == [job EXCEPT !.todo = @ \ {p}]
    <3>1. j \in Job /\ SameRun(j) /\ j.pc = job.pc
      BY <1>0, SkippedFacts
    <3>2. job' = Lost(j)
      BY <1>1, <2>4 DEF Open
    <3> HIDE DEF j
    <3>3. j = [job EXCEPT !.todo = @ \ {p}]
      BY DEF j
    <3>4. QED
      BY <1>1, <2>1, <2>2, <2>4, <3>1, <3>2, <3>3
  <2>5. QED
    BY <2>3, <2>4
<1>2. ASSUME p \in DOMAIN job.open
      PROVE  /\ job.pc \in {"download", "repair"} /\ Sound(job.man)
             /\ p \in DOMAIN job.man.files
  BY <1>2 DEF JobInv
<1>3. CASE Land(p)
  BY <1>2, <1>3 DEF Land
<1>4. CASE RenameFails(p)
  <2>1. Closed(p) \in Job /\ SameRun(Closed(p)) /\ Closed(p).pc = job.pc
    BY <1>0, ClosedFacts
  <2>2. p \in DOMAIN job.open /\ job' = Lost(Closed(p))
    BY <1>4 DEF RenameFails
  <2>3. QED
    BY <1>2, <1>4, <2>1, <2>2
<1>5. CASE Mismatch(p)
  <2>1. Unlinked(p) \in Job /\ SameRun(Unlinked(p)) /\ Unlinked(p).pc = job.pc
    BY <1>0, ClosedFacts
  <2>2. p \in DOMAIN job.open /\ job' = Lost(Unlinked(p))
    BY <1>5 DEF Mismatch
  <2>3. QED
    BY <1>2, <1>5, <2>1, <2>2
<1>6. QED
  BY <1>1, <1>3, <1>4, <1>5 DEF Fetch

(* An error of the network or the disk is kept in the history.             *)
LEMMA FaultJob ==
    ASSUME job \in Job, Fault
    PROVE  /\ job' \in Job /\ job'.faulted /\ job'.op = job.op /\ job'.man = job.man
           /\ job'.edited = job.edited
           /\ \E p, j : /\ \/ j = [job EXCEPT !.todo = @ \ {p}]
                           \/ p \in DOMAIN job.open /\ j \in {Closed(p), Unlinked(p)}
                        /\ j \in Job /\ SameRun(j) /\ j.pc = job.pc
                        /\ job' = [Lost(j) EXCEPT !.faulted = TRUE]
<1>1. PICK p, j : /\ \/ j = [job EXCEPT !.todo = @ \ {p}]
                     \/ p \in DOMAIN job.open /\ j \in {Closed(p), Unlinked(p)}
                  /\ job' = [Lost(j) EXCEPT !.faulted = TRUE]
  BY DEF Fault
<1>2. j \in Job /\ SameRun(j) /\ j.pc = job.pc
  <2>1. CASE j = [job EXCEPT !.todo = @ \ {p}]
    BY <2>1, SkippedFacts
  <2>2. CASE j \in {Closed(p), Unlinked(p), Landed(p)}
    BY <2>2, ClosedFacts
  <2>3. QED
    BY <1>1, <2>1, <2>2
<1>3. Lost(j) \in Job /\ SameRun(Lost(j)) /\ job' \in Job
  BY <1>1, <1>2, LostFacts
<1>4. job'.faulted /\ job'.op = job.op /\ job'.man = job.man /\ job'.edited = job.edited
  BY <1>1, <1>3 DEF Job, SameRun
<1>5. QED
  BY <1>1, <1>2, <1>3, <1>4

(* A run keeps its type: what is left to do are paths.                      *)
LEMMA JobTypeStep ==
    ASSUME TypeOK, ServerInv, JobInv, [Next]_vars
    PROVE  job' \in Job
<1>0. job \in Job /\ job.todo \subseteq Path /\ job.edited \subseteq Key
  BY DEF TypeOK, Job
<1>1. CASE \E op \in {"sync", "verify"} : Start(op)
  BY <1>1, StartFacts
<1>2. ASSUME NEW p \in Path, Fetch(p)
      PROVE  job' \in Job
  <2>1. CASE Open(p) /\ Reachable(p) /\ job' = Opened(p)
    BY <1>0, <2>1, OpenedFacts DEF Reachable, TypeOK
  <2>2. CASE job' = Landed(p)
    BY <1>0, <2>2, ClosedFacts
  <2>3. ASSUME NEW j \in Job, SameRun(j), j.pc = job.pc, job' = Lost(j)
        PROVE  job' \in Job
    BY <1>0, <2>3, LostFacts
  <2>4. QED
    BY <1>2, <2>1, <2>2, <2>3, FetchJob
<1>3. ASSUME NEW p \in Path, Check(p) \/ Delete(p)
      PROVE  job' \in Job
  BY <1>0, <1>3, SkippedFacts DEF Check, Delete
<1>4. CASE Fault
  BY <1>0, <1>4, FaultJob
<1>5. CASE EndDownloads
  <2>1. job.man.delete \subseteq Path
    BY <1>5, SoundFacts DEF EndDownloads, JobInv
  <2>2. CASE job.failed
    BY <1>0, <1>5, <2>2, FailingFacts DEF EndDownloads
  <2>3. CASE ~job.failed
    <3>1. job' = [job EXCEPT !.pc = "delete", !.todo = job.man.delete,
                             !.tmp = {}, !.loose = {}]
      BY <1>5, <2>3 DEF EndDownloads
    <3>2. QED
      BY <1>0, <2>1, <3>1, JobEdits
  <2>4. QED
    BY <2>2, <2>3
<1>6. CASE EndDeletes
  <2>1. DOMAIN job.man.files \subseteq Path
    BY <1>6, SoundFacts DEF EndDeletes, JobInv
  <2>2. CASE job.op = "sync"
    <3>1. job' = [job EXCEPT !.pc = "done"]
      BY <1>6, <2>2 DEF EndDeletes
    <3>2. QED
      BY <1>0, <3>1, JobEdits
  <2>3. CASE job.op # "sync"
    <3>1. job' = [job EXCEPT !.pc = "repair", !.todo = DOMAIN job.man.files]
      BY <1>6, <2>3 DEF EndDeletes
    <3>2. QED
      BY <1>0, <2>1, <3>1, JobEdits
  <2>4. QED
    BY <2>2, <2>3
<1>7. CASE EndRepairs
  <2>1. job' = [job EXCEPT !.pc = "done"]
    BY <1>7 DEF EndRepairs
  <2>2. QED
    BY <1>0, <2>1, JobEdits
<1>8. CASE End
  BY <1>8, NoOpenFacts DEF End, NoJob, Job, Flights
<1>9. CASE Edit
  <2>1. PICK k \in Edited :
           job' = IF Running THEN [job EXCEPT !.edited = @ \cup {k}] ELSE job
    BY <1>9 DEF Edit
  <2>2. job.edited \cup {k} \subseteq Key
    BY <1>0, PackSyncAssumption
  <2>3. CASE Running
    BY <1>0, <2>1, <2>2, <2>3, JobEdits
  <2>4. QED
    BY <1>0, <2>1, <2>3
<1>10. CASE UNCHANGED vars
  BY <1>0, <1>10 DEF vars
<1>11. CASE Watch
  BY <1>0, <1>11, WatchFacts
<1>12. QED
  BY <1>1, <1>2, <1>3, <1>4, <1>5, <1>6, <1>7, <1>8, <1>9, <1>10, <1>11, Steps
  DEF Launching, Fetch

(* A download that ends leaves the others' names as they were: only one of  *)
(* a second name loses its file.                                            *)
LEMMA ClosedInv ==
    ASSUME job \in Job, NEW F, NEW p,
           DOMAIN job.open \cup job.tmp \cup job.loose \subseteq F,
           NEW j, j \in {Closed(p), Unlinked(p), Landed(p)},
           \A q \in job.loose : ~(\A r \in F : Fold[r] = Fold[q] => r = q),
           \A q \in DOMAIN job.open :
              (\A r \in F : Fold[r] = Fold[q] => r = q) => q \in job.tmp,
           p \in F
    PROVE  /\ j \in Job /\ SameRun(j) /\ j.pc = job.pc /\ j.todo = job.todo
           /\ DOMAIN j.open \cup j.tmp \cup j.loose \subseteq F
           /\ \A q \in j.loose : ~(\A r \in F : Fold[r] = Fold[q] => r = q)
           /\ \A q \in DOMAIN j.open :
                 (\A r \in F : Fold[r] = Fold[q] => r = q) => q \in j.tmp
<1> DEFINE Single(q) == \A r \in F : Fold[r] = Fold[q] => r = q
<1>1. /\ j \in Job /\ SameRun(j) /\ j.pc = job.pc /\ j.todo = job.todo
      /\ DOMAIN j.open = DOMAIN job.open \ {p} /\ j.tmp \subseteq job.tmp
      /\ \A q \in job.tmp : Fold[q] # Fold[p] => q \in j.tmp
      /\ \A q \in j.loose : q \in job.loose
                              \/ (q \in job.tmp /\ q # p /\ Fold[q] = Fold[p])
  BY ClosedFacts
<1>2. ASSUME NEW q \in j.loose PROVE q \in F /\ ~Single(q)
  BY <1>1
<1>3. ASSUME NEW q \in DOMAIN j.open, Single(q) PROVE q \in j.tmp
  <2>1. q \in job.tmp /\ q # p
    BY <1>1, <1>3
  <2>2. Fold[q] # Fold[p]
    BY <1>3, <2>1
  <2>3. QED
    BY <1>1, <2>1, <2>2
<1>4. QED
  BY <1>1, <1>2, <1>3

(* What is left to do stays part of the pinned manifest, and a download     *)
(* that has its name to itself keeps its temporary file.                    *)
LEMMA JobStep ==
    ASSUME TypeOK, ServerInv, JobInv, [Next]_vars
    PROVE  JobInv'
<1>1. promised \subseteq promised'
  BY ServerStep DEF TypeOK, ServerTypeOK
<1>2. \A man : Sound(man) => Sound(man)'
  BY <1>1 DEF Sound
<1>3. job \in Job
  BY DEF TypeOK
<1> DEFINE Single(p) == \A q \in DOMAIN job.man.files : Fold[q] = Fold[p] => q = p
<1>4. CASE \E op \in {"sync", "verify"} : Start(op)
  BY <1>2, <1>4, StartFacts DEF JobInv
<1>5. /\ \A p \in job.loose : ~Single(p)
      /\ \A p \in DOMAIN job.open : Single(p) => p \in job.tmp
  BY DEF JobInv, Alone
<1>6. ASSUME job'.man = job.man, job'.op = job.op, Sound(job.man),
             job'.pc = job.pc \/ (job'.pc = "failed" /\ job'.todo = {}),
             job.pc \in {"download", "repair"},
             job'.todo \subseteq job.todo,
             job'.pc = "failed" => DOMAIN job'.open = {},
             DOMAIN job'.open \cup job'.tmp \cup job'.loose \subseteq DOMAIN job.man.files,
             \A p \in job'.loose : ~Single(p),
             \A p \in DOMAIN job'.open : Single(p) => p \in job'.tmp
      PROVE  JobInv'
  <2>1. \A p : Alone(p)' <=> Single(p)
    BY <1>6 DEF Alone
  <2> HIDE DEF Single
  <2>2. Sound(job.man)'
    BY <1>1, <1>6 DEF Sound
  <2>3. QED
    BY <1>6, <2>1, <2>2 DEF JobInv
<1> HIDE DEF Single
<1>7. ASSUME NEW p \in Path, Fetch(p) PROVE JobInv'
  <2>1. /\ job.pc \in {"download", "repair"} /\ Sound(job.man)
        /\ p \in DOMAIN job.man.files
    BY <1>7, FetchJob
  <2>2. /\ DOMAIN job.open \cup job.tmp \cup job.loose \subseteq DOMAIN job.man.files
    BY <2>1 DEF JobInv
  <2>3. CASE Open(p) /\ Reachable(p) /\ job' = Opened(p)
    <3>1. /\ SameRun(job') /\ job'.pc = job.pc /\ job'.todo = job.todo \ {p}
          /\ job'.loose = job.loose /\ DOMAIN job'.open = DOMAIN job.open \cup {p}
          /\ p \in job'.tmp /\ job'.tmp \subseteq job.tmp \cup {p}
          /\ DOMAIN job.open \cap job.tmp \subseteq job'.tmp
      BY <1>3, <2>3, OpenedFacts DEF Reachable, TypeOK
    <3>2. QED
      BY <1>5, <1>6, <2>1, <2>2, <3>1 DEF SameRun
  <2>4. ASSUME NEW j \in {Closed(p), Unlinked(p), Landed(p)}
        PROVE  /\ j \in Job /\ SameRun(j) /\ j.pc = job.pc /\ j.todo = job.todo
               /\ DOMAIN j.open \cup j.tmp \cup j.loose \subseteq DOMAIN job.man.files
               /\ \A q \in j.loose : ~Single(q)
               /\ \A q \in DOMAIN j.open : Single(q) => q \in j.tmp
    BY <1>3, <1>5, <2>1, <2>2, ClosedInv DEF Single
  <2>5. CASE job' = Landed(p)
    BY <1>3, <1>6, <2>1, <2>4, <2>5 DEF SameRun, Job
  <2>6. ASSUME NEW j \in Job, SameRun(j), j.pc = job.pc, job' = Lost(j),
               j.todo \subseteq job.todo,
               DOMAIN j.open \cup j.tmp \cup j.loose \subseteq DOMAIN job.man.files,
               \A q \in j.loose : ~Single(q),
               \A q \in DOMAIN j.open : Single(q) => q \in j.tmp
        PROVE  JobInv'
    <3>1. CASE job.pc = "download"
      BY <1>3, <1>6, <2>1, <2>6, <3>1, LostFacts DEF SameRun
    <3>2. CASE job.pc # "download"
      BY <1>3, <1>6, <2>1, <2>6, <3>2, LostFacts DEF SameRun
    <3>3. QED
      BY <3>1, <3>2
  <2>7. ASSUME NEW j \in Job, SameRun(j), j.pc = job.pc, job' = Lost(j),
               j = [job EXCEPT !.todo = @ \ {p}]
        PROVE  JobInv'
    <3>1. /\ j.todo = job.todo \ {p} /\ j.open = job.open
          /\ j.tmp = job.tmp /\ j.loose = job.loose
      BY <1>3, <2>7, SkippedFacts
    <3>2. QED
      BY <1>5, <2>2, <2>6, <2>7, <3>1
  <2>8. ASSUME NEW j \in Job, SameRun(j), j.pc = job.pc, job' = Lost(j),
               j \in {Closed(p), Unlinked(p)}
        PROVE  JobInv'
    <3>1. j \in {Closed(p), Unlinked(p), Landed(p)}
      BY <2>8
    <3>2. QED
      BY <2>4, <2>6, <2>8, <3>1
  <2>9. QED
    BY <1>7, <2>3, <2>5, <2>7, <2>8, FetchJob
<1>8. ASSUME NEW p \in Path, Check(p) PROVE JobInv'
  <2>1. /\ job.pc = "repair" /\ Sound(job.man)
        /\ SameRun(job') /\ job'.pc = job.pc /\ job'.todo = job.todo \ {p}
        /\ job'.open = job.open /\ job'.tmp = job.tmp /\ job'.loose = job.loose
    BY <1>3, <1>8, SkippedFacts DEF Check, JobInv
  <2>2. DOMAIN job.open \cup job.tmp \cup job.loose \subseteq DOMAIN job.man.files
    BY <2>1 DEF JobInv
  <2>3. QED
    BY <1>5, <1>6, <2>1, <2>2 DEF SameRun
<1>9. ASSUME job'.man = job.man, job'.op = job.op, Sound(job.man),
             job'.pc \notin {"download", "repair", "idle"} \/
               (job'.pc = "repair" /\ job'.op = "verify" /\ job'.tmp \cup job'.loose = {}
                  /\ job'.todo = DOMAIN job.man.files),
             job'.pc = "delete" =>
               job'.todo \subseteq job.man.delete /\ job'.tmp \cup job'.loose = {},
             DOMAIN job'.open = {}, job.op # "none", \A p \in job'.loose : p \in job.loose
      PROVE  JobInv'
  <2>1. \A p : Alone(p)' <=> Single(p)
    BY <1>9 DEF Alone, Single
  <2>2. Sound(job.man)'
    BY <1>1, <1>9 DEF Sound
  <2>3. \A p \in job'.loose : ~Alone(p)'
    BY <1>5, <1>9, <2>1
  <2>4. CASE job'.pc = "repair"
    BY <1>9, <2>2, <2>3, <2>4 DEF JobInv
  <2>5. CASE job'.pc # "repair"
    <3>1. job'.pc = "delete" => job'.tmp \cup job'.loose = {}
      BY <1>9, <2>5
    <3>2. QED
      BY <1>9, <2>2, <2>3, <2>5, <3>1 DEF JobInv
  <2>6. QED
    BY <2>4, <2>5
<1>10. ASSUME NEW p \in Path, Delete(p) PROVE JobInv'
  <2>1. /\ job.pc = "delete" /\ Sound(job.man) /\ job.todo \subseteq job.man.delete
        /\ SameRun(job') /\ job'.pc = job.pc /\ job'.todo = job.todo \ {p}
        /\ job'.open = job.open /\ job'.loose = job.loose /\ job'.tmp = job.tmp
        /\ job.tmp \cup job.loose = {} /\ DOMAIN job.open = {} /\ job.op # "none"
    BY <1>3, <1>10, SkippedFacts DEF Delete, JobInv
  <2>2. QED
    BY <1>9, <2>1 DEF SameRun
<1>11. CASE Fault
  <2>1. PICK p, j : /\ \/ j = [job EXCEPT !.todo = @ \ {p}]
                       \/ p \in DOMAIN job.open /\ j \in {Closed(p), Unlinked(p)}
                    /\ j \in Job /\ SameRun(j) /\ j.pc = job.pc
                    /\ job' = [Lost(j) EXCEPT !.faulted = TRUE]
    BY <1>3, <1>11, FaultJob
  <2>2. /\ Running /\ Sound(job.man) /\ job.op # "none"
    BY <1>11 DEF Fault, Running, JobInv
  <2>3. /\ Lost(j) \in Job /\ SameRun(Lost(j))
    BY <1>3, <2>1, LostFacts
  <2>4. /\ job'.op = job.op /\ job'.man = job.man /\ job'.pc = Lost(j).pc
        /\ job'.todo = Lost(j).todo /\ job'.open = Lost(j).open
        /\ job'.tmp = Lost(j).tmp /\ job'.loose = Lost(j).loose
    BY <2>1, <2>3 DEF Job, SameRun
  <2>5. CASE job.pc = "download"
    <3>1. DOMAIN job.open \cup job.tmp \cup job.loose \subseteq DOMAIN job.man.files
      BY <2>5 DEF JobInv
    <3>2. /\ j.todo \subseteq job.todo
          /\ DOMAIN j.open \cup j.tmp \cup j.loose \subseteq DOMAIN job.man.files
          /\ \A q \in j.loose : ~Single(q)
          /\ \A q \in DOMAIN j.open : Single(q) => q \in j.tmp
      <4>1. CASE j = [job EXCEPT !.todo = @ \ {p}]
        <5>1. /\ j.todo = job.todo \ {p} /\ j.open = job.open
              /\ j.tmp = job.tmp /\ j.loose = job.loose
          BY <1>3, <4>1, SkippedFacts
        <5>2. QED
          BY <1>5, <3>1, <5>1
      <4>2. CASE j \in {Closed(p), Unlinked(p), Landed(p)} /\ p \in DOMAIN job.open
        BY <1>3, <1>5, <3>1, <4>2, ClosedInv DEF Single
      <4>3. QED
        BY <2>1, <4>1, <4>2
    <3>3. QED
      BY <1>3, <1>6, <2>1, <2>2, <2>4, <2>5, <3>2, LostFacts
  <2>6. CASE job.pc # "download"
    <3>1. job'.pc = "failed" /\ DOMAIN job'.open = {} /\ job'.loose = {}
      BY <1>3, <2>1, <2>4, <2>6, LostFacts
    <3>2. QED
      BY <1>9, <2>2, <2>4, <3>1
  <2>7. QED
    BY <2>5, <2>6
<1>12. CASE EndDownloads
  <2>1. /\ job.pc = "download" /\ Sound(job.man) /\ job.op # "none"
        /\ DOMAIN job.open = {}
    BY <1>12 DEF EndDownloads, JobInv
  <2>2. CASE job.failed
    <3>1. job' = Failing(job)
      BY <1>12, <2>2 DEF EndDownloads
    <3>2. QED
      BY <1>3, <1>9, <2>1, <3>1, FailingFacts
  <2>3. CASE ~job.failed
    <3>1. job' = [job EXCEPT !.pc = "delete", !.todo = job.man.delete,
                             !.tmp = {}, !.loose = {}]
      BY <1>12, <2>3 DEF EndDownloads
    <3>2. /\ job'.man = job.man /\ job'.op = job.op /\ job'.pc = "delete"
          /\ job'.todo = job.man.delete /\ job'.open = job.open
          /\ job'.tmp = {} /\ job'.loose = {}
      BY <1>3, <3>1 DEF Job
    <3>3. QED
      BY <1>9, <2>1, <3>2
  <2>4. QED
    BY <2>2, <2>3
<1>13. CASE EndDeletes
  <2>1. /\ job.pc = "delete" /\ Sound(job.man) /\ job.op # "none"
        /\ DOMAIN job.open = {}
    BY <1>13 DEF EndDeletes, JobInv
  <2>2. CASE job.op = "sync"
    <3>1. job' = [job EXCEPT !.pc = "done"]
      BY <1>13, <2>2 DEF EndDeletes
    <3>2. /\ job'.man = job.man /\ job'.op = job.op /\ job'.pc = "done"
          /\ job'.open = job.open /\ job'.loose = job.loose
      BY <1>3, <3>1 DEF Job
    <3>3. QED
      BY <1>9, <2>1, <3>2
  <2>3. CASE job.op # "sync"
    <3>1. job' = [job EXCEPT !.pc = "repair", !.todo = DOMAIN job.man.files]
      BY <1>13, <2>3 DEF EndDeletes
    <3>2. /\ job'.man = job.man /\ job'.op = job.op /\ job'.pc = "repair"
          /\ job'.todo = DOMAIN job.man.files /\ job'.open = job.open
          /\ job'.tmp = job.tmp /\ job'.loose = job.loose /\ job.op = "verify"
      BY <1>3, <2>1, <2>3, <3>1 DEF Job
    <3>3. job.tmp \cup job.loose = {}
      BY <2>1, <2>3 DEF JobInv
    <3>4. QED
      BY <1>9, <2>1, <3>2, <3>3
  <2>4. QED
    BY <2>2, <2>3
<1>14. CASE EndRepairs
  <2>1. job' = [job EXCEPT !.pc = "done"]
    BY <1>14 DEF EndRepairs
  <2>2. /\ job'.man = job.man /\ job'.op = job.op /\ job'.pc = "done"
        /\ job'.open = job.open /\ job'.loose = job.loose
    BY <1>3, <2>1 DEF Job
  <2>3. Sound(job.man) /\ job.op # "none" /\ DOMAIN job.open = {}
    BY <1>14 DEF EndRepairs, JobInv
  <2>4. QED
    BY <1>9, <2>2, <2>3
<1>15. CASE End
  <2>1. job' = NoJob
    BY <1>15 DEF End
  <2>2. /\ job'.pc = "idle" /\ DOMAIN job'.open = {} /\ job'.loose = {}
    BY <2>1, NoOpenFacts DEF NoJob
  <2>3. QED
    BY <2>2 DEF JobInv
<1>16. ASSUME job'.op = job.op, job'.pc = job.pc, job'.man = job.man,
              job'.todo = job.todo, job'.open = job.open, job'.tmp = job.tmp,
              job'.loose = job.loose
       PROVE  JobInv'
  BY <1>2, <1>16 DEF JobInv, Alone
<1>17. CASE Edit
  <2>1. \E k : job' = IF Running THEN [job EXCEPT !.edited = @ \cup {k}] ELSE job
    BY <1>17 DEF Edit
  <2>2. QED
    BY <1>3, <1>16, <2>1 DEF Job
<1>18. CASE UNCHANGED vars
  BY <1>16, <1>18 DEF vars
<1>19. CASE Watch
  BY <1>3, <1>16, <1>19, WatchFacts
<1>20. QED
  BY <1>4, <1>7, <1>8, <1>10, <1>11, <1>12, <1>13, <1>14, <1>15, <1>17, <1>18, <1>19,
     Steps
  DEF Launching, Fetch

-----------------------------------------------------------------------------
(* How the steps of the launcher change the game directory: outside of K,   *)
(* every file stays and none appears.                                       *)
FilesKept(K) ==
    \A j \in Key \ K : (disk[j] \in File \/ disk'[j] \in File) => disk'[j] = disk[j]

DirsKept == \A j \in Key : disk[j] = Dir => disk'[j] = Dir

(* Creating directories changes no file.                                    *)
LEMMA CreateStep ==
    ASSUME disk \in Disk, DiskInv, NEW k \in Key, disk' = MakeDirs(k)
    PROVE  disk' \in Disk /\ DiskInv' /\ FilesKept({}) /\ DirsKept
BY MakeDirsFacts DEF DiskInv, FilesKept, DirsKept

(* A file is written, or removed, under directories that are made first.    *)
LEMMA WriteStep ==
    ASSUME disk \in Disk, DiskInv, NEW k \in Key, NEW c \in File \cup {Absent},
           disk[k] # Dir, \A d \in Above[k] : MakeDirs(k)[d] = Dir,
           disk' = [MakeDirs(k) EXCEPT ![k] = c]
    PROVE  disk' \in Disk /\ DiskInv' /\ FilesKept({k}) /\ disk'[k] = c /\ DirsKept
<1> DEFINE m == MakeDirs(k)
<1>1. /\ m \in Disk /\ \A j \in Key : disk[j] = Dir => m[j] = Dir
      /\ \A j \in Key : disk[j] \in File <=> m[j] \in File
      /\ \A j \in Key : disk[j] \in File => m[j] = disk[j]
      /\ \A j \in Key : m[j] # Absent => \A d \in Above[j] : m[d] = Dir
      /\ \A j \in Key : j \notin Above[k] => m[j] = disk[j]
  BY MakeDirsFacts
<1>2. disk' = [m EXCEPT ![k] = c] /\ \A d \in Above[k] : m[d] = Dir
  OBVIOUS
<1> HIDE DEF m
<1>3. Above[k] \subseteq Key /\ k \notin Above[k]
  BY PackSyncAssumption
<1>4. m[k] # Dir
  BY <1>1, <1>3
<1>5. disk' \in Disk /\ disk'[k] = c /\ \A j \in Key \ {k} : disk'[j] = m[j]
  BY <1>1, <1>2 DEF Disk
<1>6. FilesKept({k})
  BY <1>1, <1>5 DEF FilesKept
<1>7. ASSUME NEW j \in Key, disk'[j] # Absent, NEW d \in Above[j]
      PROVE  disk'[d] = Dir
  <2>1. d \in Key
    BY PackSyncAssumption
  <2>2. m[d] = Dir
    BY <1>1, <1>2, <1>5, <1>7
  <2>3. QED
    BY <1>4, <1>5, <2>1, <2>2
<1>8. DirsKept
  BY <1>1, <1>5 DEF DirsKept
<1>9. QED
  BY <1>5, <1>6, <1>7, <1>8 DEF DiskInv

(* A plain file goes, with the directories that held nothing else.          *)
LEMMA RemoveStep ==
    ASSUME disk \in Disk, DiskInv, NEW k \in Key, disk[k] \in File,
           disk' = [j \in Key |-> IF j \in {k} \cup Prunable(k) THEN Absent
                                  ELSE disk[j]]
    PROVE  disk' \in Disk /\ DiskInv' /\ FilesKept({k}) /\ disk'[k] = Absent
<1>1. /\ Above[k] \subseteq Key
      /\ \A j \in Key : \A d \in Above[j] : d \in Key /\ Above[d] \subseteq Above[j]
  BY PackSyncAssumption
<1>2. disk' \in Disk /\ disk'[k] = Absent
  BY DEF Disk
<1>3. \A d \in Prunable(k) : d \in Above[k] /\ disk[d] = Dir
  BY Kinds DEF Prunable, DiskInv
<1>4. FilesKept({k})
  BY <1>3, Kinds DEF FilesKept
<1>5. ASSUME NEW j \in Key, disk'[j] # Absent, NEW d \in Above[j]
      PROVE  disk'[d] = Dir
  <2>1. j # k /\ j \notin Prunable(k) /\ disk[j] # Absent
    BY <1>5
  <2>2. disk[d] = Dir /\ d \in Key
    BY <1>1, <2>1 DEF DiskInv
  <2>3. ASSUME d \in Prunable(k)
        PROVE  FALSE
    <3>1. j \in Above[k]
      BY <2>1, <2>3 DEF Prunable
    <3>2. \A i \in Key : j \in Above[i] => d \in Above[i]
      BY <1>1
    <3>3. j \in Prunable(k)
      BY <2>3, <3>1, <3>2 DEF Prunable
    <3>4. QED
      BY <2>1, <3>3
  <2>4. QED
    BY <2>2, <2>3, Kinds
<1>6. QED
  BY <1>2, <1>4, <1>5 DEF DiskInv

(* Options appear only where there was nothing.                             *)
LEMMA SeedStep ==
    ASSUME disk \in Disk, DiskInv, Seed
    PROVE  /\ disk' \in Disk /\ DiskInv' /\ FilesKept({Options})
           /\ disk'[Options] = IF disk[Options] = Absent THEN Seeded ELSE disk[Options]
<1>1. /\ Options \in Key /\ Above[Options] = {}
      /\ \A j \in Key : Above[j] \subseteq Key
  BY PackSyncAssumption
<1>2. /\ disk' \in Disk /\ \A j \in Key \ {Options} : disk'[j] = disk[j]
      /\ disk'[Options] = IF disk[Options] = Absent THEN Seeded ELSE disk[Options]
  BY <1>1, Kinds DEF Seed, Disk
<1>3. DiskInv'
  BY <1>1, <1>2, Kinds DEF DiskInv
<1>4. QED
  BY <1>2, <1>3 DEF FilesKept

(* A file is replaced where it lies.                                        *)
LEMMA ReplaceStep ==
    ASSUME disk \in Disk, DiskInv, NEW k \in Key, NEW c \in Packed, disk[k] # Dir,
           \A d \in Above[k] : disk[d] = Dir, disk' = [disk EXCEPT ![k] = c]
    PROVE  disk' \in Disk /\ DiskInv' /\ FilesKept({k}) /\ disk'[k] = c /\ DirsKept
<1>1. Above[k] \subseteq Key /\ \A j \in Key : Above[j] \subseteq Key
  BY PackSyncAssumption
<1>2. disk' \in Disk /\ disk'[k] = c /\ \A j \in Key \ {k} : disk'[j] = disk[j]
  BY Kinds DEF Disk
<1>3. FilesKept({k}) /\ DirsKept
  BY <1>2 DEF FilesKept, DirsKept
<1>4. ASSUME NEW j \in Key, disk'[j] # Absent, NEW d \in Above[j]
      PROVE  disk'[d] = Dir
  <2>1. d \in Key /\ disk[d] = Dir
    BY <1>1, <1>2, <1>4 DEF DiskInv
  <2>2. QED
    BY <1>3, <2>1 DEF DirsKept
<1>5. QED
  BY <1>2, <1>3, <1>4 DEF DiskInv

(* What several downloads leave in a file is of the pack, whole or not.     *)
LEMMA PiecesFacts ==
    ASSUME NEW S
    PROVE  Pieces(S) \subseteq Packed
BY DEF Pieces, Packed

(* Only one whose file another has renamed writes to what is installed.     *)
LEMMA SpillStep ==
    ASSUME disk \in Disk, DiskInv, NEW p \in Path, Spill(p)
    PROVE  /\ disk' \in Disk /\ DiskInv' /\ DirsKept /\ FilesKept({Fold[p]})
           /\ \/ FilesKept({})
              \/ p \in job.loose /\ disk'[Fold[p]] \in Packed
<1>1. Fold[p] \in Key
  BY PackSyncAssumption
<1>2. CASE disk' = disk
  BY <1>2 DEF DiskInv, DirsKept, FilesKept
<1>3. CASE p \in job.loose /\ disk[Fold[p]] \in File
             /\ \E c \in Pieces({p}) : disk' = [disk EXCEPT ![Fold[p]] = c]
  <2>1. PICK c \in Packed : disk' = [disk EXCEPT ![Fold[p]] = c]
    BY <1>3, PiecesFacts
  <2>2. disk[Fold[p]] # Dir /\ \A d \in Above[Fold[p]] : disk[d] = Dir
    BY <1>1, <1>3, Kinds DEF DiskInv
  <2>3. QED
    BY <1>1, <1>3, <2>1, <2>2, ReplaceStep
<1>4. QED
  BY <1>2, <1>3 DEF Spill

(* A file that is installed is what the manifest lists, where no other name *)
(* shares its temporary file.                                               *)
LEMMA LandStep ==
    ASSUME TypeOK, JobInv, DiskInv, ParentsInv, NEW p \in Path, Land(p)
    PROVE  /\ disk' \in Disk /\ DiskInv' /\ DirsKept /\ FilesKept({Fold[p]})
           /\ disk'[Fold[p]] \in Packed
           /\ Alone(p) => disk'[Fold[p]] = job.man.files[p]
<1>1. disk \in Disk /\ Fold[p] \in Key
  BY PackSyncAssumption DEF TypeOK, Disk
<1>2. /\ p \in DOMAIN job.open /\ job.open[p] = job.man.files[p]
      /\ disk[Fold[p]] # Dir /\ \A d \in Above[Fold[p]] : disk[d] = Dir
  BY DEF Land, Intact, ParentsInv
<1>3. Sound(job.man) /\ job.tmp \subseteq DOMAIN job.man.files
      /\ p \in DOMAIN job.man.files
  BY <1>2 DEF JobInv
<1>4. job.man.files[p] \in Packed
  BY <1>3, SoundFacts, Kinds
<1>5. PICK c : /\ disk' = [disk EXCEPT ![Fold[p]] = c]
               /\ c \in IF Writers(p) = {p} THEN {job.open[p]} ELSE Pieces(Writers(p))
  BY DEF Land
<1>6. c \in Packed
  BY <1>2, <1>4, <1>5, PiecesFacts
<1>7. ASSUME Alone(p) PROVE c = job.man.files[p]
  <2>1. p \in Writers(p)
    BY <1>2, <1>7 DEF Writers, JobInv
  <2>2. Writers(p) = {p}
    BY <1>3, <1>7, <2>1 DEF Writers, Alone
  <2>3. QED
    BY <1>2, <1>5, <2>2
<1>8. QED
  BY <1>1, <1>2, <1>5, <1>6, <1>7, ReplaceStep

(* The steps of a download, told by the file they may change.               *)
LEMMA FetchStep ==
    ASSUME TypeOK, JobInv, DiskInv, ParentsInv, NEW p \in Path, Fetch(p)
    PROVE  /\ job.pc \in {"download", "repair"} /\ Sound(job.man)
           /\ p \in DOMAIN job.man.files /\ Fold[p] \in Key
           /\ disk' \in Disk /\ DiskInv' /\ DirsKept /\ FilesKept({Fold[p]})
           /\ FilesKept({}) \/ disk'[Fold[p]] \in Packed
           /\ FilesKept({}) \/ ~Alone(p) \/ disk'[Fold[p]] = job.man.files[p]
<1>1. /\ job.pc \in {"download", "repair"} /\ Sound(job.man)
      /\ p \in DOMAIN job.man.files
  BY FetchJob
<1>2. disk \in Disk /\ Fold[p] \in Key
  BY PackSyncAssumption DEF TypeOK, Disk
<1>3. FilesKept({}) => FilesKept({Fold[p]})
  BY DEF FilesKept
<1>4. CASE Open(p)
  <2>1. disk' = MakeDirs(Fold[p])
    BY <1>4 DEF Open
  <2>2. disk' \in Disk /\ DiskInv' /\ FilesKept({}) /\ DirsKept
    BY <1>2, <2>1, CreateStep
  <2>3. QED
    BY <1>1, <1>2, <1>3, <2>2
<1>5. CASE Land(p)
  BY <1>1, <1>2, <1>5, LandStep
<1>6. CASE Spill(p)
  <2>1. p \in job.loose => ~Alone(p)
    BY DEF JobInv
  <2>2. QED
    BY <1>1, <1>2, <1>6, <2>1, SpillStep
<1>7. QED
  BY <1>4, <1>5, <1>6 DEF Fetch, RenameFails, Mismatch

(* An error changes no file but one that is being written.                  *)
LEMMA FaultStep ==
    ASSUME TypeOK, JobInv, DiskInv, Fault
    PROVE  /\ disk' \in Disk /\ DiskInv' /\ DirsKept
           /\ \/ FilesKept({})
              \/ \E p \in DOMAIN job.man.files :
                    /\ p \in Path /\ Sound(job.man) /\ Fold[p] \in Key
                    /\ FilesKept({Fold[p]}) /\ disk'[Fold[p]] \in Packed /\ ~Alone(p)
<1>1. disk \in Disk
  BY DEF TypeOK, Disk
<1>2. CASE disk' = disk
  BY <1>1, <1>2 DEF DiskInv, DirsKept, FilesKept
<1>3. ASSUME NEW p \in DOMAIN job.open, Spill(p)
      PROVE  /\ disk' \in Disk /\ DiskInv' /\ DirsKept
             /\ \/ FilesKept({})
                \/ /\ p \in DOMAIN job.man.files /\ p \in Path /\ Sound(job.man)
                   /\ Fold[p] \in Key /\ FilesKept({Fold[p]})
                   /\ disk'[Fold[p]] \in Packed /\ ~Alone(p)
  <2>1. Sound(job.man) /\ p \in DOMAIN job.man.files
    BY DEF JobInv
  <2>2. p \in Path /\ Fold[p] \in Key
    BY <2>1, SoundFacts, PackSyncAssumption
  <2>3. p \in job.loose => ~Alone(p)
    BY DEF JobInv
  <2>4. QED
    BY <1>1, <1>3, <2>1, <2>2, <2>3, SpillStep
<1>4. QED
  BY <1>2, <1>3 DEF Fault

(* apply_deletes leaves no file at its entry.                               *)
LEMMA DeleteStep ==
    ASSUME disk \in Disk, DiskInv, JobInv, NEW p \in Path, Delete(p)
    PROVE  /\ p \in job.man.delete /\ Sound(job.man)
           /\ disk' \in Disk /\ DiskInv' /\ FilesKept({Fold[p]})
           /\ disk'[Fold[p]] \notin File
<1>1. p \in job.man.delete /\ Sound(job.man) /\ Fold[p] \in Key
  BY PackSyncAssumption DEF Delete, JobInv
<1>2. CASE disk[Fold[p]] \in File
  BY <1>1, <1>2, RemoveStep, Kinds DEF Delete
<1>3. CASE disk[Fold[p]] \notin File
  BY <1>1, <1>3 DEF Delete, DiskInv, FilesKept
<1>4. QED
  BY <1>1, <1>2, <1>3

(* The player writes one file, or removes one.                              *)
LEMMA EditStep ==
    ASSUME disk \in Disk, DiskInv, Edit
    PROVE  \E k \in Edited :
             /\ k \in Key /\ disk' \in Disk /\ DiskInv' /\ FilesKept({k})
             /\ disk'[k] \in {User, Absent} /\ DirsKept
             /\ job' = IF Running THEN [job EXCEPT !.edited = @ \cup {k}] ELSE job
<1>1. PICK k \in Edited :
         /\ disk[k] # Dir /\ \A d \in Above[k] : disk[d] \notin File
         /\ \E c \in {User, Absent} : disk' = [MakeDirs(k) EXCEPT ![k] = c]
         /\ job' = IF Running THEN [job EXCEPT !.edited = @ \cup {k}] ELSE job
  BY DEF Edit
<1>2. PICK c \in {User, Absent} : disk' = [MakeDirs(k) EXCEPT ![k] = c]
  BY <1>1
<1>3. k \in Key /\ Above[k] \subseteq Key /\ c \in File \cup {Absent}
  BY PackSyncAssumption, Kinds
<1>4. \A d \in Above[k] : MakeDirs(k)[d] = Dir
  BY <1>1, <1>3 DEF MakeDirs
<1>5. /\ disk' \in Disk /\ DiskInv' /\ FilesKept({k}) /\ disk'[k] = c /\ DirsKept
  BY <1>1, <1>2, <1>3, <1>4, WriteStep
<1>6. QED
  BY <1>1, <1>3, <1>5

(* The last step of a run seeds the options, or goes on to the files.       *)
LEMMA EndDeletesStep ==
    ASSUME disk \in Disk, DiskInv, job \in Job, JobInv, EndDeletes
    PROVE  /\ disk' \in Disk /\ DiskInv' /\ Sound(job.man)
           /\ FilesKept({Options}) /\ disk'[Options] \in {Seeded, disk[Options]}
           /\ disk[Options] # Absent => disk'[Options] = disk[Options]
           /\ job'.man = job.man /\ job'.edited = job.edited
           /\ \/ job.op = "sync" /\ job'.pc = "done"
              \/ job'.pc = "repair" /\ job'.todo = DOMAIN job.man.files
<1>1. Sound(job.man) /\ Options \in Key
  BY PackSyncAssumption DEF EndDeletes, JobInv
<1>2. CASE job.op = "sync"
  <2>1. Seed /\ job' = [job EXCEPT !.pc = "done"]
    BY <1>2 DEF EndDeletes
  <2>2. QED
    BY <1>1, <1>2, <2>1, SeedStep DEF Job
<1>3. CASE job.op # "sync"
  <2>1. disk' = disk /\ job' = [job EXCEPT !.pc = "repair", !.todo = DOMAIN job.man.files]
    BY <1>3 DEF EndDeletes
  <2>2. job'.pc = "repair" /\ job'.todo = DOMAIN job.man.files
        /\ job'.man = job.man /\ job'.edited = job.edited
    BY <2>1 DEF Job
  <2>3. QED
    BY <1>1, <2>1, <2>2 DEF DiskInv, FilesKept
<1>4. QED
  BY <1>2, <1>3

(* A verify ends like a sync, with the options.                             *)
LEMMA EndRepairsStep ==
    ASSUME disk \in Disk, DiskInv, EndRepairs
    PROVE  /\ disk' \in Disk /\ DiskInv' /\ FilesKept({Options})
           /\ disk'[Options] \in {Seeded, disk[Options]}
           /\ disk[Options] # Absent => disk'[Options] = disk[Options]
BY SeedStep DEF EndRepairs

(* The game directory keeps its type, and everything in it its directories. *)
LEMMA DiskStep ==
    ASSUME TypeOK, ServerInv, JobInv, DiskInv, ParentsInv, [Next]_vars
    PROVE  disk' \in Disk /\ DiskInv'
<1>1. disk \in Disk /\ job \in Job
  BY DEF TypeOK, Disk
<1>2. CASE \E p \in Path : Fetch(p) \/ Delete(p)
  BY <1>1, <1>2, FetchStep, DeleteStep
<1>3. CASE Edit \/ Fault
  BY <1>1, <1>3, EditStep, FaultStep
<1>4. CASE EndDeletes \/ EndRepairs
  BY <1>1, <1>4, EndDeletesStep, EndRepairsStep
<1>5. CASE disk' = disk
  BY <1>1, <1>5 DEF DiskInv
<1>6. QED
  BY <1>2, <1>3, <1>4, <1>5, Steps
     DEF Launching, Fetch, Start, Check, EndDownloads, End, Watch, vars

(* No step removes a directory while a download is in flight.               *)
LEMMA ParentsStep ==
    ASSUME TypeOK, ServerInv, JobInv, DiskInv, ParentsInv, [Next]_vars
    PROVE  ParentsInv'
<1>1. disk \in Disk /\ job \in Job /\ Fold \in [Path -> Key]
      /\ \A k \in Key : Above[k] \subseteq Key
  BY PackSyncAssumption DEF TypeOK, Disk
<1>2. \A p \in DOMAIN job.open : p \in Path
  BY SoundFacts DEF JobInv
<1>3. ASSUME DirsKept, DOMAIN job'.open \subseteq DOMAIN job.open
      PROVE  ParentsInv'
  BY <1>1, <1>2, <1>3 DEF DirsKept, ParentsInv
<1>4. ASSUME DOMAIN job'.open = {} PROVE ParentsInv'
  BY <1>4 DEF ParentsInv
<1>5. disk' = disk => DirsKept
  BY DEF DirsKept
<1>6. CASE \E op \in {"sync", "verify"} : Start(op)
  BY <1>4, <1>6, StartFacts
<1>7. ASSUME NEW p \in Path, Fetch(p) PROVE ParentsInv'
  <2>1. DirsKept
    BY <1>7, FetchStep
  <2>2. CASE Open(p) /\ Reachable(p) /\ job' = Opened(p)
    <3>1. DOMAIN job'.open = DOMAIN job.open \cup {p}
      BY <1>1, <2>2, OpenedFacts DEF Reachable, TypeOK
    <3>2. \A d \in Above[Fold[p]] : disk'[d] = Dir
      BY <2>2 DEF Open, Reachable
    <3>3. QED
      BY <1>1, <1>2, <2>1, <3>1, <3>2 DEF DirsKept, ParentsInv
  <2>3. CASE job' = Landed(p)
    <3>1. DOMAIN job'.open = DOMAIN job.open \ {p}
      BY <1>1, <2>3, ClosedFacts
    <3>2. QED
      BY <1>3, <2>1, <3>1
  <2>4. ASSUME NEW j \in Job, SameRun(j), j.pc = job.pc, job' = Lost(j),
               j = [job EXCEPT !.todo = @ \ {p}] \/ j \in {Closed(p), Unlinked(p)}
        PROVE  ParentsInv'
    <3>1. DOMAIN j.open \subseteq DOMAIN job.open
      <4>1. CASE j = [job EXCEPT !.todo = @ \ {p}]
        BY <1>1, <4>1, SkippedFacts
      <4>2. CASE j \in {Closed(p), Unlinked(p), Landed(p)}
        BY <1>1, <4>2, ClosedFacts
      <4>3. QED
        BY <2>4, <4>1, <4>2
    <3>2. DOMAIN job'.open \subseteq DOMAIN job.open
      BY <1>1, <2>4, <3>1, LostFacts
    <3>3. QED
      BY <1>3, <2>1, <3>2
  <2>5. QED
    BY <1>7, <2>2, <2>3, <2>4, FetchJob
<1>8. CASE Fault
  <2>1. PICK p, j : /\ \/ j = [job EXCEPT !.todo = @ \ {p}]
                       \/ p \in DOMAIN job.open /\ j \in {Closed(p), Unlinked(p)}
                    /\ j \in Job /\ SameRun(j) /\ j.pc = job.pc
                    /\ job' = [Lost(j) EXCEPT !.faulted = TRUE]
    BY <1>1, <1>8, FaultJob
  <2>2. DOMAIN j.open \subseteq DOMAIN job.open
    <3>1. CASE j = [job EXCEPT !.todo = @ \ {p}]
      BY <1>1, <3>1, SkippedFacts
    <3>2. CASE j \in {Closed(p), Unlinked(p), Landed(p)}
      BY <1>1, <3>2, ClosedFacts
    <3>3. QED
      BY <2>1, <3>1, <3>2
  <2>3. /\ Lost(j) \in Job /\ DOMAIN Lost(j).open \subseteq DOMAIN job.open
    BY <1>1, <2>1, <2>2, LostFacts
  <2>4. job'.open = Lost(j).open
    BY <2>1, <2>3 DEF Job
  <2>5. QED
    BY <1>3, <1>8, <2>3, <2>4, FaultStep
<1>9. CASE \E p \in Path : Check(p) \/ Delete(p)
  <2>1. job'.open = job.open
    BY <1>1, <1>9, SkippedFacts DEF Check, Delete
  <2>2. CASE \E p \in Path : Check(p)
    BY <1>3, <1>5, <2>1, <2>2 DEF Check
  <2>3. CASE \E p \in Path : Delete(p)
    <3>1. DOMAIN job.open = {}
      BY <2>3 DEF Delete, JobInv
    <3>2. QED
      BY <1>4, <2>1, <3>1
  <2>4. QED
    BY <1>9, <2>2, <2>3
<1>10. CASE EndDownloads \/ EndDeletes \/ EndRepairs
  <2>1. DOMAIN job.open = {}
    BY <1>10 DEF EndDownloads, EndDeletes, EndRepairs, JobInv
  <2>2. \/ job' = Failing(job)
        \/ job'.open = job.open
    BY <1>1, <1>10 DEF EndDownloads, EndDeletes, EndRepairs, Job
  <2>3. QED
    BY <1>1, <1>4, <2>1, <2>2, FailingFacts
<1>11. CASE End
  BY <1>4, <1>11, NoOpenFacts DEF End, NoJob
<1>12. CASE Edit
  <2>1. DirsKept /\ \E k : job' = IF Running THEN [job EXCEPT !.edited = @ \cup {k}] ELSE job
    BY <1>1, <1>12, EditStep
  <2>2. job'.open = job.open
    BY <1>1, <2>1 DEF Job
  <2>3. QED
    BY <1>3, <2>1, <2>2
<1>13. CASE UNCHANGED vars
  BY <1>3, <1>5, <1>13 DEF vars
<1>14. CASE Watch
  BY <1>1, <1>3, <1>5, <1>14, WatchFacts
<1>15. QED
  BY <1>6, <1>7, <1>8, <1>9, <1>10, <1>11, <1>12, <1>13, <1>14, Steps
  DEF Launching, Fetch

(* Every step keeps the types.                                              *)
LEMMA TypeStep ==
    ASSUME TypeOK, ServerInv, JobInv, DiskInv, ParentsInv, [Next]_vars
    PROVE  TypeOK'
BY ServerStep, JobTypeStep, DiskStep DEF TypeOK, ServerTypeOK, Disk

-----------------------------------------------------------------------------
(* One file is written that a manifest promised, or none of the pack, or    *)
(* one of two names.                                                        *)
LEMMA PromiseKept ==
    ASSUME OnlyPromised, promised \subseteq promised', NEW K \in SUBSET Key, FilesKept(K),
           \A k \in K : disk'[k] \in Packed =>
              \/ \E p \in Path : Fold[p] = k /\ <<p, disk'[k]>> \in promised'
              \/ TwoNames(k)
    PROVE  OnlyPromised'
<1>1. \A k : TwoNames(k) => TwoNames(k)'
  BY DEF TwoNames
<1>2. SUFFICES ASSUME NEW k \in Key, disk'[k] \in Packed, k \notin K
               PROVE  \/ \E p \in Path : Fold[p] = k /\ <<p, disk'[k]>> \in promised'
                      \/ TwoNames(k)'
  BY <1>1 DEF OnlyPromised
<1>3. disk'[k] = disk[k]
  BY <1>2, Kinds DEF FilesKept
<1>4. QED
  BY <1>1, <1>2, <1>3 DEF OnlyPromised

(* Two listed names of one file have both been published.                   *)
LEMMA TwoNamed ==
    ASSUME Sound(job.man), NEW p \in DOMAIN job.man.files, ~Alone(p)
    PROVE  TwoNames(Fold[p])
<1>1. PICK q \in DOMAIN job.man.files : Fold[q] = Fold[p] /\ q # p
  BY DEF Alone
<1>2. <<p, job.man.files[p]>> \in promised /\ <<q, job.man.files[q]>> \in promised
  BY SoundFacts
<1>3. QED
  BY <1>1, <1>2 DEF TwoNames

(* No step brings what no manifest has promised.                            *)
LEMMA PromisedStep ==
    ASSUME TypeOK, ServerInv, JobInv, DiskInv, ParentsInv, OnlyPromised, [Next]_vars
    PROVE  OnlyPromised'
<1>1. disk \in Disk /\ job \in Job /\ promised \subseteq promised'
  BY ServerStep DEF TypeOK, Disk, ServerTypeOK
<1>2. FilesKept({}) => OnlyPromised'
  BY <1>1, PromiseKept
<1>3. ASSUME NEW p \in Path, p \in DOMAIN job.man.files, Sound(job.man),
             FilesKept({Fold[p]}), disk'[Fold[p]] = job.man.files[p] \/ ~Alone(p)
      PROVE  OnlyPromised'
  <2>1. Fold[p] \in Key
    BY PackSyncAssumption
  <2>2. <<p, disk'[Fold[p]]>> \in promised' \/ TwoNames(Fold[p])
    BY <1>1, <1>3, SoundFacts, TwoNamed
  <2>3. QED
    BY <1>1, <1>3, <2>1, <2>2, PromiseKept
<1>4. ASSUME NEW k \in Key, FilesKept({k}), disk'[k] \notin Packed
      PROVE  OnlyPromised'
  BY <1>1, <1>4, PromiseKept
<1>5. ASSUME FilesKept({Options}), disk'[Options] \in {Seeded, disk[Options]}
      PROVE  OnlyPromised'
  <2>1. Options \in Key
    BY PackSyncAssumption
  <2>2. disk'[Options] \in Packed => disk'[Options] = disk[Options]
    BY <1>5, Kinds
  <2>3. disk'[Options] \in Packed =>
          \/ \E p \in Path : Fold[p] = Options /\ <<p, disk'[Options]>> \in promised'
          \/ TwoNames(Options)
    BY <1>1, <2>1, <2>2 DEF OnlyPromised
  <2>4. QED
    BY <1>1, <1>5, <2>1, <2>3, PromiseKept
<1>6. CASE \E p \in Path : Fetch(p)
  BY <1>1, <1>2, <1>3, <1>6, FetchStep
<1>7. CASE Fault
  BY <1>1, <1>2, <1>3, <1>7, FaultStep
<1>8. CASE \E p \in Path : Delete(p)
  <2>1. PICK p \in Path : Delete(p)
    BY <1>8
  <2>2. Fold[p] \in Key /\ FilesKept({Fold[p]}) /\ disk'[Fold[p]] \notin Packed
    BY <1>1, <2>1, DeleteStep, PackSyncAssumption, Kinds
  <2>3. QED
    BY <1>4, <2>2
<1>9. CASE Edit
  BY <1>1, <1>4, <1>9, EditStep, Kinds
<1>10. CASE EndDeletes \/ EndRepairs
  BY <1>1, <1>5, <1>10, EndDeletesStep, EndRepairsStep
<1>11. CASE disk' = disk
  BY <1>2, <1>11 DEF FilesKept
<1>12. QED
  BY <1>6, <1>7, <1>8, <1>9, <1>10, <1>11, Steps
     DEF Launching, Fetch, Start, Check, EndDownloads, End, Watch, vars

-----------------------------------------------------------------------------
(* What a run has dealt with stays so, where no other file is written.      *)
LEMMA ThereKept ==
    ASSUME Sound(job.man), NEW K \in SUBSET Key, FilesKept(K), job'.man = job.man,
           job.edited \subseteq job'.edited, NEW q \in DOMAIN job.man.files, There(q),
           Lone(q, job.man) => Fold[q] \notin K \/ Fold[q] \in job'.edited
    PROVE  There(q)'
<1>1. Fold[q] \in Key /\ job.man.files[q] \in File
  BY SoundFacts, PackSyncAssumption, Kinds
<1>2. SUFFICES ASSUME Lone(q, job.man), Fold[q] \notin job'.edited
               PROVE  disk'[Fold[q]] = job.man.files[q]
  BY DEF There, UpToDate, Lone, Names
<1>3. disk[Fold[q]] = job.man.files[q] /\ Fold[q] \notin K
  BY <1>2 DEF There, UpToDate
<1>4. QED
  BY <1>1, <1>3 DEF FilesKept

(* The same of what was deleted.                                            *)
LEMMA GoneKept ==
    ASSUME Sound(job.man), NEW K \in SUBSET Key, FilesKept(K), job'.man = job.man,
           job.edited \subseteq job'.edited, NEW q \in job.man.delete, Gone(q),
           Lone(q, job.man) => Fold[q] \notin K \/ Fold[q] \in job'.edited
    PROVE  Gone(q)'
<1>1. Fold[q] \in Key
  BY SoundFacts, PackSyncAssumption
<1>2. SUFFICES ASSUME Lone(q, job.man), Fold[q] \notin job'.edited
               PROVE  disk'[Fold[q]] \notin File
  BY DEF Gone, Lone, Names
<1>3. disk[Fold[q]] \notin File /\ Fold[q] \notin K
  BY <1>2 DEF Gone
<1>4. QED
  BY <1>1, <1>3 DEF FilesKept

(* A name that the manifest has but once has a file of its own.             *)
LEMMA LoneApart ==
    ASSUME Sound(job.man), NEW p \in Names(job.man), NEW q \in Names(job.man), p # q
    PROVE  Lone(q, job.man) => Fold[q] \notin {Fold[p]}
BY DEF Lone

LEMMA LoneAlone ==
    ASSUME NEW p, Lone(p, job.man)
    PROVE  Alone(p)
BY DEF Lone, Alone, Names

(* A download disturbs no path that was dealt with.                         *)
LEMMA ProgressFetch ==
    ASSUME TypeOK, JobInv, DiskInv, ParentsInv, ProgressInv, NEW p \in Path, Fetch(p)
    PROVE  ProgressInv'
<1>1. /\ job.pc \in {"download", "repair"} /\ Sound(job.man)
      /\ p \in DOMAIN job.man.files /\ Fold[p] \in Key /\ FilesKept({Fold[p]})
      /\ p \in Names(job.man) /\ job \in Job
  BY FetchStep DEF Names, TypeOK
<1>2. \A q \in DOMAIN job.man.files \cup job.man.delete : q \in Names(job.man)
  BY DEF Names
<1>3. ASSUME NEW q \in DOMAIN job.man.files, There(q), q # p, SameRun(job')
      PROVE  There(q)'
  BY <1>1, <1>2, <1>3, LoneApart, ThereKept DEF SameRun
<1>4. ASSUME NEW q \in job.man.delete, Gone(q), SameRun(job')
      PROVE  Gone(q)'
  <2>1. q # p
    BY <1>1, SoundFacts
  <2>2. QED
    BY <1>1, <1>2, <1>4, <2>1, LoneApart, GoneKept DEF SameRun
<1>5. ASSUME SameRun(job'), job'.pc = job.pc, job'.failed = job.failed,
             \A q \in DOMAIN job.man.files :
                q \notin job'.todo \cup DOMAIN job'.open =>
                   q \notin job.todo \cup DOMAIN job.open \/ There(q)',
             \A q \in DOMAIN job.man.files : There(q) => There(q)'
      PROVE  ProgressInv'
  <2>1. job'.man = job.man
    BY <1>5 DEF SameRun
  <2>2. job.pc = "repair" => \A q \in job.man.delete : Gone(q)'
    BY <1>4, <1>5 DEF ProgressInv
  <2>3. ASSUME job.pc = "repair" \/ ~job.failed, NEW q \in DOMAIN job.man.files,
               q \notin job'.todo \cup DOMAIN job'.open
        PROVE  There(q)'
    BY <1>1, <1>5, <2>3 DEF ProgressInv
  <2>4. QED
    BY <1>1, <1>5, <2>1, <2>2, <2>3 DEF ProgressInv
<1>6. CASE Open(p) /\ Reachable(p) /\ job' = Opened(p)
  <2>1. /\ SameRun(job') /\ job'.pc = job.pc /\ job'.failed = job.failed
        /\ job'.todo = job.todo \ {p} /\ DOMAIN job'.open = DOMAIN job.open \cup {p}
    BY <1>1, <1>6, OpenedFacts DEF Reachable, TypeOK
  <2>2. FilesKept({}) /\ {} \in SUBSET Key
    BY <1>1, <1>6, CreateStep DEF Open, TypeOK, Disk
  <2>3. ASSUME NEW q \in DOMAIN job.man.files, There(q)
        PROVE  There(q)'
    BY <1>1, <2>1, <2>2, <2>3, ThereKept DEF SameRun
  <2>4. \A q : q \notin job'.todo \cup DOMAIN job'.open =>
                  q \notin job.todo \cup DOMAIN job.open
    BY <2>1
  <2>5. QED
    BY <1>5, <2>1, <2>3, <2>4
<1>7. CASE Land(p) /\ job' = Landed(p)
  <2>1. /\ SameRun(job') /\ job'.pc = job.pc /\ job'.failed = job.failed
        /\ job'.todo = job.todo /\ DOMAIN job'.open = DOMAIN job.open \ {p}
    BY <1>1, <1>7, ClosedFacts
  <2>2. Alone(p) => disk'[Fold[p]] = job.man.files[p]
    BY <1>7, LandStep
  <2>3. There(p)'
    <3>1. Lone(p, job.man)' => Lone(p, job.man)
      BY <2>1 DEF SameRun, Lone, Names
    <3>2. Lone(p, job.man) => disk'[Fold[p]] = job.man.files[p]
      BY <2>2, LoneAlone
    <3>3. QED
      BY <2>1, <3>1, <3>2 DEF There, UpToDate, SameRun
  <2>4. \A q \in DOMAIN job.man.files : There(q) => There(q)'
    BY <1>3, <2>1, <2>3
  <2>5. \A q : q \notin job'.todo \cup DOMAIN job'.open =>
                  q \notin job.todo \cup DOMAIN job.open \/ q = p
    BY <2>1
  <2>6. QED
    BY <1>5, <2>1, <2>3, <2>4, <2>5
<1>8. ASSUME NEW j \in Job, SameRun(j), j.pc = job.pc, job' = Lost(j)
      PROVE  ProgressInv'
  <2>1. (job'.pc = "download" /\ job'.failed) \/ job'.pc = "failed"
    BY <1>1, <1>8, LostFacts
  <2>2. QED
    BY <2>1 DEF ProgressInv
<1>9. QED
  BY <1>6, <1>7, <1>8, FetchJob

(* verify goes past a file that is as it should be.                         *)
LEMMA ProgressCheck ==
    ASSUME TypeOK, JobInv, ProgressInv, NEW p \in Path, Check(p)
    PROVE  ProgressInv'
<1>1. /\ SameRun(job') /\ job'.pc = "repair" /\ job'.todo = job.todo \ {p}
      /\ job'.open = job.open /\ disk' = disk /\ job.pc = "repair"
      /\ UpToDate(p, job.man)
  BY SkippedFacts DEF Check, TypeOK
<1>2. job'.man = job.man /\ job'.edited = job.edited
  BY <1>1 DEF SameRun
<1>3. ASSUME NEW q \in DOMAIN job.man.files, q \notin job'.todo \cup DOMAIN job'.open
      PROVE  There(q)'
  <2>1. There(q)
    BY <1>1, <1>3 DEF ProgressInv, There
  <2>2. QED
    BY <1>1, <1>2, <2>1 DEF There, UpToDate, Lone, Names
<1>4. ASSUME NEW q \in job.man.delete PROVE Gone(q)'
  BY <1>1, <1>2, <1>4 DEF ProgressInv, Gone, Lone, Names
<1>5. QED
  BY <1>1, <1>2, <1>3, <1>4 DEF ProgressInv

(* A removal disturbs no file that the manifest lists.                      *)
LEMMA ProgressDelete ==
    ASSUME TypeOK, JobInv, DiskInv, ProgressInv, NEW p \in Path, Delete(p)
    PROVE  ProgressInv'
<1>1. /\ p \in job.man.delete /\ Sound(job.man) /\ Fold[p] \in Key
      /\ FilesKept({Fold[p]}) /\ disk'[Fold[p]] \notin File
      /\ p \in Names(job.man)
  BY DeleteStep, PackSyncAssumption DEF TypeOK, Disk, Names
<1>2. /\ job.pc = "delete" /\ job'.pc = "delete" /\ job'.man = job.man
      /\ job'.op = job.op /\ job'.edited = job.edited /\ job'.todo = job.todo \ {p}
  BY SkippedFacts DEF TypeOK, Delete, SameRun
<1>3. \A q \in DOMAIN job.man.files \cup job.man.delete : q \in Names(job.man)
  BY DEF Names
<1>4. ASSUME job.op = "sync", NEW q \in DOMAIN job.man.files
      PROVE  There(q)'
  <2>1. There(q) /\ q # p
    BY <1>1, <1>2, <1>4, SoundFacts DEF ProgressInv
  <2>2. QED
    BY <1>1, <1>2, <1>3, <2>1, LoneApart, ThereKept
<1>5. ASSUME NEW q \in job.man.delete, q \notin job.todo \/ q = p
      PROVE  Gone(q)'
  <2>1. CASE q = p
    BY <1>1, <2>1 DEF Gone
  <2>2. CASE q # p
    <3>1. Gone(q)
      BY <1>2, <1>5, <2>2 DEF ProgressInv
    <3>2. QED
      BY <1>1, <1>2, <1>3, <2>2, <3>1, LoneApart, GoneKept
  <2>3. QED
    BY <2>1, <2>2
<1>6. QED
  BY <1>2, <1>4, <1>5 DEF ProgressInv

(* The options belong to no path of the pack, so seeding them changes       *)
(* nothing that a run has dealt with.                                       *)
LEMMA ProgressEnds ==
    ASSUME TypeOK, JobInv, DiskInv, ProgressInv,
           EndDownloads \/ EndDeletes \/ EndRepairs
    PROVE  ProgressInv'
<1>0. disk \in Disk /\ job \in Job
  BY DEF TypeOK, Disk
<1>1. CASE EndDownloads
  <2>1. CASE job.failed
    <3>1. job'.pc = "failed"
      BY <1>0, <1>1, <2>1, FailingFacts DEF EndDownloads
    <3>2. QED
      BY <3>1 DEF ProgressInv
  <2>2. CASE ~job.failed
    <3>1. /\ job'.pc = "delete" /\ job'.man = job.man /\ job'.edited = job.edited
          /\ job'.todo = job.man.delete /\ job.pc = "download" /\ job.todo = {}
          /\ disk' = disk /\ DOMAIN job.open = {}
      BY <1>0, <1>1, <2>2 DEF EndDownloads, Job
    <3>2. ASSUME NEW q \in DOMAIN job.man.files
          PROVE  There(q)'
      <4>1. There(q)
        BY <2>2, <3>1, <3>2 DEF ProgressInv
      <4>2. QED
        BY <3>1, <4>1 DEF There, UpToDate, Lone, Names
    <3>3. QED
      BY <3>1, <3>2 DEF ProgressInv
  <2>3. QED
    BY <2>1, <2>2
<1>2. CASE EndDeletes
  <2>1. /\ Sound(job.man) /\ FilesKept({Options})
        /\ job'.man = job.man /\ job'.edited = job.edited
        /\ \/ job.op = "sync" /\ job'.pc = "done"
           \/ job'.pc = "repair" /\ job'.todo = DOMAIN job.man.files
    BY <1>0, <1>2, EndDeletesStep
  <2>2. job.pc = "delete" /\ job.todo = {} /\ {Options} \subseteq Key
    BY <1>2, PackSyncAssumption DEF EndDeletes
  <2>3. \A q \in Path : Fold[q] \notin {Options}
    BY PackSyncAssumption
  <2>4. DOMAIN job.man.files \subseteq Path /\ job.man.delete \subseteq Path
    BY <2>1, SoundFacts
  <2>5. ASSUME NEW q \in job.man.delete
        PROVE  Gone(q)'
    <3>1. Gone(q)
      BY <2>2, <2>5 DEF ProgressInv
    <3>2. QED
      BY <2>1, <2>2, <2>3, <2>4, <3>1, GoneKept
  <2>6. ASSUME job.op = "sync", NEW q \in DOMAIN job.man.files
        PROVE  There(q)'
    <3>1. There(q)
      BY <2>2, <2>6 DEF ProgressInv
    <3>2. QED
      BY <2>1, <2>2, <2>3, <2>4, <3>1, ThereKept
  <2>7. QED
    BY <2>1, <2>5, <2>6 DEF ProgressInv
<1>3. CASE EndRepairs
  <2>1. FilesKept({Options}) /\ {Options} \subseteq Key
    BY <1>0, <1>3, EndRepairsStep, PackSyncAssumption
  <2>2. /\ job'.pc = "done" /\ job'.man = job.man /\ job'.edited = job.edited
        /\ job.pc = "repair" /\ job.todo = {} /\ DOMAIN job.open = {}
        /\ Sound(job.man)
    BY <1>0, <1>3 DEF EndRepairs, Job, JobInv
  <2>3. \A q \in Path : Fold[q] \notin {Options}
    BY PackSyncAssumption
  <2>4. DOMAIN job.man.files \subseteq Path /\ job.man.delete \subseteq Path
    BY <2>2, SoundFacts
  <2>5. ASSUME NEW q \in job.man.delete
        PROVE  Gone(q)'
    <3>1. Gone(q)
      BY <2>2, <2>5 DEF ProgressInv
    <3>2. QED
      BY <2>1, <2>2, <2>3, <2>4, <3>1, GoneKept
  <2>6. ASSUME NEW q \in DOMAIN job.man.files
        PROVE  There(q)'
    <3>1. There(q)
      BY <2>2, <2>6 DEF ProgressInv
    <3>2. QED
      BY <2>1, <2>2, <2>3, <2>4, <3>1, ThereKept
  <2>7. QED
    BY <2>2, <2>5, <2>6 DEF ProgressInv
<1>4. QED
  BY <1>1, <1>2, <1>3

(* What the player writes while a run works is in its history.              *)
LEMMA ProgressEdit ==
    ASSUME TypeOK, JobInv, DiskInv, ProgressInv, Edit
    PROVE  ProgressInv'
<1>0. disk \in Disk /\ job \in Job
  BY DEF TypeOK, Disk
<1>1. PICK k \in Edited :
         /\ k \in Key /\ FilesKept({k})
         /\ job' = IF Running THEN [job EXCEPT !.edited = @ \cup {k}] ELSE job
  BY <1>0, EditStep
<1>2. CASE Running
  <2>1. /\ job'.op = job.op /\ job'.pc = job.pc /\ job'.man = job.man
        /\ job'.todo = job.todo /\ job'.failed = job.failed
        /\ job'.edited = job.edited \cup {k} /\ job'.open = job.open
    BY <1>0, <1>1, <1>2 DEF Job
  <2>2. Sound(job.man)
    BY <1>2 DEF Running, JobInv
  <2>3. ASSUME NEW q \in DOMAIN job.man.files, There(q)
        PROVE  There(q)'
    BY <1>1, <2>1, <2>2, <2>3, ThereKept
  <2>4. ASSUME NEW q \in job.man.delete, Gone(q)
        PROVE  Gone(q)'
    BY <1>1, <2>1, <2>2, <2>4, GoneKept
  <2>5. QED
    BY <2>1, <2>3, <2>4 DEF ProgressInv
<1>3. CASE ~Running
  <2>1. job'.pc = "idle"
    BY <1>0, <1>1, <1>3 DEF Edit, Over, Running, Job
  <2>2. QED
    BY <2>1 DEF ProgressInv
<1>4. QED
  BY <1>2, <1>3

(* Every step keeps what a run has dealt with.                              *)
LEMMA ProgressStep ==
    ASSUME TypeOK, ServerInv, JobInv, DiskInv, ParentsInv, ProgressInv, [Next]_vars
    PROVE  ProgressInv'
<1>0. job \in Job
  BY DEF TypeOK
<1>1. CASE \E op \in {"sync", "verify"} : Start(op)
  <2>1. PICK op \in {"sync", "verify"} : Start(op)
    BY <1>1
  <2>2. /\ disk' = disk /\ job'.op = op /\ job'.man = manifest
        /\ \/ job'.pc = "failed"
           \/ /\ op = "sync" /\ job'.pc = "download"
              /\ job'.todo = {p \in DOMAIN manifest.files : ~UpToDate(p, manifest)}
           \/ op = "verify" /\ job'.pc = "delete" /\ job'.todo = manifest.delete
    BY <2>1, StartFacts
  <2>3. QED
    BY <2>2 DEF ProgressInv, There, UpToDate, Lone, Names
<1>2. CASE \E p \in Path : Fetch(p) \/ Check(p) \/ Delete(p)
  BY <1>2, ProgressFetch, ProgressCheck, ProgressDelete
<1>3. CASE Fault
  <2>1. PICK p, j : /\ j \in Job /\ SameRun(j) /\ j.pc = job.pc
                    /\ job' = [Lost(j) EXCEPT !.faulted = TRUE]
    BY <1>0, <1>3, FaultJob
  <2>2. /\ Lost(j) \in Job
        /\ (Lost(j).pc = "download" /\ Lost(j).failed) \/ Lost(j).pc = "failed"
    BY <1>0, <2>1, LostFacts
  <2>3. (job'.pc = "download" /\ job'.failed) \/ job'.pc = "failed"
    BY <2>1, <2>2 DEF Job
  <2>4. QED
    BY <2>3 DEF ProgressInv
<1>4. CASE EndDownloads \/ EndDeletes \/ EndRepairs
  BY <1>4, ProgressEnds
<1>5. CASE End
  BY <1>5 DEF End, NoJob, ProgressInv
<1>6. CASE Edit
  BY <1>6, ProgressEdit
<1>7. CASE UNCHANGED vars
  BY <1>7 DEF vars, ProgressInv, There, Gone, UpToDate, Lone, Names
<1>8. CASE Watch
  BY <1>0, <1>8, WatchFacts DEF ProgressInv, There, Gone, UpToDate, Lone, Names
<1>9. QED
  BY <1>1, <1>2, <1>3, <1>4, <1>5, <1>6, <1>7, <1>8, Steps DEF Launching, Fetch

-----------------------------------------------------------------------------
(* The delete list accumulates: until the pack is lost, a manifest knows    *)
(* every name that the one before it listed or deleted.                     *)
LEMMA NamesGrow ==
    ASSUME ServerTypeOK, ServerInv, Publishing, ~lost', manifest # NoManifest
    PROVE  /\ ~lost /\ manifest' # NoManifest
           /\ Names(manifest) \subseteq Names(manifest')
<1>1. CASE Publish
  <2>1. /\ manifest' = [files |-> FilesOf, delete |-> DeleteList(manifest, DOMAIN FilesOf)]
        /\ lost' = lost
    BY <1>1 DEF Publish
  <2>2. manifest'.files = FilesOf
        /\ manifest'.delete = (manifest.delete \cup DOMAIN manifest.files) \ DOMAIN FilesOf
    BY <2>1 DEF DeleteList
  <2>3. Names(manifest) \subseteq Names(manifest')
    BY <2>2 DEF Names
  <2>4. manifest' # NoManifest
    BY <1>1, PublishStep, PackTreeAssumption
  <2>5. QED
    BY <2>1, <2>3, <2>4
<1>2. CASE ~Publish
  <2>1. lost' = lost /\ manifest' = manifest
    BY <1>2 DEF Publishing, Begin, Enter, FetchFile, ExtractOverride, OverlayConfig,
                RemoveJar, CopyJar, NextPhase, Abort, ByHand, LosePack, Put
  <2>2. QED
    BY <2>1
<1>3. QED
  BY <1>1, <1>2

(* A download leaves the run where it is, or ends it.                       *)
LEMMA FetchRun ==
    ASSUME TypeOK, JobInv, NEW p \in Path, Fetch(p)
    PROVE  /\ SameRun(job') /\ job'.man = job.man
           /\ job'.pc = job.pc \/ (job'.pc = "failed" /\ job.pc = "repair")
<1>1. job \in Job /\ job.pc \in {"download", "repair"}
  BY FetchJob DEF TypeOK
<1>2. CASE Open(p) /\ Reachable(p) /\ job' = Opened(p)
  BY <1>1, <1>2, OpenedFacts DEF Reachable, TypeOK, SameRun
<1>3. CASE job' = Landed(p)
  BY <1>1, <1>3, ClosedFacts DEF SameRun
<1>4. ASSUME NEW j \in Job, SameRun(j), j.pc = job.pc, job' = Lost(j)
      PROVE  /\ SameRun(job') /\ job'.man = job.man
             /\ job'.pc = job.pc \/ (job'.pc = "failed" /\ job.pc = "repair")
  BY <1>1, <1>4, LostFacts DEF SameRun
<1>5. QED
  BY <1>2, <1>3, <1>4, FetchJob

(* An error does so too.                                                    *)
LEMMA FaultRun ==
    ASSUME job \in Job, Fault
    PROVE  job'.pc \in {"download", "failed"} /\ job'.man = job.man
<1>1. PICK p, j : /\ j \in Job /\ SameRun(j) /\ j.pc = job.pc
                  /\ job' = [Lost(j) EXCEPT !.faulted = TRUE]
  BY FaultJob
<1>2. Lost(j) \in Job /\ Lost(j).pc \in {"download", "failed"}
  BY <1>1, LostFacts
<1>3. QED
  BY <1>1, <1>2, FaultJob DEF Job

(* What of the pack is on the client after the step has a name in P.        *)
NamedNext(P) == \A k \in Key : disk'[k] \in Packed => \E p \in P : Fold[p] = k

(* Where no other file is written, the names stay what they were.           *)
LEMMA NamedKept ==
    ASSUME NEW P, Named(P), NEW K \in SUBSET Key, FilesKept(K),
           \A k \in K : disk'[k] \in Packed =>
              disk'[k] = disk[k] \/ \E p \in P : Fold[p] = k
    PROVE  NamedNext(P)
<1>1. SUFFICES ASSUME NEW k \in Key, disk'[k] \in Packed
               PROVE  \E p \in P : Fold[p] = k
  BY DEF NamedNext
<1>2. CASE k \in K
  BY <1>1, <1>2 DEF Named
<1>3. CASE k \notin K
  BY <1>1, <1>3, Kinds DEF FilesKept, Named
<1>4. QED
  BY <1>2, <1>3

(* A run leaves no name behind that its manifest does not know: what it     *)
(* installs is listed, and it ends with the delete list dealt with.         *)
LEMMA StaleStep ==
    ASSUME TypeOK, ServerInv, JobInv, DiskInv, ParentsInv, StaleInv, [Next]_vars
    PROVE  StaleInv'
<1>1. SUFFICES ASSUME ~lost' PROVE StaleInv'
  BY DEF StaleInv
<1>2. disk \in Disk /\ job \in Job
  BY DEF TypeOK, Disk
<1>3. ~lost => /\ manifest # NoManifest /\ Named(Names(manifest))
               /\ job.pc # "idle" =>
                     Names(job.man) \subseteq Names(manifest) /\ Named(Names(job.man))
               /\ job.pc = "delete" => Named(DOMAIN job.man.files \cup job.todo)
               /\ job.pc \in {"repair", "done"} => Named(DOMAIN job.man.files)
  BY DEF StaleInv
<1>4. ASSUME manifest' # NoManifest, NamedNext(Names(manifest')),
             job'.pc # "idle" =>
                Names(job'.man) \subseteq Names(manifest') /\ NamedNext(Names(job'.man)),
             job'.pc = "delete" => NamedNext(DOMAIN job'.man.files \cup job'.todo),
             job'.pc \in {"repair", "done"} => NamedNext(DOMAIN job'.man.files)
      PROVE  StaleInv'
  BY <1>4 DEF StaleInv, Named, NamedNext, Names
<1>5. \A P : disk' = disk /\ Named(P) => NamedNext(P)
  BY DEF Named, NamedNext
<1>6. ASSUME Launching
      PROVE  ~lost /\ manifest' = manifest /\ manifest # NoManifest /\ Named(Names(manifest))
  BY <1>1, <1>3, <1>6, LaunchingServer
<1>7. CASE \E op \in {"sync", "verify"} : Start(op)
  <2>1. PICK op \in {"sync", "verify"} : Start(op)
    BY <1>7
  <2>2. /\ disk' = disk /\ job'.man = manifest
        /\ \/ job'.pc = "failed" \/ job'.pc = "download"
           \/ job'.pc = "delete" /\ job'.todo = manifest.delete
    BY <2>1, StartFacts
  <2>3. DOMAIN manifest.files \cup manifest.delete = Names(manifest)
    BY DEF Names
  <2>4. QED
    BY <1>4, <1>5, <1>6, <1>7, <2>2, <2>3 DEF Launching
<1>8. ASSUME NEW K \in SUBSET Key, FilesKept(K), ~lost, manifest' = manifest,
             job.pc # "idle", job'.man = job.man,
             \A k \in K : disk'[k] \in Packed =>
                disk'[k] = disk[k] \/ \E p \in DOMAIN job.man.files : Fold[p] = k
      PROVE  /\ manifest' # NoManifest /\ NamedNext(Names(manifest'))
             /\ Names(job'.man) \subseteq Names(manifest') /\ NamedNext(Names(job'.man))
             /\ \A P : DOMAIN job.man.files \subseteq P /\ Named(P) => NamedNext(P)
  <2>1. \A P : DOMAIN job.man.files \subseteq P /\ Named(P) => NamedNext(P)
    BY <1>8, NamedKept
  <2>2. DOMAIN job.man.files \subseteq Names(job.man)
    BY DEF Names
  <2>3. QED
    BY <1>3, <1>8, <2>1, <2>2
<1>9. ASSUME NEW p \in Path, Fetch(p) PROVE StaleInv'
  <2>1. /\ p \in DOMAIN job.man.files /\ Fold[p] \in Key /\ FilesKept({Fold[p]})
    BY <1>9, FetchStep
  <2>2. /\ job.pc \in {"download", "repair"}
        /\ job'.pc \in {job.pc, "failed"} /\ job'.man = job.man
    BY <1>2, <1>9, FetchRun, FetchJob
  <2>3. ~lost /\ manifest' = manifest
    BY <1>6, <1>9 DEF Launching, Fetch
  <2>4. QED
    BY <1>3, <1>4, <1>8, <2>1, <2>2, <2>3
<1>10. ASSUME NEW p \in Path, Check(p) PROVE StaleInv'
  <2>1. /\ disk' = disk /\ job.pc = "repair" /\ job'.pc = "repair"
        /\ job'.man = job.man
    BY <1>2, <1>10, SkippedFacts DEF Check, SameRun
  <2>2. ~lost /\ manifest' = manifest
    BY <1>6, <1>10 DEF Launching
  <2>3. QED
    BY <1>3, <1>4, <1>5, <2>1, <2>2
<1>11. ASSUME NEW p \in Path, Delete(p) PROVE StaleInv'
  <2>1. /\ Fold[p] \in Key /\ FilesKept({Fold[p]}) /\ disk'[Fold[p]] \notin Packed
    BY <1>2, <1>11, DeleteStep, PackSyncAssumption, Kinds
  <2>2. /\ job.pc = "delete" /\ job'.pc = "delete" /\ job'.man = job.man
        /\ job'.todo = job.todo \ {p}
    BY <1>2, <1>11, SkippedFacts DEF Delete, SameRun
  <2>3. ~lost /\ manifest' = manifest
    BY <1>6, <1>11 DEF Launching
  <2>4. NamedNext(DOMAIN job.man.files \cup job.todo)
    BY <1>3, <1>8, <2>1, <2>2, <2>3
  <2>5. NamedNext(DOMAIN job'.man.files \cup job'.todo)
    BY <2>1, <2>2, <2>4 DEF NamedNext
  <2>6. QED
    BY <1>4, <1>8, <2>1, <2>2, <2>3, <2>5
<1>12. CASE Fault
  <2>1. /\ Running /\ job'.man = job.man
        /\ job'.pc = "download" \/ job'.pc = "failed"
    BY <1>2, <1>12, FaultRun DEF Fault
  <2>2. job.pc # "idle"
    BY <2>1 DEF Running
  <2>3. ~lost /\ manifest' = manifest
    BY <1>6, <1>12 DEF Launching
  <2>4. CASE FilesKept({})
    BY <1>4, <1>8, <1>3, <2>1, <2>2, <2>3, <2>4
  <2>5. ASSUME NEW p \in DOMAIN job.man.files, FilesKept({Fold[p]}), Fold[p] \in Key
        PROVE  StaleInv'
    BY <1>3, <1>4, <1>8, <2>1, <2>2, <2>3, <2>5
  <2>6. QED
    BY <1>12, <2>4, <2>5, FaultStep
<1>13. CASE EndDownloads
  <2>1. /\ disk' = disk /\ job.pc = "download" /\ job'.man = job.man
        /\ \/ job'.pc = "failed"
           \/ job'.pc = "delete" /\ job'.todo = job.man.delete
    BY <1>2, <1>13, FailingFacts DEF EndDownloads, Job
  <2>2. ~lost /\ manifest' = manifest
    BY <1>6, <1>13 DEF Launching
  <2>3. DOMAIN job.man.files \cup job.man.delete = Names(job.man)
    BY DEF Names
  <2>4. QED
    BY <1>3, <1>4, <1>5, <2>1, <2>2, <2>3
<1>14. CASE EndDeletes
  <2>1. /\ FilesKept({Options}) /\ disk'[Options] \in {Seeded, disk[Options]}
        /\ job'.man = job.man /\ job'.pc \in {"done", "repair"}
    BY <1>2, <1>14, EndDeletesStep
  <2>2. job.pc = "delete" /\ job.todo = {} /\ {Options} \in SUBSET Key
    BY <1>14, PackSyncAssumption DEF EndDeletes
  <2>3. ~lost /\ manifest' = manifest
    BY <1>6, <1>14 DEF Launching
  <2>4. Named(DOMAIN job.man.files)
    <3>1. DOMAIN job.man.files \cup job.todo = DOMAIN job.man.files
      BY <2>2
    <3>2. QED
      BY <1>3, <2>2, <2>3, <3>1
  <2>5. QED
    BY <1>4, <1>8, <2>1, <2>2, <2>3, <2>4, Kinds
<1>15. CASE EndRepairs
  <2>1. FilesKept({Options}) /\ disk'[Options] \in {Seeded, disk[Options]}
    BY <1>2, <1>15, EndRepairsStep
  <2>2. /\ job.pc = "repair" /\ job'.pc = "done" /\ job'.man = job.man
        /\ {Options} \in SUBSET Key
    BY <1>2, <1>15, PackSyncAssumption DEF EndRepairs, Job
  <2>3. ~lost /\ manifest' = manifest
    BY <1>6, <1>15 DEF Launching
  <2>4. QED
    BY <1>3, <1>4, <1>8, <2>1, <2>2, <2>3, Kinds
<1>16. CASE End
  <2>1. disk' = disk /\ job'.pc = "idle"
    BY <1>16 DEF End, NoJob
  <2>2. QED
    BY <1>4, <1>5, <1>6, <1>16, <2>1 DEF Launching
<1>17. CASE Edit
  <2>1. PICK k \in Key :
           /\ FilesKept({k}) /\ disk'[k] \in {User, Absent}
           /\ job' = IF Running THEN [job EXCEPT !.edited = @ \cup {k}] ELSE job
    BY <1>2, <1>17, EditStep
  <2>2. job'.pc = job.pc /\ job'.man = job.man /\ job'.todo = job.todo
    BY <1>2, <2>1 DEF Job
  <2>3. ~lost /\ manifest' = manifest /\ manifest # NoManifest
    BY <1>6, <1>17 DEF Launching
  <2>4. \A P : Named(P) => NamedNext(P)
    BY <2>1, NamedKept, Kinds
  <2>5. QED
    BY <1>3, <1>4, <2>2, <2>3, <2>4
<1>18. CASE UNCHANGED vars
  BY <1>18 DEF vars, server, StaleInv, Named
<1>19. CASE Publishing /\ Watch
  <2>1. /\ disk' = disk /\ job'.pc = job.pc /\ job'.man = job.man
        /\ job'.todo = job.todo
    BY <1>2, <1>19, WatchFacts
  <2>2. ServerTypeOK
    BY DEF TypeOK, ServerTypeOK
  <2>3. lost' = lost \/ lost'
    BY <1>19 DEF Publishing, Begin, Enter, FetchFile, ExtractOverride, OverlayConfig,
                 RemoveJar, CopyJar, NextPhase, Publish, Abort, ByHand, LosePack, Put
  <2>4. ~lost /\ manifest # NoManifest
    BY <1>1, <1>3, <2>3
  <2>5. manifest' # NoManifest /\ Names(manifest) \subseteq Names(manifest')
    BY <1>1, <1>19, <2>2, <2>4, NamesGrow
  <2>6. NamedNext(Names(manifest'))
    BY <1>3, <2>1, <2>4, <2>5 DEF Named, NamedNext
  <2>7. QED
    BY <1>3, <1>4, <1>5, <2>1, <2>4, <2>5, <2>6
<1>20. QED
  BY <1>7, <1>9, <1>10, <1>11, <1>12, <1>13, <1>14, <1>15, <1>16, <1>17, <1>18,
     <1>19, Steps
  DEF Launching, Fetch

-----------------------------------------------------------------------------
(* While a run only installs, a directory in the place of a file stays, and *)
(* so does a file in the place of a directory.                              *)
LEMMA ClashKept ==
    ASSUME NEW man, Sound(man), NEW K \in SUBSET Key, FilesKept(K),
           \A k \in K : disk'[k] \in File,
           \A k \in Key : disk[k] = Dir => disk'[k] = Dir,
           Clash(man)
    PROVE  \E p \in DOMAIN man.files :
              \/ disk'[Fold[p]] = Dir
              \/ \E d \in Above[Fold[p]] : disk'[d] \in File
<1>1. PICK p \in DOMAIN man.files :
         disk[Fold[p]] = Dir \/ \E d \in Above[Fold[p]] : disk[d] \in File
  BY DEF Clash
<1>2. Fold[p] \in Key /\ Above[Fold[p]] \subseteq Key
  BY SoundFacts, PackSyncAssumption
<1>3. CASE disk[Fold[p]] = Dir
  BY <1>2, <1>3
<1>4. CASE \E d \in Above[Fold[p]] : disk[d] \in File
  BY <1>2, <1>4 DEF FilesKept
<1>5. QED
  BY <1>1, <1>3, <1>4

(* A download that cannot begin, though the tree is as the manifest says,   *)
(* met a clash.                                                             *)
LEMMA NotReachable ==
    ASSUME Sound(job.man), NEW p \in DOMAIN job.man.files,
           tree[p] = job.man.files[p], ~Reachable(p)
    PROVE  Clash(job.man)
<1>1. Fold[p] \in Key /\ Above[Fold[p]] \subseteq Key /\ tree[p] # Absent
  BY SoundFacts, PackSyncAssumption, Kinds
<1>2. SUFFICES ASSUME ~ \E d \in Above[Fold[p]] : disk[d] \in File PROVE FALSE
  BY DEF Clash
<1>3. \A d \in Above[Fold[p]] : MakeDirs(Fold[p])[d] = Dir
  BY <1>1, <1>2 DEF MakeDirs
<1>4. QED
  BY <1>1, <1>3 DEF Reachable

(* A rename that fails met a directory, or a second name of its file.       *)
LEMMA NotRenamed ==
    ASSUME JobInv, NEW p, RenameFails(p)
    PROVE  Clash(job.man) \/ Twice(job.man)
<1>1. p \in DOMAIN job.open /\ p \in DOMAIN job.man.files
  BY DEF RenameFails, JobInv
<1>2. CASE disk[Fold[p]] = Dir
  BY <1>1, <1>2 DEF Clash
<1>3. CASE Writers(p) = {}
  <2>1. ~Alone(p)
    BY <1>1, <1>3 DEF Writers, JobInv
  <2>2. QED
    BY <1>1, <2>1 DEF Alone, Twice
<1>4. QED
  BY <1>2, <1>3 DEF RenameFails

(* A run that fails keeps its explanation.                                  *)
LEMMA ExplainStep ==
    ASSUME TypeOK, ServerInv, JobInv, DiskInv, ParentsInv, ExplainInv, [Next]_vars
    PROVE  ExplainInv'
<1>1. disk \in Disk /\ job \in Job
  BY DEF TypeOK, Disk
<1> DEFINE ClashNext(man) == \E p \in DOMAIN man.files :
                                \/ disk'[Fold[p]] = Dir
                                \/ \E d \in Above[Fold[p]] : disk'[d] \in File
           TornNext(man) == \E p \in DOMAIN man.files : tree'[p] # man.files[p]
           Plain == ~job.faulted /\ ~job.torn /\ job.edited = {}
<1>2. job.pc # "idle" /\ Plain =>
         /\ job.pc \in {"delete", "repair", "done"} => ~job.failed
         /\ Running => ~Torn(tree, job.man)
         /\ \A p \in DOMAIN job.open : job.open[p] = job.man.files[p]
         /\ job.failed \/ job.pc = "failed" =>
               Rejected(job.man) \/ Clash(job.man) \/ Twice(job.man)
  BY DEF ExplainInv
<1>3. ASSUME job'.pc # "idle" /\ ~job'.faulted /\ ~job'.torn /\ job'.edited = {} =>
                /\ job'.pc \in {"delete", "repair", "done"} => ~job'.failed
                /\ job'.pc \in {"download", "delete", "repair"} => ~TornNext(job'.man)
                /\ \A p \in DOMAIN job'.open : job'.open[p] = job'.man.files[p]
                /\ job'.failed \/ job'.pc = "failed" =>
                      Rejected(job'.man) \/ ClashNext(job'.man) \/ Twice(job'.man)
      PROVE  ExplainInv'
  BY <1>3 DEF ExplainInv, Running, Torn, Clash, Rejected, Twice
<1>4. /\ \A man : tree' = tree => (TornNext(man) <=> Torn(tree, man))
      /\ \A man : disk' = disk => (ClashNext(man) <=> Clash(man))
  BY DEF Torn, Clash
<1>5. Launching => tree' = tree
  BY LaunchingServer
<1> HIDE DEF ClashNext, TornNext, Plain
<1>6. ASSUME NEW op \in {"sync", "verify"}, Start(op) PROVE ExplainInv'
  <2>1. /\ disk' = disk /\ tree' = tree
        /\ job' = [NoJob EXCEPT
              !.op = op, !.man = manifest, !.torn = Torn(tree, manifest),
              !.pc = IF Rejected(manifest) THEN "failed"
                     ELSE IF op = "sync" THEN "download" ELSE "delete",
              !.todo = IF Rejected(manifest) THEN {} ELSE IF op = "sync"
                       THEN {p \in DOMAIN manifest.files : ~UpToDate(p, manifest)}
                       ELSE manifest.delete]
    BY <1>6 DEF Start, server
  <2>2. /\ job'.man = manifest /\ job'.torn = Torn(tree, manifest) /\ ~job'.failed
        /\ job'.pc = "failed" => Rejected(manifest)
        /\ DOMAIN job'.open = {}
    BY <2>1, NoOpenFacts DEF NoJob
  <2>3. QED
    BY <1>3, <1>4, <2>1, <2>2
<1>7. ASSUME NEW p \in Path, Fetch(p) PROVE ExplainInv'
  <2>1. /\ job.pc \in {"download", "repair"} /\ Sound(job.man)
        /\ p \in DOMAIN job.man.files /\ Fold[p] \in Key
        /\ DirsKept /\ FilesKept({Fold[p]})
        /\ FilesKept({}) \/ disk'[Fold[p]] \in Packed
    BY <1>7, FetchStep
  <2>2. /\ job'.man = job.man /\ job'.faulted = job.faulted /\ job'.torn = job.torn
        /\ job'.edited = job.edited /\ tree' = tree
        /\ job'.pc = job.pc \/ job'.pc = "failed"
    BY <1>5, <1>7, FetchRun DEF Launching, Fetch, SameRun
  <2>3. Clash(job.man) => ClashNext(job.man)
    <3>1. CASE FilesKept({})
      BY <2>1, <3>1, ClashKept DEF DirsKept, ClashNext
    <3>2. CASE disk'[Fold[p]] \in Packed
      BY <2>1, <3>2, ClashKept, Kinds DEF DirsKept, ClashNext
    <3>3. QED
      BY <2>1, <3>1, <3>2
  <2>4. ASSUME Plain
        PROVE  /\ ~Torn(tree, job.man) /\ tree[p] = job.man.files[p]
               /\ \A q \in DOMAIN job.open : job.open[q] = job.man.files[q]
    <3>1. ~Torn(tree, job.man)
      BY <1>2, <2>1, <2>4 DEF Running
    <3>2. tree[p] = job.man.files[p]
      BY <2>1, <3>1 DEF Torn
    <3>3. QED
      BY <1>2, <2>1, <2>4, <3>1, <3>2
  <2>5. CASE Open(p) /\ Reachable(p) /\ job' = Opened(p)
    <3>1. /\ job'.pc = job.pc /\ job'.failed = job.failed
          /\ DOMAIN job'.open = DOMAIN job.open \cup {p}
          /\ \A q \in DOMAIN job.open \cup {p} :
                job'.open[q] = IF q = p THEN tree[p] ELSE job.open[q]
      BY <1>1, <2>5, OpenedFacts DEF Reachable, TypeOK
    <3>2. Plain => \A q \in DOMAIN job'.open : job'.open[q] = job'.man.files[q]
      BY <2>2, <2>4, <3>1
    <3>3. QED
      BY <1>2, <1>3, <1>4, <2>1, <2>2, <2>3, <2>4, <3>1, <3>2 DEF Plain
  <2>6. CASE job' = Landed(p)
    <3>1. /\ job'.pc = job.pc /\ job'.failed = job.failed
          /\ DOMAIN job'.open = DOMAIN job.open \ {p}
          /\ \A q \in DOMAIN job.open \ {p} : job'.open[q] = job.open[q]
      BY <1>1, <2>6, ClosedFacts
    <3>2. Plain => \A q \in DOMAIN job'.open : job'.open[q] = job'.man.files[q]
      BY <2>2, <2>4, <3>1
    <3>3. QED
      BY <1>2, <1>3, <1>4, <2>1, <2>2, <2>3, <2>4, <3>1, <3>2 DEF Plain
  <2>7. ASSUME NEW j \in Job, SameRun(j), j.pc = job.pc, job' = Lost(j),
               \/ Open(p) /\ ~Reachable(p) /\ j = [job EXCEPT !.todo = @ \ {p}]
               \/ RenameFails(p) /\ j = Closed(p)
               \/ Mismatch(p) /\ j = Unlinked(p)
        PROVE  ExplainInv'
    <3>1. Plain => Clash(job.man) \/ Twice(job.man)
      BY <2>1, <2>4, <2>7, NotReachable, NotRenamed DEF Mismatch, Intact
    <3>2. /\ DOMAIN j.open \subseteq DOMAIN job.open
          /\ \A q \in DOMAIN j.open : j.open[q] = job.open[q]
      <4>1. CASE j = [job EXCEPT !.todo = @ \ {p}]
        BY <1>1, <4>1, SkippedFacts
      <4>2. CASE j \in {Closed(p), Unlinked(p), Landed(p)}
        BY <1>1, <4>2, ClosedFacts
      <4>3. QED
        BY <2>7, <4>1, <4>2
    <3>3. /\ job'.pc \in {"download", "failed"}
          /\ job'.open = j.open \/ DOMAIN job'.open = {}
      BY <1>1, <2>7, LostFacts
    <3>4. Plain => \A q \in DOMAIN job'.open : job'.open[q] = job'.man.files[q]
      BY <2>2, <2>4, <3>2, <3>3
    <3>5. QED
      BY <1>3, <1>4, <2>1, <2>2, <2>3, <2>4, <3>1, <3>3, <3>4 DEF Plain
  <2>8. QED
    BY <1>7, <2>5, <2>6, <2>7, FetchJob
<1>8. ASSUME NEW p \in Path, Check(p) PROVE ExplainInv'
  <2>1. /\ job.pc = "repair" /\ job'.pc = "repair" /\ disk' = disk /\ tree' = tree
        /\ job'.man = job.man /\ job'.faulted = job.faulted /\ job'.torn = job.torn
        /\ job'.edited = job.edited /\ job'.failed = job.failed
        /\ job'.open = job.open
    BY <1>1, <1>5, <1>8, SkippedFacts DEF Check, Launching, SameRun
  <2>2. QED
    BY <1>2, <1>3, <1>4, <2>1 DEF Plain, Running
<1>9. ASSUME NEW p \in Path, Delete(p) PROVE ExplainInv'
  <2>1. /\ job.pc = "delete" /\ job'.pc = "delete" /\ job'.man = job.man
        /\ job'.faulted = job.faulted /\ job'.torn = job.torn
        /\ job'.edited = job.edited /\ job'.failed = job.failed /\ tree' = tree
        /\ job'.open = job.open /\ DOMAIN job.open = {}
    <3>1. /\ job.pc = "delete" /\ DOMAIN job.open = {} /\ tree' = tree
          /\ job' = [job EXCEPT !.todo = @ \ {p}]
      BY <1>5, <1>9 DEF Delete, JobInv, Launching
    <3>2. QED
      BY <1>1, <3>1, SkippedFacts DEF SameRun
  <2>2. QED
    BY <1>2, <1>3, <1>4, <2>1 DEF Plain, Running
<1>10. CASE Fault
  <2>1. job'.faulted
    BY <1>1, <1>10, FaultJob
  <2>2. QED
    BY <1>3, <2>1
<1>11. CASE EndDownloads
  <2>1. /\ disk' = disk /\ job.pc = "download" /\ job'.man = job.man
        /\ job'.faulted = job.faulted /\ job'.torn = job.torn
        /\ job'.edited = job.edited /\ job'.failed = job.failed /\ tree' = tree
        /\ job'.pc = IF job.failed THEN "failed" ELSE "delete"
        /\ DOMAIN job'.open = {}
    BY <1>1, <1>5, <1>11, FailingFacts DEF EndDownloads, Job, Launching
  <2>2. QED
    BY <1>2, <1>3, <1>4, <2>1 DEF Plain, Running
<1>12. CASE EndDeletes \/ EndRepairs
  <2>1. /\ job.pc \in {"delete", "repair"} /\ job'.man = job.man
        /\ job'.faulted = job.faulted /\ job'.torn = job.torn
        /\ job'.edited = job.edited /\ job'.failed = job.failed /\ tree' = tree
        /\ job'.pc \in {"repair", "done"} /\ DOMAIN job'.open = {}
    <3>1. tree' = tree /\ DOMAIN job.open = {}
      BY <1>5, <1>12 DEF EndDeletes, EndRepairs, JobInv, Launching
    <3>2. CASE EndDeletes
      <4>1. /\ job.pc = "delete" /\ job'.open = job.open
            /\ job'.faulted = job.faulted /\ job'.torn = job.torn
            /\ job'.failed = job.failed
        BY <1>1, <3>2 DEF EndDeletes, Job
      <4>2. /\ job'.man = job.man /\ job'.edited = job.edited
            /\ job'.pc \in {"repair", "done"}
        BY <1>1, <3>2 DEF EndDeletes, Job
      <4>3. QED
        BY <3>1, <4>1, <4>2
    <3>3. CASE EndRepairs
      BY <1>1, <3>1, <3>3 DEF EndRepairs, Job
    <3>4. QED
      BY <1>12, <3>2, <3>3
  <2>2. QED
    BY <1>2, <1>3, <1>4, <2>1 DEF Plain, Running
<1>13. CASE End
  <2>1. job'.pc = "idle"
    BY <1>13 DEF End, NoJob
  <2>2. QED
    BY <1>3, <2>1
<1>14. CASE Edit
  <2>1. PICK k \in Key :
           job' = IF Running THEN [job EXCEPT !.edited = @ \cup {k}] ELSE job
    BY <1>1, <1>14, EditStep
  <2>2. CASE Running
    <3>1. k \in job'.edited
      BY <1>1, <2>1, <2>2 DEF Job
    <3>2. QED
      BY <1>3, <3>1
  <2>3. CASE ~Running
    <3>1. job'.pc = "idle"
      BY <1>1, <1>14, <2>1, <2>3 DEF Edit, Over, Running, Job
    <3>2. QED
      BY <1>3, <3>1
  <2>4. QED
    BY <2>2, <2>3
<1>15. CASE UNCHANGED vars
  <2>1. disk' = disk /\ tree' = tree /\ job' = job
    BY <1>15 DEF vars, server
  <2>2. QED
    BY <1>2, <1>3, <1>4, <2>1 DEF Plain, Running
<1>16. CASE Watch
  <2>1. /\ disk' = disk /\ job'.pc = job.pc /\ job'.man = job.man
        /\ job'.edited = job.edited /\ job'.failed = job.failed
        /\ job'.open = job.open /\ ~Over
    BY <1>1, <1>16, WatchFacts DEF Watch
  <2>2. /\ job'.faulted = job.faulted
        /\ job'.torn = (job.torn \/ (Running /\ Torn(tree', job.man)))
    BY <1>1, <1>16 DEF Watch, Job
  <2>3. TornNext(job.man) <=> Torn(tree', job.man)
    BY DEF TornNext, Torn
  <2>4. QED
    BY <1>2, <1>3, <1>4, <2>1, <2>2, <2>3 DEF Plain, Running, Over
<1>17. QED
  BY <1>6, <1>7, <1>8, <1>9, <1>10, <1>11, <1>12, <1>13, <1>14, <1>15, <1>16, Steps
  DEF Launching, Fetch

-----------------------------------------------------------------------------
(* The first pack, published once and synced once.                          *)
LEMMA InitInv ==
    ASSUME Init
    PROVE  PackInv
<1>1. /\ tree \in [Path -> Content \cup {Absent, Empty}] /\ tree \in FirstTrees
      /\ manifest = [files |-> FilesOf, delete |-> {}]
      /\ promised = {<<p, tree[p]>> : p \in DOMAIN FilesOf}
      /\ job = NoJob
  BY PackTreeAssumption DEF Init, InitServer
<1>2. /\ FilesOf \in UNION {[P -> Content] : P \in SUBSET Path}
      /\ \A p \in DOMAIN FilesOf : p \in Path /\ FilesOf[p] = tree[p]
      /\ \A p \in DOMAIN FilesOf : FilesOf[p] \in Content
  BY <1>1, FilesOfFacts
<1>3. Sound(manifest)
  BY <1>1, <1>2 DEF Sound, Manifest
<1>4. ServerTypeOK /\ ServerInv
  <2>1. /\ phase = "idle" /\ changes = 0 /\ publishes = 0 /\ trouble = 0
        /\ lost = FALSE
    BY DEF Init, InitServer
  <2>2. promised \subseteq Path \X Content
    BY <1>1, <1>2
  <2>3. manifest \in Manifest /\ phase \in Phase
    BY <1>3, <2>1 DEF Phase, Sound
  <2>4. /\ changes \in 0..MaxChanges /\ publishes \in 0..MaxPublishes
        /\ trouble \in 0..MaxTrouble
    BY <2>1, PackTreeAssumption
  <2>5. ServerTypeOK
    BY <1>1, <2>1, <2>2, <2>3, <2>4 DEF ServerTypeOK
  <2>6. QED
    BY <1>3, <2>1, <2>5 DEF ServerInv
<1>5. NoJob \in Job
  BY NoOpenFacts DEF NoJob, Job, Flights
<1>6. JobInv /\ ParentsInv /\ ProgressInv
  BY <1>1, NoOpenFacts DEF NoJob, JobInv, ParentsInv, ProgressInv
<1> DEFINE pick(k) == CHOOSE p \in DOMAIN FilesOf : Fold[p] = k
<1>7. ASSUME NEW k \in Key, \E p \in DOMAIN FilesOf : Fold[p] = k
      PROVE  pick(k) \in DOMAIN FilesOf /\ Fold[pick(k)] = k
  BY <1>7
<1>8. /\ disk = [k \in Key |->
                   IF k = Options THEN Seeded
                   ELSE IF \E p \in DOMAIN FilesOf : Fold[p] = k THEN tree[pick(k)]
                   ELSE IF \E p \in DOMAIN FilesOf : k \in Above[Fold[p]]
                   THEN Dir ELSE Absent]
  BY DEF Init
<1> HIDE DEF pick
<1>9. disk \in Disk
  <2>1. \A k \in Key : (\E p \in DOMAIN FilesOf : Fold[p] = k) => tree[pick(k)] \in File
    BY <1>2, <1>7, Kinds
  <2>2. QED
    BY <1>8, <2>1, Kinds DEF Disk
<1>10. DiskInv
  <2>1. ASSUME NEW p \in DOMAIN FilesOf, NEW d \in Above[Fold[p]]
        PROVE  disk[d] = Dir
    <3>1. Fold[p] \in Key /\ d \in Key
      BY <1>2, PackSyncAssumption
    <3>2. \A q \in DOMAIN FilesOf : Fold[q] # d /\ d # Options
      BY <1>1, <1>2, PackSyncAssumption
    <3>3. QED
      BY <1>8, <3>1, <3>2
  <2>2. ASSUME NEW k \in Key, disk[k] # Absent, NEW d \in Above[k]
        PROVE  disk[d] = Dir
    <3>1. k # Options
      BY <2>2, PackSyncAssumption
    <3>2. \E p \in DOMAIN FilesOf : Fold[p] = k \/ k \in Above[Fold[p]]
      BY <1>8, <2>2, <3>1
    <3>3. PICK p \in DOMAIN FilesOf : Fold[p] = k \/ k \in Above[Fold[p]]
      BY <3>2
    <3>4. d \in Above[Fold[p]]
      BY <1>2, <3>3, PackSyncAssumption
    <3>5. QED
      BY <2>1, <3>4
  <2>3. QED
    BY <2>2 DEF DiskInv
<1>11. OnlyPromised
  <2>1. ASSUME NEW k \in Key, disk[k] \in Packed
        PROVE  \E p \in Path : Fold[p] = k /\ <<p, disk[k]>> \in promised
    <3>1. (\E p \in DOMAIN FilesOf : Fold[p] = k) /\ disk[k] = tree[pick(k)]
      BY <1>8, <2>1, Kinds
    <3>2. pick(k) \in DOMAIN FilesOf /\ Fold[pick(k)] = k
      BY <1>7, <3>1
    <3>3. QED
      BY <1>1, <1>2, <3>1, <3>2
  <2>2. QED
    BY <2>1 DEF OnlyPromised
<1>12. TypeOK
  BY <1>1, <1>4, <1>5, <1>9 DEF ServerTypeOK, TypeOK, Disk
<1>13. StaleInv
  <2>1. job.pc = "idle" /\ manifest # NoManifest
    BY <1>1, <1>3, PackTreeAssumption DEF NoJob, Sound
  <2>2. ASSUME NEW k \in Key, disk[k] \in Packed
        PROVE  \E p \in Names(manifest) : Fold[p] = k
    <3>1. \E p \in DOMAIN FilesOf : Fold[p] = k
      BY <1>8, <2>2, Kinds
    <3>2. QED
      BY <1>1, <3>1 DEF Names
  <2>3. QED
    BY <2>1, <2>2 DEF StaleInv, Named
<1>14. ExplainInv
  BY <1>1, NoOpenFacts DEF NoJob, ExplainInv
<1>15. QED
  BY <1>4, <1>6, <1>10, <1>11, <1>12, <1>13, <1>14 DEF PackInv

(* Every step keeps the inductive invariant.                                *)
LEMMA InvStep ==
    ASSUME PackInv, [Next]_vars
    PROVE  PackInv'
<1>1. ServerInv'
  BY ServerStep DEF PackInv, TypeOK, ServerTypeOK
<1>2. TypeOK' /\ JobInv' /\ DiskInv' /\ OnlyPromised' /\ ProgressInv'
  BY TypeStep, JobStep, DiskStep, PromisedStep, ProgressStep DEF PackInv
<1>3. ParentsInv' /\ StaleInv' /\ ExplainInv'
  BY ParentsStep, StaleStep, ExplainStep DEF PackInv
<1>4. QED
  BY <1>1, <1>2, <1>3 DEF PackInv

(* Every history of publishes, runs, errors, edits and losses keeps the     *)
(* inductive invariant: what a run still has to do comes from the manifest  *)
(* it pinned (fetch_manifest), and what it has done is in place.            *)
THEOREM PackInductive == Spec => []PackInv
<1>1. Init => PackInv
  BY InitInv
<1>2. PackInv /\ [Next]_vars => PackInv'
  BY InvStep
<1>3. QED
  BY <1>1, <1>2, PTL DEF Spec

(* The types of the tree, of the manifests and of the game directory: a     *)
(* manifest never lists a file that is empty (build_files).                 *)
THEOREM PackTypeCorrect == Spec => []TypeOK
<1>1. PackInv => TypeOK
  BY DEF PackInv
<1>2. QED
  BY <1>1, PackInductive, PTL

(* Nothing of the pack is ever on a client that no manifest promised for    *)
(* its path, though four downloads run at once and files are served while a *)
(* publish rewrites them, unless names that differ in case only were        *)
(* published for that file, whose downloads share a temporary file: the     *)
(* hash is that of the stream, not of the file renamed (download_one).      *)
THEOREM PackPromised == Spec => []OnlyPromised
<1>1. PackInv => OnlyPromised
  BY DEF PackInv
<1>2. QED
  BY <1>1, PackInductive, PTL

(* A run that reports Done leaves every file of the pinned pack as it       *)
(* should be, and every deleted one gone, apart from what the player wrote  *)
(* meanwhile and from a file that this manifest names twice, in spellings   *)
(* that differ in case only (sync, verify).                                 *)
THEOREM PackSynced == Spec => []SyncedExactly
<1>1. ASSUME PackInv
      PROVE  SyncedExactly
  <2>1. job.pc = "done" =>
          /\ \A p \in DOMAIN job.man.files : There(p)
          /\ \A p \in job.man.delete : Gone(p)
    BY <1>1 DEF PackInv, ProgressInv
  <2>2. QED
    BY <2>1 DEF SyncedExactly, There, Gone
<1>2. QED
  BY <1>1, PackInductive, PTL

(* A run that reports Done leaves no file of an older pack, whichever       *)
(* publishes it skipped and wherever earlier runs ended, until the pack     *)
(* directory with its delete list is lost (compute_delete_list,             *)
(* apply_deletes).                                                          *)
THEOREM PackNothingStale == Spec => []NothingStale
<1>1. PackInv => NothingStale
  BY DEF PackInv, StaleInv, Named, NothingStale
<1>2. QED
  BY <1>1, PackInductive, PTL

(* A run that fails with no error of the network or the disk, no publish    *)
(* and no player in between was given a manifest it must refuse, met a file *)
(* in the place of a directory, or the reverse, or pinned one file under    *)
(* two names, the second of whose renames fails (validate, download_one).   *)
THEOREM PackFailureExplained == Spec => []FailureExplained
<1>1. PackInv => FailureExplained
  BY DEF PackInv, ExplainInv, FailureExplained
<1>2. QED
  BY <1>1, PackInductive, PTL

-----------------------------------------------------------------------------
(* A step of the launcher, told by the files that it may change.            *)
LEMMA FilesChanged ==
    ASSUME PackInv, [Next]_vars, trouble' = trouble
    PROVE  \/ FilesKept({})
           \/ FilesKept({Options}) /\ (disk[Options] # Absent => disk'[Options] = disk[Options])
           \/ /\ job.pc \in {"download", "repair"}
              /\ \E p \in DOMAIN job.man.files :
                    FilesKept({Fold[p]}) /\ disk'[Fold[p]] \in File
           \/ /\ job.pc = "delete" /\ \E p \in job.man.delete : FilesKept({Fold[p]})
<1>1. disk \in Disk /\ job \in Job /\ JobInv /\ DiskInv /\ trouble \in Nat
  BY PackTreeAssumption DEF PackInv, TypeOK, Disk
<1>3. ASSUME NEW p \in Path, Fetch(p)
      PROVE  \/ FilesKept({})
             \/ /\ job.pc \in {"download", "repair"} /\ p \in DOMAIN job.man.files
                /\ FilesKept({Fold[p]}) /\ disk'[Fold[p]] \in File
  BY <1>3, FetchStep, Kinds DEF PackInv
<1>4. CASE \E p \in Path : Check(p)
  BY <1>4 DEF Check, FilesKept
<1>5. CASE \E p \in Path : Delete(p)
  <2>1. job.pc = "delete"
    BY <1>5 DEF Delete
  <2>2. QED
    BY <1>1, <1>5, <2>1, DeleteStep
<1>6. CASE EndDeletes \/ EndRepairs
  BY <1>1, <1>6, EndDeletesStep, EndRepairsStep
<1>7. CASE Edit \/ Fault
  <2>1. trouble' = trouble + 1
    BY <1>7 DEF Edit, Fault, Disturb
  <2>2. FALSE
    BY <1>1, <2>1
  <2>3. QED
    BY <2>2
<1>8. CASE disk' = disk
  BY <1>8 DEF FilesKept
<1>9. QED
  BY <1>3, <1>4, <1>5, <1>6, <1>7, <1>8, Steps
     DEF Launching, Fetch, Start, EndDownloads, End, Watch, vars

(* No step of the launcher changes a file of the player's that the pinned   *)
(* manifest does not name, whatever the directories it prunes or creates    *)
(* (apply_deletes, prune_empty_ancestors, seed_options).                    *)
THEOREM PackUserFilesKept == Spec => UserFilesKept
<1>1. ASSUME PackInv, [Next]_vars, trouble' = trouble,
             NEW k \in Key, disk[k] = User, disk'[k] # User
      PROVE  \E p \in DOMAIN job.man.files \cup job.man.delete : Fold[p] = k
  <2>1. \A K \in SUBSET Key : FilesKept(K) => k \in K
    BY <1>1, Kinds DEF FilesKept
  <2>2. k # Options \/ (disk[Options] # Absent /\ disk'[Options] # disk[Options])
    BY <1>1, Kinds
  <2>3. Options \in Key /\ Fold \in [Path -> Key]
    BY PackSyncAssumption
  <2>4. ASSUME NEW p \in DOMAIN job.man.files \cup job.man.delete, FilesKept({Fold[p]})
        PROVE  Fold[p] = k
    BY <1>1, <2>4, Kinds DEF FilesKept
  <2>5. ~FilesKept({})
    BY <1>1, Kinds DEF FilesKept
  <2>6. FilesKept({Options}) => k = Options
    BY <2>1, <2>3
  <2>7. QED
    BY <1>1, <2>2, <2>4, <2>5, <2>6, FilesChanged
<1>2. PackInv /\ [Next]_vars =>
        [trouble' = trouble =>
           \A k \in Key : disk[k] = User /\ disk'[k] # User =>
             \E p \in DOMAIN job.man.files \cup job.man.delete : Fold[p] = k]_disk
  BY <1>1
<1>3. QED
  BY <1>2, PackInductive, PTL DEF Spec, UserFilesKept

(* A sync removes a file only when all that it installs is in place, but    *)
(* for a file its manifest names twice, in spellings that differ in case    *)
(* only (sync: the downloads end before apply_deletes).                     *)
THEOREM PackReplaceBeforeRemove == Spec => ReplaceBeforeRemove
<1>1. ASSUME PackInv, [Next]_vars, trouble' = trouble, job.op = "sync",
             NEW k \in Key, disk[k] \in File, disk'[k] \notin File
      PROVE  \A p \in DOMAIN job.man.files : Lone(p, job.man) =>
                UpToDate(p, job.man) \/ Fold[p] \in job.edited
  <2>1. ~FilesKept({})
    BY <1>1 DEF FilesKept
  <2>2. ~(FilesKept({Options}) /\ (disk[Options] # Absent => disk'[Options] = disk[Options]))
    BY <1>1, Kinds DEF FilesKept
  <2>3. ASSUME NEW p, FilesKept({Fold[p]}), disk'[Fold[p]] \in File
        PROVE  FALSE
    BY <1>1, <2>3 DEF FilesKept
  <2>4. job.pc = "delete"
    BY <1>1, <2>1, <2>2, <2>3, FilesChanged
  <2>5. QED
    BY <1>1, <2>4 DEF PackInv, ProgressInv, There
<1>2. PackInv /\ [Next]_vars =>
        [job.op = "sync" /\ trouble' = trouble
           /\ (\E k \in Key : disk[k] \in File /\ disk'[k] \notin File) =>
             \A p \in DOMAIN job.man.files : Lone(p, job.man) =>
                 UpToDate(p, job.man) \/ Fold[p] \in job.edited]_disk
  BY <1>1
<1>3. QED
  BY <1>2, PackInductive, PTL DEF Spec, ReplaceBeforeRemove

=============================================================================
