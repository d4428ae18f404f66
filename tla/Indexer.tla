------------------------------- MODULE Indexer --------------------------------
(***************************************************************************)
(* The indexer of the code: it walks the working directory, watches its    *)
(* directories, collects the files that change and, two seconds after the  *)
(* last event, splits each into chunks, embeds them and saves them.  The   *)
(* index is the map of ChunkMap.  The user and the agents change the files *)
(* at any time.  A content is a version, numbered in the order of writing; *)
(* version 0 is a file that does not exist.  Files and directories that    *)
(* isIgnored excludes are left out.  The file watcher delivers the events  *)
(* of a watched directory in order, as long as its queue has room.         *)
(***************************************************************************)
EXTENDS Naturals, Sequences, FiniteSets

CONSTANTS
    Dirs, Root,     \* directories: the working directory and some below it
    Files, DirOf,   \* files and the directory of each
    Versions,       \* bound: contents the files may have
    MaxChunks,      \* bound: chunks of a content
    ChunkCount,     \* how many chunks chunkText makes of each version
    MaxEvents       \* capacity of the queue of the watcher

NoDir == "no directory"

ASSUME DirsAssumption == Root \in Dirs /\ NoDir \notin Dirs /\ DirOf \in [Files -> Dirs]
ASSUME VersionsAssumption ==
    /\ Versions # {} /\ Versions \subseteq Nat \ {0} /\ MaxChunks \in Nat /\ MaxEvents \in Nat
    /\ ChunkCount \in [Versions -> 0 .. MaxChunks]

VARIABLES
    disk, dirs, written,    \* the files, the directories, the versions used up
    watched, events,        \* the watcher
    pc, cancelled,          \* the indexer and its context
    toWalk, listing, names, \* the walk
    dirty, timer,           \* dirtyFiles; is the debounce timer running
    batch, cur,             \* filesToProcess and the file in processFile
    chunks,                 \* the index
    lost                    \* history: files whose change nobody will notice

fileVars  == <<disk, dirs, written>>
walkVars  == <<toWalk, listing, names>>
batchVars == <<batch, cur>>
vars == <<fileVars, watched, events, pc, cancelled, walkVars, dirty, timer,
          batchVars, chunks, lost>>

NoFile == [phase |-> "none"]
Slots  == 0 .. MaxChunks - 1
Event  == [op : {"write", "gone"}, name : Files] \cup [op : {"dir", "dirGone"}, name : Dirs]
Work   == [file : Files, version : Versions, phase : {"clear", "save"}, next : 0 .. MaxChunks]

Index == INSTANCE ChunkMap WITH
    Paths <- Files, Indexes <- Slots, Texts <- Versions, NoText <- 0, Searchers <- {},
    chunks <- chunks, call <- NoFile, result <- "none", found <- <<>>

FilesIn(d) == {f \in Files : DirOf[f] = d}
Announced(op, f) == \E i \in 1 .. Len(events) : events[i] = [op |-> op, name |-> f]
Existing(d) == {f \in FilesIn(d) : disk[f] # 0}

(* What is read now of a file is indexed for good, unless the event of an  *)
(* earlier removal is still to come.                                       *)
Regained(S) == {f \in S : ~Announced("gone", f)}

Empty(f) == \A i \in Slots : chunks[<<f, i>>] = 0

(* Exactly the chunks of the content of f are stored.                      *)
Indexed(f) == \A i \in Slots : chunks[<<f, i>>] =
                 IF disk[f] # 0 /\ i < ChunkCount[disk[f]] THEN disk[f] ELSE 0

-----------------------------------------------------------------------------
Init ==
    /\ disk = [f \in Files |-> 0] /\ dirs = {Root} /\ written = {}
    /\ watched = {} /\ events = <<>>
    /\ pc = "down" /\ cancelled = FALSE
    /\ toWalk = {} /\ listing = NoDir /\ names = {}
    /\ dirty = {} /\ timer = FALSE
    /\ batch = {} /\ cur = NoFile
    /\ chunks = Index!Empty
    /\ lost = {}

-----------------------------------------------------------------------------
(* Changes of the files, and the events they cause.                        *)

(* An event in directory d.  If it is not delivered, nobody will notice    *)
(* that the given files changed, unless the indexer is yet to be started.  *)
Notify(op, name, d, changed) ==
    IF pc # "down" /\ d \in watched /\ Len(events) < MaxEvents
    THEN events' = Append(events, [op |-> op, name |-> name]) /\ UNCHANGED lost
    ELSE UNCHANGED events /\ lost' = lost \cup (IF pc = "down" THEN {} ELSE changed)

Write(f) ==
    /\ DirOf[f] \in dirs
    /\ \E v \in Versions \ written :
          disk' = [disk EXCEPT ![f] = v] /\ written' = written \cup {v}
    /\ Notify("write", f, DirOf[f], {f})
    /\ UNCHANGED <<dirs, watched, pc, cancelled, walkVars, dirty, timer, batchVars, chunks>>

Remove(f) ==
    /\ disk[f] # 0
    /\ disk' = [disk EXCEPT ![f] = 0]
    /\ Notify("gone", f, DirOf[f], {f})
    /\ UNCHANGED <<dirs, written, watched, pc, cancelled, walkVars, dirty, timer,
                   batchVars, chunks>>

MakeDir(d) ==
    /\ d \notin dirs
    /\ dirs' = dirs \cup {d}
    /\ Notify("dir", d, Root, {})
    /\ UNCHANGED <<disk, written, watched, pc, cancelled, walkVars, dirty, timer,
                   batchVars, chunks>>

(* An empty directory is removed, or one is moved out of the working       *)
(* directory: no event tells of the files in it.                           *)
DirGone(d) ==
    /\ d \in dirs \ {Root}
    /\ dirs' = dirs \ {d} /\ watched' = watched \ {d}
    /\ disk' = [f \in Files |-> IF DirOf[f] = d THEN 0 ELSE disk[f]]
    /\ IF pc # "down" /\ Root \in watched /\ Len(events) < MaxEvents
       THEN events' = Append(events, [op |-> "dirGone", name |-> d])
       ELSE UNCHANGED events
    /\ lost' = lost \cup (IF pc = "down" THEN {} ELSE Existing(d))
    /\ UNCHANGED <<written, pc, cancelled, walkVars, dirty, timer, batchVars, chunks>>

-----------------------------------------------------------------------------
(* Start: the walk.                                                        *)

(* Rows of files that are gone are not looked at again.                    *)
Start ==
    /\ pc = "down"
    /\ pc' = "walk" /\ cancelled' = FALSE
    /\ toWalk' = {Root}
    /\ lost' = {f \in Files : disk[f] = 0 /\ ~Empty(f)}
    /\ UNCHANGED <<fileVars, watched, events, listing, names, dirty, timer, batchVars, chunks>>

(* The names in directory d are read before the function is called for it. *)
ReadNames(d) ==
    /\ pc = "walk" /\ listing = NoDir /\ d \in toWalk
    /\ d \in dirs
    /\ listing' = d
    /\ names' = names \cup Existing(d)
    /\ toWalk' = (toWalk \ {d}) \cup (IF d = Root THEN dirs \ {Root} ELSE {})
    /\ UNCHANGED <<fileVars, watched, events, pc, cancelled, dirty, timer, batchVars,
                   chunks, lost>>

(* It is gone when the walk comes to it.                                   *)
SkipDir(d) ==
    /\ pc = "walk" /\ listing = NoDir /\ d \in toWalk
    /\ d \notin dirs
    /\ toWalk' = toWalk \ {d}
    /\ UNCHANGED <<fileVars, watched, events, pc, cancelled, listing, names, dirty, timer,
                   batchVars, chunks, lost>>

(* The function adds the directory to the watcher.  What was created in it *)
(* since its names were read is neither listed nor announced.              *)
WatchDir ==
    /\ pc = "walk" /\ listing # NoDir
    /\ listing \in dirs
    /\ watched' = watched \cup {listing}
    /\ listing' = NoDir
    /\ UNCHANGED <<fileVars, events, pc, cancelled, toWalk, names, dirty, timer, batchVars,
                   chunks, lost>>

(* Faulty variant: files that have rows are not indexed again.             *)
VisitNewFile(f) ==
    /\ pc = "walk" /\ listing = NoDir /\ f \in names
    /\ names' = names \ {f}
    /\ IF disk[f] # 0 /\ Empty(f)
       THEN dirty' = dirty \cup {f} /\ lost' = lost \ Regained({f})
       ELSE UNCHANGED <<dirty, lost>>
    /\ UNCHANGED <<fileVars, watched, events, pc, cancelled, toWalk, listing, timer,
                   batchVars, chunks>>

(* A file that was listed is looked up, and passed over if it is gone.     *)
VisitFile(f) ==
    /\ pc = "walk" /\ listing = NoDir /\ f \in names
    /\ names' = names \ {f}
    /\ IF disk[f] # 0
       THEN dirty' = dirty \cup {f} /\ lost' = lost \ Regained({f})
       ELSE UNCHANGED <<dirty, lost>>
    /\ UNCHANGED <<fileVars, watched, events, pc, cancelled, toWalk, listing, timer,
                   batchVars, chunks>>

(* Faulty variant: the timer is created but not started.                   *)
LoopUnarmed ==
    /\ pc = "walk" /\ toWalk = {} /\ listing = NoDir /\ names = {}
    /\ pc' = "loop" /\ timer' = FALSE
    /\ UNCHANGED <<fileVars, watched, events, cancelled, walkVars, dirty, batchVars,
                   chunks, lost>>

EnterLoop ==
    /\ pc = "walk" /\ toWalk = {} /\ listing = NoDir /\ names = {}
    /\ pc' = "loop" /\ timer' = TRUE
    /\ UNCHANGED <<fileVars, watched, events, cancelled, walkVars, dirty, batchVars,
                   chunks, lost>>

-----------------------------------------------------------------------------
(* The loop: one event, or the timer.                                      *)

(* Takes the first event and starts the timer again.                       *)
Take(op) ==
    /\ pc = "loop" /\ events # <<>> /\ Head(events).op = op
    /\ events' = Tail(events) /\ timer' = TRUE
    /\ UNCHANGED <<fileVars, pc, cancelled, walkVars, batchVars>>

(* os.Stat: the file may be gone again.                                    *)
HandleWrite ==
    /\ Take("write")
    /\ dirty' = IF disk[Head(events).name] # 0 THEN dirty \cup {Head(events).name} ELSE dirty
    /\ UNCHANGED <<watched, chunks, lost>>

ClearFile(f) == chunks' = Index!Effect([op |-> "clear", path |-> f])

HandleGone ==
    /\ Take("gone")
    /\ \/ ~cancelled /\ ClearFile(Head(events).name) /\ UNCHANGED lost
       \/ UNCHANGED chunks /\ lost' = lost \cup {Head(events).name}
    /\ UNCHANGED <<watched, dirty>>

(* The files that are in the new directory already are not looked at, and  *)
(* Add may fail without notice.                                            *)
HandleDir ==
    /\ Take("dir")
    /\ \/ Head(events).name \in dirs /\ watched' = watched \cup {Head(events).name}
       \/ UNCHANGED watched
    /\ UNCHANGED <<dirty, chunks, lost>>

(* ClearFile for the name of a directory finds no rows.                    *)
HandleDirGone == Take("dirGone") /\ UNCHANGED <<watched, dirty, chunks, lost>>

TakeBatch ==
    /\ pc = "loop" /\ timer
    /\ batch' = dirty /\ dirty' = {} /\ timer' = FALSE
    /\ pc' = "batch"
    /\ UNCHANGED <<fileVars, watched, events, cancelled, walkVars, cur, chunks, lost>>

BatchDone ==
    /\ pc = "batch" /\ batch = {} /\ cur = NoFile
    /\ pc' = "loop"
    /\ UNCHANGED <<fileVars, watched, events, cancelled, walkVars, dirty, timer, batchVars,
                   chunks, lost>>

-----------------------------------------------------------------------------
(* processFile.                                                            *)

ReadFile(f) ==
    /\ pc = "batch" /\ cur = NoFile /\ f \in batch
    /\ batch' = batch \ {f}
    /\ IF disk[f] = 0 THEN UNCHANGED <<cur, lost>>
       ELSE /\ cur' = [file |-> f, version |-> disk[f], phase |-> "clear", next |-> 0]
            /\ lost' = lost \ Regained({f})
    /\ UNCHANGED <<fileVars, watched, events, pc, cancelled, walkVars, dirty, timer, chunks>>

(* Faulty variant: the error of ClearFile is ignored.                      *)
ClearOldUnchecked ==
    /\ pc = "batch" /\ cur # NoFile /\ cur.phase = "clear"
    /\ ClearFile(cur.file) \/ UNCHANGED chunks
    /\ cur' = [cur EXCEPT !.phase = "save"]
    /\ UNCHANGED <<fileVars, watched, events, pc, cancelled, walkVars, dirty, timer, batch,
                   lost>>

ClearOld ==
    /\ pc = "batch" /\ cur # NoFile /\ cur.phase = "clear" /\ ~cancelled
    /\ ClearFile(cur.file)
    /\ cur' = [cur EXCEPT !.phase = "save"]
    /\ UNCHANGED <<fileVars, watched, events, pc, cancelled, walkVars, dirty, timer, batch,
                   lost>>

(* Faulty variant: one chunk too many.                                     *)
SaveOneMore ==
    /\ pc = "batch" /\ cur # NoFile /\ cur.phase = "save" /\ ~cancelled
    /\ cur.next <= ChunkCount[cur.version]
    /\ chunks' = Index!Effect([op |-> "save", id |-> <<cur.file, cur.next>>,
                               text |-> cur.version])
    /\ cur' = [cur EXCEPT !.next = @ + 1]
    /\ UNCHANGED <<fileVars, watched, events, pc, cancelled, walkVars, dirty, timer, batch,
                   lost>>

(* The next chunk is embedded and saved.                                   *)
SaveNext ==
    /\ pc = "batch" /\ cur # NoFile /\ cur.phase = "save" /\ ~cancelled
    /\ cur.next < ChunkCount[cur.version]
    /\ chunks' = Index!Effect([op |-> "save", id |-> <<cur.file, cur.next>>,
                               text |-> cur.version])
    /\ cur' = [cur EXCEPT !.next = @ + 1]
    /\ UNCHANGED <<fileVars, watched, events, pc, cancelled, walkVars, dirty, timer, batch,
                   lost>>

FileDone ==
    /\ pc = "batch" /\ cur # NoFile /\ cur.phase = "save"
    /\ cur.next = ChunkCount[cur.version]
    /\ cur' = NoFile
    /\ UNCHANGED <<fileVars, watched, events, pc, cancelled, walkVars, dirty, timer, batch,
                   chunks, lost>>

(* The store or the embedder fails, or the context is done: the file is    *)
(* given up.                                                               *)
FileFails ==
    /\ pc = "batch" /\ cur # NoFile
    /\ cur' = NoFile
    /\ lost' = lost \cup {cur.file}
    /\ UNCHANGED <<fileVars, watched, events, pc, cancelled, walkVars, dirty, timer, batch,
                   chunks>>

-----------------------------------------------------------------------------
(* The end.                                                                *)

Cancel ==
    /\ pc \in {"loop", "batch"} /\ cancelled' = TRUE
    /\ UNCHANGED <<fileVars, watched, events, pc, walkVars, dirty, timer, batchVars, chunks,
                   lost>>

Down ==
    /\ pc' = "down"
    /\ watched' = {} /\ events' = <<>>
    /\ toWalk' = {} /\ listing' = NoDir /\ names' = {}
    /\ dirty' = {} /\ timer' = FALSE /\ batch' = {} /\ cur' = NoFile
    /\ UNCHANGED <<fileVars, cancelled, chunks, lost>>

Stop == pc = "loop" /\ cancelled /\ Down

(* Add fails, be it that the directory is gone: Start returns the error.   *)
WatchFails == pc = "walk" /\ listing # NoDir /\ Down

(* The process dies, or Start fails and the program runs without index.    *)
Crash == pc # "down" /\ Down

-----------------------------------------------------------------------------
User == \/ \E f \in Files : Write(f) \/ Remove(f)
        \/ \E d \in Dirs : MakeDir(d) \/ DirGone(d)

Walk == \/ \E d \in Dirs : ReadNames(d) \/ SkipDir(d)
        \/ WatchDir \/ WatchFails
        \/ \E f \in Files : VisitFile(f)
        \/ EnterLoop

Handle == HandleWrite \/ HandleGone \/ HandleDir \/ HandleDirGone

ProcessFile == (\E f \in Files : ReadFile(f)) \/ ClearOld \/ SaveNext \/ FileDone \/ FileFails

Next == User \/ Start \/ Walk \/ Handle \/ TakeBatch \/ ProcessFile \/ BatchDone
        \/ Cancel \/ Stop \/ Crash

Spec == Init /\ [][Next]_vars

(* Events that follow each other keep the timer from firing.  A select     *)
(* with several cases ready takes each of them some time.  The embedder    *)
(* has no time limit and is not trusted to answer, so SaveNext is not      *)
(* fair; only the end of the context makes a request return.               *)
Fairness == /\ WF_vars(Walk) /\ WF_vars(Handle) /\ WF_vars(events = <<>> /\ TakeBatch)
            /\ WF_vars(\E f \in Files : ReadFile(f)) /\ WF_vars(ClearOld)
            /\ WF_vars(FileDone) /\ WF_vars(cancelled /\ FileFails)
            /\ WF_vars(BatchDone) /\ SF_vars(Stop)

FairSpec == Spec /\ Fairness

-----------------------------------------------------------------------------
(* Properties.                                                             *)

TypeOK ==
    /\ disk \in [Files -> Versions \cup {0}] /\ dirs \subseteq Dirs /\ written \subseteq Versions
    /\ watched \subseteq Dirs /\ events \in Seq(Event)
    /\ pc \in {"down", "walk", "loop", "batch"} /\ cancelled \in BOOLEAN
    /\ toWalk \subseteq Dirs /\ listing \in Dirs \cup {NoDir} /\ names \subseteq Files
    /\ dirty \subseteq Files /\ timer \in BOOLEAN
    /\ batch \subseteq Files /\ cur \in Work \cup {NoFile}
    /\ chunks \in [Files \X Slots -> Versions \cup {0}]
    /\ lost \subseteq Files

(* What the index holds of a file is the beginning of one version of it,   *)
(* never chunks of two versions, whatever fails or crashes (processFile).  *)
FirstChunks(f, v, n) == \A i \in Slots : chunks[<<f, i>>] = IF i < n THEN v ELSE 0

NoMixture == \A f \in Files : \E v \in Versions, n \in 0 .. MaxChunks :
                n <= ChunkCount[v] /\ FirstChunks(f, v, n)

(* While the indexer runs, a file whose content is not indexed is dirty,   *)
(* in the batch, being indexed or the subject of an event to come, unless  *)
(* its change went unnoticed or its processing failed (Start).             *)
Pending(f) ==
    IF disk[f] = 0 THEN Announced("gone", f)
    ELSE \/ f \in dirty \cup batch \/ Announced("write", f)
         \/ cur # NoFile /\ cur.file = f /\ cur.version = disk[f]

NothingForgotten ==
    pc \in {"loop", "batch"} =>
        \A f \in Files : Indexed(f) \/ Pending(f) \/ f \in lost

(* The goroutine gets on: a change that was noticed is indexed in the end, *)
(* once events cease and if the indexer is not stopped, nothing fails and  *)
(* the embedder answers, and after the context is cancelled the goroutine  *)
(* closes Done, also while the embedder does not answer in the middle of a *)
(* batch (Start, processFile, Close of main.go).                           *)
Embedding == cur # NoFile /\ cur.phase = "save" /\ cur.next < ChunkCount[cur.version]

IndexedInTheEnd ==
    []<>~Embedding =>
        \A f \in Files :
            []<>(Indexed(f) \/ f \in lost \/ events # <<>> \/ pc = "down" \/ cancelled)

StopEnds == cancelled ~> pc = "down"

LoopProgresses == IndexedInTheEnd /\ StopEnds
=============================================================================
