---------------------------- MODULE Indexer_proofs ----------------------------
(***************************************************************************)
(* Proofs about Indexer, for any files, directories, contents and queue:   *)
(* the index holds the beginning of one version of each file, no change    *)
(* that was noticed is forgotten, and the walk and each batch are bounded. *)
(***************************************************************************)
EXTENDS Indexer, Integers, FiniteSetTheorems, TLAPS

USE DirsAssumption, VersionsAssumption

-----------------------------------------------------------------------------
(* What the calls of the store do, and what a queue keeps.                 *)

LEMMA ClearFileEffect ==
    ASSUME TypeOK, NEW f \in Files, ClearFile(f)
    PROVE  /\ chunks' \in [Files \X Slots -> Versions \cup {0}]
           /\ \A i \in Slots : chunks'[<<f, i>>] = 0
           /\ \A g \in Files \ {f}, i \in Slots : chunks'[<<g, i>>] = chunks[<<g, i>>]
<1>1. chunks' = [id \in Files \X Slots |-> IF id[1] = f THEN 0 ELSE chunks[id]]
  BY DEF ClearFile, Index!Effect, Index!Ids
<1>2. \A g \in Files, i \in Slots : <<g, i>> \in Files \X Slots /\ <<g, i>>[1] = g
  OBVIOUS
<1> QED BY <1>1, <1>2 DEF TypeOK

LEMMA SaveEffect ==
    ASSUME TypeOK, NEW f \in Files, NEW n \in Slots, NEW v \in Versions,
           chunks' = Index!Effect([op |-> "save", id |-> <<f, n>>, text |-> v])
    PROVE  /\ chunks' \in [Files \X Slots -> Versions \cup {0}]
           /\ \A i \in Slots : chunks'[<<f, i>>] = IF i = n THEN v ELSE chunks[<<f, i>>]
           /\ \A g \in Files \ {f}, i \in Slots : chunks'[<<g, i>>] = chunks[<<g, i>>]
<1> DEFINE c == chunks
<1>1. chunks' = [c EXCEPT ![<<f, n>>] = v]
  BY DEF Index!Effect
<1>2. c \in [Files \X Slots -> Versions \cup {0}]
  BY DEF TypeOK
<1>3. <<f, n>> \in Files \X Slots /\ v \in Versions \cup {0}
  OBVIOUS
<1> HIDE DEF c
<1>4. chunks' \in [Files \X Slots -> Versions \cup {0}]
  BY <1>1, <1>2, <1>3
<1>5. \A id \in Files \X Slots : chunks'[id] = IF id = <<f, n>> THEN v ELSE c[id]
  BY <1>1, <1>2
<1>6. \A g \in Files, i \in Slots :
         <<g, i>> \in Files \X Slots /\ (<<g, i>> = <<f, n>> <=> g = f /\ i = n)
  OBVIOUS
<1> QED BY <1>4, <1>5, <1>6 DEF c

LEMMA SeqFacts ==
    ASSUME NEW S, NEW s \in Seq(S), s # <<>>
    PROVE  /\ Head(s) \in S /\ Tail(s) \in Seq(S)
           /\ Len(s) \in Nat /\ Len(s) > 0 /\ Len(Tail(s)) = Len(s) - 1
           /\ \A i \in 1 .. Len(s) - 1 : Tail(s)[i] = s[i + 1]
           /\ Head(s) = s[1]
  OBVIOUS

LEMMA AppendFacts ==
    ASSUME NEW S, NEW s \in Seq(S), NEW e \in S
    PROVE  /\ Append(s, e) \in Seq(S) /\ Len(s) \in Nat
           /\ Len(Append(s, e)) = Len(s) + 1
           /\ \A i \in 1 .. Len(s) : Append(s, e)[i] = s[i]
           /\ Append(s, e)[Len(s) + 1] = e
  OBVIOUS

LEMMA EmptySeq == ASSUME NEW S PROVE <<>> \in Seq(S)
  OBVIOUS

LEMMA WorkFields ==
    ASSUME NEW w \in Work \cup {NoFile}
    PROVE  /\ w # NoFile => /\ w \in Work /\ w.file \in Files /\ w.version \in Versions
                            /\ w.phase \in {"clear", "save"} /\ w.next \in 0 .. MaxChunks
           /\ w = NoFile => w.phase = "none"
  BY DEF Work, NoFile

LEMMA NotWork == \A w \in Work : w # NoFile
  BY DEF Work, NoFile

-----------------------------------------------------------------------------
(* Type correctness.                                                       *)

LEMMA TypeOKInitially == Init => TypeOK
<1> SUFFICES ASSUME Init PROVE TypeOK
  OBVIOUS
<1>1. chunks = [id \in Files \X Slots |-> 0]
  BY DEF Init, Index!Empty, Index!Ids
<1>2. chunks \in [Files \X Slots -> Versions \cup {0}]
  BY <1>1
<1>3. events \in Seq(Event)
  BY EmptySeq DEF Init
<1> QED BY <1>2, <1>3 DEF Init, TypeOK

LEMMA NotifyTypes ==
    ASSUME TypeOK, NEW op, NEW name, NEW d, NEW changed \in SUBSET Files,
           [op |-> op, name |-> name] \in Event, Notify(op, name, d, changed)
    PROVE  events' \in Seq(Event) /\ lost' \subseteq Files
<1>1. events \in Seq(Event) /\ lost \subseteq Files
  BY DEF TypeOK
<1>2. Append(events, [op |-> op, name |-> name]) \in Seq(Event)
  BY <1>1, AppendFacts
<1> QED BY <1>1, <1>2 DEF Notify

LEMMA TypeOKInductive == TypeOK /\ [Next]_vars => TypeOK'
<1> SUFFICES ASSUME TypeOK, [Next]_vars PROVE TypeOK'
  OBVIOUS
<1> USE DEF fileVars, walkVars, batchVars
<1>0. cur # NoFile => /\ cur \in Work /\ cur.file \in Files /\ cur.version \in Versions
                      /\ cur.phase \in {"clear", "save"} /\ cur.next \in 0 .. MaxChunks
  BY WorkFields DEF TypeOK
<1>1. ASSUME NEW f \in Files, Write(f) PROVE TypeOK'
  <2>1. [op |-> "write", name |-> f] \in Event
    BY DEF Event
  <2>2. events' \in Seq(Event) /\ lost' \subseteq Files
    BY <1>1, <2>1, NotifyTypes DEF Write
  <2> QED BY <1>1, <2>2 DEF Write, TypeOK
<1>2. ASSUME NEW f \in Files, Remove(f) PROVE TypeOK'
  <2>1. [op |-> "gone", name |-> f] \in Event
    BY DEF Event
  <2>2. events' \in Seq(Event) /\ lost' \subseteq Files
    BY <1>2, <2>1, NotifyTypes DEF Remove
  <2> QED BY <1>2, <2>2 DEF Remove, TypeOK
<1>3. ASSUME NEW d \in Dirs, MakeDir(d) PROVE TypeOK'
  <2>1. [op |-> "dir", name |-> d] \in Event
    BY DEF Event
  <2>2. events' \in Seq(Event) /\ lost' \subseteq Files
    BY <1>3, <2>1, NotifyTypes DEF MakeDir
  <2> QED BY <1>3, <2>2 DEF MakeDir, TypeOK
<1>4. ASSUME NEW d \in Dirs, DirGone(d) PROVE TypeOK'
  <2>1. [op |-> "dirGone", name |-> d] \in Event
    BY DEF Event
  <2>2. events' \in Seq(Event)
    <3>1. events \in Seq(Event)
      BY DEF TypeOK
    <3>2. Append(events, [op |-> "dirGone", name |-> d]) \in Seq(Event)
      BY <2>1, <3>1, AppendFacts
    <3> QED BY <1>4, <3>1, <3>2 DEF DirGone
  <2> QED BY <1>4, <2>2 DEF DirGone, TypeOK, Existing, FilesIn
<1>5. CASE Start
  BY <1>5 DEF Start, TypeOK
<1>6. ASSUME NEW d \in Dirs, ReadNames(d) \/ SkipDir(d) PROVE TypeOK'
  BY <1>6 DEF ReadNames, SkipDir, TypeOK, Existing, FilesIn
<1>7. CASE WatchDir \/ \E f \in Files : VisitFile(f)
  BY <1>7 DEF WatchDir, VisitFile, TypeOK
<1>8. CASE EnterLoop
  BY <1>8 DEF EnterLoop, TypeOK
<1>9. CASE Handle
  <2>1. events # <<>>
    BY <1>9 DEF Handle, HandleWrite, HandleGone, HandleDir, HandleDirGone, Take
  <2>2. Head(events) \in Event /\ Tail(events) \in Seq(Event)
    BY <2>1, SeqFacts DEF TypeOK
  <2>3. /\ Head(events).op \in {"write", "gone"} => Head(events).name \in Files
        /\ Head(events).op = "dir" => Head(events).name \in Dirs
    BY <2>2 DEF Event
  <2>4. CASE HandleWrite
    BY <2>2, <2>3, <2>4 DEF HandleWrite, Take, TypeOK
  <2>5. CASE HandleGone
    <3>1. chunks' \in [Files \X Slots -> Versions \cup {0}]
      BY <2>3, <2>5, ClearFileEffect DEF HandleGone, Take, TypeOK
    <3> QED BY <2>2, <2>3, <2>5, <3>1 DEF HandleGone, Take, TypeOK
  <2>6. CASE HandleDir
    BY <2>2, <2>3, <2>6 DEF HandleDir, Take, TypeOK
  <2>7. CASE HandleDirGone
    BY <2>2, <2>7 DEF HandleDirGone, Take, TypeOK
  <2> QED BY <1>9, <2>4, <2>5, <2>6, <2>7 DEF Handle
<1>10. CASE TakeBatch \/ BatchDone
  BY <1>10 DEF TakeBatch, BatchDone, TypeOK
<1>11. ASSUME NEW f \in Files, ReadFile(f) PROVE TypeOK'
  <2>1. CASE disk[f] = 0
    BY <1>11, <2>1 DEF ReadFile, TypeOK
  <2>2. CASE disk[f] # 0
    <3>1. [file |-> f, version |-> disk[f], phase |-> "clear", next |-> 0] \in Work
      BY <2>2 DEF Work, TypeOK
    <3> QED BY <1>11, <2>2, <3>1 DEF ReadFile, TypeOK
  <2> QED BY <2>1, <2>2
<1>12. CASE ClearOld
  <2>1. chunks' \in [Files \X Slots -> Versions \cup {0}]
    BY <1>0, <1>12, ClearFileEffect DEF ClearOld
  <2>2. cur' \in Work
    BY <1>0, <1>12 DEF ClearOld, Work
  <2> QED BY <1>12, <2>1, <2>2 DEF ClearOld, TypeOK
<1>13. CASE SaveNext
  <2>1. cur.next \in Slots /\ cur.next + 1 \in 0 .. MaxChunks
    BY <1>0, <1>13 DEF SaveNext, Slots
  <2>2. chunks' \in [Files \X Slots -> Versions \cup {0}]
    BY <1>0, <1>13, <2>1, SaveEffect DEF SaveNext
  <2>3. cur' \in Work
    BY <1>0, <1>13, <2>1 DEF SaveNext, Work
  <2> QED BY <1>13, <2>2, <2>3 DEF SaveNext, TypeOK
<1>14. CASE FileDone \/ FileFails
  BY <1>0, <1>14 DEF FileDone, FileFails, TypeOK
<1>15. CASE Cancel
  BY <1>15 DEF Cancel, TypeOK
<1>16. CASE Stop \/ Crash \/ WatchFails
  <2>1. events' \in Seq(Event)
    BY <1>16, EmptySeq DEF Stop, Crash, WatchFails, Down
  <2> QED BY <1>16, <2>1 DEF Stop, Crash, WatchFails, Down, TypeOK
<1>17. CASE UNCHANGED vars
  BY <1>17 DEF vars, TypeOK
<1> QED BY <1>1, <1>2, <1>3, <1>4, <1>5, <1>6, <1>7, <1>8, <1>9, <1>10, <1>11, <1>12,
          <1>13, <1>14, <1>15, <1>16, <1>17 DEF Next, User, Walk, ProcessFile

(* Every variable keeps its type.                                          *)
THEOREM TypeCorrect == Spec => []TypeOK
  BY TypeOKInitially, TypeOKInductive, PTL DEF Spec

-----------------------------------------------------------------------------
(* No mixture: what is stored of a file that is being saved is the part of *)
(* its version that was saved so far.                                      *)

ProgressInv ==
    /\ cur # NoFile => pc = "batch"
    /\ cur # NoFile /\ cur.phase = "clear" => cur.next = 0
    /\ cur # NoFile /\ cur.phase = "save" =>
          cur.next <= ChunkCount[cur.version] /\ FirstChunks(cur.file, cur.version, cur.next)

MixtureInv == TypeOK /\ ProgressInv /\ NoMixture

LEMMA MixtureInitially == Init => MixtureInv
<1> SUFFICES ASSUME Init PROVE ProgressInv /\ NoMixture
  BY TypeOKInitially DEF MixtureInv
<1>1. \A f \in Files, i \in Slots : chunks[<<f, i>>] = 0
  BY DEF Init, Index!Empty, Index!Ids
<1>2. PICK v \in Versions : TRUE
  OBVIOUS
<1>3. ASSUME NEW f \in Files PROVE FirstChunks(f, v, 0) /\ 0 <= ChunkCount[v] /\ 0 \in 0 .. MaxChunks
  BY <1>1 DEF FirstChunks, Slots
<1>4. NoMixture
  BY <1>3 DEF NoMixture
<1> QED BY <1>4 DEF Init, ProgressInv

(* Steps that leave the stored chunks alone.                               *)
LEMMA SameChunks == NoMixture /\ UNCHANGED chunks => NoMixture'
  BY DEF NoMixture, FirstChunks

(* A step that clears one file.                                            *)
LEMMA ClearMixture ==
    ASSUME TypeOK, NoMixture, NEW f \in Files, ClearFile(f)
    PROVE  NoMixture' /\ \A i \in Slots : chunks'[<<f, i>>] = 0
<1>1. /\ \A i \in Slots : chunks'[<<f, i>>] = 0
      /\ \A g \in Files \ {f}, i \in Slots : chunks'[<<g, i>>] = chunks[<<g, i>>]
  BY ClearFileEffect
<1>2. \A v \in Versions : FirstChunks(f, v, 0)'
  BY <1>1 DEF FirstChunks, Slots
<1>3. ASSUME NEW g \in Files
      PROVE  \E v \in Versions, n \in 0 .. MaxChunks : n <= ChunkCount[v] /\ FirstChunks(g, v, n)'
  <2>1. CASE g = f
    <3>1. PICK v \in Versions : TRUE
      OBVIOUS
    <3>2. 0 \in 0 .. MaxChunks /\ 0 <= ChunkCount[v]
      OBVIOUS
    <3> QED BY <1>2, <2>1, <3>2
  <2>2. CASE g # f
    <3>1. PICK v \in Versions, n \in 0 .. MaxChunks : n <= ChunkCount[v] /\ FirstChunks(g, v, n)
      BY DEF NoMixture
    <3>2. FirstChunks(g, v, n)'
      BY <1>1, <2>2, <3>1 DEF FirstChunks
    <3> QED BY <3>1, <3>2
  <2> QED BY <2>1, <2>2
<1> QED BY <1>1, <1>3 DEF NoMixture

LEMMA MixtureInductive == MixtureInv /\ [Next]_vars => MixtureInv'
<1> SUFFICES ASSUME TypeOK, TypeOK', ProgressInv, NoMixture, [Next]_vars
             PROVE  ProgressInv' /\ NoMixture'
  BY TypeOKInductive DEF MixtureInv
<1> USE DEF fileVars, walkVars, batchVars
<1>0. cur # NoFile => /\ cur \in Work /\ cur.file \in Files /\ cur.version \in Versions
                      /\ cur.phase \in {"clear", "save"} /\ cur.next \in 0 .. MaxChunks
  BY WorkFields DEF TypeOK
<1>1. ASSUME UNCHANGED <<chunks, cur>>, cur = NoFile \/ pc' = pc PROVE ProgressInv' /\ NoMixture'
  BY <1>1, SameChunks DEF ProgressInv, FirstChunks
<1>2. ASSUME UNCHANGED chunks, cur' = NoFile PROVE ProgressInv' /\ NoMixture'
  BY <1>2, SameChunks DEF ProgressInv
<1>3. CASE User
  BY <1>1, <1>3 DEF User, Write, Remove, MakeDir, DirGone
<1>4. CASE Start \/ (Walk /\ ~WatchFails) \/ TakeBatch
  <2>1. pc # "batch" /\ UNCHANGED <<chunks, cur>>
    BY <1>4 DEF Start, Walk, ReadNames, SkipDir, WatchDir, VisitFile, EnterLoop, TakeBatch
  <2> QED BY <1>1, <2>1 DEF ProgressInv
<1>5. CASE HandleGone
  <2>1. cur = NoFile /\ cur' = NoFile /\ Head(events).op = "gone" /\ events # <<>>
    BY <1>5 DEF HandleGone, Take, ProgressInv
  <2>2. Head(events).name \in Files
    <3>1. Head(events) \in Event
      BY <2>1, SeqFacts DEF TypeOK
    <3> QED BY <2>1, <3>1 DEF Event
  <2>3. NoMixture'
    BY <1>5, <2>2, ClearMixture, SameChunks DEF HandleGone
  <2> QED BY <2>1, <2>3 DEF ProgressInv
<1>6. CASE HandleWrite \/ HandleDir \/ HandleDirGone
  BY <1>1, <1>6 DEF HandleWrite, HandleDir, HandleDirGone, Take
<1>7. CASE BatchDone \/ Stop \/ Crash \/ WatchFails \/ FileDone \/ FileFails
  BY <1>2, <1>7 DEF BatchDone, Stop, Crash, WatchFails, Down, FileDone, FileFails
<1>8. ASSUME NEW f \in Files, ReadFile(f) PROVE ProgressInv' /\ NoMixture'
  <2>1. NoMixture'
    BY <1>8, SameChunks DEF ReadFile
  <2>2. CASE UNCHANGED cur
    BY <1>1, <1>8, <2>2 DEF ReadFile
  <2>3. CASE cur' = [file |-> f, version |-> disk[f], phase |-> "clear", next |-> 0]
    BY <1>8, <2>1, <2>3 DEF ReadFile, ProgressInv
  <2> QED BY <1>8, <2>2, <2>3 DEF ReadFile
<1>9. CASE ClearOld
  <2>1. NoMixture' /\ \A i \in Slots : chunks'[<<cur.file, i>>] = 0
    <3>1. cur.file \in Files /\ ClearFile(cur.file)
      BY <1>0, <1>9 DEF ClearOld
    <3> QED BY <3>1, ClearMixture
  <2>2. /\ pc' = "batch" /\ cur'.phase = "save" /\ cur'.file = cur.file
        /\ cur'.version \in Versions /\ cur'.next = 0
    BY <1>0, <1>9 DEF ClearOld, ProgressInv, Work
  <2>3. FirstChunks(cur.file, cur.version, cur.next)'
    BY <2>1, <2>2 DEF FirstChunks, Slots
  <2>4. cur'.next <= ChunkCount[cur'.version]
    <3>1. \A v \in Versions : 0 <= ChunkCount[v]
      OBVIOUS
    <3> QED BY <2>2, <3>1
  <2> QED BY <2>1, <2>2, <2>3, <2>4 DEF ProgressInv
<1>10. CASE SaveNext
  <2>1. cur # NoFile /\ cur.next \in Slots
    BY <1>0, <1>10 DEF SaveNext, Slots
  <2>2. PICK f \in Files, v \in Versions, n \in Slots :
           f = cur.file /\ v = cur.version /\ n = cur.next
    BY <1>0, <2>1
  <2>3. n < ChunkCount[v] /\ n \in Nat /\ n + 1 \in 0 .. MaxChunks /\ n + 1 <= ChunkCount[v]
    BY <1>10, <2>2 DEF SaveNext, Slots
  <2>4. chunks' = Index!Effect([op |-> "save", id |-> <<f, n>>, text |-> v])
    BY <1>10, <2>2 DEF SaveNext
  <2>5. /\ \A i \in Slots : chunks'[<<f, i>>] = IF i = n THEN v ELSE chunks[<<f, i>>]
        /\ \A g \in Files \ {f}, i \in Slots : chunks'[<<g, i>>] = chunks[<<g, i>>]
    <3>1. TypeOK
      OBVIOUS
    <3> QED BY ONLY <2>4, <3>1, SaveEffect
  <2>6. \A i \in Slots : chunks[<<f, i>>] = IF i < n THEN v ELSE 0
    BY <1>10, <2>2 DEF SaveNext, ProgressInv, FirstChunks
  <2>7. \A i \in Slots : chunks'[<<f, i>>] = IF i < n + 1 THEN v ELSE 0
    BY <2>3, <2>5, <2>6 DEF Slots
  <2>8. ASSUME NEW g \in Files
        PROVE  \E w \in Versions, m \in 0 .. MaxChunks :
                  m <= ChunkCount[w] /\ \A i \in Slots : chunks'[<<g, i>>] = IF i < m THEN w ELSE 0
    <3>1. CASE g = f
      BY <2>3, <2>7, <3>1
    <3>2. CASE g # f
      <4>1. PICK w \in Versions, m \in 0 .. MaxChunks : m <= ChunkCount[w] /\ FirstChunks(g, w, m)
        BY DEF NoMixture
      <4> QED BY <2>5, <3>2, <4>1 DEF FirstChunks
    <3> QED BY <3>1, <3>2
  <2>9. NoMixture'
    BY <2>8 DEF NoMixture, FirstChunks
  <2>10. /\ pc' = "batch" /\ cur'.phase = "save" /\ cur'.file = f
         /\ cur'.version = v /\ cur'.next = n + 1
    BY <1>0, <1>10, <2>2 DEF SaveNext, Work
  <2>11. FirstChunks(cur.file, cur.version, cur.next)'
    BY <2>7, <2>10 DEF FirstChunks
  <2> QED BY <2>3, <2>9, <2>10, <2>11 DEF ProgressInv
<1>11. CASE Cancel \/ UNCHANGED vars
  BY <1>1, <1>11 DEF Cancel, vars
<1> QED BY <1>3, <1>4, <1>5, <1>6, <1>7, <1>8, <1>9, <1>10, <1>11 DEF Next, Handle, ProcessFile

(* What the index holds of a file is the beginning of one version of it.   *)
THEOREM NoMixtureCorrect == Spec => []NoMixture
  BY MixtureInitially, MixtureInductive, PTL DEF Spec, MixtureInv

-----------------------------------------------------------------------------
(* No noticed change is forgotten.                                         *)

(* Where the variables of the indexer are in use, and which files exist.   *)
PlacesInv ==
    /\ pc = "down" => watched = {} /\ events = <<>> /\ dirty = {}
    /\ pc # "walk" => toWalk = {} /\ listing = NoDir /\ names = {}
    /\ pc # "batch" => batch = {} /\ cur = NoFile
    /\ Root \in dirs
    /\ \A f \in Files : disk[f] # 0 => DirOf[f] \in dirs

Current(f) == cur # NoFile /\ cur.file = f

(* The removal of a file that exists again is followed by its new content. *)
Followed(f) ==
    \A i \in 1 .. Len(events) : events[i] = [op |-> "gone", name |-> f] =>
        \E j \in 1 .. Len(events) : i < j /\ events[j] = [op |-> "write", name |-> f]

OrderInv == \A f \in Files : disk[f] # 0 => f \in lost \/ Followed(f)

ToBeListed(f) ==
    pc = "walk" /\ ({DirOf[f], Root} \cap toWalk # {} \/ f \in names)

(* The content of a file that exists is indexed, or is going to be.        *)
Noticed(f) ==
    \/ f \in lost \/ Announced("write", f) \/ f \in dirty \cup batch
    \/ Current(f) /\ cur.version = disk[f]
    \/ ~Current(f) /\ Indexed(f)
    \/ ToBeListed(f)

(* The rows of a file that is gone are cleared, or are going to be.        *)
Cleared(f) == (Empty(f) /\ ~Current(f)) \/ Announced("gone", f) \/ f \in lost

Kept(f) == (disk[f] = 0 => Cleared(f)) /\ (disk[f] # 0 => Noticed(f))

KeptInv == pc # "down" => \A f \in Files : Kept(f)

NoticeInv == MixtureInv /\ PlacesInv /\ OrderInv /\ KeptInv

LEMMA NoticeInitially == Init => NoticeInv
  BY MixtureInitially DEF Init, NoticeInv, PlacesInv, OrderInv, KeptInv

-----------------------------------------------------------------------------
(* The queue.                                                              *)

WriteEvent(f) == [op |-> "write", name |-> f]
GoneEvent(f)  == [op |-> "gone", name |-> f]

(* A queue that an event was appended to.                                  *)
LEMMA AppendedQueue ==
    ASSUME TypeOK, NEW e \in Event, events' = Append(events, e)
    PROVE  /\ \A op, f : Announced(op, f) => Announced(op, f)'
           /\ \A op, f : e = [op |-> op, name |-> f] => Announced(op, f)'
           /\ \A f : e = WriteEvent(f) => Followed(f)'
           /\ \A f : Followed(f) /\ e # GoneEvent(f) => Followed(f)'
<1>1. /\ Len(events) \in Nat /\ Len(events') = Len(events) + 1
      /\ \A i \in 1 .. Len(events) : events'[i] = events[i]
      /\ events'[Len(events) + 1] = e
  BY AppendFacts DEF TypeOK
<1>2. \A i \in 1 .. Len(events') : i \in 1 .. Len(events) \/ i = Len(events) + 1
  BY <1>1
<1>3. \A i \in 1 .. Len(events) : i \in 1 .. Len(events') /\ i < Len(events) + 1
  BY <1>1
<1>4. Len(events) + 1 \in 1 .. Len(events')
  BY <1>1
<1>5. \A op, f : Announced(op, f) => Announced(op, f)'
  BY <1>1, <1>3 DEF Announced
<1>6. \A op, f : e = [op |-> op, name |-> f] => Announced(op, f)'
  BY <1>1, <1>4 DEF Announced
<1>7. ASSUME NEW f, e = WriteEvent(f) PROVE Followed(f)'
  <2>1. ASSUME NEW i \in 1 .. Len(events'), events'[i] = GoneEvent(f)
        PROVE  i < Len(events) + 1
    <3>1. i # Len(events) + 1
      BY <1>1, <1>7, <2>1 DEF WriteEvent, GoneEvent
    <3> QED BY <1>2, <1>3, <3>1
  <2> QED BY <1>1, <1>4, <1>7, <2>1 DEF Followed, WriteEvent, GoneEvent
<1>8. ASSUME NEW f, Followed(f), e # GoneEvent(f) PROVE Followed(f)'
  <2>1. ASSUME NEW i \in 1 .. Len(events'), events'[i] = GoneEvent(f)
        PROVE  \E j \in 1 .. Len(events') : i < j /\ events'[j] = WriteEvent(f)
    <3>1. i \in 1 .. Len(events)
      BY <1>1, <1>2, <1>8, <2>1
    <3>2. events[i] = GoneEvent(f)
      BY <1>1, <2>1, <3>1
    <3>3. PICK j \in 1 .. Len(events) : i < j /\ events[j] = WriteEvent(f)
      BY <1>8, <3>1, <3>2 DEF Followed, WriteEvent, GoneEvent
    <3> QED BY <1>1, <1>3, <3>3
  <2> QED BY <2>1 DEF Followed, WriteEvent, GoneEvent
<1> QED BY <1>5, <1>6, <1>7, <1>8

(* A queue whose first event was taken.                                    *)
LEMMA TakenQueue ==
    ASSUME TypeOK, events # <<>>, events' = Tail(events)
    PROVE  /\ \A op, f : Announced(op, f) /\ Head(events) # [op |-> op, name |-> f]
                          => Announced(op, f)'
           /\ \A f : Followed(f) => Followed(f)'
           /\ \A f : Followed(f) /\ Head(events) = GoneEvent(f) => Announced("write", f)'
<1>1. /\ Len(events) \in Nat /\ Len(events) > 0 /\ Len(events') = Len(events) - 1
      /\ \A i \in 1 .. Len(events) - 1 : events'[i] = events[i + 1]
      /\ Head(events) = events[1]
  BY SeqFacts DEF TypeOK
<1>2. \A i \in 1 .. Len(events) : i # 1 => i - 1 \in 1 .. Len(events') /\ events'[i - 1] = events[i]
  BY <1>1
<1>3. \A i \in 1 .. Len(events') : i + 1 \in 1 .. Len(events) /\ events'[i] = events[i + 1]
  BY <1>1
<1>4. ASSUME NEW op, NEW f, Announced(op, f), Head(events) # [op |-> op, name |-> f]
      PROVE  Announced(op, f)'
  BY <1>1, <1>2, <1>4 DEF Announced
<1>5. ASSUME NEW f, Followed(f) PROVE Followed(f)'
  <2>1. ASSUME NEW i \in 1 .. Len(events'), events'[i] = GoneEvent(f)
        PROVE  \E j \in 1 .. Len(events') : i < j /\ events'[j] = WriteEvent(f)
    <3>1. i + 1 \in 1 .. Len(events) /\ events[i + 1] = GoneEvent(f)
      BY <1>3, <2>1
    <3>2. PICK j \in 1 .. Len(events) : i + 1 < j /\ events[j] = WriteEvent(f)
      BY <1>5, <3>1 DEF Followed, WriteEvent, GoneEvent
    <3>3. j # 1 /\ i < j - 1
      BY <2>1, <3>2
    <3>4. j - 1 \in 1 .. Len(events') /\ events'[j - 1] = WriteEvent(f)
      BY <1>2, <3>2, <3>3
    <3> QED BY <3>3, <3>4
  <2> QED BY <2>1 DEF Followed, WriteEvent, GoneEvent
<1>6. ASSUME NEW f, Followed(f), Head(events) = GoneEvent(f) PROVE Announced("write", f)'
  <2>1. 1 \in 1 .. Len(events) /\ events[1] = GoneEvent(f)
    BY <1>1, <1>6
  <2>2. PICK j \in 1 .. Len(events) : 1 < j /\ events[j] = WriteEvent(f)
    BY <1>6, <2>1 DEF Followed, WriteEvent, GoneEvent
  <2>3. j # 1
    BY <2>2
  <2>4. j - 1 \in 1 .. Len(events') /\ events'[j - 1] = WriteEvent(f)
    BY <1>2, <2>2, <2>3
  <2> QED BY <2>4 DEF Announced, WriteEvent
<1> QED BY <1>4, <1>5, <1>6

(* A change of the files: an event is appended, or what changed is lost.   *)
LEMMA NotifiedQueue ==
    ASSUME TypeOK, NEW op, NEW name, NEW d, NEW changed,
           [op |-> op, name |-> name] \in Event, Notify(op, name, d, changed)
    PROVE  /\ lost \subseteq lost'
           /\ \A o, f : Announced(o, f) => Announced(o, f)'
           /\ pc # "down" => changed \subseteq lost' \/ Announced(op, name)'
           /\ \A f : Followed(f) /\ [op |-> op, name |-> name] # GoneEvent(f) => Followed(f)'
           /\ \A f : pc # "down" /\ [op |-> op, name |-> name] = WriteEvent(f) =>
                 changed \subseteq lost' \/ Followed(f)'
<1>1. CASE events' = Append(events, [op |-> op, name |-> name]) /\ UNCHANGED lost
  BY <1>1, AppendedQueue
<1>2. CASE UNCHANGED events /\ lost' = lost \cup (IF pc = "down" THEN {} ELSE changed)
  BY <1>2 DEF Announced, Followed
<1> QED BY <1>1, <1>2 DEF Notify

-----------------------------------------------------------------------------
(* Each step keeps the three parts of the invariant.                       *)

LEMMA PlacesInductive == TypeOK /\ PlacesInv /\ [Next]_vars => PlacesInv'
<1> SUFFICES ASSUME TypeOK, PlacesInv, [Next]_vars PROVE PlacesInv'
  OBVIOUS
<1> USE DEF PlacesInv, fileVars, walkVars, batchVars
<1>1. ASSUME NEW f \in Files, Write(f) \/ Remove(f) PROVE PlacesInv'
  BY <1>1 DEF Write, Remove, Notify, TypeOK
<1>2. ASSUME NEW d \in Dirs, MakeDir(d) PROVE PlacesInv'
  BY <1>2 DEF MakeDir, Notify, TypeOK
<1>3. ASSUME NEW d \in Dirs, DirGone(d) PROVE PlacesInv'
  BY <1>3 DEF DirGone, TypeOK
<1>4. CASE Start \/ Walk
  BY <1>4 DEF Start, Walk, ReadNames, SkipDir, WatchDir, WatchFails, Down, VisitFile, EnterLoop
<1>5. CASE Handle
  BY <1>5 DEF Handle, HandleWrite, HandleGone, HandleDir, HandleDirGone, Take
<1>6. CASE TakeBatch \/ BatchDone \/ ProcessFile
  BY <1>6 DEF TakeBatch, BatchDone, ProcessFile, ReadFile, ClearOld, SaveNext, FileDone, FileFails
<1>7. CASE Cancel \/ Stop \/ Crash \/ UNCHANGED vars
  BY <1>7 DEF Cancel, Stop, Crash, Down, vars
<1> QED BY <1>1, <1>2, <1>3, <1>4, <1>5, <1>6, <1>7 DEF Next, User

LEMMA OrderInductive == TypeOK /\ PlacesInv /\ OrderInv /\ [Next]_vars => OrderInv'
<1> SUFFICES ASSUME TypeOK, PlacesInv, OrderInv, [Next]_vars, NEW f \in Files, disk'[f] # 0
             PROVE  f \in lost' \/ Followed(f)'
  BY DEF OrderInv
<1> USE DEF fileVars, walkVars, batchVars
<1>0. disk[f] # 0 => f \in lost \/ Followed(f)
  BY DEF OrderInv
<1>1. ASSUME NEW g \in Files, Write(g) PROVE f \in lost' \/ Followed(f)'
  <2>1. Notify("write", g, DirOf[g], {g}) /\ (f # g => disk'[f] = disk[f])
    BY <1>1 DEF Write, TypeOK
  <2>2. WriteEvent(g) \in Event
    BY DEF Event, WriteEvent
  <2>3. CASE f = g /\ pc # "down"
    BY <2>1, <2>2, <2>3, NotifiedQueue DEF WriteEvent
  <2>4. CASE f = g /\ pc = "down"
    BY <2>1, <2>4 DEF Notify, PlacesInv, Followed
  <2>5. CASE f # g
    <3>1. WriteEvent(g) # GoneEvent(f)
      BY DEF WriteEvent, GoneEvent
    <3> QED BY <1>0, <2>1, <2>2, <2>5, <3>1, NotifiedQueue DEF WriteEvent
  <2> QED BY <2>3, <2>4, <2>5
<1>2. ASSUME NEW g \in Files, Remove(g) PROVE f \in lost' \/ Followed(f)'
  <2>1. Notify("gone", g, DirOf[g], {g}) /\ f # g /\ disk'[f] = disk[f]
    BY <1>2 DEF Remove, TypeOK
  <2>2. GoneEvent(g) \in Event /\ GoneEvent(g) # GoneEvent(f)
    BY <2>1 DEF Event, GoneEvent
  <2> QED BY <1>0, <2>1, <2>2, NotifiedQueue DEF GoneEvent
<1>3. ASSUME NEW d \in Dirs, MakeDir(d) PROVE f \in lost' \/ Followed(f)'
  <2>1. Notify("dir", d, Root, {}) /\ disk'[f] = disk[f]
    BY <1>3 DEF MakeDir
  <2>2. [op |-> "dir", name |-> d] \in Event /\ [op |-> "dir", name |-> d] # GoneEvent(f)
    BY DEF Event, GoneEvent
  <2> QED BY <1>0, <2>1, <2>2, NotifiedQueue
<1>4. ASSUME NEW d \in Dirs, DirGone(d) PROVE f \in lost' \/ Followed(f)'
  <2>1. disk'[f] = disk[f] /\ lost \subseteq lost'
    BY <1>4 DEF DirGone, TypeOK
  <2>2. [op |-> "dirGone", name |-> d] \in Event /\ [op |-> "dirGone", name |-> d] # GoneEvent(f)
    BY DEF Event, GoneEvent
  <2>3. CASE events' = Append(events, [op |-> "dirGone", name |-> d])
    BY <1>0, <2>1, <2>2, <2>3, AppendedQueue
  <2>4. CASE UNCHANGED events
    BY <1>0, <2>1, <2>4 DEF Followed
  <2> QED BY <1>4, <2>3, <2>4 DEF DirGone
<1>5. CASE Start \/ Stop \/ Crash \/ WatchFails
  <2>1. events' = <<>>
    BY <1>5 DEF Start, Stop, Crash, WatchFails, Down, PlacesInv
  <2> QED BY <2>1 DEF Followed
<1>6. ASSUME UNCHANGED <<disk, events>>, NEW S, lost' = lost \ Regained(S)
      PROVE  f \in lost' \/ Followed(f)'
  <2>1. CASE f \in lost /\ f \notin lost'
    BY <1>6, <2>1 DEF Regained, Announced, Followed
  <2>2. CASE ~(f \in lost /\ f \notin lost')
    BY <1>0, <1>6, <2>2 DEF Followed
  <2> QED BY <2>1, <2>2
<1>7. ASSUME UNCHANGED <<disk, events>>, lost \subseteq lost' PROVE f \in lost' \/ Followed(f)'
  BY <1>0, <1>7 DEF Followed
<1>8. CASE Walk
  <2>1. ASSUME NEW g \in Files, VisitFile(g) PROVE f \in lost' \/ Followed(f)'
    BY <1>6, <1>7, <2>1 DEF VisitFile
  <2>2. CASE EnterLoop \/ WatchDir \/ \E d \in Dirs : ReadNames(d) \/ SkipDir(d)
    BY <1>7, <2>2 DEF EnterLoop, WatchDir, ReadNames, SkipDir
  <2> QED BY <1>5, <1>8, <2>1, <2>2 DEF Walk
<1>9. CASE Handle
  <2>1. events # <<>> /\ events' = Tail(events) /\ disk' = disk /\ lost \subseteq lost'
    BY <1>9 DEF Handle, HandleWrite, HandleGone, HandleDir, HandleDirGone, Take
  <2> QED BY <1>0, <2>1, TakenQueue
<1>10. ASSUME NEW g \in Files, ReadFile(g) PROVE f \in lost' \/ Followed(f)'
  BY <1>6, <1>7, <1>10 DEF ReadFile
<1>11. CASE TakeBatch \/ BatchDone \/ ClearOld \/ SaveNext \/ FileDone \/ FileFails \/ Cancel
  BY <1>7, <1>11 DEF TakeBatch, BatchDone, ClearOld, SaveNext, FileDone, FileFails, Cancel
<1>12. CASE UNCHANGED vars
  BY <1>7, <1>12 DEF vars
<1> QED BY <1>1, <1>2, <1>3, <1>4, <1>5, <1>8, <1>9, <1>10, <1>11, <1>12 DEF Next, User, ProcessFile

(* A file that a step does not touch: what is known of it stays.           *)
LEMMA Untouched ==
    ASSUME NEW f \in Files, Kept(f), disk'[f] = disk[f],
           UNCHANGED <<chunks, cur, toWalk, names>>,
           dirty \cup batch \subseteq dirty' \cup batch', pc' = pc \/ pc # "walk",
           lost \subseteq lost', \A op : Announced(op, f) => Announced(op, f)'
    PROVE  Kept(f)'
<1>1. Indexed(f) => Indexed(f)'
  BY DEF Indexed
<1>2. /\ Empty(f) => Empty(f)'
      /\ Current(f)' <=> Current(f)
      /\ ToBeListed(f) => ToBeListed(f)'
  BY DEF Empty, Current, ToBeListed
<1>3. Cleared(f) => Cleared(f)'
  BY <1>2 DEF Cleared
<1>4. Noticed(f) => Noticed(f)'
  BY <1>1, <1>2 DEF Noticed
<1> QED BY <1>3, <1>4 DEF Kept

(* A step of the walk, which brings the file nearer to being marked.       *)
LEMMA WalkKept ==
    ASSUME TypeOK, PlacesInv, KeptInv, Walk, pc' # "down", NEW f \in Files PROVE Kept(f)'
<1> USE DEF fileVars, walkVars, batchVars
<1>0. pc = "walk" /\ Kept(f)
  BY DEF KeptInv, Walk, ReadNames, SkipDir, WatchDir, WatchFails, VisitFile, EnterLoop
<1>1. DirOf[f] \in Dirs /\ DirOf[f] # NoDir /\ Root # NoDir
  OBVIOUS
<1>2. disk[f] # 0 => DirOf[f] \in dirs /\ Root \in dirs
  BY DEF PlacesInv
<1>3. ASSUME UNCHANGED <<disk, chunks, cur, events, batch>>, UNCHANGED lost,
             dirty \subseteq dirty',
             disk[f] # 0 /\ ToBeListed(f) => ToBeListed(f)'
      PROVE  Kept(f)'
  <2>1. /\ Indexed(f) => Indexed(f)'
        /\ Empty(f) => Empty(f)'
        /\ Current(f)' <=> Current(f)
        /\ \A op : Announced(op, f) => Announced(op, f)'
        /\ lost' = lost
    BY <1>3 DEF Indexed, Empty, Current, Announced
  <2>2. Cleared(f) => Cleared(f)'
    BY <1>3, <2>1 DEF Cleared
  <2>3. disk[f] # 0 /\ Noticed(f) => Noticed(f)'
    BY <1>3, <2>1 DEF Noticed
  <2> QED BY <1>0, <1>3, <2>2, <2>3 DEF Kept
<1>4. ASSUME NEW d \in Dirs, ReadNames(d) PROVE Kept(f)'
  <2>1. disk[f] # 0 /\ ToBeListed(f) => ToBeListed(f)'
    BY <1>1, <1>2, <1>4 DEF ReadNames, ToBeListed, Existing, FilesIn
  <2> QED BY <1>3, <1>4, <2>1 DEF ReadNames
<1>5. ASSUME NEW d \in Dirs, SkipDir(d) PROVE Kept(f)'
  <2>1. disk[f] # 0 /\ ToBeListed(f) => ToBeListed(f)'
    BY <1>1, <1>2, <1>5 DEF SkipDir, ToBeListed
  <2> QED BY <1>3, <1>5, <2>1 DEF SkipDir
<1>6. CASE WatchDir
  <2>1. ToBeListed(f) => ToBeListed(f)'
    BY <1>6 DEF WatchDir, ToBeListed
  <2> QED BY <1>3, <1>6, <2>1 DEF WatchDir
<1>7. CASE EnterLoop
  <2>1. ~ToBeListed(f)
    BY <1>1, <1>7 DEF EnterLoop, ToBeListed
  <2> QED BY <1>3, <1>7, <2>1 DEF EnterLoop
<1>8. ASSUME NEW g \in Files, VisitFile(g) PROVE Kept(f)'
  <2>1. /\ UNCHANGED <<disk, chunks, cur, events, batch, pc, toWalk>>
        /\ names' = names \ {g} /\ dirty \subseteq dirty'
        /\ lost' = lost \/ lost' = lost \ Regained({g})
        /\ disk[g] = 0 => UNCHANGED <<dirty, lost>>
        /\ disk[g] # 0 => g \in dirty'
    BY <1>8 DEF VisitFile
  <2>2. CASE f = g /\ disk[f] # 0
    BY <2>1, <2>2 DEF Kept, Noticed
  <2>3. CASE f = g /\ disk[f] = 0
    <3>1. UNCHANGED <<dirty, lost>>
      BY <2>1, <2>3
    <3> QED BY <1>3, <2>1, <2>3, <3>1
  <2>4. CASE f # g
    <3>1. /\ Indexed(f) => Indexed(f)'
          /\ Empty(f) => Empty(f)'
          /\ Current(f)' <=> Current(f)
          /\ \A op : Announced(op, f) => Announced(op, f)'
          /\ f \in lost => f \in lost'
          /\ ToBeListed(f) => ToBeListed(f)'
      BY <2>1, <2>4 DEF Indexed, Empty, Current, Announced, Regained, ToBeListed
    <3>2. Cleared(f) => Cleared(f)'
      BY <3>1 DEF Cleared
    <3>3. Noticed(f) => Noticed(f)'
      BY <2>1, <3>1 DEF Noticed
    <3> QED BY <1>0, <2>1, <3>2, <3>3 DEF Kept
  <2> QED BY <2>2, <2>3, <2>4
<1>9. ~WatchFails
  BY DEF WatchFails, Down
<1> QED BY <1>4, <1>5, <1>6, <1>7, <1>8, <1>9 DEF Walk

(* The first event is handled.                                             *)
LEMMA HandleKept ==
    ASSUME TypeOK, PlacesInv, OrderInv, KeptInv, Handle, NEW f \in Files PROVE Kept(f)'
<1> USE DEF fileVars, walkVars, batchVars
<1> DEFINE e == Head(events)
<1>1. /\ pc = "loop" /\ events # <<>> /\ events' = Tail(events)
      /\ UNCHANGED <<disk, pc, toWalk, names, batch, cur>>
  BY DEF Handle, HandleWrite, HandleGone, HandleDir, HandleDirGone, Take
<1>2. Kept(f) /\ cur = NoFile
  BY <1>1 DEF KeptInv, PlacesInv
<1>3. e \in Event
  BY <1>1, SeqFacts DEF TypeOK
<1>4. \A op : e # [op |-> op, name |-> f] => (Announced(op, f) => Announced(op, f)')
  BY <1>1, TakenQueue
<1>5. CASE HandleWrite
  <2>1. PICK g \in Files : e = WriteEvent(g)
    BY <1>3, <1>5 DEF HandleWrite, Take, Event, WriteEvent
  <2>2. UNCHANGED <<chunks, lost>> /\ dirty' = IF disk[g] # 0 THEN dirty \cup {g} ELSE dirty
    BY <1>5, <2>1 DEF HandleWrite, WriteEvent
  <2>3. e # [op |-> "gone", name |-> f] /\ (f # g => e # [op |-> "write", name |-> f])
    BY <2>1 DEF WriteEvent
  <2>4. /\ Announced("gone", f) => Announced("gone", f)'
        /\ f # g => (Announced("write", f) => Announced("write", f)')
    BY <1>4, <2>3
  <2>5. CASE f = g /\ disk[f] # 0
    BY <1>1, <2>2, <2>5 DEF Kept, Noticed
  <2>6. CASE disk[f] = 0
    <3>1. Empty(f) => Empty(f)'
      BY <2>2 DEF Empty
    <3> QED BY <1>1, <1>2, <2>2, <2>4, <2>6, <3>1 DEF Kept, Cleared, Current
  <2>7. CASE f # g /\ disk[f] # 0
    <3>1. Indexed(f) => Indexed(f)'
      BY <1>1, <2>2 DEF Indexed
    <3>2. ToBeListed(f) => ToBeListed(f)'
      BY <1>1 DEF ToBeListed
    <3> QED BY <1>1, <1>2, <2>2, <2>4, <2>7, <3>1, <3>2 DEF Kept, Noticed, Current
  <2> QED BY <2>5, <2>6, <2>7
<1>6. CASE HandleGone
  <2>1. PICK g \in Files : e = GoneEvent(g)
    BY <1>3, <1>6 DEF HandleGone, Take, Event, GoneEvent
  <2>2. /\ dirty' = dirty /\ lost \subseteq lost'
        /\ (ClearFile(g) \/ (UNCHANGED chunks /\ g \in lost'))
    BY <1>6, <2>1 DEF HandleGone, GoneEvent
  <2>3. CASE f = g /\ disk[f] = 0
    <3>1. ClearFile(g) => Empty(f)'
      BY <2>3, ClearFileEffect DEF Empty
    <3> QED BY <1>1, <1>2, <2>2, <2>3, <3>1 DEF Kept, Cleared, Current
  <2>4. CASE f = g /\ disk[f] # 0
    <3>1. f \in lost \/ Followed(f)
      BY <2>4 DEF OrderInv
    <3>2. Followed(f) => Announced("write", f)'
      BY <1>1, <2>1, <2>4, TakenQueue
    <3> QED BY <1>1, <2>2, <2>4, <3>1, <3>2 DEF Kept, Noticed
  <2>5. CASE f # g
    <3>1. \A i \in Slots : chunks'[<<f, i>>] = chunks[<<f, i>>]
      BY <2>2, <2>5, ClearFileEffect
    <3>2. e # [op |-> "gone", name |-> f] /\ e # [op |-> "write", name |-> f]
      BY <2>1, <2>5 DEF GoneEvent
    <3>3. /\ Announced("gone", f) => Announced("gone", f)'
          /\ Announced("write", f) => Announced("write", f)'
      BY <1>4, <3>2
    <3>4. /\ Indexed(f) => Indexed(f)'
          /\ Empty(f) => Empty(f)'
          /\ ToBeListed(f) => ToBeListed(f)'
      BY <1>1, <3>1 DEF Indexed, Empty, ToBeListed
    <3>5. Cleared(f) => Cleared(f)'
      BY <1>1, <1>2, <2>2, <3>3, <3>4 DEF Cleared, Current
    <3>6. Noticed(f) => Noticed(f)'
      BY <1>1, <1>2, <2>2, <3>3, <3>4 DEF Noticed, Current
    <3> QED BY <1>1, <1>2, <3>5, <3>6 DEF Kept
  <2> QED BY <2>3, <2>4, <2>5
<1>7. CASE HandleDir \/ HandleDirGone
  <2>1. e.op \in {"dir", "dirGone"} /\ UNCHANGED <<dirty, chunks, lost>>
    BY <1>7 DEF HandleDir, HandleDirGone, Take
  <2>2. e # [op |-> "gone", name |-> f] /\ e # [op |-> "write", name |-> f]
    BY <2>1
  <2>3. /\ Announced("gone", f) => Announced("gone", f)'
        /\ Announced("write", f) => Announced("write", f)'
    BY <1>4, <2>2
  <2>4. /\ Indexed(f) => Indexed(f)'
        /\ Empty(f) => Empty(f)'
        /\ ToBeListed(f) => ToBeListed(f)'
    BY <1>1, <2>1 DEF Indexed, Empty, ToBeListed
  <2>5. Cleared(f) => Cleared(f)'
    BY <1>1, <1>2, <2>1, <2>3, <2>4 DEF Cleared, Current
  <2>6. Noticed(f) => Noticed(f)'
    BY <1>1, <1>2, <2>1, <2>3, <2>4 DEF Noticed, Current
  <2> QED BY <1>1, <1>2, <2>5, <2>6 DEF Kept
<1> QED BY <1>5, <1>6, <1>7 DEF Handle

(* A step of processFile.                                                  *)
LEMMA ProcessKept ==
    ASSUME MixtureInv, PlacesInv, KeptInv, ProcessFile, NEW f \in Files PROVE Kept(f)'
<1> USE DEF fileVars, walkVars, batchVars
<1>1. /\ pc = "batch" /\ TypeOK /\ ProgressInv
      /\ UNCHANGED <<disk, events, pc, toWalk, names, dirty>>
  BY DEF MixtureInv, ProcessFile, ReadFile, ClearOld, SaveNext, FileDone, FileFails
<1>2. Kept(f) /\ ~ToBeListed(f)
  BY <1>1 DEF KeptInv, ToBeListed
<1>3. cur # NoFile => /\ cur \in Work /\ cur.file \in Files /\ cur.version \in Versions
                      /\ cur.phase \in {"clear", "save"} /\ cur.next \in 0 .. MaxChunks
  BY <1>1, WorkFields DEF TypeOK
<1>4. \A op : Announced(op, f)' <=> Announced(op, f)
  BY <1>1 DEF Announced
<1>5. ASSUME NEW g \in Files, ReadFile(g) PROVE Kept(f)'
  <2>1. cur = NoFile /\ UNCHANGED chunks /\ batch' = batch \ {g}
    BY <1>5 DEF ReadFile
  <2>2. (Indexed(f) => Indexed(f)') /\ (Empty(f) => Empty(f)')
    BY <1>1, <2>1 DEF Indexed, Empty
  <2>3. CASE disk[g] = 0
    <3>1. UNCHANGED <<cur, lost>>
      BY <1>5, <2>3 DEF ReadFile
    <3> QED BY <1>1, <1>2, <1>4, <2>1, <2>2, <2>3, <3>1 DEF Kept, Cleared, Noticed, Current
  <2>4. CASE disk[g] # 0
    <3> DEFINE w == [file |-> g, version |-> disk[g], phase |-> "clear", next |-> 0]
    <3>1. cur' = w /\ lost' = lost \ Regained({g})
      BY <1>5, <2>4 DEF ReadFile
    <3>2. cur' # NoFile /\ cur'.file = g /\ cur'.version = disk[g]
      <4>1. w \in Work
        BY <1>1, <2>4 DEF TypeOK, Work
      <4> QED BY <3>1, <4>1, NotWork
    <3>3. CASE f = g
      BY <1>1, <2>4, <3>2, <3>3 DEF Kept, Noticed, Current
    <3>4. CASE f # g
      <4>1. (f \in lost => f \in lost') /\ ~Current(f)'
        BY <3>1, <3>2, <3>4 DEF Regained, Current
      <4> QED BY <1>1, <1>2, <1>4, <2>1, <2>2, <3>4, <4>1 DEF Kept, Cleared, Noticed, Current
    <3> QED BY <3>3, <3>4
  <2> QED BY <2>3, <2>4
<1>6. CASE ClearOld \/ SaveNext
  <2>1. cur # NoFile /\ UNCHANGED <<batch, lost>>
    BY <1>6 DEF ClearOld, SaveNext
  <2>2. cur' # NoFile /\ cur'.file = cur.file /\ cur'.version = cur.version
    <3>1. cur' \in Work
      <4>1. CASE ClearOld
        BY <1>3, <4>1 DEF ClearOld, Work
      <4>2. CASE SaveNext
        <5>1. cur.next + 1 \in 0 .. MaxChunks
          BY <1>3, <4>2 DEF SaveNext
        <5> QED BY <1>3, <4>2, <5>1 DEF SaveNext, Work
      <4> QED BY <1>6, <4>1, <4>2
    <3>2. cur'.file = cur.file /\ cur'.version = cur.version
      BY <1>3, <1>6 DEF ClearOld, SaveNext, Work
    <3> QED BY <3>1, <3>2, NotWork
  <2>3. Current(f)' <=> Current(f)
    BY <2>1, <2>2 DEF Current
  <2>4. CASE f = cur.file
    BY <1>1, <1>2, <1>4, <2>1, <2>2, <2>3, <2>4 DEF Kept, Cleared, Noticed, Current
  <2>5. CASE f # cur.file
    <3>1. \A i \in Slots : chunks'[<<f, i>>] = chunks[<<f, i>>]
      <4>1. CASE ClearOld
        BY <1>1, <1>3, <2>1, <2>5, <4>1, ClearFileEffect DEF ClearOld
      <4>2. CASE SaveNext
        <5>1. cur.next \in Slots
          BY <1>3, <4>2 DEF SaveNext, Slots
        <5>2. PICK g \in Files, v \in Versions, n \in Slots :
                 g = cur.file /\ v = cur.version /\ n = cur.next
          BY <1>3, <2>1, <5>1
        <5>3. chunks' = Index!Effect([op |-> "save", id |-> <<g, n>>, text |-> v])
          BY <4>2, <5>2 DEF SaveNext
        <5>4. TypeOK
          BY <1>1
        <5>5. \A h \in Files \ {g}, i \in Slots : chunks'[<<h, i>>] = chunks[<<h, i>>]
          BY ONLY <5>3, <5>4, SaveEffect
        <5> QED BY <2>5, <5>2, <5>5
      <4> QED BY <1>6, <4>1, <4>2
    <3>2. (Indexed(f) => Indexed(f)') /\ (Empty(f) => Empty(f)')
      BY <1>1, <3>1 DEF Indexed, Empty
    <3> QED BY <1>1, <1>2, <1>4, <2>1, <2>3, <2>5, <3>2 DEF Kept, Cleared, Noticed, Current
  <2> QED BY <2>4, <2>5
<1>7. CASE FileDone
  <2>1. /\ cur # NoFile /\ cur' = NoFile /\ UNCHANGED <<chunks, batch, lost>>
        /\ cur.next = ChunkCount[cur.version] /\ FirstChunks(cur.file, cur.version, cur.next)
    BY <1>1, <1>7 DEF FileDone, ProgressInv
  <2>2. (Indexed(f) => Indexed(f)') /\ (Empty(f) => Empty(f)') /\ ~Current(f)'
    BY <1>1, <2>1 DEF Indexed, Empty, Current
  <2>3. Current(f) /\ disk[f] # 0 /\ cur.version = disk[f] => Indexed(f)
    BY <2>1 DEF Current, FirstChunks, Indexed
  <2> QED BY <1>1, <1>2, <1>4, <2>1, <2>2, <2>3 DEF Kept, Cleared, Noticed
<1>8. CASE FileFails
  <2>1. /\ cur # NoFile /\ cur' = NoFile /\ UNCHANGED <<chunks, batch>>
        /\ lost' = lost \cup {cur.file}
    BY <1>8 DEF FileFails
  <2>2. (Indexed(f) => Indexed(f)') /\ (Empty(f) => Empty(f)') /\ ~Current(f)'
    BY <1>1, <2>1 DEF Indexed, Empty, Current
  <2>3. Current(f) => f \in lost'
    BY <2>1 DEF Current
  <2> QED BY <1>1, <1>2, <1>4, <2>1, <2>2, <2>3 DEF Kept, Cleared, Noticed
<1> QED BY <1>5, <1>6, <1>7, <1>8 DEF ProcessFile

(* A change of a file or a directory.                                      *)
LEMMA UserKept ==
    ASSUME TypeOK, KeptInv, User, pc # "down", NEW f \in Files PROVE Kept(f)'
<1> USE DEF fileVars, walkVars, batchVars
<1>1. /\ Kept(f)
      /\ UNCHANGED <<pc, chunks, cur, toWalk, names, dirty, batch>>
  BY DEF KeptInv, User, Write, Remove, MakeDir, DirGone
<1>2. ASSUME disk'[f] = disk[f], lost \subseteq lost',
             \A op : Announced(op, f) => Announced(op, f)'
      PROVE  Kept(f)'
  BY <1>1, <1>2, Untouched
<1>3. ASSUME NEW g \in Files, Write(g) PROVE Kept(f)'
  <2>1. Notify("write", g, DirOf[g], {g}) /\ (f # g => disk'[f] = disk[f])
        /\ disk'[g] # 0
    BY <1>3 DEF Write, TypeOK
  <2>2. [op |-> "write", name |-> g] \in Event
    BY DEF Event
  <2>3. /\ lost \subseteq lost' /\ (\A op : Announced(op, f) => Announced(op, f)')
        /\ {g} \subseteq lost' \/ Announced("write", g)'
    BY <2>1, <2>2, NotifiedQueue
  <2> QED BY <1>2, <2>1, <2>3 DEF Kept, Noticed
<1>4. ASSUME NEW g \in Files, Remove(g) PROVE Kept(f)'
  <2>1. Notify("gone", g, DirOf[g], {g}) /\ (f # g => disk'[f] = disk[f])
        /\ disk'[g] = 0
    BY <1>4 DEF Remove, TypeOK
  <2>2. [op |-> "gone", name |-> g] \in Event
    BY DEF Event
  <2>3. /\ lost \subseteq lost' /\ (\A op : Announced(op, f) => Announced(op, f)')
        /\ {g} \subseteq lost' \/ Announced("gone", g)'
    BY <2>1, <2>2, NotifiedQueue
  <2> QED BY <1>2, <2>1, <2>3 DEF Kept, Cleared
<1>5. ASSUME NEW d \in Dirs, MakeDir(d) PROVE Kept(f)'
  <2>1. Notify("dir", d, Root, {}) /\ disk'[f] = disk[f]
    BY <1>5 DEF MakeDir
  <2>2. [op |-> "dir", name |-> d] \in Event
    BY DEF Event
  <2>3. lost \subseteq lost' /\ (\A op : Announced(op, f) => Announced(op, f)')
    BY <2>1, <2>2, NotifiedQueue
  <2> QED BY <1>2, <2>1, <2>3
<1>6. ASSUME NEW d \in Dirs, DirGone(d) PROVE Kept(f)'
  <2>1. /\ disk'[f] = IF DirOf[f] = d THEN 0 ELSE disk[f]
        /\ lost' = lost \cup Existing(d)
    BY <1>6 DEF DirGone
  <2>2. [op |-> "dirGone", name |-> d] \in Event
    BY DEF Event
  <2>3. \A op : Announced(op, f) => Announced(op, f)'
    <3>1. CASE events' = Append(events, [op |-> "dirGone", name |-> d])
      BY <2>2, <3>1, AppendedQueue
    <3>2. CASE UNCHANGED events
      BY <3>2 DEF Announced
    <3> QED BY <1>6, <3>1, <3>2 DEF DirGone
  <2>4. CASE DirOf[f] = d /\ disk[f] # 0
    <3>1. f \in lost'
      BY <2>1, <2>4 DEF Existing, FilesIn
    <3> QED BY <2>1, <2>4, <3>1 DEF Kept, Cleared
  <2>5. CASE ~(DirOf[f] = d /\ disk[f] # 0)
    BY <1>2, <2>1, <2>3, <2>5
  <2> QED BY <2>4, <2>5
<1> QED BY <1>3, <1>4, <1>5, <1>6 DEF User

LEMMA KeptInductive ==
    MixtureInv /\ PlacesInv /\ OrderInv /\ KeptInv /\ [Next]_vars => KeptInv'
<1> SUFFICES ASSUME MixtureInv, PlacesInv, OrderInv, KeptInv, [Next]_vars,
                    pc' # "down", NEW f \in Files
             PROVE  Kept(f)'
  BY DEF KeptInv
<1> USE DEF fileVars, walkVars, batchVars
<1>0. TypeOK
  BY DEF MixtureInv
<1>1. CASE User
  <2>1. pc # "down"
    BY <1>1 DEF User, Write, Remove, MakeDir, DirGone
  <2> QED BY <1>0, <1>1, <2>1, UserKept
<1>2. CASE Start
  <2>1. /\ pc' = "walk" /\ Root \in toWalk' /\ cur' = NoFile /\ UNCHANGED <<disk, chunks>>
        /\ lost' = {g \in Files : disk[g] = 0 /\ ~Empty(g)}
    BY <1>2 DEF Start, PlacesInv
  <2>2. Empty(f) => Empty(f)'
    BY <2>1 DEF Empty
  <2> QED BY <2>1, <2>2 DEF Kept, Cleared, Noticed, Current, ToBeListed
<1>3. CASE Walk
  BY <1>0, <1>3, WalkKept
<1>4. CASE Handle
  BY <1>0, <1>4, HandleKept
<1>5. CASE ProcessFile
  BY <1>5, ProcessKept
<1>6. CASE TakeBatch \/ BatchDone \/ Cancel \/ UNCHANGED vars
  <2>1. /\ UNCHANGED <<disk, chunks, cur, toWalk, names, events, lost>>
        /\ dirty \cup batch \subseteq dirty' \cup batch'
        /\ pc' = pc \/ pc # "walk"
        /\ pc # "down"
    BY <1>6 DEF TakeBatch, BatchDone, Cancel, vars, PlacesInv
  <2>2. Kept(f) /\ \A op : Announced(op, f) => Announced(op, f)'
    BY <2>1 DEF KeptInv, Announced
  <2> QED BY <2>1, <2>2, Untouched
<1>7. CASE Stop \/ Crash
  BY <1>7 DEF Stop, Crash, Down
<1> QED BY <1>1, <1>2, <1>3, <1>4, <1>5, <1>6, <1>7 DEF Next

(* While the indexer runs no change is forgotten that it noticed: what is  *)
(* not indexed is dirty, in the batch, or announced by an event (Start).   *)
THEOREM NothingForgottenCorrect == Spec => []NothingForgotten
<1>1. NoticeInv /\ [Next]_vars => NoticeInv'
  BY MixtureInductive, PlacesInductive, OrderInductive, KeptInductive DEF NoticeInv, MixtureInv
<1>2. NoticeInv => NothingForgotten
  <2> SUFFICES ASSUME NoticeInv, pc \in {"loop", "batch"}, NEW f \in Files
               PROVE  Indexed(f) \/ Pending(f) \/ f \in lost
    BY DEF NothingForgotten
  <2>1. Kept(f) /\ ~ToBeListed(f)
    BY DEF NoticeInv, KeptInv, ToBeListed
  <2>2. disk[f] = 0 /\ Empty(f) => Indexed(f)
    BY DEF Empty, Indexed
  <2> QED BY <2>1, <2>2 DEF Kept, Cleared, Noticed, Pending, Current
<1> QED BY NoticeInitially, <1>1, <1>2, PTL DEF Spec
-----------------------------------------------------------------------------
(* The walk and each batch are bounded: what is left of them gets less     *)
(* with each step of the indexer, whatever the user writes meanwhile.      *)

(* The names in a directory are read, it is watched, and the files it has  *)
(* are visited.                                                            *)
DirsLeft == IF Root \in toWalk THEN Cardinality(Dirs) ELSE Cardinality(toWalk)

WalkLeft == DirsLeft * (Cardinality(Files) + 2) + Cardinality(names)
            + (IF listing = NoDir THEN 0 ELSE 1) + 1

(* A file is read and cleared, its chunks are saved, and it is done.       *)
FileLeft ==
    IF cur = NoFile THEN 0
    ELSE IF cur.phase = "clear" THEN MaxChunks + 2
    ELSE MaxChunks + 1 - cur.next

BatchLeft == Cardinality(batch) * (MaxChunks + 3) + FileLeft + 1

(* What is left of the walk or of the batch that is in progress.           *)
Remaining == CASE pc = "walk" -> WalkLeft [] pc = "batch" -> BatchLeft [] OTHER -> 0

(* All directories, and all files with one in progress.                    *)
MostLeft == Cardinality(Dirs) * (Cardinality(Files) + 2) + Cardinality(Files) + 2
            + (Cardinality(Files) + 1) * (MaxChunks + 3)

(* The same bound for every walk and every batch; both have an end.        *)
Bounded == Remaining \in 0 .. MostLeft /\ (pc \in {"walk", "batch"} => Remaining > 0)

(* The steps of the indexer, as opposed to those of the user.              *)
WorkStep == Walk \/ ProcessFile \/ BatchDone

(* A step of the indexer leaves less to do; no other step adds to it.      *)
Decreases ==
    pc \in {"walk", "batch"} => Remaining' <= Remaining /\ (WorkStep => Remaining' < Remaining)

(* A walk and a batch take a bounded number of steps.                      *)
WorkIsBounded == []Bounded /\ [][Decreases]_vars

(* The working directory is the first that is walked.                      *)
WalkInv == pc = "walk" /\ Root \in toWalk => toWalk = {Root} /\ listing = NoDir

WorkInv == TypeOK /\ PlacesInv /\ WalkInv

LEMMA WorkInitially == Init => WorkInv
  BY TypeOKInitially, NoticeInitially DEF WorkInv, WalkInv, NoticeInv, Init

(* No step outside the walk changes where it is.                           *)
LEMMA WalkOnlyWalks ==
    ASSUME TypeOK, PlacesInv, [Next]_vars, pc' = "walk", ~Walk
    PROVE  \/ pc = "walk" /\ UNCHANGED <<toWalk, listing, names>>
           \/ pc = "down" /\ toWalk' = {Root} /\ listing' = NoDir
<1> USE DEF fileVars, walkVars, batchVars
<1>1. CASE User \/ Handle
  BY <1>1 DEF User, Write, Remove, MakeDir, DirGone, Handle, HandleWrite, HandleGone, HandleDir,
     HandleDirGone, Take
<1>2. CASE Start
  BY <1>2 DEF Start, PlacesInv
<1>3. CASE TakeBatch \/ BatchDone \/ ProcessFile
  BY <1>3 DEF TakeBatch, BatchDone, ProcessFile, ReadFile, ClearOld, SaveNext, FileDone, FileFails
<1>4. CASE Cancel \/ Stop \/ Crash \/ UNCHANGED vars
  BY <1>4 DEF Cancel, Stop, Crash, Down, vars
<1> QED BY <1>1, <1>2, <1>3, <1>4 DEF Next

LEMMA WorkInductive == WorkInv /\ [Next]_vars => WorkInv'
<1> SUFFICES ASSUME WorkInv, [Next]_vars, pc' = "walk" PROVE WalkInv'
  BY TypeOKInductive, PlacesInductive DEF WorkInv, WalkInv
<1>0. TypeOK /\ PlacesInv /\ WalkInv
  BY DEF WorkInv
<1>1. CASE ~Walk
  BY <1>0, <1>1, WalkOnlyWalks, DirsAssumption DEF WalkInv
<1>2. CASE Walk
  BY <1>0, <1>2, DirsAssumption DEF Walk, ReadNames, SkipDir, WatchDir, WatchFails, Down, VisitFile, EnterLoop, WalkInv
<1> QED BY <1>1, <1>2

(* The sizes of sets of directories and of files.                          *)
LEMMA Sizes ==
    ASSUME NEW S, IsFiniteSet(S), NEW T \in SUBSET S
    PROVE  /\ IsFiniteSet(T) /\ Cardinality(T) \in Nat /\ Cardinality(S) \in Nat
           /\ Cardinality(T) <= Cardinality(S)
           /\ \A x \in T : Cardinality(T \ {x}) = Cardinality(T) - 1
  BY FS_Subset, FS_CardinalityType, FS_RemoveElement

(* The sizes that make up what is left.                                    *)
SizesOK ==
    /\ FileLeft \in 0 .. MaxChunks + 2
    /\ Cardinality(names) \in 0 .. Cardinality(Files)
    /\ Cardinality(toWalk) \in Nat
    /\ Root \notin toWalk => Cardinality(toWalk) <= Cardinality(Dirs) - 1
    /\ DirsLeft \in 0 .. Cardinality(Dirs)

(* What is left of a batch.                                                *)
LEMMA BatchType ==
    ASSUME IsFiniteSet(Files), TypeOK
    PROVE  /\ FileLeft \in 0 .. MaxChunks + 2
           /\ BatchLeft \in Nat /\ BatchLeft > 0
<1>1. FileLeft \in 0 .. MaxChunks + 2
  <2>1. CASE cur = NoFile
    BY <2>1, VersionsAssumption DEF FileLeft
  <2>2. CASE cur \in Work
    <3>1. cur.next \in 0 .. MaxChunks /\ cur # NoFile
      BY <2>2, WorkFields, NotWork
    <3> QED BY <3>1, VersionsAssumption DEF FileLeft
  <2> QED BY <2>1, <2>2 DEF TypeOK
<1>2. Cardinality(batch) \in Nat
  BY Sizes DEF TypeOK
<1>3. Cardinality(batch) * (MaxChunks + 3) \in Nat
  <2>1. \A m, n \in Nat : m * n \in Nat
    OBVIOUS
  <2> QED BY <1>2, <2>1, VersionsAssumption
<1> QED BY <1>1, <1>3, VersionsAssumption DEF BatchLeft

(* A step of processFile.                                                  *)
LEMMA ProcessDecreases ==
    ASSUME IsFiniteSet(Files), TypeOK, SizesOK, SizesOK', ProcessFile
    PROVE  BatchLeft' < BatchLeft
<1> DEFINE a == Cardinality(batch) * (MaxChunks + 3)
           x == FileLeft
           y == FileLeft'
<1>0. /\ x \in 0 .. MaxChunks + 2 /\ y \in 0 .. MaxChunks + 2
      /\ MaxChunks \in Nat /\ Cardinality(batch) \in Nat
  BY Sizes, VersionsAssumption DEF SizesOK, TypeOK
<1>1. a \in Nat
  <2>1. \A m, n \in Nat : m * n \in Nat
    OBVIOUS
  <2> QED BY <1>0, <2>1
<1>2. ASSUME UNCHANGED batch, y < x
      PROVE  BatchLeft' < BatchLeft
  <2>1. BatchLeft = a + x + 1 /\ BatchLeft' = a + y + 1
    BY <1>2 DEF BatchLeft
  <2> HIDE DEF a, x, y
  <2>2. a + y + 1 < a + x + 1
    BY <1>0, <1>1, <1>2
  <2> QED BY <2>1, <2>2
<1>3. ASSUME NEW f \in Files, ReadFile(f)
      PROVE  BatchLeft' < BatchLeft
  <2>1. /\ f \in batch /\ batch' = batch \ {f} /\ x = 0
        /\ batch \in SUBSET Files
    BY <1>3 DEF ReadFile, FileLeft, TypeOK
  <2>2. Cardinality(batch') = Cardinality(batch) - 1
    BY <2>1, Sizes
  <2>3. Cardinality(batch') * (MaxChunks + 3) = a - (MaxChunks + 3)
    <3>1. ASSUME NEW m \in Int, NEW n \in Int PROVE (m - 1) * n = m * n - n
      OBVIOUS
    <3> QED BY <1>0, <2>2, <3>1
  <2>4. BatchLeft = a + x + 1 /\ BatchLeft' = a - (MaxChunks + 3) + y + 1
    BY <2>3 DEF BatchLeft
  <2> HIDE DEF a, x, y
  <2>5. a - (MaxChunks + 3) + y + 1 < a + x + 1
    BY <1>0, <1>1, <2>1
  <2> QED BY <2>4, <2>5
<1>4. ASSUME cur # NoFile
      PROVE  /\ cur \in Work /\ cur.next \in Int /\ cur.next <= MaxChunks /\ cur.next >= 0
             /\ FileLeft = IF cur.phase = "clear" THEN MaxChunks + 2
                           ELSE MaxChunks + 1 - cur.next
  BY <1>4, WorkFields, VersionsAssumption DEF TypeOK, FileLeft
<1>5. CASE ClearOld
  <2>1. /\ cur # NoFile /\ cur.phase = "clear" /\ UNCHANGED batch
        /\ cur' = [cur EXCEPT !.phase = "save"]
    BY <1>5 DEF ClearOld
  <2>2. cur' # NoFile /\ cur'.phase = "save" /\ cur'.next = cur.next
    BY <1>4, <2>1, WorkFields, NotWork DEF TypeOK, Work
  <2>3. x = MaxChunks + 2 /\ y = MaxChunks + 1 - cur.next
    BY <1>4, <2>1, <2>2 DEF FileLeft
  <2>4. y < x
    <3> HIDE DEF x, y
    <3> QED BY <1>0, <1>4, <2>1, <2>3
  <2> QED BY <1>2, <2>1, <2>4
<1>6. CASE SaveNext
  <2>1. /\ cur # NoFile /\ cur.phase = "save" /\ UNCHANGED batch
        /\ cur' = [cur EXCEPT !.next = cur.next + 1]
    BY <1>6 DEF SaveNext
  <2>2. cur' # NoFile /\ cur'.phase = "save" /\ cur'.next = cur.next + 1
    BY <1>4, <2>1, WorkFields, NotWork DEF TypeOK, Work
  <2>3. x = MaxChunks + 1 - cur.next /\ y = MaxChunks + 1 - (cur.next + 1)
    BY <1>4, <2>1, <2>2 DEF FileLeft
  <2>4. y < x
    <3> HIDE DEF x, y
    <3> QED BY <1>0, <1>4, <2>1, <2>3
  <2> QED BY <1>2, <2>1, <2>4
<1>7. CASE FileDone \/ FileFails
  <2>1. cur # NoFile /\ cur' = NoFile /\ UNCHANGED batch
    BY <1>7 DEF FileDone, FileFails, batchVars
  <2>2. y = 0 /\ x > 0
    BY <1>0, <1>4, <2>1 DEF FileLeft
  <2> HIDE DEF x, y
  <2> QED BY <1>2, <2>1, <2>2
<1> QED BY <1>3, <1>5, <1>6, <1>7 DEF ProcessFile

(* What is left of the walk.                                               *)
LEMMA WalkType ==
    ASSUME IsFiniteSet(Dirs), IsFiniteSet(Files), TypeOK
    PROVE  /\ Cardinality(Files) \in Nat /\ Cardinality(Dirs) \in Nat
           /\ Cardinality(names) \in 0 .. Cardinality(Files)
           /\ Cardinality(toWalk) \in Nat
           /\ Root \notin toWalk => Cardinality(toWalk) <= Cardinality(Dirs) - 1
           /\ DirsLeft \in 0 .. Cardinality(Dirs)
<1>1. /\ Cardinality(toWalk) \in Nat /\ Cardinality(Dirs) \in Nat
      /\ Cardinality(toWalk) <= Cardinality(Dirs)
      /\ Cardinality(Dirs \ {Root}) = Cardinality(Dirs) - 1
      /\ Cardinality(Files) \in Nat /\ Cardinality(names) \in Nat
      /\ Cardinality(names) <= Cardinality(Files)
  BY Sizes, DirsAssumption DEF TypeOK
<1>2. Root \notin toWalk => Cardinality(toWalk) <= Cardinality(Dirs) - 1
  <2>1. Root \notin toWalk => toWalk \in SUBSET (Dirs \ {Root})
    BY DEF TypeOK
  <2>2. IsFiniteSet(Dirs \ {Root})
    BY FS_RemoveElement
  <2> QED BY <1>1, <2>1, <2>2, Sizes
<1> QED BY <1>1, <1>2 DEF DirsLeft

LEMMA SizesHold ==
    ASSUME IsFiniteSet(Files), IsFiniteSet(Dirs), TypeOK
    PROVE  SizesOK
  BY BatchType, WalkType DEF SizesOK

(* Taking a directory off the walk makes room for all the files there are. *)
LEMMA DirTaken ==
    ASSUME NEW d \in Nat, NEW e \in Nat, NEW w \in Nat, e <= d - 1
    PROVE  e * w + w <= d * w
<1>1. \A m, n \in Nat : m * n \in Nat
  OBVIOUS
<1>2. d - 1 - e \in Nat /\ (d - 1 - e) * w \in Nat /\ e * w \in Nat
  BY <1>1
<1>3. d * w = e * w + w + (d - 1 - e) * w
  OBVIOUS
<1> QED BY <1>2, <1>3

(* A step of the walk.                                                     *)
LEMMA WalkDecreases ==
    ASSUME IsFiniteSet(Dirs), IsFiniteSet(Files), WorkInv, SizesOK, SizesOK', Walk, pc' = "walk"
    PROVE  WalkLeft' < WalkLeft
<1> DEFINE w == Cardinality(Files) + 2
           d == DirsLeft     e == DirsLeft'
           m == Cardinality(names)     n == Cardinality(names')
           a == d * w     b == e * w
<1>0. /\ d \in Nat /\ e \in Nat /\ w \in Nat /\ w >= 2
      /\ m \in 0 .. w - 2 /\ n \in 0 .. w - 2
      /\ TypeOK /\ WalkInv
  BY FS_CardinalityType DEF SizesOK, WorkInv
<1>1. a \in Nat /\ b \in Nat
  <2>1. \A i, j \in Nat : i * j \in Nat
    OBVIOUS
  <2> HIDE DEF d, e, w
  <2> QED BY <1>0, <2>1
<1>2. pc = "walk"
  BY DEF Walk, ReadNames, SkipDir, WatchDir, WatchFails, Down, VisitFile, EnterLoop
<1>3. /\ WalkLeft = a + m + (IF listing = NoDir THEN 0 ELSE 1) + 1
      /\ WalkLeft' = b + n + (IF listing' = NoDir THEN 0 ELSE 1) + 1
  BY DEF WalkLeft
<1>4. ASSUME NEW c \in Dirs, ReadNames(c) \/ SkipDir(c)
      PROVE  WalkLeft' < WalkLeft
  <2>1. /\ c \in toWalk /\ listing = NoDir /\ toWalk \in SUBSET Dirs
        /\ toWalk' \in {toWalk \ {c}, (toWalk \ {c}) \cup (dirs \ {Root})}
        /\ c # Root => toWalk' = toWalk \ {c}
    BY <1>0, <1>4 DEF ReadNames, SkipDir, TypeOK
  <2>2. e <= d - 1
    <3>1. CASE c = Root
      <4>1. Root \in toWalk /\ Root \notin toWalk'
        BY <2>1, <3>1
      <4> QED BY <4>1 DEF DirsLeft, SizesOK
    <3>2. CASE c # Root
      <4>1. Root \notin toWalk /\ Root \notin toWalk'
        BY <1>0, <1>2, <2>1, <3>2 DEF WalkInv
      <4>2. Cardinality(toWalk') = Cardinality(toWalk) - 1 /\ Cardinality(toWalk) \in Nat
        BY <2>1, <3>2, Sizes
      <4> QED BY <4>1, <4>2 DEF DirsLeft
    <3> QED BY <3>1, <3>2
  <2>3. b + w <= a
    <3> HIDE DEF d, e, w
    <3> QED BY <1>0, <2>2, DirTaken
  <2> HIDE DEF a, b, w, m, n, d, e
  <2> QED BY <1>0, <1>1, <1>3, <2>1, <2>3
<1>5. ASSUME UNCHANGED <<toWalk, names>>, listing # NoDir, listing' = NoDir
      PROVE  WalkLeft' < WalkLeft
  <2>1. a = b /\ m = n
    BY <1>5 DEF DirsLeft
  <2> HIDE DEF a, b, w, m, n, d, e
  <2> QED BY <1>0, <1>1, <1>3, <1>5, <2>1
<1>6. ASSUME NEW f \in Files, VisitFile(f)
      PROVE  WalkLeft' < WalkLeft
  <2>1. /\ f \in names /\ names' = names \ {f} /\ names \in SUBSET Files
        /\ UNCHANGED <<toWalk, listing>>
    BY <1>0, <1>6 DEF VisitFile, TypeOK
  <2>2. a = b /\ n = m - 1
    BY <2>1, Sizes DEF DirsLeft
  <2> HIDE DEF a, b, w, m, n, d, e
  <2> QED BY <1>0, <1>1, <1>3, <2>1, <2>2
<1>7. CASE WatchDir
  BY <1>5, <1>7 DEF WatchDir
<1> QED BY <1>4, <1>6, <1>7 DEF Walk, WatchFails, Down, EnterLoop

LEMMA BoundedAlways ==
    ASSUME IsFiniteSet(Files), IsFiniteSet(Dirs), WorkInv
    PROVE  Bounded
<1> DEFINE w == MaxChunks + 3
           b == Cardinality(batch) * w
           all == Cardinality(Files) * w
<1>1. /\ Cardinality(batch) \in Nat /\ Cardinality(Files) \in Nat
      /\ Cardinality(batch) <= Cardinality(Files)
      /\ Cardinality(Dirs) \in Nat /\ w \in Nat /\ MaxChunks \in Nat
  BY Sizes, FS_CardinalityType, VersionsAssumption DEF WorkInv, TypeOK
<1>2a. ASSUME NEW k \in Nat, NEW m \in Nat, NEW n \in Nat, k <= m
       PROVE  k * n \in Nat /\ m * n \in Nat /\ k * n <= m * n
  <2>1. \A i, j \in Nat : i * j \in Nat
    OBVIOUS
  <2>2. m - k \in Nat /\ (m - k) * n \in Nat
    BY <1>2a, <2>1
  <2>3. m * n = k * n + (m - k) * n /\ k * n \in Nat
    BY <2>1
  <2> QED BY <2>1, <2>2, <2>3
<1>2. b \in Nat /\ all \in Nat /\ b <= all
  BY <1>1, <1>2a
<1> DEFINE u == Cardinality(Files) + 2
           v == DirsLeft * u
           most == Cardinality(Dirs) * u
<1>3. MostLeft = most + u + (all + w)
  <2>1. ASSUME NEW m \in Int, NEW n \in Int PROVE (m + 1) * n = m * n + n
    OBVIOUS
  <2>2. MostLeft = most + u + (Cardinality(Files) + 1) * w
    BY <1>1 DEF MostLeft
  <2> HIDE DEF u, most
  <2> QED BY <1>1, <2>1, <2>2
<1>3a. /\ v \in Nat /\ most \in Nat /\ v <= most /\ u \in Nat
       /\ Cardinality(names) \in Nat /\ Cardinality(names) + 2 <= u
  <2>1. /\ DirsLeft \in Nat /\ DirsLeft <= Cardinality(Dirs) /\ u \in Nat
        /\ Cardinality(names) \in Nat /\ Cardinality(names) + 2 <= u
    BY WalkType DEF WorkInv
  <2> HIDE DEF u
  <2> QED BY <1>1, <1>2a, <2>1
<1>4. CASE pc = "walk"
  <2>1. Remaining = v + Cardinality(names) + (IF listing = NoDir THEN 0 ELSE 1) + 1
    BY <1>4 DEF Remaining, WalkLeft
  <2> HIDE DEF all, w, u, v, most
  <2>2. Remaining \in Int /\ Remaining > 0 /\ Remaining <= most + u
    BY <1>3a, <2>1
  <2> QED BY <1>1, <1>2, <1>3, <1>3a, <2>2 DEF Bounded
<1>5. CASE pc = "batch"
  <2>1. Remaining = b + FileLeft + 1 /\ FileLeft \in 0 .. MaxChunks + 2
    BY <1>5, BatchType DEF Remaining, BatchLeft, WorkInv
  <2>2. b + FileLeft + 1 <= b + w /\ b + FileLeft + 1 > 0 /\ b + FileLeft + 1 \in Int
    <3> HIDE DEF b
    <3> QED BY <1>1, <1>2, <2>1
  <2>3. Remaining <= all + w /\ Remaining > 0 /\ Remaining \in Int
    <3> HIDE DEF b, all, w
    <3> QED BY <1>1, <1>2, <2>1, <2>2
  <2> HIDE DEF all, w
  <2> QED BY <1>1, <1>2, <1>3, <2>3 DEF Bounded
<1>6. CASE pc \notin {"walk", "batch"}
  <2>1. Remaining = 0
    BY <1>6 DEF Remaining
  <2> HIDE DEF all, w
  <2> QED BY <1>1, <1>2, <1>3, <1>6, <2>1 DEF Bounded
<1> QED BY <1>4, <1>5, <1>6

(* Nothing but its own steps changes what a batch has still to do.         *)
LEMMA BatchOnlyProcesses ==
    ASSUME [Next]_vars, pc = "batch", pc' = "batch", ~ProcessFile
    PROVE  UNCHANGED <<batch, cur>>
<1> USE DEF fileVars, walkVars, batchVars
<1>1. CASE User \/ Handle \/ Start \/ Walk
  BY <1>1 DEF User, Write, Remove, MakeDir, DirGone, Handle, HandleWrite, HandleGone, HandleDir,
     HandleDirGone, Take, Start, Walk, ReadNames, SkipDir, WatchDir, WatchFails, Down, VisitFile, EnterLoop
<1>2. CASE TakeBatch \/ BatchDone
  BY <1>2 DEF TakeBatch, BatchDone
<1>3. CASE Cancel \/ Stop \/ Crash \/ UNCHANGED vars
  BY <1>3 DEF Cancel, Stop, Crash, Down, vars
<1> QED BY <1>1, <1>2, <1>3 DEF Next

(* The walk is followed by the loop, a batch by the loop, or all ends.     *)
LEMMA WhatFollows ==
    ASSUME [Next]_vars, pc' # pc, pc \in {"walk", "batch"}
    PROVE  pc' \in {"loop", "down"}
<1> USE DEF fileVars, walkVars, batchVars
<1>1. CASE User \/ Handle \/ Start \/ Walk
  BY <1>1 DEF User, Write, Remove, MakeDir, DirGone, Handle, HandleWrite, HandleGone, HandleDir,
     HandleDirGone, Take, Start, Walk, ReadNames, SkipDir, WatchDir, WatchFails, Down, VisitFile, EnterLoop
<1>2. CASE TakeBatch \/ BatchDone \/ ProcessFile
  BY <1>2 DEF TakeBatch, BatchDone, ProcessFile, ReadFile, ClearOld, SaveNext, FileDone, FileFails
<1>3. CASE Cancel \/ Stop \/ Crash \/ UNCHANGED vars
  BY <1>3 DEF Cancel, Stop, Crash, Down, vars
<1> QED BY <1>1, <1>2, <1>3 DEF Next

LEMMA DecreasesStep ==
    ASSUME IsFiniteSet(Files), IsFiniteSet(Dirs), WorkInv, SizesOK, SizesOK',
           Bounded, Bounded', [Next]_vars, pc \in {"walk", "batch"}
    PROVE  Remaining' <= Remaining /\ (WorkStep => Remaining' < Remaining)
<1>0. /\ Remaining \in Int /\ Remaining > 0 /\ Remaining' \in Int
      /\ TypeOK /\ PlacesInv
  BY DEF Bounded, WorkInv
<1>1. CASE pc' # pc
  <2>1. pc' \in {"loop", "down"}
    BY <1>1, WhatFollows
  <2>2. Remaining' = 0
    BY <2>1 DEF Remaining
  <2> QED BY <1>0, <2>2
<1>2. CASE pc' = pc /\ pc = "walk"
  <2>1. Remaining = WalkLeft /\ Remaining' = WalkLeft'
    BY <1>2 DEF Remaining
  <2>2. CASE Walk
    <3>1. WalkLeft' < WalkLeft
      BY <1>2, <2>2, WalkDecreases
    <3> QED BY <1>0, <2>1, <3>1
  <2>3. CASE ~Walk
    <3>1. UNCHANGED <<toWalk, listing, names>>
      BY <1>0, <1>2, <2>3, WalkOnlyWalks
    <3>2. WalkLeft' = WalkLeft
      BY <3>1 DEF WalkLeft, DirsLeft
    <3>3. ~WorkStep
      BY <1>2, <2>3 DEF WorkStep, ProcessFile, ReadFile, ClearOld, SaveNext, FileDone,
         FileFails, BatchDone
    <3> QED BY <1>0, <2>1, <3>2, <3>3
  <2> QED BY <2>2, <2>3
<1>3. CASE pc' = pc /\ pc = "batch"
  <2>1. Remaining = BatchLeft /\ Remaining' = BatchLeft'
    BY <1>3 DEF Remaining
  <2>2. CASE ProcessFile
    <3>1. BatchLeft' < BatchLeft
      BY <1>0, <2>2, ProcessDecreases
    <3> QED BY <1>0, <2>1, <3>1
  <2>3. CASE ~ProcessFile
    <3>1. UNCHANGED <<batch, cur>>
      BY <1>3, <2>3, BatchOnlyProcesses
    <3>2. BatchLeft' = BatchLeft
      BY <3>1 DEF BatchLeft, FileLeft
    <3>3. ~WorkStep
      BY <1>3, <2>3 DEF WorkStep, Walk, ReadNames, SkipDir, WatchDir, WatchFails, Down, VisitFile, EnterLoop, BatchDone
    <3> QED BY <1>0, <2>1, <3>2, <3>3
  <2> QED BY <2>2, <2>3
<1> QED BY <1>1, <1>2, <1>3

(* The walk and each batch are bounded by the directories and files there  *)
(* are: nothing that is written, removed or announced meanwhile adds to    *)
(* them (Start, processFile).                                              *)
THEOREM WorkIsBoundedCorrect ==
    ASSUME IsFiniteSet(Files), IsFiniteSet(Dirs)
    PROVE  Spec => WorkIsBounded
<1>1. WorkInv => Bounded
  BY BoundedAlways
<1>2. WorkInv => SizesOK
  BY SizesHold DEF WorkInv
<1>3. /\ WorkInv /\ SizesOK /\ SizesOK' /\ Bounded /\ Bounded' /\ [Next]_vars
      => Decreases
  BY DecreasesStep DEF Decreases
<1> QED BY <1>1, <1>2, <1>3, WorkInitially, WorkInductive, PTL DEF Spec, WorkIsBounded
=============================================================================
