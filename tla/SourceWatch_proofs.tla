------------------------- MODULE SourceWatch_proofs -------------------------
(***************************************************************************)
(* The watch of the sources, for every set of files and contents, however  *)
(* often the editor is started and however much is edited.  Every          *)
(* reachable state is well typed, and                                      *)
(*   - once the directory is watched no change of a recorded source is     *)
(*     lost (NoLostEdit),                                                  *)
(*   - a start without failures ends with every recorded source compiled   *)
(*     (StartIsComplete),                                                  *)
(*   - the record never says of a source what was not so (RecordIsHonest). *)
(*                                                                         *)
(* None of them is inductive.  NoLostEdit needs that a watched editor is   *)
(* past its start (WatchedIsStarted), that a batch is handled to its end   *)
(* before the next one begins (HandledToTheEnd), that a recorded source    *)
(* that is not there was removed in this session (AbsentIsGone), and that  *)
(* what is announced of a changed source is a modification (ChangesAreTold).*)
(* StartIsComplete needs to know how far the jobs of a start have come     *)
(* (StartInv), RecordIsHonest what the language service has read and what  *)
(* the script has yet to do (HonestInv); both rest on what was ever read   *)
(* from the disk (WrittenInv).                                             *)
(***************************************************************************)
EXTENDS SourceWatch, TLAPS

USE DEF script, news, past, tried

-----------------------------------------------------------------------------
(* What the handlers make of the records.                                  *)

\* Asking the host about files adds records and changes none.
LEMMA RegisteredKeeps ==
    ASSUME disk \in [Files -> Text], NEW vs, Versions(vs), NEW roots
    PROVE  LET r == Registered(vs, roots)
           IN  /\ Versions(r)
               /\ DOMAIN vs \subseteq DOMAIN r
               /\ \A f \in DOMAIN r : f \notin DOMAIN vs => r[f] = Fresh(disk[f]) /\ f \in OnDisk
               /\ \A f \in DOMAIN vs : r[f] = vs[f]
<1> DEFINE r == Registered(vs, roots)
<1>1. /\ DOMAIN r = DOMAIN vs \cup (Reached(vs, roots) \cap OnDisk)
      /\ \A f \in DOMAIN r : r[f] = IF f \in DOMAIN vs THEN vs[f] ELSE Fresh(disk[f])
  BY DEF Registered
<1>2. OnDisk \subseteq Files
  BY DEF OnDisk
<1>3. \A f \in OnDisk : Fresh(disk[f]) \in Record
  BY <1>2 DEF Fresh, Record
<1> QED
  BY <1>1, <1>2, <1>3 DEF Versions

\* Compiling changes the marks of a record, never its version.
LEMMA ProcessedKeeps ==
    ASSUME NEW vs, Versions(vs), NEW fs, NEW program
    PROVE  LET p == Processed(fs, vs, program)
           IN  /\ Versions(p)
               /\ DOMAIN p = DOMAIN vs
               /\ \A f \in DOMAIN vs : p[f].version = vs[f].version
  BY DEF Versions, Processed, Record

LEMMA MarkedKeeps ==
    ASSUME NEW vs, Versions(vs), NEW fs, NEW program
    PROVE  LET p == Marked(fs, vs, program)
           IN  /\ Versions(p)
               /\ DOMAIN p = DOMAIN vs
               /\ \A f \in DOMAIN vs : p[f].version = vs[f].version
<1> SUFFICES ASSUME NEW f \in DOMAIN vs
             PROVE  LET p == Marked(fs, vs, program)
                    IN  p[f] \in Record /\ p[f].version = vs[f].version
  BY DEF Versions, Marked
<1>1. vs[f] \in Record
  BY DEF Versions
<1>2. CASE f \in Good(fs, program)
  <2>1. Marked(fs, vs, program)[f] = [vs[f] EXCEPT !.isBP = program[f] \in Classes]
    BY <1>2 DEF Marked
  <2>2. (program[f] \in Classes) \in BOOLEAN
    OBVIOUS
  <2> QED
    BY <1>1, <2>1, <2>2 DEF Record
<1>3. CASE f \notin Good(fs, program)
  BY <1>1, <1>3 DEF Marked
<1> QED
  BY <1>2, <1>3

LEMMA CompileKeeps ==
    ASSUME NEW vs, Versions(vs), NEW fs, NEW program, Compile(fs, vs, program)
    PROVE  /\ Versions(versions')
           /\ DOMAIN versions' = DOMAIN vs
           /\ \A f \in DOMAIN vs : versions'[f].version = vs[f].version
<1>1. versions' = Marked(fs, Processed(fs, vs, program), program)
  BY DEF Compile
<1> QED
  BY <1>1, ProcessedKeeps, MarkedKeeps

-----------------------------------------------------------------------------
(* What the language service hands out.                                    *)

CacheOK == /\ DOMAIN cache \subseteq Files
           /\ \A f \in DOMAIN cache : cache[f] \in [version : Text, text : Contents]
JobsOK == DOMAIN jobs \subseteq Files /\ \A f \in DOMAIN jobs : jobs[f] \in Classes

LEMMA SnapshotType ==
    ASSUME disk \in [Files -> Text], CacheOK, NEW vs, NEW f \in Files
    PROVE  /\ Snapshot(vs, f) \in Text
           /\ disk[f] # Absent => Snapshot(vs, f) \in Contents
  BY DEF CacheOK, Snapshot, Text

LEMMA ProgramType ==
    ASSUME disk \in [Files -> Text], CacheOK, NEW vs, NEW roots
    PROVE  LET p == Program(vs, roots)
           IN  DOMAIN p \subseteq Files /\ \A f \in DOMAIN p : p[f] \in Text
<1>1. Reached(vs, roots) \subseteq Files
  BY DEF Reached
<1> QED
  BY <1>1, SnapshotType DEF Program

LEMMA CachedType ==
    ASSUME disk \in [Files -> Text], CacheOK, NEW vs, Versions(vs), NEW roots,
           cache' = Cached(vs, roots)
    PROVE  CacheOK'
<1>1. \A f \in OnDisk : Version(vs, f) \in Text /\ Snapshot(vs, f) \in Contents /\ f \in Files
  BY SnapshotType DEF Version, Versions, Record, OnDisk
<1>2. /\ DOMAIN cache' = DOMAIN cache \cup (Reached(vs, roots) \cap OnDisk)
      /\ \A f \in DOMAIN cache' :
            cache'[f] = IF f \in Reached(vs, roots) \cap OnDisk
                        THEN [version |-> Version(vs, f), text |-> Snapshot(vs, f)]
                        ELSE cache[f]
  BY DEF Cached
<1>3. ASSUME NEW f \in DOMAIN cache'
      PROVE  f \in Files /\ cache'[f] \in [version : Text, text : Contents]
  <2>1. CASE f \in Reached(vs, roots) \cap OnDisk
    <3>1. cache'[f] = [version |-> Version(vs, f), text |-> Snapshot(vs, f)]
      BY <1>2, <2>1
    <3>2. Version(vs, f) \in Text /\ Snapshot(vs, f) \in Contents /\ f \in Files
      BY <1>1, <2>1
    <3> QED
      BY <3>1, <3>2
  <2>2. CASE f \notin Reached(vs, roots) \cap OnDisk
    BY <1>2, <2>2 DEF CacheOK
  <2> QED
    BY <2>1, <2>2
<1> QED
  BY <1>3 DEF CacheOK

LEMMA EmitType ==
    ASSUME js \in [Files -> Text], NEW fs, NEW program,
           \A f \in DOMAIN program : program[f] \in Text,
           EmitJavaScript(fs, program)
    PROVE  js' \in [Files -> Text]
<1>1. \A f \in Good(fs, program) : program[f] \in Text
  BY DEF Good
<1> QED
  BY <1>1 DEF EmitJavaScript

LEMMA QueuedType ==
    ASSUME JobsOK, NEW fs, NEW program, DOMAIN program \subseteq Files
    PROVE  LET q == Queued(fs, program)
           IN  DOMAIN q \subseteq Files /\ \A f \in DOMAIN q : q[f] \in Classes
  BY DEF JobsOK, Queued, Good

LEMMA RebuildType ==
    ASSUME bps \in [Files -> Text], NEW wanted, \A f \in DOMAIN wanted : wanted[f] \in Classes,
           NEW playing, Rebuild(wanted, playing)
    PROVE  bps' \in [Files -> Text]
<1>1. \A f \in DOMAIN wanted : wanted[f] \in Text
  BY SourceAssumption DEF Text
<1> QED
  BY <1>1 DEF Rebuild

-----------------------------------------------------------------------------

\* Every reachable state is well typed (CodeAnalyze.js, watch).
THEOREM TypeCorrect == Spec => []TypeOK
<1> USE SourceAssumption DEF CacheOK, JobsOK
<1>1. Init => TypeOK
  <2> SUFFICES ASSUME Init PROVE TypeOK
    OBVIOUS
  <2>1. disk \in [Files -> Text] /\ js \in [Files -> Text] /\ bps \in [Files -> Text]
    BY DEF Init, Text
  <2>2. DOMAIN Nothing = {}
    BY DEF Nothing
  <2>3. timers \in Seq(Batch) /\ notices \in Batch
    BY DEF Init, Batch
  <2> QED
    BY <2>1, <2>2, <2>3 DEF Init, TypeOK, Versions
<1>2. TypeOK /\ [Next]_vars => TypeOK'
  <2> SUFFICES ASSUME TypeOK, [Next]_vars PROVE TypeOK'
    OBVIOUS
  <2> USE DEF TypeOK
  <2>1. CASE Start
    <3>1. \A f \in OnDisk : f \in Files /\ Fresh(disk[f]) \in Record
      BY DEF OnDisk, Fresh, Record
    <3> QED
      BY <2>1, <3>1 DEF Start, Versions
  <2>2. CASE Analyze
    <3>1. Versions(Registered(versions, fileNames))
      BY RegisteredKeeps
    <3>2. Versions(versions')
      BY <2>2, <3>1 DEF Analyze, Versions
    <3>3. CacheOK'
      BY <2>2, CachedType DEF Analyze
    <3> QED
      BY <2>2, <3>2, <3>3 DEF Analyze
  <2>3. ASSUME NEW f \in Files, EmitJs(f) PROVE TypeOK'
    <3> DEFINE vs == [versions EXCEPT ![f].processed = @ \/ UpToDate(f),
                                      ![f].isBP = IF f \in DOMAIN saved.map
                                                  THEN saved.map[f].isBP ELSE @]
               fs == IF UpToDate(f) THEN {} ELSE {f}
    <3>1. Versions(vs)
      <4>1. ASSUME NEW g \in DOMAIN versions PROVE vs[g] \in Record
        <5>1. versions[g] \in Record
          BY DEF Versions
        <5>2. f \in DOMAIN saved.map => saved.map[f].isBP \in BOOLEAN
          BY DEF Versions, Record
        <5>3. (versions[f].processed \/ UpToDate(f)) \in BOOLEAN
          OBVIOUS
        <5>4. CASE g = f
          <6>1. \E p, b \in BOOLEAN :
                   vs[f] = [[versions[f] EXCEPT !.processed = p] EXCEPT !.isBP = b]
            BY <5>1, <5>2, <5>3, <5>4 DEF Record
          <6> QED
            BY <5>1, <5>4, <6>1 DEF Record
        <5>5. CASE g # f
          BY <5>1, <5>5
        <5> QED
          BY <5>4, <5>5
      <4> QED
        BY <4>1 DEF Versions
    <3>2. EmitJavaScript(fs, Analyzed) /\ versions' = Processed(fs, vs, Analyzed)
      BY <2>3 DEF EmitJs
    <3>3. \A g \in DOMAIN Analyzed : Analyzed[g] \in Text
      BY DEF Analyzed, Text
    <3>4. js' \in [Files -> Text]
      BY <3>2, <3>3, EmitType
    <3>5. Versions(versions')
      BY <3>1, <3>2, ProcessedKeeps
    <3> HIDE DEF vs, fs
    <3> QED
      BY <2>3, <3>4, <3>5 DEF EmitJs
  <2>4. CASE EmitDone
    BY <2>4 DEF EmitDone
  <2>5. ASSUME NEW f \in Files, QueueBlueprint(f) PROVE TypeOK'
    <3> DEFINE fs == IF WantsBlueprint(f) THEN {f} ELSE {}
    <3>1. /\ versions' = Marked(fs, Processed(fs, versions, Analyzed), Analyzed)
          /\ jobs' = Queued(fs, Analyzed)
      BY <2>5 DEF QueueBlueprint
    <3> HIDE DEF fs
    <3>2. Versions(versions')
      BY <3>1, ProcessedKeeps, MarkedKeeps
    <3>3. DOMAIN Analyzed \subseteq Files
      BY DEF Analyzed
    <3>4. JobsOK'
      BY <3>1, <3>3, QueuedType
    <3> QED
      BY <2>5, <3>2, <3>4 DEF QueueBlueprint
  <2>6. ASSUME NEW f \in Files, Throw(f) PROVE TypeOK'
    BY <2>6 DEF Throw
  <2>7. CASE QueueDone
    BY <2>7 DEF QueueDone
  <2>8. ASSUME NEW playing \in BOOLEAN, RefreshBlueprints(playing) PROVE TypeOK'
    <3>1. bps' \in [Files -> Text]
      BY <2>8, RebuildType DEF RefreshBlueprints
    <3> QED
      BY <2>8, <3>1 DEF RefreshBlueprints, Nothing
  <2>9. CASE SaveVersions
    BY <2>9 DEF SaveVersions, Versions
  <2>10. CASE Watch
    BY <2>10 DEF Watch
  <2>11. CASE OnChanged
    BY <2>11 DEF OnChanged, Batch
  <2>12. CASE TimerFires
    <3> DEFINE of(what) == {f \in Files : <<what, f>> \in Head(timers)}
               addFiles == of("added") \ of("removed")
               newFiles == IF addFiles = {} THEN {} ELSE OnDisk \ DOMAIN versions
               vs == [f \in DOMAIN versions \cup newFiles |->
                         IF f \in newFiles THEN Fresh(disk[f]) ELSE versions[f]]
    <3>1. \A f \in OnDisk : f \in Files /\ Fresh(disk[f]) \in Record
      BY DEF OnDisk, Fresh, Record
    <3>2. Versions(vs)
      BY <3>1 DEF Versions
    <3>3. /\ todo' \subseteq Files /\ timers' \in Seq(Batch) /\ mode' = "handle"
          /\ changed' \in BOOLEAN /\ fileNames' \subseteq Files
          /\ UNCHANGED <<disk, bps, saved, watcher, notices>>
      BY <2>12 DEF TimerFires, OnDisk
    <3>4. CASE newFiles = {}
      BY <2>12, <3>3, <3>4 DEF TimerFires
    <3>5. CASE newFiles # {}
      <4>1. /\ Compile(newFiles, Registered(vs, OnDisk), Program(vs, OnDisk))
            /\ jobs' = Queued(newFiles, Program(vs, OnDisk))
            /\ cache' = Cached(vs, OnDisk)
        BY <2>12, <3>5 DEF TimerFires
      <4> HIDE DEF vs, newFiles
      <4>2. Versions(versions')
        BY <3>2, <4>1, RegisteredKeeps, CompileKeeps
      <4>3. js' \in [Files -> Text]
        BY <4>1, ProgramType, EmitType DEF Compile
      <4>4. CacheOK' /\ JobsOK'
        BY <3>2, <4>1, ProgramType, CachedType, QueuedType
      <4> QED
        BY <3>3, <4>2, <4>3, <4>4
    <3> QED
      BY <3>4, <3>5
  <2>13. ASSUME NEW f \in Files, HandleModified(f) PROVE TypeOK'
    <3> DEFINE vs == [versions EXCEPT ![f].version = disk[f]]
    <3>1. Versions(vs)
      BY DEF Versions, Record
    <3>2. /\ todo' = todo \ {f}
          /\ UNCHANGED <<disk, bps, saved, mode, fileNames, news>>
      BY <2>13 DEF HandleModified
    <3>3. CASE UNCHANGED <<js, versions, cache, jobs, changed>>
      BY <3>2, <3>3
    <3>4. CASE /\ Compile({f}, Registered(vs, fileNames), Program(vs, fileNames))
               /\ jobs' = Queued({f}, Program(vs, fileNames))
               /\ cache' = Cached(vs, fileNames)
               /\ changed' = TRUE
      <4> HIDE DEF vs
      <4>1. Versions(versions')
        BY <3>1, <3>4, RegisteredKeeps, CompileKeeps
      <4>2. js' \in [Files -> Text]
        BY <3>4, ProgramType, EmitType DEF Compile
      <4>3. CacheOK' /\ JobsOK'
        BY <3>1, <3>4, ProgramType, CachedType, QueuedType
      <4> QED
        BY <3>2, <3>4, <4>1, <4>2, <4>3
    <3> QED
      BY <2>13, <3>3, <3>4 DEF HandleModified
  <2>14. ASSUME NEW id \in Text, NEW playing \in BOOLEAN, CompileCommand(id, playing)
         PROVE  TypeOK'
    <3> DEFINE fs == {f \in DOMAIN versions : versions[f].version = id}
               program == Program(versions, fileNames)
    <3>1. /\ Compile(fs, Registered(versions, fileNames), program)
          /\ cache' = Cached(versions, fileNames)
          /\ Rebuild(Queued(fs, program), playing)
          /\ UNCHANGED <<disk, saved, mode, fileNames, jobs, changed, todo, news>>
      BY <2>14 DEF CompileCommand
    <3> HIDE DEF fs
    <3>2. Versions(versions')
      BY <3>1, RegisteredKeeps, CompileKeeps
    <3>3. js' \in [Files -> Text]
      BY <3>1, ProgramType, EmitType DEF Compile
    <3>4. CacheOK'
      BY <3>1, CachedType
    <3>5. bps' \in [Files -> Text]
      BY <3>1, ProgramType, QueuedType, RebuildType
    <3> QED
      BY <3>1, <3>2, <3>3, <3>4, <3>5
  <2>15. ASSUME NEW f \in Files, NEW c \in Text, Edit(f, c) PROVE TypeOK'
    BY <2>15 DEF Edit, Batch
  <2>16. CASE End
    <3>1. DOMAIN Nothing = {}
      BY DEF Nothing
    <3>2. saved'.there \in BOOLEAN /\ Versions(saved'.map)
      <4>1. CASE saved' = saved
        BY <4>1
      <4>2. CASE saved' = [there |-> TRUE, map |-> Nothing]
        <5>1. saved'.there = TRUE /\ saved'.map = Nothing
          BY <4>2
        <5> HIDE DEF Nothing
        <5> QED
          BY <3>1, <5>1 DEF Versions
      <4> QED
        BY <2>16, <4>1, <4>2 DEF End
    <3>3. timers' \in Seq(Batch) /\ notices' \in Batch
      BY <2>16 DEF End, Batch
    <3> QED
      BY <2>16, <3>1, <3>2, <3>3 DEF End, Versions
  <2>17. CASE UNCHANGED vars
    BY <2>17 DEF vars, Versions, Batch
  <2> QED
    BY <2>1, <2>2, <2>3, <2>4, <2>5, <2>6, <2>7, <2>8, <2>9, <2>10, <2>11, <2>12, <2>13,
       <2>14, <2>15, <2>16, <2>17 DEF Next, Step
<1> QED
  BY <1>1, <1>2, PTL DEF Spec

-----------------------------------------------------------------------------
(* No edit is lost.                                                        *)

HandledToTheEnd ==
    mode \in {"off", "hashed", "refresh", "save", "register", "watching"} => todo = {}
WatchedIsStarted == watcher => mode \in {"watching", "handle", "refresh", "save"}
AbsentIsGone == mode # "off" => \A f \in DOMAIN versions : disk[f] = Absent => f \in gone
ToldOf(f) ==
    \/ disk[f] \in {versions[f].version, baseline[f]}
    \/ f \in todo
    \/ <<"modified", f>> \in notices
    \/ \E i \in DOMAIN timers : <<"modified", f>> \in timers[i]
ChangesAreTold == watcher => \A f \in DOMAIN versions \ gone : ToldOf(f)
WatchInv == HandledToTheEnd /\ WatchedIsStarted /\ AbsentIsGone /\ ChangesAreTold


\* A step may add records, of files that are on disk and as they are there.
Grown(vs) ==
    /\ DOMAIN versions \subseteq DOMAIN vs
    /\ \A f \in DOMAIN vs :
          \/ f \in DOMAIN versions /\ vs[f].version = versions[f].version
          \/ f \in OnDisk /\ vs[f].version = disk[f]

\* Of what else it does, only that nothing announced is dropped counts.
LEMMA GrowingKeeps ==
    ASSUME AbsentIsGone, ChangesAreTold, Grown(versions'), mode # "off",
           UNCHANGED <<disk, watcher, gone, baseline>>,
           watcher => \A f \in Files : f \in todo \/ <<"modified", f>> \in notices
                                       \/ (\E i \in DOMAIN timers : <<"modified", f>> \in timers[i])
                        => f \in todo' \/ <<"modified", f>> \in notices'
                           \/ (\E i \in DOMAIN timers' : <<"modified", f>> \in timers'[i]),
           DOMAIN versions' \subseteq Files
    PROVE  AbsentIsGone' /\ ChangesAreTold'
<1>1. AbsentIsGone'
  BY DEF AbsentIsGone, Grown, OnDisk
<1>2. ASSUME watcher, NEW f \in DOMAIN versions' \ gone PROVE ToldOf(f)'
  <2>1. CASE f \in DOMAIN versions /\ versions'[f].version = versions[f].version
    <3>1. ToldOf(f)
      BY <1>2, <2>1 DEF ChangesAreTold
    <3> QED
      BY <1>2, <2>1, <3>1 DEF ToldOf
  <2>2. CASE versions'[f].version = disk[f]
    BY <2>2 DEF ToldOf
  <2> QED
    BY <1>2, <2>1, <2>2 DEF Grown
<1> QED
  BY <1>1, <1>2 DEF ChangesAreTold

\* Asking about files and compiling them only adds such records.
LEMMA CompilingGrows ==
    ASSUME disk \in [Files -> Text], Versions(versions), NEW vs, Versions(vs), Grown(vs),
           NEW roots, NEW fs, NEW program, Compile(fs, Registered(vs, roots), program)
    PROVE  Grown(versions') /\ Versions(versions')
<1> DEFINE r == Registered(vs, roots)
<1>1. /\ Versions(r)
      /\ DOMAIN vs \subseteq DOMAIN r
      /\ \A f \in DOMAIN r : f \notin DOMAIN vs => r[f] = Fresh(disk[f]) /\ f \in OnDisk
      /\ \A f \in DOMAIN vs : r[f] = vs[f]
  BY RegisteredKeeps
<1>2. Compile(fs, r, program)
  OBVIOUS
<1> HIDE DEF r
<1>3. /\ Versions(versions')
      /\ DOMAIN versions' = DOMAIN r
      /\ \A f \in DOMAIN r : versions'[f].version = r[f].version
  BY <1>1, <1>2, CompileKeeps
<1> QED
  BY <1>1, <1>3 DEF Grown, Fresh

\* Of two changes of mode: what a start does before it watches.
LEMMA BeforeTheWatch ==
    ASSUME mode \in {"hashed", "emit", "queue"}, WatchedIsStarted, watcher' = watcher
    PROVE  ~watcher /\ WatchedIsStarted' /\ ChangesAreTold'
  BY DEF WatchedIsStarted, ChangesAreTold

\* The invariant holds along with TypeOK (CodeAnalyze.js, onSourceFileAddOrChange and
\* the handlers of dirWatcher.OnChanged).
LEMMA WatchCorrect == Spec => []WatchInv
<1> USE SourceAssumption
<1>1. Init => WatchInv
  BY DEF Init, WatchInv, HandledToTheEnd, WatchedIsStarted, AbsentIsGone, ChangesAreTold
<1>2. TypeOK /\ WatchInv /\ [Next]_vars => WatchInv'
  <2> SUFFICES ASSUME TypeOK, WatchInv, [Next]_vars PROVE WatchInv'
    OBVIOUS
  <2>0. /\ disk \in [Files -> Text] /\ Versions(versions) /\ DOMAIN versions \subseteq Files
        /\ timers \in Seq(Batch) /\ notices \in Batch
        /\ HandledToTheEnd /\ WatchedIsStarted /\ AbsentIsGone /\ ChangesAreTold
    BY DEF TypeOK, WatchInv, Versions
  <2> USE DEF HandledToTheEnd, WatchedIsStarted
  <2>1. CASE Start
    <3>1. watcher' = FALSE
      BY <2>0, <2>1 DEF Start
    <3>2. AbsentIsGone'
      BY <2>1 DEF Start, AbsentIsGone, OnDisk
    <3> QED
      BY <2>0, <2>1, <3>1, <3>2 DEF Start, WatchInv, ChangesAreTold
  <2>2. CASE Analyze
    <3>1. WatchedIsStarted' /\ ChangesAreTold'
      BY <2>0, <2>2, BeforeTheWatch DEF Analyze
    <3>2. HandledToTheEnd'
      BY <2>2 DEF Analyze
    <3>3. AbsentIsGone'
      <4> DEFINE r == Registered(versions, fileNames)
      <4>1. DOMAIN versions' = DOMAIN r
        BY <2>2 DEF Analyze
      <4>2. \A f \in DOMAIN r : f \in DOMAIN versions \/ f \in OnDisk
        BY <2>0, RegisteredKeeps
      <4> HIDE DEF r
      <4> QED
        BY <2>0, <2>2, <4>1, <4>2 DEF Analyze, AbsentIsGone, OnDisk
    <3> QED
      BY <3>1, <3>2, <3>3 DEF WatchInv
  <2>3. ASSUME NEW f \in Files, EmitJs(f) PROVE WatchInv'
    <3>1. WatchedIsStarted' /\ ChangesAreTold'
      BY <2>0, <2>3, BeforeTheWatch DEF EmitJs
    <3>2. DOMAIN versions' = DOMAIN versions
      BY <2>3 DEF EmitJs, Processed
    <3>3. UNCHANGED <<mode, disk, gone>> /\ mode = "emit"
      BY <2>3 DEF EmitJs
    <3> QED
      BY <2>0, <3>1, <3>2, <3>3 DEF WatchInv, AbsentIsGone
  <2>4. CASE EmitDone
    BY <2>0, <2>4, BeforeTheWatch DEF EmitDone, WatchInv, AbsentIsGone
  <2>5. ASSUME NEW f \in Files, QueueBlueprint(f) PROVE WatchInv'
    <3>1. WatchedIsStarted' /\ ChangesAreTold'
      BY <2>0, <2>5, BeforeTheWatch DEF QueueBlueprint
    <3>2. DOMAIN versions' = DOMAIN versions
      BY <2>5 DEF QueueBlueprint, Processed, Marked
    <3>3. UNCHANGED <<mode, disk, gone>> /\ mode = "queue"
      BY <2>5 DEF QueueBlueprint
    <3> QED
      BY <2>0, <3>1, <3>2, <3>3 DEF WatchInv, AbsentIsGone
  <2>6. ASSUME NEW f \in Files, Throw(f) PROVE WatchInv'
    <3>1. WatchedIsStarted' /\ ChangesAreTold'
      BY <2>0, <2>6, BeforeTheWatch DEF Throw
    <3> QED
      BY <2>0, <2>6, <3>1 DEF Throw, WatchInv, AbsentIsGone
  <2>7. CASE QueueDone
    BY <2>0, <2>7 DEF QueueDone, WatchInv, AbsentIsGone, ChangesAreTold, ToldOf
  <2>8. ASSUME NEW playing \in BOOLEAN, RefreshBlueprints(playing) PROVE WatchInv'
    BY <2>0, <2>8 DEF RefreshBlueprints, WatchInv, AbsentIsGone, ChangesAreTold, ToldOf
  <2>9. CASE SaveVersions
    BY <2>0, <2>9 DEF SaveVersions, WatchInv, AbsentIsGone, ChangesAreTold, ToldOf
  <2>10. CASE Watch
    BY <2>0, <2>10 DEF Watch, WatchInv, AbsentIsGone, ChangesAreTold, ToldOf
  <2>11. CASE OnChanged
    <3>1. /\ UNCHANGED <<disk, watcher, gone, baseline, todo, versions, mode>>
          /\ mode = "watching" /\ timers' = Append(timers, notices) /\ notices' = {}
      BY <2>11 DEF OnChanged
    <3>2. \A i \in DOMAIN timers : i \in DOMAIN timers' /\ timers'[i] = timers[i]
      BY <2>0, <3>1
    <3>3. Len(timers) + 1 \in DOMAIN timers' /\ timers'[Len(timers) + 1] = notices
      BY <2>0, <3>1
    <3>4. Grown(versions')
      BY <3>1 DEF Grown
    <3>5. AbsentIsGone' /\ ChangesAreTold'
      BY <2>0, <3>1, <3>2, <3>3, <3>4, GrowingKeeps
    <3> QED
      BY <2>0, <3>1, <3>5 DEF WatchInv
  <2>12. CASE TimerFires
    <3> DEFINE of(what) == {f \in Files : <<what, f>> \in Head(timers)}
               addFiles == of("added") \ of("removed")
               newFiles == IF addFiles = {} THEN {} ELSE OnDisk \ DOMAIN versions
               vs == [f \in DOMAIN versions \cup newFiles |->
                         IF f \in newFiles THEN Fresh(disk[f]) ELSE versions[f]]
    <3>1. /\ mode = "watching" /\ mode' = "handle" /\ timers # <<>> /\ timers' = Tail(timers)
          /\ UNCHANGED <<disk, watcher, gone, baseline, notices>>
          /\ of("modified") \subseteq todo'
      BY <2>12 DEF TimerFires
    <3>2. Grown(versions') /\ DOMAIN versions' \subseteq Files
      <4>1. CASE newFiles = {}
        BY <2>0, <2>12, <4>1 DEF TimerFires, Grown
      <4>2. CASE newFiles # {}
        <5>1. Compile(newFiles, Registered(vs, OnDisk), Program(vs, OnDisk))
          BY <2>12, <4>2 DEF TimerFires
        <5>2. \A f \in OnDisk : f \in Files /\ Fresh(disk[f]) \in Record
          BY <2>0 DEF OnDisk, Fresh, Record
        <5>3. Versions(vs) /\ Grown(vs)
          BY <2>0, <5>2 DEF Versions, Grown, Fresh
        <5> HIDE DEF vs, newFiles
        <5> QED
          BY <2>0, <5>1, <5>3, CompilingGrows DEF Versions
      <4> QED
        BY <4>1, <4>2
    <3>3. ASSUME NEW f \in Files,
                 \/ f \in todo \/ <<"modified", f>> \in notices
                 \/ \E i \in DOMAIN timers : <<"modified", f>> \in timers[i]
          PROVE  \/ f \in todo' \/ <<"modified", f>> \in notices'
                 \/ \E i \in DOMAIN timers' : <<"modified", f>> \in timers'[i]
      <4>1. todo = {}
        BY <2>0, <3>1
      <4>2. CASE <<"modified", f>> \in notices
        BY <3>1, <4>2
      <4>3. ASSUME NEW i \in DOMAIN timers, <<"modified", f>> \in timers[i]
            PROVE  f \in todo' \/ \E j \in DOMAIN timers' : <<"modified", f>> \in timers'[j]
        <5>1. CASE i = 1
          <6>1. timers[i] = Head(timers)
            BY <2>0, <3>1, <5>1
          <6> QED
            BY <3>1, <4>3, <6>1
        <5>2. CASE i # 1
          <6>1. i - 1 \in DOMAIN timers' /\ timers'[i - 1] = timers[i]
            BY <2>0, <3>1, <4>3, <5>2
          <6> QED
            BY <4>3, <6>1
        <5> QED
          BY <5>1, <5>2
      <4> QED
        BY <3>3, <4>1, <4>2, <4>3
    <3> HIDE DEF of
    <3>4. AbsentIsGone' /\ ChangesAreTold'
      BY <2>0, <3>1, <3>2, <3>3, GrowingKeeps
    <3> QED
      BY <2>0, <3>1, <3>4 DEF WatchInv
  <2>13. ASSUME NEW f \in Files, HandleModified(f) PROVE WatchInv'
    <3> DEFINE vs == [versions EXCEPT ![f].version = disk[f]]
    <3>1. /\ mode = "handle" /\ mode' = mode /\ todo' = todo \ {f}
          /\ UNCHANGED <<disk, watcher, baseline, notices, timers>>
      BY <2>13 DEF HandleModified
    <3>2. /\ gone \ gone' \subseteq {f} \cap OnDisk
          /\ DOMAIN versions \subseteq DOMAIN versions'
          /\ f \in DOMAIN versions' => versions'[f].version = disk[f]
          /\ \A g \in DOMAIN versions' \ {f} :
                \/ g \in DOMAIN versions /\ versions'[g].version = versions[g].version
                \/ g \in OnDisk /\ versions'[g].version = disk[g]
      <4>1. CASE f \in DOMAIN versions /\ versions[f].version # disk[f]
        <5>1. /\ Compile({f}, Registered(vs, fileNames), Program(vs, fileNames))
              /\ gone' = gone \ ({f} \cap OnDisk)
          BY <2>13, <4>1 DEF HandleModified
        <5>2. /\ Versions(vs) /\ DOMAIN vs = DOMAIN versions /\ vs[f].version = disk[f]
              /\ \A g \in DOMAIN versions \ {f} : vs[g] = versions[g]
          BY <2>0, <4>1 DEF Versions, Record
        <5> DEFINE r == Registered(vs, fileNames)
        <5> HIDE DEF vs
        <5>3. /\ Versions(r)
              /\ DOMAIN vs \subseteq DOMAIN r
              /\ \A g \in DOMAIN r : g \notin DOMAIN vs => r[g] = Fresh(disk[g]) /\ g \in OnDisk
              /\ \A g \in DOMAIN vs : r[g] = vs[g]
          BY <2>0, <5>2, RegisteredKeeps
        <5>4. Compile({f}, r, Program(vs, fileNames))
          BY <5>1
        <5> HIDE DEF r
        <5>5. /\ DOMAIN versions' = DOMAIN r
              /\ \A g \in DOMAIN r : versions'[g].version = r[g].version
          BY <5>3, <5>4, CompileKeeps
        <5> QED
          BY <5>1, <5>2, <5>3, <5>5 DEF Fresh
      <4>2. CASE ~(f \in DOMAIN versions /\ versions[f].version # disk[f])
        BY <2>13, <4>2 DEF HandleModified
      <4> QED
        BY <4>1, <4>2
    <3>3. AbsentIsGone'
      <4> SUFFICES ASSUME NEW g \in DOMAIN versions', disk[g] = Absent PROVE g \in gone'
        BY <3>1 DEF AbsentIsGone
      <4>1. g \in DOMAIN versions \/ g = f
        BY <3>2 DEF OnDisk
      <4>2. g \in DOMAIN versions
        BY <2>13, <3>2, <4>1 DEF HandleModified, OnDisk
      <4> QED
        BY <2>0, <3>1, <3>2, <4>2 DEF AbsentIsGone, OnDisk
    <3>4. ASSUME watcher, NEW g \in DOMAIN versions' \ gone' PROVE ToldOf(g)'
      <4>1. CASE g = f
        BY <3>1, <3>2, <4>1 DEF ToldOf
      <4>2. CASE g # f /\ versions'[g].version = disk[g]
        BY <3>1, <4>2 DEF ToldOf
      <4>3. CASE g # f /\ g \in DOMAIN versions /\ versions'[g].version = versions[g].version
        <5>1. g \notin gone
          BY <3>2, <3>4, <4>3
        <5>2. ToldOf(g)
          BY <2>0, <3>4, <4>3, <5>1 DEF ChangesAreTold
        <5> QED
          BY <3>1, <4>3, <5>2 DEF ToldOf
      <4> QED
        BY <3>2, <4>1, <4>2, <4>3
    <3> QED
      BY <2>0, <3>1, <3>3, <3>4 DEF WatchInv, ChangesAreTold
  <2>14. ASSUME NEW id \in Text, NEW playing \in BOOLEAN, CompileCommand(id, playing)
         PROVE  WatchInv'
    <3> DEFINE fs == {f \in DOMAIN versions : versions[f].version = id}
    <3>1. /\ Compile(fs, Registered(versions, fileNames), Program(versions, fileNames))
          /\ mode = "watching"
          /\ UNCHANGED <<disk, mode, todo, news, past>>
      BY <2>14 DEF CompileCommand
    <3> HIDE DEF fs
    <3>2. Grown(versions)
      BY DEF Grown
    <3>3. Grown(versions') /\ DOMAIN versions' \subseteq Files
      BY <2>0, <3>1, <3>2, CompilingGrows DEF Versions
    <3>4. AbsentIsGone' /\ ChangesAreTold'
      BY <2>0, <3>1, <3>3, GrowingKeeps
    <3> QED
      BY <2>0, <3>1, <3>4 DEF WatchInv
  <2>15. ASSUME NEW f \in Files, NEW c \in Text, Edit(f, c) PROVE WatchInv'
    <3>1. /\ disk' = [disk EXCEPT ![f] = c]
          /\ UNCHANGED <<mode, versions, watcher, baseline, timers, todo>>
          /\ gone' = IF mode # "off" /\ c = Absent THEN gone \cup {f} ELSE gone
          /\ watcher => notices \subseteq notices'
          /\ watcher /\ disk[f] # Absent /\ c # Absent => <<"modified", f>> \in notices'
      BY <2>15 DEF Edit
    <3>2. AbsentIsGone'
      BY <2>0, <3>1 DEF AbsentIsGone
    <3>3. ASSUME watcher, NEW g \in DOMAIN versions \ gone' PROVE ToldOf(g)'
      <4>1. g \notin gone /\ g \in Files /\ mode # "off"
        BY <2>0, <3>1, <3>3
      <4>2. CASE g = f
        <5>1. disk[f] # Absent /\ c # Absent
          BY <2>0, <3>1, <3>3, <4>1, <4>2 DEF AbsentIsGone
        <5> QED
          BY <3>1, <3>3, <4>2, <5>1 DEF ToldOf
      <4>3. CASE g # f
        <5>1. ToldOf(g) /\ disk'[g] = disk[g]
          BY <2>0, <3>1, <3>3, <4>1, <4>3 DEF ChangesAreTold
        <5> QED
          BY <3>1, <3>3, <5>1 DEF ToldOf
      <4> QED
        BY <4>2, <4>3
    <3> QED
      BY <2>0, <3>1, <3>2, <3>3 DEF WatchInv, ChangesAreTold
  <2>16. CASE End
    BY <2>16 DEF End, WatchInv, AbsentIsGone, ChangesAreTold
  <2>17. CASE UNCHANGED vars
    BY <2>0, <2>17 DEF vars, WatchInv, AbsentIsGone, ChangesAreTold, ToldOf
  <2> QED
    BY <2>1, <2>2, <2>3, <2>4, <2>5, <2>6, <2>7, <2>8, <2>9, <2>10, <2>11, <2>12, <2>13,
       <2>14, <2>15, <2>16, <2>17 DEF Next, Step
<1> QED
  BY <1>1, <1>2, TypeCorrect, PTL DEF Spec

\* Once the directory is watched no change of a recorded source is lost: it is
\* recorded, or its announcement is on its way, however many edits, timers and
\* commands interleave (CodeAnalyze.js, dirWatcher.OnChanged and its timers).
THEOREM NoEditIsLost == Spec => []NoLostEdit
<1>1. WatchInv => NoLostEdit
  <2> SUFFICES ASSUME WatchInv, NEW f \in Files \ gone, Overlooked(f) PROVE FALSE
    BY DEF NoLostEdit
  <2>1. ToldOf(f) /\ ~Announced(f)
    BY DEF WatchInv, ChangesAreTold, Overlooked
  <2>2. \A n : n = <<"modified", f>> => n[2] = f
    OBVIOUS
  <2> QED
    BY <2>1, <2>2 DEF ToldOf, Announced, Overlooked
<1> QED
  BY <1>1, WatchCorrect, PTL

-----------------------------------------------------------------------------
(* What was read from the disk.  A source is unspoilt as long as none of   *)
(* its texts has come back: then a version that is its text by now has     *)
(* been its text ever since it was recorded, and what was read under it is *)
(* that text.                                                              *)

Unspoilt(f) == f \in OnDisk \ undone
IsAsRead(map, f) == f \in DOMAIN map /\ map[f].version = disk[f]

WrittenIn(map) == \A f \in DOMAIN map : map[f].version \in written[f]
OnlyWritten ==
    /\ written \in [Files -> SUBSET Text]
    /\ \A f \in Files : disk[f] \in written[f]
    /\ WrittenIn(versions) /\ WrittenIn(saved.map) /\ WrittenIn(cache)
CacheIsHonest ==
    \A f \in DOMAIN cache :
        Unspoilt(f) /\ cache[f].version = disk[f] => cache[f].text = disk[f]
WrittenInv == OnlyWritten /\ CacheIsHonest

\* What is read now of such a source is its text.
LEMMA SnapshotHonest ==
    ASSUME CacheIsHonest, NEW f, Unspoilt(f), NEW vs, f \in DOMAIN vs => vs[f].version = disk[f]
    PROVE  Snapshot(vs, f) = disk[f]
<1>1. disk[f] # Absent /\ Version(vs, f) = disk[f]
  BY DEF Unspoilt, OnDisk, Version
<1> QED
  BY <1>1 DEF Snapshot, CacheIsHonest

\* A step that reads no source, and records only what has been on disk.
LEMMA WrittenStays ==
    ASSUME WrittenInv, UNCHANGED <<disk, written, undone, cache>>,
           \A f \in DOMAIN versions' : versions'[f].version \in written[f],
           \A f \in DOMAIN saved'.map : saved'.map[f].version \in written[f]
    PROVE  WrittenInv'
  BY DEF WrittenInv, OnlyWritten, WrittenIn, CacheIsHonest, Unspoilt, OnDisk

\* A step that reads sources under the versions vs.
LEMMA WrittenRead ==
    ASSUME TypeOK, WrittenInv, UNCHANGED <<disk, written, undone, saved>>,
           NEW vs, Versions(vs), \A f \in DOMAIN vs : vs[f].version \in written[f],
           NEW roots, cache' = Cached(vs, roots),
           \A f \in DOMAIN versions' : versions'[f].version \in written[f]
    PROVE  WrittenInv'
<1> DEFINE read == Reached(vs, roots) \cap OnDisk
<1>1. /\ DOMAIN cache' = DOMAIN cache \cup read
      /\ \A f \in DOMAIN cache' :
            cache'[f] = IF f \in read
                        THEN [version |-> Version(vs, f), text |-> Snapshot(vs, f)] ELSE cache[f]
  BY DEF Cached
<1>2. read \subseteq OnDisk /\ OnDisk \subseteq Files
  BY DEF OnDisk
<1> HIDE DEF read
<1>3. ASSUME NEW f \in DOMAIN cache'
      PROVE  /\ cache'[f].version \in written[f]
             /\ Unspoilt(f) /\ cache'[f].version = disk[f] => cache'[f].text = disk[f]
  <2>1. CASE f \in read
    <3>0. cache'[f] = [version |-> Version(vs, f), text |-> Snapshot(vs, f)]
      BY <1>1, <2>1
    <3>1. cache'[f].version = Version(vs, f) /\ cache'[f].text = Snapshot(vs, f)
      BY <3>0
    <3>2. Version(vs, f) \in written[f]
      BY <1>2, <2>1 DEF Version, WrittenInv, OnlyWritten
    <3>3. Version(vs, f) = disk[f] => (f \in DOMAIN vs => vs[f].version = disk[f])
      BY DEF Version
    <3> QED
      BY <3>1, <3>2, <3>3, SnapshotHonest DEF WrittenInv
  <2>2. CASE f \notin read
    BY <1>1, <2>2 DEF WrittenInv, OnlyWritten, WrittenIn, CacheIsHonest
  <2> QED
    BY <2>1, <2>2
<1> QED
  BY <1>3 DEF WrittenInv, OnlyWritten, WrittenIn, CacheIsHonest, Unspoilt, OnDisk

\* What compiling records has been on disk.
LEMMA CompilingWritten ==
    ASSUME TypeOK, WrittenInv, NEW vs, Versions(vs),
           \A f \in DOMAIN vs : vs[f].version \in written[f],
           NEW roots, NEW fs, NEW program, Compile(fs, Registered(vs, roots), program)
    PROVE  \A f \in DOMAIN versions' : versions'[f].version \in written[f]
<1> DEFINE r == Registered(vs, roots)
<1>1. /\ Versions(r)
      /\ \A f \in DOMAIN r : f \notin DOMAIN vs => r[f] = Fresh(disk[f]) /\ f \in OnDisk
      /\ \A f \in DOMAIN vs : r[f] = vs[f]
  BY RegisteredKeeps DEF TypeOK
<1>2. ASSUME NEW f \in DOMAIN r PROVE r[f].version \in written[f]
  <2>1. CASE f \in DOMAIN vs
    BY <1>1, <2>1
  <2>2. CASE f \notin DOMAIN vs
    <3>1. r[f] = Fresh(disk[f]) /\ f \in Files
      BY <1>1, <1>2, <2>2 DEF OnDisk
    <3> QED
      BY <3>1 DEF WrittenInv, OnlyWritten, Fresh
  <2> QED
    BY <2>1, <2>2
<1>3. Compile(fs, r, program)
  OBVIOUS
<1> HIDE DEF r
<1>4. DOMAIN versions' = DOMAIN r /\ \A f \in DOMAIN r : versions'[f].version = r[f].version
  BY <1>1, <1>3, CompileKeeps
<1> QED
  BY <1>2, <1>4

LEMMA WrittenCorrect == Spec => []WrittenInv
<1> USE SourceAssumption
<1>1. Init => WrittenInv
  BY DEF Init, WrittenInv, OnlyWritten, WrittenIn, CacheIsHonest, Nothing, Text
<1>2. TypeOK /\ WrittenInv /\ [Next]_vars => WrittenInv'
  <2> SUFFICES ASSUME TypeOK, WrittenInv, [Next]_vars PROVE WrittenInv'
    OBVIOUS
  <2>0. /\ disk \in [Files -> Text] /\ Versions(versions) /\ OnDisk \subseteq Files
        /\ \A f \in Files : disk[f] \in written[f]
        /\ \A f \in DOMAIN versions : versions[f].version \in written[f]
        /\ \A f \in DOMAIN saved.map : saved.map[f].version \in written[f]
    BY DEF TypeOK, WrittenInv, OnlyWritten, WrittenIn, OnDisk
  <2>1. CASE Start
    BY <2>0, <2>1, WrittenStays DEF Start, Fresh
  <2>2. CASE Analyze
    <3> DEFINE r == Registered(versions, fileNames)
    <3>1. /\ \A f \in DOMAIN r : f \notin DOMAIN versions => r[f] = Fresh(disk[f]) /\ f \in OnDisk
          /\ \A f \in DOMAIN versions : r[f] = versions[f]
      BY <2>0, RegisteredKeeps
    <3>2. /\ cache' = Cached(versions, fileNames)
          /\ UNCHANGED <<disk, written, undone, saved>>
          /\ \/ versions' = r
             \/ versions' = [f \in DOMAIN r |-> IF f \in fileNames \cap DOMAIN saved.map
                                               THEN saved.map[f] ELSE r[f]]
      BY <2>2 DEF Analyze
    <3> HIDE DEF r
    <3>3. ASSUME NEW f \in DOMAIN r PROVE r[f].version \in written[f]
      <4>1. CASE f \in DOMAIN versions
        BY <2>0, <3>1, <4>1
      <4>2. CASE f \notin DOMAIN versions
        <5>1. r[f] = Fresh(disk[f]) /\ f \in Files
          BY <2>0, <3>1, <3>3, <4>2
        <5> QED
          BY <2>0, <5>1 DEF Fresh
      <4> QED
        BY <4>1, <4>2
    <3>4. \A f \in DOMAIN versions' : versions'[f].version \in written[f]
      BY <2>0, <3>2, <3>3
    <3> QED
      BY <2>0, <3>2, <3>4, WrittenRead
  <2>3. ASSUME NEW f \in Files, EmitJs(f) PROVE WrittenInv'
    <3> DEFINE vs == [versions EXCEPT ![f].processed = @ \/ UpToDate(f),
                                      ![f].isBP = IF f \in DOMAIN saved.map
                                                  THEN saved.map[f].isBP ELSE @]
               fs == IF UpToDate(f) THEN {} ELSE {f}
    <3>1. versions' = Processed(fs, vs, Analyzed)
      BY <2>3 DEF EmitJs
    <3>2. DOMAIN vs = DOMAIN versions /\ \A g \in DOMAIN versions : vs[g].version = versions[g].version
      BY <2>0 DEF Versions, Record
    <3> HIDE DEF vs, fs
    <3>3. DOMAIN versions' = DOMAIN vs /\ \A g \in DOMAIN vs : versions'[g].version = vs[g].version
      BY <3>1, <3>2 DEF Processed
    <3>4. UNCHANGED <<disk, written, undone, saved, cache>>
      BY <2>3 DEF EmitJs
    <3> QED
      BY <2>0, <3>2, <3>3, <3>4, WrittenStays
  <2>4. CASE EmitDone
    BY <2>0, <2>4, WrittenStays DEF EmitDone
  <2>5. ASSUME NEW f \in Files, QueueBlueprint(f) PROVE WrittenInv'
    <3> DEFINE fs == IF WantsBlueprint(f) THEN {f} ELSE {}
    <3>1. versions' = Marked(fs, Processed(fs, versions, Analyzed), Analyzed)
      BY <2>5 DEF QueueBlueprint
    <3> HIDE DEF fs
    <3>2. DOMAIN versions' = DOMAIN versions
          /\ \A g \in DOMAIN versions : versions'[g].version = versions[g].version
      BY <2>0, <3>1, ProcessedKeeps, MarkedKeeps
    <3> QED
      BY <2>0, <2>5, <3>2, WrittenStays DEF QueueBlueprint
  <2>6. ASSUME NEW f \in Files, Throw(f) PROVE WrittenInv'
    BY <2>0, <2>6, WrittenStays DEF Throw
  <2>7. CASE QueueDone
    BY <2>0, <2>7, WrittenStays DEF QueueDone
  <2>8. ASSUME NEW playing \in BOOLEAN, RefreshBlueprints(playing) PROVE WrittenInv'
    BY <2>0, <2>8, WrittenStays DEF RefreshBlueprints
  <2>9. CASE SaveVersions
    BY <2>0, <2>9, WrittenStays DEF SaveVersions
  <2>10. CASE Watch
    BY <2>0, <2>10, WrittenStays DEF Watch
  <2>11. CASE OnChanged
    BY <2>0, <2>11, WrittenStays DEF OnChanged
  <2>12. CASE TimerFires
    <3> DEFINE of(what) == {f \in Files : <<what, f>> \in Head(timers)}
               addFiles == of("added") \ of("removed")
               newFiles == IF addFiles = {} THEN {} ELSE OnDisk \ DOMAIN versions
               vs == [f \in DOMAIN versions \cup newFiles |->
                         IF f \in newFiles THEN Fresh(disk[f]) ELSE versions[f]]
    <3>1. UNCHANGED <<disk, written, undone, saved>>
      BY <2>12 DEF TimerFires
    <3>2. CASE newFiles = {}
      BY <2>0, <2>12, <3>1, <3>2, WrittenStays DEF TimerFires
    <3>3. CASE newFiles # {}
      <4>1. /\ Compile(newFiles, Registered(vs, OnDisk), Program(vs, OnDisk))
            /\ cache' = Cached(vs, OnDisk)
        BY <2>12, <3>3 DEF TimerFires
      <4>2. \A f \in OnDisk : f \in Files /\ Fresh(disk[f]) \in Record
        BY <2>0 DEF Fresh, Record
      <4>3. Versions(vs) /\ \A f \in DOMAIN vs : vs[f].version \in written[f]
        BY <2>0, <4>2 DEF Versions, Fresh
      <4> HIDE DEF vs, newFiles
      <4> QED
        BY <3>1, <4>1, <4>3, CompilingWritten, WrittenRead
    <3> QED
      BY <3>2, <3>3
  <2>13. ASSUME NEW f \in Files, HandleModified(f) PROVE WrittenInv'
    <3> DEFINE vs == [versions EXCEPT ![f].version = disk[f]]
    <3>1. UNCHANGED <<disk, written, undone, saved>>
      BY <2>13 DEF HandleModified
    <3>2. CASE f \in DOMAIN versions /\ versions[f].version # disk[f]
      <4>1. /\ Compile({f}, Registered(vs, fileNames), Program(vs, fileNames))
            /\ cache' = Cached(vs, fileNames)
        BY <2>13, <3>2 DEF HandleModified
      <4>2. Versions(vs) /\ \A g \in DOMAIN vs : vs[g].version \in written[g]
        BY <2>0 DEF Versions, Record
      <4> HIDE DEF vs
      <4> QED
        BY <3>1, <4>1, <4>2, CompilingWritten, WrittenRead
    <3>3. CASE ~(f \in DOMAIN versions /\ versions[f].version # disk[f])
      BY <2>0, <2>13, <3>1, <3>3, WrittenStays DEF HandleModified
    <3> QED
      BY <3>2, <3>3
  <2>14. ASSUME NEW id \in Text, NEW playing \in BOOLEAN, CompileCommand(id, playing)
         PROVE  WrittenInv'
    <3> DEFINE fs == {f \in DOMAIN versions : versions[f].version = id}
    <3>1. /\ Compile(fs, Registered(versions, fileNames), Program(versions, fileNames))
          /\ cache' = Cached(versions, fileNames)
          /\ UNCHANGED <<disk, written, undone, saved>>
      BY <2>14 DEF CompileCommand
    <3> HIDE DEF fs
    <3> QED
      BY <2>0, <3>1, CompilingWritten, WrittenRead
  <2>15. ASSUME NEW f \in Files, NEW c \in Text, Edit(f, c) PROVE WrittenInv'
    <3>1. /\ disk' = [disk EXCEPT ![f] = c] /\ written' = [written EXCEPT ![f] = @ \cup {c}]
          /\ undone' = IF c \in written[f] THEN undone \cup {f} ELSE undone
          /\ UNCHANGED <<versions, saved, cache>>
      BY <2>15 DEF Edit
    <3>2. OnlyWritten'
      <4>1. written \in [Files -> SUBSET Text]
        BY DEF WrittenInv, OnlyWritten
      <4>2. written' \in [Files -> SUBSET Text] /\ \A g \in Files : written[g] \subseteq written'[g]
        BY <3>1, <4>1
      <4>3. \A g \in Files : disk'[g] \in written'[g]
        BY <2>0, <3>1, <4>1
      <4>4. DOMAIN versions \subseteq Files /\ DOMAIN saved.map \subseteq Files /\ DOMAIN cache \subseteq Files
        BY DEF TypeOK, Versions
      <4> QED
        BY <3>1, <4>2, <4>3, <4>4 DEF WrittenInv, OnlyWritten, WrittenIn
    <3>3. ASSUME NEW g \in DOMAIN cache, Unspoilt(g)', cache[g].version = disk'[g]
          PROVE  cache[g].text = disk'[g]
      <4>1. CASE g = f
        <5>1. cache[f].version \in written[f] /\ disk'[f] = c
          BY <2>0, <3>1, <3>3, <4>1 DEF WrittenInv, OnlyWritten, WrittenIn
        <5> QED
          BY <3>1, <3>3, <4>1, <5>1 DEF Unspoilt
      <4>2. CASE g # f
        BY <2>0, <3>1, <3>3, <4>2 DEF WrittenInv, CacheIsHonest, Unspoilt, OnDisk
      <4> QED
        BY <4>1, <4>2
    <3> QED
      BY <3>1, <3>2, <3>3 DEF WrittenInv, CacheIsHonest
  <2>16. CASE End
    <3>1. DOMAIN Nothing = {}
      BY DEF Nothing
    <3>2. /\ UNCHANGED <<disk, written>> /\ versions' = Nothing /\ cache' = Nothing
          /\ saved'.map = saved.map \/ saved'.map = Nothing
      BY <2>16 DEF End
    <3> HIDE DEF Nothing
    <3> QED
      BY <2>0, <3>1, <3>2 DEF WrittenInv, OnlyWritten, WrittenIn, CacheIsHonest
  <2>17. CASE UNCHANGED vars
    BY <2>0, <2>17, WrittenStays DEF vars
  <2> QED
    BY <2>1, <2>2, <2>3, <2>4, <2>5, <2>6, <2>7, <2>8, <2>9, <2>10, <2>11, <2>12, <2>13,
       <2>14, <2>15, <2>16, <2>17 DEF Next, Step
<1> QED
  BY <1>1, <1>2, TypeCorrect, PTL DEF Spec

-----------------------------------------------------------------------------
(* A start.  What it has done for a source so far.                         *)

Awaits(f) == f \in fileNames /\ (mode = "emit" \/ (mode = "queue" /\ f \in todo))
Emitted(f) == f \in fileNames /\ ((mode = "emit" /\ f \notin todo) \/ mode = "queue")
Treated(f) ==
    /\ f \in fileNames
    /\ \/ mode = "queue" /\ f \notin todo
       \/ mode \in {"refresh", "save"} /\ ~watcher

Hashed ==
    /\ mode \in {"off", "hashed"} => DOMAIN cache = {}
    /\ mode = "hashed" =>
          /\ fileNames \subseteq DOMAIN versions
          /\ \A f \in DOMAIN versions : ~versions[f].processed /\ ~versions[f].isBP
Analysis ==
    mode \in {"emit", "queue"} =>
        /\ todo \subseteq fileNames
        /\ \A f \in fileNames :
              /\ f \in DOMAIN cache /\ f \in DOMAIN versions
              /\ cache[f].version = versions[f].version
              /\ ~Diagnosed(Analyzed, f)
JobsOfTheRecorded ==
    /\ DOMAIN jobs \subseteq DOMAIN versions
    /\ mode \notin {"queue", "refresh", "handle", "dead"} => DOMAIN jobs = {}
\* The mark of a blueprint is that of the record until the blueprint is queued.
MarkedAsBefore ==
    \A f \in Files : Awaits(f) /\ versions[f].isBP => f \in DOMAIN saved.map /\ saved.map[f].isBP
EmittedIsDone ==
    \A f \in Files : Emitted(f) \/ Treated(f) =>
        f \in DOMAIN versions /\ versions[f].processed /\ (~changed => UpToDate(f))
TreatedIsDone ==
    \A f \in Files : Treated(f) =>
        /\ ~changed /\ saved.map[f].isBP => bps[f] # Absent
        /\ versions[f].isBP /\ f \notin refused => f \in DOMAIN jobs \/ bps[f] # Absent
StartedIsWatched == mode \in {"watching", "handle"} => watcher
StartInv == /\ Hashed /\ Analysis /\ JobsOfTheRecorded /\ MarkedAsBefore
            /\ EmittedIsDone /\ TreatedIsDone /\ StartedIsWatched

\* The marks that compiling leaves.
LEMMA ProcessedMarks ==
    ASSUME NEW vs, Versions(vs), NEW fs, NEW program
    PROVE  LET p == Processed(fs, vs, program)
           IN  /\ DOMAIN p = DOMAIN vs
               /\ \A f \in DOMAIN vs :
                     /\ p[f].version = vs[f].version
                     /\ p[f].processed <=> f \in Good(fs, program) \/ vs[f].processed
                     /\ p[f].isBP = vs[f].isBP
  BY DEF Versions, Processed, Record

LEMMA MarkedMarks ==
    ASSUME NEW vs, Versions(vs), NEW fs, NEW program
    PROVE  LET p == Marked(fs, vs, program)
           IN  /\ DOMAIN p = DOMAIN vs
               /\ \A f \in DOMAIN vs :
                     /\ p[f].version = vs[f].version
                     /\ p[f].processed = vs[f].processed
                     /\ p[f].isBP <=> IF f \in Good(fs, program) THEN program[f] \in Classes
                                      ELSE vs[f].isBP
<1> SUFFICES ASSUME NEW f \in DOMAIN vs
             PROVE  LET p == Marked(fs, vs, program)
                    IN  /\ p[f].version = vs[f].version
                        /\ p[f].processed = vs[f].processed
                        /\ p[f].isBP <=> IF f \in Good(fs, program) THEN program[f] \in Classes
                                         ELSE vs[f].isBP
  BY DEF Marked
<1>1. vs[f] \in Record
  BY DEF Versions
<1>2. CASE f \in Good(fs, program)
  <2>1. Marked(fs, vs, program)[f] = [vs[f] EXCEPT !.isBP = program[f] \in Classes]
    BY <1>2 DEF Marked
  <2> DEFINE b == program[f] \in Classes
  <2>2. Marked(fs, vs, program)[f] = [vs[f] EXCEPT !.isBP = b] /\ b \in BOOLEAN
    BY <2>1
  <2> HIDE DEF b
  <2>3. /\ Marked(fs, vs, program)[f].version = vs[f].version
        /\ Marked(fs, vs, program)[f].processed = vs[f].processed
        /\ Marked(fs, vs, program)[f].isBP = b
    BY <1>1, <2>2 DEF Record
  <2> QED
    BY <1>2, <2>3 DEF b
<1>3. CASE f \notin Good(fs, program)
  BY <1>3 DEF Marked
<1> QED
  BY <1>2, <1>3

LEMMA BothMarks ==
    ASSUME NEW vs, Versions(vs), NEW fs, NEW program
    PROVE  LET p == Marked(fs, Processed(fs, vs, program), program)
           IN  /\ DOMAIN p = DOMAIN vs
               /\ \A f \in DOMAIN vs :
                     /\ p[f].version = vs[f].version
                     /\ p[f].processed <=> f \in Good(fs, program) \/ vs[f].processed
                     /\ p[f].isBP <=> IF f \in Good(fs, program) THEN program[f] \in Classes
                                      ELSE vs[f].isBP
<1> DEFINE q == Processed(fs, vs, program)
<1>1. Versions(q)
  BY ProcessedKeeps
<1>2. /\ DOMAIN q = DOMAIN vs
      /\ \A f \in DOMAIN vs :
            /\ q[f].version = vs[f].version
            /\ q[f].processed <=> f \in Good(fs, program) \/ vs[f].processed
            /\ q[f].isBP = vs[f].isBP
  BY ProcessedMarks
<1> HIDE DEF q
<1>3. LET p == Marked(fs, q, program)
      IN  /\ DOMAIN p = DOMAIN q
          /\ \A f \in DOMAIN q :
                /\ p[f].version = q[f].version
                /\ p[f].processed = q[f].processed
                /\ p[f].isBP <=> IF f \in Good(fs, program) THEN program[f] \in Classes
                                 ELSE q[f].isBP
  BY <1>1, MarkedMarks
<1>4. LET p == Marked(fs, q, program)
      IN  /\ DOMAIN p = DOMAIN vs
          /\ \A f \in DOMAIN vs :
                /\ p[f].version = vs[f].version
                /\ p[f].processed <=> f \in Good(fs, program) \/ vs[f].processed
                /\ p[f].isBP <=> IF f \in Good(fs, program) THEN program[f] \in Classes
                                 ELSE vs[f].isBP
  BY <1>2, <1>3
<1> QED
  BY <1>4 DEF q

\* What an analysis without diagnostics reads is the program, and nothing of it is
\* missing.
LEMMA AnalysisIsWhole ==
    ASSUME TypeOK, DOMAIN cache = {}, fileNames \subseteq DOMAIN versions,
           Analyze, mode' = "emit"
    PROVE  /\ \A f \in fileNames :
                 /\ f \in DOMAIN cache'
                 /\ cache'[f].version = versions[f].version
                 /\ ~Diagnosed(Analyzed', f)
<1> DEFINE program == Program(versions, fileNames)
           read == Reached(versions, fileNames) \cap OnDisk
<1>1. /\ \A f \in DOMAIN program : program[f] # Absent /\ ~Diagnosed(program, f)
      /\ cache' = Cached(versions, fileNames)
  BY DEF Analyze
<1>2. /\ DOMAIN cache' = read
      /\ \A f \in read : cache'[f] = [version |-> Version(versions, f), text |-> Snapshot(versions, f)]
  BY <1>1 DEF Cached
<1>3. /\ DOMAIN program = Reached(versions, fileNames)
      /\ \A f \in DOMAIN program : program[f] = Snapshot(versions, f)
  BY DEF Program
<1>4. \A f \in Files : disk[f] = Absent => Snapshot(versions, f) = Absent
  BY DEF Snapshot
<1>5. Reached(versions, fileNames) \subseteq Files
  BY DEF Reached
<1>6. read = DOMAIN program
  BY <1>1, <1>3, <1>4, <1>5 DEF OnDisk
<1>7. Analyzed' = [f \in DOMAIN cache' |-> cache'[f].text]
  BY DEF Analyzed
<1>8. Analyzed' = program
  <2>1. \A f \in read : cache'[f].text = program[f]
    BY <1>2, <1>3, <1>6
  <2>2. program = [f \in Reached(versions, fileNames) |-> Snapshot(versions, f)]
    BY DEF Program
  <2> HIDE DEF program, read
  <2>3. program = [f \in read |-> program[f]]
    BY <1>3, <1>6, <2>2
  <2> QED
    BY <1>2, <1>7, <2>1, <2>3
<1>9. fileNames \subseteq Reached(versions, fileNames)
  BY DEF Reached, TypeOK
<1> HIDE DEF program, read
<1> QED
  BY <1>1, <1>2, <1>3, <1>6, <1>8, <1>9 DEF Version

\* A step that is not one of a start.
LEMMA NotStarting ==
    ASSUME mode' \in {"off", "dead", "register", "watching", "handle"},
           mode' = "off" => DOMAIN cache' = {},
           DOMAIN jobs' \subseteq DOMAIN versions',
           mode' \in {"off", "register", "watching"} => DOMAIN jobs' = {},
           mode' \in {"watching", "handle"} => watcher'
    PROVE  StartInv'
  BY DEF StartInv, Hashed, Analysis, JobsOfTheRecorded, MarkedAsBefore, EmittedIsDone,
         TreatedIsDone, StartedIsWatched, Awaits, Emitted, Treated

\* What a start knows is not of the sources, but of what was read of them.
LEMMA StartUnmoved ==
    ASSUME StartInv, UNCHANGED <<mode, fileNames, versions, cache, jobs, changed, todo, saved,
                                 bps, refused, watcher>>
    PROVE  StartInv'
  BY DEF StartInv, Hashed, Analysis, JobsOfTheRecorded, MarkedAsBefore, EmittedIsDone,
         TreatedIsDone, StartedIsWatched, Awaits, Emitted, Treated, UpToDate, Analyzed, Diagnosed

\* What the step of a start that emits JavaScript does to the records.
LEMMA EmittedMarks ==
    ASSUME TypeOK, StartInv, NEW f \in Files, EmitJs(f)
    PROVE  /\ mode = "emit" /\ f \in fileNames /\ todo' = todo \ {f}
           /\ f \in DOMAIN versions /\ f \in DOMAIN cache
           /\ changed' = (changed \/ ~UpToDate(f))
           /\ UNCHANGED <<mode, fileNames, cache, jobs, saved, bps, refused, watcher, disk, undone>>
           /\ DOMAIN versions' = DOMAIN versions
           /\ \A g \in DOMAIN versions : versions'[g].version = versions[g].version
           /\ \A g \in DOMAIN versions \ {f} :
                 /\ versions'[g].processed <=> versions[g].processed
                 /\ versions'[g].isBP = versions[g].isBP
           /\ versions'[f].processed
           /\ versions'[f].isBP = IF f \in DOMAIN saved.map THEN saved.map[f].isBP
                                  ELSE versions[f].isBP
           /\ UpToDate(f) => UNCHANGED <<js, failed>>
           /\ ~UpToDate(f) => /\ js' = [g \in Files |-> IF g = f THEN Analyzed[f] ELSE js[g]]
                              /\ failed' = failed \ {f}
<1> DEFINE vs == [versions EXCEPT ![f].processed = @ \/ UpToDate(f),
                                  ![f].isBP = IF f \in DOMAIN saved.map
                                              THEN saved.map[f].isBP ELSE @]
           fs == IF UpToDate(f) THEN {} ELSE {f}
<1>1. /\ mode = "emit" /\ f \in todo /\ todo' = todo \ {f}
      /\ versions' = Processed(fs, vs, Analyzed)
      /\ changed' = (changed \/ ~UpToDate(f))
      /\ UNCHANGED <<mode, fileNames, cache, jobs, saved, bps, refused, watcher, disk, undone>>
  BY DEF EmitJs
<1>2. f \in fileNames /\ f \in DOMAIN versions /\ f \in DOMAIN cache /\ ~Diagnosed(Analyzed, f)
  BY <1>1 DEF StartInv, Analysis
<1>3. /\ DOMAIN vs = DOMAIN versions
      /\ \A g \in DOMAIN versions \ {f} : vs[g] = versions[g]
      /\ vs[f].version = versions[f].version
      /\ vs[f].processed <=> versions[f].processed \/ UpToDate(f)
      /\ vs[f].isBP = IF f \in DOMAIN saved.map THEN saved.map[f].isBP ELSE versions[f].isBP
      /\ Versions(vs)
  <2>1. versions[f] \in Record /\ (f \in DOMAIN saved.map => saved.map[f].isBP \in BOOLEAN)
    BY <1>2 DEF TypeOK, Versions, Record
  <2>2. PICK p \in BOOLEAN : p <=> versions[f].processed \/ UpToDate(f)
    OBVIOUS
  <2>3. PICK b \in BOOLEAN :
           b = IF f \in DOMAIN saved.map THEN saved.map[f].isBP ELSE versions[f].isBP
    BY <2>1 DEF Record
  <2>4. vs = [versions EXCEPT ![f] = [[@ EXCEPT !.processed = p] EXCEPT !.isBP = b]]
    BY <2>2, <2>3
  <2> HIDE DEF vs
  <2>5. /\ DOMAIN vs = DOMAIN versions /\ \A g \in DOMAIN versions \ {f} : vs[g] = versions[g]
        /\ vs[f] = [version |-> versions[f].version, processed |-> p, isBP |-> b]
    BY <1>2, <2>1, <2>4 DEF Record
  <2>6. vs[f] \in Record
    BY <2>1, <2>5 DEF Record
  <2>7. Versions(vs)
    BY <2>5, <2>6 DEF TypeOK, Versions
  <2> QED
    BY <2>2, <2>3, <2>5, <2>7
<1>5. UpToDate(f) \/ f \in Good(fs, Analyzed)
  <2>1. f \in DOMAIN Analyzed /\ Analyzed[f] # Absent
    BY <1>2, SourceAssumption DEF Analyzed, TypeOK
  <2> QED
    BY <1>2, <2>1 DEF Good
<1>6. Good(fs, Analyzed) \subseteq {f}
  BY DEF Good
<1> HIDE DEF vs, fs
<1>7. /\ DOMAIN versions' = DOMAIN versions
      /\ \A g \in DOMAIN versions : versions'[g].version = versions[g].version
      /\ \A g \in DOMAIN versions \ {f} :
            /\ versions'[g].processed <=> versions[g].processed
            /\ versions'[g].isBP = versions[g].isBP
      /\ versions'[f].processed
      /\ versions'[f].isBP = IF f \in DOMAIN saved.map THEN saved.map[f].isBP
                             ELSE versions[f].isBP
  BY <1>1, <1>2, <1>3, <1>5, <1>6, ProcessedMarks
<1>8. EmitJavaScript(fs, Analyzed)
  BY DEF EmitJs, fs
<1>9. /\ UpToDate(f) => fs = {} /\ Good(fs, Analyzed) = {}
      /\ ~UpToDate(f) => fs = {f} /\ Good(fs, Analyzed) = {f}
  BY <1>5, <1>6 DEF fs, Good
<1>10. UpToDate(f) => UNCHANGED <<js, failed>>
  BY <1>8, <1>9 DEF EmitJavaScript, TypeOK
<1>11. ~UpToDate(f) => /\ js' = [g \in Files |-> IF g = f THEN Analyzed[f] ELSE js[g]]
                       /\ failed' = failed \ {f}
  BY <1>8, <1>9 DEF EmitJavaScript
<1> QED
  BY <1>1, <1>2, <1>7, <1>10, <1>11

LEMMA StartEmits ==
    ASSUME TypeOK, StartInv, NEW f \in Files, EmitJs(f)
    PROVE  StartInv'
<1>1. /\ mode = "emit" /\ f \in todo /\ todo' = todo \ {f}
      /\ changed' = (changed \/ ~UpToDate(f))
      /\ UNCHANGED <<mode, fileNames, cache, jobs, saved, bps, refused, watcher>>
  BY DEF EmitJs
<1>2. f \in fileNames /\ f \in DOMAIN versions /\ f \in DOMAIN cache
  BY EmittedMarks
<1>3. /\ DOMAIN versions' = DOMAIN versions
      /\ \A g \in DOMAIN versions : versions'[g].version = versions[g].version
      /\ \A g \in DOMAIN versions \ {f} :
            /\ versions'[g].processed <=> versions[g].processed
            /\ versions'[g].isBP = versions[g].isBP
      /\ versions'[f].processed
      /\ versions'[f].isBP = IF f \in DOMAIN saved.map THEN saved.map[f].isBP
                             ELSE versions[f].isBP
  BY EmittedMarks
<1>4. Analyzed' = Analyzed
  BY <1>1 DEF Analyzed
<1>5. \A g \in DOMAIN versions : UpToDate(g)' <=> UpToDate(g)
  BY <1>1, <1>3 DEF UpToDate
<1>6. Hashed' /\ JobsOfTheRecorded' /\ StartedIsWatched'
  BY <1>1, <1>3 DEF StartInv, Hashed, JobsOfTheRecorded, StartedIsWatched
<1>7. Analysis'
  BY <1>1, <1>3, <1>4 DEF StartInv, Analysis, Diagnosed
<1>8. MarkedAsBefore'
  <2> SUFFICES ASSUME NEW g \in Files, Awaits(g)', versions'[g].isBP
               PROVE  g \in DOMAIN saved.map /\ saved.map[g].isBP
    BY <1>1 DEF MarkedAsBefore
  <2>1. g \in fileNames /\ g \in DOMAIN versions /\ Awaits(g)
    BY <1>1 DEF Awaits, StartInv, Analysis
  <2>2. versions[g].isBP => g \in DOMAIN saved.map /\ saved.map[g].isBP
    BY <2>1 DEF StartInv, MarkedAsBefore
  <2> QED
    BY <1>3, <2>1, <2>2
<1>9. EmittedIsDone'
  <2> SUFFICES ASSUME NEW g \in Files, Emitted(g)' \/ Treated(g)'
               PROVE  /\ g \in DOMAIN versions' /\ versions'[g].processed
                      /\ ~changed' => UpToDate(g)'
    BY DEF EmittedIsDone
  <2>1. g \in fileNames /\ (g = f \/ Emitted(g))
    BY <1>1 DEF Emitted, Treated
  <2>2. CASE g = f
    BY <1>1, <1>2, <1>3, <1>5, <2>2
  <2>3. CASE g # f
    BY <1>1, <1>3, <1>5, <2>1, <2>3 DEF StartInv, EmittedIsDone
  <2> QED
    BY <2>2, <2>3
<1>10. TreatedIsDone'
  BY <1>1 DEF TreatedIsDone, Treated
<1> QED
  BY <1>6, <1>7, <1>8, <1>9, <1>10 DEF StartInv

\* What the step of a start that queues a blueprint does to the records.
LEMMA QueuedMarks ==
    ASSUME TypeOK, StartInv, NEW f \in Files, QueueBlueprint(f)
    PROVE  /\ mode = "queue" /\ f \in fileNames /\ f \in todo /\ todo' = todo \ {f}
           /\ f \in DOMAIN versions /\ f \in DOMAIN cache
           /\ changed' = (changed \/ WantsBlueprint(f))
           /\ UNCHANGED <<mode, fileNames, cache, saved, bps, refused, watcher, disk, undone, js,
                          failed>>
           /\ DOMAIN versions' = DOMAIN versions
           /\ \A g \in DOMAIN versions : versions'[g].version = versions[g].version
           /\ \A g \in DOMAIN versions \ {f} :
                 /\ versions'[g].processed <=> versions[g].processed
                 /\ versions'[g].isBP <=> versions[g].isBP
           /\ versions'[f].processed <=> WantsBlueprint(f) \/ versions[f].processed
           /\ versions'[f].isBP <=> IF WantsBlueprint(f) THEN Analyzed[f] \in Classes
                                    ELSE versions[f].isBP
           /\ IF WantsBlueprint(f) /\ Analyzed[f] \in Classes
              THEN /\ DOMAIN jobs' = DOMAIN jobs \cup {f}
                   /\ \A g \in DOMAIN jobs' : jobs'[g] = IF g = f THEN Analyzed[f] ELSE jobs[g]
              ELSE DOMAIN jobs' = DOMAIN jobs /\ \A g \in DOMAIN jobs : jobs'[g] = jobs[g]
<1> DEFINE fs == IF WantsBlueprint(f) THEN {f} ELSE {}
<1>1. /\ mode = "queue" /\ f \in todo /\ todo' = todo \ {f}
      /\ versions' = Marked(fs, Processed(fs, versions, Analyzed), Analyzed)
      /\ jobs' = Queued(fs, Analyzed)
      /\ changed' = (changed \/ WantsBlueprint(f))
      /\ UNCHANGED <<mode, fileNames, cache, saved, bps, refused, watcher, disk, undone, js,
                     failed>>
  BY DEF QueueBlueprint
<1>2. f \in fileNames /\ f \in DOMAIN versions /\ f \in DOMAIN cache /\ ~Diagnosed(Analyzed, f)
  BY <1>1 DEF StartInv, Analysis
<1>3. IF WantsBlueprint(f) THEN Good(fs, Analyzed) = {f} ELSE Good(fs, Analyzed) = {}
  <2>1. f \in DOMAIN Analyzed /\ Analyzed[f] # Absent
    BY <1>2, SourceAssumption DEF Analyzed, TypeOK
  <2> QED
    BY <1>2, <2>1 DEF Good
<1>4. IF WantsBlueprint(f) /\ Analyzed[f] \in Classes
      THEN /\ DOMAIN jobs' = DOMAIN jobs \cup {f}
           /\ \A g \in DOMAIN jobs' : jobs'[g] = IF g = f THEN Analyzed[f] ELSE jobs[g]
      ELSE DOMAIN jobs' = DOMAIN jobs /\ \A g \in DOMAIN jobs : jobs'[g] = jobs[g]
  BY <1>1, <1>3 DEF Queued
<1> HIDE DEF fs
<1>5. /\ DOMAIN versions' = DOMAIN versions
      /\ \A g \in DOMAIN versions :
            /\ versions'[g].version = versions[g].version
            /\ versions'[g].processed <=> g \in Good(fs, Analyzed) \/ versions[g].processed
            /\ versions'[g].isBP <=> IF g \in Good(fs, Analyzed) THEN Analyzed[g] \in Classes
                                     ELSE versions[g].isBP
  BY <1>1, BothMarks DEF TypeOK
<1>6. /\ \A g \in DOMAIN versions \ {f} :
            /\ versions'[g].processed <=> versions[g].processed
            /\ versions'[g].isBP <=> versions[g].isBP
      /\ versions'[f].processed <=> WantsBlueprint(f) \/ versions[f].processed
      /\ versions'[f].isBP <=> IF WantsBlueprint(f) THEN Analyzed[f] \in Classes
                               ELSE versions[f].isBP
  BY <1>2, <1>3, <1>5
<1> QED
  BY <1>1, <1>2, <1>4, <1>5, <1>6

LEMMA StartQueues ==
    ASSUME TypeOK, StartInv, NEW f \in Files, QueueBlueprint(f)
    PROVE  StartInv'
<1>1. /\ mode = "queue" /\ f \in todo /\ todo' = todo \ {f} /\ f \in fileNames
      /\ f \in DOMAIN versions /\ f \in DOMAIN cache
      /\ changed' = (changed \/ WantsBlueprint(f))
      /\ UNCHANGED <<mode, fileNames, cache, saved, bps, refused, watcher>>
  BY QueuedMarks
<1>2. /\ DOMAIN versions' = DOMAIN versions
      /\ \A g \in DOMAIN versions : versions'[g].version = versions[g].version
      /\ \A g \in DOMAIN versions \ {f} :
            /\ versions'[g].processed <=> versions[g].processed
            /\ versions'[g].isBP <=> versions[g].isBP
      /\ versions'[f].processed <=> WantsBlueprint(f) \/ versions[f].processed
      /\ versions'[f].isBP <=> IF WantsBlueprint(f) THEN Analyzed[f] \in Classes
                               ELSE versions[f].isBP
  BY QueuedMarks
<1>3. /\ DOMAIN jobs \subseteq DOMAIN jobs' /\ DOMAIN jobs' \subseteq DOMAIN jobs \cup {f}
      /\ WantsBlueprint(f) /\ Analyzed[f] \in Classes => f \in DOMAIN jobs'
  BY QueuedMarks
<1>4. Analyzed' = Analyzed
  BY <1>1 DEF Analyzed
<1>5. \A g \in DOMAIN versions : UpToDate(g)' <=> UpToDate(g)
  BY <1>1, <1>2 DEF UpToDate
<1>6. Hashed' /\ JobsOfTheRecorded' /\ StartedIsWatched'
  BY <1>1, <1>2, <1>3 DEF StartInv, Hashed, JobsOfTheRecorded, StartedIsWatched
<1>7. Analysis'
  BY <1>1, <1>2, <1>4 DEF StartInv, Analysis, Diagnosed
<1>8. MarkedAsBefore'
  <2> SUFFICES ASSUME NEW g \in Files, Awaits(g)', versions'[g].isBP
               PROVE  g \in DOMAIN saved.map /\ saved.map[g].isBP
    BY <1>1 DEF MarkedAsBefore
  <2>1. g \in fileNames /\ g \in DOMAIN versions /\ Awaits(g) /\ g # f
    BY <1>1 DEF Awaits, StartInv, Analysis
  <2> QED
    BY <1>2, <2>1 DEF StartInv, MarkedAsBefore
<1>9. EmittedIsDone'
  <2> SUFFICES ASSUME NEW g \in Files, Emitted(g)' \/ Treated(g)'
               PROVE  /\ g \in DOMAIN versions' /\ versions'[g].processed
                      /\ ~changed' => UpToDate(g)'
    BY DEF EmittedIsDone
  <2>1. Emitted(g)
    BY <1>1 DEF Emitted, Treated
  <2> QED
    BY <1>1, <1>2, <1>5, <2>1 DEF StartInv, EmittedIsDone
<1>10. TreatedIsDone'
  <2> SUFFICES ASSUME NEW g \in Files, Treated(g)'
               PROVE  /\ ~changed' /\ saved.map[g].isBP => bps[g] # Absent
                      /\ versions'[g].isBP /\ g \notin refused => g \in DOMAIN jobs' \/ bps[g] # Absent
    BY <1>1 DEF TreatedIsDone
  <2>1. g \in fileNames /\ g \in DOMAIN versions /\ Emitted(g) /\ (g = f \/ Treated(g))
    BY <1>1 DEF Emitted, Treated, StartInv, Analysis
  <2>2. CASE g = f /\ WantsBlueprint(f)
    BY <1>1, <1>2, <1>3, <2>2
  <2>3. CASE g = f /\ ~WantsBlueprint(f)
    <3>1. versions[f].isBP => f \in DOMAIN saved.map /\ saved.map[f].isBP
      BY <1>1 DEF StartInv, MarkedAsBefore, Awaits
    <3>2. ~changed => UpToDate(f)
      BY <2>1, <2>3 DEF StartInv, EmittedIsDone
    <3> QED
      BY <1>1, <1>2, <2>3, <3>1, <3>2 DEF WantsBlueprint, UpToDate
  <2>4. CASE g # f
    BY <1>1, <1>2, <1>3, <2>1, <2>4 DEF StartInv, TreatedIsDone
  <2> QED
    BY <2>1, <2>2, <2>3, <2>4
<1> QED
  BY <1>6, <1>7, <1>8, <1>9, <1>10 DEF StartInv

LEMMA StartRefreshes ==
    ASSUME TypeOK, StartInv, NEW playing \in BOOLEAN, RefreshBlueprints(playing)
    PROVE  StartInv'
<1> DEFINE changing == {f \in DOMAIN jobs : bps[f] # jobs[f]}
<1>1. /\ mode = "refresh" /\ mode' = "save"
      /\ bps' = [f \in Files |-> IF f \in changing /\ ~playing THEN jobs[f] ELSE bps[f]]
      /\ refused' = IF playing THEN refused \cup changing ELSE refused \ DOMAIN jobs
      /\ jobs' = Nothing
      /\ UNCHANGED <<saved, fileNames, versions, cache, changed, todo, watcher>>
  BY DEF RefreshBlueprints, Rebuild
<1>2. DOMAIN jobs' = {}
  BY <1>1 DEF Nothing
<1>3. DOMAIN jobs \subseteq Files /\ \A f \in DOMAIN jobs : jobs[f] # Absent
  BY SourceAssumption DEF TypeOK
<1>4. Hashed' /\ Analysis' /\ JobsOfTheRecorded' /\ StartedIsWatched' /\ MarkedAsBefore'
  BY <1>1, <1>2 DEF Hashed, Analysis, JobsOfTheRecorded, StartedIsWatched, MarkedAsBefore, Awaits
<1>5. ASSUME NEW f \in Files, Emitted(f)' \/ Treated(f)'
      PROVE  Treated(f)
  BY <1>1, <1>5 DEF Emitted, Treated
<1>6. EmittedIsDone'
  BY <1>1, <1>5 DEF StartInv, EmittedIsDone, UpToDate
<1>7. TreatedIsDone'
  <2> SUFFICES ASSUME NEW f \in Files, Treated(f)'
               PROVE  /\ ~changed /\ saved.map[f].isBP => bps'[f] # Absent
                      /\ versions[f].isBP /\ f \notin refused' => bps'[f] # Absent
    BY <1>1 DEF TreatedIsDone
  <2>1. bps[f] # Absent => bps'[f] # Absent
    BY <1>1, <1>3
  <2>2. f \in DOMAIN jobs /\ f \notin refused' => bps'[f] # Absent
    BY <1>1, <1>3
  <2>3. f \notin DOMAIN jobs /\ f \notin refused' => f \notin refused
    BY <1>1
  <2> QED
    BY <1>5, <2>1, <2>2, <2>3 DEF StartInv, TreatedIsDone
<1> QED
  BY <1>4, <1>6, <1>7 DEF StartInv

\* The first analysis of a start, and what was recorded of the sources before it.
LEMMA StartAnalyzes ==
    ASSUME TypeOK, StartInv, Analyze
    PROVE  StartInv'
<1>1. /\ mode = "hashed" /\ UNCHANGED <<fileNames, jobs, saved, bps, refused, watcher>>
      /\ mode' \in {"register", "emit"}
  BY DEF Analyze
<1>2. /\ DOMAIN cache = {} /\ DOMAIN jobs = {} /\ fileNames \subseteq DOMAIN versions
      /\ \A f \in DOMAIN versions : ~versions[f].processed /\ ~versions[f].isBP
  BY <1>1 DEF StartInv, Hashed, JobsOfTheRecorded
<1>3. CASE mode' = "register"
  BY <1>1, <1>2, <1>3, NotStarting
<1>4. CASE mode' = "emit"
  <2>1. \A f \in fileNames :
           /\ f \in DOMAIN cache' /\ cache'[f].version = versions[f].version
           /\ ~Diagnosed(Analyzed', f)
    BY <1>2, <1>4, AnalysisIsWhole
  <2>2. versions' = Registered(versions, fileNames) /\ todo' = fileNames
    BY <1>4 DEF Analyze
  <2>3. \A f \in DOMAIN versions : f \in DOMAIN versions' /\ versions'[f] = versions[f]
    BY <2>2, RegisteredKeeps DEF TypeOK
  <2>4. Analysis'
    BY <1>1, <1>2, <2>1, <2>2, <2>3 DEF Analysis, Diagnosed
  <2>5. MarkedAsBefore'
    BY <1>1, <1>2, <2>3 DEF MarkedAsBefore, Awaits
  <2>6. EmittedIsDone' /\ TreatedIsDone'
    BY <1>1, <1>4, <2>2 DEF EmittedIsDone, TreatedIsDone, Emitted, Treated
  <2>7. Hashed' /\ JobsOfTheRecorded' /\ StartedIsWatched'
    BY <1>1, <1>2, <1>4 DEF Hashed, JobsOfTheRecorded, StartedIsWatched
  <2> QED
    BY <2>4, <2>5, <2>6, <2>7 DEF StartInv
<1> QED
  BY <1>1, <1>3, <1>4

\* What compiling in the watch leaves recorded.
LEMMA CompilingKeepsRecords ==
    ASSUME disk \in [Files -> Text], NEW vs, Versions(vs), NEW roots, NEW fs, NEW program,
           Compile(fs, Registered(vs, roots), program)
    PROVE  DOMAIN vs \subseteq DOMAIN versions'
<1> DEFINE r == Registered(vs, roots)
<1>1. Versions(r) /\ DOMAIN vs \subseteq DOMAIN r
  BY RegisteredKeeps
<1>2. Compile(fs, r, program)
  OBVIOUS
<1> HIDE DEF r
<1> QED
  BY <1>1, <1>2, CompileKeeps

LEMMA StartCorrect == Spec => []StartInv
<1> USE SourceAssumption
<1>1. Init => StartInv
  BY DEF Init, Nothing, StartInv, Hashed, Analysis, JobsOfTheRecorded, MarkedAsBefore,
         EmittedIsDone, TreatedIsDone, StartedIsWatched, Awaits, Emitted, Treated
<1>2. TypeOK /\ StartInv /\ [Next]_vars => StartInv'
  <2> SUFFICES ASSUME TypeOK, StartInv, [Next]_vars PROVE StartInv'
    OBVIOUS
  <2>0. /\ disk \in [Files -> Text] /\ Versions(versions) /\ DOMAIN jobs \subseteq DOMAIN versions
        /\ mode \notin {"queue", "refresh", "handle", "dead"} => DOMAIN jobs = {}
        /\ mode \in {"watching", "handle"} => watcher
        /\ DOMAIN Nothing = {}
    BY DEF TypeOK, StartInv, JobsOfTheRecorded, StartedIsWatched, Nothing
  <2>1. CASE Start
    <3>1. /\ mode = "off" /\ mode' = "hashed" /\ fileNames' = OnDisk
          /\ versions' = [f \in OnDisk |-> Fresh(disk[f])] /\ UNCHANGED <<cache, jobs>>
      BY <2>1 DEF Start
    <3>2. DOMAIN cache = {} /\ DOMAIN jobs = {}
      BY <2>0, <3>1 DEF StartInv, Hashed
    <3>3. Hashed' /\ JobsOfTheRecorded'
      BY <3>1, <3>2 DEF Hashed, JobsOfTheRecorded, Fresh
    <3> QED
      BY <3>1, <3>3 DEF StartInv, Analysis, MarkedAsBefore, EmittedIsDone, TreatedIsDone,
                        StartedIsWatched, Awaits, Emitted, Treated
  <2>2. CASE Analyze
    BY <2>2, StartAnalyzes
  <2>3. ASSUME NEW f \in Files, EmitJs(f) PROVE StartInv'
    BY <2>3, StartEmits
  <2>4. CASE EmitDone
    <3>1. /\ mode = "emit" /\ mode' = "queue" /\ todo = {} /\ todo' = fileNames
          /\ UNCHANGED <<fileNames, versions, cache, jobs, changed, saved, bps, refused, watcher>>
      BY <2>4 DEF EmitDone
    <3>2. Hashed' /\ Analysis' /\ JobsOfTheRecorded' /\ StartedIsWatched'
      BY <3>1 DEF StartInv, Hashed, Analysis, JobsOfTheRecorded, StartedIsWatched, Analyzed,
                  Diagnosed
    <3>3. MarkedAsBefore'
      BY <3>1 DEF StartInv, MarkedAsBefore, Awaits
    <3>4. EmittedIsDone' /\ TreatedIsDone'
      BY <3>1 DEF StartInv, EmittedIsDone, TreatedIsDone, Emitted, Treated, UpToDate
    <3> QED
      BY <3>2, <3>3, <3>4 DEF StartInv
  <2>5. ASSUME NEW f \in Files, QueueBlueprint(f) PROVE StartInv'
    BY <2>5, StartQueues
  <2>6. ASSUME NEW f \in Files, Throw(f) PROVE StartInv'
    BY <2>0, <2>6, NotStarting DEF Throw
  <2>7. CASE QueueDone
    <3>1. /\ mode \in {"queue", "handle"} /\ mode' = "refresh" /\ todo = {}
          /\ UNCHANGED <<fileNames, versions, cache, jobs, changed, saved, bps, refused, watcher,
                         todo>>
      BY <2>7 DEF QueueDone
    <3>2. Hashed' /\ Analysis' /\ JobsOfTheRecorded' /\ StartedIsWatched' /\ MarkedAsBefore'
      BY <2>0, <3>1 DEF StartInv, Hashed, Analysis, JobsOfTheRecorded, StartedIsWatched,
                        MarkedAsBefore, Awaits
    <3>3. \A f \in Files : Emitted(f)' \/ Treated(f)' => Treated(f)
      BY <2>0, <3>1 DEF Emitted, Treated
    <3>4. EmittedIsDone' /\ TreatedIsDone'
      <4>1. \A f : UpToDate(f)' <=> UpToDate(f)
        BY <3>1 DEF UpToDate
      <4>2. EmittedIsDone'
        BY <3>1, <3>3, <4>1 DEF StartInv, EmittedIsDone
      <4>3. TreatedIsDone'
        BY <3>1, <3>3 DEF StartInv, TreatedIsDone
      <4> QED
        BY <4>2, <4>3
    <3> QED
      BY <3>2, <3>4 DEF StartInv
  <2>8. ASSUME NEW playing \in BOOLEAN, RefreshBlueprints(playing) PROVE StartInv'
    BY <2>8, StartRefreshes
  <2>9. CASE SaveVersions
    BY <2>0, <2>9, NotStarting DEF SaveVersions
  <2>10. CASE Watch
    BY <2>0, <2>10, NotStarting DEF Watch
  <2>11. CASE OnChanged
    BY <2>0, <2>11, NotStarting DEF OnChanged
  <2>12. CASE TimerFires
    <3> DEFINE of(what) == {f \in Files : <<what, f>> \in Head(timers)}
               addFiles == of("added") \ of("removed")
               newFiles == IF addFiles = {} THEN {} ELSE OnDisk \ DOMAIN versions
               vs == [f \in DOMAIN versions \cup newFiles |->
                         IF f \in newFiles THEN Fresh(disk[f]) ELSE versions[f]]
    <3>1. mode = "watching" /\ mode' = "handle" /\ watcher' = watcher
      BY <2>12 DEF TimerFires
    <3>2. CASE newFiles = {}
      BY <2>0, <2>12, <3>1, <3>2, NotStarting DEF TimerFires
    <3>3. CASE newFiles # {}
      <4>1. /\ Compile(newFiles, Registered(vs, OnDisk), Program(vs, OnDisk))
            /\ jobs' = Queued(newFiles, Program(vs, OnDisk))
        BY <2>12, <3>3 DEF TimerFires
      <4>2. \A f \in OnDisk : f \in Files /\ Fresh(disk[f]) \in Record
        BY <2>0 DEF OnDisk, Fresh, Record
      <4>3. Versions(vs) /\ DOMAIN vs = DOMAIN versions \cup newFiles
        BY <2>0, <4>2 DEF Versions
      <4> HIDE DEF vs, newFiles
      <4>4. DOMAIN vs \subseteq DOMAIN versions'
        BY <2>0, <4>1, <4>3, CompilingKeepsRecords
      <4>5. DOMAIN jobs' \subseteq DOMAIN jobs \cup newFiles
        BY <4>1 DEF Queued, Good
      <4> QED
        BY <2>0, <3>1, <4>3, <4>4, <4>5, NotStarting
    <3> QED
      BY <3>2, <3>3
  <2>13. ASSUME NEW f \in Files, HandleModified(f) PROVE StartInv'
    <3> DEFINE vs == [versions EXCEPT ![f].version = disk[f]]
    <3>1. mode = "handle" /\ mode' = mode /\ watcher' = watcher
      BY <2>13 DEF HandleModified
    <3>2. CASE f \in DOMAIN versions /\ versions[f].version # disk[f]
      <4>1. /\ Compile({f}, Registered(vs, fileNames), Program(vs, fileNames))
            /\ jobs' = Queued({f}, Program(vs, fileNames))
        BY <2>13, <3>2 DEF HandleModified
      <4>2. Versions(vs) /\ DOMAIN vs = DOMAIN versions
        BY <2>0 DEF Versions, Record
      <4> HIDE DEF vs
      <4>3. DOMAIN vs \subseteq DOMAIN versions'
        BY <2>0, <4>1, <4>2, CompilingKeepsRecords
      <4>4. DOMAIN jobs' \subseteq DOMAIN jobs \cup {f}
        BY <4>1 DEF Queued, Good
      <4> QED
        BY <2>0, <3>1, <3>2, <4>2, <4>3, <4>4, NotStarting
    <3>3. CASE ~(f \in DOMAIN versions /\ versions[f].version # disk[f])
      BY <2>0, <2>13, <3>1, <3>3, NotStarting DEF HandleModified
    <3> QED
      BY <3>2, <3>3
  <2>14. ASSUME NEW id \in Text, NEW playing \in BOOLEAN, CompileCommand(id, playing)
         PROVE  StartInv'
    <3> DEFINE fs == {f \in DOMAIN versions : versions[f].version = id}
    <3>1. /\ Compile(fs, Registered(versions, fileNames), Program(versions, fileNames))
          /\ mode = "watching" /\ UNCHANGED <<mode, jobs, watcher>>
      BY <2>14 DEF CompileCommand
    <3> HIDE DEF fs
    <3>2. DOMAIN versions \subseteq DOMAIN versions'
      BY <2>0, <3>1, CompilingKeepsRecords
    <3> QED
      BY <2>0, <3>1, <3>2, NotStarting
  <2>15. ASSUME NEW f \in Files, NEW c \in Text, Edit(f, c) PROVE StartInv'
    BY <2>15, StartUnmoved DEF Edit
  <2>16. CASE End
    <3>1. mode' = "off" /\ cache' = Nothing /\ jobs' = Nothing
      BY <2>16 DEF End
    <3> HIDE DEF Nothing
    <3> QED
      BY <2>0, <3>1, NotStarting
  <2>17. CASE UNCHANGED vars
    BY <2>17, StartUnmoved DEF vars
  <2> QED
    BY <2>1, <2>2, <2>3, <2>4, <2>5, <2>6, <2>7, <2>8, <2>9, <2>10, <2>11, <2>12, <2>13,
       <2>14, <2>15, <2>16, <2>17 DEF Next, Step
<1> QED
  BY <1>1, <1>2, TypeCorrect, PTL DEF Spec

\* A start that found no diagnostics leaves a record that vouches for every root as
\* this session read it: the next start, nothing being edited, has nothing to emit
\* and nothing to refresh (CodeAnalyze.js, watch and saveVersionsCacheToFile).
THEOREM StartsAreComplete == Spec => StartIsComplete
<1> DEFINE A == (mode = "save" /\ ~watcher /\ mode' = "register") =>
                   \A f \in fileNames : /\ f \in DOMAIN saved'.map
                                        /\ saved'.map[f].processed
                                        /\ saved'.map[f].version = versions[f].version
                                        /\ saved'.map[f].isBP /\ f \notin refused => bps[f] # Absent
<1>1. TypeOK /\ StartInv /\ [Next]_vars => [A]_vars
  <2> SUFFICES ASSUME TypeOK, StartInv, [Next]_vars, mode = "save", ~watcher, mode' = "register",
                      NEW f \in fileNames
               PROVE  /\ f \in DOMAIN saved'.map
                      /\ saved'.map[f].processed
                      /\ saved'.map[f].version = versions[f].version
                      /\ saved'.map[f].isBP /\ f \notin refused => bps[f] # Absent
    OBVIOUS
  <2>1. SaveVersions
    BY DEF Next, Step, Start, Analyze, EmitJs, EmitDone, QueueBlueprint, Throw, QueueDone,
           RefreshBlueprints, SaveVersions, Watch, OnChanged, TimerFires, HandleModified,
           CompileCommand, Edit, End, vars
  <2>2. f \in Files /\ Treated(f) /\ DOMAIN jobs = {}
    BY DEF TypeOK, Treated, StartInv, JobsOfTheRecorded
  <2>3. /\ f \in DOMAIN versions /\ versions[f].processed /\ (~changed => UpToDate(f))
        /\ ~changed /\ saved.map[f].isBP => bps[f] # Absent
        /\ versions[f].isBP /\ f \notin refused => bps[f] # Absent
    BY <2>2 DEF StartInv, EmittedIsDone, TreatedIsDone
  <2>4. saved' = IF changed THEN [there |-> TRUE, map |-> versions] ELSE saved
    BY <2>1 DEF SaveVersions
  <2>5. CASE changed
    BY <2>3, <2>4, <2>5
  <2>6. CASE ~changed
    BY <2>3, <2>4, <2>6 DEF UpToDate
  <2> QED
    BY <2>5, <2>6
<1>2. (TypeOK /\ StartInv /\ [Next]_vars) => [A]_vars
  BY <1>1
<1>3. StartIsComplete <=> [][A]_vars
  BY DEF StartIsComplete
<1> HIDE DEF A
<1> QED
  BY <1>2, <1>3, TypeCorrect, StartCorrect, PTL DEF Spec

-----------------------------------------------------------------------------
(* The record is honest.  What is vouched for: by the record of an earlier *)
(* session, and by those of this one, which are to become it.              *)

Vouched(map, f) == IsAsRead(map, f) /\ map[f].processed /\ Unspoilt(f) /\ f \notin failed
VouchedClass(map, f) ==
    Vouched(map, f) /\ map[f].isBP /\ disk[f] \in Classes /\ f \notin refused

\* What this session has read is no older than what was saved.
RecordIsOld ==
    mode # "off" => \A f \in DOMAIN saved.map :
        Unspoilt(f) /\ saved.map[f].version = disk[f] => IsAsRead(versions, f)
JobsAreFresh ==
    \A f \in DOMAIN jobs :
        Unspoilt(f) /\ f \notin failed /\ IsAsRead(versions, f) /\ disk[f] \in Classes
        => jobs[f] = disk[f]
\* A script that has died saves nothing.
VersionsAreHonest ==
    \A f \in DOMAIN versions :
        /\ Vouched(versions, f) => js[f] = disk[f]
        /\ VouchedClass(versions, f) =>
              mode = "dead" \/ Awaits(f) \/ f \in DOMAIN jobs \/ bps[f] = disk[f]
SavedIsHonest ==
    \A f \in DOMAIN saved.map :
        /\ Vouched(saved.map, f) => js[f] = disk[f]
        /\ VouchedClass(saved.map, f) => bps[f] = disk[f]
HonestInv == RecordIsOld /\ JobsAreFresh /\ VersionsAreHonest /\ SavedIsHonest

\* What compiling leaves of the records it is given, and what it adds.
LEMMA CompiledMarks ==
    ASSUME disk \in [Files -> Text], NEW vs, Versions(vs), NEW roots,
           NEW fs, fs \subseteq DOMAIN vs, NEW program,
           Compile(fs, Registered(vs, roots), program)
    PROVE  /\ DOMAIN vs \subseteq DOMAIN versions'
           /\ \A f \in DOMAIN vs :
                 /\ versions'[f].version = vs[f].version
                 /\ versions'[f].processed <=> f \in Good(fs, program) \/ vs[f].processed
                 /\ versions'[f].isBP <=> IF f \in Good(fs, program) THEN program[f] \in Classes
                                          ELSE vs[f].isBP
           /\ \A f \in DOMAIN versions' : f \notin DOMAIN vs => ~versions'[f].processed
<1> DEFINE r == Registered(vs, roots)
<1>1. /\ Versions(r)
      /\ DOMAIN vs \subseteq DOMAIN r
      /\ \A f \in DOMAIN r : f \notin DOMAIN vs => r[f] = Fresh(disk[f]) /\ f \in OnDisk
      /\ \A f \in DOMAIN vs : r[f] = vs[f]
  BY RegisteredKeeps
<1>2. versions' = Marked(fs, Processed(fs, r, program), program)
  BY DEF Compile
<1> HIDE DEF r
<1>3. /\ DOMAIN versions' = DOMAIN r
      /\ \A f \in DOMAIN r :
            /\ versions'[f].version = r[f].version
            /\ versions'[f].processed <=> f \in Good(fs, program) \/ r[f].processed
            /\ versions'[f].isBP <=> IF f \in Good(fs, program) THEN program[f] \in Classes
                                     ELSE r[f].isBP
  BY <1>1, <1>2, BothMarks
<1>4. Good(fs, program) \subseteq DOMAIN vs
  BY DEF Good
<1>5. ASSUME NEW f \in DOMAIN r, f \notin DOMAIN vs PROVE ~versions'[f].processed
  <2>1. ~r[f].processed
    BY <1>1, <1>5 DEF Fresh
  <2> QED
    BY <1>3, <1>4, <1>5, <2>1
<1>6. \A f \in DOMAIN vs : r[f] = vs[f] /\ f \in DOMAIN r
  BY <1>1
<1>7. \A f \in DOMAIN vs :
         /\ versions'[f].version = vs[f].version
         /\ versions'[f].processed <=> f \in Good(fs, program) \/ vs[f].processed
         /\ versions'[f].isBP <=> IF f \in Good(fs, program) THEN program[f] \in Classes
                                  ELSE vs[f].isBP
  BY <1>3, <1>6
<1> QED
  BY <1>1, <1>3, <1>5, <1>7

\* What compiles of a source that is as it was read is its text.
LEMMA GoodIsTheText ==
    ASSUME CacheIsHonest, NEW vs, NEW roots, NEW fs, NEW f \in Good(fs, Program(vs, roots)),
           Unspoilt(f), f \in DOMAIN vs => vs[f].version = disk[f]
    PROVE  Program(vs, roots)[f] = disk[f]
<1>1. f \in Reached(vs, roots)
  BY DEF Good, Program
<1>2. Program(vs, roots)[f] = Snapshot(vs, f)
  BY <1>1 DEF Program
<1> QED
  BY <1>2, SnapshotHonest

\* What rebuilding makes of the blueprints, unless the game plays.
LEMMA RebuildMakes ==
    ASSUME NEW wanted, DOMAIN wanted \subseteq Files, NEW playing, Rebuild(wanted, playing)
    PROVE  /\ \A f \in DOMAIN wanted : f \notin refused' => bps'[f] = wanted[f]
           /\ \A f \in Files \ DOMAIN wanted :
                 bps'[f] = bps[f] /\ (f \notin refused' => f \notin refused)
  BY DEF Rebuild

\* The compiling of the watch: of files that are not recorded as they are.
LEMMA CompilingIsHonest ==
    ASSUME TypeOK, CacheIsHonest, HonestInv, JobsOfTheRecorded,
           mode \in {"watching", "handle"}, mode' = "handle",
           UNCHANGED <<disk, bps, saved, refused, undone>>,
           NEW vs, Versions(vs), DOMAIN versions \subseteq DOMAIN vs,
           NEW fs, fs \subseteq DOMAIN vs,
           \A f \in DOMAIN vs \ fs : f \in DOMAIN versions /\ vs[f] = versions[f],
           \A f \in fs : vs[f].version = disk[f] /\ ~IsAsRead(versions, f),
           NEW roots, Compile(fs, Registered(vs, roots), Program(vs, roots)),
           jobs' = Queued(fs, Program(vs, roots))
    PROVE  HonestInv'
<1> DEFINE program == Program(vs, roots)
           good == Good(fs, program)
<1>1. /\ DOMAIN vs \subseteq DOMAIN versions'
      /\ \A f \in DOMAIN vs :
            /\ versions'[f].version = vs[f].version
            /\ versions'[f].processed <=> f \in good \/ vs[f].processed
            /\ versions'[f].isBP <=> IF f \in good THEN program[f] \in Classes ELSE vs[f].isBP
      /\ \A f \in DOMAIN versions' : f \notin DOMAIN vs => ~versions'[f].processed
  BY CompiledMarks DEF TypeOK
<1>2. good \subseteq fs
  BY DEF Good
<1>3. \A f \in good : Unspoilt(f) => program[f] = disk[f]
  BY <1>2, GoodIsTheText
<1>4. DOMAIN jobs' = DOMAIN jobs \cup {f \in good : program[f] \in Classes}
      /\ \A f \in DOMAIN jobs' : jobs'[f] = IF f \in good /\ program[f] \in Classes THEN program[f]
                                            ELSE jobs[f]
  BY DEF Queued
<1>5. /\ failed' = (failed \cup fs) \ good
      /\ \A f \in Files : js'[f] = IF f \in good THEN program[f] ELSE js[f]
  BY DEF Compile, EmitJavaScript
<1>6. DOMAIN vs \subseteq Files /\ DOMAIN saved.map \subseteq Files /\ DOMAIN jobs \subseteq DOMAIN versions
  BY DEF Versions, TypeOK, JobsOfTheRecorded
<1> HIDE DEF program, good
<1>7. \A f : Unspoilt(f)' <=> Unspoilt(f)
  BY DEF Unspoilt, OnDisk
<1>8. ASSUME NEW f \in DOMAIN saved.map, Unspoilt(f), saved.map[f].version = disk[f]
      PROVE  f \notin fs /\ IsAsRead(versions, f)
  BY <1>8 DEF HonestInv, RecordIsOld
<1>9. RecordIsOld'
  <2> SUFFICES ASSUME NEW f \in DOMAIN saved.map, Unspoilt(f), saved.map[f].version = disk[f]
               PROVE  IsAsRead(versions, f)'
    BY <1>7 DEF RecordIsOld
  <2> QED
    BY <1>1, <1>8 DEF IsAsRead
<1>10. JobsAreFresh'
  <2> SUFFICES ASSUME NEW f \in DOMAIN jobs', Unspoilt(f), f \notin failed', disk[f] \in Classes,
                      IsAsRead(versions, f)'
               PROVE  jobs'[f] = disk[f]
    BY <1>7 DEF JobsAreFresh
  <2>1. CASE f \in fs
    BY <1>3, <1>4, <1>5, <2>1
  <2>2. CASE f \notin fs
    <3>1. f \in DOMAIN jobs /\ f \notin failed /\ jobs'[f] = jobs[f]
      BY <1>2, <1>4, <1>5, <2>2
    <3>2. IsAsRead(versions, f)
      BY <1>1, <1>6, <2>2, <3>1 DEF IsAsRead
    <3> QED
      BY <3>1, <3>2 DEF HonestInv, JobsAreFresh
  <2> QED
    BY <2>1, <2>2
<1>11. VersionsAreHonest'
  <2> SUFFICES ASSUME NEW f \in DOMAIN versions', Unspoilt(f), f \notin failed',
                      versions'[f].version = disk[f], versions'[f].processed
               PROVE  /\ js'[f] = disk[f]
                      /\ versions'[f].isBP /\ disk[f] \in Classes /\ f \notin refused =>
                            f \in DOMAIN jobs' \/ bps[f] = disk[f]
    BY <1>7 DEF VersionsAreHonest, Vouched, VouchedClass, IsAsRead
  <2>1. f \in DOMAIN vs /\ f \in Files
    BY <1>1, <1>6
  <2>2. CASE f \in fs
    BY <1>1, <1>3, <1>4, <1>5, <2>1, <2>2
  <2>3. CASE f \notin fs
    <3>1. f \in DOMAIN versions /\ vs[f] = versions[f] /\ f \notin failed /\ f \notin good
      BY <1>2, <1>5, <2>1, <2>3
    <3>2. /\ versions[f].version = disk[f] /\ versions[f].processed
          /\ versions'[f].isBP <=> versions[f].isBP
          /\ js'[f] = js[f] /\ (f \in DOMAIN jobs => f \in DOMAIN jobs')
      BY <1>1, <1>4, <1>5, <2>1, <3>1
    <3>3. ~Awaits(f) /\ mode # "dead"
      BY DEF Awaits
    <3> QED
      BY <3>1, <3>2, <3>3 DEF HonestInv, VersionsAreHonest, Vouched, VouchedClass, IsAsRead
  <2> QED
    BY <2>2, <2>3
<1>12. SavedIsHonest'
  <2> SUFFICES ASSUME NEW f \in DOMAIN saved.map, Unspoilt(f), f \notin failed',
                      saved.map[f].version = disk[f], saved.map[f].processed
               PROVE  /\ js'[f] = disk[f]
                      /\ saved.map[f].isBP /\ disk[f] \in Classes /\ f \notin refused =>
                            bps[f] = disk[f]
    BY <1>7 DEF SavedIsHonest, Vouched, VouchedClass, IsAsRead
  <2>1. f \notin fs /\ f \notin failed /\ js'[f] = js[f]
    BY <1>2, <1>5, <1>6, <1>8
  <2> QED
    BY <2>1 DEF HonestInv, SavedIsHonest, Vouched, VouchedClass, IsAsRead
<1> QED
  BY <1>9, <1>10, <1>11, <1>12 DEF HonestInv

\* A step that changes nothing of it.
LEMMA HonestStays ==
    ASSUME HonestInv, UNCHANGED <<disk, js, bps, saved, versions, jobs, failed, refused, undone>>,
           mode = "off" => mode' = "off", mode = "dead" => mode' = "dead",
           \A f \in DOMAIN versions : Awaits(f) => mode' = "dead" \/ Awaits(f)'
    PROVE  HonestInv'
<1>1. RecordIsOld' /\ JobsAreFresh'
  BY DEF HonestInv, RecordIsOld, JobsAreFresh, Unspoilt, OnDisk, IsAsRead
<1>2. SavedIsHonest'
  BY DEF HonestInv, SavedIsHonest, Vouched, VouchedClass, Unspoilt, OnDisk, IsAsRead
<1>3. VersionsAreHonest'
  BY DEF HonestInv, VersionsAreHonest, Vouched, VouchedClass, Unspoilt, OnDisk, IsAsRead
<1> QED
  BY <1>1, <1>2, <1>3 DEF HonestInv

\* What was read for the analysis of a start is the text of a source that is as it was
\* recorded.
LEMMA AnalyzedIsTheText ==
    ASSUME CacheIsHonest, Analysis, mode \in {"emit", "queue"}, NEW f \in fileNames,
           Unspoilt(f), versions[f].version = disk[f]
    PROVE  Analyzed[f] = disk[f]
  BY DEF CacheIsHonest, Analysis, Analyzed

LEMMA HonestAnalyzes ==
    ASSUME TypeOK, StartInv, HonestInv, Analyze
    PROVE  HonestInv'
<1> DEFINE r == Registered(versions, fileNames)
<1>1. /\ mode = "hashed" /\ UNCHANGED <<disk, js, bps, saved, jobs, failed, refused, undone>>
      /\ \/ versions' = r
         \/ versions' = [f \in DOMAIN r |-> IF f \in fileNames \cap DOMAIN saved.map
                                           THEN saved.map[f] ELSE r[f]]
  BY DEF Analyze
<1>2. /\ DOMAIN versions \subseteq DOMAIN r
      /\ \A f \in DOMAIN r : f \notin DOMAIN versions => r[f] = Fresh(disk[f])
      /\ \A f \in DOMAIN versions : r[f] = versions[f]
  BY RegisteredKeeps DEF TypeOK
<1>3. DOMAIN jobs = {} /\ \A f \in DOMAIN versions : ~versions[f].processed
  BY <1>1 DEF StartInv, Hashed, JobsOfTheRecorded
<1> HIDE DEF r
<1>4. ASSUME NEW f \in DOMAIN r PROVE ~r[f].processed
  <2>1. CASE f \in DOMAIN versions
    BY <1>2, <1>3, <2>1
  <2>2. CASE f \notin DOMAIN versions
    BY <1>2, <2>2 DEF Fresh
  <2> QED
    BY <2>1, <2>2
<1>5. DOMAIN versions' = DOMAIN r
      /\ \A f \in DOMAIN r : \/ versions'[f] = r[f]
                             \/ f \in DOMAIN saved.map /\ versions'[f] = saved.map[f]
  BY <1>1
<1>6. \A f : Unspoilt(f)' <=> Unspoilt(f)
  BY <1>1 DEF Unspoilt, OnDisk
<1>7. RecordIsOld'
  <2> SUFFICES ASSUME NEW f \in DOMAIN saved.map, Unspoilt(f), saved.map[f].version = disk[f]
               PROVE  IsAsRead(versions, f)'
    BY <1>1, <1>6 DEF RecordIsOld
  <2>1. f \in DOMAIN versions /\ versions[f].version = disk[f]
    BY <1>1 DEF HonestInv, RecordIsOld, IsAsRead
  <2>2. f \in DOMAIN r /\ r[f] = versions[f]
    BY <1>2, <2>1
  <2> QED
    BY <1>1, <1>5, <2>1, <2>2 DEF IsAsRead
<1>8. JobsAreFresh'
  BY <1>1, <1>3 DEF JobsAreFresh
<1>9. SavedIsHonest'
  BY <1>1 DEF HonestInv, SavedIsHonest, Vouched, VouchedClass, Unspoilt, OnDisk, IsAsRead
<1>10. VersionsAreHonest'
  <2> SUFFICES ASSUME NEW f \in DOMAIN versions', Unspoilt(f), f \notin failed,
                      versions'[f].version = disk[f], versions'[f].processed
               PROVE  /\ js[f] = disk[f]
                      /\ versions'[f].isBP /\ disk[f] \in Classes /\ f \notin refused =>
                            bps[f] = disk[f]
    BY <1>1, <1>6 DEF VersionsAreHonest, Vouched, VouchedClass, IsAsRead
  <2>1. f \in DOMAIN saved.map /\ versions'[f] = saved.map[f]
    BY <1>4, <1>5
  <2> QED
    BY <2>1 DEF HonestInv, SavedIsHonest, Vouched, VouchedClass, IsAsRead
<1> QED
  BY <1>7, <1>8, <1>9, <1>10 DEF HonestInv

LEMMA HonestEmits ==
    ASSUME TypeOK, StartInv, CacheIsHonest, HonestInv, NEW f \in Files, EmitJs(f)
    PROVE  HonestInv'
<1>1. /\ mode = "emit" /\ f \in fileNames /\ f \in DOMAIN versions
      /\ UNCHANGED <<mode, fileNames, jobs, saved, bps, refused, disk, undone>>
      /\ DOMAIN versions' = DOMAIN versions
      /\ \A g \in DOMAIN versions : versions'[g].version = versions[g].version
      /\ \A g \in DOMAIN versions \ {f} :
            /\ versions'[g].processed <=> versions[g].processed
            /\ versions'[g].isBP = versions[g].isBP
      /\ UpToDate(f) => UNCHANGED <<js, failed>>
      /\ ~UpToDate(f) => /\ js' = [g \in Files |-> IF g = f THEN Analyzed[f] ELSE js[g]]
                         /\ failed' = failed \ {f}
  BY EmittedMarks
<1>2. DOMAIN jobs = {} /\ DOMAIN saved.map \subseteq Files /\ DOMAIN versions \subseteq Files
  BY <1>1 DEF StartInv, JobsOfTheRecorded, TypeOK, Versions
<1>3. \A g : Unspoilt(g)' <=> Unspoilt(g)
  BY <1>1 DEF Unspoilt, OnDisk
<1>4. \A g \in Files \ {f} : js'[g] = js[g] /\ (g \notin failed' => g \notin failed)
  BY <1>1
<1>5. Unspoilt(f) /\ versions[f].version = disk[f] /\ ~UpToDate(f) => js'[f] = disk[f]
  BY <1>1, AnalyzedIsTheText DEF StartInv
<1>6. RecordIsOld' /\ JobsAreFresh'
  BY <1>1, <1>2, <1>3 DEF HonestInv, RecordIsOld, JobsAreFresh, IsAsRead
<1>7. SavedIsHonest'
  <2> SUFFICES ASSUME NEW g \in DOMAIN saved.map, Unspoilt(g), g \notin failed',
                      saved.map[g].version = disk[g], saved.map[g].processed
               PROVE  /\ js'[g] = disk[g]
                      /\ saved.map[g].isBP /\ disk[g] \in Classes /\ g \notin refused =>
                            bps[g] = disk[g]
    BY <1>1, <1>3 DEF SavedIsHonest, Vouched, VouchedClass, IsAsRead
  <2>1. g = f => UpToDate(f)
    BY <1>1 DEF HonestInv, RecordIsOld, IsAsRead, UpToDate
  <2>2. js'[g] = js[g] /\ g \notin failed
    BY <1>1, <1>2, <1>4, <2>1
  <2> QED
    BY <2>2 DEF HonestInv, SavedIsHonest, Vouched, VouchedClass, IsAsRead
<1>8. VersionsAreHonest'
  <2> SUFFICES ASSUME NEW g \in DOMAIN versions, Unspoilt(g), g \notin failed',
                      versions[g].version = disk[g], versions'[g].processed
               PROVE  /\ js'[g] = disk[g]
                      /\ versions'[g].isBP /\ disk[g] \in Classes /\ g \notin refused =>
                            Awaits(g) \/ bps[g] = disk[g]
    BY <1>1, <1>3 DEF VersionsAreHonest, Vouched, VouchedClass, IsAsRead, Awaits
  <2>1. CASE g = f
    <3>1. Awaits(f)
      BY <1>1 DEF Awaits
    <3>2. UpToDate(f) => js'[f] = disk[f]
      BY <1>1, <2>1 DEF UpToDate, HonestInv, SavedIsHonest, Vouched, IsAsRead
    <3> QED
      BY <1>5, <2>1, <3>1, <3>2
  <2>2. CASE g # f
    BY <1>1, <1>2, <1>4, <2>2 DEF HonestInv, VersionsAreHonest, Vouched, VouchedClass, IsAsRead
  <2> QED
    BY <2>1, <2>2
<1> QED
  BY <1>6, <1>7, <1>8 DEF HonestInv

LEMMA HonestQueues ==
    ASSUME TypeOK, StartInv, CacheIsHonest, HonestInv, NEW f \in Files, QueueBlueprint(f)
    PROVE  HonestInv'
<1> DEFINE queued == WantsBlueprint(f) /\ Analyzed[f] \in Classes
<1>1. /\ mode = "queue" /\ f \in fileNames /\ f \in todo /\ todo' = todo \ {f}
      /\ f \in DOMAIN versions
      /\ UNCHANGED <<mode, fileNames, saved, bps, refused, disk, undone, js, failed>>
      /\ DOMAIN versions' = DOMAIN versions
      /\ \A g \in DOMAIN versions : versions'[g].version = versions[g].version
      /\ \A g \in DOMAIN versions \ {f} :
            /\ versions'[g].processed <=> versions[g].processed
            /\ versions'[g].isBP <=> versions[g].isBP
      /\ versions'[f].isBP <=> IF WantsBlueprint(f) THEN Analyzed[f] \in Classes
                               ELSE versions[f].isBP
      /\ IF queued
         THEN /\ DOMAIN jobs' = DOMAIN jobs \cup {f}
              /\ \A g \in DOMAIN jobs' : jobs'[g] = IF g = f THEN Analyzed[f] ELSE jobs[g]
         ELSE DOMAIN jobs' = DOMAIN jobs /\ \A g \in DOMAIN jobs : jobs'[g] = jobs[g]
  BY QueuedMarks
<1>2. \A g : Unspoilt(g)' <=> Unspoilt(g)
  BY <1>1 DEF Unspoilt, OnDisk
<1>3. Unspoilt(f) /\ versions[f].version = disk[f] => Analyzed[f] = disk[f]
  BY <1>1, AnalyzedIsTheText DEF StartInv
<1>4. RecordIsOld'
  BY <1>1, <1>2 DEF HonestInv, RecordIsOld, IsAsRead
<1>5. SavedIsHonest'
  BY <1>1 DEF HonestInv, SavedIsHonest, Vouched, VouchedClass, Unspoilt, OnDisk, IsAsRead
<1>6. JobsAreFresh'
  <2> SUFFICES ASSUME NEW g \in DOMAIN jobs', Unspoilt(g), g \notin failed, disk[g] \in Classes,
                      g \in DOMAIN versions, versions[g].version = disk[g]
               PROVE  jobs'[g] = disk[g]
    BY <1>1, <1>2 DEF JobsAreFresh, IsAsRead
  <2>1. CASE queued /\ g = f
    BY <1>1, <1>3, <2>1
  <2>2. CASE ~(queued /\ g = f)
    <3>1. g \in DOMAIN jobs /\ jobs'[g] = jobs[g]
      BY <1>1, <2>2
    <3> QED
      BY <3>1 DEF HonestInv, JobsAreFresh, IsAsRead
  <2> QED
    BY <2>1, <2>2
<1>7. VersionsAreHonest'
  <2> SUFFICES ASSUME NEW g \in DOMAIN versions, Unspoilt(g), g \notin failed,
                      versions[g].version = disk[g], versions'[g].processed
               PROVE  /\ js[g] = disk[g]
                      /\ versions'[g].isBP /\ disk[g] \in Classes /\ g \notin refused =>
                            Awaits(g)' \/ g \in DOMAIN jobs' \/ bps[g] = disk[g]
    BY <1>1, <1>2 DEF VersionsAreHonest, Vouched, VouchedClass, IsAsRead
  <2>1. CASE g # f
    <3>1. versions[g].processed /\ (versions'[g].isBP <=> versions[g].isBP)
      BY <1>1, <2>1
    <3>2. Awaits(g) => Awaits(g)'
      BY <1>1, <2>1 DEF Awaits
    <3>3. g \in DOMAIN jobs => g \in DOMAIN jobs'
      BY <1>1
    <3> QED
      BY <1>1, <3>1, <3>2, <3>3
         DEF HonestInv, VersionsAreHonest, Vouched, VouchedClass, IsAsRead
  <2>2. CASE g = f
    <3>1. versions[f].processed
      BY <1>1 DEF StartInv, EmittedIsDone, Emitted
    <3>2. js[f] = disk[f]
      BY <2>2, <3>1 DEF HonestInv, VersionsAreHonest, Vouched, IsAsRead
    <3>3. CASE WantsBlueprint(f)
      BY <1>1, <2>2, <3>2, <3>3
    <3>4. CASE ~WantsBlueprint(f)
      <4> SUFFICES ASSUME versions'[f].isBP, disk[f] \in Classes, f \notin refused
                   PROVE  bps[f] = disk[f]
        BY <2>2, <3>2
      <4>1. f \in DOMAIN saved.map /\ saved.map[f].isBP
        BY <1>1, <3>4 DEF StartInv, MarkedAsBefore, Awaits
      <4>2. UpToDate(f)
        BY <3>4, <4>1 DEF WantsBlueprint
      <4> QED
        BY <2>2, <4>1, <4>2
           DEF UpToDate, HonestInv, SavedIsHonest, Vouched, VouchedClass, IsAsRead
    <3> QED
      BY <3>3, <3>4
  <2> QED
    BY <2>1, <2>2
<1> QED
  BY <1>4, <1>5, <1>6, <1>7 DEF HonestInv

LEMMA HonestRefreshes ==
    ASSUME TypeOK, HonestInv, NEW playing \in BOOLEAN, RefreshBlueprints(playing)
    PROVE  HonestInv'
<1>1. /\ mode = "refresh" /\ jobs' = Nothing /\ Rebuild(jobs, playing)
      /\ UNCHANGED <<disk, js, saved, versions, failed, undone>>
  BY DEF RefreshBlueprints
<1>2. DOMAIN jobs' = {}
  BY <1>1 DEF Nothing
<1>3. DOMAIN jobs \subseteq Files /\ DOMAIN versions \subseteq Files /\ DOMAIN saved.map \subseteq Files
  BY DEF TypeOK, Versions
<1>4. /\ \A f \in DOMAIN jobs : f \notin refused' => bps'[f] = jobs[f]
      /\ \A f \in Files \ DOMAIN jobs :
            bps'[f] = bps[f] /\ (f \notin refused' => f \notin refused)
  BY <1>1, <1>3, RebuildMakes
<1>5. \A f : Unspoilt(f)' <=> Unspoilt(f)
  BY <1>1 DEF Unspoilt, OnDisk
<1>6. RecordIsOld' /\ JobsAreFresh'
  BY <1>1, <1>2, <1>5 DEF HonestInv, RecordIsOld, JobsAreFresh, IsAsRead
<1>7. ASSUME NEW f \in Files, Unspoilt(f), f \notin failed, IsAsRead(versions, f), disk[f] \in Classes,
             f \notin refused', f \in DOMAIN jobs \/ (f \notin refused => bps[f] = disk[f])
      PROVE  bps'[f] = disk[f]
  <2>1. CASE f \in DOMAIN jobs
    BY <1>4, <1>7, <2>1 DEF HonestInv, JobsAreFresh
  <2>2. CASE f \notin DOMAIN jobs
    BY <1>4, <1>7, <2>2
  <2> QED
    BY <2>1, <2>2
<1>8. SavedIsHonest'
  <2> SUFFICES ASSUME NEW f \in DOMAIN saved.map, Unspoilt(f), f \notin failed,
                      saved.map[f].version = disk[f], saved.map[f].processed
               PROVE  /\ js[f] = disk[f]
                      /\ saved.map[f].isBP /\ disk[f] \in Classes /\ f \notin refused' =>
                            bps'[f] = disk[f]
    BY <1>1, <1>5 DEF SavedIsHonest, Vouched, VouchedClass, IsAsRead
  <2>1. /\ js[f] = disk[f]
        /\ saved.map[f].isBP /\ disk[f] \in Classes /\ f \notin refused => bps[f] = disk[f]
    BY DEF HonestInv, SavedIsHonest, Vouched, VouchedClass, IsAsRead
  <2>2. IsAsRead(versions, f)
    BY <1>1 DEF HonestInv, RecordIsOld
  <2> QED
    BY <1>3, <1>7, <2>1, <2>2
<1>9. VersionsAreHonest'
  <2> SUFFICES ASSUME NEW f \in DOMAIN versions, Unspoilt(f), f \notin failed,
                      versions[f].version = disk[f], versions[f].processed
               PROVE  /\ js[f] = disk[f]
                      /\ versions[f].isBP /\ disk[f] \in Classes /\ f \notin refused' =>
                            bps'[f] = disk[f]
    BY <1>1, <1>5 DEF VersionsAreHonest, Vouched, VouchedClass, IsAsRead
  <2>1. ~Awaits(f) /\ mode # "dead"
    BY <1>1 DEF Awaits
  <2>2. /\ js[f] = disk[f]
        /\ versions[f].isBP /\ disk[f] \in Classes /\ f \notin refused =>
              f \in DOMAIN jobs \/ bps[f] = disk[f]
    BY <2>1 DEF HonestInv, VersionsAreHonest, Vouched, VouchedClass, IsAsRead
  <2>3. IsAsRead(versions, f)
    BY DEF IsAsRead
  <2> QED
    BY <1>3, <1>7, <2>2, <2>3
<1> QED
  BY <1>6, <1>8, <1>9 DEF HonestInv

\* The command compiles what is recorded, whether or not the source is still that.
LEMMA HonestCommands ==
    ASSUME TypeOK, StartInv, CacheIsHonest, HonestInv, NEW id, NEW playing,
           CompileCommand(id, playing)
    PROVE  HonestInv'
<1> DEFINE fs == {f \in DOMAIN versions : versions[f].version = id}
           program == Program(versions, fileNames)
           good == Good(fs, program)
           wanted == Queued(fs, program)
<1>1. /\ mode = "watching" /\ Compile(fs, Registered(versions, fileNames), program)
      /\ Rebuild(wanted, playing)
      /\ UNCHANGED <<disk, saved, mode, jobs, undone>>
  BY DEF CompileCommand
<1>2. DOMAIN jobs = {} /\ DOMAIN versions \subseteq Files /\ DOMAIN saved.map \subseteq Files
  BY <1>1 DEF StartInv, JobsOfTheRecorded, TypeOK, Versions
<1>3. good \subseteq fs /\ fs \subseteq DOMAIN versions
  BY DEF Good
<1>4. \A f \in good : Unspoilt(f) /\ versions[f].version = disk[f] => program[f] = disk[f]
  BY GoodIsTheText
<1>5. /\ DOMAIN wanted = {f \in good : program[f] \in Classes}
      /\ \A f \in DOMAIN wanted : wanted[f] = program[f]
  BY <1>2 DEF Queued
<1>6. /\ failed' = (failed \cup fs) \ good
      /\ \A f \in Files : js'[f] = IF f \in good THEN program[f] ELSE js[f]
  BY <1>1 DEF Compile, EmitJavaScript
<1> HIDE DEF fs, program, good, wanted
<1>7. /\ DOMAIN versions \subseteq DOMAIN versions'
      /\ \A f \in DOMAIN versions :
            /\ versions'[f].version = versions[f].version
            /\ versions'[f].processed <=> f \in good \/ versions[f].processed
            /\ versions'[f].isBP <=> IF f \in good THEN program[f] \in Classes
                                     ELSE versions[f].isBP
      /\ \A f \in DOMAIN versions' : f \notin DOMAIN versions => ~versions'[f].processed
  BY <1>1, <1>3, CompiledMarks DEF TypeOK, good
<1>8. /\ \A f \in DOMAIN wanted : f \notin refused' => bps'[f] = wanted[f]
      /\ \A f \in Files \ DOMAIN wanted :
            bps'[f] = bps[f] /\ (f \notin refused' => f \notin refused)
  BY <1>1, <1>2, <1>3, <1>5, RebuildMakes
<1>9. \A f : Unspoilt(f)' <=> Unspoilt(f)
  BY <1>1 DEF Unspoilt, OnDisk
<1>10. RecordIsOld' /\ JobsAreFresh'
  BY <1>1, <1>2, <1>7, <1>9 DEF HonestInv, RecordIsOld, JobsAreFresh, IsAsRead
\* A file that was compiled has the text's own JavaScript and blueprint, another one
\* what it had.
<1>11. ASSUME NEW f \in DOMAIN versions, Unspoilt(f), f \notin failed', versions[f].version = disk[f]
       PROVE  /\ f \in good => /\ js'[f] = disk[f] /\ program[f] = disk[f]
                               /\ disk[f] \in Classes /\ f \notin refused' => bps'[f] = disk[f]
              /\ f \notin good => /\ f \notin fs /\ f \notin failed
                                  /\ js'[f] = js[f] /\ bps'[f] = bps[f]
                                  /\ f \notin refused' => f \notin refused
  <2>1. CASE f \in good
    BY <1>2, <1>4, <1>5, <1>6, <1>8, <1>11, <2>1
  <2>2. CASE f \notin good
    BY <1>2, <1>5, <1>6, <1>8, <1>11, <2>2
  <2> QED
    BY <2>1, <2>2
<1>12. SavedIsHonest'
  <2> SUFFICES ASSUME NEW f \in DOMAIN saved.map, Unspoilt(f), f \notin failed',
                      saved.map[f].version = disk[f], saved.map[f].processed
               PROVE  /\ js'[f] = disk[f]
                      /\ saved.map[f].isBP /\ disk[f] \in Classes /\ f \notin refused' =>
                            bps'[f] = disk[f]
    BY <1>1, <1>9 DEF SavedIsHonest, Vouched, VouchedClass, IsAsRead
  <2>1. f \in DOMAIN versions /\ versions[f].version = disk[f]
    BY <1>1 DEF HonestInv, RecordIsOld, IsAsRead
  <2>2. CASE f \in good
    BY <1>11, <2>1, <2>2
  <2>3. CASE f \notin good
    BY <1>11, <2>1, <2>3 DEF HonestInv, SavedIsHonest, Vouched, VouchedClass, IsAsRead
  <2> QED
    BY <2>2, <2>3
<1>13. VersionsAreHonest'
  <2> SUFFICES ASSUME NEW f \in DOMAIN versions', Unspoilt(f), f \notin failed',
                      versions'[f].version = disk[f], versions'[f].processed
               PROVE  /\ js'[f] = disk[f]
                      /\ versions'[f].isBP /\ disk[f] \in Classes /\ f \notin refused' =>
                            bps'[f] = disk[f]
    BY <1>1, <1>9 DEF VersionsAreHonest, Vouched, VouchedClass, IsAsRead
  <2>1. f \in DOMAIN versions /\ versions[f].version = disk[f]
    BY <1>7
  <2>2. CASE f \in good
    BY <1>11, <2>1, <2>2
  <2>3. CASE f \notin good
    <3>1. versions[f].processed /\ (versions'[f].isBP <=> versions[f].isBP)
      BY <1>7, <2>1, <2>3
    <3>2. ~Awaits(f) /\ mode # "dead" /\ f \notin DOMAIN jobs
      BY <1>1, <1>2 DEF Awaits
    <3> QED
      BY <1>11, <2>1, <2>3, <3>1, <3>2
         DEF HonestInv, VersionsAreHonest, Vouched, VouchedClass, IsAsRead
  <2> QED
    BY <2>2, <2>3
<1> QED
  BY <1>10, <1>12, <1>13 DEF HonestInv

\* An edit either spoils a source or gives it a text that nothing has recorded.
LEMMA HonestEdits ==
    ASSUME TypeOK, StartInv, WrittenInv, HonestInv, NEW f \in Files, NEW c \in Text, Edit(f, c)
    PROVE  HonestInv'
<1>1. /\ disk' = [disk EXCEPT ![f] = c]
      /\ undone' = IF c \in written[f] THEN undone \cup {f} ELSE undone
      /\ UNCHANGED <<mode, fileNames, todo, versions, jobs, saved, js, bps, failed, refused>>
  BY DEF Edit
<1>2. /\ \A g \in DOMAIN versions : versions[g].version \in written[g]
      /\ \A g \in DOMAIN saved.map : saved.map[g].version \in written[g]
      /\ DOMAIN versions \subseteq Files /\ DOMAIN saved.map \subseteq Files
      /\ DOMAIN jobs \subseteq DOMAIN versions /\ disk \in [Files -> Text]
  BY DEF WrittenInv, OnlyWritten, WrittenIn, TypeOK, Versions, StartInv, JobsOfTheRecorded
<1>3. \A g \in Files \ {f} : disk'[g] = disk[g] /\ (Unspoilt(g)' <=> Unspoilt(g))
  BY <1>1, <1>2 DEF Unspoilt, OnDisk
<1>4. Unspoilt(f)' => /\ f \in DOMAIN versions => versions[f].version # disk'[f]
                      /\ f \in DOMAIN saved.map => saved.map[f].version # disk'[f]
  BY <1>1, <1>2 DEF Unspoilt
<1>5. RecordIsOld'
  BY <1>1, <1>2, <1>3, <1>4 DEF HonestInv, RecordIsOld, IsAsRead
<1>6. JobsAreFresh'
  BY <1>1, <1>2, <1>3, <1>4 DEF HonestInv, JobsAreFresh, IsAsRead
<1>7. SavedIsHonest'
  BY <1>1, <1>2, <1>3, <1>4 DEF HonestInv, SavedIsHonest, Vouched, VouchedClass, IsAsRead
<1>8. VersionsAreHonest'
  <2>1. \A g : Awaits(g)' <=> Awaits(g)
    BY <1>1 DEF Awaits
  <2> QED
    BY <1>1, <1>2, <1>3, <1>4, <2>1
       DEF HonestInv, VersionsAreHonest, Vouched, VouchedClass, IsAsRead
<1> QED
  BY <1>5, <1>6, <1>7, <1>8 DEF HonestInv

LEMMA HonestCorrect == Spec => []HonestInv
<1> USE SourceAssumption
<1> DEFINE Known == TypeOK /\ WrittenInv /\ StartInv
<1>1. Init => HonestInv
  BY DEF Init, Nothing, HonestInv, RecordIsOld, JobsAreFresh, VersionsAreHonest, SavedIsHonest
<1>2. Known /\ HonestInv /\ [Next]_vars => HonestInv'
  <2> SUFFICES ASSUME TypeOK, WrittenInv, StartInv, HonestInv, [Next]_vars PROVE HonestInv'
    OBVIOUS
  <2>0. /\ disk \in [Files -> Text] /\ Versions(versions) /\ OnDisk \subseteq Files
        /\ CacheIsHonest /\ JobsOfTheRecorded /\ DOMAIN Nothing = {}
    BY DEF TypeOK, OnDisk, WrittenInv, StartInv, Nothing
  <2>1. CASE Start
    <3>1. /\ mode = "off" /\ UNCHANGED <<disk, js, bps, saved, jobs, failed, refused, undone>>
          /\ versions' = [f \in OnDisk |-> Fresh(disk[f])]
      BY <2>1 DEF Start
    <3>2. DOMAIN jobs = {}
      BY <2>0, <3>1 DEF JobsOfTheRecorded
    <3>3. \A f \in DOMAIN versions' : ~versions'[f].processed /\ versions'[f].version = disk[f]
      BY <3>1 DEF Fresh
    <3>4. RecordIsOld' /\ JobsAreFresh' /\ VersionsAreHonest'
      BY <3>1, <3>2, <3>3 DEF RecordIsOld, JobsAreFresh, VersionsAreHonest, Vouched, VouchedClass,
                              IsAsRead, Unspoilt, OnDisk
    <3>5. SavedIsHonest'
      BY <3>1 DEF HonestInv, SavedIsHonest, Vouched, VouchedClass, Unspoilt, OnDisk, IsAsRead
    <3> QED
      BY <3>4, <3>5 DEF HonestInv
  <2>2. CASE Analyze
    BY <2>2, HonestAnalyzes
  <2>3. ASSUME NEW f \in Files, EmitJs(f) PROVE HonestInv'
    BY <2>0, <2>3, HonestEmits
  <2>4. CASE EmitDone
    BY <2>4, HonestStays DEF EmitDone, Awaits
  <2>5. ASSUME NEW f \in Files, QueueBlueprint(f) PROVE HonestInv'
    BY <2>0, <2>5, HonestQueues
  <2>6. ASSUME NEW f \in Files, Throw(f) PROVE HonestInv'
    BY <2>6, HonestStays DEF Throw
  <2>7. CASE QueueDone
    BY <2>7, HonestStays DEF QueueDone, Awaits
  <2>8. ASSUME NEW playing \in BOOLEAN, RefreshBlueprints(playing) PROVE HonestInv'
    BY <2>8, HonestRefreshes
  <2>9. CASE SaveVersions
    <3>1. /\ mode = "save" /\ UNCHANGED <<disk, js, bps, versions, jobs, failed, refused, undone>>
          /\ saved' = IF changed THEN [there |-> TRUE, map |-> versions] ELSE saved
          /\ mode' \in {"watching", "register"}
      BY <2>9 DEF SaveVersions
    <3>2. DOMAIN jobs = {} /\ \A f : ~Awaits(f)
      BY <2>0, <3>1 DEF JobsOfTheRecorded, Awaits
    <3>3. saved'.map = versions \/ saved'.map = saved.map
      BY <3>1
    <3>4. RecordIsOld' /\ JobsAreFresh'
      BY <3>1, <3>2, <3>3 DEF HonestInv, RecordIsOld, JobsAreFresh, IsAsRead, Unspoilt, OnDisk
    <3>5. VersionsAreHonest'
      BY <3>1, <3>2 DEF HonestInv, VersionsAreHonest, Vouched, VouchedClass, Unspoilt, OnDisk,
                        IsAsRead
    <3>6. SavedIsHonest'
      BY <3>1, <3>2, <3>3 DEF HonestInv, VersionsAreHonest, SavedIsHonest, Vouched, VouchedClass,
                              Unspoilt, OnDisk, IsAsRead
    <3> QED
      BY <3>4, <3>5, <3>6 DEF HonestInv
  <2>10. CASE Watch
    BY <2>10, HonestStays DEF Watch, Awaits
  <2>11. CASE OnChanged
    BY <2>11, HonestStays DEF OnChanged, Awaits
  <2>12. CASE TimerFires
    <3> DEFINE of(what) == {f \in Files : <<what, f>> \in Head(timers)}
               addFiles == of("added") \ of("removed")
               newFiles == IF addFiles = {} THEN {} ELSE OnDisk \ DOMAIN versions
               vs == [f \in DOMAIN versions \cup newFiles |->
                         IF f \in newFiles THEN Fresh(disk[f]) ELSE versions[f]]
    <3>1. /\ mode = "watching" /\ mode' = "handle"
          /\ UNCHANGED <<disk, bps, saved, refused, undone>>
      BY <2>12 DEF TimerFires
    <3>2. CASE newFiles = {}
      <4>1. UNCHANGED <<js, versions, jobs, failed>>
        BY <2>12, <3>2 DEF TimerFires
      <4> QED
        BY <3>1, <4>1, HonestStays DEF Awaits
    <3>3. CASE newFiles # {}
      <4>1. /\ Compile(newFiles, Registered(vs, OnDisk), Program(vs, OnDisk))
            /\ jobs' = Queued(newFiles, Program(vs, OnDisk))
        BY <2>12, <3>3 DEF TimerFires
      <4>2. \A f \in OnDisk : f \in Files /\ Fresh(disk[f]) \in Record
        BY <2>0 DEF Fresh, Record
      <4>3. /\ Versions(vs) /\ DOMAIN vs = DOMAIN versions \cup newFiles
            /\ newFiles \cap DOMAIN versions = {}
        BY <2>0, <4>2 DEF Versions
      <4>4. /\ \A f \in DOMAIN vs \ newFiles : vs[f] = versions[f]
            /\ \A f \in newFiles : vs[f].version = disk[f]
        BY DEF Fresh
      <4> HIDE DEF vs, newFiles
      <4>5. \A f \in newFiles : ~IsAsRead(versions, f)
        BY <4>3 DEF IsAsRead
      <4> QED
        BY <2>0, <3>1, <4>1, <4>3, <4>4, <4>5, CompilingIsHonest
    <3> QED
      BY <3>2, <3>3
  <2>13. ASSUME NEW f \in Files, HandleModified(f) PROVE HonestInv'
    <3> DEFINE vs == [versions EXCEPT ![f].version = disk[f]]
    <3>1. mode = "handle" /\ mode' = "handle" /\ UNCHANGED <<disk, bps, saved, refused, undone>>
      BY <2>13 DEF HandleModified
    <3>2. CASE f \in DOMAIN versions /\ versions[f].version # disk[f]
      <4>1. /\ Compile({f}, Registered(vs, fileNames), Program(vs, fileNames))
            /\ jobs' = Queued({f}, Program(vs, fileNames))
        BY <2>13, <3>2 DEF HandleModified
      <4>2. Versions(vs) /\ DOMAIN vs = DOMAIN versions
        BY <2>0 DEF Versions, Record
      <4>3. /\ vs[f].version = disk[f] /\ \A g \in DOMAIN vs \ {f} : vs[g] = versions[g]
        BY <2>0, <3>2 DEF Versions, Record
      <4> HIDE DEF vs
      <4>4. ~IsAsRead(versions, f)
        BY <3>2 DEF IsAsRead
      <4> QED
        BY <2>0, <3>1, <3>2, <4>1, <4>2, <4>3, <4>4, CompilingIsHonest
    <3>3. CASE ~(f \in DOMAIN versions /\ versions[f].version # disk[f])
      <4>1. UNCHANGED <<js, versions, jobs, failed>>
        BY <2>13, <3>3 DEF HandleModified
      <4> QED
        BY <3>1, <4>1, HonestStays DEF Awaits
    <3> QED
      BY <3>2, <3>3
  <2>14. ASSUME NEW id \in Text, NEW playing \in BOOLEAN, CompileCommand(id, playing)
         PROVE  HonestInv'
    BY <2>0, <2>14, HonestCommands
  <2>15. ASSUME NEW f \in Files, NEW c \in Text, Edit(f, c) PROVE HonestInv'
    BY <2>15, HonestEdits
  <2>16. CASE End
    <3>1. /\ mode' = "off" /\ versions' = Nothing /\ jobs' = Nothing
          /\ UNCHANGED <<disk, js, bps, failed, refused, undone>>
          /\ saved' = saved \/ saved' = [there |-> TRUE, map |-> Nothing]
      BY <2>16 DEF End
    <3> HIDE DEF Nothing
    <3>2. saved'.map = saved.map \/ saved'.map = Nothing
      BY <3>1
    <3>3. SavedIsHonest'
      BY <2>0, <3>1, <3>2
         DEF HonestInv, SavedIsHonest, Vouched, VouchedClass, Unspoilt, OnDisk, IsAsRead
    <3> QED
      BY <2>0, <3>1, <3>3 DEF HonestInv, RecordIsOld, JobsAreFresh, VersionsAreHonest
  <2>17. CASE UNCHANGED vars
    BY <2>17, HonestStays DEF vars, Awaits
  <2> QED
    BY <2>1, <2>2, <2>3, <2>4, <2>5, <2>6, <2>7, <2>8, <2>9, <2>10, <2>11, <2>12, <2>13,
       <2>14, <2>15, <2>16, <2>17 DEF Next, Step
<1> HIDE DEF Known
<1>3. TypeOK /\ WrittenInv /\ StartInv => Known
  BY DEF Known
<1> QED
  BY <1>1, <1>2, <1>3, TypeCorrect, WrittenCorrect, StartCorrect, PTL DEF Spec

\* The record vouches for nothing that is not there: a source that still is what it says,
\* that was emitted when last tried and never had an earlier text back, has its own
\* JavaScript, and its blueprint unless a play session refused it, whatever edits,
\* failed compilations, commands, crashes and restarts lie between
\* (CodeAnalyze.js, watch, onSourceFileAddOrChange and saveVersionsCacheToFile).
THEOREM TheRecordIsHonest == Spec => []RecordIsHonest
<1>1. HonestInv => RecordIsHonest
  BY DEF HonestInv, SavedIsHonest, RecordIsHonest, Vouched, VouchedClass, IsAsRead, Unspoilt
<1> QED
  BY <1>1, HonestCorrect, PTL

=============================================================================
