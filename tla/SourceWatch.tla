----------------------------- MODULE SourceWatch -----------------------------
(***************************************************************************)
(* PuertsEditor/CodeAnalyze.js, watch: the script the editor runs to keep  *)
(* the compiled JavaScript and the blueprints in step with the TypeScript  *)
(* sources.  A start compares the sources with the record of an earlier    *)
(* session (ts_file_versions_info.json), emits what changed, refreshes the *)
(* blueprints and then watches the directory.  A change is announced by    *)
(* the engine, waits 100 ms in a timer, and is then handled file by file.  *)
(*                                                                         *)
(* JavaScript runs to completion, but the sources are written by others:   *)
(* an edit may fall between any two steps below, and the editor may end    *)
(* at any of them.  A content stands for the text of a file and for its    *)
(* MD5 hash alike.                                                         *)
(***************************************************************************)
EXTENDS Naturals, Sequences

CONSTANTS Files, Contents, Absent,
          Uses,        \* for every content, the files it imports
          Faulty,      \* the contents that do not compile
          Unfit,       \* the contents that no importer compiles against
          Classes,     \* the contents that export the class of a blueprint
          Initial,     \* what a source may be before the editor is first started
          MaxEdits, MaxStarts, MaxTimers

ASSUME SourceAssumption ==
    /\ Absent \notin Contents /\ Initial \subseteq Contents \cup {Absent}
    /\ Uses \in [Contents -> SUBSET Files]
    /\ Faulty \subseteq Contents /\ Unfit \subseteq Contents /\ Classes \subseteq Contents

VARIABLES
    disk, js, bps, saved,          \* what outlives the editor
    mode, fileNames, versions, cache, jobs, changed, todo,    \* the script
    watcher, notices, timers,      \* announcements on their way
    edits, starts,
    failed, refused, gone, baseline, written, undone          \* history

script == <<mode, fileNames, versions, cache, jobs, changed, todo>>
news == <<watcher, notices, timers>>
past == <<gone, baseline, written, undone>>
tried == <<failed, refused>>
vars == <<disk, js, bps, saved, script, news, edits, starts, tried, past>>

Text == Contents \cup {Absent}
Record == [version : Text, processed : BOOLEAN, isBP : BOOLEAN]
Fresh(v) == [version |-> v, processed |-> FALSE, isBP |-> FALSE]
Nothing == [f \in {} |-> Absent]
OnDisk == {f \in Files : disk[f] # Absent}

Init ==
    /\ disk \in [Files -> Initial]
    /\ js = [f \in Files |-> Absent]
    /\ bps = [f \in Files |-> Absent]
    /\ saved = [there |-> FALSE, map |-> Nothing]
    /\ mode = "off" /\ fileNames = {} /\ versions = Nothing /\ cache = Nothing
    /\ jobs = Nothing /\ changed = FALSE /\ todo = {}
    /\ watcher = FALSE /\ notices = {} /\ timers = <<>>
    /\ edits = 0 /\ starts = 0
    /\ failed = {} /\ refused = {} /\ gone = {} /\ undone = {}
    /\ baseline = disk
    /\ written = [f \in Files |-> {disk[f]}]

-----------------------------------------------------------------------------
(* The language service.  Its host hands out a snapshot of every root and  *)
(* of every file they import; a snapshot is read again only when the       *)
(* recorded version is not the one it was taken under.  A file the host    *)
(* has no record of is recorded the moment it is asked for.                *)

Version(vs, f) == IF f \in DOMAIN vs THEN vs[f].version ELSE disk[f]
Snapshot(vs, f) ==
    IF disk[f] = Absent THEN Absent
    ELSE IF f \in DOMAIN cache /\ cache[f].version = Version(vs, f) THEN cache[f].text
    ELSE disk[f]

Reached(vs, roots) ==
    {f \in Files :
        \A S \in SUBSET Files :
            /\ roots \subseteq S
            /\ \A g \in S : Snapshot(vs, g) # Absent => Uses[Snapshot(vs, g)] \subseteq S
            => f \in S}
Program(vs, roots) == [f \in Reached(vs, roots) |-> Snapshot(vs, f)]
Cached(vs, roots) ==
    LET read == Reached(vs, roots) \cap OnDisk
    IN  [f \in DOMAIN cache \cup read |->
            IF f \in read THEN [version |-> Version(vs, f), text |-> Snapshot(vs, f)]
            ELSE cache[f]]
Registered(vs, roots) ==
    [f \in DOMAIN vs \cup (Reached(vs, roots) \cap OnDisk) |->
        IF f \in DOMAIN vs THEN vs[f] ELSE Fresh(disk[f])]

Diagnosed(program, f) ==
    \/ program[f] \in Faulty
    \/ \E g \in Uses[program[f]] : program[g] \in Unfit \cup {Absent}

-----------------------------------------------------------------------------
(* onSourceFileAddOrChange for the files fs, the records being vs: a file  *)
(* with diagnostics, or one that the program does not reach, is left as it *)
(* is, its record included.                                                *)

Good(fs, program) ==
    {f \in fs \cap DOMAIN program : program[f] # Absent /\ ~Diagnosed(program, f)}

EmitJavaScript(fs, program) ==
    /\ js' = [f \in Files |-> IF f \in Good(fs, program) THEN program[f] ELSE js[f]]
    /\ failed' = (failed \cup fs) \ Good(fs, program)
Processed(fs, vs, program) ==
    [f \in DOMAIN vs |-> IF f \in Good(fs, program) THEN [vs[f] EXCEPT !.processed = TRUE] ELSE vs[f]]

\* Mutant: every file that compiles is queued, a class or not.
Queued_All(fs, program) ==
    [f \in DOMAIN jobs \cup Good(fs, program) |->
        IF f \in Good(fs, program) THEN program[f] ELSE jobs[f]]

\* pendingBlueprintRefleshJobs, and the mark of a blueprint in the record.
Queued(fs, program) ==
    LET classes == {f \in Good(fs, program) : program[f] \in Classes}
    IN  [f \in DOMAIN jobs \cup classes |-> IF f \in classes THEN program[f] ELSE jobs[f]]
Marked(fs, vs, program) ==
    [f \in DOMAIN vs |-> IF f \in Good(fs, program)
                         THEN [vs[f] EXCEPT !.isBP = program[f] \in Classes] ELSE vs[f]]

\* With both halves.
Compile(fs, vs, program) ==
    /\ EmitJavaScript(fs, program)
    /\ versions' = Marked(fs, Processed(fs, vs, program), program)

-----------------------------------------------------------------------------
(* A start.                                                                *)

Start ==
    /\ mode = "off" /\ starts < MaxStarts
    /\ starts' = starts + 1
    /\ mode' = "hashed"
    /\ fileNames' = OnDisk
    /\ versions' = [f \in OnDisk |-> Fresh(disk[f])]
    /\ UNCHANGED <<disk, js, bps, saved, cache, jobs, changed, todo, news, edits, tried, past>>

\* With any diagnostic the records of the earlier session are taken over and
\* nothing is emitted.
Analyze ==
    /\ mode = "hashed"
    /\ LET program == Program(versions, fileNames)
           diagnostics == \E f \in DOMAIN program :
                              program[f] = Absent \/ Diagnosed(program, f)
           known == Registered(versions, fileNames)
       IN  /\ cache' = Cached(versions, fileNames)
           /\ mode' = IF diagnostics THEN "register" ELSE "emit"
           /\ todo' = IF diagnostics THEN {} ELSE fileNames
           /\ versions' = IF diagnostics
                          THEN [f \in DOMAIN known |->
                                  IF f \in fileNames \cap DOMAIN saved.map
                                  THEN saved.map[f] ELSE known[f]]
                          ELSE known
    /\ UNCHANGED <<disk, js, bps, saved, fileNames, jobs, changed, news, edits, starts,
                   tried, past>>

\* The program that Analyze made.
Analyzed == [f \in DOMAIN cache |-> cache[f].text]
\* Mutant: any record will do, of whatever text.
UpToDate_AnyVersion(f) == f \in DOMAIN saved.map /\ saved.map[f].processed

UpToDate(f) ==
    /\ f \in DOMAIN saved.map
    /\ saved.map[f].version = versions[f].version
    /\ saved.map[f].processed

\* First the JavaScript of what the record does not vouch for.  A source that
\* has been removed since makes getEmitOutput throw, which ends the script.
EmitJs(f) ==
    LET old == f \in DOMAIN saved.map
        vs == [versions EXCEPT ![f].processed = @ \/ UpToDate(f),
                               ![f].isBP = IF old THEN saved.map[f].isBP ELSE @]
    IN  /\ mode = "emit" /\ f \in todo
        /\ ~UpToDate(f) => disk[f] # Absent
        /\ todo' = todo \ {f}
        /\ LET fs == IF UpToDate(f) THEN {} ELSE {f}
           IN  EmitJavaScript(fs, Analyzed) /\ versions' = Processed(fs, vs, Analyzed)
        /\ changed' = (changed \/ ~UpToDate(f))
        /\ UNCHANGED <<disk, bps, saved, mode, fileNames, cache, jobs, news, edits, starts,
                       refused, past>>

EmitDone ==
    /\ mode = "emit" /\ todo = {}
    /\ mode' = "queue"
    /\ todo' = fileNames
    /\ UNCHANGED <<disk, js, bps, saved, fileNames, versions, cache, jobs, changed, news,
                   edits, starts, tried, past>>

\* Then the blueprints: of every class when there is no record at all, else
\* only of the files the record calls blueprints.
WantsBlueprint(f) ==
    \/ ~saved.there
    \/ /\ f \in DOMAIN saved.map
       /\ saved.map[f].isBP
       /\ ~UpToDate(f) \/ bps[f] = Absent
QueueBlueprint(f) ==
    /\ mode = "queue" /\ f \in todo
    /\ WantsBlueprint(f) => disk[f] # Absent
    /\ todo' = todo \ {f}
    /\ LET fs == IF WantsBlueprint(f) THEN {f} ELSE {}
       IN  /\ versions' = Marked(fs, Processed(fs, versions, Analyzed), Analyzed)
           /\ jobs' = Queued(fs, Analyzed)
    /\ changed' = (changed \/ WantsBlueprint(f))
    /\ UNCHANGED <<disk, js, bps, saved, mode, fileNames, cache, news, edits, starts, tried,
                   past>>

Throw(f) ==
    /\ f \in todo /\ disk[f] = Absent
    /\ \/ mode = "emit" /\ ~UpToDate(f)
       \/ mode = "queue" /\ WantsBlueprint(f)
    /\ mode' = "dead"
    /\ UNCHANGED <<disk, js, bps, saved, fileNames, versions, cache, jobs, changed, todo,
                   news, edits, starts, tried, past>>

-----------------------------------------------------------------------------
(* The end of a start and of a handler.  While the game plays in the       *)
(* editor PEBlueprintAsset refuses every change of a layout and logs it;   *)
(* the script neither sees that nor tries again.                           *)

Rebuild(wanted, playing) ==
    LET changing == {f \in DOMAIN wanted : bps[f] # wanted[f]}
    IN  /\ bps' = [f \in Files |-> IF f \in changing /\ ~playing THEN wanted[f] ELSE bps[f]]
        /\ refused' = IF playing THEN refused \cup changing ELSE refused \ DOMAIN wanted

QueueDone ==
    /\ mode \in {"queue", "handle"} /\ todo = {}
    /\ mode' = "refresh"
    /\ UNCHANGED <<disk, js, bps, saved, fileNames, versions, cache, jobs, changed, todo,
                   news, edits, starts, tried, past>>

RefreshBlueprints(playing) ==
    /\ mode = "refresh"
    /\ mode' = "save"
    /\ Rebuild(jobs, playing)
    /\ jobs' = Nothing
    /\ UNCHANGED <<disk, js, saved, fileNames, versions, cache, changed, todo, news, edits,
                   starts, failed, past>>

\* Mutant: the record is not written at the end of a start.
SaveVersions_WatchingOnly ==
    /\ mode = "save"
    /\ mode' = IF watcher THEN "watching" ELSE "register"
    /\ saved' = IF changed /\ watcher THEN [there |-> TRUE, map |-> versions] ELSE saved
    /\ changed' = FALSE
    /\ UNCHANGED <<disk, js, bps, fileNames, versions, cache, jobs, todo, news, edits,
                   starts, tried, past>>

SaveVersions ==
    /\ mode = "save"
    /\ mode' = IF watcher THEN "watching" ELSE "register"
    /\ saved' = IF changed THEN [there |-> TRUE, map |-> versions] ELSE saved
    /\ changed' = FALSE
    /\ UNCHANGED <<disk, js, bps, fileNames, versions, cache, jobs, todo, news, edits,
                   starts, tried, past>>

\* dirWatcher.Watch: changes are announced from now on.
Watch ==
    /\ mode = "register"
    /\ mode' = "watching"
    /\ watcher' = TRUE
    /\ baseline' = disk
    /\ UNCHANGED <<disk, js, bps, saved, fileNames, versions, cache, jobs, changed, todo,
                   notices, timers, edits, starts, tried, gone, written, undone>>

-----------------------------------------------------------------------------
(* The watch.                                                              *)

\* UPEDirectoryWatcher sorts what happened since the last call into sets.
OnChanged ==
    /\ mode = "watching" /\ notices # {} /\ Len(timers) < MaxTimers
    /\ timers' = Append(timers, notices)
    /\ notices' = {}
    /\ UNCHANGED <<disk, js, bps, saved, script, watcher, edits, starts, tried, past>>

\* A file that is removed and added at once is a modified one; the files of the
\* configuration that have no record are compiled together.
TimerFires ==
    LET of(what) == {f \in Files : <<what, f>> \in Head(timers)}
        addFiles == of("added") \ of("removed")
        newFiles == IF addFiles = {} THEN {} ELSE OnDisk \ DOMAIN versions
        vs == [f \in DOMAIN versions \cup newFiles |->
                  IF f \in newFiles THEN Fresh(disk[f]) ELSE versions[f]]
    IN  /\ mode = "watching" /\ timers # <<>>
        /\ mode' = "handle"
        /\ timers' = Tail(timers)
        /\ todo' = of("modified") \cup (of("added") \cap of("removed"))
        /\ changed' = (addFiles # {})
        /\ fileNames' = IF newFiles = {} THEN fileNames ELSE OnDisk
        /\ IF newFiles = {} THEN UNCHANGED <<js, versions, cache, jobs, failed>>
           ELSE /\ Compile(newFiles, Registered(vs, OnDisk), Program(vs, OnDisk))
                /\ jobs' = Queued(newFiles, Program(vs, OnDisk))
                /\ cache' = Cached(vs, OnDisk)
        /\ UNCHANGED <<disk, bps, saved, watcher, notices, edits, starts, refused, past>>

\* Mutant: the new hash is compared and not kept.
HandleModified_OldHash(f) ==
    /\ mode = "handle" /\ f \in todo
    /\ todo' = todo \ {f}
    /\ IF f \in DOMAIN versions /\ versions[f].version # disk[f]
       THEN /\ Compile({f}, Registered(versions, fileNames), Program(versions, fileNames))
            /\ jobs' = Queued({f}, Program(versions, fileNames))
            /\ cache' = Cached(versions, fileNames)
            /\ changed' = TRUE
            /\ gone' = gone \ ({f} \cap OnDisk)
       ELSE UNCHANGED <<js, versions, cache, jobs, changed, failed, gone>>
    /\ UNCHANGED <<disk, bps, saved, mode, fileNames, news, edits, starts, refused,
                   baseline, written, undone>>

\* Mutant: what has changed is left for later, and later never comes.
HandleModified_Later(f) ==
    /\ mode = "handle" /\ f \in todo
    /\ disk[f] \in {versions[g].version : g \in DOMAIN versions \cap {f}}
    /\ todo' = todo \ {f}
    /\ UNCHANGED <<disk, js, bps, saved, mode, fileNames, versions, cache, jobs, changed,
                   news, edits, starts, tried, past>>

HandleModified(f) ==
    LET vs == [versions EXCEPT ![f].version = disk[f]]
    IN  /\ mode = "handle" /\ f \in todo
        /\ todo' = todo \ {f}
        /\ IF f \in DOMAIN versions /\ versions[f].version # disk[f]
           THEN /\ Compile({f}, Registered(vs, fileNames), Program(vs, fileNames))
                /\ jobs' = Queued({f}, Program(vs, fileNames))
                /\ cache' = Cached(vs, fileNames)
                /\ changed' = TRUE
                /\ gone' = gone \ ({f} \cap OnDisk)
           ELSE UNCHANGED <<js, versions, cache, jobs, changed, failed, gone>>
        /\ UNCHANGED <<disk, bps, saved, mode, fileNames, news, edits, starts, refused,
                       baseline, written, undone>>

\* The command "compile": every file whose version it is, blueprints included.
CompileCommand(id, playing) ==
    LET fs == {f \in DOMAIN versions : versions[f].version = id}
        program == Program(versions, fileNames)
    IN  /\ mode = "watching" /\ fs # {}
        /\ Compile(fs, Registered(versions, fileNames), program)
        /\ cache' = Cached(versions, fileNames)
        /\ Rebuild(Queued(fs, program), playing)
        /\ UNCHANGED <<disk, saved, mode, fileNames, jobs, changed, todo, news, edits, starts,
                       past>>

-----------------------------------------------------------------------------
(* The world: programmers and version control write the sources, and the   *)
(* editor ends.                                                            *)

Edit(f, c) ==
    /\ edits < MaxEdits /\ c # disk[f]
    /\ edits' = edits + 1
    /\ disk' = [disk EXCEPT ![f] = c]
    /\ LET what == IF disk[f] = Absent THEN "added" ELSE IF c = Absent THEN "removed"
                   ELSE "modified"
       IN  notices' = IF watcher THEN notices \cup {<<what, f>>} ELSE notices
    /\ written' = [written EXCEPT ![f] = @ \cup {c}]
    /\ undone' = IF c \in written[f] THEN undone \cup {f} ELSE undone
    /\ gone' = IF mode # "off" /\ c = Absent THEN gone \cup {f} ELSE gone
    /\ UNCHANGED <<js, bps, saved, script, watcher, timers, starts, tried, baseline>>

\* The editor ends or crashes; a crash in the write leaves a file that JSON.parse
\* rejects.
End ==
    /\ mode # "off"
    /\ mode' = "off"
    /\ saved' \in {saved} \cup (IF mode = "save" /\ changed
                               THEN {[there |-> TRUE, map |-> Nothing]} ELSE {})
    /\ fileNames' = {} /\ versions' = Nothing /\ cache' = Nothing /\ jobs' = Nothing
    /\ changed' = FALSE /\ todo' = {}
    /\ watcher' = FALSE /\ notices' = {} /\ timers' = <<>>
    /\ gone' = {}
    /\ UNCHANGED <<disk, js, bps, edits, starts, tried, baseline, written, undone>>

Step ==
    \/ Analyze
    \/ \E f \in Files : EmitJs(f)
    \/ EmitDone
    \/ \E f \in Files : QueueBlueprint(f)
    \/ \E f \in Files : Throw(f)
    \/ QueueDone
    \/ \E playing \in BOOLEAN : RefreshBlueprints(playing)
    \/ SaveVersions
    \/ Watch
    \/ OnChanged
    \/ TimerFires
    \/ \E f \in Files : HandleModified(f)

Next ==
    \/ Start
    \/ Step
    \/ \E id \in Text, playing \in BOOLEAN : CompileCommand(id, playing)
    \/ \E f \in Files, c \in Text : Edit(f, c)
    \/ End

Spec == Init /\ [][Next]_vars
\* The engine ticks and runs the script: what it has begun goes on.
FairSpec == Spec /\ WF_vars(Step)

-----------------------------------------------------------------------------
(* What the editor keeps in step.                                          *)

Versions(map) == DOMAIN map \subseteq Files /\ \A f \in DOMAIN map : map[f] \in Record
Batch == SUBSET ({"added", "modified", "removed"} \X Files)

TypeOK ==
    /\ disk \in [Files -> Text] /\ js \in [Files -> Text] /\ bps \in [Files -> Text]
    /\ saved.there \in BOOLEAN /\ Versions(saved.map)
    /\ mode \in {"off", "hashed", "emit", "queue", "refresh", "save", "register", "watching",
                 "handle", "dead"}
    /\ fileNames \subseteq Files /\ todo \subseteq Files /\ Versions(versions)
    /\ DOMAIN cache \subseteq Files
    /\ \A f \in DOMAIN cache : cache[f] \in [version : Text, text : Contents]
    /\ DOMAIN jobs \subseteq Files /\ \A f \in DOMAIN jobs : jobs[f] \in Classes
    /\ changed \in BOOLEAN /\ watcher \in BOOLEAN
    /\ notices \in Batch /\ timers \in Seq(Batch)

\* What the record vouches for is there: a source that still is what its record
\* says, that was emitted when it was last tried, and that was never given back an
\* earlier text, has its own JavaScript, and its blueprint if it is a class and no
\* play session refused it, whenever the editor ended before.
RecordIsHonest ==
    \A f \in DOMAIN saved.map \cap OnDisk :
        saved.map[f].processed /\ saved.map[f].version = disk[f] /\ f \notin failed \cup undone =>
            /\ js[f] = disk[f]
            /\ saved.map[f].isBP /\ disk[f] \in Classes /\ f \notin refused => bps[f] = disk[f]

\* Once the directory is watched no change is lost: a recorded source that is not
\* what it was when the watch began is recorded as it is, or an announcement of
\* it is on its way; unless this session has seen it removed (OnChanged's callback).
Announced(f) ==
    \/ f \in todo
    \/ \E n \in notices : n[2] = f
    \/ \E i \in DOMAIN timers : \E n \in timers[i] : n[2] = f
Overlooked(f) ==
    /\ watcher /\ f \in DOMAIN versions
    /\ disk[f] \notin {versions[f].version, baseline[f], Absent}
    /\ ~Announced(f)
NoLostEdit == \A f \in Files \ gone : ~Overlooked(f)

\* A start that found no diagnostics leaves a record in which the next start,
\* nothing being edited, finds every root up to date.
StartIsComplete ==
    [][(mode = "save" /\ ~watcher /\ mode' = "register") =>
          \A f \in fileNames : /\ f \in DOMAIN saved'.map
                               /\ saved'.map[f].processed
                               /\ saved'.map[f].version = versions[f].version
                               /\ saved'.map[f].isBP /\ f \notin refused => bps[f] # Absent]_vars

\* A change of a recorded source reaches its record, as long as the editor runs.
EditIsSeen ==
    \A f \in Files :
        (mode = "watching" /\ f \in DOMAIN versions /\ Announced(f)) ~>
            (mode = "off" \/ disk[f] = Absent \/ f \in gone
             \/ (f \in DOMAIN versions /\ versions[f].version = disk[f]))
=============================================================================
