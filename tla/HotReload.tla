------------------------------ MODULE HotReload ------------------------------
(***************************************************************************)
(* The incremental hot reload of FJsEnvRuntime                             *)
(* (Source/ReactorUMG/Private/JsEnvRuntime.cpp): which files               *)
(* HotReloadChangedScripts skips, what it pushes into the environments,    *)
(* and how the hash cache LastKnownFileHashes relates to the files on disk *)
(* and to the modules the environments have.  RestartJsScripts,            *)
(* StartJavaScript and RebuildRuntimePool load the same files and are part *)
(* of the model; the compiler (tsc --watch) writes them at any time.       *)
(*                                                                         *)
(* The contents of a file are numbered; 0 is no file, no hash, no module,  *)
(* and Empty is that of a module whose file could not be loaded.           *)
(*                                                                         *)
(* A module of an environment is the one moduleCache has under the full    *)
(* path of its file: the one a push reaches, and the one a script gets     *)
(* that is executed next and requires the file.  Every require function    *)
(* has a copy of its own besides (ModuleCache), which may be older than    *)
(* that module or refer to one that was flagged before it.  The copies are *)
(* not counted here; what they do to moduleCache is in Require, where a    *)
(* file may be executed again though its module is not flagged, or not be  *)
(* executed though it is.                                                  *)
(***************************************************************************)
EXTENDS Integers

CONSTANTS
    Files,          \* the .js and .css files below the script home directory
    Main,           \* the main script's file
    MainNamesFile,  \* MainJsScript is spelt like that file, with its extension
    EnvPoolSize,
    MaxContents     \* bound: the contents a file can have

ASSUME MainAssumption == Main \in Files /\ MainNamesFile \in BOOLEAN
ASSUME SizeAssumption == EnvPoolSize \in Nat \ {0} /\ MaxContents \in Nat \ {0}

VARIABLES
    disk,                   \* file -> its content now
    LastKnownFileHashes,    \* file -> hash
    NewHashes,              \* the same, of the call that runs
    code,                   \* environment -> file -> content of the module
    flagged,                \* environment -> modules with __forceReload set
    pc,                     \* where the call is
    todo,                   \* files the call has not come to
    left,                   \* environments that have not run the main script
    bMainScriptChanged,
    unread,     \* history: files hashed by a call that then could not read them
    ahead       \* history: environment -> files it made a module of, since the last
                \* push, with a content other than the one whose hash is recorded

envVars  == <<code, flagged, ahead, unread>>
callVars == <<pc, todo, left, bMainScriptChanged>>
vars == <<disk, LastKnownFileHashes, NewHashes, code, flagged, pc, todo, left,
          bMainScriptChanged, unread, ahead>>

Envs == 1 .. EnvPoolSize
NoHashes == [f \in Files |-> 0]
NoModules == [f \in Files |-> 0]
OnDisk == {f \in Files : disk[f] # 0}
Loaded(e) == {f \in Files : code[e][f] # 0}
Empty == MaxContents + 1

\* pc is idle, or in the loop over the files (scan), between the hash and the
\* read of one of them (that file), in RestartJsScripts' loop over the files
\* (push), or in the loop that runs the main script (execute).
Points == {"idle", "scan", "push", "execute"} \cup Files

ASSUME PointsAssumption == {"idle", "scan", "push", "execute"} \cap Files = {}

TypeOK ==
    /\ disk \in [Files -> 0 .. MaxContents]
    /\ LastKnownFileHashes \in [Files -> 0 .. MaxContents]
    /\ NewHashes \in [Files -> 0 .. MaxContents]
    /\ code \in [Envs -> [Files -> 0 .. Empty]]
    /\ flagged \in [Envs -> SUBSET Files]
    /\ pc \in Points
    /\ todo \subseteq Files
    /\ left \subseteq Envs
    /\ bMainScriptChanged \in BOOLEAN
    /\ unread \subseteq Files
    /\ ahead \in [Envs -> SUBSET Files]

Init ==
    /\ disk = [f \in Files |-> 1]
    /\ LastKnownFileHashes = NoHashes
    /\ NewHashes = NoHashes
    /\ code = [e \in Envs |-> NoModules]
    /\ flagged = [e \in Envs |-> {}]
    /\ ahead = [e \in Envs |-> {}]
    /\ unread = {}
    /\ pc = "idle"
    /\ todo = {}
    /\ left = {}
    /\ bMainScriptChanged = FALSE

-----------------------------------------------------------------------------
(* The compiler and the developer, at any time.                             *)

\* A file gets new content or, when an edit is undone, an earlier one.
Write(f) ==
    /\ \E v \in 1 .. MaxContents : disk' = [disk EXCEPT ![f] = v]
    /\ UNCHANGED <<LastKnownFileHashes, NewHashes, envVars, callVars>>

Delete(f) ==
    /\ disk' = [disk EXCEPT ![f] = 0]
    /\ UNCHANGED <<LastKnownFileHashes, NewHashes, envVars, callVars>>

-----------------------------------------------------------------------------
(* What an environment does with files.                                     *)

\* Mutant: without ForceReloadJsFile.
Push_Unflagged(f) ==
    \E edited \in SUBSET {e \in Envs : f \in Loaded(e)} :
        /\ code' = [e \in Envs |->
                       IF e \in edited THEN [code[e] EXCEPT ![f] = disk[f]]
                                       ELSE code[e]]
        /\ ahead' = [e \in Envs |-> ahead[e] \ {f}]
        /\ unread' = unread \ {f}
        /\ UNCHANGED flagged

\* ReloadModule and ForceReloadJsFile of f in every environment that has loaded
\* it: V8 replaces the code of the live module or refuses to (and has none to
\* replace for a .css file), and the module is flagged.
Push(f) ==
    \E edited \in SUBSET {e \in Envs : f \in Loaded(e)} :
        /\ code' = [e \in Envs |->
                       IF e \in edited THEN [code[e] EXCEPT ![f] = disk[f]]
                                       ELSE code[e]]
        /\ flagged' = [e \in Envs |->
                          IF f \in Loaded(e) THEN flagged[e] \cup {f} ELSE flagged[e]]
        /\ ahead' = [e \in Envs |-> ahead[e] \ {f}]
        /\ unread' = unread \ {f}

\* The scripts that run in environment e, where the modules in marks have
\* __forceReload set, require files. Some of the files are loaded anew: which ones
\* depends on the modules and on the copies that the require functions have. Of
\* these some throw when they are executed, and require() drops their modules;
\* some cannot be read, and then moduleCache is left with a module that exports
\* nothing.
Require(e, marks) ==
    \E executed, empty, dropped \in SUBSET OnDisk :
        LET anew == executed \cup empty \cup dropped
            other == {f \in executed : disk[f] # LastKnownFileHashes[f]}
        IN  /\ code' = [code EXCEPT ![e] =
                           [f \in Files |-> IF f \in executed THEN disk[f]
                                            ELSE IF f \in empty THEN Empty
                                            ELSE IF f \in dropped THEN 0
                                            ELSE @[f]]]
            /\ flagged' = [flagged EXCEPT ![e] = marks \ anew]
            /\ ahead' = [ahead EXCEPT ![e] = (@ \ anew) \cup other \cup (empty \ executed)]
            /\ UNCHANGED unread

\* A widget starts the main script, or a callback of a script that runs requires
\* files, while no call runs or in a script that one runs.
StartJavaScript(e) ==
    /\ pc \in {"idle", "execute"}
    /\ Require(e, flagged[e])
    /\ UNCHANGED <<disk, LastKnownFileHashes, NewHashes, callVars>>

\* Release, ForceReloadJsFile(MainJsScript), Start, Release: the loop at the end of
\* both RestartJsScripts and HotReloadChangedScripts, and its end. The name may
\* be one that is found under a relative path: then it has a module of its own.
RunMainScript(e) ==
    /\ pc = "execute"
    /\ e \in left
    /\ \E marks \in {flagged[e], flagged[e] \cup ({Main} \cap Loaded(e))} :
           Require(e, marks)
    /\ left' = left \ {e}
    /\ pc' = IF left = {e} THEN "idle" ELSE pc
    /\ UNCHANGED <<disk, LastKnownFileHashes, NewHashes, todo, bMainScriptChanged>>

-----------------------------------------------------------------------------
(* HotReloadChangedScripts.                                                 *)

HotReloadChangedScripts ==
    /\ pc = "idle"
    /\ pc' = "scan"
    /\ todo' = OnDisk
    /\ UNCHANGED <<disk, LastKnownFileHashes, NewHashes, envVars, left,
                   bMainScriptChanged>>

\* One file: its hash is recorded, and unless the last call recorded the same
\* one the file is read next. A file that cannot be hashed is passed over.
HashFile(f) ==
    /\ pc = "scan"
    /\ f \in todo
    /\ todo' = todo \ {f}
    /\ \/ UNCHANGED <<pc, NewHashes>>
       \/ /\ f \in OnDisk
          /\ NewHashes' = [NewHashes EXCEPT ![f] = disk[f]]
          /\ pc' = IF LastKnownFileHashes[f] = disk[f] THEN pc ELSE f
    /\ UNCHANGED <<disk, LastKnownFileHashes, envVars, left, bMainScriptChanged>>

\* ReadFileContent fails.
ReadFileFails(f) ==
    /\ pc = f
    /\ pc' = "scan"
    /\ unread' = unread \cup {f}
    /\ UNCHANGED <<disk, LastKnownFileHashes, NewHashes, code, flagged, ahead, todo,
                   left, bMainScriptChanged>>

\* ReadFileContent succeeds, on what the file holds by then.
ReadFile(f) ==
    /\ pc = f
    /\ f \in OnDisk
    /\ pc' = "scan"
    /\ Push(f)
    /\ bMainScriptChanged' = (bMainScriptChanged \/ (f = Main /\ MainNamesFile))
    /\ UNCHANGED <<disk, LastKnownFileHashes, NewHashes, todo, left>>

\* Mutant: the files are hashed when the call is over.
EndScan_Rehash ==
    /\ pc = "scan"
    /\ todo = {}
    /\ LastKnownFileHashes' = disk
    /\ NewHashes' = NoHashes
    /\ left' = IF bMainScriptChanged THEN Envs ELSE {}
    /\ pc' = IF bMainScriptChanged THEN "execute" ELSE "idle"
    /\ bMainScriptChanged' = FALSE
    /\ UNCHANGED <<disk, envVars, todo>>

\* The new hashes replace the old ones, and the main script runs if it changed.
EndScan ==
    /\ pc = "scan"
    /\ todo = {}
    /\ LastKnownFileHashes' = NewHashes
    /\ NewHashes' = NoHashes
    /\ left' = IF bMainScriptChanged THEN Envs ELSE {}
    /\ pc' = IF bMainScriptChanged THEN "execute" ELSE "idle"
    /\ bMainScriptChanged' = FALSE
    /\ UNCHANGED <<disk, envVars, todo>>

InvalidateFileHashCache ==
    /\ pc = "idle"
    /\ LastKnownFileHashes' = NoHashes
    /\ UNCHANGED <<disk, NewHashes, envVars, callVars>>

-----------------------------------------------------------------------------
(* RestartJsScripts and RebuildRuntimePool.                                 *)

RestartJsScripts ==
    /\ pc = "idle"
    /\ pc' = "push"
    /\ todo' = OnDisk
    /\ UNCHANGED <<disk, LastKnownFileHashes, NewHashes, envVars, left,
                   bMainScriptChanged>>

\* Every file that can be read is pushed, whatever its hash.
PushFile(f) ==
    /\ pc = "push"
    /\ f \in todo
    /\ todo' = todo \ {f}
    /\ UNCHANGED envVars \/ (f \in OnDisk /\ Push(f))
    /\ UNCHANGED <<disk, LastKnownFileHashes, NewHashes, pc, left, bMainScriptChanged>>

EndPush ==
    /\ pc = "push"
    /\ todo = {}
    /\ pc' = "execute"
    /\ left' = Envs
    /\ UNCHANGED <<disk, LastKnownFileHashes, NewHashes, envVars, todo,
                   bMainScriptChanged>>

\* Mutant: the old environments are not taken out of the pool.
RebuildRuntimePool_KeepsEnvs ==
    /\ pc = "idle"
    /\ code' = [e \in 1 .. 2 * EnvPoolSize |-> NoModules]
    /\ flagged' = [e \in Envs |-> {}]
    /\ ahead' = [e \in Envs |-> {}]
    /\ unread' = {}
    /\ LastKnownFileHashes' = NoHashes
    /\ UNCHANGED <<disk, NewHashes, callVars>>

\* New environments, which have loaded nothing, and no hashes.
RebuildRuntimePool ==
    /\ pc = "idle"
    /\ code' = [e \in Envs |-> NoModules]
    /\ flagged' = [e \in Envs |-> {}]
    /\ ahead' = [e \in Envs |-> {}]
    /\ unread' = {}
    /\ LastKnownFileHashes' = NoHashes
    /\ UNCHANGED <<disk, NewHashes, callVars>>

-----------------------------------------------------------------------------

Next ==
    \/ \E f \in Files : Write(f) \/ Delete(f)
    \/ \E e \in Envs : StartJavaScript(e) \/ RunMainScript(e)
    \/ HotReloadChangedScripts
    \/ \E f \in Files : HashFile(f) \/ ReadFile(f) \/ ReadFileFails(f)
    \/ EndScan
    \/ InvalidateFileHashCache
    \/ RestartJsScripts
    \/ \E f \in Files : PushFile(f)
    \/ EndPush
    \/ RebuildRuntimePool

Spec == Init /\ [][Next]_vars

-----------------------------------------------------------------------------
(* Correctness.                                                             *)

\* Environment e has no module of f, or has one that is up to date with the
\* content v, or will execute f when a new script requires it.
IsCurrent(e, f, v) == code[e][f] \in {0, v} \/ f \in flagged[e]

\* What HotReloadChangedScripts may rely on when it passes over a file because its
\* hash has not changed: the module of every environment has that content, or is
\* flagged. Files are written, undone and deleted while the call runs, hashing
\* and reading fail, scripts throw, and restarts and widgets execute files
\* without recording a hash. Three cases break it, and only those: a call recorded
\* the hash of the file and then could not read it (JsEnvRuntime.cpp:270, 287); an
\* environment executed the file while it had another content, which was undone
\* before a call saw it (:274); or it could not load the file and has been left
\* with a module that exports nothing (modular.js:301, 314).
UnchangedIsCurrent ==
    \A f \in OnDisk : LastKnownFileHashes[f] = disk[f] =>
        \/ f \in unread
        \/ \A e \in Envs : IsCurrent(e, f, disk[f]) \/ f \in ahead[e]
=============================================================================
