# ReactorUMG in TLA+

ReactorUMG is an Unreal Engine plugin: widgets whose tree is built by a
React/TypeScript script, which runs in a V8 environment of the vendored PuerTS.
This directory holds TLA+ models of the plugin's own logic and of the parts of
PuerTS it is built on (the JavaScript that watches the TypeScript sources,
compiles decorators to metadata, refreshes blueprints and loads style sheets),
translated from the C++ and the JavaScript, the TLC runs that check them on
small instances, and proofs, checked by TLAPS, of the properties that matter
most.

Paths below are relative to the repository; `Private` is
`Source/ReactorUMG/Private`, `Editor` is `Source/ReactorUMGEditor/Private`, `JS`
is `Scripts/System/JavaScript`, `PE` is `Source/Puerts/PuertsEditor/Private`.

## 1. Inventory

| Part | State it keeps | Operations | What makes it correct |
|---|---|---|---|
| `FJsEnvRuntime`, pool (`Private/JsEnvRuntime.cpp`) | environment -> idle/in use; per environment the `Started` latch, the caches of `require` and the argument map | `GetFreeJsEnv`, `ReleaseJsEnv`, `StartJavaScript`, `RestartJsScripts`, `RebuildRuntimePool` | one borrower per environment; all come back; no script is refused |
| `FJsEnvRuntime`, hot reload | file -> hash of the last pass | `HotReloadChangedScripts`, `InvalidateFileHashCache` | a skipped file is current everywhere |
| `UJsBridgeCaller` | script path -> caller object; its `MainCaller` delegate | add, remove, exists, `ExecuteMainCaller` | a registered caller is bound, or about to be |
| `UReactorUIWidget` | borrowed environment, mounted tree | `Initialize`, `RunScriptToInitWidgetTree`, `BeginDestroy`, `NativeTick` | every path gives the environment back; the tree is mounted |
| `UReactorUtilityWidget` (`Editor`) | the same | the same, but always a restart | the same |
| `UReactorUMGCommonBP` (`Editor`) | paths, directory monitor | `ExecuteJsScripts`, `ReloadJsScripts`, `CompileTsScript`, the monitor | the same; the compiled files mirror the sources |
| `UUMGManager`, batched sync | two queues of weak pointers | queue, flush | no change of a property is lost; it reaches Slate |
| `UUMGManager`, images | none (pending requests in the engine) | `LoadBrushImageObject` | exactly one of the two callbacks, at some time |
| `UUMGManager`, widget tree | root of a `UWidgetTree` | add, remove the root | the root and its slot agree |
| `UUMGManager`, gradients, geometry; `FReactorUtils`; settings | none | pure functions, engine queries, file I/O | - |
| PuerTS `FJsEnvImpl` | V8 isolate, modules, timers, delegate proxies, object map | start, reload, timers, delegates, bind/unbind | timers fire once; proxies die with their owner |
| PuerTS `modular.js`, `argv.js`, `hot_reload.js`, `promises.js` | caches, pending commands, rejections | require, forceReload, live edit | a module is executed once per load |
| Style sheets (`JS/puerts/modular.js`) | the cache of styles, the shared map of selectors, the exports of module sheets | parse, require, forceReload, getStyle | a sheet is applied as its text says, whatever the order of loading; of media queries only the last sheet's block is kept |
| Source watch (`JS/PuertsEditor/CodeAnalyze.js`, `PE/PEDirectoryWatcher.cpp`) | record of the versions, in memory and on disk; snapshots; pending blueprint jobs; announcements and timers | start, analyse, emit, refresh, save, watch, handle, the command `compile` | the record vouches only for what is there; no edit is lost |
| Decorators (`JS/PuertsEditor/UEMeta.js`, tables of `JS/puerts/uelazyload.js`) | queue of specifiers, flags, metadata of one declaration | collect, process, validate | the result does not depend on accidents of the order; contradictions are refused |
| Types and members (`JS/PuertsEditor/CodeAnalyze.js`) | the walk over a class | pin of a type, flags, members | the blueprint is told what the class says |
| `UPEBlueprintAsset` (`PE/PEBlueprintAsset.cpp`) | graphs, events, variables, components of a blueprint; what was added; `NeedSave` | add function, variable, component; prune; save | after a refresh the blueprint is the class, and saved |
| Code generators, `WasmCore`, other PuertsEditor files, Spine, project template | - | - | vendored, or text generation |

How they interact. Everything runs on the game thread. A widget registers a
caller under its script's path, borrows an environment, and starts the script
with the caller among its arguments; the script binds a function to the
caller's delegate; the widget gives the environment back and executes the
delegate, which mounts the React tree. Later, the reconciler's commits call
`UUMGManager` and the widget's tick flushes them. What makes it hard:

* **re-entrancy**: the JavaScript that C++ waits for may create further widgets,
  which go through the same pool and the same map before the outer call returns;
  a `SynchronizeProperties` may run JavaScript inside the flush that calls it;
* **sharing**: the caller's key is the script path, the same for all instances of
  a widget class; a restart walks all environments, borrowed or not;
* **things that outlive each other**: module caches and argument maps that outlive
  a start, callers that outlive their environment, hashes that outlive a load;
* **failure half-way**: no environment, a script that throws or does not bind, a
  file that is hashed and cannot be read, a change of a blueprint that a play
  session refuses in the middle of a member;
* **a world that writes**: sources are edited, removed and put back between any
  two steps, and the editor may end at any of them;
* **order**: specifiers, sheets and members come in any order, and each looks only
  at what came before.

The tools: the editor runs `CodeAnalyze.js` in an environment of its own. It
compiles a changed source to JavaScript (which the hot reload of `FJsEnvRuntime`
then finds changed), reads the decorators of its class with `UEMeta.js`, and tells
`UPEBlueprintAsset` what the blueprint must have. The scripts of the widgets
import style sheets, whose classes the reconciler looks up.

The full list of hazards, each at its line, is in `PROJECT.json`.

## 2. Modules

| Module | Models | |
|---|---|---|
| `ModuleCache` | the two caches of `require` for one name and one key | operators |
| `JsEnvRuntime` | the pool and what an environment remembers | EXTENDS ModuleCache; operators: the effect of each member function |
| `JsBridgeCaller` | the map of callers and their binding | EXTENDS JsEnvRuntime |
| `ReactorWidgets` | widgets, utility widgets, blueprints, the call stack | EXTENDS JsBridgeCaller; the composed specification |
| `EnvLease` | what the pool promises its clients | abstract; ReactorWidgets implements it |
| `ReactorWidgets_proofs` | theorems about ReactorWidgets | |
| `HotReload` | hash cache, files, what environments have loaded | |
| `HotReload_proofs` | theorems about HotReload | |
| `BatchedSync` | the two queues and their flush | |
| `BatchedSync_proofs` | theorems about BatchedSync | |
| `SourceWatch` | sources, compiled files, record, watch | the crash model; fairness |
| `SourceWatch_proofs` | theorems about SourceWatch | |
| `FlagTables` | the flag tables of `uelazyload.js` | |
| `MetaSpecifiers` | expressions of decorators, common metadata | EXTENDS FlagTables |
| `UEMeta` | one declaration from decorators to metadata | EXTENDS MetaSpecifiers |
| `UEMeta_proofs` | theorems about UEMeta | |
| `BlueprintTypes` | pins, flags, which members count | EXTENDS FlagTables; operators |
| `BlueprintEmit` | the walk over a class and the asset it changes | EXTENDS BlueprintTypes |
| `BlueprintEmit_proofs` | what every operation of BlueprintEmit does; nothing escapes the save | |
| `BlueprintRefresh_proofs` | theorems about whole refreshes | EXTENDS BlueprintEmit_proofs |
| `StyleSheets` | style sheets under require and forceReload | |
| `StyleSheets_proofs` | theorems about StyleSheets | |
| `MC...` | constants for TLC | |

### ReactorWidgets (with ModuleCache, JsEnvRuntime, JsBridgeCaller)

One action is the code between two points at which other JavaScript may run. A
call is a *frame*: `pc[a]` says where actor `a` is, `depth[a]` the height of its
frame on the game thread's stack, `level` the height of the stack. Only the top
frame moves; a widget is created with an empty stack or, if `Nesting`, by the
JavaScript on top (points `script` and `mount`). The points:

    absent -> reload -> start -> script -> returned -> (next environment)
                          |         |          |
                          +---------+----------+-> finish -> execute -> mount -> live

`reload` .. `returned` is one turn of the loop in `RestartJsScripts`
(JsEnvRuntime.cpp:202-210), `start`/`script` is `FJsEnvImpl::Start`, `finish` is
the widget's `ReleaseJsEnv`, `execute` its `ExecuteMainCaller`.

* An environment has one `moduleCache`, by the path that was found for a name (the
  *key*), and a `localModuleCache`, by name, of the `require` through which it starts
  scripts. A widget starts its script by a relative name (ReactorUMGCommonBP.cpp:164,
  412), a blueprint by the full path (:329, 345). `FullPath` relates the two names,
  `SharedKey` says whether both are found at one key: a relative name is looked for
  below `ProjectContentDir`, which may be an absolute path or not. `forceReload` sets
  its flag in the object that `moduleCache` has; the local entry of another name may
  refer to that object (`same`), to one that was flagged before it was replaced
  (`stale`) or to one that was not (`old`), and an old one is returned for ever.
  Other modules than launch scripts are in HotReload.
* `argv[e]` is the argument `ReactorUIWidget_BridgeCaller` of environment `e`,
  which stays until the next Start overwrites it. A script binds the caller it
  *finds*, not the one that was meant.
* A binding is an environment number, `Unbound`, `Dead` (its environment was
  destroyed: the delegate's proxy is there, does nothing, and `ExecuteIfBound`
  reports success) or `Expired` (the proxy was collected: not bound).
* `Faults` says what may go wrong: a script binds nothing, throws, its directory
  is gone; the mounted tree throws.
* `UReactorUMGCommonBP` is only called from the editor's event loop (`level = 0`),
  where by `QuietPoolIsFree` an environment is always free.

### HotReload

Contents of a file are numbered, so a hash is the number of the content; 0 is none.
`code[e][f]` is the content of module `f` in environment `e`, `flagged[e]` the modules
that have `__forceReload` set. The compiler may write, and the developer undo and
delete, between any two steps of a call, also between hash and read; hashing and reading
may fail at any time. V8 may refuse to replace the code of a live module (and has no
script for a .css file): `Push` leaves that open and sets the flag in any case, as the
code does. What scripts require when they run (`Require`) is any set of files: the
copies that the `require` functions keep decide which are executed again, and the model
admits every outcome of them instead of keeping them (ModuleCache has the mechanism).
Of the executed some throw, which drops their modules; some cannot be loaded, which
leaves a module that exports nothing (`Empty`, modular.js:301, 314).

Two history variables name what the hash cache cannot know: `unread`, the files whose
hash a call recorded before it failed to read them, and `ahead`, those an environment
made a module of, since the last push, from another content than the recorded one, or
from none. They occur in no guard. `UnchangedIsCurrent` says that a file hot reload
skips is current in an environment, or flagged, unless it is in one of them.

No code of the repository calls `HotReloadChangedScripts`; it is an exported function of
the module, and is modelled as callable at any time. Which spelling of the main script
its caller would pass is open (`MainNamesFile`). Assumed: the two spellings of a file
that `ReloadModule` and `ForceReloadJsFile` get resolve to one entry of the module cache,
and hashes do not collide. A restart or hot reload *inside* a script that runs is not in
this module.

### BatchedSync

`changed` are the objects with a property that Slate has not seen, `setByHandler`
those of them that a handler set during a flush. The flush is one step per visited
object. `VisitCallsBack` is a visit during which JavaScript
runs and queues an object: whether the range-for comes to an element that was
added while it walks the set depends on where the set stores it, so both happen.
Modelled for UE 5.3 and later; earlier engines have only the loop over the slots.

### SourceWatch

`watch` of `CodeAnalyze.js`. `disk`, `js`, `bps` and `saved` (the sources, the
compiled files, the blueprints, `ts_file_versions_info.json`) outlive the editor;
everything else is lost with it. `mode` says where the script is:

    off -> hashed -> emit -> queue -> refresh -> save -> register -> watching
              |        |       |                            ^           |  ^
              |        +-------+--> dead (an exception)     |        handle
              +----------- any diagnostic ------------------+           |
                                                     refresh -> save ---+

A step handles one file; between two steps the sources may be edited, removed and
put back, and the editor may end (`End`), also in the write of the record, which
leaves a file that `JSON.parse` rejects. What the directory watcher collects
(`notices`) waits in a timer of its own (`timers`) and is handled file by file.

* A content stands for the text of a file and its hash; the code hashes and reads a
  file in two calls, the model in one.
* TypeScript is external. What the code sees of it: which files a content imports
  (`Uses`), that it does not compile (`Faulty`), or not for those who import it
  (`Unfit`). The host of the language service is modelled: a snapshot is read again
  only under a new version, and a file without a record is recorded when it is
  first asked for.
* `CompileCommand` is the command `compile`, which passes over the record.
* `Rebuild` is the refresh as far as the record sees it: it may be refused while the
  game plays (`refused`), which nothing tries again. BlueprintEmit has the details.

### UEMeta (with MetaSpecifiers, FlagTables)

One declaration after another: `Collect` reads an expression of a decorator (common
keys go to the metadata at once, the others to the queue), `ProcessSpecifier` takes
the first of the queue, `Finish` validates. There is one operator per group of
specifiers with the same code, each with the tests and assignments of its branch.
A flags word is the set of the names of its bits. Values are words; the texts of
errors are left out. That a specifier is *offered* by `uelazyload.js` and not known
to `UEMeta.js` is part of the model: the vocabulary of the run is the union.

### BlueprintEmit (with BlueprintTypes)

`BlueprintTypes` has what is computed: the pin of a type (`PinOf`, recursive
function over a set of types), the flags of a property, which members count.
`BlueprintEmit` walks a class: `Begin`, then `Skip`, `AddParameter`, `EmitFunction`
or `EmitProperty` for the first member to come, then `Finish`, which prunes and
saves. A change is `Checked` (CanChangeCheck: in a play session `NeedSave` is
dropped and the call returns) or `Unchecked`; the model keeps which are which, and
in what order they come, because a refusal leaves what was done before it. The
functions of the asset compose such changes. Between refreshes the class is edited
(`Edit`) and the game is played (`TogglePlay`). `fresh` says that the last refresh was
outside a play session, `touched` that one inside has left something unsaved.

### StyleSheets

An importer holds a module of a sheet (`held`: none, fresh, stale when flagged or
undefined after a failure, old when another importer has replaced it), the
environment holds the last one (`module`). A text is the sequence of its rules, one
for each selector of a list; a scoped name is the pair of sheet and selector, so the
hash in it is taken to tell paths apart; `.module.scss` is a plain sheet, as in the
code. `styles` is the global cache, keyed by the blocks, the scoped selector and the
pseudo-class. What the model brought out, and the properties state as it is:

* `Object.assign` (modular.js:136) replaces the whole block of a media query: of two
  sheets with the same query only the one parsed last has it, private or not
  (`MediaIsOfOneSheet`);
* a query nested in another is stored and never found, a pseudo-class without a rule
  of the selector itself never applies, and two selectors with the same camel-case
  name share one export (`GetStyle`, `Exports`);
* an importer that is not executed again parses a flagged sheet once more for
  itself, while others keep the module that was replaced; selectors that have left a
  sheet stay in the cache.

## 3. Runs

| Run | Result | Instance | Shows |
|---|---|---|---|
| `widgets_pool` | pass | two instances of a class, nesting, pool 2, all faults | types; the pool implements EnvLease; every environment comes back; no "Started yet!"; no unbound caller stays registered |
| `widgets_restart` | pass | a widget, its blueprint and a utility widget, nesting, pool 1 | a restart binds its own caller, whatever it finds but a superseded module; a nested widget without an environment leaves nothing behind |
| `hot_reload_edits` | pass | 2 files, 1 environment, 2 contents, all faults | a skipped file is current, but for three named cases |
| `sync_flush` | pass | 2 widgets of which one calls back, 2 slots, fairness | no commit lost, no slot change lost; commits reach Slate |
| `source_watch` | pass | 2 sources, one imports the other; 3 contents, 2 edits, 2 starts, fairness | the record is honest after any crash; a start is complete; no edit is lost, and it is seen |
| `ue_meta` | pass | every specifier, 2 (classes) or 3 of them, in every order | class specifiers obey the last; functions are consistent and say their reliability; property specifiers commute |
| `blueprint` | pass | 3 bases; one member of every sort, and up to four | after a refresh the blueprint has the members, signatures and variables of the class, and is saved |
| `style_sheets` | pass | 2 plain sheets and a module sheet, 2 scripts, 2 texts | sheets are applied as they say, in any order of loading |
| `widget_recreated` | violation | one widget | destroyed and created again, a widget stays blank |
| `restart_superseded` | violation | a widget and its blueprint | a reload of the blueprint may execute nothing |
| `sync_reentrant` | violation | one widget calls back | a change queued during the flush is dropped |
| `rep_skip` | violation | as `blueprint` | a property that is not to be replicated gets `CPF_RepNotify`, the rest of the upper word and a notification function |

The violations are disagreements between the code and its own comments; the
"findings" of `PROJECT.json` quote both.

**Also seen**, while the models were written, and not kept as runs. Of ReactorWidgets:
two instances of a class share a caller, and the one that is destroyed first removes it
under the other (ReactorUIWidget.cpp:37); a rebuild of the pool leaves callers bound to
environments that are gone, for nothing calls `ClearAllBridgeCaller`; a restart of a
widget (a second play session) may be given a superseded module too, where the blueprint
reloaded the script since (`IsSuperseded`, the exception of `RestartRebinds`). Of
HotReload, the exceptions of `UnchangedIsCurrent`: an edit that is undone after a
restart or a widget has executed it is skipped (JsEnvRuntime.cpp:274); the hash is
recorded before the file is read (:270), so that a file that could not be read is
skipped by the next hot reload; a file that could not be loaded leaves an empty module,
and hot reload skips it. A main script named without its extension, as a widget's is,
never equals the changed file (:298) and would not be executed again, which the comment
at :311 promises; a blueprint's full path would match. Of SourceWatch: a file is
recorded before it is compiled, with `processed` left true when it does not compile; a
record cut short by a crash is taken for an empty one that exists, and blueprints are
skipped; a source that vanishes between its hash and its turn ends the script; what a
play session refuses is not tried again. Of BlueprintEmit: a blueprint that is first
created while the game plays is a null pointer; two flags or more in a comment `@flags`
lose those of the upper word; the graph of a notification is asked for only when the net
flags change (PEBlueprintAsset.cpp:1122-1139), so the next refresh prunes it while
`RepNotifyFunc` stays; a notification takes no notice of an event that has its name, and
an output parameter none of `ReturnValue` (the theorems name both as hypotheses). Of
UEMeta: `Exec` after `Client` is refused, `Client` after `Exec` is not (the message of
UEMeta.js:781 says that no replicated function can be `Exec`); `BlueprintNativeEvent`
after `BlueprintImplementableEvent` is refused, and in the other order it is not; the
identifier 65536 is accepted and stored as 0; `SetParamFlags` is given the flags of a
parameter shifted the wrong way (`<< 32n`, UEMeta.js:1095), which costs nothing while
only flags of the lower word are read.

**Bounds.** `PoolSize` 1 is what the program has (`EnvPoolSize` of the singleton
defaults to 1); 2 makes the loop of the restart turn and lets two frames hold
environments. `RestartRebinds` is checked for 1 only: with 2 environments and nested
creation it is false, because a nested restart overwrites the argument map of the outer
frame's next environment. `Callers` bounds the addresses of caller objects;
`CallersSuffice` (MCReactorWidgets) says that a new caller always finds one, and holds
in both passing instances, so the bound cuts off nothing. Caller addresses are symmetric.
Two instances of one class cover what they share and how they nest; the restart run adds
a class with a script of its own, and the blueprint's second name for the first one, at
one key (`SharedKey`), where the names can disturb each other.
`hot_reload_edits`: `MaxContents` 2 is enough for an edit and its undoing, 2 files tell
the main script from others. Environments share nothing but the hash cache, and the
singleton has one, so the run has one; the proof is for any number. The main script is
named like its file, so that its loop is reached; `UnchangedIsCurrent` does not depend on
it. `text`, `spine` and two slots give each queue an element before and after the one
that calls back.

`source_watch`: two files are needed for an import, two starts for a record that is
used, two edits for an edit and what undoes it; with one timer a batch waits while the
next is collected. The safety properties also hold with three edits (1.9 million
states). `ue_meta`: the tests of a specifier are about one other, so two in every order
show each, and three let a third come between; a class has flags and lists that pairs
decide. `blueprint`: a class of one member is edited into every other, so each sort of
member follows each; the classes of two to four have what concerns order, swaps,
parameters left over and a method that is also a notification. `style_sheets`: two plain
sheets compete for a name, a module sheet must keep out of it; one edit makes every text
meet every state of the caches, and two edits (480,000 states) show nothing else.

**Fairness.** `BatchedSync!FairSpec`: a widget that stays on screen ticks again, and
a tick that has begun goes on; nothing is assumed of commits or of showing a
widget. `SourceWatch!FairSpec` has weak fairness of `Step`: the engine ticks, timers
fire and the script goes on with what it has begun. Nothing is assumed of edits, of
starts and ends, or of the command. Deadlock is checked in every run but
`source_watch`, where the bounds on edits and starts bring the system to rest.

## 4. Proofs

All theorems hold for every value of the constants that satisfies the named
assumptions in the modules.

**ReactorWidgets_proofs.** The inductive invariant `Inv` is
`TypeOK /\ StackInv /\ LeaseInv /\ FrameInv /\ StartedInv /\ NoHalfRegisteredCaller`.
`StackInv`: frames have distinct heights and those below the top are in
JavaScript; it is what makes "the top frame" one frame. `LeaseInv`: an environment
is marked 1 iff exactly one actor holds it, and only frames between borrowing and
`ReleaseJsEnv` hold one; the early returns are where it could break. `FrameInv`:
`StartJavaScript` runs in the environment the frame holds. `StartedInv`: a started
environment is about to be released by the *top* frame; without it a nested
`Start` could be refused, and `QuietPoolIsFree` would not follow from the lease.
Lemma `Invariance` has one step per action. From it follow

* `TypeCorrect`, `QuietPool` (`QuietPoolIsFree`), `NeverRefused`
  (`StartNeverRefused`), `CallersGetBound` (`NoHalfRegisteredCaller`);
* `PoolImplementsLease`: every step of ReactorWidgets is a step of EnvLease, or a
  stutter, under `lease <- JsEnv, busy <- JsRuntimeEnvPool`;
* `RestartsRebind` (`RestartRebinds`) under two hypotheses: the pool has one
  environment, as the singleton's has, or widgets create no widgets; and of the faults
  only a mounted tree that throws may happen, for a script that fails binds nothing.
  With two environments and nesting it is false (see the bounds). The invariant
  `RestartInv` follows the restart of the only instance of a script from point to point:
  the caller it registered is the one its script's name stands for, `require` will
  execute the script or has a superseded module for that name, the argument is the
  caller's, the binding is to the environment just executed. It rests on `LoneFrames` (a
  frame that nobody can nest in is the only one of its actor) and `HoldersHold`, which
  together say that what runs on top of the restart neither executes a script nor
  overwrites the argument; and on `OldInv`, that an old copy exists only where the
  environment knows another name of the same key. A project that starts no script by two
  names has none, and there the exception is void.

**HotReload_proofs.** `TypeCorrect` and `SkippingIsSound` (`UnchangedIsCurrent`), without
hypotheses: for any files, contents and environments, whatever is written, undone,
deleted or fails. The invariant `HashInv` says of every recorded hash, old or of the call
that runs, that the module of its file is of that content, or flagged, or named by
`unread` or `ahead`, in the middle of a call too; a file between hash and read is the one
it says nothing of.

**BatchedSync_proofs.** `TypeCorrect`; `NoCommitIsLost` (`NoLostCommit`, whatever
calls back) and `NoSlotIsLost` (`NoLostSlotChange`, when only widgets call back).
Both are inductive with TypeOK. `NoLostChange`, the same for what handlers set on
widgets, is false: that is the run `sync_reentrant`.

**SourceWatch_proofs.** For any number of files, contents, edits, starts and timers:
`TypeCorrect`, `NoEditIsLost` (`NoLostEdit`), `StartsAreComplete` (the action property
`StartIsComplete`) and `TheRecordIsHonest` (`RecordIsHonest`). `NoLostEdit` is not
inductive; the invariant adds that a watched editor is past its start
(`WatchedIsStarted`), that a batch is handled to its end before the next one begins
(`HandledToTheEnd`: without it `todo` would be overwritten), that a recorded source that
is not there was removed in this session (`AbsentIsGone`), and that what is announced of
a changed source is a modification (`ChangesAreTold`: an addition alone would not be
compared). Lemmas say that asking the language service adds records and changes none,
and that compiling changes marks, never versions. `StartInv` says, point by point of a
start without diagnostics, which marks the roots have by then (hashed, analysed,
emitted, treated), and that a job for a blueprint is of a recorded class.
`RecordIsHonest` needs to know what a version stands for: `WrittenInv` says that every
remembered version is one that its file had, and that a snapshot with the version of an
unspoilt file is its text; `HonestInv` then says of the record on the disk, of the one
in memory and of the jobs under way that what they vouch for is what was emitted, or
waits to be.

**UEMeta_proofs.** For every vocabulary and number of specifiers: `TypeInvariant`
(`TypeOK`), and `FunctionConsistent` (`FunctionIsConsistent`). The invariant
`FunctionInv` says more than the property in two places: that a blueprint event is an
event while specifiers are read (which is why the accessors, which test only
`FUNC_Event`, are enough), and that nothing is final before the validation, which then
refuses a sealed blueprint event. The other three compare the result with the whole
list of specifiers, which the code reads one at a time from a queue:
`PropertyOrderFree` (`PropertyIsOrderFree`), `ReliabilitySaid` (`ReliabilityIsSaid`)
and `ClassLastWordCounts` (`ClassLastWord`). Their invariants name the set `D` of the
positions in the input that have been processed: the queue holds the specifiers behind
`D` in their order (`Line`), and every flag, key and category is what the specifiers
at `D` say. For properties that is a union, in which no order is left; for classes it
is the last specifier of `D` that touches the flag.

**BlueprintEmit_proofs.** What the operations of the asset do, for every class, base
and project. Each operation takes the work and gives it back changed; there is a lemma
for each on what it leaves alone and, outside a play session, what it puts in place.
`NoChangeEscapes` (`SavedIsCurrent`) needs only that each keeps `Tracked(w)`: outside a
play session the work was not given up, and whatever has been changed since the refresh
began is to be saved. `SavedInv` carries it to `Finish`.

**BlueprintRefresh_proofs.** What a refresh promises, for classes of any length, after
any number of edits, refusals and refreshes: `TypeInvariant` (`TypeOK`),
`VariablesAreAsAsked` (`VariablesFollow`), `RefreshesMatch` (`RefreshMatchesClass`) and
`SignaturesAreDeclared` (`SignaturesFollow`). A refresh deals with one member at a
time, the properties speak of all of them at its end; no invariant can say what the
asset is in between without saying how far the walk has come. So the invariants speak of
`Seen`, the members walked over. About what an earlier refresh has left in the asset
they say no more than its shape:

* `ShapeInv`: variables are listed once, in `order`, and have names of members; with
  `Walking`: what is to come is a suffix of the members that count;
* `ValueInv`: the variables of the properties in `Seen` stand first, in their order, as
  they are asked for (`Valued`). The swap to the next place (`Place`) moves only
  variables behind them;
* `ParamsInv`: `job.params` are the parameters of the member that comes next, as far as
  they have been read, so that `AddFunction` gets those of its own method;
* `ApartInv`: no function is in two places. A change from graph to event and back
  removes the other one; the only graph that is made without looking is that of a
  notification (`SetNet`);
* `GivenInv`: a method in `Seen` has its place and its signature (`Given`), or cannot
  have one (a replicated function of a function library, which has no event graph);
  what was asked for are the names of `Seen` and their notifications;
* at `Finish`, `Seen` is the class, and pruning takes away what nobody asked for:
  `SettledValues`, `SettledPlaces` and `SettledFollow` hold until the next refresh.

`ValueInv` and `GivenInv` are about refreshes outside play sessions, the others hold
always; no session begins or ends within a refresh, for the script runs on the thread
of the editor. What is assumed:

* `ClassAssumption`: members of one name are overloads or static, parameters of a method
  have different names. Anything else is an error of the TypeScript compiler, and a file
  with errors is not refreshed (CodeAnalyze.js:325-339, 459-465). A property does not
  change between a component and a variable from one text to the next: the engine
  refuses a variable that has the name of a component, which the model leaves out.
* `NameAssumption`: no notification has the empty name, which stands for "none".
* `NotificationsApart`, a hypothesis of `RefreshesMatch` and `SignaturesAreDeclared`: no
  method that is replicated, and no event of the base class, is called `OnRep_p` for a
  property `p`. The code does not exclude that: with a replicated method of that name,
  `AddMemberVariable` makes a second function beside the event
  (PEBlueprintAsset.cpp:1129-1141). A plain method of that name, which is what
  programmers write, is not excluded; the run `blueprint` has one.
* `ReturnsApart`, a hypothesis of `SignaturesAreDeclared`: no output parameter of a method
  that returns something is called `ReturnValue`, for that is the name of the pin of
  what it returns (PEBlueprintAsset.cpp:732).

`MCBlueprintEmit` states the last two as assumptions on its classes, so that TLC
evaluates them.

**StyleSheets_proofs.** For every set of sheets, texts and importers: `TypesKept`
(`TypeOK`), `SheetsAreApplied` (`SheetIsApplied`), `PlainNamesAreLatest`
(`PlainNameIsLatest`), `QueriesAreOfOneSheet` (`MediaIsOfOneSheet`) and the action
property `ModulesArePrivate` (`ModuleSheetIsPrivate`). Two arguments carry them. The
parse folds the rules of a text into a tree; that the tree has a node exactly for the
places the rules speak of, with the last word of the rules on each property, is an
induction over the rules. The induction theorems of the library cannot be used, so it is
made with a least counterexample: `LeastNat` (a set of numbers that is not empty has a
least one) follows from the well-foundedness of `<`. And a parse replaces what it covers
and leaves the rest (`AfterParse`), so `CacheInv`, which says of every text that is
remembered, as applied, as latest of a selector or as the one asked for a query, where
the cache still holds its tree, is inductive.

**Only model-checked**: the liveness properties `CommitReachesSlate` and
`EditIsSeen`, which are outside what TLAPS proves. Every invariant and every action
property that a passing run checks is proved.

## 5. Not modelled, and the plan

In this order:

1. `ImageLoading` (UMGManager.cpp:289-445): three loaders, synchronous or not,
   success, failure, and the context that dies; promise: exactly one callback.
   The missing-file path calls none.
2. `WidgetTreeRoot` (UMGManager.cpp:447-506) and `ScriptMirror`
   (ReactorUMGCommonBP.cpp:427-500, the directory monitor against the compiler).
3. The inspector protocol of `hot_reload.js` and `SourceFileWatcher`, in HotReload.
4. The copies of every require function in HotReload, of which ModuleCache has those of
   one; cycles of `require`.

Left out of modules that are there: of BlueprintEmit the attachments of components, a
base class that changes, graphs that were removed and are still found by name, the
metadata of parameters and the texts of the metadata of functions and classes; of the
types, `getUClassOfType`, which is a table of known objects (`Objects`); of
`uelazyload.js` the loading of classes through proxies; of `modular.js` the search for
modules, packages, ES modules and byte code.

Not planned: timers, promises and delegate proxies of PuerTS (vendored, and used by the
plugin only through what is modelled: a binding that dies with its environment);
`TypeScriptInternal.js` (path matching copied from the TypeScript compiler); value
translation between V8 and Unreal (data conversion); code generators (text); geometry
and gradients (engine queries and pixel arithmetic); the vendored WebAssembly,
websocket and Spine runtimes; project template, tools.
