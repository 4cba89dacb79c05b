----------------------------- MODULE ModuleCache -----------------------------
(***************************************************************************)
(* The caches of require() in puerts/modular.js.                           *)
(*                                                                         *)
(* An environment has one moduleCache, by the path that searchModule finds *)
(* for a name: the key.  Every require function has a localModuleCache of  *)
(* its own besides, by the name as it is written.  The environment starts  *)
(* scripts through one require function that it keeps (puerts.__require),  *)
(* every module that is executed gets a new one.                           *)
(*                                                                         *)
(* A local entry refers to a module object.  puerts.forceReload sets       *)
(* __forceReload in the object that moduleCache has at the time; executing *)
(* the file again puts a new object in moduleCache and in the entry of the *)
(* name it was required by, and leaves the entries of other names alone.   *)
(***************************************************************************)

\* The entry of a key in moduleCache: absent (or undefined, after a failure), a
\* module, or a module with __forceReload set.
ModuleStates == {"absent", "cached", "flagged"}

\* The entry of a name in a localModuleCache: none; the same object as that of
\* the name's key in moduleCache; stale: undefined, or an object that has been
\* replaced there after it was flagged; old: one that was replaced unflagged.
CopyStates == {"none", "same", "stale", "old"}

\* require(name) executes the file; otherwise it returns the exports of the
\* module it has. Under a stale entry it does so whatever moduleCache holds, and
\* an old one is returned whatever has been flagged since.
RequireExecutes(module, copy) ==
    copy = "stale" \/ (copy \in {"none", "same"} /\ module # "cached")

\* The entry of the name after a require that executes nothing.
Found(copy) == IF copy = "none" THEN "same" ELSE copy

\* The entry of another name of the key when module is replaced or dropped.
Superseded(module, copy) ==
    IF copy = "same" THEN IF module = "flagged" THEN "stale" ELSE "old"
                     ELSE copy

\* Mutant: forceReload does not set __forceReload.
Flagged_Kept(module) == module

\* puerts.forceReload of a key: __forceReload is set if moduleCache has a module.
Flagged(module) == IF module = "cached" THEN "flagged" ELSE module
=============================================================================
