-------------------------- MODULE HotReload_proofs --------------------------
(***************************************************************************)
(* Proofs about HotReload for every set of files, every pool size, every   *)
(* number of contents and every interleaving with the compiler, scripts    *)
(* that throw and files that cannot be hashed, read or loaded.             *)
(***************************************************************************)
EXTENDS HotReload, TLAPS

USE DEF Envs, OnDisk, Loaded, NoHashes, NoModules, Empty, envVars, callVars, vars

\* What require() leaves has the types of the variables.
LEMMA RequireType ==
    ASSUME TypeOK, NEW e \in Envs, NEW marks \in SUBSET Files, Require(e, marks)
    PROVE  /\ code' \in [Envs -> [Files -> 0 .. Empty]]
           /\ flagged' \in [Envs -> SUBSET Files]
           /\ ahead' \in [Envs -> SUBSET Files]
           /\ unread' \subseteq Files
<1> USE SizeAssumption DEF TypeOK
<1>1. PICK executed \in SUBSET OnDisk, empty \in SUBSET OnDisk, dropped \in SUBSET OnDisk :
        LET anew == executed \cup empty \cup dropped
            other == {f \in executed : disk[f] # LastKnownFileHashes[f]}
        IN  /\ code' = [code EXCEPT ![e] =
                           [f \in Files |-> IF f \in executed THEN disk[f]
                                            ELSE IF f \in empty THEN Empty
                                            ELSE IF f \in dropped THEN 0
                                            ELSE @[f]]]
            /\ flagged' = [flagged EXCEPT ![e] = marks \ anew]
            /\ ahead' = [ahead EXCEPT ![e] = (@ \ anew) \cup other \cup (empty \ executed)]
            /\ UNCHANGED unread
  BY DEF Require
<1> DEFINE made == [f \in Files |-> IF f \in executed THEN disk[f]
                                    ELSE IF f \in empty THEN Empty
                                    ELSE IF f \in dropped THEN 0
                                    ELSE code[e][f]]
<1>2. made \in [Files -> 0 .. Empty]
  <2>1. \A f \in Files : disk[f] \in 0 .. Empty /\ code[e][f] \in 0 .. Empty
    OBVIOUS
  <2>2. Empty \in 0 .. Empty /\ 0 \in 0 .. Empty
    OBVIOUS
  <2> HIDE DEF Empty
  <2> QED BY <2>1, <2>2
<1>3. code' = [code EXCEPT ![e] = made]
  BY <1>1
<1> HIDE DEF made, Empty
<1>4. code' \in [Envs -> [Files -> 0 .. Empty]]
  BY <1>2, <1>3
<1>5. flagged' \in [Envs -> SUBSET Files]
  BY <1>1
<1>6. ahead' \in [Envs -> SUBSET Files]
  BY <1>1
<1> QED BY <1>1, <1>4, <1>5, <1>6

\* ... and so has what a push leaves.
LEMMA PushType ==
    ASSUME TypeOK, NEW f \in Files, Push(f)
    PROVE  /\ code' \in [Envs -> [Files -> 0 .. Empty]]
           /\ flagged' \in [Envs -> SUBSET Files]
           /\ ahead' \in [Envs -> SUBSET Files]
           /\ unread' \subseteq Files
<1> USE DEF TypeOK
<1>1. PICK edited \in SUBSET {e \in Envs : f \in Loaded(e)} :
        /\ code' = [e \in Envs |->
                       IF e \in edited THEN [code[e] EXCEPT ![f] = disk[f]]
                                       ELSE code[e]]
        /\ flagged' = [e \in Envs |->
                          IF f \in Loaded(e) THEN flagged[e] \cup {f} ELSE flagged[e]]
        /\ ahead' = [e \in Envs |-> ahead[e] \ {f}]
        /\ unread' = unread \ {f}
  BY DEF Push
<1>2. code' \in [Envs -> [Files -> 0 .. Empty]]
  <2>1. disk[f] \in 0 .. Empty
    BY SizeAssumption
  <2>2. \A e \in Envs : [code[e] EXCEPT ![f] = disk[f]] \in [Files -> 0 .. Empty]
    BY <2>1
  <2> HIDE DEF Empty
  <2> QED BY <1>1, <2>2
<1> QED BY <1>1, <1>2

LEMMA TypeInit == Init => TypeOK
<1> SUFFICES ASSUME Init PROVE TypeOK
  OBVIOUS
<1> USE SizeAssumption DEF Init
<1>1. /\ disk \in [Files -> 0 .. MaxContents]
      /\ LastKnownFileHashes \in [Files -> 0 .. MaxContents]
      /\ NewHashes \in [Files -> 0 .. MaxContents]
  OBVIOUS
<1>2. code \in [Envs -> [Files -> 0 .. Empty]]
  OBVIOUS
<1>3. flagged \in [Envs -> SUBSET Files] /\ ahead \in [Envs -> SUBSET Files]
  OBVIOUS
<1> QED BY <1>1, <1>2, <1>3 DEF TypeOK, Points

LEMMA TypeStep == TypeOK /\ [Next]_vars => TypeOK'
<1> SUFFICES ASSUME TypeOK, [Next]_vars PROVE TypeOK'
  OBVIOUS
<1> USE SizeAssumption DEF TypeOK, Points
<1>1. ASSUME NEW f \in Files, Write(f) PROVE TypeOK'
  <2>1. disk' \in [Files -> 0 .. MaxContents]
    BY <1>1 DEF Write
  <2> QED BY <1>1, <2>1 DEF Write
<1>2. ASSUME NEW f \in Files, Delete(f) PROVE TypeOK'
  BY <1>2 DEF Delete
<1>3. ASSUME NEW e \in Envs, StartJavaScript(e) PROVE TypeOK'
  <2>1. flagged[e] \in SUBSET Files
    OBVIOUS
  <2> QED BY <1>3, <2>1, RequireType DEF StartJavaScript
<1>4. ASSUME NEW e \in Envs, RunMainScript(e) PROVE TypeOK'
  <2>1. PICK marks \in {flagged[e], flagged[e] \cup ({Main} \cap Loaded(e))} :
          Require(e, marks)
    BY <1>4 DEF RunMainScript
  <2>2. marks \in SUBSET Files
    OBVIOUS
  <2>3. /\ code' \in [Envs -> [Files -> 0 .. Empty]]
        /\ flagged' \in [Envs -> SUBSET Files]
        /\ ahead' \in [Envs -> SUBSET Files]
        /\ unread' \subseteq Files
    BY <2>1, <2>2, RequireType
  <2> QED BY <1>4, <2>3 DEF RunMainScript
<1>5. CASE HotReloadChangedScripts
  BY <1>5 DEF HotReloadChangedScripts
<1>6. ASSUME NEW f \in Files, HashFile(f) PROVE TypeOK'
  BY <1>6 DEF HashFile
<1>7. ASSUME NEW f \in Files, ReadFile(f) PROVE TypeOK'
  BY <1>7, PushType DEF ReadFile
<1>8. ASSUME NEW f \in Files, ReadFileFails(f) PROVE TypeOK'
  BY <1>8 DEF ReadFileFails
<1>9. CASE EndScan
  <2>1. LastKnownFileHashes' = NewHashes /\ NewHashes' = NoHashes
    BY <1>9 DEF EndScan
  <2>2. /\ LastKnownFileHashes' \in [Files -> 0 .. MaxContents]
        /\ NewHashes' \in [Files -> 0 .. MaxContents]
    BY <2>1
  <2>3. pc' \in {"execute", "idle"} /\ left' \in {Envs, {}} /\ bMainScriptChanged' = FALSE
    BY <1>9 DEF EndScan
  <2>4. UNCHANGED <<disk, envVars, todo>>
    BY <1>9 DEF EndScan
  <2> QED BY <2>2, <2>3, <2>4
<1>10. CASE InvalidateFileHashCache
  BY <1>10 DEF InvalidateFileHashCache
<1>11. CASE RestartJsScripts
  BY <1>11 DEF RestartJsScripts
<1>12. ASSUME NEW f \in Files, PushFile(f) PROVE TypeOK'
  <2>1. CASE Push(f)
    BY <1>12, <2>1, PushType DEF PushFile
  <2>2. CASE UNCHANGED envVars
    BY <1>12, <2>2 DEF PushFile
  <2> QED BY <1>12, <2>1, <2>2 DEF PushFile
<1>13. CASE EndPush
  BY <1>13 DEF EndPush
<1>14. CASE RebuildRuntimePool
  <2>1. code' \in [Envs -> [Files -> 0 .. Empty]]
    BY <1>14 DEF RebuildRuntimePool
  <2> QED BY <1>14, <2>1 DEF RebuildRuntimePool
<1>15. CASE UNCHANGED vars
  BY <1>15
<1> QED
  BY <1>1, <1>2, <1>3, <1>4, <1>5, <1>6, <1>7, <1>8, <1>9, <1>10, <1>11, <1>12, <1>13,
     <1>14, <1>15
     DEF Next

\* Every variable keeps its type: in particular the pool keeps its size and the
\* call of HotReloadChangedScripts or RestartJsScripts never leaves its points.
THEOREM TypeCorrect == Spec => []TypeOK
  BY TypeInit, TypeStep, PTL DEF Spec

-----------------------------------------------------------------------------
(* The safety property.                                                     *)

\* The hash of content v may stand for file f in environment e: the module is up
\* to date with v, or the case is one of those the property names.
Stands(e, f, v) == IsCurrent(e, f, v) \/ f \in unread \/ f \in ahead[e]

\* The same after a step.
After(e, f, v) ==
    code'[e][f] \in {0, v} \/ f \in flagged'[e] \/ f \in unread' \/ f \in ahead'[e]

\* So may every hash that the last call recorded, whatever the file holds now, and
\* every one that this call has recorded of a file it has dealt with.
HashInv ==
    /\ \A f \in Files : LastKnownFileHashes[f] # 0 =>
           \A e \in Envs : Stands(e, f, LastKnownFileHashes[f])
    /\ \A f \in Files : NewHashes[f] # 0 =>
           /\ pc \in {"scan"} \cup Files
           /\ pc # f => \A e \in Envs : Stands(e, f, NewHashes[f])

IInv == TypeOK /\ HashInv

\* A push of g leaves g current or flagged, whatever its hash is, and the other
\* files as they are.
LEMMA PushStands ==
    ASSUME IInv, NEW g \in Files, Push(g)
    PROVE  \A e \in Envs, f \in Files, v \in Nat :
               f = g \/ Stands(e, f, v) => After(e, f, v)
<1> USE DEF IInv, TypeOK, After
<1> SUFFICES ASSUME NEW e \in Envs, NEW f \in Files, NEW v \in Nat, f = g \/ Stands(e, f, v)
             PROVE  After(e, f, v)
  OBVIOUS
<1>1. PICK edited \in SUBSET {d \in Envs : g \in Loaded(d)} :
        /\ code' = [d \in Envs |->
                       IF d \in edited THEN [code[d] EXCEPT ![g] = disk[g]]
                                       ELSE code[d]]
        /\ flagged' = [d \in Envs |->
                          IF g \in Loaded(d) THEN flagged[d] \cup {g} ELSE flagged[d]]
        /\ ahead' = [d \in Envs |-> ahead[d] \ {g}]
        /\ unread' = unread \ {g}
  BY DEF Push
<1>2. CASE f = g /\ g \in Loaded(e)
  BY <1>1, <1>2 DEF Stands, IsCurrent
<1>3. CASE f = g /\ g \notin Loaded(e)
  BY <1>1, <1>3 DEF Stands, IsCurrent
<1>4. CASE f # g
  <2>1. code'[e][f] = code[e][f]
    BY <1>1, <1>4
  <2>2. (f \in flagged[e] => f \in flagged'[e]) /\ (f \in ahead[e] => f \in ahead'[e])
    BY <1>1, <1>4
  <2> QED BY <1>1, <1>4, <2>1, <2>2 DEF Stands, IsCurrent
<1> QED BY <1>2, <1>3, <1>4

\* Whatever scripts require, a module that no longer stands for the recorded hash
\* is one that has been made of another content.
LEMMA RequireStands ==
    ASSUME IInv, NEW d \in Envs, NEW marks \in SUBSET Files, flagged[d] \subseteq marks,
           Require(d, marks)
    PROVE  \A e \in Envs, f \in Files :
               Stands(e, f, LastKnownFileHashes[f])
                   => After(e, f, LastKnownFileHashes[f])
<1> USE DEF IInv, TypeOK, After
<1> SUFFICES ASSUME NEW e \in Envs, NEW f \in Files, Stands(e, f, LastKnownFileHashes[f])
             PROVE  After(e, f, LastKnownFileHashes[f])
  OBVIOUS
<1>1. PICK executed \in SUBSET OnDisk, empty \in SUBSET OnDisk, dropped \in SUBSET OnDisk :
        LET anew == executed \cup empty \cup dropped
            other == {g \in executed : disk[g] # LastKnownFileHashes[g]}
        IN  /\ code' = [code EXCEPT ![d] =
                           [g \in Files |-> IF g \in executed THEN disk[g]
                                            ELSE IF g \in empty THEN Empty
                                            ELSE IF g \in dropped THEN 0
                                            ELSE @[g]]]
            /\ flagged' = [flagged EXCEPT ![d] = marks \ anew]
            /\ ahead' = [ahead EXCEPT ![d] = (@ \ anew) \cup other \cup (empty \ executed)]
            /\ UNCHANGED unread
  BY DEF Require
<1>2. CASE e # d
  BY <1>1, <1>2 DEF Stands, IsCurrent
<1>3. CASE e = d
  <2>1. code'[e][f] = IF f \in executed THEN disk[f]
                      ELSE IF f \in empty THEN Empty
                      ELSE IF f \in dropped THEN 0
                      ELSE code[e][f]
    BY <1>1, <1>3
  <2>2. flagged'[e] = marks \ (executed \cup empty \cup dropped)
    BY <1>1, <1>3
  <2>3. ahead'[e] = (ahead[e] \ (executed \cup empty \cup dropped))
                    \cup {g \in executed : disk[g] # LastKnownFileHashes[g]}
                    \cup (empty \ executed)
    BY <1>1, <1>3
  <2>4. unread' = unread
    BY <1>1
  <2>5. CASE f \in executed
    BY <2>1, <2>3, <2>5
  <2>6. CASE f \in empty \ executed
    BY <2>3, <2>6
  <2>7. CASE f \in dropped \ (executed \cup empty)
    BY <2>1, <2>7
  <2>8. CASE f \notin executed \cup empty \cup dropped
    BY <1>3, <2>1, <2>2, <2>3, <2>4, <2>8 DEF Stands, IsCurrent
  <2> QED BY <2>5, <2>6, <2>7, <2>8
<1> QED BY <1>2, <1>3

LEMMA InvInit == Init => IInv
<1> SUFFICES ASSUME Init PROVE HashInv
  BY TypeInit DEF IInv
<1> QED BY DEF Init, HashInv

LEMMA InvStep == IInv /\ [Next]_vars => IInv'
<1> SUFFICES ASSUME IInv, [Next]_vars PROVE HashInv'
  BY TypeStep DEF IInv
<1> USE PointsAssumption DEF IInv, TypeOK
\* Steps that record no hash and change no module.
<1>keep. ASSUME UNCHANGED <<LastKnownFileHashes, NewHashes, code, flagged, unread, ahead, pc>>
         PROVE  HashInv'
  <2>1. \A e \in Envs, f \in Files, v \in Nat : Stands(e, f, v) <=> After(e, f, v)
    BY <1>keep DEF Stands, IsCurrent, After
  <2>2. \A f \in Files : LastKnownFileHashes[f] \in Nat /\ NewHashes[f] \in Nat
    BY SizeAssumption
  <2> QED BY <1>keep, <2>1, <2>2 DEF HashInv, Stands, IsCurrent, After
\* Steps outside of the loop over the files, where no hash of the call is kept.
<1>out. ASSUME pc \notin {"scan"} \cup Files, NewHashes' = NewHashes,
               \A f \in Files : LastKnownFileHashes'[f] # 0 =>
                   \A e \in Envs : After(e, f, LastKnownFileHashes'[f])
        PROVE  HashInv'
  <2>1. \A f \in Files : NewHashes'[f] = 0
    BY <1>out DEF HashInv
  <2>2. \A f \in Files : LastKnownFileHashes'[f] # 0 =>
            \A e \in Envs : After(e, f, LastKnownFileHashes'[f])
    BY <1>out
  <2> QED BY <2>1, <2>2 DEF HashInv, Stands, IsCurrent, After
<1>1. ASSUME NEW f \in Files, Write(f) PROVE HashInv'
  BY <1>1, <1>keep DEF Write
<1>2. ASSUME NEW f \in Files, Delete(f) PROVE HashInv'
  BY <1>2, <1>keep DEF Delete
<1>3. ASSUME NEW e \in Envs, StartJavaScript(e) PROVE HashInv'
  <2>1. flagged[e] \in SUBSET Files /\ Require(e, flagged[e])
    BY <1>3 DEF StartJavaScript
  <2>2. \A d \in Envs, f \in Files :
            Stands(d, f, LastKnownFileHashes[f]) => After(d, f, LastKnownFileHashes[f])
    BY <1>3, <2>1, RequireStands DEF StartJavaScript, Stands, IsCurrent, After
  <2> QED BY <1>3, <2>2, <1>out DEF StartJavaScript, HashInv, After
<1>4. ASSUME NEW e \in Envs, RunMainScript(e) PROVE HashInv'
  <2>1. PICK marks \in {flagged[e], flagged[e] \cup ({Main} \cap Loaded(e))} :
          Require(e, marks)
    BY <1>4 DEF RunMainScript
  <2>2. marks \in SUBSET Files /\ flagged[e] \subseteq marks
    OBVIOUS
  <2>3. LastKnownFileHashes' = LastKnownFileHashes
    BY <1>4 DEF RunMainScript
  <2>4. \A d \in Envs, f \in Files :
            Stands(d, f, LastKnownFileHashes[f]) => After(d, f, LastKnownFileHashes[f])
    BY <2>1, <2>2, <2>3, RequireStands DEF Stands, IsCurrent, After
  <2> QED BY <1>4, <2>4, <1>out DEF RunMainScript, HashInv, After
<1>5. CASE HotReloadChangedScripts
  <2>1. \A e \in Envs, f \in Files, v \in Nat : Stands(e, f, v) <=> After(e, f, v)
    BY <1>5 DEF HotReloadChangedScripts, Stands, IsCurrent, After
  <2> QED BY <1>5, <2>1, <1>out DEF HotReloadChangedScripts, HashInv, After
<1>6. ASSUME NEW f \in Files, HashFile(f) PROVE HashInv'
  <2>1. \A e \in Envs, g \in Files, v \in Nat : Stands(e, g, v) <=> After(e, g, v)
    BY <1>6 DEF HashFile, Stands, IsCurrent, After
  <2>2. LastKnownFileHashes' = LastKnownFileHashes /\ pc = "scan" /\ pc' \in {"scan", f}
    BY <1>6 DEF HashFile
  <2>3. \A g \in Files : g # f => NewHashes'[g] = NewHashes[g]
    BY <1>6 DEF HashFile
  <2>4. NewHashes'[f] = NewHashes[f] \/ pc' = f \/ NewHashes'[f] = LastKnownFileHashes[f]
    BY <1>6 DEF HashFile
  <2>5. \A g \in Files : LastKnownFileHashes[g] \in Nat /\ NewHashes[g] \in Nat
    BY SizeAssumption
  <2>6. \A g \in Files : LastKnownFileHashes'[g] # 0 =>
            \A e \in Envs : After(e, g, LastKnownFileHashes[g])
    BY <2>1, <2>2, <2>5 DEF HashInv
  <2>7. ASSUME NEW g \in Files, NewHashes'[g] # 0, pc' # g, NEW e \in Envs
        PROVE  After(e, g, NewHashes'[g])
    <3>1. CASE NewHashes'[g] = NewHashes[g]
      BY <2>1, <2>2, <2>5, <2>7, <3>1 DEF HashInv
    <3>2. CASE g = f /\ NewHashes'[f] = LastKnownFileHashes[f]
      BY <2>1, <2>5, <2>7, <3>2 DEF HashInv
    <3> QED BY <2>3, <2>4, <2>7, <3>1, <3>2
  <2> QED BY <2>2, <2>6, <2>7 DEF HashInv, Stands, IsCurrent, After
<1>7. ASSUME NEW f \in Files, ReadFile(f) PROVE HashInv'
  <2>1. /\ UNCHANGED <<LastKnownFileHashes, NewHashes>>
        /\ pc = f
        /\ pc' = "scan"
        /\ Push(f)
    BY <1>7 DEF ReadFile
  <2>2. \A e \in Envs, g \in Files, v \in Nat :
            g = f \/ Stands(e, g, v) => After(e, g, v)
    BY <2>1, PushStands
  <2>3. \A g \in Files : LastKnownFileHashes[g] \in Nat /\ NewHashes[g] \in Nat
    BY SizeAssumption
  <2>4. \A g \in Files : LastKnownFileHashes[g] # 0 =>
            \A e \in Envs : After(e, g, LastKnownFileHashes[g])
    BY <2>2, <2>3 DEF HashInv
  <2>5. \A g \in Files : NewHashes[g] # 0 => \A e \in Envs : After(e, g, NewHashes[g])
    BY <2>1, <2>2, <2>3 DEF HashInv
  <2> QED BY <2>1, <2>4, <2>5 DEF HashInv, Stands, IsCurrent, After
<1>8. ASSUME NEW f \in Files, ReadFileFails(f) PROVE HashInv'
  <2>1. /\ UNCHANGED <<LastKnownFileHashes, NewHashes, code, flagged, ahead>>
        /\ pc = f
        /\ pc' = "scan"
        /\ unread' = unread \cup {f}
    BY <1>8 DEF ReadFileFails
  <2>2. \A e \in Envs, g \in Files, v \in Nat :
            g = f \/ Stands(e, g, v) => After(e, g, v)
    BY <2>1 DEF Stands, IsCurrent, After
  <2>3. \A g \in Files : LastKnownFileHashes[g] \in Nat /\ NewHashes[g] \in Nat
    BY SizeAssumption
  <2>4. \A g \in Files : LastKnownFileHashes[g] # 0 =>
            \A e \in Envs : After(e, g, LastKnownFileHashes[g])
    BY <2>2, <2>3 DEF HashInv
  <2>5. \A g \in Files : NewHashes[g] # 0 => \A e \in Envs : After(e, g, NewHashes[g])
    BY <2>1, <2>2, <2>3 DEF HashInv
  <2> QED BY <2>1, <2>4, <2>5 DEF HashInv, Stands, IsCurrent, After
<1>9. CASE EndScan
  <2>1. /\ UNCHANGED <<code, flagged, unread, ahead>>
        /\ pc = "scan"
        /\ LastKnownFileHashes' = NewHashes
        /\ NewHashes' = NoHashes
    BY <1>9 DEF EndScan
  <2>2. \A f \in Files : NewHashes[f] # 0 => \A e \in Envs : Stands(e, f, NewHashes[f])
    BY <2>1 DEF HashInv
  <2>3. \A f \in Files : LastKnownFileHashes'[f] # 0 =>
            \A e \in Envs : After(e, f, NewHashes[f])
    BY <2>1, <2>2 DEF Stands, IsCurrent, After
  <2> QED BY <2>1, <2>3 DEF HashInv, Stands, IsCurrent, After
<1>10. CASE InvalidateFileHashCache
  BY <1>10, <1>out DEF InvalidateFileHashCache
<1>11. CASE RestartJsScripts
  <2>1. \A e \in Envs, f \in Files, v \in Nat : Stands(e, f, v) <=> After(e, f, v)
    BY <1>11 DEF RestartJsScripts, Stands, IsCurrent, After
  <2> QED BY <1>11, <2>1, <1>out DEF RestartJsScripts, HashInv, After
<1>12. ASSUME NEW f \in Files, PushFile(f) PROVE HashInv'
  <2>1. UNCHANGED <<LastKnownFileHashes, NewHashes, pc>> /\ pc = "push"
    BY <1>12 DEF PushFile
  <2>2. CASE Push(f)
    <3>1. \A e \in Envs, g \in Files, v \in Nat : Stands(e, g, v) => After(e, g, v)
      BY <2>2, PushStands
    <3>2. \A g \in Files : LastKnownFileHashes[g] \in Nat
      BY SizeAssumption
    <3> QED BY <2>1, <3>1, <3>2, <1>out DEF HashInv, After
  <2>3. CASE UNCHANGED envVars
    BY <2>1, <2>3, <1>keep
  <2> QED BY <1>12, <2>2, <2>3 DEF PushFile
<1>13. CASE EndPush
  <2>1. \A e \in Envs, f \in Files, v \in Nat : Stands(e, f, v) <=> After(e, f, v)
    BY <1>13 DEF EndPush, Stands, IsCurrent, After
  <2> QED BY <1>13, <2>1, <1>out DEF EndPush, HashInv, After
<1>14. CASE RebuildRuntimePool
  BY <1>14, <1>out DEF RebuildRuntimePool
<1>15. CASE UNCHANGED vars
  BY <1>15, <1>keep
<1> QED
  BY <1>1, <1>2, <1>3, <1>4, <1>5, <1>6, <1>7, <1>8, <1>9, <1>10, <1>11, <1>12, <1>13,
     <1>14, <1>15
     DEF Next

LEMMA InvMeans == IInv => UnchangedIsCurrent
  BY DEF IInv, TypeOK, HashInv, Stands, UnchangedIsCurrent

\* HotReloadChangedScripts may pass over a file whose hash the cache already has,
\* however edits, undos, deletions, failures to hash, read or load, scripts that
\* throw, restarts and widget starts interleave with it: every environment is
\* up to date with the file unless a call failed to read it after it had recorded
\* the hash, or the environment has made a module of another content since.
THEOREM SkippingIsSound == Spec => []UnchangedIsCurrent
<1>1. Init => IInv
  BY InvInit
<1>2. IInv /\ [Next]_vars => IInv'
  BY InvStep
<1>3. IInv => UnchangedIsCurrent
  BY InvMeans
<1> QED BY <1>1, <1>2, <1>3, PTL DEF Spec
=============================================================================
