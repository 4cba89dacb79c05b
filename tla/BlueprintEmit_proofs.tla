------------------------- MODULE BlueprintEmit_proofs -------------------------
(***************************************************************************)
(* What the operations of a blueprint do, whatever members a class has: no *)
(* change escapes NeedSave (SavedIsCurrent), and for every operation what  *)
(* it leaves alone and, outside a play session, what it puts in place.     *)
(* BlueprintRefresh_proofs puts them together.                             *)
(*                                                                         *)
(* A lemma about an operation speaks of the work w it is given and of the  *)
(* work v it returns.  Of a record only that it has its fields is assumed  *)
(* (Shaped, IsJob, IsWork), for what is in them is left open.              *)
(***************************************************************************)
EXTENDS BlueprintEmit, WellFoundedInduction, TLAPS

-----------------------------------------------------------------------------
(* Numbers.  The least element of a set of them stands for an induction.    *)

LEMMA LeastNat ==
    ASSUME NEW T, T \subseteq Nat, T # {}
    PROVE  \E n \in T : \A m \in T : n <= m
  <1> DEFINE R == {ss \in Nat \X Nat : ss[1] < ss[2]}
  <1>1. IsWellFoundedOn(R, Nat)
    BY NatLessThanWellFounded DEF OpToRel
  <1>2. \A m, n \in Nat : m < n => <<m, n>> \in R
    OBVIOUS
  <1> HIDE DEF R
  <1>3. PICK n \in T : \A m \in T : ~(<<m, n>> \in R)
    BY <1>1, WFMin, Zenon
  <1>4. \A m \in T : m \in Nat /\ n \in Nat /\ ~(m < n)
    BY <1>2, <1>3
  <1>5. \A m \in T : n <= m
    BY <1>4
  <1> QED
    BY <1>3, <1>5

-----------------------------------------------------------------------------
(* What is kept of a sequence.                                             *)

\* g holds what is kept of the first members, up to m of them.
Keeps(g, m, s, S) ==
    g = [n \in 0 .. m |->
            IF n = 0 THEN <<>>
            ELSE IF s[n] \in S THEN Append(g[n - 1], s[n]) ELSE g[n - 1]]

LEMMA SomethingKeeps ==
    ASSUME NEW s, NEW S, NEW n \in Nat
    PROVE  \E g : Keeps(g, n, s, S)
  <1> DEFINE Bad == {m \in Nat : \A g : ~Keeps(g, m, s, S)}
  <1>1. SUFFICES ASSUME Bad # {} PROVE FALSE
    OBVIOUS
  <1>2. Bad \subseteq Nat
    OBVIOUS
  <1>3. PICK m \in Bad : \A j \in Bad : m <= j
    <2> HIDE DEF Bad
    <2> QED
      BY <1>1, <1>2, LeastNat
  <1>4. CASE m = 0
    <2> DEFINE g == [k \in 0 .. 0 |-> <<>>]
    <2>1. Keeps(g, 0, s, S)
      BY DEF Keeps
    <2> QED
      BY <1>4, <2>1
  <1>5. CASE m # 0
    <2>1. m \in Nat /\ m - 1 \in Nat /\ m - 1 \notin Bad
      BY <1>2, <1>3, <1>5
    <2>2. PICK g : Keeps(g, m - 1, s, S)
      BY <2>1
    <2> DEFINE more == IF s[m] \in S THEN Append(g[m - 1], s[m]) ELSE g[m - 1]
               h == [k \in 0 .. m |-> IF k < m THEN g[k] ELSE more]
    <2>3. \A k \in 0 .. m - 1 : h[k] = g[k]
      BY <2>1
    <2>4. \A k \in 0 .. m - 1 :
              g[k] = IF k = 0 THEN <<>>
                     ELSE IF s[k] \in S THEN Append(g[k - 1], s[k]) ELSE g[k - 1]
      <3> HIDE DEF h
      <3> QED
        BY <2>2, Zenon DEF Keeps
    <2>5. ASSUME NEW k \in 0 .. m
          PROVE  h[k] = IF k = 0 THEN <<>>
                        ELSE IF s[k] \in S THEN Append(h[k - 1], s[k]) ELSE h[k - 1]
      <3>1. CASE k = m
        <4>1. h[k] = more /\ h[k - 1] = g[m - 1] /\ k # 0
          BY <1>5, <2>1, <2>3, <3>1
        <4> HIDE DEF h
        <4> QED
          BY <3>1, <4>1
      <3>2. CASE k # m
        <4>1. k \in 0 .. m - 1 /\ h[k] = g[k] /\ (k # 0 => h[k - 1] = g[k - 1])
          BY <2>1, <2>3, <3>2
        <4> HIDE DEF h
        <4> QED
          BY <2>4, <4>1
      <3> QED
        BY <3>1, <3>2
    <2>6. Keeps(h, m, s, S)
      <3>1. h = [k \in 0 .. m |-> h[k]]
        OBVIOUS
      <3> HIDE DEF h
      <3> QED
        BY <2>5, <3>1, Zenon DEF Keeps
    <2> QED
      BY <2>6
  <1> QED
    BY <1>4, <1>5

\* Where the members of t stand in the first n of s: in the order of s, and all
\* that are in S.
Stand(at, t, n, s, S) ==
    /\ at \in [1 .. Len(t) -> 1 .. n]
    /\ \A i, j \in 1 .. Len(t) : i < j => at[i] < at[j]
    /\ \A i \in 1 .. Len(t) : t[i] = s[at[i]] /\ s[at[i]] \in S
    /\ \A j \in 1 .. n : s[j] \in S => \E i \in 1 .. Len(t) : at[i] = j

LEMMA KeepingOne ==
    ASSUME NEW T, NEW s \in Seq(T), NEW S, NEW n \in 1 .. Len(s),
           NEW t \in Seq(T), NEW at, Stand(at, t, n - 1, s, S)
    PROVE  LET u == IF s[n] \in S THEN Append(t, s[n]) ELSE t
           IN  u \in Seq(T) /\ \E bt : Stand(bt, u, n, s, S)
  <1>0. n \in Nat /\ s[n] \in T /\ Len(t) \in Nat
    OBVIOUS
  <1>1. CASE s[n] \in S
    <2> DEFINE u == Append(t, s[n])
               bt == [i \in 1 .. Len(t) + 1 |-> IF i = Len(t) + 1 THEN n ELSE at[i]]
    <2>1. /\ u \in Seq(T) /\ Len(u) = Len(t) + 1
          /\ \A i \in 1 .. Len(t) : u[i] = t[i]
          /\ u[Len(t) + 1] = s[n]
      BY <1>0
    <2>2. /\ bt \in [1 .. Len(t) + 1 -> 1 .. n]
          /\ bt[Len(t) + 1] = n
          /\ \A i \in 1 .. Len(t) : bt[i] = at[i] /\ at[i] \in 1 .. n - 1
      <3>1. \A i \in 1 .. Len(t) : at[i] \in 1 .. n - 1
        BY DEF Stand
      <3>2. \A i \in 1 .. Len(t) : at[i] \in 1 .. n
        BY <1>0, <3>1
      <3> QED
        BY <1>0, <3>1, <3>2
    <2> HIDE DEF u, bt
    <2>3. ASSUME NEW i \in 1 .. Len(u), NEW j \in 1 .. Len(u), i < j
          PROVE  bt[i] < bt[j]
      <3>1. i \in 1 .. Len(t) /\ bt[i] = at[i] /\ bt[i] \in 1 .. n - 1
        BY <1>0, <2>1, <2>2, <2>3
      <3>2. CASE j = Len(t) + 1
        BY <1>0, <2>2, <3>1, <3>2
      <3>3. CASE j # Len(t) + 1
        <4>1. j \in 1 .. Len(t) /\ bt[j] = at[j]
          BY <1>0, <2>1, <2>2, <3>3
        <4> QED
          BY <2>3, <3>1, <4>1 DEF Stand
      <3> QED
        BY <3>2, <3>3
    <2>4. \A i \in 1 .. Len(u) : u[i] = s[bt[i]] /\ s[bt[i]] \in S
      BY <1>0, <1>1, <2>1, <2>2 DEF Stand
    <2>5. ASSUME NEW j \in 1 .. n, s[j] \in S PROVE \E i \in 1 .. Len(u) : bt[i] = j
      <3>1. CASE j = n
        BY <1>0, <2>1, <2>2, <3>1
      <3>2. CASE j # n
        <4>1. j \in 1 .. n - 1
          BY <1>0, <3>2
        <4>2. PICK i \in 1 .. Len(t) : at[i] = j
          BY <2>5, <4>1 DEF Stand
        <4> QED
          BY <1>0, <2>1, <2>2, <4>2
      <3> QED
        BY <3>1, <3>2
    <2>6. Stand(bt, u, n, s, S)
      BY <2>1, <2>2, <2>3, <2>4, <2>5 DEF Stand
    <2> QED
      BY <1>1, <2>1, <2>6 DEF u
  <1>2. CASE s[n] \notin S
    <2>1. at \in [1 .. Len(t) -> 1 .. n]
      BY <1>0 DEF Stand
    <2>2. ASSUME NEW j \in 1 .. n, s[j] \in S PROVE \E i \in 1 .. Len(t) : at[i] = j
      <3>1. j \in 1 .. n - 1
        BY <1>0, <1>2, <2>2
      <3> QED
        BY <2>2, <3>1 DEF Stand
    <2>3. Stand(at, t, n, s, S)
      BY <2>1, <2>2 DEF Stand
    <2> QED
      BY <1>2, <2>3
  <1> QED
    BY <1>1, <1>2

LEMMA KeptStands ==
    ASSUME NEW T, NEW s \in Seq(T), NEW S
    PROVE  Kept(s, S) \in Seq(T) /\ \E at : Stand(at, Kept(s, S), Len(s), s, S)
  <1> DEFINE m == Len(s)
             K == [n \in 0 .. m |-> IF n = 0 THEN <<>> ELSE <<>>]
  <1>0. m \in Nat
    OBVIOUS
  <1>1. PICK g : Keeps(g, m, s, S)
    BY <1>0, SomethingKeeps
  <1> DEFINE k == CHOOSE h : Keeps(h, m, s, S)
  <1>2. Keeps(k, m, s, S) /\ Kept(s, S) = k[m]
    <2>1. Keeps(k, m, s, S)
      BY <1>1
    <2>2. Kept(s, S) = k[m]
      BY DEF Kept, Keeps
    <2> QED
      BY <2>1, <2>2
  <1> HIDE DEF k
  <1>3. \A n \in 0 .. m :
            k[n] = IF n = 0 THEN <<>>
                   ELSE IF s[n] \in S THEN Append(k[n - 1], s[n]) ELSE k[n - 1]
    BY <1>2, Zenon DEF Keeps
  <1> DEFINE Good(n) == k[n] \in Seq(T) /\ \E at : Stand(at, k[n], n, s, S)
             Bad == {n \in 0 .. m : ~Good(n)}
  <1>4. Bad = {}
    <2> SUFFICES ASSUME Bad # {} PROVE FALSE
      OBVIOUS
    <2>1. Bad \subseteq Nat
      OBVIOUS
    <2>2. PICK n \in Bad : \A j \in Bad : n <= j
      <3> HIDE DEF Bad
      <3> QED
        BY <2>1, LeastNat
    <2>3. n \in 0 .. m /\ n \in Nat /\ ~Good(n)
      OBVIOUS
    <2>4. CASE n = 0
      <3>1. k[0] = <<>>
        BY <1>0, <1>3
      <3> DEFINE at == [i \in {} |-> 0]
      <3>2. Stand(at, <<>>, 0, s, S)
        BY DEF Stand
      <3>3. <<>> \in Seq(T)
        OBVIOUS
      <3> QED
        BY <2>3, <2>4, <3>1, <3>2, <3>3
    <2>5. CASE n # 0
      <3>1. n \in 1 .. m /\ n - 1 \in 0 .. m /\ n - 1 \notin Bad
        BY <1>0, <2>2, <2>3, <2>5
      <3>2. Good(n - 1)
        BY <3>1
      <3>3. PICK at : Stand(at, k[n - 1], n - 1, s, S)
        BY <3>2
      <3> DEFINE u == IF s[n] \in S THEN Append(k[n - 1], s[n]) ELSE k[n - 1]
      <3>4. k[n] = u
        BY <1>3, <2>3, <2>5
      <3>5. u \in Seq(T) /\ \E bt : Stand(bt, u, n, s, S)
        BY <3>1, <3>2, <3>3, KeepingOne
      <3> HIDE DEF u
      <3> QED
        BY <2>3, <3>4, <3>5
    <2> QED
      BY <2>4, <2>5
  <1>5. Good(m)
    BY <1>0, <1>4
  <1> QED
    BY <1>2, <1>5

\* The members, their number, and their order.
LEMMA KeptMembers ==
    ASSUME NEW T, NEW s \in Seq(T), NEW S
    PROVE  /\ Kept(s, S) \in Seq(T)
           /\ Len(Kept(s, S)) <= Len(s)
           /\ Elements(Kept(s, S)) = Elements(s) \cap S
  <1> DEFINE t == Kept(s, S)
  <1>1. t \in Seq(T)
    BY KeptStands
  <1>2. PICK at : Stand(at, t, Len(s), s, S)
    BY KeptStands
  <1> HIDE DEF t
  <1>3. Len(t) \in Nat /\ Len(s) \in Nat /\ DOMAIN t = 1 .. Len(t) /\ DOMAIN s = 1 .. Len(s)
    BY <1>1
  <1>4. Elements(t) = Elements(s) \cap S
    <2>1. ASSUME NEW i \in DOMAIN t PROVE t[i] \in Elements(s) \cap S
      BY <1>2, <1>3 DEF Stand, Elements
    <2>2. ASSUME NEW j \in DOMAIN s, s[j] \in S PROVE s[j] \in Elements(t)
      BY <1>2, <1>3, <2>2 DEF Stand, Elements
    <2> QED
      BY <2>1, <2>2 DEF Elements
  <1>5. Len(t) <= Len(s)
    <2> DEFINE Bad == {i \in 1 .. Len(t) : at[i] < i}
    <2>1. Bad = {}
      <3> SUFFICES ASSUME Bad # {} PROVE FALSE
        OBVIOUS
      <3>1. Bad \subseteq Nat
        OBVIOUS
      <3>2. PICK i \in Bad : \A j \in Bad : i <= j
        <4> HIDE DEF Bad
        <4> QED
          BY <3>1, LeastNat
      <3>3. i \in 1 .. Len(t) /\ at[i] < i /\ at[i] \in 1 .. Len(s)
        BY <1>2 DEF Stand
      <3>4. i - 1 \in 1 .. Len(t) /\ i - 1 < i
        BY <1>3, <3>3
      <3>5. at[i - 1] < at[i] /\ at[i - 1] \in 1 .. Len(s)
        BY <1>2, <3>3, <3>4 DEF Stand
      <3>6. i - 1 \in Bad
        BY <1>3, <3>3, <3>4, <3>5
      <3> QED
        BY <3>1, <3>2, <3>6
    <2>2. CASE Len(t) = 0
      BY <1>3, <2>2
    <2>3. CASE Len(t) # 0
      <3>1. Len(t) \in 1 .. Len(t)
        BY <1>3, <2>3
      <3>2. at[Len(t)] \in 1 .. Len(s) /\ ~(at[Len(t)] < Len(t))
        BY <1>2, <2>1, <3>1 DEF Stand
      <3> QED
        BY <1>3, <3>2
    <2> QED
      BY <2>2, <2>3
  <1> QED
    BY <1>1, <1>4, <1>5 DEF t

\* Places that the members tell apart in s are told apart in what is kept of it.
LEMMA KeptApart ==
    ASSUME NEW T, NEW s \in Seq(T), NEW S, NEW i \in DOMAIN Kept(s, S),
           NEW j \in DOMAIN Kept(s, S),
           \A k, l \in DOMAIN s : s[k] = Kept(s, S)[i] /\ s[l] = Kept(s, S)[j] => k = l
    PROVE  i = j
  <1> DEFINE t == Kept(s, S)
  <1>1. t \in Seq(T)
    BY KeptStands
  <1>2. PICK at : Stand(at, t, Len(s), s, S)
    BY KeptStands
  <1>3. \A k, l \in DOMAIN s : s[k] = t[i] /\ s[l] = t[j] => k = l
    OBVIOUS
  <1>4. i \in DOMAIN t /\ j \in DOMAIN t
    OBVIOUS
  <1> HIDE DEF t
  <1>5. i \in 1 .. Len(t) /\ j \in 1 .. Len(t) /\ Len(t) \in Nat /\ DOMAIN s = 1 .. Len(s)
    BY <1>1, <1>4
  <1>6. at[i] \in 1 .. Len(s) /\ at[j] \in 1 .. Len(s) /\ s[at[i]] = t[i] /\ s[at[j]] = t[j]
    BY <1>2, <1>5 DEF Stand
  <1>7. at[i] = at[j]
    BY <1>3, <1>5, <1>6
  <1>8. ~(i < j) /\ ~(j < i)
    BY <1>2, <1>5, <1>6, <1>7 DEF Stand
  <1> QED
    BY <1>5, <1>8

-----------------------------------------------------------------------------
(* What is to be saved.                                                    *)

\* The fields a record has, its values being left open.
IsJob(j) ==
    j \in [phase : {"running"}, todo : {j.todo}, params : {j.params},
           constructs : {j.constructs}, functions : {j.functions}, overrides : {j.overrides},
           variables : {j.variables}, components : {j.components}, index : {j.index},
           needSave : BOOLEAN]
IsWork(w) ==
    w \in [asset : {w.asset}, job : {w.job}, stopped : BOOLEAN] /\ IsJob(w.job)

\* The work w on the current member: outside a play session it has not been
\* given up, and what it, or a member before, has changed is to be saved.
Tracked(w) ==
    /\ IsWork(w)
    /\ ~playing => ~w.stopped /\ (w.job.needSave \/ (w.asset = asset /\ ~job.needSave))

SavedInv ==
    /\ job.phase \in {"idle", "running"}
    /\ ~touched /\ job.phase = "idle" => saved = asset
    /\ Running => IsJob(job)
    /\ Running /\ ~playing => touched \/ asset = saved \/ job.needSave

-----------------------------------------------------------------------------
(* The helpers.                                                            *)

LEMMA WorkTracked ==
    ASSUME Running, SavedInv
    PROVE  Tracked(Work)
  BY DEF SavedInv, Tracked, Work, IsWork

LEMMA UncheckedTracked ==
    ASSUME NEW w, Tracked(w), NEW differs, NEW result
    PROVE  Tracked(Unchecked(w, differs, result))
  <1> DEFINE u == [w EXCEPT !.asset = result, !.job.needSave = TRUE]
  <1>1. /\ IsWork(u)
        /\ u.stopped = w.stopped /\ u.job.needSave = TRUE
    BY DEF Tracked, IsWork, IsJob
  <1>2. Tracked(u)
    BY <1>1 DEF Tracked
  <1>3. Unchecked(w, differs, result) \in {w, u}
    BY DEF Unchecked
  <1> QED
    BY <1>2, <1>3

LEMMA CheckedTracked ==
    ASSUME NEW w, Tracked(w), NEW differs, NEW result
    PROVE  Tracked(Checked(w, differs, result))
  <1> DEFINE u == [w EXCEPT !.stopped = TRUE, !.job.needSave = FALSE]
  <1>1. IsWork(u)
    BY DEF Tracked, IsWork, IsJob
  <1>2. playing => Tracked(u)
    BY <1>1 DEF Tracked
  <1>3. \/ playing /\ Checked(w, differs, result) = u
        \/ Checked(w, differs, result) = Unchecked(w, differs, result)
    BY DEF Checked
  <1> QED
    BY <1>2, <1>3, UncheckedTracked

LEMMA CheckedAfterTracked ==
    ASSUME NEW w, Tracked(w)
    PROVE  Tracked(CheckedAfter(w))
  <1> DEFINE u == [w EXCEPT !.job.needSave = FALSE]
  <1>1. IsWork(u)
    BY DEF Tracked, IsWork, IsJob
  <1>2. playing => Tracked(u)
    BY <1>1 DEF Tracked
  <1>3. \/ playing /\ CheckedAfter(w) = u
        \/ CheckedAfter(w) = w
    BY DEF CheckedAfter
  <1> QED
    BY <1>2, <1>3

Sets == {"functions", "overrides", "variables", "components"}
LEMMA AsksTracked ==
    ASSUME NEW w, Tracked(w), NEW set \in Sets, NEW n
    PROVE  Tracked(Asks(w, set, n))
  <1> DEFINE u == [w EXCEPT !.job[set] = IF w.stopped THEN @ ELSE @ \cup {n}]
  <1>1. /\ IsWork(u) /\ u.stopped = w.stopped /\ u.asset = w.asset
        /\ u.job.needSave = w.job.needSave
    BY DEF Tracked, IsWork, IsJob, Sets
  <1> QED
    BY <1>1 DEF Tracked, Asks

LEMMA ResumedTracked ==
    ASSUME NEW w, Tracked(w)
    PROVE  Tracked([w EXCEPT !.stopped = FALSE])
  <1> DEFINE u == [w EXCEPT !.stopped = FALSE]
  <1>1. /\ IsWork(u) /\ u.stopped = FALSE /\ u.asset = w.asset
        /\ u.job = w.job
    BY DEF Tracked, IsWork
  <1> QED
    BY <1>1 DEF Tracked

-----------------------------------------------------------------------------
(* Functions.                                                              *)

LEMMA SetFlagsTracked ==
    ASSUME NEW w, Tracked(w), NEW knd, NEW n, NEW asked
    PROVE  Tracked(SetFlags(w, knd, n, asked))
  BY CheckedTracked, Zenon DEF SetFlags

LEMMA SetInputsTracked ==
    ASSUME NEW w, Tracked(w), NEW knd, NEW n, NEW ins
    PROVE  Tracked(SetInputs(w, knd, n, ins))
  <1> DEFINE result == [w.asset EXCEPT ![knd][n].ins = ins]
             old == w.asset[knd][n].ins
  <1>1. SetInputs(w, knd, n, ins) \in {Unchecked(w, TRUE, result),
                                     Checked(w, PinsOf(old) # PinsOf(ins), result)}
    BY DEF SetInputs
  <1> HIDE DEF result, old
  <1> QED
    BY <1>1, UncheckedTracked, CheckedTracked

LEMMA SetOutputsTracked ==
    ASSUME NEW w, Tracked(w), NEW n, NEW m, NEW outs
    PROVE  Tracked(SetOutputs(w, n, m, outs))
  <1> DEFINE old == w.asset.graphs[n].outs
             grown == Grown(old, m, outs)
             pruned == Only(grown, Named(outs) \cup {"ReturnValue"})
             put(o) == [w.asset EXCEPT !.graphs[n].outs = o]
             w1 == Unchecked(w, grown # old, put(grown))
             u == [w1 EXCEPT !.stopped = TRUE, !.job.needSave = FALSE]
  <1>1. \/ SetOutputs(w, n, m, outs) = Checked(w, DOMAIN old # {}, put(NoEntries))
        \/ SetOutputs(w, n, m, outs) = w1
        \/ Refused(old, m, outs) /\ SetOutputs(w, n, m, outs) = u
        \/ SetOutputs(w, n, m, outs) = Checked(w1, pruned # grown, put(pruned))
    BY Zenon DEF SetOutputs
  <1>2. Tracked(w1)
    BY UncheckedTracked, Zenon
  <1>3. Refused(old, m, outs) => playing
    BY DEF Refused
  <1> HIDE DEF w1
  <1>4. Refused(old, m, outs) => Tracked(u)
    BY <1>2, <1>3 DEF Tracked, IsWork, IsJob
  <1>5. Tracked(Checked(w, DOMAIN old # {}, put(NoEntries)))
    BY CheckedTracked, Zenon
  <1>6. Tracked(Checked(w1, pruned # grown, put(pruned)))
    BY <1>2, CheckedTracked, Zenon
  <1> QED
    BY <1>1, <1>2, <1>4, <1>5, <1>6, Zenon

LEMMA AddFunctionTracked ==
    ASSUME Tracked(Work), NEW m
    PROVE  Tracked(AddFunction(m))
  <1> DEFINE n == m.name
             event == Checked(Work, n \notin DOMAIN asset.events,
                              [asset EXCEPT !.events = With(@, n, NewFunction),
                                            !.graphs = Only(@, DOMAIN @ \ {n})])
             graph == Checked(Work, n \notin DOMAIN asset.graphs,
                              [asset EXCEPT !.graphs = With(@, n, NewFunction),
                                            !.events = Only(@, DOMAIN @ \ {n})])
             over == Checked(Work, n \notin asset.overrides, [asset EXCEPT !.overrides = @ \cup {n}])
             body == Checked(Work, n \notin DOMAIN asset.graphs,
                             [asset EXCEPT !.graphs = With(@, n, NewFunction)])
  <1>1. Tracked(event) /\ Tracked(graph) /\ Tracked(over) /\ Tracked(body)
    BY CheckedTracked, Zenon
  <1>2. Tracked(AddOverrideEvent(m))
    <2>1. AddOverrideEvent(m) = Asks(over, "overrides", n)
      BY Zenon DEF AddOverrideEvent
    <2> HIDE DEF over
    <2> QED
      BY <1>1, <2>1, AsksTracked DEF Sets
  <1>3. Tracked(AddOverrideGraph(m))
    <2>1. AddOverrideGraph(m) = Work \/ AddOverrideGraph(m) = Asks(body, "functions", n)
      BY Zenon DEF AddOverrideGraph
    <2> HIDE DEF body
    <2> QED
      BY <1>1, <2>1, AsksTracked DEF Sets
  <1>4. Tracked(AddInput(m))
    BY CheckedTracked, Zenon DEF AddInput
  <1>5. Tracked(AddCustomEvent(m))
    <2> DEFINE flagged == SetFlags(Asks(event, "functions", n), "events", n, Asked(m))
    <2>1. AddCustomEvent(m) \in {Work, event, SetInputs(flagged, "events", n, Inputs(job.params))}
      BY DEF AddCustomEvent
    <2> HIDE DEF event
    <2>2. Tracked(flagged)
      BY <1>1, AsksTracked, SetFlagsTracked DEF Sets
    <2> HIDE DEF flagged
    <2> QED
      BY <1>1, <2>1, <2>2, SetInputsTracked
  <1>6. Tracked(AddGraph(m))
    <2> DEFINE flagged == SetFlags(Asks(graph, "functions", n), "graphs", n, Asked(m))
               given == SetInputs(flagged, "graphs", n, Inputs(job.params))
    <2>1. AddGraph(m) \in {Work, graph, SetOutputs(given, n, m, Outputs(job.params))}
      BY DEF AddGraph
    <2> HIDE DEF graph
    <2>2. Tracked(flagged)
      BY <1>1, AsksTracked, SetFlagsTracked DEF Sets
    <2> HIDE DEF flagged
    <2>3. Tracked(given)
      BY <2>2, SetInputsTracked
    <2> HIDE DEF given
    <2> QED
      BY <1>1, <2>1, <2>3, SetOutputsTracked
  <1> QED
    BY <1>2, <1>3, <1>4, <1>5, <1>6, Zenon DEF AddFunction

LEMMA ApplyToFunctionTracked ==
    ASSUME NEW w, Tracked(w), NEW m
    PROVE  Tracked(ApplyToFunction(w, m))
  <1> DEFINE knd == IF m.name \in DOMAIN w.asset.events THEN "events" ELSE "graphs"
             go == [w EXCEPT !.stopped = FALSE]
             u == Unchecked(go, ~(m.meta.flags \subseteq w.asset[knd][m.name].flags),
                            [w.asset EXCEPT ![knd][m.name].flags = @ \cup m.meta.flags])
  <1>1. Tracked(go)
    BY ResumedTracked
  <1>2. ApplyToFunction(w, m) \in {w, CheckedAfter(go), CheckedAfter(u)}
    BY DEF ApplyToFunction
  <1> HIDE DEF go, knd
  <1>3. Tracked(u)
    BY <1>1, UncheckedTracked, Zenon
  <1> HIDE DEF u
  <1> QED
    BY <1>1, <1>2, <1>3, CheckedAfterTracked

-----------------------------------------------------------------------------
(* Variables.                                                              *)

LEMMA SetNetTracked ==
    ASSUME NEW w, Tracked(w), NEW n, NEW m
    PROVE  Tracked(SetNet(w, n, m))
  <1>1. \E differs, result :
          LET w1 == Checked(w, differs, result)
          IN  SetNet(w, n, m) = w1 \/ SetNet(w, n, m) = Asks(w1, "functions", OnRep(n))
    BY Zenon DEF SetNet
  <1> QED
    BY <1>1, CheckedTracked, AsksTracked DEF Sets

LEMMA SetVariableTracked ==
    ASSUME NEW w, Tracked(w), NEW n, NEW m, NEW pin
    PROVE  Tracked(SetVariable(w, n, m, pin))
  <1> DEFINE w1 == Checked(w, w.asset.variables[n].pin # pin,
                           [w.asset EXCEPT !.variables[n].pin = pin])
             w2 == SetNet(w1, n, m)
             w3 == Checked(w2, w2.asset.variables[n].condition # m.condition,
                           [w2.asset EXCEPT !.variables[n].condition = m.condition])
             flags == VariableFlags(m, pin)
  <1>1. SetVariable(w, n, m, pin) = Checked(w3, w3.asset.variables[n].flags # flags,
                                            [w3.asset EXCEPT !.variables[n].flags = flags])
    BY Zenon DEF SetVariable
  <1>2. Tracked(w1)
    BY CheckedTracked, Zenon
  <1> HIDE DEF w1
  <1>3. Tracked(w2)
    BY <1>2, SetNetTracked
  <1> HIDE DEF w2
  <1>4. Tracked(w3)
    BY <1>3, CheckedTracked, Zenon
  <1> HIDE DEF w3, flags
  <1>5. Tracked(Checked(w3, w3.asset.variables[n].flags # flags,
                        [w3.asset EXCEPT !.variables[n].flags = flags]))
    BY <1>4, CheckedTracked, Zenon
  <1> QED
    BY <1>1, <1>5, Zenon

LEMMA AddMemberVariableTracked ==
    ASSUME Tracked(Work), NEW m, NEW pin
    PROVE  Tracked(AddMemberVariable(m, pin))
  <1> DEFINE n == m.name
             made == Checked(Work, n \notin DOMAIN asset.variables,
                             [asset EXCEPT !.variables = With(@, n, NewVariable(pin)),
                                           !.order = Append(@, n)])
  <1>1. AddMemberVariable(m, pin) \in
            {AddComponent(n, pin), made, Asks(SetVariable(made, n, m, pin), "variables", n)}
    BY DEF AddMemberVariable
  <1>2. Tracked(AddComponent(n, pin))
    <2>1. \E differs, result :
            AddComponent(n, pin) = Asks(Unchecked(Work, differs, result), "components", n)
      BY Zenon DEF AddComponent
    <2> QED
      BY <2>1, UncheckedTracked, AsksTracked DEF Sets
  <1>3. Tracked(made)
    BY CheckedTracked, Zenon
  <1> HIDE DEF made
  <1>4. Tracked(Asks(SetVariable(made, n, m, pin), "variables", n))
    BY <1>3, SetVariableTracked, AsksTracked DEF Sets
  <1> QED
    BY <1>1, <1>2, <1>3, <1>4

LEMMA PlaceTracked ==
    ASSUME NEW w, Tracked(w), NEW n
    PROVE  Tracked(Place(w, n))
  <1>1. \E v : Tracked(v) /\ Place(w, n) = [v EXCEPT !.job.index = @ + 1]
    <2>1. \/ Place(w, n) = [w EXCEPT !.job.index = @ + 1]
          \/ \E differs, result :
                Place(w, n) = [Unchecked(w, differs, result) EXCEPT !.job.index = @ + 1]
      BY DEF Place
    <2> QED
      BY <2>1, UncheckedTracked, Zenon
  <1>2. PICK v : Tracked(v) /\ Place(w, n) = [v EXCEPT !.job.index = @ + 1]
    BY <1>1
  <1> DEFINE u == [v EXCEPT !.job.index = @ + 1]
  <1>3. /\ IsWork(u) /\ u.stopped = v.stopped /\ u.asset = v.asset
        /\ u.job.needSave = v.job.needSave
    BY <1>2 DEF Tracked, IsWork, IsJob
  <1> QED
    BY <1>2, <1>3 DEF Tracked

LEMMA ApplyToVariableTracked ==
    ASSUME NEW w, Tracked(w), NEW m
    PROVE  Tracked(ApplyToVariable(w, m))
  <1>1. \E differs, result :
          LET w1 == Unchecked(w, differs, result)
          IN  ApplyToVariable(w, m) = w1 \/ ApplyToVariable(w, m) = CheckedAfter(w1)
    BY Zenon DEF ApplyToVariable
  <1> QED
    BY <1>1, UncheckedTracked, CheckedAfterTracked

LEMMA AddVariableTracked ==
    ASSUME NEW w, Tracked(w), NEW m
    PROVE  Tracked(AddVariable(w, m))
  <1>1. AddVariable(w, m) \in {w, ApplyToVariable(Place(w, m.name), m)}
    BY DEF AddVariable
  <1> QED
    BY <1>1, PlaceTracked, ApplyToVariableTracked

-----------------------------------------------------------------------------
(* The walk.                                                               *)

\* A step on a member, whose work is tracked, keeps what is saved in view.
LEMMA MemberStep ==
    ASSUME SavedInv, Running, NEW w, Tracked(w), Becomes(Done(w)),
           UNCHANGED <<playing, saved, touched>>
    PROVE  SavedInv'
  <1> DEFINE u == [w EXCEPT !.job.todo = Tail(@), !.job.params = <<>>]
  <1>1. /\ IsWork(u) /\ u.stopped = w.stopped /\ u.asset = w.asset
        /\ u.job.needSave = w.job.needSave
    BY DEF Tracked, IsWork, IsJob
  <1>2. asset' = w.asset /\ job' = u.job /\ job'.needSave = w.job.needSave
    BY <1>1 DEF Becomes, Done
  <1>3. IsJob(job')
    BY <1>1, <1>2 DEF IsWork
  <1>4. job'.phase = "running"
    BY <1>3 DEF IsJob
  <1> HIDE DEF u
  <1>5. ~playing' => touched' \/ asset' = saved' \/ job'.needSave
    BY <1>2, Zenon DEF Tracked, SavedInv
  <1> QED
    BY <1>3, <1>4, <1>5 DEF SavedInv, Running

LEMMA SkipStep == SavedInv /\ Skip => SavedInv'
  BY WorkTracked, MemberStep DEF Skip, Step

LEMMA ParameterStep == SavedInv /\ AddParameter => SavedInv'
  <1> SUFFICES ASSUME SavedInv, AddParameter PROVE SavedInv'
    OBVIOUS
  <1>1. CASE Becomes(Done(Work))
    BY <1>1, WorkTracked, MemberStep DEF AddParameter, Step
  <1>2. CASE \E p : job' = [job EXCEPT !.params = p] /\ UNCHANGED asset
    <2>1. PICK p : job' = [job EXCEPT !.params = p] /\ UNCHANGED asset
      BY <1>2
    <2>2. IsJob(job') /\ job'.phase = "running" /\ job'.needSave = job.needSave
      BY <2>1 DEF AddParameter, Step, SavedInv, IsJob
    <2> QED
      BY <2>1, <2>2 DEF AddParameter, Step, SavedInv, Running
  <1>3. Becomes(Done(Work)) \/ \E p : job' = [job EXCEPT !.params = p] /\ UNCHANGED asset
    BY Zenon DEF AddParameter
  <1> QED
    BY <1>1, <1>2, <1>3

LEMMA FunctionStep == SavedInv /\ EmitFunction => SavedInv'
  <1> SUFFICES ASSUME SavedInv, EmitFunction PROVE SavedInv'
    OBVIOUS
  <1>1. Tracked(Work)
    BY WorkTracked DEF EmitFunction, Step
  <1>2. Tracked(ApplyToFunction(AddFunction(Member), Member))
    BY <1>1, AddFunctionTracked, ApplyToFunctionTracked
  <1>3. Becomes(Done(Work)) \/ Becomes(Done(ApplyToFunction(AddFunction(Member), Member)))
    BY DEF EmitFunction
  <1> QED
    BY <1>1, <1>2, <1>3, MemberStep DEF EmitFunction, Step

LEMMA PropertyStep == SavedInv /\ EmitProperty => SavedInv'
  <1> SUFFICES ASSUME SavedInv, EmitProperty PROVE SavedInv'
    OBVIOUS
  <1>1. PICK w : /\ w = AddMemberVariable(Member, Pin(Member.type))
                 /\ Becomes(Done(AddVariable([w EXCEPT !.stopped = FALSE], Member)))
    BY DEF EmitProperty
  <1>2. Tracked(w)
    BY <1>1, WorkTracked, AddMemberVariableTracked DEF EmitProperty, Step
  <1>3. Tracked(AddVariable([w EXCEPT !.stopped = FALSE], Member))
    BY <1>2, ResumedTracked, AddVariableTracked
  <1> QED
    BY <1>1, <1>3, MemberStep DEF EmitProperty, Step

LEMMA BeginStep == SavedInv /\ Begin => SavedInv'
  <1> SUFFICES ASSUME SavedInv, Begin PROVE SavedInv'
    OBVIOUS
  <1>1. IsJob(job')
    BY DEF Begin, Idle, IsJob
  <1> QED
    BY <1>1 DEF Begin, SavedInv, Running, IsJob

\* What a play session leaves unsaved is marked as touched.
LEMMA FinishStep == SavedInv /\ Finish => SavedInv'
  <1> SUFFICES ASSUME SavedInv, Finish PROVE SavedInv'
    OBVIOUS
  <1> DEFINE left == IF playing THEN asset ELSE Pruned
             needSave == job.needSave \/ left # asset \/ asset.hasConstructor # job.constructs
             result == [left EXCEPT !.hasConstructor = job.constructs]
  <1>1. /\ asset' = IF ~needSave THEN asset ELSE IF playing THEN left ELSE result
        /\ saved' = IF needSave /\ ~playing THEN result ELSE saved
        /\ touched' = IF playing THEN asset # saved ELSE touched /\ ~needSave
        /\ job' = Idle
    BY Zenon DEF Finish
  <1>2. Running
    BY DEF Finish
  <1>3. playing => left = asset
    OBVIOUS
  <1>4. job.needSave => needSave
    OBVIOUS
  <1> HIDE DEF left, result, needSave
  <1>5. CASE playing
    <2>1. asset' = asset /\ saved' = saved /\ touched' = (asset # saved)
      BY <1>1, <1>3, <1>5
    <2> QED
      BY <1>1, <2>1 DEF SavedInv, Running, Idle
  <1>6. CASE ~playing /\ needSave
    <2>1. asset' = saved'
      BY <1>1, <1>6
    <2> QED
      BY <1>1, <2>1 DEF SavedInv, Running, Idle
  <1>7. CASE ~playing /\ ~needSave
    <2>1. asset' = asset /\ saved' = saved
      BY <1>1, <1>7
    <2>2. ~touched' => ~touched
      BY <1>1, <1>7
    <2>3. touched \/ asset = saved
      BY <1>2, <1>4, <1>7, Zenon DEF SavedInv
    <2> QED
      BY <1>1, <2>1, <2>2, <2>3 DEF SavedInv, Running, Idle
  <1> QED
    BY <1>5, <1>6, <1>7

LEMMA SavedInvariant == Spec => []SavedInv
  <1>1. Init => SavedInv
    BY DEF Init, SavedInv, Idle, Running
  <1>2. ASSUME SavedInv, [Next]_vars
        PROVE  SavedInv'
    <2>1. CASE Begin
      BY <1>2, <2>1, BeginStep
    <2>2. CASE BeginWithoutBlueprint
      BY <1>2, <2>2 DEF BeginWithoutBlueprint, SavedInv, Running
    <2>3. CASE Skip
      BY <1>2, <2>3, SkipStep
    <2>4. CASE AddParameter
      BY <1>2, <2>4, ParameterStep
    <2>5. CASE EmitFunction
      BY <1>2, <2>5, FunctionStep
    <2>6. CASE EmitProperty
      BY <1>2, <2>6, PropertyStep
    <2>7. CASE Finish
      BY <1>2, <2>7, FinishStep
    <2>8. CASE \E d \in Declarations : Edit(d)
      BY <1>2, <2>8 DEF Edit, SavedInv, Running
    <2>9. CASE TogglePlay
      BY <1>2, <2>9 DEF TogglePlay, SavedInv, Running
    <2>10. CASE UNCHANGED vars
      BY <1>2, <2>10 DEF vars, SavedInv, Running
    <2> QED
      BY <1>2, <2>1, <2>2, <2>3, <2>4, <2>5, <2>6, <2>7, <2>8, <2>9, <2>10 DEF Next
  <1> QED
    BY <1>1, <1>2, PTL DEF Spec

\* SavedIsCurrent for every class, base and project, however often it is edited
\* and refreshed: the blueprint is saved as it is, unless a play session refused.
THEOREM NoChangeEscapes == Spec => []SavedIsCurrent
  <1>1. SavedInv => SavedIsCurrent
    BY DEF SavedInv, SavedIsCurrent, Settled
  <1> QED
    BY <1>1, SavedInvariant, PTL

-----------------------------------------------------------------------------
(* The shape of a blueprint.                                               *)

IsMap(f) == f = [x \in DOMAIN f |-> f[x]]
IsFunction(g) == g \in [ins : {g.ins}, outs : {g.outs}, flags : {g.flags}]
IsVariable(x) ==
    x \in [pin : {x.pin}, flags : {x.flags}, condition : {x.condition}, notify : {x.notify},
           keys : {x.keys}]
Functions(f) == IsMap(f) /\ \A n \in DOMAIN f : IsFunction(f[n])
Variables(f) == IsMap(f) /\ \A n \in DOMAIN f : IsVariable(f[n])
Shaped(a) ==
    /\ a \in [graphs : {a.graphs}, events : {a.events}, overrides : {a.overrides},
              inputs : {a.inputs}, variables : {a.variables}, order : {a.order},
              components : {a.components}, hasConstructor : {a.hasConstructor}]
    /\ Functions(a.graphs) /\ Functions(a.events) /\ Variables(a.variables)
    /\ IsMap(a.components)

\* The job is the same but for what is asked to be saved.
SameJob(j, k) ==
    /\ j.todo = k.todo /\ j.params = k.params /\ j.constructs = k.constructs
    /\ j.functions = k.functions /\ j.overrides = k.overrides /\ j.variables = k.variables
    /\ j.components = k.components /\ j.index = k.index

\* v is w after a change: made, not needed, or refused.
Changed(w, v, differs, result) ==
    /\ IsWork(v) /\ SameJob(v.job, w.job)
    /\ v.asset = w.asset \/ (differs /\ v.asset = result)
    /\ ~v.stopped => ~w.stopped /\ v.asset = IF differs THEN result ELSE w.asset
    /\ w.stopped => v.stopped /\ v.asset = w.asset
    /\ ~playing /\ ~w.stopped => ~v.stopped

LEMMA UncheckedIs ==
    ASSUME NEW w, IsWork(w), NEW differs \in BOOLEAN, NEW result
    PROVE  /\ Changed(w, Unchecked(w, differs, result), differs, result)
           /\ Unchecked(w, differs, result).stopped = w.stopped
  <1> DEFINE u == [w EXCEPT !.asset = result, !.job.needSave = TRUE]
  <1>1. IsWork(u) /\ u.stopped = w.stopped /\ u.asset = result /\ SameJob(u.job, w.job)
    BY DEF IsWork, IsJob, SameJob
  <1>2. Unchecked(w, differs, result) = IF w.stopped \/ ~differs THEN w ELSE u
    BY DEF Unchecked
  <1> HIDE DEF u
  <1>3. SameJob(w.job, w.job) /\ w.stopped \in BOOLEAN
    BY DEF SameJob, IsWork
  <1>4. CASE w.stopped \/ ~differs
    <2>1. Unchecked(w, differs, result) = w
      BY <1>2, <1>4
    <2>2. ~w.stopped => w.asset = IF differs THEN result ELSE w.asset
      BY <1>4
    <2>3. Changed(w, w, differs, result)
      BY <1>3, <2>2 DEF Changed
    <2> QED
      BY <2>1, <2>3
  <1>5. CASE ~w.stopped /\ differs
    <2>1. Unchecked(w, differs, result) = u
      BY <1>2, <1>5
    <2> QED
      BY <1>1, <1>5, <2>1, Zenon DEF Changed
  <1> QED
    BY <1>3, <1>4, <1>5

LEMMA CheckedIs ==
    ASSUME NEW w, IsWork(w), NEW differs \in BOOLEAN, NEW result
    PROVE  Changed(w, Checked(w, differs, result), differs, result)
  <1> DEFINE u == [w EXCEPT !.stopped = TRUE, !.job.needSave = FALSE]
  <1>1. IsWork(u) /\ u.stopped = TRUE /\ u.asset = w.asset /\ SameJob(u.job, w.job)
    BY DEF IsWork, IsJob, SameJob
  <1>2. Checked(w, differs, result) =
            IF ~w.stopped /\ differs /\ playing THEN u ELSE Unchecked(w, differs, result)
    BY DEF Checked
  <1> HIDE DEF u
  <1> QED
    BY <1>1, <1>2, UncheckedIs DEF Changed

LEMMA CheckedAfterIs ==
    ASSUME NEW w, IsWork(w)
    PROVE  LET v == CheckedAfter(w)
           IN  /\ IsWork(v) /\ SameJob(v.job, w.job)
               /\ v.asset = w.asset /\ v.stopped = w.stopped
  <1> DEFINE u == [w EXCEPT !.job.needSave = FALSE]
  <1>1. IsWork(u) /\ u.stopped = w.stopped /\ u.asset = w.asset /\ SameJob(u.job, w.job)
    BY DEF IsWork, IsJob, SameJob
  <1>2. CheckedAfter(w) = IF w.job.needSave /\ playing THEN u ELSE w
    BY DEF CheckedAfter
  <1> HIDE DEF u
  <1>3. SameJob(w.job, w.job)
    BY DEF SameJob
  <1> QED
    BY <1>1, <1>2, <1>3

LEMMA ResumedIs ==
    ASSUME NEW w, IsWork(w)
    PROVE  LET v == [w EXCEPT !.stopped = FALSE]
           IN  /\ IsWork(v) /\ v.job = w.job /\ v.asset = w.asset /\ v.stopped = FALSE
  BY DEF IsWork

-----------------------------------------------------------------------------
(* What the work on a method n touches.                                    *)

SameBut(f, g, n) ==
    \A x : x # n => (x \in DOMAIN f <=> x \in DOMAIN g) /\ (x \in DOMAIN f => f[x] = g[x])
FunctionFrame(a, b, n) ==
    /\ Shaped(b)
    /\ b.variables = a.variables /\ b.order = a.order /\ b.components = a.components
    /\ b.hasConstructor = a.hasConstructor
    /\ SameBut(a.graphs, b.graphs, n) /\ SameBut(a.events, b.events, n)
    /\ a.overrides \subseteq b.overrides /\ b.overrides \subseteq a.overrides \cup {n}
    /\ a.inputs \subseteq b.inputs /\ b.inputs \subseteq a.inputs \cup {n}

\* It changes what is in its place.
Refilled(a, b, n) ==
    /\ FunctionFrame(a, b, n)
    /\ DOMAIN b.graphs = DOMAIN a.graphs /\ DOMAIN b.events = DOMAIN a.events
    /\ b.overrides = a.overrides /\ b.inputs = a.inputs

LEMMA FrameKeeps == ASSUME NEW a, Shaped(a), NEW n PROVE Refilled(a, a, n)
  BY DEF Refilled, FunctionFrame, SameBut

LEMMA FrameSteps ==
    ASSUME NEW a, NEW b, NEW c, NEW n, FunctionFrame(a, b, n), FunctionFrame(b, c, n)
    PROVE  FunctionFrame(a, c, n)
  <1>1. SameBut(a.graphs, c.graphs, n)
    BY DEF FunctionFrame, SameBut
  <1>2. SameBut(a.events, c.events, n)
    BY DEF FunctionFrame, SameBut
  <1> QED
    BY <1>1, <1>2 DEF FunctionFrame

LEMMA RefillSteps ==
    ASSUME NEW a, NEW b, NEW c, NEW n, Refilled(a, b, n), Refilled(b, c, n)
    PROVE  Refilled(a, c, n)
  BY FrameSteps DEF Refilled

FunctionKinds == {"graphs", "events"}

\* A function with another field.
LEMMA FunctionPut ==
    ASSUME NEW a, Shaped(a), NEW knd \in FunctionKinds, NEW n \in DOMAIN a[knd],
           NEW g, IsFunction(g)
    PROVE  LET b == [a EXCEPT ![knd][n] = g]
           IN  /\ Refilled(a, b, n)
               /\ b[knd][n] = g
               /\ \A k \in FunctionKinds \ {knd} : b[k] = a[k]
  <1> DEFINE f == [a[knd] EXCEPT ![n] = g]
             b == [a EXCEPT ![knd] = f]
  <1>1. CASE knd = "graphs"
    <2>1. /\ DOMAIN f = DOMAIN a.graphs /\ f[n] = g /\ SameBut(a.graphs, f, n)
          /\ Functions(f)
      BY <1>1 DEF Shaped, Functions, IsMap, SameBut
    <2> HIDE DEF f
    <2>2. /\ Shaped(b) /\ b.graphs = f /\ b.events = a.events /\ b.overrides = a.overrides
          /\ b.inputs = a.inputs /\ b.variables = a.variables /\ b.order = a.order
          /\ b.components = a.components /\ b.hasConstructor = a.hasConstructor
      BY <1>1, <2>1 DEF Shaped
    <2>3. Refilled(a, b, n)
      BY <2>1, <2>2 DEF Refilled, FunctionFrame, SameBut
    <2> QED
      BY <1>1, <2>1, <2>2, <2>3 DEF FunctionKinds, f
  <1>2. CASE knd = "events"
    <2>1. /\ DOMAIN f = DOMAIN a.events /\ f[n] = g /\ SameBut(a.events, f, n)
          /\ Functions(f)
      BY <1>2 DEF Shaped, Functions, IsMap, SameBut
    <2> HIDE DEF f
    <2>2. /\ Shaped(b) /\ b.events = f /\ b.graphs = a.graphs /\ b.overrides = a.overrides
          /\ b.inputs = a.inputs /\ b.variables = a.variables /\ b.order = a.order
          /\ b.components = a.components /\ b.hasConstructor = a.hasConstructor
      BY <1>2, <2>1 DEF Shaped
    <2>3. Refilled(a, b, n)
      BY <2>1, <2>2 DEF Refilled, FunctionFrame, SameBut
    <2> QED
      BY <1>2, <2>1, <2>2, <2>3 DEF FunctionKinds, f
  <1> QED
    BY <1>1, <1>2 DEF FunctionKinds

\* The work v continues w on the function n.
Refills(w, v, n) ==
    /\ IsWork(v) /\ SameJob(v.job, w.job)
    /\ Refilled(w.asset, v.asset, n)
    /\ ~playing /\ ~w.stopped => ~v.stopped

LEMMA ChangeRefills ==
    ASSUME NEW w, IsWork(w), Shaped(w.asset), NEW n, NEW differs, NEW result,
           Refilled(w.asset, result, n), NEW v, Changed(w, v, differs, result)
    PROVE  Refills(w, v, n)
  BY FrameKeeps DEF Changed, Refills

LEMMA RefillsFollow ==
    ASSUME NEW u, NEW v, NEW w, NEW n, Refills(u, v, n), Refills(v, w, n)
    PROVE  Refills(u, w, n)
  <1>1. Refilled(u.asset, w.asset, n)
    BY RefillSteps DEF Refills
  <1> QED
    BY <1>1 DEF Refills, SameJob

LEMMA FlagsPut ==
    ASSUME NEW a, Shaped(a), NEW knd \in FunctionKinds, NEW n \in DOMAIN a[knd], NEW x
    PROVE  LET b == [a EXCEPT ![knd][n].flags = x]
           IN  /\ Refilled(a, b, n) /\ b[knd][n].flags = x
               /\ b[knd][n].ins = a[knd][n].ins /\ b[knd][n].outs = a[knd][n].outs
  <1> DEFINE f == [a[knd][n] EXCEPT !.flags = x]
             b == [a EXCEPT ![knd][n].flags = x]
  <1>1. IsFunction(a[knd][n])
    BY DEF Shaped, Functions, FunctionKinds
  <1>2. IsFunction(f) /\ f.flags = x /\ f.ins = a[knd][n].ins /\ f.outs = a[knd][n].outs
    BY <1>1 DEF IsFunction
  <1>3. b = [a EXCEPT ![knd][n] = f]
    OBVIOUS
  <1> HIDE DEF f, b
  <1>4. Refilled(a, [a EXCEPT ![knd][n] = f], n) /\ [a EXCEPT ![knd][n] = f][knd][n] = f
    BY <1>2, FunctionPut, SMTT(40)
  <1>5. Refilled(a, b, n) /\ b[knd][n] = f
    BY <1>3, <1>4
  <1> QED
    BY <1>2, <1>5 DEF b

LEMMA InputsPut ==
    ASSUME NEW a, Shaped(a), NEW knd \in FunctionKinds, NEW n \in DOMAIN a[knd], NEW x
    PROVE  LET b == [a EXCEPT ![knd][n].ins = x]
           IN  /\ Refilled(a, b, n) /\ b[knd][n].ins = x
               /\ b[knd][n].flags = a[knd][n].flags /\ b[knd][n].outs = a[knd][n].outs
  <1> DEFINE f == [a[knd][n] EXCEPT !.ins = x]
             b == [a EXCEPT ![knd][n].ins = x]
  <1>1. IsFunction(a[knd][n])
    BY DEF Shaped, Functions, FunctionKinds
  <1>2. IsFunction(f) /\ f.ins = x /\ f.flags = a[knd][n].flags /\ f.outs = a[knd][n].outs
    BY <1>1 DEF IsFunction
  <1>3. b = [a EXCEPT ![knd][n] = f]
    OBVIOUS
  <1> HIDE DEF f, b
  <1>4. Refilled(a, [a EXCEPT ![knd][n] = f], n) /\ [a EXCEPT ![knd][n] = f][knd][n] = f
    BY <1>2, FunctionPut
  <1>5. Refilled(a, b, n) /\ b[knd][n] = f
    BY <1>3, <1>4
  <1> QED
    BY <1>2, <1>5 DEF b

LEMMA OutputsPut ==
    ASSUME NEW a, Shaped(a), NEW n \in DOMAIN a.graphs, NEW x
    PROVE  LET b == [a EXCEPT !.graphs[n].outs = x]
           IN  /\ Refilled(a, b, n) /\ b.graphs[n].outs = x
               /\ b.graphs[n].ins = a.graphs[n].ins /\ b.graphs[n].flags = a.graphs[n].flags
  <1> DEFINE f == [a.graphs[n] EXCEPT !.outs = x]
  <1>1. IsFunction(a.graphs[n])
    BY DEF Shaped, Functions
  <1>2. IsFunction(f) /\ f.outs = x /\ f.ins = a.graphs[n].ins /\ f.flags = a.graphs[n].flags
    BY <1>1 DEF IsFunction
  <1>3. [a EXCEPT !.graphs[n].outs = x] = [a EXCEPT !["graphs"][n] = f]
    OBVIOUS
  <1> HIDE DEF f
  <1>4. /\ Refilled(a, [a EXCEPT !["graphs"][n] = f], n)
        /\ [a EXCEPT !["graphs"][n] = f]["graphs"][n] = f
    BY <1>2, FunctionPut DEF FunctionKinds
  <1> QED
    BY <1>2, <1>3, <1>4

-----------------------------------------------------------------------------
(* The helpers of AddFunction.                                             *)

NewFlags(old, asked) == ((old \ NetMask) \cup asked.set) \ asked.clear

LEMMA SetFlagsIs ==
    ASSUME NEW w, IsWork(w), Shaped(w.asset), NEW knd \in FunctionKinds,
           NEW n \in DOMAIN w.asset[knd], NEW asked
    PROVE  LET v == SetFlags(w, knd, n, asked)
               old == w.asset[knd][n]
               new == v.asset[knd][n]
           IN  /\ Refills(w, v, n)
               /\ ~v.stopped => new.flags = NewFlags(old.flags, asked)
                                /\ new.ins = old.ins /\ new.outs = old.outs
  <1> DEFINE old == w.asset[knd][n].flags
             new == NewFlags(old, asked)
             result == [w.asset EXCEPT ![knd][n].flags = new]
             v == Checked(w, new # old, result)
  <1>1. SetFlags(w, knd, n, asked) = v
    BY DEF SetFlags, NewFlags
  <1>2. /\ Refilled(w.asset, result, n) /\ result[knd][n].flags = new
        /\ result[knd][n].ins = w.asset[knd][n].ins
        /\ result[knd][n].outs = w.asset[knd][n].outs
    <2> HIDE DEF new
    <2> QED
      BY FlagsPut
  <1> HIDE DEF result
  <1>3. Changed(w, v, new # old, result)
    BY CheckedIs
  <1> HIDE DEF v
  <1>4. Refills(w, v, n)
    <2> HIDE DEF new, old
    <2> QED
      BY <1>2, <1>3, ChangeRefills
  <1>5. ~v.stopped => v.asset = IF new # old THEN result ELSE w.asset
    BY <1>3 DEF Changed
  <1> QED
    BY <1>1, <1>2, <1>4, <1>5

LEMMA SetInputsIs ==
    ASSUME NEW w, IsWork(w), Shaped(w.asset), NEW knd \in FunctionKinds,
           NEW n \in DOMAIN w.asset[knd], NEW ins
    PROVE  LET v == SetInputs(w, knd, n, ins)
               old == w.asset[knd][n]
               new == v.asset[knd][n]
           IN  /\ Refills(w, v, n)
               /\ ~v.stopped => PinsOf(new.ins) = PinsOf(ins)
                                /\ new.flags = old.flags /\ new.outs = old.outs
  <1> DEFINE old == w.asset[knd][n].ins
             result == [w.asset EXCEPT ![knd][n].ins = ins]
             differs == Len(old) # Len(ins) \/ PinsOf(old) # PinsOf(ins)
             v == SetInputs(w, knd, n, ins)
  <1>1. /\ Refilled(w.asset, result, n) /\ result[knd][n].ins = ins
        /\ result[knd][n].flags = w.asset[knd][n].flags
        /\ result[knd][n].outs = w.asset[knd][n].outs
    BY InputsPut
  <1>2. /\ Len(old) # Len(ins) => v = Unchecked(w, TRUE, result)
        /\ Len(old) = Len(ins) => v = Checked(w, PinsOf(old) # PinsOf(ins), result)
    BY DEF SetInputs
  <1> HIDE DEF result, v
  <1>3. Changed(w, v, differs, result)
    <2>1. CASE Len(old) # Len(ins)
      <3>1. Changed(w, Unchecked(w, TRUE, result), TRUE, result)
        BY UncheckedIs
      <3>2. differs = TRUE
        BY <2>1
      <3> QED
        BY <1>2, <2>1, <3>1, <3>2
    <2>2. CASE Len(old) = Len(ins)
      <3>1. Changed(w, Checked(w, PinsOf(old) # PinsOf(ins), result), PinsOf(old) # PinsOf(ins),
                    result)
        BY CheckedIs
      <3>2. differs = (PinsOf(old) # PinsOf(ins))
        BY <2>2
      <3> QED
        BY <1>2, <2>2, <3>1, <3>2
    <2> QED
      BY <2>1, <2>2
  <1>4. Refills(w, v, n)
    <2> HIDE DEF differs
    <2> QED
      BY <1>1, <1>3, ChangeRefills
  <1>5. ~v.stopped => v.asset = IF differs THEN result ELSE w.asset
    BY <1>3 DEF Changed
  <1> QED
    BY <1>1, <1>4, <1>5 DEF v

\* What SetOutputs is to achieve.
OutputsFollow(m, outs, o) ==
    /\ \A i \in DOMAIN outs : outs[i].name \in DOMAIN o /\ o[outs[i].name] = outs[i].pin
    /\ m.ret # Void => o["ReturnValue"] = ReturnPin(m)
\* The outputs can be told from each other and from what is returned.
ToldApart(m, outs) ==
    /\ \A i, j \in DOMAIN outs : outs[i].name = outs[j].name => i = j
    /\ m.ret # Void => \A i \in DOMAIN outs : outs[i].name # "ReturnValue"

LEMMA GrownIs ==
    ASSUME NEW old, NEW m, NEW outs, ToldApart(m, outs), ~playing
    PROVE  LET o == Grown(old, m, outs)
           IN  OutputsFollow(m, outs, o)
               /\ OutputsFollow(m, outs, Only(o, Named(outs) \cup {"ReturnValue"}))
  <1> DEFINE o == Grown(old, m, outs)
             p == Only(o, Named(outs) \cup {"ReturnValue"})
             ret == Returned(old, m)
  <1>1. o = [x \in DOMAIN ret \cup Named(outs) |->
                IF x \in Named(outs) THEN PinNamed(outs, x) ELSE ret[x]]
    BY DEF Grown, Refused
  <1>2. /\ DOMAIN o = DOMAIN ret \cup Named(outs)
        /\ \A x \in Named(outs) : o[x] = PinNamed(outs, x)
        /\ \A x \in DOMAIN ret \ Named(outs) : o[x] = ret[x]
    <2> HIDE DEF o, ret
    <2> QED
      BY <1>1
  <1> HIDE DEF o
  <1>3. /\ DOMAIN p = DOMAIN o \cap (Named(outs) \cup {"ReturnValue"})
        /\ \A x \in DOMAIN p : p[x] = o[x]
    BY DEF Only
  <1> HIDE DEF p
  <1>4. ASSUME NEW i \in DOMAIN outs
        PROVE  /\ outs[i].name \in DOMAIN o /\ o[outs[i].name] = outs[i].pin
               /\ outs[i].name \in DOMAIN p /\ p[outs[i].name] = outs[i].pin
    <2>1. outs[i].name \in Named(outs)
      BY DEF Named
    <2>2. PinNamed(outs, outs[i].name) = outs[i].pin
      <3> DEFINE j == CHOOSE j \in DOMAIN outs : outs[j].name = outs[i].name
      <3>1. j \in DOMAIN outs /\ outs[j].name = outs[i].name
        OBVIOUS
      <3>2. j = i
        BY <3>1 DEF ToldApart
      <3> QED
        BY <3>2 DEF PinNamed
    <2> QED
      BY <1>2, <1>3, <2>1, <2>2
  <1>5. ASSUME m.ret # Void
        PROVE  o["ReturnValue"] = ReturnPin(m) /\ p["ReturnValue"] = ReturnPin(m)
    <2>1. "ReturnValue" \in DOMAIN ret /\ ret["ReturnValue"] = ReturnPin(m)
      BY <1>5 DEF Returned, With
    <2>2. "ReturnValue" \notin Named(outs)
      BY <1>5 DEF ToldApart, Named
    <2> HIDE DEF ret
    <2> QED
      BY <1>2, <1>3, <2>1, <2>2
  <1>6. OutputsFollow(m, outs, o) /\ OutputsFollow(m, outs, p)
    BY <1>4, <1>5 DEF OutputsFollow
  <1> QED
    BY <1>6 DEF o, p

LEMMA SetOutputsIs ==
    ASSUME NEW w, IsWork(w), Shaped(w.asset), NEW n \in DOMAIN w.asset.graphs, NEW m, NEW outs
    PROVE  LET v == SetOutputs(w, n, m, outs)
               old == w.asset.graphs[n]
               new == v.asset.graphs[n]
           IN  /\ Refills(w, v, n)
               /\ ~playing /\ ~w.stopped =>
                     /\ new.flags = old.flags /\ new.ins = old.ins
                     /\ ToldApart(m, outs) => OutputsFollow(m, outs, new.outs)
  <1> DEFINE old == w.asset.graphs[n].outs
             grown == Grown(old, m, outs)
             pruned == Only(grown, Named(outs) \cup {"ReturnValue"})
             put(o) == [w.asset EXCEPT !.graphs[n].outs = o]
             w1 == Unchecked(w, grown # old, put(grown))
             v == SetOutputs(w, n, m, outs)
             emptied == Checked(w, DOMAIN old # {}, put(NoEntries))
             halted == [w1 EXCEPT !.stopped = TRUE, !.job.needSave = FALSE]
             finished == Checked(w1, pruned # grown, put(pruned))
             Put(b, o) == /\ Refilled(w.asset, b, n) /\ b.graphs[n].outs = o
                          /\ b.graphs[n].ins = w.asset.graphs[n].ins
                          /\ b.graphs[n].flags = w.asset.graphs[n].flags
  <1>1. v = IF m.ret = Void /\ outs = <<>> THEN emptied
            ELSE IF outs = <<>> THEN w1
            ELSE IF Refused(old, m, outs) /\ ~w.stopped THEN halted
            ELSE finished
    BY DEF SetOutputs
  <1>2. /\ Put(put(NoEntries), NoEntries) /\ Put(put(grown), grown) /\ Put(put(pruned), pruned)
        /\ Put(w.asset, old)
    <2> HIDE DEF grown, pruned
    <2>1. \A x : Put(put(x), x)
      BY OutputsPut
    <2>2. Put(w.asset, old)
      BY FrameKeeps
    <2> HIDE DEF Put, put
    <2> QED
      BY <2>1, <2>2
  <1> HIDE DEF put, v
  <1>3. Changed(w, emptied, DOMAIN old # {}, put(NoEntries))
    BY CheckedIs
  <1>4. Changed(w, w1, grown # old, put(grown)) /\ w1.stopped = w.stopped
    BY UncheckedIs
  <1> HIDE DEF w1, emptied, grown
  <1>5. IsWork(w1)
    BY <1>4 DEF Changed
  <1>6. Changed(w1, finished, pruned # grown, put(pruned))
    BY <1>5, CheckedIs
  <1>7. /\ IsWork(halted) /\ halted.asset = w1.asset /\ SameJob(halted.job, w1.job)
        /\ halted.stopped = TRUE
    BY <1>5 DEF IsWork, IsJob, SameJob
  <1> HIDE DEF finished, halted
  <1>8. Refills(w, w1, n)
    BY <1>2, <1>4, ChangeRefills
  <1>9. CASE m.ret = Void /\ outs = <<>>
    <2>1. v = emptied
      BY <1>1, <1>9
    <2>2. Refills(w, v, n)
      BY <1>2, <1>3, <2>1, ChangeRefills
    <2>3. ASSUME ~playing, ~w.stopped
          PROVE  /\ v.asset.graphs[n].flags = w.asset.graphs[n].flags
                 /\ v.asset.graphs[n].ins = w.asset.graphs[n].ins
      BY <1>2, <1>3, <2>1, <2>3 DEF Changed
    <2>4. \A o : OutputsFollow(m, outs, o)
      BY <1>9 DEF OutputsFollow
    <2> QED
      BY <2>2, <2>3, <2>4 DEF v
  <1>10. CASE ~(m.ret = Void /\ outs = <<>>) /\ outs = <<>>
    <2>1. v = w1
      BY <1>1, <1>10
    <2>2. ASSUME ~playing, ~w.stopped PROVE Put(v.asset, grown)
      <3>1. v.asset = IF grown # old THEN put(grown) ELSE w.asset
        BY <1>4, <2>1, <2>2 DEF Changed
      <3> HIDE DEF Put, old
      <3> QED
        BY <1>2, <3>1
    <2>3. ASSUME ~playing, ~w.stopped, ToldApart(m, outs) PROVE OutputsFollow(m, outs, grown)
      BY <2>3, GrownIs DEF grown
    <2> QED
      BY <1>8, <2>1, <2>2, <2>3 DEF v
  <1>11. CASE outs # <<>> /\ Refused(old, m, outs) /\ ~w.stopped
    <2>1. v = halted /\ playing
      BY <1>1, <1>11 DEF Refused
    <2>2. Refills(w, v, n)
      BY <1>7, <1>8, <2>1 DEF Refills, SameJob
    <2> QED
      BY <2>1, <2>2 DEF v
  <1>12. CASE outs # <<>> /\ ~(Refused(old, m, outs) /\ ~w.stopped)
    <2>1. v = finished
      BY <1>1, <1>12
    <2>2. Refilled(w.asset, v.asset, n)
      <3>1. v.asset = w1.asset \/ v.asset = put(pruned)
        BY <1>6, <2>1 DEF Changed
      <3> QED
        BY <1>2, <1>8, <3>1 DEF Refills
    <2>3. Refills(w, v, n)
      BY <1>4, <1>6, <1>8, <2>1, <2>2 DEF Refills, Changed, SameJob
    <2>4. ASSUME ~playing, ~w.stopped PROVE Put(v.asset, pruned)
      <3>1. w1.asset = IF grown # old THEN put(grown) ELSE w.asset
        BY <1>4, <2>4 DEF Changed
      <3>2. v.asset = IF pruned # grown THEN put(pruned) ELSE w1.asset
        BY <1>4, <1>6, <2>1, <2>4 DEF Changed
      <3> HIDE DEF Put, old, pruned
      <3> QED
        BY <1>2, <3>1, <3>2
    <2>5. ASSUME ~playing, ~w.stopped, ToldApart(m, outs) PROVE OutputsFollow(m, outs, pruned)
      BY <2>5, GrownIs DEF grown
    <2> HIDE DEF pruned
    <2> QED
      BY <2>3, <2>4, <2>5 DEF v
  <1> QED
    BY <1>9, <1>10, <1>11, <1>12

LEMMA WithIs ==
    ASSUME NEW f, NEW n, NEW x
    PROVE  /\ IsMap(With(f, n, x)) /\ DOMAIN With(f, n, x) = DOMAIN f \cup {n}
           /\ With(f, n, x)[n] = x /\ SameBut(f, With(f, n, x), n)
  BY DEF With, IsMap, SameBut

LEMMA OnlyIs ==
    ASSUME NEW f, NEW names
    PROVE  /\ IsMap(Only(f, names)) /\ DOMAIN Only(f, names) = DOMAIN f \cap names
           /\ \A x \in DOMAIN f \cap names : Only(f, names)[x] = f[x]
  BY DEF Only, IsMap

LEMMA WithoutIs ==
    ASSUME NEW f, NEW n
    PROVE  LET g == Only(f, DOMAIN f \ {n})
           IN  IsMap(g) /\ DOMAIN g = DOMAIN f \ {n} /\ SameBut(f, g, n)
  <1> DEFINE g == Only(f, DOMAIN f \ {n})
  <1>0. DOMAIN f \cap (DOMAIN f \ {n}) = DOMAIN f \ {n}
    OBVIOUS
  <1>1. IsMap(g) /\ DOMAIN g = DOMAIN f \ {n} /\ \A x \in DOMAIN g : g[x] = f[x]
    <2> DEFINE names == DOMAIN f \ {n}
    <2>1. g = Only(f, names) /\ DOMAIN f \cap names = names
      BY <1>0
    <2> HIDE DEF names, g
    <2>2. /\ IsMap(g) /\ DOMAIN g = DOMAIN f \cap names
          /\ \A x \in DOMAIN f \cap names : g[x] = f[x]
      BY <2>1, OnlyIs
    <2> QED
      BY <2>1, <2>2 DEF names
  <1> HIDE DEF g
  <1>2. SameBut(f, g, n)
    BY <1>1 DEF SameBut
  <1> QED
    BY <1>1, <1>2 DEF g

LEMMA MetaPut ==
    ASSUME NEW w, IsWork(w), Shaped(w.asset), NEW m
    PROVE  LET v == ApplyToFunction(w, m)
               n == m.name
               knd == IF n \in DOMAIN w.asset.events THEN "events" ELSE "graphs"
               old == w.asset[knd][n]
               new == v.asset[knd][n]
           IN  /\ Refills(w, v, n)
               /\ n \in DOMAIN w.asset[knd] =>
                     /\ new.ins = old.ins /\ new.outs = old.outs
                     /\ new.flags = old.flags \/ new.flags = old.flags \cup m.meta.flags
                     /\ m.meta.there => m.meta.flags \subseteq new.flags
  <1> DEFINE n == m.name
             knd == IF n \in DOMAIN w.asset.events THEN "events" ELSE "graphs"
             old == w.asset[knd][n].flags
             go == [w EXCEPT !.stopped = FALSE]
             all == old \cup m.meta.flags
             result == [w.asset EXCEPT ![knd][n].flags = all]
             differs == ~(m.meta.flags \subseteq old)
             put == Unchecked(go, differs, result)
             v == ApplyToFunction(w, m)
  <1>1. v = IF ~m.meta.there THEN w
            ELSE IF n \notin DOMAIN w.asset[knd] THEN CheckedAfter(go)
            ELSE CheckedAfter(put)
    BY DEF ApplyToFunction
  <1>2. knd \in FunctionKinds
    BY DEF FunctionKinds
  <1>3. IsWork(go) /\ go.job = w.job /\ go.asset = w.asset /\ go.stopped = FALSE
    BY ResumedIs
  <1> HIDE DEF v, knd, go
  <1>4. CASE ~m.meta.there
    <2>1. v = w
      BY <1>1, <1>4
    <2>2. Refills(w, w, n)
      BY FrameKeeps DEF Refills, SameJob
    <2> QED
      BY <1>4, <2>1, <2>2 DEF v, knd
  <1>5. CASE m.meta.there /\ n \notin DOMAIN w.asset[knd]
    <2>1. v = CheckedAfter(go)
      BY <1>1, <1>5
    <2>2. IsWork(v) /\ SameJob(v.job, w.job) /\ v.asset = w.asset /\ v.stopped = FALSE
      BY <1>3, <2>1, CheckedAfterIs
    <2>3. Refills(w, v, n)
      BY <2>2, FrameKeeps DEF Refills
    <2> QED
      BY <1>5, <2>3 DEF v, knd
  <1>6. CASE m.meta.there /\ n \in DOMAIN w.asset[knd]
    <2>1. v = CheckedAfter(put)
      BY <1>1, <1>6
    <2> HIDE DEF all
    <2>2. /\ Refilled(w.asset, result, n) /\ result[knd][n].flags = all
          /\ result[knd][n].ins = w.asset[knd][n].ins
          /\ result[knd][n].outs = w.asset[knd][n].outs
      <3> HIDE DEF n, old
      <3> QED
        BY <1>2, <1>6, FlagsPut, SMTT(40)
    <2> HIDE DEF result, old
    <2>3. Changed(go, put, differs, result) /\ put.stopped = go.stopped
      <3> HIDE DEF go
      <3>1. differs \in BOOLEAN
        OBVIOUS
      <3> HIDE DEF differs
      <3> QED
        BY <1>3, <3>1, UncheckedIs
    <2>4. put.asset = IF differs THEN result ELSE w.asset
      <3> HIDE DEF put, go, differs
      <3> QED
        BY <1>3, <2>3 DEF Changed
    <2>5. IsWork(put) /\ SameJob(put.job, w.job) /\ put.stopped = FALSE
      <3> HIDE DEF put, go, differs
      <3> QED
        BY <1>3, <2>3 DEF Changed
    <2> HIDE DEF put
    <2>6. IsWork(v) /\ SameJob(v.job, w.job) /\ v.asset = put.asset /\ v.stopped = FALSE
      BY <2>1, <2>5, CheckedAfterIs DEF SameJob
    <2>7. Refills(w, v, n)
      BY <2>2, <2>4, <2>6, FrameKeeps DEF Refills
    <2>8. CASE differs
      <3>1. v.asset = result
        BY <2>4, <2>6, <2>8
      <3> QED
        BY <1>6, <2>2, <2>7, <3>1 DEF v, knd, old, all
    <2>9. CASE ~differs
      <3>1. v.asset = w.asset
        BY <2>4, <2>6, <2>9
      <3> QED
        BY <1>6, <2>7, <2>9, <3>1 DEF v, knd, old
    <2> QED
      BY <2>8, <2>9
  <1> QED
    BY <1>4, <1>5, <1>6

Replicated(m) == "FUNC_Net" \in Asked(m).set
Parents == ParentEvents[base] \cup ParentFunctions[base]

\* A name is either that of a graph or that of an event, and which of them it can be
\* is decided by the base class.
Apart(a, n) ==
    /\ n \in DOMAIN a.graphs => n \notin DOMAIN a.events /\ n \notin a.overrides
    /\ n \in DOMAIN a.events => n \notin Parents
    /\ n \in a.overrides => HasEventGraph /\ n \in ParentEvents[base]

\* What the job asks for grows by n at most.
JobFrame(j, n) ==
    /\ IsJob(j) /\ j.todo = job.todo /\ j.params = job.params /\ j.constructs = job.constructs
    /\ j.variables = job.variables /\ j.components = job.components /\ j.index = job.index
    /\ job.functions \subseteq j.functions /\ j.functions \subseteq job.functions \cup {n}
    /\ job.overrides \subseteq j.overrides /\ j.overrides \subseteq job.overrides \cup {n}
Grows(w, n) ==
    /\ IsWork(w) /\ FunctionFrame(asset, w.asset, n) /\ JobFrame(w.job, n)
    /\ ~playing => ~w.stopped

\* A method that is to become a graph or an event of its own.
Placed(m) == Overrides(m) \/ (~IsInput(m) /\ (Replicated(m) => HasEventGraph))

\* The work w on the method m has kept what there was.
Kind(w, m) ==
    LET n == m.name
        a == w.asset
    IN  /\ Grows(w, n)
        /\ Apart(asset, n) => Apart(a, n)
        /\ n \in DOMAIN a.events => n \in DOMAIN asset.events \/ (~Overrides(m) /\ Replicated(m))
        /\ n \in a.inputs => n \in asset.inputs \/ IsInput(m)
        /\ n \in DOMAIN asset.graphs \cup DOMAIN asset.events =>
              n \in DOMAIN a.graphs \cup DOMAIN a.events
        /\ n \in w.job.functions => n \in job.functions \/ Placed(m)

\* And it has given it its place.
Placing(w, m) ==
    LET n == m.name
        a == w.asset
    IN  /\ n \in w.job.functions => n \in job.functions \/ n \in DOMAIN a.graphs \cup DOMAIN a.events
        /\ Overrides(m) => n \in w.job.functions \/ (n \in w.job.overrides /\ n \in a.overrides)
        /\ ~Overrides(m) /\ IsInput(m) /\ HasEventGraph => n \in a.inputs
        /\ ~Overrides(m) /\ Placed(m) => n \in w.job.functions

\* The event, or the graph, is as it was declared.
EventGiven(w, m) ==
    LET n == m.name
        g == w.asset.events[n]
    IN  /\ n \in DOMAIN w.asset.events
        /\ PinsOf(g.ins) = PinsOf(Inputs(job.params))
        /\ \E old : g.flags = NewFlags(old, Asked(m))
GraphGiven(w, m) ==
    LET n == m.name
        g == w.asset.graphs[n]
    IN  /\ n \in DOMAIN w.asset.graphs
        /\ PinsOf(g.ins) = PinsOf(Inputs(job.params))
        /\ ToldApart(m, Outputs(job.params)) => OutputsFollow(m, Outputs(job.params), g.outs)
        /\ \E old : g.flags = NewFlags(old, Asked(m))

-----------------------------------------------------------------------------
(* Asking, and nothing at all.                                             *)

LEMMA AsksIs ==
    ASSUME NEW w, IsWork(w), NEW set \in Sets, NEW n
    PROVE  LET v == Asks(w, set, n)
               more == IF w.stopped THEN {} ELSE {n}
           IN  /\ IsWork(v) /\ v.asset = w.asset /\ v.stopped = w.stopped
               /\ v.job.todo = w.job.todo /\ v.job.params = w.job.params
               /\ v.job.constructs = w.job.constructs /\ v.job.index = w.job.index
               /\ v.job[set] = w.job[set] \cup more
               /\ \A s \in Sets \ {set} : v.job[s] = w.job[s]
  <1> DEFINE more == IF w.stopped THEN {} ELSE {n}
             v == [w EXCEPT !.job[set] = w.job[set] \cup more]
  <1>1. Asks(w, set, n) = v
    BY DEF Asks
  <1>2. /\ IsWork(v) /\ v.asset = w.asset /\ v.stopped = w.stopped
        /\ v.job.todo = w.job.todo /\ v.job.params = w.job.params
        /\ v.job.constructs = w.job.constructs /\ v.job.index = w.job.index
        /\ v.job[set] = w.job[set] \cup more
        /\ \A s \in Sets \ {set} : v.job[s] = w.job[s]
    <2> HIDE DEF more
    <2> QED
      BY DEF IsWork, IsJob, Sets
  <1> QED
    BY <1>1, <1>2

LEMMA WorkIs ==
    ASSUME Running, IsJob(job), Shaped(asset), NEW n
    PROVE  Grows(Work, n) /\ Work.asset = asset /\ Work.job = job /\ Work.stopped = FALSE
  <1>1. IsWork(Work) /\ Work.asset = asset /\ Work.job = job /\ Work.stopped = FALSE
    BY DEF Work, IsWork
  <1>2. JobFrame(job, n)
    BY DEF JobFrame
  <1> QED
    BY <1>1, <1>2, FrameKeeps DEF Grows, Refilled

\* A change of the function, before anything is asked.
LEMMA MadeGrows ==
    ASSUME Running, IsJob(job), Shaped(asset), NEW n, NEW differs \in BOOLEAN, NEW result,
           FunctionFrame(asset, result, n)
    PROVE  LET v == Checked(Work, differs, result)
           IN  /\ Grows(v, n) /\ SameJob(v.job, job)
               /\ v.asset = asset \/ (differs /\ v.asset = result)
               /\ ~v.stopped => v.asset = IF differs THEN result ELSE asset
  <1> DEFINE v == Checked(Work, differs, result)
  <1>1. /\ Grows(Work, n) /\ Work.asset = asset /\ Work.job = job /\ Work.stopped = FALSE
    BY WorkIs
  <1>2. IsWork(Work)
    BY <1>1 DEF Grows
  <1>3. Changed(Work, v, differs, result)
    BY <1>2, CheckedIs
  <1> HIDE DEF v
  <1>4. /\ IsWork(v) /\ SameJob(v.job, job)
        /\ v.asset = asset \/ (differs /\ v.asset = result)
        /\ ~v.stopped => v.asset = IF differs THEN result ELSE asset
        /\ ~playing => ~v.stopped
    <2> HIDE DEF Work
    <2> QED
      BY <1>1, <1>3 DEF Changed
  <1>5. IsJob(v.job)
    BY <1>4 DEF IsWork
  <1>6. JobFrame(v.job, n)
    BY <1>4, <1>5 DEF JobFrame, SameJob
  <1>7. FunctionFrame(asset, v.asset, n)
    BY <1>1, <1>4 DEF Grows
  <1> QED
    BY <1>4, <1>6, <1>7 DEF Grows, v

LEMMA RefillsGrows ==
    ASSUME NEW w, NEW v, NEW n, Grows(w, n), Refills(w, v, n)
    PROVE  Grows(v, n)
  <1>1. FunctionFrame(asset, v.asset, n)
    BY FrameSteps DEF Grows, Refills, Refilled
  <1>2. IsJob(v.job)
    BY DEF Refills, IsWork
  <1>3. JobFrame(v.job, n)
    BY <1>2 DEF JobFrame, SameJob, Grows, Refills
  <1> QED
    BY <1>1, <1>3 DEF Grows, Refills

LEMMA AsksGrows ==
    ASSUME NEW w, NEW set \in {"functions", "overrides"}, NEW n, Grows(w, n)
    PROVE  Grows(Asks(w, set, n), n)
  <1> DEFINE v == Asks(w, set, n)
  <1>1. IsWork(w) /\ set \in Sets
    BY DEF Grows, Sets
  <1>2. /\ IsWork(v) /\ v.asset = w.asset /\ v.stopped = w.stopped
        /\ v.job.todo = w.job.todo /\ v.job.params = w.job.params
        /\ v.job.constructs = w.job.constructs /\ v.job.index = w.job.index
        /\ v.job[set] = w.job[set] \cup (IF w.stopped THEN {} ELSE {n})
        /\ \A s \in Sets \ {set} : v.job[s] = w.job[s]
    BY <1>1, AsksIs
  <1> HIDE DEF v
  <1>3. IsJob(v.job)
    BY <1>2 DEF IsWork
  <1>4. JobFrame(v.job, n)
    BY <1>2, <1>3 DEF JobFrame, Grows, Sets
  <1> QED
    BY <1>2, <1>4 DEF Grows, v

LEMMA OverrideEventKind ==
    ASSUME Running, IsJob(job), Shaped(asset), NEW m,
           Overrides(m), AsEvent(m)
    PROVE  LET w == AddOverrideEvent(m)
           IN  Kind(w, m) /\ (~playing => Placing(w, m))
  <1> DEFINE n == m.name
             result == [asset EXCEPT !.overrides = @ \cup {n}]
             differs == n \notin asset.overrides
             v == Checked(Work, differs, result)
             w == AddOverrideEvent(m)
  <1>1. w = Asks(v, "overrides", n)
    BY DEF AddOverrideEvent
  <1>2. /\ Shaped(result) /\ result.overrides = asset.overrides \cup {n}
        /\ result.graphs = asset.graphs /\ result.events = asset.events
        /\ result.inputs = asset.inputs /\ result.variables = asset.variables
        /\ result.order = asset.order /\ result.components = asset.components
        /\ result.hasConstructor = asset.hasConstructor
    BY DEF Shaped
  <1> HIDE DEF result, w
  <1>3. FunctionFrame(asset, result, n)
    BY <1>2 DEF FunctionFrame, SameBut
  <1>4. /\ Grows(v, n) /\ SameJob(v.job, job)
        /\ v.asset = asset \/ (differs /\ v.asset = result)
        /\ ~v.stopped => v.asset = IF differs THEN result ELSE asset
    BY <1>3, MadeGrows
  <1> HIDE DEF v
  <1>5. Grows(w, n)
    BY <1>1, <1>4, AsksGrows
  <1>6. /\ w.asset = v.asset /\ w.job.functions = v.job.functions
        /\ w.job.overrides = v.job.overrides \cup (IF v.stopped THEN {} ELSE {n})
    BY <1>1, <1>4, AsksIs DEF Grows, Sets
  <1>7. HasEventGraph /\ n \in ParentEvents[base] /\ n \notin DOMAIN asset.graphs
    BY DEF AsEvent
  <1>8. Apart(asset, n) => Apart(w.asset, n)
    BY <1>2, <1>4, <1>6, <1>7 DEF Apart
  <1>9. Kind(w, m)
    BY <1>2, <1>4, <1>5, <1>6, <1>8 DEF Kind, SameJob
  <1>10. ASSUME ~playing PROVE Placing(w, m)
    <2>1. ~v.stopped
      BY <1>4, <1>10 DEF Grows
    <2>2. n \in w.job.overrides /\ n \in w.asset.overrides
      BY <1>2, <1>4, <1>6, <2>1
    <2> QED
      BY <1>4, <1>6, <2>2 DEF Placing, SameJob
  <1> QED
    BY <1>9, <1>10 DEF w

LEMMA OverrideGraphKind ==
    ASSUME Running, IsJob(job), Shaped(asset), NEW m,
           Overrides(m), ~AsEvent(m)
    PROVE  LET w == AddOverrideGraph(m)
           IN  Kind(w, m) /\ (~playing => Placing(w, m))
  <1> DEFINE n == m.name
             g == With(asset.graphs, n, NewFunction)
             result == [asset EXCEPT !.graphs = g]
             differs == n \notin DOMAIN asset.graphs
             v == Checked(Work, differs, result)
             w == AddOverrideGraph(m)
  <1>1. w = IF n \in job.functions THEN Work ELSE Asks(v, "functions", n)
    BY DEF AddOverrideGraph
  <1> HIDE DEF w
  <1>2. CASE n \in job.functions
    <2>1. w = Work /\ Grows(Work, n) /\ Work.asset = asset /\ Work.job = job
      BY <1>1, <1>2, WorkIs
    <2> HIDE DEF v
    <2>2. Kind(w, m) /\ Placing(w, m)
      BY <1>2, <2>1 DEF Kind, Placing
    <2> QED
      BY <2>2 DEF w
  <1>3. CASE n \notin job.functions
    <2>1. /\ Functions(g) /\ DOMAIN g = DOMAIN asset.graphs \cup {n}
          /\ SameBut(asset.graphs, g, n)
      <3>1. IsFunction(NewFunction)
        BY DEF NewFunction, IsFunction
      <3>2. /\ IsMap(g) /\ DOMAIN g = DOMAIN asset.graphs \cup {n} /\ g[n] = NewFunction
            /\ SameBut(asset.graphs, g, n)
        BY DEF With, IsMap, SameBut
      <3> HIDE DEF g
      <3> QED
        BY <3>1, <3>2 DEF Shaped, Functions, SameBut
    <2> HIDE DEF g
    <2>2. /\ Shaped(result) /\ result.graphs = g
          /\ result.overrides = asset.overrides /\ result.events = asset.events
          /\ result.inputs = asset.inputs /\ result.variables = asset.variables
          /\ result.order = asset.order /\ result.components = asset.components
          /\ result.hasConstructor = asset.hasConstructor
      BY <2>1 DEF Shaped
    <2> HIDE DEF result
    <2>3. FunctionFrame(asset, result, n)
      BY <2>1, <2>2 DEF FunctionFrame, SameBut
    <2>4. /\ Grows(v, n) /\ SameJob(v.job, job)
          /\ v.asset = asset \/ (differs /\ v.asset = result)
          /\ ~v.stopped => v.asset = IF differs THEN result ELSE asset
      BY <2>3, MadeGrows
    <2> HIDE DEF v
    <2>5. w = Asks(v, "functions", n)
      BY <1>1, <1>3
    <2>6. Grows(w, n)
      BY <2>4, <2>5, AsksGrows
    <2>7. /\ w.asset = v.asset
          /\ w.job.functions = v.job.functions \cup (IF v.stopped THEN {} ELSE {n})
      BY <2>4, <2>5, AsksIs DEF Grows, Sets
    <2>8. Apart(asset, n) => Apart(w.asset, n)
      <3>1. CASE n \in DOMAIN asset.graphs
        <4>1. w.asset = asset
          BY <2>4, <2>7, <3>1
        <4> QED
          BY <4>1
      <3>2. CASE n \notin DOMAIN asset.graphs
        <4>1. Apart(asset, n) => n \notin asset.overrides /\ n \notin DOMAIN asset.events
          BY <3>2 DEF Apart, AsEvent, Overrides, Parents
        <4>2. w.asset.overrides = asset.overrides /\ w.asset.events = asset.events
          BY <2>2, <2>4, <2>7
        <4> QED
          BY <4>1, <4>2 DEF Apart
      <3> QED
        BY <3>1, <3>2
    <2>9. Kind(w, m)
      BY <2>1, <2>2, <2>4, <2>6, <2>7, <2>8 DEF Kind, Placed
    <2>10. ASSUME ~playing PROVE Placing(w, m)
      <3>1. ~v.stopped
        BY <2>4, <2>10 DEF Grows
      <3>2. n \in w.job.functions /\ n \in DOMAIN w.asset.graphs
        BY <2>1, <2>2, <2>4, <2>7, <3>1
      <3> QED
        BY <3>2 DEF Placing
    <2> QED
      BY <2>9, <2>10 DEF w
  <1> QED
    BY <1>2, <1>3

LEMMA InputKind ==
    ASSUME Running, IsJob(job), Shaped(asset), NEW m,
           ~Overrides(m), IsInput(m)
    PROVE  LET w == AddInput(m)
           IN  Kind(w, m) /\ (~playing => Placing(w, m))
  <1> DEFINE n == m.name
             result == [asset EXCEPT !.inputs = @ \cup {n}]
             differs == HasEventGraph /\ n \notin asset.inputs
             w == Checked(Work, differs, result)
  <1>1. AddInput(m) = w
    BY DEF AddInput
  <1>2. /\ Shaped(result) /\ result.inputs = asset.inputs \cup {n}
        /\ result.graphs = asset.graphs /\ result.events = asset.events
        /\ result.overrides = asset.overrides /\ result.variables = asset.variables
        /\ result.order = asset.order /\ result.components = asset.components
        /\ result.hasConstructor = asset.hasConstructor
    BY DEF Shaped
  <1> HIDE DEF result
  <1>3. FunctionFrame(asset, result, n)
    BY <1>2 DEF FunctionFrame, SameBut
  <1>4. /\ Grows(w, n) /\ SameJob(w.job, job)
        /\ w.asset = asset \/ (differs /\ w.asset = result)
        /\ ~w.stopped => w.asset = IF differs THEN result ELSE asset
    <2>1. differs \in BOOLEAN
      BY DEF HasEventGraph
    <2> HIDE DEF differs
    <2> QED
      BY <1>3, <2>1, MadeGrows
  <1> HIDE DEF w
  <1>5. /\ w.asset.overrides = asset.overrides /\ w.asset.graphs = asset.graphs
        /\ w.asset.events = asset.events /\ w.job.functions = job.functions
    BY <1>2, <1>4 DEF SameJob
  <1>6. Kind(w, m)
    BY <1>4, <1>5 DEF Kind, Apart
  <1>7. ASSUME ~playing PROVE Placing(w, m)
    <2>1. ~w.stopped
      BY <1>4, <1>7 DEF Grows
    <2>2. HasEventGraph => n \in w.asset.inputs
      BY <1>2, <1>4, <2>1
    <2> QED
      BY <1>5, <2>2 DEF Placing, Placed
  <1> QED
    BY <1>1, <1>6, <1>7

\* A function of one kind is made, and that of the other kind goes.
LEMMA MoreAndLess ==
    ASSUME NEW f, Functions(f), NEW n
    PROVE  LET more == With(f, n, NewFunction)
               less == Only(f, DOMAIN f \ {n})
           IN  /\ Functions(more) /\ n \in DOMAIN more /\ SameBut(f, more, n)
               /\ Functions(less) /\ n \notin DOMAIN less /\ SameBut(f, less, n)
  <1> DEFINE more == With(f, n, NewFunction)
             less == Only(f, DOMAIN f \ {n})
  <1>1. IsFunction(NewFunction)
    BY DEF NewFunction, IsFunction
  <1>2. /\ IsMap(more) /\ DOMAIN more = DOMAIN f \cup {n} /\ more[n] = NewFunction
        /\ SameBut(f, more, n)
    BY DEF With, IsMap, SameBut
  <1>3. IsMap(less) /\ DOMAIN less = DOMAIN f \ {n} /\ SameBut(f, less, n)
    BY WithoutIs
  <1> HIDE DEF more, less
  <1>4. Functions(more)
    BY <1>1, <1>2 DEF Functions, SameBut
  <1>5. Functions(less)
    BY <1>3 DEF Functions, SameBut
  <1> QED
    BY <1>2, <1>3, <1>4, <1>5 DEF more, less

LEMMA CustomEventKind ==
    ASSUME Running, IsJob(job), Shaped(asset), NEW m,
           ~Overrides(m), ~IsInput(m), Replicated(m)
    PROVE  LET w == AddCustomEvent(m)
           IN  /\ Kind(w, m)
               /\ ~playing => Placing(w, m)
               /\ ~playing /\ HasEventGraph => EventGiven(w, m)
  <1> DEFINE n == m.name
             more == With(asset.events, n, NewFunction)
             less == Only(asset.graphs, DOMAIN asset.graphs \ {n})
             result == [asset EXCEPT !.events = more, !.graphs = less]
             differs == n \notin DOMAIN asset.events
             made == Checked(Work, differs, result)
             asks == Asks(made, "functions", n)
             flagged == SetFlags(asks, "events", n, Asked(m))
             given == SetInputs(flagged, "events", n, Inputs(job.params))
             w == AddCustomEvent(m)
  <1>1. w = IF ~HasEventGraph THEN Work ELSE IF made.stopped THEN made ELSE given
    BY DEF AddCustomEvent
  <1> HIDE DEF w
  <1>2. CASE ~HasEventGraph
    <2>1. w = Work /\ Grows(Work, n) /\ Work.asset = asset /\ Work.job = job
      BY <1>1, <1>2, WorkIs
    <2> HIDE DEF given
    <2>2. Kind(w, m) /\ Placing(w, m)
      BY <1>2, <2>1 DEF Kind, Placing, Placed
    <2> QED
      BY <1>2, <2>2 DEF w
  <1>3. CASE HasEventGraph
    <2>1. /\ FunctionFrame(asset, result, n) /\ result.overrides = asset.overrides
          /\ result.inputs = asset.inputs /\ n \in DOMAIN result.events
          /\ n \notin DOMAIN result.graphs
      <3>1. Functions(asset.graphs) /\ Functions(asset.events)
        BY DEF Shaped
      <3>2. /\ Functions(more) /\ n \in DOMAIN more /\ SameBut(asset.events, more, n)
            /\ Functions(less) /\ n \notin DOMAIN less /\ SameBut(asset.graphs, less, n)
        BY <3>1, MoreAndLess
      <3> HIDE DEF more, less
      <3>3. /\ Shaped(result) /\ result.events = more /\ result.graphs = less
            /\ result.overrides = asset.overrides /\ result.inputs = asset.inputs
            /\ result.variables = asset.variables /\ result.order = asset.order
            /\ result.components = asset.components
            /\ result.hasConstructor = asset.hasConstructor
        BY <3>2 DEF Shaped
      <3> HIDE DEF result
      <3> QED
        BY <3>2, <3>3 DEF FunctionFrame
    <2> HIDE DEF result
    <2>2. /\ Grows(made, n) /\ SameJob(made.job, job)
          /\ made.asset = asset \/ (differs /\ made.asset = result)
          /\ ~made.stopped => made.asset = IF differs THEN result ELSE asset
      BY <2>1, MadeGrows
    <2> HIDE DEF made
    <2>3. /\ Apart(asset, n) => Apart(made.asset, n)
          /\ made.asset.inputs = asset.inputs
          /\ n \in DOMAIN asset.graphs \cup DOMAIN asset.events =>
                n \in DOMAIN made.asset.graphs \cup DOMAIN made.asset.events
      <3>1. CASE made.asset = asset
        BY <3>1
      <3>2. CASE differs /\ made.asset = result
        <4>1. n \notin Parents
          BY DEF Overrides, Parents
        <4>2. Apart(asset, n) => Apart(result, n)
          BY <2>1, <4>1 DEF Apart
        <4> QED
          BY <2>1, <3>2, <4>2
      <3> QED
        BY <2>2, <3>1, <3>2
    <2>4. CASE made.stopped
      <3>1. w = made /\ playing
        BY <1>1, <1>3, <2>2, <2>4 DEF Grows
      <3>2. Kind(w, m)
        BY <1>3, <2>2, <2>3, <3>1 DEF Kind, SameJob
      <3> QED
        BY <3>1, <3>2 DEF w
    <2>5. CASE ~made.stopped
      <3>1. w = given
        BY <1>1, <1>3, <2>5
      <3>2. n \in DOMAIN made.asset.events
        BY <2>1, <2>2, <2>5
      <3>3. /\ Grows(asks, n) /\ asks.asset = made.asset
            /\ asks.job.functions = made.job.functions \cup {n}
        BY <2>2, <2>5, AsksGrows, AsksIs DEF Grows, Sets
      <3> HIDE DEF asks
      <3>4. IsWork(asks) /\ Shaped(asks.asset)
        BY <3>3 DEF Grows, FunctionFrame
      <3>5. /\ Refills(asks, flagged, n)
            /\ ~flagged.stopped =>
                  flagged.asset.events[n].flags = NewFlags(asks.asset.events[n].flags, Asked(m))
        BY <3>2, <3>3, <3>4, SetFlagsIs DEF FunctionKinds
      <3> HIDE DEF flagged
      <3>6. Grows(flagged, n) /\ n \in DOMAIN flagged.asset.events
        BY <3>2, <3>3, <3>5, RefillsGrows DEF Refills, Refilled
      <3>7. IsWork(flagged) /\ Shaped(flagged.asset)
        BY <3>6 DEF Grows, FunctionFrame
      <3>8. /\ Refills(flagged, given, n)
            /\ ~given.stopped =>
                  /\ PinsOf(given.asset.events[n].ins) = PinsOf(Inputs(job.params))
                  /\ given.asset.events[n].flags = flagged.asset.events[n].flags
        BY <3>6, <3>7, SetInputsIs DEF FunctionKinds
      <3> HIDE DEF given
      <3>9. Grows(given, n)
        BY <3>6, <3>8, RefillsGrows
      <3>10. Refills(asks, given, n)
        BY <3>5, <3>8, RefillsFollow
      <3>11. /\ DOMAIN w.asset.graphs = DOMAIN made.asset.graphs
             /\ DOMAIN w.asset.events = DOMAIN made.asset.events
             /\ w.asset.overrides = made.asset.overrides /\ w.asset.inputs = made.asset.inputs
             /\ w.job.functions = made.job.functions \cup {n}
        BY <3>1, <3>3, <3>10 DEF Refills, Refilled, SameJob
      <3>12. Apart(asset, n) => Apart(w.asset, n)
        BY <2>3, <3>11 DEF Apart
      <3>13. Kind(w, m)
        BY <1>3, <2>2, <2>3, <3>1, <3>9, <3>11, <3>12 DEF Kind, SameJob, Placed
      <3>14. Placing(w, m)
        BY <3>2, <3>11 DEF Placing
      <3>15. ASSUME ~playing PROVE EventGiven(w, m)
        <4>1. ~given.stopped /\ ~flagged.stopped
          BY <3>6, <3>9, <3>15 DEF Grows
        <4> QED
          BY <3>1, <3>2, <3>5, <3>8, <3>11, <4>1 DEF EventGiven
      <3> QED
        BY <3>13, <3>14, <3>15 DEF w
    <2> QED
      BY <2>4, <2>5
  <1> QED
    BY <1>2, <1>3

LEMMA GraphKind ==
    ASSUME Running, IsJob(job), Shaped(asset), NEW m,
           ~Overrides(m), ~IsInput(m), ~Replicated(m)
    PROVE  LET w == AddGraph(m)
           IN  /\ Kind(w, m)
               /\ ~playing => Placing(w, m)
               /\ ~playing /\ m.name \notin job.functions => GraphGiven(w, m)
  <1> DEFINE n == m.name
             more == With(asset.graphs, n, NewFunction)
             less == Only(asset.events, DOMAIN asset.events \ {n})
             result == [asset EXCEPT !.graphs = more, !.events = less]
             differs == n \notin DOMAIN asset.graphs
             made == Checked(Work, differs, result)
             asks == Asks(made, "functions", n)
             flagged == SetFlags(asks, "graphs", n, Asked(m))
             given == SetInputs(flagged, "graphs", n, Inputs(job.params))
             ready == SetOutputs(given, n, m, Outputs(job.params))
             w == AddGraph(m)
  <1>1. w = IF n \in job.functions THEN Work ELSE IF made.stopped THEN made ELSE ready
    BY DEF AddGraph
  <1> HIDE DEF w
  <1>2. CASE n \in job.functions
    <2>1. w = Work /\ Grows(Work, n) /\ Work.asset = asset /\ Work.job = job
      BY <1>1, <1>2, WorkIs
    <2> HIDE DEF ready
    <2>2. Kind(w, m) /\ Placing(w, m)
      BY <1>2, <2>1 DEF Kind, Placing
    <2> QED
      BY <1>2, <2>2 DEF w
  <1>3. CASE n \notin job.functions
    <2>1. /\ FunctionFrame(asset, result, n) /\ result.overrides = asset.overrides
          /\ result.inputs = asset.inputs /\ n \in DOMAIN result.graphs
          /\ n \notin DOMAIN result.events
      <3>1. Functions(asset.graphs) /\ Functions(asset.events)
        BY DEF Shaped
      <3>2. /\ Functions(more) /\ n \in DOMAIN more /\ SameBut(asset.graphs, more, n)
            /\ Functions(less) /\ n \notin DOMAIN less /\ SameBut(asset.events, less, n)
        BY <3>1, MoreAndLess
      <3> HIDE DEF more, less
      <3>3. /\ Shaped(result) /\ result.graphs = more /\ result.events = less
            /\ result.overrides = asset.overrides /\ result.inputs = asset.inputs
            /\ result.variables = asset.variables /\ result.order = asset.order
            /\ result.components = asset.components
            /\ result.hasConstructor = asset.hasConstructor
        BY <3>2 DEF Shaped
      <3> HIDE DEF result
      <3> QED
        BY <3>2, <3>3 DEF FunctionFrame
    <2> HIDE DEF result
    <2>2. /\ Grows(made, n) /\ SameJob(made.job, job)
          /\ made.asset = asset \/ (differs /\ made.asset = result)
          /\ ~made.stopped => made.asset = IF differs THEN result ELSE asset
      BY <2>1, MadeGrows
    <2> HIDE DEF made
    <2>3. /\ Apart(asset, n) => Apart(made.asset, n)
          /\ made.asset.inputs = asset.inputs
          /\ n \in DOMAIN made.asset.events => n \in DOMAIN asset.events
          /\ n \in DOMAIN asset.graphs \cup DOMAIN asset.events =>
                n \in DOMAIN made.asset.graphs \cup DOMAIN made.asset.events
      <3>1. CASE made.asset = asset
        BY <3>1
      <3>2. CASE differs /\ made.asset = result
        <4>1. Apart(asset, n) => n \notin asset.overrides
          BY DEF Overrides, Apart
        <4>2. Apart(asset, n) => Apart(result, n)
          BY <2>1, <4>1 DEF Apart
        <4> QED
          BY <2>1, <3>2, <4>2
      <3> QED
        BY <2>2, <3>1, <3>2
    <2>4. CASE made.stopped
      <3>1. w = made /\ playing
        BY <1>1, <1>3, <2>2, <2>4 DEF Grows
      <3>2. Kind(w, m)
        BY <1>3, <2>2, <2>3, <3>1 DEF Kind, SameJob
      <3> QED
        BY <3>1, <3>2 DEF w
    <2>5. CASE ~made.stopped
      <3>1. w = ready
        BY <1>1, <1>3, <2>5
      <3>2. n \in DOMAIN made.asset.graphs
        BY <2>1, <2>2, <2>5
      <3>3. /\ Grows(asks, n) /\ asks.asset = made.asset
            /\ asks.job.functions = made.job.functions \cup {n}
        BY <2>2, <2>5, AsksGrows, AsksIs DEF Grows, Sets
      <3> HIDE DEF asks
      <3>4. IsWork(asks) /\ Shaped(asks.asset)
        BY <3>3 DEF Grows, FunctionFrame
      <3>5. /\ Refills(asks, flagged, n)
            /\ ~flagged.stopped =>
                  flagged.asset.graphs[n].flags = NewFlags(asks.asset.graphs[n].flags, Asked(m))
        BY <3>2, <3>3, <3>4, SetFlagsIs DEF FunctionKinds
      <3> HIDE DEF flagged
      <3>6. Grows(flagged, n) /\ n \in DOMAIN flagged.asset.graphs
        BY <3>2, <3>3, <3>5, RefillsGrows DEF Refills, Refilled
      <3>7. IsWork(flagged) /\ Shaped(flagged.asset)
        BY <3>6 DEF Grows, FunctionFrame
      <3>8. /\ Refills(flagged, given, n)
            /\ ~given.stopped =>
                  /\ PinsOf(given.asset.graphs[n].ins) = PinsOf(Inputs(job.params))
                  /\ given.asset.graphs[n].flags = flagged.asset.graphs[n].flags
        BY <3>6, <3>7, SetInputsIs DEF FunctionKinds
      <3> HIDE DEF given
      <3>9. Grows(given, n) /\ n \in DOMAIN given.asset.graphs
        BY <3>6, <3>8, RefillsGrows DEF Refills, Refilled
      <3>10. IsWork(given) /\ Shaped(given.asset)
        BY <3>9 DEF Grows, FunctionFrame
      <3>11. /\ Refills(given, ready, n)
             /\ ~playing /\ ~given.stopped =>
                   /\ ready.asset.graphs[n].flags = given.asset.graphs[n].flags
                   /\ ready.asset.graphs[n].ins = given.asset.graphs[n].ins
                   /\ ToldApart(m, Outputs(job.params)) =>
                         OutputsFollow(m, Outputs(job.params), ready.asset.graphs[n].outs)
        BY <3>9, <3>10, SetOutputsIs
      <3> HIDE DEF ready
      <3>12. Grows(ready, n)
        BY <3>9, <3>11, RefillsGrows
      <3>13. Refills(asks, ready, n)
        BY <3>5, <3>8, <3>11, RefillsFollow
      <3>14. /\ DOMAIN w.asset.graphs = DOMAIN made.asset.graphs
             /\ DOMAIN w.asset.events = DOMAIN made.asset.events
             /\ w.asset.overrides = made.asset.overrides /\ w.asset.inputs = made.asset.inputs
             /\ w.job.functions = made.job.functions \cup {n}
        BY <3>1, <3>3, <3>13 DEF Refills, Refilled, SameJob
      <3>15. Apart(asset, n) => Apart(w.asset, n)
        BY <2>3, <3>14 DEF Apart
      <3>16. Kind(w, m)
        BY <2>2, <2>3, <3>1, <3>12, <3>14, <3>15 DEF Kind, SameJob, Placed
      <3>17. Placing(w, m)
        BY <3>2, <3>14 DEF Placing
      <3>18. ASSUME ~playing PROVE GraphGiven(w, m)
        <4>1. ~given.stopped /\ ~flagged.stopped
          BY <3>6, <3>9, <3>18 DEF Grows
        <4> QED
          BY <3>1, <3>2, <3>5, <3>8, <3>11, <3>14, <3>18, <4>1 DEF GraphGiven
      <3> QED
        BY <3>16, <3>17, <3>18 DEF w
    <2> QED
      BY <2>4, <2>5
  <1> QED
    BY <1>2, <1>3

NetKinds == NetMask \ {"FUNC_Net"}
NetOf(m) == ((m.flags \cup m.meta.flags) \cap NetKinds) \ Asked(m).clear

LEMMA AskedNet ==
    ASSUME NEW m
    PROVE  /\ \A x \in NetKinds : x \in Asked(m).set <=> x \in NetOf(m)
           /\ ~Replicated(m) => Asked(m).set \cap NetMask = {}
           /\ Asked(m).clear \cap m.meta.flags = {}
           /\ ~Replicated(m) => m.meta.flags \cap NetMask = {}
  <1> DEFINE given == m.flags \cup m.meta.flags
             clear == m.clear \ m.meta.flags
             set == (given \ clear) \ {"FUNC_Native"}
  <1>1. /\ Asked(m).set = IF set \cap NetMask # {} THEN set \cup {"FUNC_Net"} ELSE set
        /\ Asked(m).clear = clear
    BY DEF Asked
  <1>2. "FUNC_Native" \notin NetMask
    BY DEF NetMask
  <1>3. ASSUME NEW x \in NetKinds PROVE x \in Asked(m).set <=> x \in NetOf(m)
    <2>1. x \in NetMask /\ x # "FUNC_Net" /\ x # "FUNC_Native"
      BY <1>2, <1>3 DEF NetKinds
    <2>2. x \in Asked(m).set <=> x \in set
      BY <1>1, <2>1
    <2> QED
      BY <1>1, <2>1, <2>2 DEF NetOf, NetKinds
  <1>4. ASSUME ~Replicated(m) PROVE set \cap NetMask = {} /\ Asked(m).set = set
    BY <1>1, <1>4 DEF Replicated
  <1>5. Asked(m).clear \cap m.meta.flags = {}
    BY <1>1
  <1>6. ASSUME ~Replicated(m) PROVE m.meta.flags \cap NetMask = {}
    <2>1. ASSUME NEW x \in m.meta.flags, x \in NetMask PROVE x \in set
      BY <1>2, <2>1
    <2> HIDE DEF set
    <2> QED
      BY <1>4, <1>6, <2>1
  <1> QED
    BY <1>3, <1>4, <1>5, <1>6

LEMMA EventFlags ==
    ASSUME NEW m, NEW old, NEW new,
           new = NewFlags(old, Asked(m)) \/ new = NewFlags(old, Asked(m)) \cup m.meta.flags
    PROVE  new \cap NetKinds = NetOf(m)
  <1>1. ASSUME NEW x \in NetKinds PROVE x \in new <=> x \in NetOf(m)
    <2>1. x \in NetMask /\ (x \in Asked(m).set <=> x \in NetOf(m))
      BY <1>1, AskedNet DEF NetKinds
    <2>2. x \in NewFlags(old, Asked(m)) <=> x \in NetOf(m)
      BY <2>1 DEF NewFlags, NetOf
    <2>3. x \in m.meta.flags => x \in NetOf(m)
      BY <1>1, AskedNet DEF NetOf
    <2> QED
      BY <2>2, <2>3
  <1>2. NetOf(m) \subseteq NetKinds
    BY DEF NetOf
  <1> QED
    BY <1>1, <1>2

LEMMA GraphFlags ==
    ASSUME NEW m, ~Replicated(m), NEW old, NEW new,
           new = NewFlags(old, Asked(m)) \/ new = NewFlags(old, Asked(m)) \cup m.meta.flags
    PROVE  new \cap NetMask = {}
  BY AskedNet DEF NewFlags

-----------------------------------------------------------------------------
(* The work on a method.                                                   *)

EventFollows(m, params, g) ==
    PinsOf(g.ins) = PinsOf(Inputs(params)) /\ g.flags \cap NetKinds = NetOf(m)
GraphFollows(m, params, g) ==
    /\ PinsOf(g.ins) = PinsOf(Inputs(params))
    /\ ToldApart(m, Outputs(params)) => OutputsFollow(m, Outputs(params), g.outs)
    /\ g.flags \cap NetMask = {}

LEMMA AddFunctionKind ==
    ASSUME Running, IsJob(job), Shaped(asset), NEW m
    PROVE  LET w == AddFunction(m)
           IN  /\ Kind(w, m)
               /\ ~playing =>
                     /\ Placing(w, m)
                     /\ ~Overrides(m) /\ ~IsInput(m) /\ m.name \notin job.functions =>
                           /\ Replicated(m) /\ HasEventGraph => EventGiven(w, m)
                           /\ ~Replicated(m) => GraphGiven(w, m)
  <1> DEFINE w == AddFunction(m)
  <1>1. CASE Overrides(m) /\ AsEvent(m)
    <2>1. w = AddOverrideEvent(m)
      BY <1>1 DEF AddFunction
    <2> QED
      BY <1>1, <2>1, OverrideEventKind
  <1>2. CASE Overrides(m) /\ ~AsEvent(m)
    <2>1. w = AddOverrideGraph(m)
      BY <1>2 DEF AddFunction
    <2> QED
      BY <1>2, <2>1, OverrideGraphKind
  <1>3. CASE ~Overrides(m) /\ IsInput(m)
    <2>1. w = AddInput(m)
      BY <1>3 DEF AddFunction
    <2> QED
      BY <1>3, <2>1, InputKind
  <1>4. CASE ~Overrides(m) /\ ~IsInput(m) /\ Replicated(m)
    <2>1. w = AddCustomEvent(m)
      BY <1>4 DEF AddFunction, Replicated
    <2> QED
      BY <1>4, <2>1, CustomEventKind
  <1>5. CASE ~Overrides(m) /\ ~IsInput(m) /\ ~Replicated(m)
    <2>1. w = AddGraph(m)
      BY <1>5 DEF AddFunction, Replicated
    <2> QED
      BY <1>5, <2>1, GraphKind
  <1> QED
    BY <1>1, <1>2, <1>3, <1>4, <1>5

LEMMA FunctionWork ==
    ASSUME Running, IsJob(job), Shaped(asset), NEW m
    PROVE  LET w == ApplyToFunction(AddFunction(m), m)
           IN  /\ Kind(w, m)
               /\ ~playing =>
                     /\ Placing(w, m)
                     /\ ~Overrides(m) /\ ~IsInput(m) /\ m.name \notin job.functions =>
                           /\ Replicated(m) /\ HasEventGraph =>
                                 /\ m.name \in DOMAIN w.asset.events
                                 /\ EventFollows(m, job.params, w.asset.events[m.name])
                           /\ ~Replicated(m) /\ Apart(asset, m.name) =>
                                 /\ m.name \in DOMAIN w.asset.graphs
                                 /\ GraphFollows(m, job.params, w.asset.graphs[m.name])
  <1> DEFINE n == m.name
             u == AddFunction(m)
             w == ApplyToFunction(u, m)
  <1>1. /\ Kind(u, m)
        /\ ~playing =>
              /\ Placing(u, m)
              /\ ~Overrides(m) /\ ~IsInput(m) /\ n \notin job.functions =>
                    /\ Replicated(m) /\ HasEventGraph => EventGiven(u, m)
                    /\ ~Replicated(m) => GraphGiven(u, m)
    BY AddFunctionKind
  <1> HIDE DEF u
  <1>2. /\ IsWork(u) /\ Shaped(u.asset) /\ Grows(u, n)
        /\ Apart(asset, n) => Apart(u.asset, n)
    BY <1>1 DEF Kind, Grows, FunctionFrame
  <1> DEFINE knd == IF n \in DOMAIN u.asset.events THEN "events" ELSE "graphs"
  <1>3. /\ Refills(u, w, n)
        /\ n \in DOMAIN u.asset[knd] =>
              /\ w.asset[knd][n].ins = u.asset[knd][n].ins
              /\ w.asset[knd][n].outs = u.asset[knd][n].outs
              /\ \/ w.asset[knd][n].flags = u.asset[knd][n].flags
                 \/ w.asset[knd][n].flags = u.asset[knd][n].flags \cup m.meta.flags
    BY <1>2, MetaPut
  <1> HIDE DEF w
  <1>4. Grows(w, n)
    BY <1>2, <1>3, RefillsGrows
  <1>5. /\ DOMAIN w.asset.graphs = DOMAIN u.asset.graphs
        /\ DOMAIN w.asset.events = DOMAIN u.asset.events
        /\ w.asset.overrides = u.asset.overrides /\ w.asset.inputs = u.asset.inputs
        /\ w.job.functions = u.job.functions /\ w.job.overrides = u.job.overrides
    BY <1>3 DEF Refills, Refilled, SameJob
  <1>6. Kind(w, m)
    BY <1>1, <1>4, <1>5 DEF Kind, Apart
  <1>7. ASSUME ~playing PROVE Placing(w, m)
    BY <1>1, <1>5, <1>7 DEF Placing
  <1>8. ASSUME ~playing, ~Overrides(m), ~IsInput(m), n \notin job.functions,
               Replicated(m), HasEventGraph
        PROVE  n \in DOMAIN w.asset.events /\ EventFollows(m, job.params, w.asset.events[n])
    <2>1. EventGiven(u, m)
      BY <1>1, <1>8
    <2>2. n \in DOMAIN u.asset.events /\ knd = "events"
      BY <2>1 DEF EventGiven
    <2>3. PICK old : u.asset.events[n].flags = NewFlags(old, Asked(m))
      BY <2>1 DEF EventGiven
    <2>4. /\ w.asset.events[n].ins = u.asset.events[n].ins
          /\ \/ w.asset.events[n].flags = u.asset.events[n].flags
             \/ w.asset.events[n].flags = u.asset.events[n].flags \cup m.meta.flags
      BY <1>3, <2>2
    <2>5. w.asset.events[n].flags \cap NetKinds = NetOf(m)
      BY <2>3, <2>4, EventFlags
    <2> QED
      BY <1>5, <2>1, <2>2, <2>4, <2>5 DEF EventFollows, EventGiven
  <1>9. ASSUME ~playing, ~Overrides(m), ~IsInput(m), n \notin job.functions, ~Replicated(m),
               Apart(asset, n)
        PROVE  n \in DOMAIN w.asset.graphs /\ GraphFollows(m, job.params, w.asset.graphs[n])
    <2>1. GraphGiven(u, m)
      BY <1>1, <1>9
    <2>2. n \in DOMAIN u.asset.graphs /\ knd = "graphs"
      BY <1>2, <1>9, <2>1 DEF GraphGiven, Apart
    <2>3. PICK old : u.asset.graphs[n].flags = NewFlags(old, Asked(m))
      BY <2>1 DEF GraphGiven
    <2>4. /\ w.asset.graphs[n].ins = u.asset.graphs[n].ins
          /\ w.asset.graphs[n].outs = u.asset.graphs[n].outs
          /\ \/ w.asset.graphs[n].flags = u.asset.graphs[n].flags
             \/ w.asset.graphs[n].flags = u.asset.graphs[n].flags \cup m.meta.flags
      BY <1>3, <2>2
    <2>5. w.asset.graphs[n].flags \cap NetMask = {}
      BY <1>9, <2>3, <2>4, GraphFlags
    <2> QED
      BY <1>5, <2>1, <2>2, <2>4, <2>5 DEF GraphFollows, GraphGiven
  <1> QED
    BY <1>6, <1>7, <1>8, <1>9 DEF w, u

-----------------------------------------------------------------------------
(* What the work on a property n touches.                                  *)

VariableFrame(a, b, n) ==
    /\ Shaped(b)
    /\ b.events = a.events /\ b.overrides = a.overrides /\ b.inputs = a.inputs
    /\ b.hasConstructor = a.hasConstructor
    /\ DOMAIN a.graphs \subseteq DOMAIN b.graphs
    /\ DOMAIN b.graphs \subseteq DOMAIN a.graphs \cup {OnRep(n)}
    /\ \A x \in DOMAIN a.graphs : b.graphs[x] = a.graphs[x]
    /\ SameBut(a.variables, b.variables, n)
\* It changes what is in its place.
Reset(a, b, n) ==
    /\ VariableFrame(a, b, n)
    /\ DOMAIN b.variables = DOMAIN a.variables /\ b.order = a.order
    /\ b.components = a.components
Notified(x) == "CPF_RepNotify" \in x.flags => x.notify # NoName

LEMMA ResetKeeps == ASSUME NEW a, Shaped(a), NEW n PROVE Reset(a, a, n)
  BY DEF Reset, VariableFrame, SameBut

LEMMA VariableFrameSteps ==
    ASSUME NEW a, NEW b, NEW c, NEW n, VariableFrame(a, b, n), VariableFrame(b, c, n)
    PROVE  VariableFrame(a, c, n)
  <1>1. SameBut(a.variables, c.variables, n)
    BY DEF VariableFrame, SameBut
  <1>2. \A x \in DOMAIN a.graphs : c.graphs[x] = a.graphs[x]
    BY DEF VariableFrame
  <1> QED
    BY <1>1, <1>2 DEF VariableFrame

LEMMA ResetSteps ==
    ASSUME NEW a, NEW b, NEW c, NEW n, Reset(a, b, n), Reset(b, c, n)
    PROVE  Reset(a, c, n)
  BY VariableFrameSteps DEF Reset

LEMMA VariablePut ==
    ASSUME NEW a, Shaped(a), NEW n \in DOMAIN a.variables, NEW x, IsVariable(x)
    PROVE  LET b == [a EXCEPT !.variables[n] = x]
           IN  Reset(a, b, n) /\ b.variables[n] = x /\ b.graphs = a.graphs
  <1> DEFINE f == [a.variables EXCEPT ![n] = x]
             b == [a EXCEPT !.variables = f]
  <1>1. DOMAIN f = DOMAIN a.variables /\ f[n] = x /\ SameBut(a.variables, f, n) /\ Variables(f)
    BY DEF Shaped, Variables, IsMap, SameBut
  <1> HIDE DEF f
  <1>2. /\ Shaped(b) /\ b.variables = f /\ b.graphs = a.graphs /\ b.events = a.events
        /\ b.overrides = a.overrides /\ b.inputs = a.inputs /\ b.order = a.order
        /\ b.components = a.components /\ b.hasConstructor = a.hasConstructor
    BY <1>1 DEF Shaped
  <1>3. Reset(a, b, n)
    BY <1>1, <1>2 DEF Reset, VariableFrame
  <1> QED
    BY <1>1, <1>2, <1>3 DEF f

\* The job is the same, but for the function of the notification.
JobBut(j, k, n) ==
    /\ j.todo = k.todo /\ j.params = k.params /\ j.constructs = k.constructs
    /\ j.overrides = k.overrides /\ j.variables = k.variables
    /\ j.components = k.components /\ j.index = k.index
    /\ k.functions \subseteq j.functions /\ j.functions \subseteq k.functions \cup {OnRep(n)}
Resets(w, v, n) ==
    /\ IsWork(v) /\ JobBut(v.job, w.job, n)
    /\ Reset(w.asset, v.asset, n)
    /\ OnRep(n) \in v.job.functions =>
          OnRep(n) \in w.job.functions \/ OnRep(n) \in DOMAIN v.asset.graphs
    /\ ~v.stopped => ~w.stopped
    /\ w.stopped => v.asset = w.asset
    /\ ~playing /\ ~w.stopped => ~v.stopped

LEMMA ChangeResets ==
    ASSUME NEW w, IsWork(w), Shaped(w.asset), NEW n, NEW differs, NEW result,
           Reset(w.asset, result, n), NEW v, Changed(w, v, differs, result)
    PROVE  Resets(w, v, n)
  <1>1. Reset(w.asset, v.asset, n)
    BY ResetKeeps DEF Changed
  <1> QED
    BY <1>1 DEF Changed, Resets, SameJob, JobBut

LEMMA ResetsFollow ==
    ASSUME NEW u, NEW v, NEW w, NEW n, Resets(u, v, n), Resets(v, w, n)
    PROVE  Resets(u, w, n)
  <1>1. Reset(u.asset, w.asset, n)
    BY ResetSteps DEF Resets
  <1>2. JobBut(w.job, u.job, n)
    BY DEF Resets, JobBut
  <1>3. DOMAIN v.asset.graphs \subseteq DOMAIN w.asset.graphs
    BY DEF Resets, Reset, VariableFrame
  <1>4. IsWork(w) /\ IsWork(v)
    BY DEF Resets
  <1>5. w.stopped \in BOOLEAN /\ v.stopped \in BOOLEAN
    BY <1>4 DEF IsWork
  <1>6. /\ ~w.stopped => ~u.stopped
        /\ ~playing /\ ~u.stopped => ~w.stopped
        /\ OnRep(n) \in w.job.functions =>
              OnRep(n) \in u.job.functions \/ OnRep(n) \in DOMAIN w.asset.graphs
    BY <1>3 DEF Resets
  <1>7. ASSUME u.stopped PROVE w.asset = u.asset
    <2>1. v.stopped /\ v.asset = u.asset
      BY <1>5, <1>7 DEF Resets
    <2> QED
      BY <2>1 DEF Resets
  <1> QED
    BY <1>1, <1>2, <1>4, <1>6, <1>7 DEF Resets

\* A change of one field of a variable.
LEMMA VariableChange ==
    ASSUME NEW w, IsWork(w), Shaped(w.asset), NEW n \in DOMAIN w.asset.variables,
           NEW x, IsVariable(x), NEW differs \in BOOLEAN
    PROVE  LET result == [w.asset EXCEPT !.variables[n] = x]
               v == Checked(w, differs, result)
               old == w.asset.variables[n]
               new == v.asset.variables[n]
           IN  /\ Resets(w, v, n)
               /\ new = old \/ (new = x /\ ~w.stopped)
               /\ ~v.stopped => new = IF differs THEN x ELSE old
  <1> DEFINE result == [w.asset EXCEPT !.variables[n] = x]
             v == Checked(w, differs, result)
  <1>1. Reset(w.asset, result, n) /\ result.variables[n] = x
    BY VariablePut
  <1> HIDE DEF result
  <1>2. Changed(w, v, differs, result)
    BY CheckedIs
  <1> HIDE DEF v
  <1>3. Resets(w, v, n)
    BY <1>1, <1>2, ChangeResets
  <1>4. w.stopped \in BOOLEAN
    BY DEF IsWork
  <1>5. /\ v.asset = w.asset \/ v.asset = result
        /\ w.stopped => v.asset = w.asset
        /\ ~v.stopped => v.asset = IF differs THEN result ELSE w.asset
    BY <1>2 DEF Changed
  <1> QED
    BY <1>1, <1>3, <1>4, <1>5 DEF v, result

NetWord(old, m) == (old \ NetFlags) \cup (InFlags(m) \cap NetFlags)

\* The variable with its flags; with its notification, and the graph of that.
Flagged(a, n, flags) == [a EXCEPT !.variables[n].flags = flags]
Notifying(b, n) ==
    [b EXCEPT !.variables[n].notify = OnRep(n),
              !.graphs = IF OnRep(n) \in DOMAIN @ THEN @ ELSE With(@, OnRep(n), NewFunction)]
LEMMA NotifyPut ==
    ASSUME NEW a, Shaped(a), NEW n \in DOMAIN a.variables, NEW flags
    PROVE  LET c == Notifying(Flagged(a, n, flags), n)
               old == a.variables[n]
               x == c.variables[n]
           IN  /\ Reset(a, c, n) /\ OnRep(n) \in DOMAIN c.graphs
               /\ x.flags = flags /\ x.notify = OnRep(n)
               /\ x.pin = old.pin /\ x.condition = old.condition /\ x.keys = old.keys
  <1> DEFINE old == a.variables[n]
             x == [old EXCEPT !.flags = flags, !.notify = OnRep(n)]
             f == [a.variables EXCEPT ![n] = x]
             g == IF OnRep(n) \in DOMAIN a.graphs THEN a.graphs
                  ELSE With(a.graphs, OnRep(n), NewFunction)
             b == [a EXCEPT !.variables[n].flags = flags]
             c == [b EXCEPT !.variables[n].notify = OnRep(n),
                            !.graphs = IF OnRep(n) \in DOMAIN @ THEN @
                                       ELSE With(@, OnRep(n), NewFunction)]
             d == [a EXCEPT !.variables = f, !.graphs = g]
  <1>1. IsVariable(old) /\ Functions(a.graphs) /\ Variables(a.variables)
    BY DEF Shaped, Variables
  <1>2. /\ IsVariable(x) /\ x.flags = flags /\ x.notify = OnRep(n)
        /\ x.pin = old.pin /\ x.condition = old.condition /\ x.keys = old.keys
    BY <1>1 DEF IsVariable
  <1>3. c = d
    <2> DEFINE e == [a EXCEPT !.variables = [a.variables EXCEPT ![n] = [old EXCEPT !.flags = flags]]]
    <2>1. b = e
      OBVIOUS
    <2>2. e.graphs = a.graphs
      BY DEF Shaped
    <2>3. [e.variables EXCEPT ![n] = [e.variables[n] EXCEPT !.notify = OnRep(n)]] = f
      <3>1. e.variables = [a.variables EXCEPT ![n] = [old EXCEPT !.flags = flags]]
        BY DEF Shaped
      <3> DEFINE o == [old EXCEPT !.flags = flags]
      <3>2. [o EXCEPT !.notify = OnRep(n)] = x
        BY <1>1 DEF IsVariable
      <3> HIDE DEF o, x
      <3>3. e.variables[n] = o
        BY <1>1, <3>1 DEF Variables, IsMap, o
      <3>4. [e.variables EXCEPT ![n] = [e.variables[n] EXCEPT !.notify = OnRep(n)]]
                = [e.variables EXCEPT ![n] = x]
        BY <3>2, <3>3
      <3>5. e.variables = [a.variables EXCEPT ![n] = o]
        BY <3>1 DEF o
      <3> HIDE DEF e
      <3>6. [e.variables EXCEPT ![n] = x] = f
        BY <3>5
      <3> HIDE DEF f
      <3> QED
        BY <3>4, <3>6
    <2>4. c = [e EXCEPT !.variables = [e.variables EXCEPT ![n] = [e.variables[n] EXCEPT !.notify = OnRep(n)]],
                        !.graphs = IF OnRep(n) \in DOMAIN e.graphs THEN e.graphs
                                   ELSE With(e.graphs, OnRep(n), NewFunction)]
      <3> DEFINE h == [e EXCEPT !.variables[n].notify = OnRep(n)]
      <3>1. h = [e EXCEPT !.variables = [e.variables EXCEPT ![n] = [e.variables[n] EXCEPT !.notify = OnRep(n)]]]
        OBVIOUS
      <3>2. h.graphs = e.graphs
        BY <3>1, <2>2 DEF Shaped
      <3>3. c = [h EXCEPT !.graphs = IF OnRep(n) \in DOMAIN h.graphs THEN h.graphs
                                     ELSE With(h.graphs, OnRep(n), NewFunction)]
        BY <2>1
      <3> HIDE DEF e, h, c
      <3> QED
        BY <3>1, <3>2, <3>3
    <2> HIDE DEF f, g
    <2>5. c = [e EXCEPT !.variables = f, !.graphs = g]
      BY <2>2, <2>3, <2>4 DEF g
    <2> QED
      BY <2>5 DEF Shaped
  <1> HIDE DEF x
  <1>4. DOMAIN f = DOMAIN a.variables /\ f[n] = x /\ SameBut(a.variables, f, n) /\ Variables(f)
    BY <1>1, <1>2 DEF Variables, IsMap, SameBut
  <1>5. /\ Functions(g) /\ DOMAIN g = DOMAIN a.graphs \cup {OnRep(n)}
        /\ \A y \in DOMAIN a.graphs : g[y] = a.graphs[y]
    <2>1. CASE OnRep(n) \in DOMAIN a.graphs
      BY <1>1, <2>1
    <2>2. CASE OnRep(n) \notin DOMAIN a.graphs
      <3>1. g = With(a.graphs, OnRep(n), NewFunction)
        BY <2>2
      <3>2. IsFunction(NewFunction)
        BY DEF NewFunction, IsFunction
      <3> HIDE DEF g
      <3>3. /\ IsMap(g) /\ DOMAIN g = DOMAIN a.graphs \cup {OnRep(n)} /\ g[OnRep(n)] = NewFunction
            /\ SameBut(a.graphs, g, OnRep(n))
        BY <3>1 DEF With, IsMap, SameBut
      <3> QED
        BY <1>1, <2>2, <3>2, <3>3 DEF Functions, SameBut
    <2> QED
      BY <2>1, <2>2
  <1> HIDE DEF f, g
  <1>6. /\ Shaped(d) /\ d.variables = f /\ d.graphs = g /\ d.events = a.events
        /\ d.overrides = a.overrides /\ d.inputs = a.inputs /\ d.order = a.order
        /\ d.components = a.components /\ d.hasConstructor = a.hasConstructor
    BY <1>4, <1>5 DEF Shaped
  <1> HIDE DEF d
  <1>7. Reset(a, d, n)
    BY <1>4, <1>5, <1>6 DEF Reset, VariableFrame
  <1>8. /\ Reset(a, d, n) /\ OnRep(n) \in DOMAIN d.graphs
        /\ d.variables[n] = x
    BY <1>4, <1>5, <1>6, <1>7
  <1> HIDE DEF c, old
  <1>9. /\ Reset(a, c, n) /\ OnRep(n) \in DOMAIN c.graphs
        /\ c.variables[n] = x
    BY <1>3, <1>8
  <1> QED
    BY <1>2, <1>9, Zenon DEF c, b, old, Notifying, Flagged

LEMMA SetNetIs ==
    ASSUME NEW w, IsWork(w), Shaped(w.asset), NEW n \in DOMAIN w.asset.variables, NEW m,
           OnRep(n) # NoName, Notified(w.asset.variables[n])
    PROVE  LET v == SetNet(w, n, m)
               old == w.asset.variables[n]
               new == v.asset.variables[n]
           IN  /\ Resets(w, v, n) /\ Notified(new)
               /\ new.pin = old.pin /\ new.condition = old.condition
               /\ ~v.stopped => new.flags = NetWord(old.flags, m)
  <1> DEFINE old == w.asset.variables[n]
             word == NetWord(old.flags, m)
             net == InFlags(m) \cap NetFlags
             notify == "CPF_RepNotify" \in net
             a == [w.asset EXCEPT !.variables[n].flags = word]
             c == [a EXCEPT !.variables[n].notify = OnRep(n),
                            !.graphs = IF OnRep(n) \in DOMAIN @ THEN @
                                       ELSE With(@, OnRep(n), NewFunction)]
             result == IF notify THEN c ELSE a
             differs == old.flags \cap NetFlags # net
             w1 == Checked(w, differs, result)
             v == SetNet(w, n, m)
  <1>1. v = IF differs /\ notify THEN Asks(w1, "functions", OnRep(n)) ELSE w1
    BY DEF SetNet, NetWord
  <1> HIDE DEF word
  <1>2. IsVariable(old)
    BY DEF Shaped, Variables
  <1>3. /\ Reset(w.asset, a, n) /\ a.variables[n].flags = word
        /\ a.variables[n].notify = old.notify /\ a.variables[n].pin = old.pin
        /\ a.variables[n].condition = old.condition
    <2> DEFINE x == [old EXCEPT !.flags = word]
               b == [w.asset EXCEPT !.variables[n] = x]
    <2>1. IsVariable(x) /\ x.flags = word /\ x.notify = old.notify /\ x.pin = old.pin
          /\ x.condition = old.condition
      BY <1>2 DEF IsVariable
    <2>2. a = b
      OBVIOUS
    <2> HIDE DEF x
    <2>3. Reset(w.asset, b, n) /\ b.variables[n] = x
      BY <2>1, VariablePut
    <2> HIDE DEF a, b, old
    <2> QED
      BY <2>1, <2>2, <2>3
  <1>4. /\ Reset(w.asset, c, n) /\ OnRep(n) \in DOMAIN c.graphs
        /\ c.variables[n].flags = word /\ c.variables[n].notify = OnRep(n)
        /\ c.variables[n].pin = old.pin /\ c.variables[n].condition = old.condition
    <2>0. c = Notifying(Flagged(w.asset, n, word), n)
      BY Zenon DEF Notifying, Flagged
    <2> HIDE DEF old, c
    <2>1. /\ Reset(w.asset, c, n) /\ OnRep(n) \in DOMAIN c.graphs
          /\ c.variables[n].flags = word /\ c.variables[n].notify = OnRep(n)
          /\ c.variables[n].pin = w.asset.variables[n].pin
          /\ c.variables[n].condition = w.asset.variables[n].condition
      BY <2>0, NotifyPut
    <2> QED
      BY <2>1 DEF old
  <1> HIDE DEF a, c, v
  <1>5. /\ Reset(w.asset, result, n) /\ result.variables[n].flags = word
        /\ result.variables[n].pin = old.pin /\ result.variables[n].condition = old.condition
        /\ notify => OnRep(n) \in DOMAIN result.graphs
    BY <1>3, <1>4
  <1>6. Notified(result.variables[n])
    <2>1. CASE notify
      BY <1>4, <2>1 DEF Notified
    <2>2. CASE ~notify
      <3>1. "CPF_RepNotify" \notin word
        BY <2>2 DEF word, NetWord, NetFlags
      <3> QED
        BY <1>5, <3>1 DEF Notified
    <2> QED
      BY <2>1, <2>2
  <1> HIDE DEF result
  <1>7. Changed(w, w1, differs, result)
    <2>1. differs \in BOOLEAN
      OBVIOUS
    <2> HIDE DEF differs
    <2> QED
      BY <2>1, CheckedIs
  <1> HIDE DEF w1
  <1>8. Resets(w, w1, n)
    <2> HIDE DEF differs
    <2> QED
      BY <1>5, <1>7, ChangeResets
  <1>9. /\ w1.asset = w.asset \/ w1.asset = result
        /\ ~w1.stopped => w1.asset = IF differs THEN result ELSE w.asset
        /\ IsWork(w1) /\ w1.job.functions = w.job.functions
    <2> HIDE DEF differs
    <2> QED
      BY <1>7 DEF Changed, SameJob
  <1>10. ~differs => old.flags = word
    BY DEF word, NetWord
  <1>11. v.asset = w1.asset /\ v.stopped = w1.stopped /\ Resets(w, v, n)
    <2>1. CASE ~(differs /\ notify)
      BY <1>1, <1>8, <2>1
    <2>2. CASE differs /\ notify
      <3>1. v = Asks(w1, "functions", OnRep(n))
        BY <1>1, <2>2
      <3>2. /\ IsWork(v) /\ v.asset = w1.asset /\ v.stopped = w1.stopped
            /\ v.job.todo = w1.job.todo /\ v.job.params = w1.job.params
            /\ v.job.constructs = w1.job.constructs /\ v.job.index = w1.job.index
            /\ v.job.functions = w1.job.functions \cup (IF w1.stopped THEN {} ELSE {OnRep(n)})
            /\ \A s \in Sets \ {"functions"} : v.job[s] = w1.job[s]
        BY <1>9, <3>1, AsksIs DEF Sets
      <3>3. JobBut(v.job, w.job, n)
        BY <1>8, <1>9, <3>2 DEF JobBut, Resets, Sets
      <3>4. ~w1.stopped => OnRep(n) \in DOMAIN v.asset.graphs
        BY <1>5, <1>9, <2>2, <3>2
      <3>5. OnRep(n) \in v.job.functions =>
                OnRep(n) \in w.job.functions \/ OnRep(n) \in DOMAIN v.asset.graphs
        BY <1>9, <3>2, <3>4
      <3> QED
        BY <1>8, <3>2, <3>3, <3>5 DEF Resets
    <2> QED
      BY <2>1, <2>2
  <1>12. /\ Notified(v.asset.variables[n])
         /\ v.asset.variables[n].pin = old.pin /\ v.asset.variables[n].condition = old.condition
    BY <1>5, <1>6, <1>9, <1>11
  <1>13. ~v.stopped => v.asset.variables[n].flags = word
    BY <1>5, <1>9, <1>10, <1>11
  <1> QED
    BY <1>11, <1>12, <1>13 DEF v, word, old

\* The flags, once they are those of the declaration.
LEMMA FlagsOfVariable ==
    ASSUME NEW m, NEW pin
    PROVE  "CPF_RepNotify" \in VariableFlags(m, pin) <=> "CPF_RepNotify" \in InFlags(m)
  BY DEF VariableFlags

LEMMA SetVariableIs ==
    ASSUME NEW w, IsWork(w), Shaped(w.asset), NEW n \in DOMAIN w.asset.variables, NEW m, NEW pin,
           OnRep(n) # NoName, Notified(w.asset.variables[n])
    PROVE  LET v == SetVariable(w, n, m, pin)
               new == v.asset.variables[n]
           IN  /\ Resets(w, v, n) /\ Notified(new)
               /\ ~v.stopped => /\ new.pin = pin /\ new.condition = m.condition
                                /\ new.flags = VariableFlags(m, pin)
  <1> DEFINE v0 == w.asset.variables[n]
             x1 == [v0 EXCEPT !.pin = pin]
             d1 == v0.pin # pin
             w1 == Checked(w, d1, [w.asset EXCEPT !.variables[n] = x1])
             v1 == w1.asset.variables[n]
             w2 == SetNet(w1, n, m)
             v2 == w2.asset.variables[n]
             x3 == [v2 EXCEPT !.condition = m.condition]
             d3 == v2.condition # m.condition
             w3 == Checked(w2, d3, [w2.asset EXCEPT !.variables[n] = x3])
             v3 == w3.asset.variables[n]
             flags == VariableFlags(m, pin)
             x4 == [v3 EXCEPT !.flags = flags]
             d4 == v3.flags # flags
             w4 == Checked(w3, d4, [w3.asset EXCEPT !.variables[n] = x4])
             v4 == w4.asset.variables[n]
  <1>1. SetVariable(w, n, m, pin) = w4
    BY Zenon DEF SetVariable
  <1> HIDE DEF flags
  <1>2. /\ Resets(w, w1, n) /\ v1.flags = v0.flags /\ v1.notify = v0.notify
        /\ ~w1.stopped => v1.pin = pin
    <2>1. IsVariable(v0)
      BY DEF Shaped, Variables
    <2>2. IsVariable(x1) /\ x1.flags = v0.flags /\ x1.notify = v0.notify /\ x1.pin = pin
      BY <2>1 DEF IsVariable
    <2>3. d1 \in BOOLEAN
      OBVIOUS
    <2> HIDE DEF x1, d1
    <2>4. /\ Resets(w, w1, n) /\ (v1 = v0 \/ v1 = x1)
          /\ ~w1.stopped => v1 = IF d1 THEN x1 ELSE v0
      BY <2>2, <2>3, VariableChange
    <2> HIDE DEF w1, v0
    <2> QED
      BY <2>2, <2>4 DEF d1
  <1> HIDE DEF w1
  <1>3. IsWork(w1) /\ Shaped(w1.asset) /\ n \in DOMAIN w1.asset.variables /\ Notified(v1)
    BY <1>2 DEF Resets, Reset, VariableFrame, Notified
  <1>4. /\ Resets(w1, w2, n) /\ Notified(v2) /\ v2.pin = v1.pin
        /\ ~w2.stopped => v2.flags = NetWord(v1.flags, m)
    BY <1>3, SetNetIs
  <1> HIDE DEF w2
  <1>5. IsWork(w2) /\ Shaped(w2.asset) /\ n \in DOMAIN w2.asset.variables
    BY <1>3, <1>4 DEF Resets, Reset, VariableFrame
  <1>6. /\ Resets(w2, w3, n) /\ v3.flags = v2.flags /\ v3.notify = v2.notify /\ v3.pin = v2.pin
        /\ ~w3.stopped => v3.condition = m.condition
    <2>1. IsVariable(v2)
      BY <1>5 DEF Shaped, Variables
    <2>2. IsVariable(x3) /\ x3.flags = v2.flags /\ x3.notify = v2.notify /\ x3.pin = v2.pin
          /\ x3.condition = m.condition
      BY <2>1 DEF IsVariable
    <2>3. d3 \in BOOLEAN
      OBVIOUS
    <2> HIDE DEF x3, d3
    <2>4. /\ Resets(w2, w3, n) /\ (v3 = v2 \/ v3 = x3)
          /\ ~w3.stopped => v3 = IF d3 THEN x3 ELSE v2
      BY <1>5, <2>2, <2>3, VariableChange
    <2> HIDE DEF w3, v2
    <2> QED
      BY <2>2, <2>4 DEF d3
  <1> HIDE DEF w3
  <1>7. IsWork(w3) /\ Shaped(w3.asset) /\ n \in DOMAIN w3.asset.variables
    BY <1>5, <1>6 DEF Resets, Reset, VariableFrame
  <1>8. IsVariable(v3)
    BY <1>7 DEF Shaped, Variables
  <1>9. /\ IsVariable(x4) /\ x4.flags = flags /\ x4.notify = v3.notify /\ x4.pin = v3.pin
        /\ x4.condition = v3.condition
    BY <1>8 DEF IsVariable
  <1>10. /\ Resets(w3, w4, n) /\ (v4 = v3 \/ (v4 = x4 /\ ~w3.stopped))
         /\ ~w4.stopped => v4 = IF d4 THEN x4 ELSE v3
    <2>1. d4 \in BOOLEAN
      OBVIOUS
    <2> HIDE DEF x4, d4
    <2> QED
      BY <1>7, <1>9, <2>1, VariableChange
  <1> HIDE DEF w4, x4
  <1>11. Resets(w, w4, n)
    <2>1. Resets(w, w2, n)
      BY <1>2, <1>4, ResetsFollow
    <2>2. Resets(w, w3, n)
      BY <1>6, <2>1, ResetsFollow
    <2> QED
      BY <1>10, <2>2, ResetsFollow
  <1>12. Notified(v4)
    <2>1. CASE v4 = v3
      BY <1>4, <1>6, <2>1 DEF Notified
    <2>2. CASE v4 = x4 /\ ~w3.stopped
      <3>1. ~w2.stopped
        BY <1>6, <2>2 DEF Resets
      <3>2. "CPF_RepNotify" \in flags => "CPF_RepNotify" \in v2.flags
        BY <1>4, <3>1, FlagsOfVariable DEF NetWord, NetFlags, flags
      <3> QED
        BY <1>4, <1>6, <1>9, <2>2, <3>2 DEF Notified
    <2> QED
      BY <1>10, <2>1, <2>2
  <1>13. ASSUME ~w4.stopped
         PROVE  v4.pin = pin /\ v4.condition = m.condition /\ v4.flags = flags
    <2>1. ~w3.stopped /\ ~w2.stopped /\ ~w1.stopped
      BY <1>4, <1>6, <1>10, <1>13 DEF Resets
    <2>2. v3.pin = pin /\ v3.condition = m.condition
      BY <1>2, <1>4, <1>6, <2>1
    <2>3. v4 = IF d4 THEN x4 ELSE v3
      BY <1>10, <1>13
    <2> QED
      BY <1>9, <2>2, <2>3
  <1> QED
    BY <1>1, <1>11, <1>12, <1>13 DEF flags

-----------------------------------------------------------------------------
(* The place of a variable.                                                *)

\* A sequence of members of S, each once.
Distinct(o) == \A i, j \in DOMAIN o : o[i] = o[j] => i = j

LEMMA Swap ==
    ASSUME NEW S, NEW o \in Seq(S), Distinct(o), NEW at \in DOMAIN o, NEW to \in DOMAIN o
    PROVE  LET p == [o EXCEPT ![at] = o[to], ![to] = o[at]]
           IN  /\ p \in Seq(S) /\ DOMAIN p = DOMAIN o /\ Distinct(p)
               /\ Elements(p) = Elements(o)
               /\ p[to] = o[at] /\ \A i \in DOMAIN o \ {at, to} : p[i] = o[i]
  <1> DEFINE p == [o EXCEPT ![at] = o[to], ![to] = o[at]]
             q(i) == IF i = to THEN at ELSE IF i = at THEN to ELSE i
  <1>1. DOMAIN p = DOMAIN o /\ p \in Seq(S)
    OBVIOUS
  <1>2. \A i \in DOMAIN o : p[i] = o[q(i)] /\ q(i) \in DOMAIN o
    OBVIOUS
  <1>3. \A i, j \in DOMAIN o : q(i) = q(j) => i = j
    OBVIOUS
  <1>4. \A i \in DOMAIN o : q(q(i)) = i
    OBVIOUS
  <1>5. p[to] = o[at] /\ \A i \in DOMAIN o \ {at, to} : p[i] = o[i]
    BY <1>2
  <1> HIDE DEF p, q
  <1>6. Distinct(p)
    BY <1>1, <1>2, <1>3 DEF Distinct
  <1>7. Elements(p) = Elements(o)
    <2>1. \A i \in DOMAIN o : o[i] = p[q(i)]
      BY <1>2, <1>4
    <2> QED
      BY <1>1, <1>2, <2>1 DEF Elements
  <1> QED
    BY <1>1, <1>5, <1>6, <1>7 DEF p

\* Where Place puts n.
Moved(o, p, n, k) ==
    /\ DOMAIN p = DOMAIN o /\ Distinct(p) /\ Elements(p) = Elements(o)
    /\ (\A i \in 1 .. k : i \in DOMAIN o /\ o[i] # n) =>
          k + 1 \in DOMAIN p /\ p[k + 1] = n /\ \A i \in 1 .. k : p[i] = o[i]

LEMMA PlaceIs ==
    ASSUME NEW w, IsWork(w), Shaped(w.asset), ~w.stopped, NEW S, w.asset.order \in Seq(S),
           Distinct(w.asset.order), NEW n \in Elements(w.asset.order), w.job.index \in Nat
    PROVE  LET v == Place(w, n)
               a == w.asset
               b == v.asset
           IN  /\ IsWork(v) /\ ~v.stopped /\ Shaped(b)
               /\ b.graphs = a.graphs /\ b.events = a.events /\ b.overrides = a.overrides
               /\ b.inputs = a.inputs /\ b.variables = a.variables
               /\ b.components = a.components /\ b.hasConstructor = a.hasConstructor
               /\ b.order \in Seq(S) /\ Moved(a.order, b.order, n, w.job.index)
               /\ v.job.index = w.job.index + 1
               /\ SameJob([v.job EXCEPT !.index = w.job.index], w.job)
  <1> DEFINE a == w.asset
             o == w.asset.order
             at == CHOOSE i \in DOMAIN o : o[i] = n
             to == w.job.index + 1
             p == [o EXCEPT ![at] = o[to], ![to] = n]
             swapped == [w.asset EXCEPT !.order = p]
             differs == at # to
             x == Unchecked(w, differs, swapped)
             w1 == IF to \in DOMAIN o THEN x ELSE w
             v == Place(w, n)
  <1>1. v = [w1 EXCEPT !.job.index = @ + 1]
    BY DEF Place
  <1>2. at \in DOMAIN o /\ o[at] = n
    BY DEF Elements
  <1>3. to \in Nat /\ to = w.job.index + 1
    OBVIOUS
  <1> HIDE DEF at, to
  <1>4. to \in DOMAIN o => /\ p \in Seq(S) /\ DOMAIN p = DOMAIN o /\ Distinct(p)
                           /\ Elements(p) = Elements(o) /\ p[to] = n
                           /\ \A i \in DOMAIN o \ {at, to} : p[i] = o[i]
    BY <1>2, Swap
  <1> HIDE DEF p
  <1>5. /\ Shaped(swapped) /\ swapped.order = p
        /\ swapped.graphs = a.graphs /\ swapped.events = a.events
        /\ swapped.overrides = a.overrides /\ swapped.inputs = a.inputs
        /\ swapped.variables = a.variables /\ swapped.components = a.components
        /\ swapped.hasConstructor = a.hasConstructor
    BY DEF Shaped
  <1> HIDE DEF swapped
  <1>6. Changed(w, x, differs, swapped) /\ ~x.stopped
    <2>1. differs \in BOOLEAN
      OBVIOUS
    <2> HIDE DEF differs
    <2> QED
      BY <2>1, UncheckedIs
  <1> HIDE DEF x
  <1>7. x.asset = IF at # to THEN swapped ELSE a
    BY <1>6, Zenon DEF Changed
  <1> DEFINE r == IF to \in DOMAIN o /\ at # to THEN p ELSE o
  <1>8. /\ IsWork(w1) /\ ~w1.stopped /\ Shaped(w1.asset) /\ SameJob(w1.job, w.job)
        /\ w1.asset.graphs = a.graphs /\ w1.asset.events = a.events
        /\ w1.asset.overrides = a.overrides /\ w1.asset.inputs = a.inputs
        /\ w1.asset.variables = a.variables /\ w1.asset.components = a.components
        /\ w1.asset.hasConstructor = a.hasConstructor /\ w1.asset.order = r
    <2>1. CASE to \notin DOMAIN o
      BY <2>1 DEF SameJob
    <2>2. CASE to \in DOMAIN o
      <3>1. w1 = x
        BY <2>2
      <3>2. IsWork(x) /\ SameJob(x.job, w.job)
        BY <1>6 DEF Changed
      <3> HIDE DEF w1
      <3>3. CASE at = to
        <4>1. x.asset = a /\ r = o
          BY <1>7, <3>3
        <4> QED
          BY <1>6, <3>1, <3>2, <4>1
      <3>4. CASE at # to
        <4>1. x.asset = swapped /\ r = p
          BY <1>7, <2>2, <3>4
        <4> QED
          BY <1>5, <1>6, <3>1, <3>2, <4>1
      <3> QED
        BY <3>3, <3>4
    <2> QED
      BY <2>1, <2>2
  <1> HIDE DEF w1
  <1>9. r \in Seq(S) /\ Moved(o, r, n, w.job.index)
    <2>1. r \in Seq(S) /\ DOMAIN r = DOMAIN o /\ Distinct(r) /\ Elements(r) = Elements(o)
      BY <1>4
    <2>2. ASSUME \A i \in 1 .. w.job.index : i \in DOMAIN o /\ o[i] # n
          PROVE  to \in DOMAIN r /\ r[to] = n /\ \A i \in 1 .. w.job.index : r[i] = o[i]
      <3>1. DOMAIN o = 1 .. Len(o) /\ Len(o) \in Nat
        OBVIOUS
      <3>2. at \notin 1 .. w.job.index /\ at \in 1 .. Len(o)
        BY <1>2, <2>2, <3>1
      <3>3. to \in 1 .. Len(o) /\ (\A i \in 1 .. w.job.index : i # to /\ i # at)
        BY <1>3, <3>1, <3>2
      <3>4. r[to] = n
        <4>1. CASE at = to
          BY <1>2, <4>1
        <4>2. CASE at # to
          BY <1>4, <3>1, <3>3, <4>2
        <4> QED
          BY <4>1, <4>2
      <3>5. \A i \in 1 .. w.job.index : r[i] = o[i]
        BY <1>4, <2>2, <3>1, <3>3
      <3> QED
        BY <2>1, <3>1, <3>3, <3>4, <3>5
    <2> HIDE DEF r
    <2> QED
      BY <1>3, <2>1, <2>2 DEF Moved
  <1> HIDE DEF r
  <1>10. /\ IsWork(v) /\ v.stopped = w1.stopped /\ v.asset = w1.asset
         /\ v.job.index = w1.job.index + 1
         /\ SameJob([v.job EXCEPT !.index = w.job.index], w.job)
    <2>1. v = [w1 EXCEPT !.job = [w1.job EXCEPT !.index = w1.job.index + 1]]
      BY <1>1
    <2> HIDE DEF v
    <2> QED
      BY <1>8, <2>1 DEF IsWork, IsJob, SameJob
  <1>11. w1.job.index = w.job.index
    BY <1>8 DEF SameJob
  <1> HIDE DEF v
  <1> QED
    BY <1>8, <1>9, <1>10, <1>11 DEF v

-----------------------------------------------------------------------------
(* The work on a property that is not a component.                         *)

\* The order is a list of the variables.
Listed(a, S) == a.order \in Seq(S) /\ Distinct(a.order) /\ DOMAIN a.variables = Elements(a.order)

\* The job, but for the variable n and the function of its notification.
VariableJob(j, n) ==
    /\ IsJob(j) /\ j.todo = job.todo /\ j.params = job.params /\ j.constructs = job.constructs
    /\ j.overrides = job.overrides /\ j.components = job.components
    /\ job.functions \subseteq j.functions /\ j.functions \subseteq job.functions \cup {OnRep(n)}
    /\ job.variables \subseteq j.variables /\ j.variables \subseteq job.variables \cup {n}

\* While the work w on the variable n is under way.
Stage(w, n, S) ==
    LET a == w.asset
    IN  /\ IsWork(w) /\ VariableFrame(asset, a, n) /\ Listed(a, S)
        /\ a.components = asset.components
        /\ DOMAIN a.variables \subseteq DOMAIN asset.variables \cup {n}
        /\ n \in DOMAIN a.variables => Notified(a.variables[n])
        /\ VariableJob(w.job, n)
        /\ OnRep(n) \in w.job.functions => OnRep(n) \in job.functions \cup DOMAIN a.graphs
        /\ ~playing => ~w.stopped

LEMMA Appended ==
    ASSUME NEW S, NEW o \in Seq(S), Distinct(o), NEW n \in S, n \notin Elements(o)
    PROVE  LET p == Append(o, n)
           IN  /\ p \in Seq(S) /\ Distinct(p) /\ Elements(p) = Elements(o) \cup {n}
               /\ DOMAIN o \subseteq DOMAIN p /\ \A i \in DOMAIN o : p[i] = o[i]
  <1> DEFINE p == Append(o, n)
             l == Len(o)
  <1>1. /\ p \in Seq(S) /\ l \in Nat /\ DOMAIN o = 1 .. l /\ DOMAIN p = 1 .. l + 1
        /\ p[l + 1] = n /\ \A i \in 1 .. l : p[i] = o[i]
    OBVIOUS
  <1> HIDE DEF p, l
  <1>2. \A i \in 1 .. l + 1 : i \in 1 .. l \/ i = l + 1
    BY <1>1
  <1>3. 1 .. l \subseteq 1 .. l + 1 /\ l + 1 \in 1 .. l + 1
    BY <1>1
  <1>4. Elements(p) = Elements(o) \cup {n}
    BY <1>1, <1>2, <1>3 DEF Elements
  <1>5. \A i \in 1 .. l : o[i] # n
    BY <1>1 DEF Elements
  <1>6. Distinct(p)
    BY <1>1, <1>2, <1>3, <1>5 DEF Distinct
  <1> QED
    BY <1>1, <1>3, <1>4, <1>6 DEF p

Adding(a, n, pin) ==
    [a EXCEPT !.variables = With(@, n, NewVariable(pin)), !.order = Append(@, n)]

LEMMA VariableMade ==
    ASSUME NEW a, Shaped(a), NEW S, Listed(a, S), NEW n \in S \ DOMAIN a.variables, NEW pin
    PROVE  LET b == Adding(a, n, pin)
           IN  /\ VariableFrame(a, b, n) /\ Listed(b, S) /\ b.components = a.components
               /\ DOMAIN b.variables = DOMAIN a.variables \cup {n}
               /\ Notified(b.variables[n]) /\ b.graphs = a.graphs
               /\ b.order = Append(a.order, n)
  <1> DEFINE f == With(a.variables, n, NewVariable(pin))
             p == Append(a.order, n)
             b == [a EXCEPT !.variables = f, !.order = p]
  <1>1. /\ IsMap(f) /\ DOMAIN f = DOMAIN a.variables \cup {n} /\ f[n] = NewVariable(pin)
        /\ SameBut(a.variables, f, n)
    BY DEF With, IsMap, SameBut
  <1>2. IsVariable(NewVariable(pin)) /\ Notified(NewVariable(pin))
    BY DEF IsVariable, NewVariable, Notified
  <1> HIDE DEF f
  <1>3. Variables(f)
    BY <1>1, <1>2 DEF Variables, SameBut, Shaped
  <1>4. p \in Seq(S) /\ Distinct(p) /\ Elements(p) = Elements(a.order) \cup {n}
    BY Appended DEF Listed
  <1> HIDE DEF p
  <1>5. /\ Shaped(b) /\ b.variables = f /\ b.order = p /\ b.graphs = a.graphs
        /\ b.events = a.events /\ b.overrides = a.overrides /\ b.inputs = a.inputs
        /\ b.components = a.components /\ b.hasConstructor = a.hasConstructor
    BY <1>3 DEF Shaped
  <1> HIDE DEF b
  <1>6. VariableFrame(a, b, n)
    BY <1>1, <1>5 DEF VariableFrame
  <1>7. Listed(b, S)
    BY <1>1, <1>4, <1>5 DEF Listed
  <1> QED
    <2>1. Adding(a, n, pin) = b
      BY Zenon DEF Adding, b, f, p
    <2> QED
      BY <1>1, <1>2, <1>5, <1>6, <1>7, <2>1 DEF p

LEMMA ResetsStage ==
    ASSUME NEW w, NEW v, NEW n, NEW S, Stage(w, n, S), Resets(w, v, n), 
           n \in DOMAIN v.asset.variables => Notified(v.asset.variables[n])
    PROVE  Stage(v, n, S)
  <1>1. VariableFrame(asset, v.asset, n)
    BY VariableFrameSteps DEF Stage, Resets, Reset
  <1>2. IsJob(v.job) /\ IsWork(v)
    BY DEF Resets, IsWork
  <1>3. VariableJob(v.job, n)
    BY <1>2 DEF VariableJob, JobBut, Stage, Resets
  <1>4. Listed(v.asset, S)
    BY DEF Listed, Stage, Resets, Reset
  <1>5. OnRep(n) \in v.job.functions => OnRep(n) \in job.functions \cup DOMAIN v.asset.graphs
    BY DEF Stage, Resets, Reset, VariableFrame
  <1> QED
    BY <1>1, <1>2, <1>3, <1>4, <1>5 DEF Stage, Resets, Reset

\* A variable as its property has it.
MemberGiven(x, m, pin) ==
    x.pin = pin /\ x.condition = m.condition /\ x.flags = VariableFlags(m, pin)

LEMMA AddMemberVariableIs ==
    ASSUME Running, IsJob(job), Shaped(asset), NEW S, Listed(asset, S), NEW m, m.name \in S,
           OnRep(m.name) # NoName, NEW pin, ~IsComponent(pin),
           \A x \in DOMAIN asset.variables : Notified(asset.variables[x])
    PROVE  LET v == AddMemberVariable(m, pin)
               n == m.name
           IN  /\ Stage(v, n, S) /\ v.job.index = job.index
               /\ v.asset.order = IF n \in DOMAIN asset.variables \/ v.asset = asset THEN asset.order
                                  ELSE Append(asset.order, n)
               /\ ~playing => /\ n \in DOMAIN v.asset.variables /\ n \in v.job.variables
                              /\ MemberGiven(v.asset.variables[n], m, pin)
  <1> DEFINE n == m.name
             differs == n \notin DOMAIN asset.variables
             result == [asset EXCEPT !.variables = With(@, n, NewVariable(pin)),
                                     !.order = Append(@, n)]
             made == Checked(Work, differs, result)
             given == SetVariable(made, n, m, pin)
             asked == Asks(given, "variables", n)
             v == AddMemberVariable(m, pin)
  <1>1. v = IF made.stopped THEN made ELSE asked
    BY DEF AddMemberVariable
  <1> HIDE DEF v
  <1>2. /\ IsWork(Work) /\ Work.asset = asset /\ Work.job = job /\ Work.stopped = FALSE
    BY WorkIs DEF Grows
  <1>3. Changed(Work, made, differs, result)
    <2>1. differs \in BOOLEAN
      OBVIOUS
    <2> HIDE DEF differs, result
    <2> QED
      BY <1>2, <2>1, CheckedIs
  <1>4. differs => /\ VariableFrame(asset, result, n) /\ Listed(result, S)
                   /\ result.components = asset.components
                   /\ DOMAIN result.variables = DOMAIN asset.variables \cup {n}
                   /\ Notified(result.variables[n]) /\ result.graphs = asset.graphs
                   /\ result.order = Append(asset.order, n)
    <2>1. result = Adding(asset, n, pin)
      BY Zenon DEF Adding
    <2> HIDE DEF result
    <2> QED
      BY <2>1, VariableMade
  <1> HIDE DEF result, made
  <1>5. /\ IsWork(made) /\ SameJob(made.job, job)
        /\ made.asset = asset \/ (differs /\ made.asset = result)
        /\ ~made.stopped => made.asset = IF differs THEN result ELSE asset
        /\ ~playing => ~made.stopped
    <2> HIDE DEF Work
    <2> QED
      BY <1>2, <1>3 DEF Changed
  <1>6. VariableFrame(asset, asset, n)
    BY ResetKeeps DEF Reset
  <1>7. Stage(made, n, S) /\ made.job.index = job.index
    <2>1. IsJob(made.job)
      BY <1>5 DEF IsWork
    <2>2. VariableJob(made.job, n) /\ made.job.index = job.index /\ made.job.functions = job.functions
      BY <1>5, <2>1 DEF VariableJob, SameJob
    <2>3. /\ VariableFrame(asset, made.asset, n) /\ Listed(made.asset, S)
          /\ made.asset.components = asset.components
          /\ DOMAIN made.asset.variables \subseteq DOMAIN asset.variables \cup {n}
          /\ n \in DOMAIN made.asset.variables => Notified(made.asset.variables[n])
      BY <1>4, <1>5, <1>6
    <2> QED
      BY <1>5, <2>2, <2>3 DEF Stage
  <1>8. CASE made.stopped
    <2>1. v = made /\ playing
      BY <1>1, <1>5, <1>8
    <2> QED
      BY <1>4, <1>5, <1>7, <2>1 DEF v
  <1>9. CASE ~made.stopped
    <2>1. /\ n \in DOMAIN made.asset.variables /\ Notified(made.asset.variables[n])
          /\ IsWork(made) /\ Shaped(made.asset)
      <3>1. n \in DOMAIN made.asset.variables
        BY <1>4, <1>5, <1>9
      <3> QED
        BY <1>7, <3>1 DEF Stage, VariableFrame
    <2>2. /\ Resets(made, given, n) /\ Notified(given.asset.variables[n])
          /\ ~given.stopped => MemberGiven(given.asset.variables[n], m, pin)
      BY <2>1, SetVariableIs DEF MemberGiven
    <2> HIDE DEF given
    <2>3. Stage(given, n, S)
      BY <1>7, <2>2, ResetsStage
    <2>4. /\ IsWork(asked) /\ asked.asset = given.asset /\ asked.stopped = given.stopped
          /\ asked.job.todo = given.job.todo /\ asked.job.params = given.job.params
          /\ asked.job.constructs = given.job.constructs /\ asked.job.index = given.job.index
          /\ asked.job.variables = given.job.variables \cup (IF given.stopped THEN {} ELSE {n})
          /\ asked.job.functions = given.job.functions
          /\ asked.job.overrides = given.job.overrides
          /\ asked.job.components = given.job.components
      <3>1. IsWork(given)
        BY <2>3 DEF Stage
      <3> QED
        BY <3>1, AsksIs DEF Sets
    <2> HIDE DEF asked
    <2>5. v = asked
      BY <1>1, <1>9
    <2>6. IsJob(asked.job)
      BY <2>4 DEF IsWork
    <2>7. VariableJob(asked.job, n)
      BY <2>3, <2>4, <2>6 DEF VariableJob, Stage
    <2>8. Stage(asked, n, S)
      BY <2>3, <2>4, <2>7 DEF Stage
    <2>9. asked.job.index = job.index
      BY <1>7, <2>2, <2>4 DEF Resets, JobBut
    <2>10. /\ asked.asset.order = made.asset.order
           /\ DOMAIN asked.asset.variables = DOMAIN made.asset.variables
      BY <2>2, <2>4 DEF Resets, Reset
    <2>11. asked.asset.order = IF n \in DOMAIN asset.variables \/ asked.asset = asset
                               THEN asset.order ELSE Append(asset.order, n)
      <3>1. CASE differs
        <4>1. made.asset = result /\ n \notin DOMAIN asset.variables
          BY <1>5, <1>9, <3>1
        <4>2. n \in DOMAIN asked.asset.variables
          BY <2>1, <2>10
        <4>3. asked.asset # asset
          BY <4>1, <4>2
        <4> QED
          BY <1>4, <2>10, <3>1, <4>1, <4>3
      <3>2. CASE ~differs
        BY <1>5, <1>9, <2>10, <3>2
      <3> QED
        BY <3>1, <3>2
    <2>12. ASSUME ~playing
           PROVE  /\ n \in DOMAIN asked.asset.variables /\ n \in asked.job.variables
                  /\ MemberGiven(asked.asset.variables[n], m, pin)
      <3>1. ~given.stopped
        BY <2>3, <2>12 DEF Stage
      <3> QED
        BY <2>1, <2>2, <2>4, <2>10, <3>1
    <2> QED
      BY <2>5, <2>8, <2>9, <2>11, <2>12 DEF v
  <1> QED
    BY <1>8, <1>9

LEMMA MetaVariableIs ==
    ASSUME NEW w, IsWork(w), Shaped(w.asset), ~w.stopped, NEW m,
           m.name \in DOMAIN w.asset.variables, OnRep(m.name) # NoName,
           Notified(w.asset.variables[m.name])
    PROVE  LET v == ApplyToVariable(w, m)
               n == m.name
               old == w.asset.variables[n]
               new == v.asset.variables[n]
           IN  /\ IsWork(v) /\ SameJob(v.job, w.job) /\ ~v.stopped
               /\ Reset(w.asset, v.asset, n) /\ Notified(new)
               /\ new.pin = old.pin /\ new.condition = old.condition
               /\ new.flags = old.flags \cup m.meta.flags /\ new.keys = m.meta.keys
  <1> DEFINE n == m.name
             old == w.asset.variables[n]
             notify == IF "CPF_RepNotify" \notin m.meta.flags THEN old.notify
                       ELSE IF m.meta.callback = NoName THEN OnRep(n) ELSE m.meta.callback
             x == [old EXCEPT !.flags = @ \cup m.meta.flags, !.keys = m.meta.keys,
                              !.notify = notify]
             differs == x # old
             result == [w.asset EXCEPT !.variables[n] = x]
             w1 == Unchecked(w, differs, result)
             v == ApplyToVariable(w, m)
  <1>1. v = IF m.meta.there THEN CheckedAfter(w1) ELSE w1
    BY DEF ApplyToVariable
  <1> HIDE DEF v
  <1>2. IsVariable(old)
    BY DEF Shaped, Variables
  <1>3. "CPF_RepNotify" \in m.meta.flags => notify # NoName
    OBVIOUS
  <1>4. "CPF_RepNotify" \notin m.meta.flags => notify = old.notify
    OBVIOUS
  <1> HIDE DEF notify
  <1>5. /\ IsVariable(x) /\ x.pin = old.pin /\ x.condition = old.condition
        /\ x.flags = old.flags \cup m.meta.flags /\ x.keys = m.meta.keys /\ x.notify = notify
    BY <1>2 DEF IsVariable
  <1>6. Notified(x)
    BY <1>3, <1>4, <1>5 DEF Notified
  <1> HIDE DEF x
  <1>7. Reset(w.asset, result, n) /\ result.variables[n] = x
    BY <1>5, VariablePut
  <1> HIDE DEF result
  <1>8. Changed(w, w1, differs, result) /\ ~w1.stopped
    <2>1. differs \in BOOLEAN
      OBVIOUS
    <2> HIDE DEF differs
    <2> QED
      BY <2>1, UncheckedIs
  <1> HIDE DEF w1
  <1>9. /\ IsWork(w1) /\ SameJob(w1.job, w.job)
        /\ w1.asset = IF differs THEN result ELSE w.asset
    BY <1>8, Zenon DEF Changed
  <1>10. Reset(w.asset, w1.asset, n)
    BY <1>7, <1>9, ResetKeeps
  <1>11. w1.asset.variables[n] = x
    BY <1>7, <1>9
  <1>12. IsWork(v) /\ SameJob(v.job, w.job) /\ v.asset = w1.asset /\ ~v.stopped
    <2>1. CASE m.meta.there
      <3>1. v = CheckedAfter(w1)
        BY <1>1, <2>1
      <3>2. /\ IsWork(v) /\ SameJob(v.job, w1.job)
            /\ v.asset = w1.asset /\ v.stopped = w1.stopped
        BY <1>9, <3>1, CheckedAfterIs
      <3> QED
        BY <1>8, <1>9, <3>2 DEF SameJob
    <2>2. CASE ~m.meta.there
      BY <1>1, <1>8, <1>9, <2>2
    <2> QED
      BY <2>1, <2>2
  <1> QED
    BY <1>5, <1>6, <1>10, <1>11, <1>12 DEF v, old

VarFollows(m, x) ==
    /\ x.pin = Pin(m.type) /\ x.condition = m.condition /\ x.keys = m.meta.keys
    /\ x.flags = VariableFlags(m, Pin(m.type)) \cup m.meta.flags

\* What the work on the property m comes to.
PropertyWork(m) == AddVariable([AddMemberVariable(m, Pin(m.type)) EXCEPT !.stopped = FALSE], m)

LEMMA ValueWork ==
    ASSUME Running, IsJob(job), job.index \in Nat, Shaped(asset), NEW S, Listed(asset, S),
           NEW m, m.name \in S, OnRep(m.name) # NoName, IsValue(m),
           \A x \in DOMAIN asset.variables : Notified(asset.variables[x])
    PROVE  LET v == PropertyWork(m)
               n == m.name
           IN  /\ Stage(v, n, S) /\ v.job.index \in {job.index, job.index + 1}
               /\ ~playing =>
                     /\ n \in DOMAIN v.asset.variables /\ n \in v.job.variables
                     /\ VarFollows(m, v.asset.variables[n])
                     /\ v.job.index = job.index + 1
                     /\ (\A i \in 1 .. job.index : i \in DOMAIN asset.order /\ asset.order[i] # n) =>
                           /\ job.index + 1 \in DOMAIN v.asset.order
                           /\ v.asset.order[job.index + 1] = n
                           /\ \A i \in 1 .. job.index : v.asset.order[i] = asset.order[i]
  <1> DEFINE n == m.name
             pin == Pin(m.type)
             added == AddMemberVariable(m, pin)
             w == [added EXCEPT !.stopped = FALSE]
             placed == Place(w, n)
             given == ApplyToVariable(placed, m)
             v == PropertyWork(m)
  <1>1. v = IF n \notin DOMAIN w.asset.variables THEN w ELSE given
    BY DEF PropertyWork, AddVariable
  <1> HIDE DEF v
  <1>2. /\ Stage(added, n, S) /\ added.job.index = job.index
        /\ added.asset.order = IF n \in DOMAIN asset.variables \/ added.asset = asset
                               THEN asset.order ELSE Append(asset.order, n)
        /\ ~playing => /\ n \in DOMAIN added.asset.variables /\ n \in added.job.variables
                       /\ MemberGiven(added.asset.variables[n], m, pin)
    <2>1. ~IsComponent(pin)
      BY DEF IsValue
    <2> HIDE DEF pin
    <2> QED
      BY <2>1, AddMemberVariableIs
  <1> HIDE DEF added, pin
  <1>3. IsWork(w) /\ w.job = added.job /\ w.asset = added.asset /\ ~w.stopped
    BY <1>2, ResumedIs DEF Stage
  <1> HIDE DEF w
  <1>4. Stage(w, n, S)
    BY <1>2, <1>3 DEF Stage
  <1>5. CASE n \notin DOMAIN w.asset.variables
    BY <1>1, <1>2, <1>3, <1>4, <1>5 DEF v
  <1>6. CASE n \in DOMAIN w.asset.variables
    <2>1. /\ w.asset.order \in Seq(S) /\ Distinct(w.asset.order) /\ n \in Elements(w.asset.order)
          /\ w.job.index \in Nat /\ Shaped(w.asset)
      BY <1>2, <1>3, <1>4, <1>6 DEF Stage, Listed, VariableFrame
    <2>2. /\ IsWork(placed) /\ ~placed.stopped /\ Shaped(placed.asset)
          /\ placed.asset.graphs = w.asset.graphs /\ placed.asset.events = w.asset.events
          /\ placed.asset.overrides = w.asset.overrides /\ placed.asset.inputs = w.asset.inputs
          /\ placed.asset.variables = w.asset.variables
          /\ placed.asset.components = w.asset.components
          /\ placed.asset.hasConstructor = w.asset.hasConstructor
          /\ placed.asset.order \in Seq(S)
          /\ Moved(w.asset.order, placed.asset.order, n, w.job.index)
          /\ placed.job.index = w.job.index + 1
          /\ SameJob([placed.job EXCEPT !.index = w.job.index], w.job)
      BY <1>3, <2>1, PlaceIs
    <2> HIDE DEF placed
    <2>3. Stage(placed, n, S)
      <3>1. VariableFrame(asset, placed.asset, n)
        BY <1>4, <2>2 DEF Stage, VariableFrame
      <3>2. Listed(placed.asset, S)
        BY <1>4, <2>2 DEF Stage, Listed, Moved
      <3>3. IsJob(placed.job)
        BY <2>2 DEF IsWork
      <3>4. /\ placed.job.todo = w.job.todo /\ placed.job.params = w.job.params
            /\ placed.job.constructs = w.job.constructs /\ placed.job.functions = w.job.functions
            /\ placed.job.overrides = w.job.overrides /\ placed.job.variables = w.job.variables
            /\ placed.job.components = w.job.components
        BY <2>2, <3>3 DEF SameJob, IsJob
      <3>5. VariableJob(placed.job, n)
        BY <1>4, <3>3, <3>4 DEF Stage, VariableJob
      <3> QED
        BY <1>4, <2>2, <3>1, <3>2, <3>4, <3>5 DEF Stage
    <2>4. Notified(placed.asset.variables[n])
      BY <1>4, <1>6, <2>2 DEF Stage
    <2>5. /\ IsWork(given) /\ SameJob(given.job, placed.job) /\ ~given.stopped
          /\ Reset(placed.asset, given.asset, n) /\ Notified(given.asset.variables[n])
          /\ given.asset.variables[n].pin = placed.asset.variables[n].pin
          /\ given.asset.variables[n].condition = placed.asset.variables[n].condition
          /\ given.asset.variables[n].flags = placed.asset.variables[n].flags \cup m.meta.flags
          /\ given.asset.variables[n].keys = m.meta.keys
      BY <1>6, <2>2, <2>4, MetaVariableIs
    <2> HIDE DEF given
    <2>6. Resets(placed, given, n)
      <3>1. placed.job.functions = given.job.functions
        BY <2>5 DEF SameJob
      <3>2. JobBut(given.job, placed.job, n)
        BY <2>5 DEF SameJob, JobBut
      <3> QED
        BY <2>2, <2>5, <3>1, <3>2 DEF Resets
    <2>7. Stage(given, n, S)
      BY <2>3, <2>5, <2>6, ResetsStage
    <2>8. /\ v = given /\ given.asset.order = placed.asset.order
          /\ DOMAIN given.asset.variables = DOMAIN w.asset.variables
          /\ given.job.index = job.index + 1 /\ given.job.variables = w.job.variables
      <3>1. placed.job.variables = w.job.variables
        BY <2>2 DEF SameJob, IsWork, IsJob
      <3> QED
        BY <1>1, <1>2, <1>3, <1>6, <2>2, <2>5, <3>1 DEF Reset, SameJob
    <2>9. ASSUME ~playing PROVE VarFollows(m, given.asset.variables[n])
      BY <1>2, <1>3, <2>2, <2>5, <2>9 DEF VarFollows, MemberGiven, pin
    <2>10. ASSUME \A i \in 1 .. job.index : i \in DOMAIN asset.order /\ asset.order[i] # n
           PROVE  /\ job.index + 1 \in DOMAIN given.asset.order
                  /\ given.asset.order[job.index + 1] = n
                  /\ \A i \in 1 .. job.index : given.asset.order[i] = asset.order[i]
      <3>1. \A i \in 1 .. job.index : i \in DOMAIN w.asset.order /\ w.asset.order[i] = asset.order[i]
        <4>1. CASE n \in DOMAIN asset.variables \/ added.asset = asset
          BY <1>2, <1>3, <2>10, <4>1
        <4>2. CASE n \notin DOMAIN asset.variables /\ added.asset # asset
          <5>1. w.asset.order = Append(asset.order, n) /\ asset.order \in Seq(S)
            BY <1>2, <1>3, <4>2 DEF Listed
          <5>2. \A i \in DOMAIN asset.order :
                    i \in DOMAIN w.asset.order /\ w.asset.order[i] = asset.order[i]
            BY <5>1
          <5> QED
            BY <2>10, <5>2
        <4> QED
          BY <4>1, <4>2
      <3>2. /\ job.index + 1 \in DOMAIN placed.asset.order
            /\ placed.asset.order[job.index + 1] = n
            /\ \A i \in 1 .. job.index : placed.asset.order[i] = w.asset.order[i]
        BY <1>2, <1>3, <2>2, <2>10, <3>1 DEF Moved
      <3> QED
        BY <2>8, <3>1, <3>2
    <2>11. ~playing => n \in given.job.variables
      BY <1>2, <1>3, <2>8
    <2> QED
      BY <1>6, <2>7, <2>8, <2>9, <2>10, <2>11 DEF v
  <1> QED
    BY <1>5, <1>6

\* A component.
LEMMA ComponentWork ==
    ASSUME Running, IsJob(job), Shaped(asset), NEW m, ~IsValue(m),
           m.name \notin DOMAIN asset.variables
    PROVE  LET v == PropertyWork(m)
               n == m.name
               a == v.asset
           IN  /\ IsWork(v) /\ ~v.stopped /\ Shaped(a)
               /\ a.graphs = asset.graphs /\ a.events = asset.events
               /\ a.overrides = asset.overrides /\ a.inputs = asset.inputs
               /\ a.variables = asset.variables /\ a.order = asset.order
               /\ a.hasConstructor = asset.hasConstructor
               /\ DOMAIN a.components = DOMAIN asset.components \cup {n}
               /\ a.components[n] = Pin(m.type).object
               /\ \A x \in DOMAIN asset.components \ {n} : a.components[x] = asset.components[x]
               /\ SameJob([v.job EXCEPT !.components = job.components], job)
               /\ v.job.components = job.components \cup {n}
  <1> DEFINE n == m.name
             pin == Pin(m.type)
             differs == n \notin DOMAIN asset.components \/ asset.components[n] # pin.object
             f == With(asset.components, n, pin.object)
             result == [asset EXCEPT !.components = With(@, n, pin.object)]
             put == Unchecked(Work, differs, result)
             added == AddMemberVariable(m, pin)
             w == [added EXCEPT !.stopped = FALSE]
             v == PropertyWork(m)
  <1>0. v = IF n \notin DOMAIN w.asset.variables THEN w
            ELSE ApplyToVariable(Place(w, n), m)
    BY DEF PropertyWork, AddVariable
  <1> HIDE DEF v
  <1>1. added = Asks(put, "components", n)
    BY DEF AddMemberVariable, AddComponent, IsValue
  <1> HIDE DEF added
  <1>2. /\ IsWork(Work) /\ Work.asset = asset /\ Work.job = job /\ Work.stopped = FALSE
    BY WorkIs DEF Grows
  <1>3. Changed(Work, put, differs, result) /\ put.stopped = FALSE
    <2>1. differs \in BOOLEAN
      OBVIOUS
    <2> HIDE DEF differs, result, Work
    <2> QED
      BY <1>2, <2>1, UncheckedIs
  <1>4. IsMap(f) /\ DOMAIN f = DOMAIN asset.components \cup {n} /\ f[n] = pin.object
        /\ \A x \in DOMAIN asset.components \ {n} : f[x] = asset.components[x]
    BY DEF With, IsMap
  <1>5. result = [asset EXCEPT !.components = f]
    OBVIOUS
  <1> HIDE DEF f, pin, result
  <1>6. /\ Shaped(result) /\ result.components = f /\ result.variables = asset.variables
        /\ result.order = asset.order /\ result.graphs = asset.graphs
        /\ result.events = asset.events /\ result.overrides = asset.overrides
        /\ result.inputs = asset.inputs /\ result.hasConstructor = asset.hasConstructor
    BY <1>4, <1>5 DEF Shaped
  <1> HIDE DEF put
  <1>7. IsWork(put) /\ SameJob(put.job, job) /\ put.asset = IF differs THEN result ELSE asset
    <2> HIDE DEF differs, Work
    <2> QED
      BY <1>2, <1>3, Zenon DEF Changed
  <1>8. /\ Shaped(put.asset) /\ put.asset.variables = asset.variables
        /\ put.asset.order = asset.order /\ put.asset.graphs = asset.graphs
        /\ put.asset.events = asset.events /\ put.asset.overrides = asset.overrides
        /\ put.asset.inputs = asset.inputs /\ put.asset.hasConstructor = asset.hasConstructor
        /\ DOMAIN put.asset.components = DOMAIN asset.components \cup {n}
        /\ put.asset.components[n] = pin.object
        /\ \A x \in DOMAIN asset.components \ {n} :
              put.asset.components[x] = asset.components[x]
    <2>1. CASE differs
      <3>1. put.asset = result
        BY <1>7, <2>1
      <3> QED
        BY <1>4, <1>6, <3>1
    <2>2. CASE ~differs
      <3>1. put.asset = asset /\ n \in DOMAIN asset.components /\ asset.components[n] = pin.object
        BY <1>7, <2>2
      <3> QED
        BY <3>1
    <2> QED
      BY <2>1, <2>2
  <1>9. /\ IsWork(added) /\ added.asset = put.asset
        /\ added.job.todo = put.job.todo /\ added.job.params = put.job.params
        /\ added.job.constructs = put.job.constructs /\ added.job.index = put.job.index
        /\ added.job.components = put.job.components \cup {n}
        /\ added.job.variables = put.job.variables
        /\ added.job.functions = put.job.functions
        /\ added.job.overrides = put.job.overrides
    BY <1>1, <1>3, <1>7, AsksIs DEF Sets
  <1>10. IsWork(w) /\ w.job = added.job /\ w.asset = added.asset /\ ~w.stopped
    BY <1>9, ResumedIs
  <1> HIDE DEF w
  <1>11. v = w
    BY <1>0, <1>8, <1>9, <1>10
  <1>12. /\ SameJob([w.job EXCEPT !.components = job.components], job)
         /\ w.job.components = job.components \cup {n}
    BY <1>7, <1>9, <1>10 DEF IsWork, IsJob, SameJob
  <1> QED
    BY <1>8, <1>9, <1>10, <1>11, <1>12 DEF v, pin
=============================================================================
