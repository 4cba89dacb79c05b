------------------------- MODULE StyleSheets_proofs -------------------------
(***************************************************************************)
(* The styles of an environment, for every set of sheets, texts and        *)
(* importers and however often the sheets are written and required: the    *)
(* caches keep to their sorts, and what a script reads of a class is what  *)
(* the text that was parsed last says of it.                               *)
(*                                                                         *)
(* Two arguments carry the proofs.  The tree of a text has a node for each *)
(* place its rules speak of, which holds the last word of these rules on   *)
(* every property; that is an induction over the rules, made with a least  *)
(* counterexample (LeastNat).  And a parse replaces what it covers and     *)
(* leaves the rest of the cache as it was (AfterParse), so that CacheInv,  *)
(* which says of each text that is remembered where the cache still holds  *)
(* its tree, is inductive.                                                 *)
(***************************************************************************)
EXTENDS StyleSheets, WellFoundedInduction, TLAPS

-----------------------------------------------------------------------------
(* Numbers.  The least element of a set of them stands for an induction.    *)

LEMMA LeastNat ==
    ASSUME NEW T, T \subseteq Nat, T # {}
    PROVE  \E n \in T : \A m \in T : n <= m
<1> DEFINE R == {ss \in Nat \X Nat : ss[1] < ss[2]}
<1>1. IsWellFoundedOn(R, Nat)
  BY NatLessThanWellFounded DEF OpToRel
<1>2. \A m, n \in Nat : m < n => <<m, n>> \in R
  OBVIOUS
<1> HIDE DEF R
<1>3. PICK n \in T : \A m \in T : ~(<<m, n>> \in R)
  BY <1>1, WFMin, Zenon
<1>4. \A m \in T : m \in Nat /\ n \in Nat /\ ~(m < n)
  BY <1>2, <1>3
<1>5. \A m \in T : n <= m
  BY <1>4
<1> QED
  BY <1>3, <1>5

LEMMA GreatestNat ==
    ASSUME NEW T, NEW b \in Nat, T \subseteq 0 .. b, T # {}
    PROVE  \E n \in T : \A m \in T : n >= m
<1> DEFINE U == {k \in Nat : \A m \in T : m <= k}
<1>1. b \in U /\ U \subseteq Nat
  OBVIOUS
<1>2. PICK k \in U : \A j \in U : k <= j
  <2> HIDE DEF U
  <2> QED
    BY <1>1, LeastNat
<1>3. CASE k \in T
  BY <1>3
<1>4. CASE k \notin T
  <2>1. PICK m \in T : TRUE
    OBVIOUS
  <2>2. m \in Nat /\ m <= k /\ m # k /\ k \in Nat
    BY <1>4
  <2>3. k - 1 \in Nat /\ \A j \in T : j <= k - 1
    <3>1. \A j \in T : j \in Nat /\ j <= k /\ j # k
      BY <1>4
    <3> QED
      BY <2>2, <3>1
  <2>4. k - 1 \in U
    BY <2>3
  <2> QED
    BY <1>2, <2>2, <2>4
<1> QED
  BY <1>3, <1>4

LEMMA MaxIsGreatest ==
    ASSUME NEW T, NEW b \in Nat, T \subseteq 0 .. b, T # {}
    PROVE  Max(T) \in T /\ \A m \in T : Max(T) >= m
<1>1. \E n \in T : \A m \in T : n >= m
  BY GreatestNat
<1> QED
  BY <1>1, Zenon DEF Max

-----------------------------------------------------------------------------
(* The tree of a text.                                                      *)

\* g is the sequence of trees of the first m rules.
Grows(g, m, f, text) ==
    g = [n \in 0 .. m |->
            IF n = 0 THEN None
            ELSE MergeInto(g[n - 1], Address(f, RulesOf[text][n]),
                           RulesOf[text][n].declarations)]

LEMMA SomethingGrows ==
    ASSUME NEW f, NEW text, NEW n \in Nat
    PROVE  \E g : Grows(g, n, f, text)
<1> DEFINE Bad == {m \in Nat : \A g : ~Grows(g, m, f, text)}
<1>1. SUFFICES ASSUME Bad # {} PROVE FALSE
  OBVIOUS
<1>2. Bad \subseteq Nat
  OBVIOUS
<1>3. PICK m \in Bad : \A j \in Bad : m <= j
  <2> HIDE DEF Bad
  <2> QED
    BY <1>1, <1>2, LeastNat
<1>4. CASE m = 0
  <2> DEFINE g == [k \in 0 .. 0 |-> None]
  <2>1. Grows(g, 0, f, text)
    BY DEF Grows
  <2> QED
    BY <1>4, <2>1
<1>5. CASE m # 0
  <2>1. m \in Nat /\ m - 1 \in Nat /\ m - 1 \notin Bad
    BY <1>2, <1>3, <1>5
  <2>2. PICK g : Grows(g, m - 1, f, text)
    BY <2>1
  <2> DEFINE more == MergeInto(g[m - 1], Address(f, RulesOf[text][m]),
                               RulesOf[text][m].declarations)
             h == [k \in 0 .. m |-> IF k < m THEN g[k] ELSE more]
  <2>3. \A k \in 0 .. m - 1 : h[k] = g[k]
    BY <2>1
  <2>4. \A k \in 0 .. m - 1 :
            g[k] = IF k = 0 THEN None
                   ELSE MergeInto(g[k - 1], Address(f, RulesOf[text][k]),
                                  RulesOf[text][k].declarations)
    <3> HIDE DEF h
    <3> QED
      BY <2>2, Zenon DEF Grows
  <2>5. ASSUME NEW k \in 0 .. m
        PROVE  h[k] = IF k = 0 THEN None
                      ELSE MergeInto(h[k - 1], Address(f, RulesOf[text][k]),
                                     RulesOf[text][k].declarations)
    <3>1. CASE k = m
      <4>1. h[k] = more /\ h[k - 1] = g[m - 1] /\ k # 0
        BY <1>5, <2>1, <2>3, <3>1
      <4> QED
        BY <3>1, <4>1
    <3>2. CASE k # m
      <4>1. k \in 0 .. m - 1 /\ h[k] = g[k] /\ (k # 0 => h[k - 1] = g[k - 1])
        BY <2>1, <2>3, <3>2
      <4> HIDE DEF h
      <4> QED
        BY <2>4, <4>1
    <3> QED
      BY <3>1, <3>2
  <2>6. Grows(h, m, f, text)
    <3>1. h = [k \in 0 .. m |-> h[k]]
      OBVIOUS
    <3> HIDE DEF h
    <3> QED
      BY <2>5, <3>1, Zenon DEF Grows
  <2> QED
    BY <2>6
<1> QED
  BY <1>4, <1>5

LEMMA TreesGrow ==
    ASSUME NEW f, NEW text, Len(RulesOf[text]) \in Nat
    PROVE  /\ Trees(f, text)[0] = None
           /\ \A n \in 1 .. Len(RulesOf[text]) :
                 Trees(f, text)[n] =
                    MergeInto(Trees(f, text)[n - 1], Address(f, RulesOf[text][n]),
                              RulesOf[text][n].declarations)
<1> DEFINE m == Len(RulesOf[text])
<1>1. \E g : Grows(g, m, f, text)
  BY SomethingGrows
<1>2. Grows(Trees(f, text), m, f, text)
  BY <1>1, Zenon DEF Trees, Grows
<1> DEFINE T == Trees(f, text)
<1>3. \A n \in 0 .. m :
          T[n] = IF n = 0 THEN None
                 ELSE MergeInto(T[n - 1], Address(f, RulesOf[text][n]),
                                RulesOf[text][n].declarations)
  <2> HIDE DEF T
  <2>1. Grows(T, m, f, text)
    BY <1>2 DEF T
  <2> QED
    BY <2>1, Zenon DEF Grows
<1>4. 0 \in 0 .. m /\ \A n \in 1 .. m : n \in 0 .. m /\ n # 0
  OBVIOUS
<1> HIDE DEF T, m
<1>5. T[0] = None
  BY <1>3, <1>4
<1>6. \A n \in 1 .. m :
          T[n] = MergeInto(T[n - 1], Address(f, RulesOf[text][n]),
                           RulesOf[text][n].declarations)
  BY <1>3, <1>4, Zenon
<1> QED
  BY <1>5, <1>6 DEF T, m

\* The rules of a text as the assumption describes them.
LEMMA RulesTyped ==
    ASSUME NEW text \in Texts
    PROVE  /\ RulesOf[text] \in Seq(Rule)
           /\ Len(RulesOf[text]) \in Nat
           /\ DOMAIN RulesOf[text] = 1 .. Len(RulesOf[text])
           /\ \A i \in DOMAIN RulesOf[text] :
                 /\ RulesOf[text][i] \in Rule
                 /\ RulesOf[text][i].media \in Seq(Queries)
                 /\ RulesOf[text][i].selector \in Selectors
                 /\ RulesOf[text][i].pseudo \in Pseudos
                 /\ Declarations(text, i) \in Declaration
<1>1. RulesOf[text] \in Seq(Rule)
  BY SheetAssumption
<1>2. \A i \in DOMAIN RulesOf[text] : RulesOf[text][i] \in Rule
  BY <1>1
<1>3. \A r \in Rule : /\ r.media \in Seq(Queries) /\ r.selector \in Selectors
                      /\ r.pseudo \in Pseudos /\ r.declarations \in Declaration
  BY DEF Rule
<1> QED
  BY <1>1, <1>2, <1>3 DEF Declarations

LEMMA DeclarationTyped ==
    ASSUME NEW d \in Declaration
    PROVE  /\ d = [p \in DOMAIN d |-> d[p]]
           /\ \A p \in DOMAIN d : d[p] \in [value : Values, important : BOOLEAN]
<1>1. PICK P \in SUBSET Properties : d \in [P -> [value : Values, important : BOOLEAN]]
  BY DEF Declaration
<1> QED
  BY <1>1

\* The last word on a property is that of one of the rules that declare it.
LEMMA LastWordSaid ==
    ASSUME NEW text \in Texts, NEW is, is \subseteq DOMAIN RulesOf[text],
           NEW p \in Declared(text, is)
    PROVE  \E j \in is : /\ p \in DOMAIN Declarations(text, j)
                         /\ LastWord(text, is, p) = Declarations(text, j)[p]
                         /\ \A i \in is : p \in DOMAIN Declarations(text, i) => i <= j
<1> DEFINE those == {i \in is : p \in DOMAIN Declarations(text, i)}
<1>1. those \subseteq 0 .. Len(RulesOf[text]) /\ Len(RulesOf[text]) \in Nat
  BY RulesTyped
<1>2. those # {}
  BY DEF Declared
<1>3. Max(those) \in those /\ \A m \in those : Max(those) >= m
  <2> HIDE DEF those
  <2> QED
    BY <1>1, <1>2, MaxIsGreatest
<1>4. LastWord(text, is, p) = Declarations(text, Max(those))[p]
  BY DEF LastWord
<1>5. \A m \in those : m \in Nat
  BY <1>1
<1> HIDE DEF those
<1>6. \A m \in those : m <= Max(those)
  BY <1>3, <1>5
<1> QED
  BY <1>3, <1>4, <1>6 DEF those

\* What the rules at the places is say of a node.
Node(text, is) == [p \in Declared(text, is) |-> LastWord(text, is, p)]

\* One more rule overrides those before it.
LEMMA NodeGrows ==
    ASSUME NEW text \in Texts, NEW n \in DOMAIN RulesOf[text],
           NEW is, is \subseteq 1 .. (n - 1)
    PROVE  Node(text, is \cup {n}) =
              [p \in DOMAIN Declarations(text, n) \cup Declared(text, is) |->
                  IF p \in DOMAIN Declarations(text, n)
                  THEN Declarations(text, n)[p] ELSE LastWord(text, is, p)]
<1>0. n \in 1 .. Len(RulesOf[text]) /\ Len(RulesOf[text]) \in Nat /\ n \in Nat
  BY RulesTyped
<1>1. is \cup {n} \subseteq DOMAIN RulesOf[text]
  BY <1>0, RulesTyped
<1>2. Declared(text, is \cup {n}) = DOMAIN Declarations(text, n) \cup Declared(text, is)
  BY DEF Declared
<1>3. ASSUME NEW p \in DOMAIN Declarations(text, n)
      PROVE  LastWord(text, is \cup {n}, p) = Declarations(text, n)[p]
  <2>1. PICK j \in is \cup {n} :
            /\ LastWord(text, is \cup {n}, p) = Declarations(text, j)[p]
            /\ \A i \in is \cup {n} : p \in DOMAIN Declarations(text, i) => i <= j
    <3>1. p \in Declared(text, is \cup {n})
      BY <1>2
    <3> QED
      BY <1>1, <3>1, LastWordSaid
  <2>2. n <= j /\ j \in 1 .. n
    <3>1. n <= j
      BY <1>3, <2>1, Zenon
    <3>2. \A i \in is : i \in 1 .. n
      BY <1>0
    <3>3. n \in 1 .. n
      BY <1>0
    <3> QED
      BY <3>1, <3>2, <3>3
  <2>3. j = n
    BY <1>0, <2>2
  <2> QED
    BY <2>1, <2>3
<1>4. ASSUME NEW p \in Declared(text, is), p \notin DOMAIN Declarations(text, n)
      PROVE  LastWord(text, is \cup {n}, p) = LastWord(text, is, p)
  <2>1. {i \in is \cup {n} : p \in DOMAIN Declarations(text, i)}
            = {i \in is : p \in DOMAIN Declarations(text, i)}
    BY <1>4
  <2> QED
    BY <2>1, Zenon DEF LastWord
<1> QED
  BY <1>2, <1>3, <1>4 DEF Node

\* The rules among the first n that belong to the node a, and those nodes.
At(f, text, a, n) == {i \in 1 .. n : Address(f, RulesOf[text][i]) = a}
Addresses(f, text, n) == {Address(f, RulesOf[text][i]) : i \in 1 .. n}
TreeSays(f, text, n) ==
    Trees(f, text)[n] =
        [a \in Addresses(f, text, n) |-> Node(text, At(f, text, a, n))]

LEMMA TreeGrows ==
    ASSUME NEW f, NEW text \in Texts, NEW n \in DOMAIN RulesOf[text],
           TreeSays(f, text, n - 1)
    PROVE  TreeSays(f, text, n)
<1> DEFINE a0 == Address(f, RulesOf[text][n])
           d0 == Declarations(text, n)
           old == Trees(f, text)[n - 1]
<1>0. n \in 1 .. Len(RulesOf[text]) /\ Len(RulesOf[text]) \in Nat /\ n \in Nat
  BY RulesTyped
<1>1. Trees(f, text)[n] = MergeInto(old, a0, d0)
  BY <1>0, TreesGrow DEF Declarations
<1>2. 1 .. n = (1 .. (n - 1)) \cup {n} /\ n \notin 1 .. (n - 1)
  BY <1>0
<1>3. Addresses(f, text, n) = Addresses(f, text, n - 1) \cup {a0}
  BY <1>2 DEF Addresses
<1>4. /\ At(f, text, a0, n) = At(f, text, a0, n - 1) \cup {n}
      /\ \A a : a # a0 => At(f, text, a, n) = At(f, text, a, n - 1)
  BY <1>2 DEF At
<1>5. \A a : At(f, text, a, n - 1) \subseteq 1 .. (n - 1)
  BY DEF At
<1>6. /\ DOMAIN old = Addresses(f, text, n - 1)
      /\ \A a \in Addresses(f, text, n - 1) : old[a] = Node(text, At(f, text, a, n - 1))
  BY DEF TreeSays
<1>7. d0 = [p \in DOMAIN d0 |-> d0[p]]
  BY <1>0, RulesTyped, DeclarationTyped
<1> HIDE DEF a0, d0, old
<1>8. MergeInto(old, a0, d0)
          = [x \in Addresses(f, text, n) |-> MergeInto(old, a0, d0)[x]]
  BY <1>3, <1>6 DEF MergeInto
<1>9. ASSUME NEW x \in Addresses(f, text, n)
      PROVE  MergeInto(old, a0, d0)[x] = Node(text, At(f, text, x, n))
  <2>0. x \in DOMAIN old \cup {a0}
    BY <1>3, <1>6
  <2>1. CASE x # a0
    <3>1. MergeInto(old, a0, d0)[x] = old[x]
      BY <2>0, <2>1 DEF MergeInto
    <3> QED
      BY <1>4, <1>6, <2>0, <2>1, <3>1
  <2>2. CASE x = a0 /\ a0 \in DOMAIN old
    <3>1. old[a0] = Node(text, At(f, text, a0, n - 1))
      BY <1>6, <2>2
    <3>2. /\ DOMAIN old[a0] = Declared(text, At(f, text, a0, n - 1))
          /\ \A p \in DOMAIN old[a0] : old[a0][p] = LastWord(text, At(f, text, a0, n - 1), p)
      BY <3>1 DEF Node
    <3>3. MergeInto(old, a0, d0)[x] =
             [p \in DOMAIN d0 \cup DOMAIN old[a0] |->
                 IF p \in DOMAIN d0 THEN d0[p] ELSE old[a0][p]]
      BY <2>0, <2>2 DEF MergeInto
    <3>4. MergeInto(old, a0, d0)[x] =
             [p \in DOMAIN d0 \cup Declared(text, At(f, text, a0, n - 1)) |->
                 IF p \in DOMAIN d0 THEN d0[p]
                 ELSE LastWord(text, At(f, text, a0, n - 1), p)]
      BY <3>2, <3>3
    <3>5. Node(text, At(f, text, a0, n - 1) \cup {n}) =
             [p \in DOMAIN d0 \cup Declared(text, At(f, text, a0, n - 1)) |->
                 IF p \in DOMAIN d0 THEN d0[p]
                 ELSE LastWord(text, At(f, text, a0, n - 1), p)]
      BY <1>5, NodeGrows DEF d0
    <3> QED
      BY <1>4, <2>2, <3>4, <3>5
  <2>3. CASE x = a0 /\ a0 \notin DOMAIN old
    <3>1. At(f, text, a0, n - 1) = {}
      BY <1>6, <2>3 DEF At, Addresses
    <3>2. Declared(text, {}) = {}
      BY DEF Declared
    <3>3. Node(text, {} \cup {n}) =
             [p \in DOMAIN d0 \cup Declared(text, {}) |->
                 IF p \in DOMAIN d0 THEN d0[p] ELSE LastWord(text, {}, p)]
      BY NodeGrows DEF d0
    <3>4. Node(text, {n}) = [p \in DOMAIN d0 |-> d0[p]]
      BY <3>2, <3>3
    <3>5. MergeInto(old, a0, d0)[x] = d0
      BY <2>0, <2>3 DEF MergeInto
    <3> QED
      BY <1>4, <1>7, <2>3, <3>1, <3>4, <3>5
  <2> QED
    BY <2>1, <2>2, <2>3
<1> QED
  BY <1>1, <1>8, <1>9, Zenon DEF TreeSays

LEMMA TreesSay ==
    ASSUME NEW f, NEW text \in Texts
    PROVE  \A n \in 0 .. Len(RulesOf[text]) : TreeSays(f, text, n)
<1> DEFINE Bad == {n \in 0 .. Len(RulesOf[text]) : ~TreeSays(f, text, n)}
<1>0. Len(RulesOf[text]) \in Nat /\ DOMAIN RulesOf[text] = 1 .. Len(RulesOf[text])
  BY RulesTyped
<1>1. SUFFICES ASSUME Bad # {} PROVE FALSE
  OBVIOUS
<1>2. Bad \subseteq Nat
  BY <1>0
<1>3. PICK n \in Bad : \A j \in Bad : n <= j
  <2> HIDE DEF Bad
  <2> QED
    BY <1>1, <1>2, LeastNat
<1>4. CASE n = 0
  <2>1. Addresses(f, text, 0) = {}
    BY DEF Addresses
  <2>2. Trees(f, text)[0] = None
    BY <1>0, TreesGrow
  <2>3. TreeSays(f, text, 0)
    BY <2>1, <2>2 DEF TreeSays, None
  <2> QED
    BY <1>4, <2>3
<1>5. CASE n # 0
  <2>1. n \in DOMAIN RulesOf[text] /\ n - 1 \in 0 .. Len(RulesOf[text]) /\ ~(n <= n - 1)
    BY <1>0, <1>5
  <2>2. n - 1 \notin Bad
    BY <1>3, <2>1
  <2>3. TreeSays(f, text, n - 1)
    BY <2>1, <2>2
  <2>4. TreeSays(f, text, n)
    BY <2>1, <2>3, TreeGrows
  <2> QED
    BY <2>4
<1> QED
  BY <1>4, <1>5

-----------------------------------------------------------------------------
(* What a sheet says and what is found.                                     *)

\* The address of a selector of sheet f, with a pseudo-class, in some blocks.
Place(f, s, pseudo, media) ==
    Address(f, [media |-> media, selector |-> s, pseudo |-> pseudo])

LEMMA PlaceIs ==
    ASSUME NEW f, NEW s, NEW pseudo, NEW media
    PROVE  Place(f, s, pseudo, media) =
              [media |-> media, sheet |-> f, selector |-> s, pseudo |-> pseudo]
  BY DEF Place, Address

LEMMA AddressIsPlace ==
    ASSUME NEW f, NEW r
    PROVE  Address(f, r) = Place(f, r.selector, r.pseudo, r.media)
  BY DEF Place, Address

\* The tree of a text has a node for every rule, and it says what the rules say.
LEMMA ParseSays ==
    ASSUME NEW f, NEW text \in Texts, NEW s, NEW pseudo, NEW media
    PROVE  /\ Place(f, s, pseudo, media) \in DOMAIN Parse(f, text)
                  <=> Rules(text, s, pseudo, media) # {}
           /\ Rules(text, s, pseudo, media) # {} =>
                  Parse(f, text)[Place(f, s, pseudo, media)]
                      = Node(text, Rules(text, s, pseudo, media))
<1> DEFINE m == Len(RulesOf[text])
           a == Place(f, s, pseudo, media)
<1>0. m \in Nat /\ DOMAIN RulesOf[text] = 1 .. m
  BY RulesTyped
<1>1. TreeSays(f, text, m)
  BY <1>0, TreesSay
<1>2. \A i \in 1 .. m :
          Address(f, RulesOf[text][i]) = a
              <=> /\ RulesOf[text][i].media = media /\ RulesOf[text][i].selector = s
                  /\ RulesOf[text][i].pseudo = pseudo
  BY DEF Address, Place
<1>3. At(f, text, a, m) = Rules(text, s, pseudo, media)
  BY <1>0, <1>2 DEF At, Rules
<1>4. a \in Addresses(f, text, m) <=> At(f, text, a, m) # {}
  BY DEF Addresses, At
<1>5. Parse(f, text) = [x \in Addresses(f, text, m) |-> Node(text, At(f, text, x, m))]
  BY <1>1 DEF TreeSays, Parse
<1> QED
  BY <1>3, <1>4, <1>5

\* Every node of the tree is at such an address.
LEMMA ParsePlaces ==
    ASSUME NEW f, NEW text \in Texts, NEW a \in DOMAIN Parse(f, text)
    PROVE  \E i \in DOMAIN RulesOf[text] :
              a = Place(f, RulesOf[text][i].selector, RulesOf[text][i].pseudo,
                        RulesOf[text][i].media)
<1> DEFINE m == Len(RulesOf[text])
<1>0. m \in Nat /\ DOMAIN RulesOf[text] = 1 .. m
  BY RulesTyped
<1>1. TreeSays(f, text, m)
  BY <1>0, TreesSay
<1>2. DOMAIN Parse(f, text) = Addresses(f, text, m)
  BY <1>1 DEF TreeSays, Parse
<1> QED
  BY <1>0, <1>2, AddressIsPlace DEF Addresses

\* The cache has of a selector, in some blocks, what the text of its sheet has.
AsParsed(f, s, media, text) ==
    \A pseudo \in Pseudos :
        LET a == Place(f, s, pseudo, media)
        IN  /\ a \in DOMAIN styles <=> Rules(text, s, pseudo, media) # {}
            /\ Rules(text, s, pseudo, media) # {} =>
                  styles[a] = Node(text, Rules(text, s, pseudo, media))

LEMMA RulesAreRules ==
    ASSUME NEW text, NEW s, NEW pseudo, NEW media
    PROVE  Rules(text, s, pseudo, media) \subseteq DOMAIN RulesOf[text]
  BY DEF Rules

\* What is declared is a value, important or not.
LEMMA LastWordTyped ==
    ASSUME NEW text \in Texts, NEW is, is \subseteq DOMAIN RulesOf[text],
           NEW p \in Declared(text, is)
    PROVE  LastWord(text, is, p).important \in BOOLEAN
<1>1. PICK j \in is : /\ p \in DOMAIN Declarations(text, j)
                      /\ LastWord(text, is, p) = Declarations(text, j)[p]
  BY LastWordSaid
<1>2. Declarations(text, j)[p] \in [value : Values, important : BOOLEAN]
  BY <1>1, RulesTyped, DeclarationTyped
<1> QED
  BY <1>1, <1>2

\* Then the style that is found is the one the text says.
LEMMA FoundIsSaid ==
    ASSUME NEW f, NEW s, NEW media, NEW text \in Texts, AsParsed(f, s, media, text),
           NEW pseudo \in Pseudos
    PROVE  GetStyle(f, s, pseudo, media) = Says(text, s, pseudo, media)
<1> DEFINE own == Rules(text, s, "base", media)
           over == Rules(text, s, pseudo, media)
           a == Place(f, s, "base", media)
           b == Place(f, s, pseudo, media)
           insists(p) == /\ p \in Declared(text, own) \cap Declared(text, over)
                         /\ LastWord(text, own, p).important
                         /\ ~LastWord(text, over, p).important
           said == [p \in Declared(text, own \cup over) |->
                      IF p \in Declared(text, over) /\ ~insists(p)
                      THEN LastWord(text, over, p) ELSE LastWord(text, own, p)]
<1>0. "base" \in Pseudos
  BY SheetAssumption
<1>1. Says(text, s, pseudo, media) = IF own = {} \/ over = {} THEN {} ELSE {said}
  BY Zenon DEF Says
<1>2. GetStyle(f, s, pseudo, media) =
          IF pseudo = "base" THEN {styles[x] : x \in {a} \cap DOMAIN styles}
          ELSE IF {a, b} \subseteq DOMAIN styles THEN {Cascade(styles[a], styles[b])} ELSE {}
  BY Zenon DEF GetStyle, Place
<1>3. /\ a \in DOMAIN styles <=> own # {}
      /\ own # {} => styles[a] = Node(text, own)
      /\ b \in DOMAIN styles <=> over # {}
      /\ over # {} => styles[b] = Node(text, over)
  BY <1>0, Zenon DEF AsParsed
<1>4. own \subseteq DOMAIN RulesOf[text] /\ over \subseteq DOMAIN RulesOf[text]
  BY RulesAreRules
<1>5. Declared(text, own \cup over) = Declared(text, own) \cup Declared(text, over)
  BY DEF Declared
<1>6. /\ \A p \in Declared(text, own) : LastWord(text, own, p).important \in BOOLEAN
      /\ \A p \in Declared(text, over) : LastWord(text, over, p).important \in BOOLEAN
  BY <1>4, LastWordTyped
<1>7. CASE pseudo = "base"
  <2>1. own = over /\ a = b
    BY <1>7
  <2>2. said = Node(text, own)
    <3>1. \A p \in Declared(text, own) : ~insists(p)
      BY <1>6, <2>1
    <3> QED
      BY <1>5, <2>1, <3>1 DEF Node
  <2> HIDE DEF own, over, a, b, said
  <2> QED
    BY <1>1, <1>2, <1>3, <1>7, <2>1, <2>2
<1>8. CASE pseudo # "base"
  <2>1. Cascade(Node(text, own), Node(text, over)) = said
    <3>1. DOMAIN Node(text, own) = Declared(text, own) /\ DOMAIN Node(text, over) = Declared(text, over)
      BY DEF Node
    <3>2. \A p \in Declared(text, own) : Node(text, own)[p] = LastWord(text, own, p)
      BY DEF Node
    <3>3. \A p \in Declared(text, over) : Node(text, over)[p] = LastWord(text, over, p)
      BY DEF Node
    <3> HIDE DEF own, over
    <3>4. Cascade(Node(text, own), Node(text, over)) =
            [p \in Declared(text, own) \cup Declared(text, over) |->
                IF p \in Declared(text, over)
                   /\ (\/ LastWord(text, over, p).important
                       \/ p \notin Declared(text, own) \/ ~LastWord(text, own, p).important)
                THEN LastWord(text, over, p) ELSE LastWord(text, own, p)]
      BY <3>1, <3>2, <3>3 DEF Cascade
    <3> QED
      BY <1>5, <1>6, <3>4
  <2> HIDE DEF own, over, a, b, said
  <2> QED
    BY <1>1, <1>2, <1>3, <1>8, <2>1
<1> QED
  BY <1>7, <1>8

-----------------------------------------------------------------------------
(* What parsing leaves of the cache.                                        *)

LEMMA Tops ==
    ASSUME NEW f, NEW s, NEW pseudo, NEW media
    PROVE  Top(Place(f, s, pseudo, media)) = IF media = <<>> THEN <<f, s>> ELSE <<Head(media)>>
  BY PlaceIs DEF Top

\* Some node of the text takes the place in which a lies.
Covers(f, text, a) ==
    \E i \in DOMAIN RulesOf[text] : Top(Address(f, RulesOf[text][i])) = Top(a)

LEMMA AfterParse ==
    ASSUME NEW f, NEW text \in Texts, NEW a, NEW new, new = Assign(styles, Parse(f, text))
    PROVE  /\ Covers(f, text, a) =>
                 /\ a \in DOMAIN new <=> a \in DOMAIN Parse(f, text)
                 /\ a \in DOMAIN Parse(f, text) => new[a] = Parse(f, text)[a]
           /\ ~Covers(f, text, a) =>
                 /\ a \in DOMAIN new <=> a \in DOMAIN styles
                 /\ a \in DOMAIN styles => new[a] = styles[a]
<1> DEFINE tree == Parse(f, text)
           kept == {x \in DOMAIN styles : \A b \in DOMAIN tree : Top(b) # Top(x)}
<1>1. /\ DOMAIN new = kept \cup DOMAIN tree
      /\ \A x \in kept \cup DOMAIN tree :
            new[x] = IF x \in DOMAIN tree THEN tree[x] ELSE styles[x]
  BY DEF Assign
<1>2. \A b \in DOMAIN tree : \E i \in DOMAIN RulesOf[text] : b = Address(f, RulesOf[text][i])
  BY ParsePlaces, AddressIsPlace
<1>3. ASSUME NEW i \in DOMAIN RulesOf[text]
      PROVE  Address(f, RulesOf[text][i]) \in DOMAIN tree
  <2> DEFINE r == RulesOf[text][i]
  <2>1. i \in Rules(text, r.selector, r.pseudo, r.media)
    BY DEF Rules
  <2> HIDE DEF r
  <2>2. Place(f, r.selector, r.pseudo, r.media) \in DOMAIN Parse(f, text)
    BY <2>1, ParseSays
  <2> QED
    BY <2>2, AddressIsPlace DEF r
<1> HIDE DEF tree
<1>4. Covers(f, text, a) <=> \E b \in DOMAIN tree : Top(b) = Top(a)
  BY <1>2, <1>3 DEF Covers
<1> QED
  BY <1>1, <1>4, Zenon DEF tree

\* What is covered is as the text says, ...
LEMMA CoveredIsParsed ==
    ASSUME NEW f, NEW text \in Texts, NEW s, NEW media,
           styles' = Assign(styles, Parse(f, text)),
           \A pseudo \in Pseudos : Covers(f, text, Place(f, s, pseudo, media))
    PROVE  AsParsed(f, s, media, text)'
<1> SUFFICES ASSUME NEW pseudo \in Pseudos
             PROVE  LET a == Place(f, s, pseudo, media)
                    IN  /\ a \in DOMAIN styles' <=> Rules(text, s, pseudo, media) # {}
                        /\ Rules(text, s, pseudo, media) # {} =>
                              styles'[a] = Node(text, Rules(text, s, pseudo, media))
  BY Zenon DEF AsParsed
<1> DEFINE a == Place(f, s, pseudo, media)
<1>1. /\ a \in DOMAIN styles' <=> a \in DOMAIN Parse(f, text)
      /\ a \in DOMAIN Parse(f, text) => styles'[a] = Parse(f, text)[a]
  BY AfterParse, Zenon
<1>2. /\ a \in DOMAIN Parse(f, text) <=> Rules(text, s, pseudo, media) # {}
      /\ Rules(text, s, pseudo, media) # {} =>
            Parse(f, text)[a] = Node(text, Rules(text, s, pseudo, media))
  BY ParseSays
<1> HIDE DEF a
<1> QED
  BY <1>1, <1>2 DEF a

\* ... and what is not remains.
LEMMA OthersRemain ==
    ASSUME NEW f, NEW text \in Texts, NEW g, NEW s, NEW media, NEW was,
           styles' = Assign(styles, Parse(f, text)),
           \A pseudo \in Pseudos : ~Covers(f, text, Place(g, s, pseudo, media)),
           AsParsed(g, s, media, was)
    PROVE  AsParsed(g, s, media, was)'
<1> SUFFICES ASSUME NEW pseudo \in Pseudos
             PROVE  LET a == Place(g, s, pseudo, media)
                    IN  /\ a \in DOMAIN styles' <=> Rules(was, s, pseudo, media) # {}
                        /\ Rules(was, s, pseudo, media) # {} =>
                              styles'[a] = Node(was, Rules(was, s, pseudo, media))
  BY Zenon DEF AsParsed
<1> DEFINE a == Place(g, s, pseudo, media)
<1>1. /\ a \in DOMAIN styles' <=> a \in DOMAIN styles
      /\ a \in DOMAIN styles => styles'[a] = styles[a]
  BY AfterParse, Zenon
<1>2. /\ a \in DOMAIN styles <=> Rules(was, s, pseudo, media) # {}
      /\ Rules(was, s, pseudo, media) # {} =>
            styles[a] = Node(was, Rules(was, s, pseudo, media))
  BY Zenon DEF AsParsed
<1> QED
  BY <1>1, <1>2, Zenon

\* A selector outside media queries is covered by a text of its own sheet that has
\* a rule for it there, and by no other text.
LEMMA PlainCovers ==
    ASSUME NEW f, NEW text \in Texts, NEW g, NEW s, NEW pseudo
    PROVE  Covers(f, text, Place(g, s, pseudo, <<>>)) <=> f = g /\ Outside(text, s)
<1>1. \A i \in DOMAIN RulesOf[text] :
          Top(Address(f, RulesOf[text][i])) =
              IF RulesOf[text][i].media = <<>> THEN <<f, RulesOf[text][i].selector>>
              ELSE <<Head(RulesOf[text][i].media)>>
  BY Tops, AddressIsPlace
<1>2. Top(Place(g, s, pseudo, <<>>)) = <<g, s>>
  BY Tops
<1>3. \A x : <<x>> # <<g, s>>
  OBVIOUS
<1>4. \A y : <<f, y>> = <<g, s>> <=> f = g /\ y = s
  OBVIOUS
<1>7. ASSUME NEW i \in DOMAIN RulesOf[text]
      PROVE  Top(Address(f, RulesOf[text][i])) = Top(Place(g, s, pseudo, <<>>))
                <=> RulesOf[text][i].media = <<>> /\ f = g /\ RulesOf[text][i].selector = s
  <2>1. CASE RulesOf[text][i].media = <<>>
    <3>1. Top(Address(f, RulesOf[text][i])) = <<f, RulesOf[text][i].selector>>
      BY <1>1, <2>1
    <3> QED
      BY <1>2, <1>4, <2>1, <3>1
  <2>2. CASE RulesOf[text][i].media # <<>>
    <3>1. Top(Address(f, RulesOf[text][i])) = <<Head(RulesOf[text][i].media)>>
      BY <1>1, <2>2
    <3> QED
      BY <1>2, <1>3, <2>2, <3>1
  <2> QED
    BY <2>1, <2>2
<1>5. Covers(f, text, Place(g, s, pseudo, <<>>)) <=>
          \E i \in DOMAIN RulesOf[text] :
              RulesOf[text][i].media = <<>> /\ f = g /\ RulesOf[text][i].selector = s
  BY <1>7, Zenon DEF Covers
<1>6. Outside(text, s) <=>
          \E i \in DOMAIN RulesOf[text] :
              RulesOf[text][i].media = <<>> /\ RulesOf[text][i].selector = s
  <2>1. \A i \in DOMAIN RulesOf[text] : RulesOf[text][i].pseudo \in Pseudos
    BY RulesTyped
  <2> QED
    BY <2>1 DEF Outside, Rules
<1> QED
  BY <1>5, <1>6

\* What lies in a media query is covered by every text that has the query.
LEMMA QueryCovers ==
    ASSUME NEW f, NEW text \in Texts, NEW g, NEW s, NEW pseudo, NEW q
    PROVE  Covers(f, text, Place(g, s, pseudo, <<q>>)) <=> q \in QueriesOf(text)
<1>1. \A i \in DOMAIN RulesOf[text] :
          Top(Address(f, RulesOf[text][i])) =
              IF RulesOf[text][i].media = <<>> THEN <<f, RulesOf[text][i].selector>>
              ELSE <<Head(RulesOf[text][i].media)>>
  BY Tops, AddressIsPlace
<1>2. Top(Place(g, s, pseudo, <<q>>)) = <<q>>
  <2>1. <<q>> # <<>> /\ Head(<<q>>) = q
    OBVIOUS
  <2> QED
    BY <2>1, Tops
<1>3. \A y : <<f, y>> # <<q>>
  OBVIOUS
<1>4. \A x : <<x>> = <<q>> <=> x = q
  OBVIOUS
<1>7. ASSUME NEW i \in DOMAIN RulesOf[text]
      PROVE  Top(Address(f, RulesOf[text][i])) = Top(Place(g, s, pseudo, <<q>>))
                <=> RulesOf[text][i].media # <<>> /\ Head(RulesOf[text][i].media) = q
  <2>1. CASE RulesOf[text][i].media = <<>>
    <3>1. Top(Address(f, RulesOf[text][i])) = <<f, RulesOf[text][i].selector>>
      BY <1>1, <2>1
    <3> QED
      BY <1>2, <1>3, <2>1, <3>1
  <2>2. CASE RulesOf[text][i].media # <<>>
    <3>1. Top(Address(f, RulesOf[text][i])) = <<Head(RulesOf[text][i].media)>>
      BY <1>1, <2>2
    <3> QED
      BY <1>2, <1>4, <2>2, <3>1
  <2> QED
    BY <2>1, <2>2
<1>5. Covers(f, text, Place(g, s, pseudo, <<q>>)) <=>
          \E i \in DOMAIN RulesOf[text] :
              RulesOf[text][i].media # <<>> /\ Head(RulesOf[text][i].media) = q
  BY <1>7, Zenon DEF Covers
<1>6. q \in QueriesOf(text) <=>
          \E i \in DOMAIN RulesOf[text] :
              RulesOf[text][i].media # <<>> /\ Head(RulesOf[text][i].media) = q
  BY DEF QueriesOf
<1> QED
  BY <1>5, <1>6

-----------------------------------------------------------------------------
(* Type correctness.                                                        *)

\* A step parses a sheet, or leaves everything that parsing writes alone.
LEMMA NextParses ==
    ASSUME [Next]_vars
    PROVE  \/ UNCHANGED parsed
           \/ \E i \in Importers, f \in Sheets : RequireParsed(i, f)
<1>1. \A i \in Importers : Imports[i] \subseteq Sheets
  BY SheetAssumption
<1>2. CASE \E i \in Importers : Execute(i) \/ \E f \in Imports[i] : Require(i, f)
  BY <1>1, <1>2 DEF Execute, Require, RequireMissing, RequireShared, RequireFailed
<1>3. CASE \E f \in Sheets : ForceReload(f) \/ \E t \in Texts \cup {Absent} : Edit(f, t)
  BY <1>3 DEF ForceReload, Edit
<1>4. CASE UNCHANGED vars
  BY <1>4 DEF vars, parsed
<1> QED
  BY <1>2, <1>3, <1>4 DEF Next

\* What is parsed is there, and was read as a text.
LEMMA ParsedIsText ==
    ASSUME TypeOK, NEW i \in Importers, NEW f \in Sheets, RequireParsed(i, f)
    PROVE  /\ disk[f] \in Texts
           /\ ParseCssStyle(f, disk[f]) /\ Remember(f, disk[f])
  BY DEF RequireParsed, MustParse, TypeOK

LEMMA SetIs ==
    ASSUME NEW map, NEW keys, NEW v
    PROVE  /\ DOMAIN Set(map, keys, v) = DOMAIN map \cup keys
           /\ \A k \in keys : Set(map, keys, v)[k] = v
           /\ \A k \in DOMAIN map \ keys : Set(map, keys, v)[k] = map[k]
  BY DEF Set

LEMMA SelectorsTyped ==
    ASSUME NEW text \in Texts
    PROVE  SelectorsOf(text) \subseteq Selectors
  BY RulesTyped DEF SelectorsOf

\* A module is in one of the states, also after another has replaced it.
LEMMA HeldType ==
    ASSUME held \in [Importers -> [Sheets -> HeldStates]], NEW i \in Importers, NEW f \in Sheets
    PROVE  /\ \A x \in HeldStates : [held EXCEPT ![i][f] = x] \in [Importers -> [Sheets -> HeldStates]]
           /\ \A x \in HeldStates : Replaced(i, f, x) \in [Importers -> [Sheets -> HeldStates]]
           /\ [held EXCEPT ![i] = [g \in Sheets |-> "none"]] \in [Importers -> [Sheets -> HeldStates]]
           /\ [j \in Importers |-> [held[j] EXCEPT ![f] = IF @ = "fresh" THEN "stale" ELSE @]]
                  \in [Importers -> [Sheets -> HeldStates]]
<1>0. {"none", "fresh", "stale", "old"} = HeldStates
  BY DEF HeldStates
<1>1. \A j \in Importers : \A x \in HeldStates : [held[j] EXCEPT ![f] = x] \in [Sheets -> HeldStates]
  OBVIOUS
<1>2. \A j \in Importers : held[j][f] \in HeldStates
  OBVIOUS
<1>3. ASSUME NEW x \in HeldStates
      PROVE  [held EXCEPT ![i][f] = x] \in [Importers -> [Sheets -> HeldStates]]
  BY <1>1
<1>4. ASSUME NEW x \in HeldStates
      PROVE  Replaced(i, f, x) \in [Importers -> [Sheets -> HeldStates]]
  <2>1. \A j \in Importers :
            [held[j] EXCEPT ![f] = IF j = i THEN x ELSE IF @ = "fresh" THEN "old" ELSE @]
                \in [Sheets -> HeldStates]
    <3> TAKE j \in Importers
    <3>1. (IF j = i THEN x ELSE IF held[j][f] = "fresh" THEN "old" ELSE held[j][f]) \in HeldStates
      BY <1>0, <1>2
    <3> QED
      BY <1>1, <3>1
  <2> QED
    BY <2>1, Zenon DEF Replaced
<1>5. [held EXCEPT ![i] = [g \in Sheets |-> "none"]] \in [Importers -> [Sheets -> HeldStates]]
  BY <1>0
<1>6. \A j \in Importers :
          [held[j] EXCEPT ![f] = IF @ = "fresh" THEN "stale" ELSE @] \in [Sheets -> HeldStates]
  <2> TAKE j \in Importers
  <2>1. (IF held[j][f] = "fresh" THEN "stale" ELSE held[j][f]) \in HeldStates
    BY <1>0, <1>2
  <2> QED
    BY <1>1, <2>1
<1> QED
  BY <1>3, <1>4, <1>5, <1>6

LEMMA CacheTypes ==
    ASSUME TypeOK, [Next]_vars
    PROVE  /\ disk' \in [Sheets -> Texts \cup {Absent}]
           /\ held' \in [Importers -> [Sheets -> HeldStates]]
           /\ module' \in [Sheets -> {"none", "fresh", "flagged"}]
           /\ edits' \in 0 .. MaxEdits
<1>0. /\ disk \in [Sheets -> Texts \cup {Absent}]
      /\ held \in [Importers -> [Sheets -> HeldStates]]
      /\ module \in [Sheets -> {"none", "fresh", "flagged"}]
      /\ edits \in 0 .. MaxEdits
      /\ {"none", "fresh", "stale", "old"} = HeldStates
  BY DEF TypeOK, HeldStates
<1>1. ASSUME NEW i \in Importers, NEW f \in Sheets, Require(i, f)
      PROVE  /\ held' \in [Importers -> [Sheets -> HeldStates]]
             /\ module' \in [Sheets -> {"none", "fresh", "flagged"}]
             /\ UNCHANGED <<disk, edits>>
  <2>1. CASE RequireMissing(i, f)
    BY <1>0, <2>1, HeldType DEF RequireMissing
  <2>2. CASE RequireShared(i, f)
    BY <1>0, <2>2, HeldType DEF RequireShared
  <2>3. CASE RequireParsed(i, f)
    BY <1>0, <2>3, HeldType DEF RequireParsed
  <2>4. CASE RequireFailed(i, f)
    BY <1>0, <2>4, HeldType DEF RequireFailed
  <2> QED
    BY <1>1, <2>1, <2>2, <2>3, <2>4 DEF Require
<1>2. ASSUME NEW i \in Importers, Execute(i)
      PROVE  /\ held' \in [Importers -> [Sheets -> HeldStates]]
             /\ UNCHANGED <<disk, module, edits>>
  BY <1>0, <1>2, HeldType DEF Execute
<1>3. ASSUME NEW f \in Sheets, ForceReload(f)
      PROVE  /\ held' \in [Importers -> [Sheets -> HeldStates]]
             /\ module' \in [Sheets -> {"none", "fresh", "flagged"}]
             /\ UNCHANGED <<disk, edits>>
  <2>1. held' = [j \in Importers |-> [held[j] EXCEPT ![f] = IF @ = "fresh" THEN "stale" ELSE @]]
    BY <1>3 DEF ForceReload
  <2>2. held' \in [Importers -> [Sheets -> HeldStates]]
    <3>1. CASE Importers = {}
      BY <2>1, <3>1
    <3>2. CASE Importers # {}
      BY <1>0, <2>1, <3>2, HeldType
    <3> QED
      BY <3>1, <3>2
  <2> QED
    BY <1>0, <1>3, <2>2 DEF ForceReload
<1>4. ASSUME NEW f \in Sheets, NEW t \in Texts \cup {Absent}, Edit(f, t)
      PROVE  /\ disk' \in [Sheets -> Texts \cup {Absent}]
             /\ edits' \in 0 .. MaxEdits
             /\ UNCHANGED cached
  BY <1>0, <1>4, EditsAssumption DEF Edit
<1>5. CASE UNCHANGED vars
  BY <1>0, <1>5 DEF vars, cached
<1>6. \A i \in Importers : Imports[i] \subseteq Sheets
  BY SheetAssumption
<1> QED
  BY <1>0, <1>1, <1>2, <1>3, <1>4, <1>5, <1>6 DEF Next, cached

LEMMA ParsedTypes ==
    ASSUME TypeOK, [Next]_vars
    PROVE  /\ DOMAIN exports' \subseteq ModuleSheets
           /\ DOMAIN plain' \subseteq Selectors
           /\ \A s \in DOMAIN plain' : plain'[s] \in Sheets \ ModuleSheets
           /\ \A a \in DOMAIN styles' : a.sheet \in Sheets /\ a.selector \in Selectors
           /\ applied' \in [Sheets -> Texts \cup {Absent}]
<1>1. CASE UNCHANGED parsed
  BY <1>1 DEF TypeOK, parsed
<1>2. ASSUME NEW i \in Importers, NEW f \in Sheets, RequireParsed(i, f)
      PROVE  /\ DOMAIN exports' \subseteq ModuleSheets
             /\ DOMAIN plain' \subseteq Selectors
             /\ \A s \in DOMAIN plain' : plain'[s] \in Sheets \ ModuleSheets
             /\ \A a \in DOMAIN styles' : a.sheet \in Sheets /\ a.selector \in Selectors
             /\ applied' \in [Sheets -> Texts \cup {Absent}]
  <2>0. disk[f] \in Texts /\ ParseCssStyle(f, disk[f]) /\ Remember(f, disk[f])
    BY <1>2, ParsedIsText
  <2>1. DOMAIN exports' \subseteq ModuleSheets
    <3>1. CASE f \in ModuleSheets
      <4>1. exports' = Set(exports, {f}, Exports(disk[f]))
        BY <2>0, <3>1 DEF ParseCssStyle
      <4>2. DOMAIN exports' = DOMAIN exports \cup {f}
        BY <4>1, SetIs
      <4> QED
        BY <3>1, <4>2 DEF TypeOK
    <3>2. CASE f \notin ModuleSheets
      BY <2>0, <3>2 DEF ParseCssStyle, TypeOK
    <3> QED
      BY <3>1, <3>2
  <2>2. /\ DOMAIN plain' \subseteq Selectors
        /\ \A s \in DOMAIN plain' : plain'[s] \in Sheets \ ModuleSheets
    <3>1. CASE f \in ModuleSheets
      BY <2>0, <3>1 DEF ParseCssStyle, TypeOK
    <3>2. CASE f \notin ModuleSheets
      <4> DEFINE keys == SelectorsOf(disk[f])
      <4>1. plain' = Set(plain, keys, f) /\ keys \subseteq Selectors
        BY <2>0, <3>2, SelectorsTyped DEF ParseCssStyle
      <4> HIDE DEF keys
      <4>2. /\ DOMAIN plain' = DOMAIN plain \cup keys
            /\ \A s \in keys : plain'[s] = f
            /\ \A s \in DOMAIN plain \ keys : plain'[s] = plain[s]
        <5> DEFINE after == Set(plain, keys, f)
        <5>1. /\ DOMAIN after = DOMAIN plain \cup keys
              /\ \A s \in keys : after[s] = f
              /\ \A s \in DOMAIN plain \ keys : after[s] = plain[s]
          BY SetIs
        <5> HIDE DEF after
        <5> QED
          BY <4>1, <5>1 DEF after
      <4>3. DOMAIN plain \subseteq Selectors /\ \A s \in DOMAIN plain : plain[s] \in Sheets \ ModuleSheets
        BY DEF TypeOK
      <4> QED
        BY <3>2, <4>1, <4>2, <4>3
    <3> QED
      BY <3>1, <3>2
  <2>3. ASSUME NEW a \in DOMAIN styles'
        PROVE  a.sheet \in Sheets /\ a.selector \in Selectors
    <3>1. a \in DOMAIN styles \/ a \in DOMAIN Parse(f, disk[f])
      BY <2>0 DEF ParseCssStyle, Assign
    <3>2. CASE a \in DOMAIN Parse(f, disk[f])
      <4>1. PICK j \in DOMAIN RulesOf[disk[f]] :
                a = Place(f, RulesOf[disk[f]][j].selector, RulesOf[disk[f]][j].pseudo,
                          RulesOf[disk[f]][j].media)
        BY <2>0, <3>2, ParsePlaces
      <4>2. RulesOf[disk[f]][j].selector \in Selectors
        BY <2>0, RulesTyped
      <4> QED
        BY <4>1, <4>2, PlaceIs
    <3> QED
      BY <3>1, <3>2 DEF TypeOK
  <2>4. applied' \in [Sheets -> Texts \cup {Absent}]
    BY <2>0 DEF Remember, TypeOK
  <2> QED
    BY <2>1, <2>2, <2>3, <2>4
<1> QED
  BY <1>1, <1>2, NextParses

LEMMA TypeInit ==
    ASSUME Init
    PROVE  TypeOK
<1>1. "none" \in HeldStates
  BY DEF HeldStates
<1>2. disk \in [Sheets -> Texts \cup {Absent}]
  BY SheetAssumption DEF Init
<1>3. DOMAIN None = {}
  BY DEF None
<1> QED
  BY <1>1, <1>2, <1>3, EditsAssumption DEF Init, NothingParsed, TypeOK

\* Whatever is written and required, the caches hold what they are meant to hold:
\* scoped selectors of known sheets, classes of module sheets apart from the rest.
THEOREM TypesKept == Spec => []TypeOK
<1>1. TypeOK /\ [Next]_vars => TypeOK'
  BY CacheTypes, ParsedTypes DEF TypeOK
<1> QED
  BY <1>1, TypeInit, PTL DEF Spec

-----------------------------------------------------------------------------
(* The cache and what was parsed.                                           *)
(*                                                                         *)
(* What is remembered of a text stays true of the cache until another text  *)
(* takes its place: for the plain rules of a sheet that is the next text of *)
(* the sheet that has a rule for the selector, for a media query the next   *)
(* text of any sheet with the query.                                        *)

AppliedInv ==
    \A f \in Sheets, t \in Texts : applied[f] = t =>
        \A s \in Selectors : Outside(t, s) => AsParsed(f, s, <<>>, t)

LatestInv ==
    \A s \in DOMAIN latest :
        /\ latest[s] \in [sheet : Sheets \ ModuleSheets, text : Texts]
        /\ s \in DOMAIN plain /\ plain[s] = latest[s].sheet
        /\ \A f \in Sheets, t \in Texts :
              latest[s] = [sheet |-> f, text |-> t] /\ Outside(t, s) => AsParsed(f, s, <<>>, t)

\* The styles of a query are those of a text of one sheet.
Answers(q, f, t) ==
    /\ \A s \in Selectors : AsParsed(f, s, <<q>>, t)
    /\ \A g \in Sheets \ {f}, s \in Selectors, pseudo \in Pseudos :
          Place(g, s, pseudo, <<q>>) \notin DOMAIN styles
AskerInv ==
    \A q \in DOMAIN asker :
        /\ asker[q] \in [sheet : Sheets, text : Texts]
        /\ \A f \in Sheets, t \in Texts :
              asker[q] = [sheet |-> f, text |-> t] => Answers(q, f, t)

CacheInv == TypeOK /\ AppliedInv /\ LatestInv /\ AskerInv

Parsing(f, text) == ParseCssStyle(f, text) /\ Remember(f, text)

LEMMA ParsingOrNot ==
    ASSUME TypeOK, [Next]_vars
    PROVE  UNCHANGED parsed \/ \E f \in Sheets, text \in Texts : Parsing(f, text)
  BY NextParses, ParsedIsText DEF Parsing

\* The styles after a parse.
LEMMA ParsingStyles ==
    ASSUME NEW f, NEW text, Parsing(f, text)
    PROVE  styles' = Assign(styles, Parse(f, text))
  BY DEF Parsing, ParseCssStyle

LEMMA SameParsed ==
    ASSUME NEW f, NEW s, NEW media, NEW t, AsParsed(f, s, media, t), UNCHANGED styles
    PROVE  AsParsed(f, s, media, t)'
  BY DEF AsParsed

LEMMA SameAnswers ==
    ASSUME NEW q, NEW f, NEW t, Answers(q, f, t), UNCHANGED styles
    PROVE  Answers(q, f, t)'
  BY SameParsed DEF Answers

\* A selector outside media queries after a parse.
LEMMA PlainAfter ==
    ASSUME NEW f \in Sheets, NEW text \in Texts, Parsing(f, text),
           NEW g \in Sheets, NEW s \in Selectors
    PROVE  /\ g = f /\ Outside(text, s) => AsParsed(g, s, <<>>, text)'
           /\ ~(g = f /\ Outside(text, s)) =>
                 \A was : AsParsed(g, s, <<>>, was) => AsParsed(g, s, <<>>, was)'
<1>1. styles' = Assign(styles, Parse(f, text))
  BY ParsingStyles
<1>2. \A pseudo \in Pseudos :
          Covers(f, text, Place(g, s, pseudo, <<>>)) <=> f = g /\ Outside(text, s)
  BY PlainCovers
<1>3. ASSUME g = f, Outside(text, s)
      PROVE  AsParsed(g, s, <<>>, text)'
  <2>1. \A pseudo \in Pseudos : Covers(f, text, Place(f, s, pseudo, <<>>))
    BY <1>2, <1>3
  <2> QED
    BY <1>1, <1>3, <2>1, CoveredIsParsed
<1>4. ASSUME ~(g = f /\ Outside(text, s)), NEW was, AsParsed(g, s, <<>>, was)
      PROVE  AsParsed(g, s, <<>>, was)'
  <2>1. \A pseudo \in Pseudos : ~Covers(f, text, Place(g, s, pseudo, <<>>))
    BY <1>2, <1>4
  <2> QED
    BY <1>1, <1>4, <2>1, OthersRemain
<1> QED
  BY <1>3, <1>4

\* A media query after a parse.
LEMMA QueryAfter ==
    ASSUME NEW f \in Sheets, NEW text \in Texts, Parsing(f, text), NEW q
    PROVE  /\ q \in QueriesOf(text) => Answers(q, f, text)'
           /\ q \notin QueriesOf(text) =>
                 \A g \in Sheets, was \in Texts : Answers(q, g, was) => Answers(q, g, was)'
<1>1. styles' = Assign(styles, Parse(f, text))
  BY ParsingStyles
<1>2. \A g, s, pseudo : Covers(f, text, Place(g, s, pseudo, <<q>>)) <=> q \in QueriesOf(text)
  BY QueryCovers
<1>3. ASSUME q \in QueriesOf(text)
      PROVE  Answers(q, f, text)'
  <2>1. \A s \in Selectors : AsParsed(f, s, <<q>>, text)'
    BY <1>1, <1>2, <1>3, CoveredIsParsed
  <2>2. ASSUME NEW g \in Sheets \ {f}, NEW s \in Selectors, NEW pseudo \in Pseudos
        PROVE  Place(g, s, pseudo, <<q>>) \notin DOMAIN styles'
    <3>1. Place(g, s, pseudo, <<q>>) \in DOMAIN styles'
              <=> Place(g, s, pseudo, <<q>>) \in DOMAIN Parse(f, text)
      BY <1>1, <1>2, <1>3, AfterParse
    <3>2. Place(g, s, pseudo, <<q>>) \notin DOMAIN Parse(f, text)
      BY <2>2, ParsePlaces, PlaceIs
    <3> QED
      BY <3>1, <3>2
  <2> QED
    BY <2>1, <2>2 DEF Answers
<1>4. ASSUME q \notin QueriesOf(text), NEW g \in Sheets, NEW was \in Texts, Answers(q, g, was)
      PROVE  Answers(q, g, was)'
  <2>1. \A s \in Selectors : AsParsed(g, s, <<q>>, was)'
    BY <1>1, <1>2, <1>4, OthersRemain DEF Answers
  <2>2. \A h \in Sheets \ {g}, s \in Selectors, pseudo \in Pseudos :
            Place(h, s, pseudo, <<q>>) \notin DOMAIN styles'
    BY <1>1, <1>2, <1>4, AfterParse DEF Answers
  <2> QED
    BY <2>1, <2>2 DEF Answers
<1> QED
  BY <1>3, <1>4

LEMMA AppliedStep ==
    ASSUME TypeOK, AppliedInv, NEW f \in Sheets, NEW text \in Texts, Parsing(f, text)
    PROVE  AppliedInv'
<1> SUFFICES ASSUME NEW g \in Sheets, NEW t \in Texts, applied'[g] = t,
                    NEW s \in Selectors, Outside(t, s)
             PROVE  AsParsed(g, s, <<>>, t)'
  BY DEF AppliedInv
<1>1. \A h \in Sheets : applied'[h] = IF h = f THEN text ELSE applied[h]
  BY DEF Parsing, Remember, TypeOK
<1>2. CASE g = f
  BY <1>1, <1>2, PlainAfter
<1>3. CASE g # f
  <2>1. AsParsed(g, s, <<>>, t)
    BY <1>1, <1>3 DEF AppliedInv
  <2> QED
    BY <1>3, <2>1, PlainAfter
<1> QED
  BY <1>2, <1>3

LEMMA LatestStep ==
    ASSUME TypeOK, LatestInv, NEW f \in Sheets, NEW text \in Texts, Parsing(f, text)
    PROVE  LatestInv'
<1>1. CASE f \in ModuleSheets
  <2>1. UNCHANGED <<latest, plain>>
    BY <1>1 DEF Parsing, ParseCssStyle, Remember
  <2>2. ASSUME NEW s \in DOMAIN latest, NEW g \in Sheets, NEW t \in Texts,
               latest[s] = [sheet |-> g, text |-> t], Outside(t, s)
        PROVE  AsParsed(g, s, <<>>, t)'
    <3>1. s \in Selectors /\ g \notin ModuleSheets /\ AsParsed(g, s, <<>>, t)
      BY <2>2 DEF LatestInv, TypeOK
    <3> QED
      BY <1>1, <3>1, PlainAfter
  <2> QED
    BY <2>1, <2>2 DEF LatestInv
<1>2. CASE f \notin ModuleSheets
  <2> DEFINE keys == SelectorsOf(text)
             v == [sheet |-> f, text |-> text]
             newLatest == Set(latest, keys, v)
             newPlain == Set(plain, keys, f)
  <2>1. latest' = newLatest /\ plain' = newPlain
    BY <1>2 DEF Parsing, ParseCssStyle, Remember
  <2>2. /\ DOMAIN newLatest = DOMAIN latest \cup keys
        /\ \A k \in keys : newLatest[k] = v
        /\ \A k \in DOMAIN latest \ keys : newLatest[k] = latest[k]
    BY DEF Set
  <2>3. /\ DOMAIN newPlain = DOMAIN plain \cup keys
        /\ \A k \in keys : newPlain[k] = f
        /\ \A k \in DOMAIN plain \ keys : newPlain[k] = plain[k]
    BY DEF Set
  <2>4. keys \subseteq Selectors
    BY SelectorsTyped
  <2>5. v \in [sheet : Sheets \ ModuleSheets, text : Texts] /\ v.sheet = f
    BY <1>2
  <2>6. ASSUME NEW s \in keys, NEW g \in Sheets, NEW t \in Texts,
               v = [sheet |-> g, text |-> t], Outside(t, s)
        PROVE  AsParsed(g, s, <<>>, t)'
    <3>1. g = f /\ t = text /\ s \in Selectors
      BY <2>4, <2>6
    <3> QED
      BY <2>6, <3>1, PlainAfter
  <2>7. ASSUME NEW s \in DOMAIN latest \ keys, NEW g \in Sheets, NEW t \in Texts,
               latest[s] = [sheet |-> g, text |-> t], Outside(t, s)
        PROVE  AsParsed(g, s, <<>>, t)'
    <3>1. s \in Selectors /\ AsParsed(g, s, <<>>, t)
      BY <2>7 DEF LatestInv, TypeOK
    <3>2. ~Outside(text, s)
      BY <2>7 DEF Outside, Rules, SelectorsOf
    <3> QED
      BY <3>1, <3>2, PlainAfter
  <2>8. \A s \in DOMAIN latest : /\ latest[s] \in [sheet : Sheets \ ModuleSheets, text : Texts]
                                 /\ s \in DOMAIN plain /\ plain[s] = latest[s].sheet
    BY DEF LatestInv
  <2> HIDE DEF keys, v, newLatest, newPlain
  <2>9. ASSUME NEW s \in DOMAIN latest'
        PROVE  /\ latest'[s] \in [sheet : Sheets \ ModuleSheets, text : Texts]
               /\ s \in DOMAIN plain' /\ plain'[s] = latest'[s].sheet
               /\ \A g \in Sheets, t \in Texts :
                     latest'[s] = [sheet |-> g, text |-> t] /\ Outside(t, s)
                         => AsParsed(g, s, <<>>, t)'
    <3>1. CASE s \in keys
      <4>1. latest'[s] = v /\ plain'[s] = f /\ s \in DOMAIN plain'
        BY <2>1, <2>2, <2>3, <3>1
      <4> QED
        BY <2>5, <2>6, <3>1, <4>1
    <3>2. CASE s \notin keys
      <4>1. s \in DOMAIN latest \ keys /\ s \in DOMAIN plain
        BY <2>1, <2>2, <2>8, <3>2
      <4>2. latest'[s] = latest[s] /\ plain'[s] = plain[s] /\ s \in DOMAIN plain'
        BY <2>1, <2>2, <2>3, <3>2, <4>1
      <4> QED
        BY <2>7, <2>8, <4>1, <4>2
    <3> QED
      BY <3>1, <3>2
  <2> QED
    BY <2>9 DEF LatestInv
<1> QED
  BY <1>1, <1>2

LEMMA AskerStep ==
    ASSUME TypeOK, AskerInv, NEW f \in Sheets, NEW text \in Texts, Parsing(f, text)
    PROVE  AskerInv'
<1> DEFINE keys == QueriesOf(text)
           v == [sheet |-> f, text |-> text]
           new == Set(asker, keys, v)
<1>1. asker' = new
  BY DEF Parsing, Remember
<1>2. /\ DOMAIN new = DOMAIN asker \cup keys
      /\ \A k \in keys : new[k] = v
      /\ \A k \in DOMAIN asker \ keys : new[k] = asker[k]
  BY DEF Set
<1>3. v \in [sheet : Sheets, text : Texts]
  OBVIOUS
<1>4. ASSUME NEW g, NEW t, v = [sheet |-> g, text |-> t]
      PROVE  g = f /\ t = text
  BY <1>4
<1>5. \A q \in keys : Answers(q, f, text)'
  BY QueryAfter
<1>6. \A q \in DOMAIN asker \ keys : \A g \in Sheets, t \in Texts :
          Answers(q, g, t) => Answers(q, g, t)'
  BY QueryAfter
<1> HIDE DEF keys, v, new
<1> SUFFICES ASSUME NEW q \in DOMAIN asker'
             PROVE  /\ asker'[q] \in [sheet : Sheets, text : Texts]
                    /\ \A g \in Sheets, t \in Texts :
                          asker'[q] = [sheet |-> g, text |-> t] => Answers(q, g, t)'
  BY DEF AskerInv
<1>7. CASE q \in keys
  <2>1. asker'[q] = v
    BY <1>1, <1>2, <1>7
  <2> QED
    BY <1>3, <1>4, <1>5, <1>7, <2>1
<1>8. CASE q \notin keys
  <2>1. q \in DOMAIN asker \ keys /\ asker'[q] = asker[q]
    BY <1>1, <1>2, <1>8
  <2>2. /\ asker[q] \in [sheet : Sheets, text : Texts]
        /\ \A g \in Sheets, t \in Texts :
              asker[q] = [sheet |-> g, text |-> t] => Answers(q, g, t)
    BY <2>1 DEF AskerInv
  <2> QED
    BY <1>6, <2>1, <2>2
<1> QED
  BY <1>7, <1>8

LEMMA CacheInvariant == Spec => []CacheInv
<1>1. Init => CacheInv
  <2> SUFFICES ASSUME Init PROVE CacheInv
    OBVIOUS
  <2>1. DOMAIN None = {}
    BY DEF None
  <2>2. Absent \notin Texts /\ ModuleSheets \subseteq Sheets
    BY SheetAssumption
  <2>3. \A f \in Sheets : applied[f] = Absent
    BY DEF Init, NothingParsed
  <2>4. DOMAIN latest = {} /\ DOMAIN asker = {}
    BY <2>1 DEF Init, NothingParsed
  <2> QED
    BY <2>2, <2>3, <2>4, TypeInit DEF CacheInv, AppliedInv, LatestInv, AskerInv
<1>2. CacheInv /\ [Next]_vars => CacheInv'
  <2> SUFFICES ASSUME CacheInv, [Next]_vars PROVE CacheInv'
    OBVIOUS
  <2>1. TypeOK'
    BY CacheTypes, ParsedTypes DEF CacheInv, TypeOK
  <2>2. CASE UNCHANGED parsed
    <3>1. UNCHANGED <<exports, styles, plain, applied, latest, asker>>
      BY <2>2 DEF parsed
    <3>2. AppliedInv'
      BY <3>1, SameParsed DEF CacheInv, AppliedInv
    <3>3. LatestInv'
      BY <3>1, SameParsed DEF CacheInv, LatestInv
    <3>4. AskerInv'
      BY <3>1, SameAnswers DEF CacheInv, AskerInv
    <3> QED
      BY <2>1, <3>2, <3>3, <3>4 DEF CacheInv
  <2>3. ASSUME NEW f \in Sheets, NEW text \in Texts, Parsing(f, text)
        PROVE  CacheInv'
    BY <2>1, <2>3, AppliedStep, LatestStep, AskerStep DEF CacheInv
  <2> QED
    BY <2>2, <2>3, ParsingOrNot DEF CacheInv
<1> QED
  BY <1>1, <1>2, PTL DEF Spec
-----------------------------------------------------------------------------
(* What a script reads.                                                     *)

\* Whatever sheets are loaded before or after it, with the same selectors or not,
\* and however often it is parsed: the styles of a selector, scoped to its sheet,
\* are what the text that was parsed last says of it outside media queries.
THEOREM SheetsAreApplied == Spec => []SheetIsApplied
<1>1. CacheInv => SheetIsApplied
  <2> SUFFICES ASSUME CacheInv, NEW f \in Sheets, applied[f] # Absent,
                      NEW s \in SelectorsOf(applied[f]), NEW pseudo \in Pseudos,
                      Outside(applied[f], s)
               PROVE  GetStyle(f, s, pseudo, <<>>) = Says(applied[f], s, pseudo, <<>>)
    BY DEF SheetIsApplied
  <2> DEFINE t == applied[f]
  <2>1. t \in Texts
    BY DEF CacheInv, TypeOK
  <2>2. s \in Selectors
    BY <2>1, SelectorsTyped
  <2>3. AsParsed(f, s, <<>>, t)
    BY <2>1, <2>2 DEF CacheInv, AppliedInv
  <2> HIDE DEF t
  <2>4. GetStyle(f, s, pseudo, <<>>) = Says(t, s, pseudo, <<>>)
    BY <2>1, <2>3, FoundIsSaid
  <2> QED
    BY <2>4 DEF t
<1> QED
  BY <1>1, CacheInvariant, PTL

\* A class that is named without its sheet has the style that the plain sheet
\* parsed last with it gives it.
THEOREM PlainNamesAreLatest == Spec => []PlainNameIsLatest
<1>1. CacheInv => PlainNameIsLatest
  <2> SUFFICES ASSUME CacheInv, NEW s \in DOMAIN latest, NEW pseudo \in Pseudos,
                      Outside(latest[s].text, s)
               PROVE  GetPlainStyle(s, pseudo, <<>>) = Says(latest[s].text, s, pseudo, <<>>)
    BY DEF PlainNameIsLatest
  <2> DEFINE f == latest[s].sheet
             t == latest[s].text
  <2>1. /\ f \in Sheets /\ t \in Texts
        /\ latest[s] = [sheet |-> f, text |-> t]
        /\ s \in DOMAIN plain /\ plain[s] = f
    BY DEF CacheInv, LatestInv
  <2>2. AsParsed(f, s, <<>>, t)
    BY <2>1 DEF CacheInv, LatestInv
  <2>3. GetPlainStyle(s, pseudo, <<>>) = GetStyle(f, s, pseudo, <<>>)
    BY <2>1 DEF GetPlainStyle
  <2> HIDE DEF f, t
  <2>4. GetStyle(f, s, pseudo, <<>>) = Says(t, s, pseudo, <<>>)
    BY <2>1, <2>2, FoundIsSaid
  <2> QED
    BY <2>3, <2>4 DEF t
<1> QED
  BY <1>1, CacheInvariant, PTL

\* Nothing is found where not even the selector alone has a node.
LEMMA NothingFound ==
    ASSUME NEW f, NEW s, NEW pseudo, NEW media,
           Place(f, s, "base", media) \notin DOMAIN styles
    PROVE  GetStyle(f, s, pseudo, media) = {}
  BY DEF GetStyle, Place

\* The styles of a media query are those that the sheet parsed last with the query
\* says, and no other sheet has any.
THEOREM QueriesAreOfOneSheet == Spec => []MediaIsOfOneSheet
<1>1. CacheInv => MediaIsOfOneSheet
  <2> SUFFICES ASSUME CacheInv, NEW q \in DOMAIN asker, NEW f \in Sheets,
                      NEW s \in Selectors, NEW pseudo \in Pseudos
               PROVE  GetStyle(f, s, pseudo, <<q>>) =
                        IF f = asker[q].sheet THEN Says(asker[q].text, s, pseudo, <<q>>)
                        ELSE {}
    BY DEF MediaIsOfOneSheet
  <2> DEFINE g == asker[q].sheet
             t == asker[q].text
  <2>1. g \in Sheets /\ t \in Texts /\ asker[q] = [sheet |-> g, text |-> t]
    BY DEF CacheInv, AskerInv
  <2>2. Answers(q, g, t)
    BY <2>1 DEF CacheInv, AskerInv
  <2> HIDE DEF g, t
  <2>3. f = g => GetStyle(f, s, pseudo, <<q>>) = Says(t, s, pseudo, <<q>>)
    BY <2>1, <2>2, FoundIsSaid DEF Answers
  <2>4. ASSUME f # g PROVE GetStyle(f, s, pseudo, <<q>>) = {}
    <3>1. "base" \in Pseudos
      BY SheetAssumption
    <3>2. Place(f, s, "base", <<q>>) \notin DOMAIN styles
      BY <2>2, <2>4, <3>1 DEF Answers
    <3> QED
      BY <3>2, NothingFound
  <2> QED
    BY <2>3, <2>4 DEF g, t
<1> QED
  BY <1>1, CacheInvariant, PTL

\* To require a module sheet changes no class that is named without its sheet.
LEMMA ModuleParseIsPrivate ==
    ASSUME TypeOK, NEW f \in ModuleSheets, NEW text \in Texts, Parsing(f, text),
           NEW s, NEW pseudo
    PROVE  GetPlainStyle(s, pseudo, <<>>)' = GetPlainStyle(s, pseudo, <<>>)
<1>1. plain' = plain
  BY DEF Parsing, ParseCssStyle
<1>2. CASE s \notin DOMAIN plain
  BY <1>1, <1>2 DEF GetPlainStyle
<1>3. CASE s \in DOMAIN plain
  <2> DEFINE g == plain[s]
             a == Place(g, s, "base", <<>>)
             b == Place(g, s, pseudo, <<>>)
  <2>1. styles' = Assign(styles, Parse(f, text))
    BY ParsingStyles
  <2>2. f # g
    BY <1>3 DEF TypeOK
  <2>3. ASSUME NEW x
        PROVE  LET p == Place(g, s, x, <<>>)
               IN  /\ p \in DOMAIN styles' <=> p \in DOMAIN styles
                   /\ p \in DOMAIN styles => styles'[p] = styles[p]
    <3> DEFINE p == Place(g, s, x, <<>>)
    <3>1. ~Covers(f, text, p)
      BY <2>2, PlainCovers
    <3> HIDE DEF p
    <3>2. /\ p \in DOMAIN styles' <=> p \in DOMAIN styles
          /\ p \in DOMAIN styles => styles'[p] = styles[p]
      BY <2>1, <3>1, AfterParse
    <3> QED
      BY <3>2 DEF p
  <2>4. GetPlainStyle(s, pseudo, <<>>) =
          IF pseudo = "base" THEN {styles[x] : x \in {a} \cap DOMAIN styles}
          ELSE IF {a, b} \subseteq DOMAIN styles THEN {Cascade(styles[a], styles[b])} ELSE {}
    BY <1>3 DEF GetPlainStyle, GetStyle, Place
  <2>5. GetPlainStyle(s, pseudo, <<>>)' =
          IF pseudo = "base" THEN {styles'[x] : x \in {a} \cap DOMAIN styles'}
          ELSE IF {a, b} \subseteq DOMAIN styles'
          THEN {Cascade(styles'[a], styles'[b])} ELSE {}
    BY <1>1, <1>3 DEF GetPlainStyle, GetStyle, Place
  <2>6. /\ a \in DOMAIN styles' <=> a \in DOMAIN styles
        /\ b \in DOMAIN styles' <=> b \in DOMAIN styles
        /\ a \in DOMAIN styles => styles'[a] = styles[a]
        /\ b \in DOMAIN styles => styles'[b] = styles[b]
    BY <2>3
  <2> HIDE DEF a, b, g
  <2>7. {styles'[x] : x \in {a} \cap DOMAIN styles'} = {styles[x] : x \in {a} \cap DOMAIN styles}
    BY <2>6
  <2> QED
    BY <2>4, <2>5, <2>6, <2>7
<1> QED
  BY <1>2, <1>3

\* The stores of plain and of module sheets stay apart: a step that parses a module
\* sheet leaves the style of every class that is named without its sheet.
THEOREM ModulesArePrivate == Spec => ModuleSheetIsPrivate
<1>1. ASSUME TypeOK, styles' # styles,
             NEW i \in Importers, NEW f \in ModuleSheets, Require(i, f),
             NEW s \in Selectors, NEW pseudo \in Pseudos
      PROVE  GetPlainStyle(s, pseudo, <<>>)' = GetPlainStyle(s, pseudo, <<>>)
  <2>1. f \in Sheets
    BY SheetAssumption
  <2>2. RequireParsed(i, f)
    BY <1>1 DEF Require, RequireMissing, RequireShared, RequireFailed, parsed
  <2>3. disk[f] \in Texts /\ Parsing(f, disk[f])
    BY <1>1, <2>1, <2>2, ParsedIsText DEF Parsing
  <2> QED
    BY <1>1, <2>3, ModuleParseIsPrivate
<1>2. TypeOK /\ [Next]_vars =>
        [styles' # styles /\ (\E i \in Importers, f \in ModuleSheets : Require(i, f)) =>
            \A s \in Selectors, pseudo \in Pseudos :
                GetPlainStyle(s, pseudo, <<>>)' = GetPlainStyle(s, pseudo, <<>>)]_vars
  BY <1>1
<1> QED
  BY <1>2, TypesKept, PTL DEF Spec, ModuleSheetIsPrivate
=============================================================================
