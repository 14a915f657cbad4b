---------------------- MODULE RepositoryHistoryProofs ----------------------
(* Theorems about the history of a working copy: what a merge takes from its   *)
(* parents, what an integration does to a head, and where an undo ends.  They   *)
(* rest on the graph of the checkpoints, which the model walks with recursive   *)
(* functions; what those functions are is proved here by the least element of   *)
(* a set of numbers, that of the counterexamples.                               *)
EXTENDS RepositoryProofs, WellFoundedInduction

-----------------------------------------------------------------------------
(* Numbers                                                                   *)

Less == {r \in Nat \X Nat : r[1] < r[2]}

\* A set of numbers that is not empty has a least element.
LEMMA LeastNumber ==
  ASSUME NEW T, T \subseteq Nat, T # {}
  PROVE  \E n \in T : \A m \in T : n <= m
<1>1. IsWellFoundedOn(Less, Nat)
  <2>1. Less = OpToRel(<, Nat)
    BY DEF OpToRel, Less
  <2> QED
    BY <2>1, NatLessThanWellFounded, Zenon
<1>2. \E x \in T : \A y \in T : <<y, x>> \notin Less
  BY <1>1, WFMin
<1>3. PICK x \in T : \A y \in T : <<y, x>> \notin Less
  BY <1>2
<1>4. ASSUME NEW y \in T PROVE x <= y
  <2>1. x \in Nat /\ y \in Nat /\ <<y, x>> \in Nat \X Nat
    OBVIOUS
  <2>2. ~(y < x)
    BY <1>3, <2>1 DEF Less
  <2> QED
    BY <2>1, <2>2
<1> QED
  BY <1>4

-----------------------------------------------------------------------------
(* The recursive functions exist                                             *)

\* The parents of checkpoint i in a list of checkpoint records
ParentsAmong(list, i) == IF i \in DOMAIN list THEN list[i].parents ELSE {}

\* What AncestorSets and Generation are of a list
IsAncestry(f, list) ==
  f = [i \in 0..Len(list) |->
         {i} \cup UNION {f[j] : j \in {k \in ParentsAmong(list, i) : k < i}}]
IsSearch(f, list, id) ==
  f = [n \in 0..Len(list) |->
         IF n = 0 THEN {id} \ {0} ELSE UNION {ParentsAmong(list, i) : i \in f[n - 1]}]

\* The ancestors can be numbered from the oldest checkpoint on.
LEMMA AncestryExists ==
  ASSUME NEW list \in Seq(CheckpointRows)
  PROVE  \E f : IsAncestry(f, list)
<1> DEFINE P(i) == ParentsAmong(list, i)
           Upto(f, n) == f = [i \in 0..n |-> {i} \cup UNION {f[j] : j \in {k \in P(i) : k < i}}]
           T == {n \in Nat : ~ \E f : Upto(f, n)}
<1>1. \A i \in Nat : P(i) \subseteq Nat
  <2>1. \A i \in DOMAIN list : list[i] \in CheckpointRows
    OBVIOUS
  <2> QED
    BY <2>1 DEF ParentsAmong, CheckpointRows
<1> HIDE DEF P
<1>2. ASSUME T # {} PROVE FALSE
  <2>1. PICK n \in T : \A m \in T : n <= m
    BY <1>2, LeastNumber
  <2>2. CASE n = 0
    <3> DEFINE f == [i \in 0..0 |-> {i}]
    <3>1. \A i \in 0..0 : {k \in P(i) : k < i} = {}
      BY <1>1
    <3>2. Upto(f, 0)
      BY <3>1
    <3> QED
      BY <2>1, <2>2, <3>2
  <2>3. CASE n # 0
    <3>1. n - 1 \in Nat /\ n - 1 \notin T /\ n \in Nat
      <4>1. n \in Nat
        BY <2>1
      <4> HIDE DEF T
      <4> QED
        BY <2>1, <2>3, <4>1
    <3>2. PICK f : Upto(f, n - 1)
      BY <3>1
    <3> DEFINE g == [i \in 0..n |-> IF i = n THEN {n} \cup UNION {f[j] : j \in {k \in P(n) : k < n}}
                                     ELSE f[i]]
    <3>3. \A j \in Nat : j < n => g[j] = f[j]
      BY <3>1
    <3>4. ASSUME NEW i \in 0..n
          PROVE  g[i] = {i} \cup UNION {g[j] : j \in {k \in P(i) : k < i}}
      <4> DEFINE J == {k \in P(i) : k < i}
      <4>1. \A j \in J : g[j] = f[j]
        BY <1>1, <3>1, <3>3
      <4>2. {g[j] : j \in J} = {f[j] : j \in J}
        BY <4>1
      <4>3. g[i] = {i} \cup UNION {f[j] : j \in J}
        <5>1. CASE i = n
          BY <5>1
        <5>2. CASE i # n
          <6>1. i \in 0..(n - 1) /\ g[i] = f[i]
            BY <5>2, <3>1
          <6>2. f[i] = {i} \cup UNION {f[j] : j \in J}
            BY <6>1, <3>2
          <6> QED
            BY <6>1, <6>2
        <5> QED
          BY <5>1, <5>2
      <4> QED
        BY <4>2, <4>3
    <3>5. Upto(g, n)
      <4>1. g = [i \in 0..n |-> g[i]]
        OBVIOUS
      <4> HIDE DEF g
      <4> QED
        BY <3>4, <4>1
    <3> QED
      BY <2>1, <3>5
  <2> QED
    BY <2>2, <2>3
<1>3. Len(list) \in Nat
  OBVIOUS
<1>4. PICK f : Upto(f, Len(list))
  BY <1>2, <1>3
<1> QED
  BY <1>4 DEF IsAncestry, P

\* The generations can be searched as far as one likes.
LEMMA SearchExists ==
  ASSUME NEW list \in Seq(CheckpointRows), NEW id
  PROVE  \E f : IsSearch(f, list, id)
<1> DEFINE P(i) == ParentsAmong(list, i)
           Upto(f, n) == f = [m \in 0..n |-> IF m = 0 THEN {id} \ {0} ELSE UNION {P(i) : i \in f[m - 1]}]
           T == {n \in Nat : ~ \E f : Upto(f, n)}
<1> HIDE DEF P
<1>2. ASSUME T # {} PROVE FALSE
  <2>1. PICK n \in T : \A m \in T : n <= m
    BY <1>2, LeastNumber
  <2>2. CASE n = 0
    <3> DEFINE f == [m \in 0..0 |-> {id} \ {0}]
    <3>1. Upto(f, 0)
      OBVIOUS
    <3> QED
      BY <2>1, <2>2, <3>1
  <2>3. CASE n # 0
    <3>1. n - 1 \in Nat /\ n - 1 \notin T /\ n \in Nat
      <4>1. n \in Nat
        BY <2>1
      <4> HIDE DEF T
      <4> QED
        BY <2>1, <2>3, <4>1
    <3>2. PICK f : Upto(f, n - 1)
      BY <3>1
    <3> DEFINE g == [m \in 0..n |-> IF m = n THEN UNION {P(i) : i \in f[n - 1]} ELSE f[m]]
    <3>3. ASSUME NEW m \in 0..n
          PROVE  g[m] = IF m = 0 THEN {id} \ {0} ELSE UNION {P(i) : i \in g[m - 1]}
      <4>1. CASE m = n
        <5>1. g[m - 1] = f[n - 1]
          BY <3>1, <4>1
        <5> QED
          BY <4>1, <5>1, <2>3
      <4>2. CASE m # n
        <5>1. m \in 0..(n - 1) /\ g[m] = f[m]
          BY <3>1, <4>2
        <5>2. f[m] = IF m = 0 THEN {id} \ {0} ELSE UNION {P(i) : i \in f[m - 1]}
          BY <3>2, <5>1
        <5>3. m # 0 => g[m - 1] = f[m - 1]
          BY <3>1, <5>1
        <5> QED
          BY <5>1, <5>2, <5>3
      <4> QED
        BY <4>1, <4>2
    <3>4. Upto(g, n)
      <4>1. g = [m \in 0..n |-> g[m]]
        OBVIOUS
      <4> HIDE DEF g
      <4> QED
        BY <3>3, <4>1
    <3> QED
      BY <2>1, <3>4
  <2> QED
    BY <2>2, <2>3
<1>3. Len(list) \in Nat
  OBVIOUS
<1>4. PICK f : Upto(f, Len(list))
  BY <1>2, <1>3
<1> QED
  BY <1>4 DEF IsSearch, P

\* So the operators of the model are what their definitions say.
WalksAreRight ==
  checkpoints \in Seq(CheckpointRows) =>
    IsAncestry(AncestorSets, checkpoints) /\ \A id : IsSearch(Generation(id), checkpoints, id)

LEMMA GraphIsWalked == WalksAreRight
<1> SUFFICES ASSUME checkpoints \in Seq(CheckpointRows)
             PROVE  /\ IsAncestry(AncestorSets, checkpoints)
                    /\ \A id : IsSearch(Generation(id), checkpoints, id)
  BY DEF WalksAreRight
<1>1. \A i : Parents(i) = ParentsAmong(checkpoints, i)
  BY DEF Parents, ParentsAmong
<1>2. IsAncestry(AncestorSets, checkpoints)
  BY <1>1, AncestryExists DEF AncestorSets, IsAncestry
<1>3. ASSUME NEW id PROVE IsSearch(Generation(id), checkpoints, id)
  <2>1. PICK f : IsSearch(f, checkpoints, id)
    BY SearchExists
  <2>2. Generation(id) =
          CHOOSE g : g = [n \in 0..Len(checkpoints) |->
                            IF n = 0 THEN {id} \ {0} ELSE UNION {ParentsAmong(checkpoints, i) : i \in g[n - 1]}]
    BY DEF Generation, Parents, ParentsAmong
  <2> QED
    BY <2>1, <2>2 DEF IsSearch
<1> QED
  BY <1>2, <1>3

LEMMA GraphIsWalkedNext == WalksAreRight'
BY GraphIsWalked, PTL

-----------------------------------------------------------------------------
(* The graph of the checkpoints                                              *)

\* Parents are older than their children, and so are what a search finds.
OlderParents(list) == \A i \in DOMAIN list : list[i].parents \subseteq 1..(i - 1)

LEMMA SearchGoesDown ==
  ASSUME NEW list \in Seq(CheckpointRows), OlderParents(list), NEW id \in Nat,
         NEW f, IsSearch(f, list, id)
  PROVE  \A n \in 0..Len(list) : f[n] \subseteq 1..(id - n)
<1> DEFINE T == {n \in 0..Len(list) : ~(f[n] \subseteq 1..(id - n))}
<1>1. Len(list) \in Nat
  OBVIOUS
<1>2. \A n \in 0..Len(list) :
        f[n] = IF n = 0 THEN {id} \ {0} ELSE UNION {ParentsAmong(list, i) : i \in f[n - 1]}
  BY DEF IsSearch
<1>3. ASSUME T # {} PROVE FALSE
  <2>1. T \subseteq Nat
    BY <1>1
  <2>2. PICK n \in T : \A m \in T : n <= m
    BY <1>3, <2>1, LeastNumber
  <2>3. n \in 0..Len(list) /\ n \in Nat /\ ~(f[n] \subseteq 1..(id - n))
    BY <1>1, <2>2
  <2>4. CASE n = 0
    <3>1. f[0] = {id} \ {0}
      BY <1>2, <2>3, <2>4
    <3>2. {id} \ {0} \subseteq 1..(id - 0)
      OBVIOUS
    <3> QED
      BY <2>3, <2>4, <3>1, <3>2
  <2>5. CASE n # 0
    <3>1. n - 1 \in 0..Len(list)
      BY <1>1, <2>3, <2>5
    <3>2. n - 1 \notin T
      <4> HIDE DEF T
      <4> QED
        BY <2>2, <2>3
    <3>3. f[n - 1] \subseteq 1..(id - (n - 1))
      BY <3>1, <3>2
    <3>4. ASSUME NEW i \in f[n - 1] PROVE ParentsAmong(list, i) \subseteq 1..(id - n)
      <4>1. i \in Nat /\ i <= id - (n - 1)
        BY <2>3, <3>3
      <4>2. ParentsAmong(list, i) \subseteq 1..(i - 1)
        BY DEF ParentsAmong, OlderParents
      <4> QED
        BY <2>3, <4>1, <4>2
    <3>5. f[n] = UNION {ParentsAmong(list, i) : i \in f[n - 1]}
      BY <1>2, <2>3, <2>5
    <3> QED
      BY <2>3, <3>4, <3>5
  <2> QED
    BY <2>4, <2>5
<1> QED
  BY <1>3

\* A list that only grows
Extended(list, longer) ==
  Len(list) <= Len(longer) /\ \A i \in DOMAIN list : longer[i] = list[i]

LEMMA ExtendedParents ==
  ASSUME NEW list \in Seq(CheckpointRows), NEW longer \in Seq(CheckpointRows),
         Extended(list, longer)
  PROVE  /\ Len(list) \in Nat /\ Len(longer) \in Nat
         /\ \A i \in 0..Len(list) : ParentsAmong(longer, i) = ParentsAmong(list, i)
<1>1. /\ Len(list) \in Nat /\ Len(longer) \in Nat
      /\ DOMAIN list = 1..Len(list) /\ DOMAIN longer = 1..Len(longer)
  OBVIOUS
<1> QED
  BY <1>1 DEF Extended, ParentsAmong

\* keeps the ancestors
LEMMA AncestryKept ==
  ASSUME NEW list \in Seq(CheckpointRows), NEW longer \in Seq(CheckpointRows),
         Extended(list, longer), NEW f, IsAncestry(f, list), NEW g, IsAncestry(g, longer)
  PROVE  \A i \in 0..Len(list) : g[i] = f[i]
<1> DEFINE T == {i \in 0..Len(list) : g[i] # f[i]}
           Old(i) == {k \in ParentsAmong(list, i) : k < i}
<1>1. /\ Len(list) \in Nat /\ Len(longer) \in Nat /\ Len(list) <= Len(longer)
      /\ \A i \in 0..Len(list) : ParentsAmong(longer, i) = ParentsAmong(list, i)
      /\ \A i \in 0..Len(list) : ParentsAmong(list, i) \subseteq Nat
  <2>1. \A i \in DOMAIN list : list[i] \in CheckpointRows
    OBVIOUS
  <2> QED
    BY <2>1, ExtendedParents DEF Extended, ParentsAmong, CheckpointRows
<1>2. ASSUME NEW i \in 0..Len(list)
      PROVE  f[i] = {i} \cup UNION {f[j] : j \in Old(i)} /\ g[i] = {i} \cup UNION {g[j] : j \in Old(i)}
  <2>1. i \in 0..Len(longer) /\ ParentsAmong(longer, i) = ParentsAmong(list, i)
    BY <1>1
  <2>2. g[i] = {i} \cup UNION {g[j] : j \in {k \in ParentsAmong(longer, i) : k < i}}
    BY <2>1 DEF IsAncestry
  <2>3. f[i] = {i} \cup UNION {f[j] : j \in Old(i)}
    BY DEF IsAncestry
  <2> QED
    BY <2>1, <2>2, <2>3
<1>3. ASSUME T # {} PROVE FALSE
  <2>1. T \subseteq Nat
    BY <1>1
  <2>2. PICK n \in T : \A m \in T : n <= m
    BY <1>3, <2>1, LeastNumber
  <2>3. n \in 0..Len(list) /\ n \in Nat /\ g[n] # f[n]
    BY <1>1, <2>2
  <2>4. ASSUME NEW j \in Old(n) PROVE g[j] = f[j]
    <3>1. j \in 0..Len(list) /\ j \in Nat /\ j < n
      BY <1>1, <2>3
    <3>2. j \notin T
      <4> HIDE DEF T
      <4> QED
        BY <2>2, <2>3, <3>1
    <3> QED
      BY <3>1, <3>2
  <2>5. {g[j] : j \in Old(n)} = {f[j] : j \in Old(n)}
    BY <2>4
  <2> QED
    BY <1>2, <2>3, <2>5
<1> QED
  BY <1>3

\* and what a search finds, which ends where it ended.
LEMMA SearchKept ==
  ASSUME NEW list \in Seq(CheckpointRows), NEW longer \in Seq(CheckpointRows),
         Extended(list, longer), OlderParents(list), OlderParents(longer),
         NEW id \in 0..Len(list), NEW f, IsSearch(f, list, id), NEW g, IsSearch(g, longer, id)
  PROVE  /\ \A n \in 0..Len(list) : g[n] = f[n]
         /\ \A n \in 0..Len(longer) : n > Len(list) => g[n] = {}
<1> DEFINE T == {n \in 0..Len(list) : g[n] # f[n]}
<1>1. /\ Len(list) \in Nat /\ Len(longer) \in Nat /\ Len(list) <= Len(longer) /\ id \in Nat
      /\ \A i \in 0..Len(list) : ParentsAmong(longer, i) = ParentsAmong(list, i)
  BY ExtendedParents DEF Extended
<1>2. /\ \A n \in 0..Len(list) : f[n] \subseteq 1..(id - n)
      /\ \A n \in 0..Len(longer) : g[n] \subseteq 1..(id - n)
  BY <1>1, SearchGoesDown
<1>3. ASSUME NEW n \in 0..Len(list)
      PROVE  /\ f[n] = IF n = 0 THEN {id} \ {0} ELSE UNION {ParentsAmong(list, i) : i \in f[n - 1]}
             /\ g[n] = IF n = 0 THEN {id} \ {0} ELSE UNION {ParentsAmong(longer, i) : i \in g[n - 1]}
  <2>1. n \in 0..Len(longer)
    BY <1>1
  <2>2. f[n] = IF n = 0 THEN {id} \ {0} ELSE UNION {ParentsAmong(list, i) : i \in f[n - 1]}
    BY DEF IsSearch
  <2>3. g[n] = IF n = 0 THEN {id} \ {0} ELSE UNION {ParentsAmong(longer, i) : i \in g[n - 1]}
    BY <2>1 DEF IsSearch
  <2> QED
    BY <2>2, <2>3
<1>4. ASSUME T # {} PROVE FALSE
  <2>1. T \subseteq Nat
    BY <1>1
  <2>2. PICK n \in T : \A m \in T : n <= m
    BY <1>4, <2>1, LeastNumber
  <2>3. n \in 0..Len(list) /\ n \in Nat /\ g[n] # f[n]
    BY <1>1, <2>2
  <2>4. n # 0
    BY <1>3, <2>3
  <2>5. n - 1 \in 0..Len(list)
    BY <1>1, <2>3, <2>4
  <2>6. n - 1 \notin T
    <3> HIDE DEF T
    <3> QED
      BY <2>2, <2>3
  <2>7. g[n - 1] = f[n - 1]
    BY <2>5, <2>6
  <2>8. \A i \in f[n - 1] : ParentsAmong(longer, i) = ParentsAmong(list, i)
    <3>1. f[n - 1] \subseteq 0..Len(list)
      BY <1>1, <1>2, <2>5
    <3> QED
      BY <1>1, <3>1
  <2>9. {ParentsAmong(longer, i) : i \in f[n - 1]} = {ParentsAmong(list, i) : i \in f[n - 1]}
    BY <2>8
  <2> QED
    BY <1>3, <2>3, <2>4, <2>7, <2>9
<1>5. ASSUME NEW n \in 0..Len(longer), n > Len(list) PROVE g[n] = {}
  <2>1. 1..(id - n) = {}
    BY <1>1, <1>5
  <2> QED
    BY <1>2, <2>1
<1> QED
  BY <1>4, <1>5

\* A checkpoint that is added changes no ancestors of those there were, and no
\* merge base.
LEMMA HistoryKept ==
  ASSUME checkpoints \in Seq(CheckpointRows), checkpoints' \in Seq(CheckpointRows),
         Extended(checkpoints, checkpoints'), ParentsOlder, ParentsOlder',
         NEW a \in 0..Len(checkpoints), NEW b \in 0..Len(checkpoints)
  PROVE  Ancestors(a)' = Ancestors(a) /\ CommonAncestors(a, b)' = CommonAncestors(a, b)
<1>1. /\ IsAncestry(AncestorSets, checkpoints) /\ IsSearch(Generation(b), checkpoints, b)
      /\ OlderParents(checkpoints) /\ OlderParents(checkpoints')
      /\ Len(checkpoints) \in Nat /\ Len(checkpoints') \in Nat /\ Len(checkpoints) <= Len(checkpoints')
  BY GraphIsWalked DEF WalksAreRight, ParentsOlder, OlderParents, Extended
<1>2. IsAncestry(AncestorSets', checkpoints') /\ IsSearch(Generation(b)', checkpoints', b)
  BY GraphIsWalkedNext DEF WalksAreRight
<1>3. Ancestors(a)' = Ancestors(a)
  <2>1. AncestorSets'[a] = AncestorSets[a]
    BY <1>1, <1>2, AncestryKept
  <2> QED
    BY <2>1 DEF Ancestors
<1>4. /\ \A n \in 0..Len(checkpoints) : Generation(b)'[n] = Generation(b)[n]
      /\ \A n \in 0..Len(checkpoints') : n > Len(checkpoints) => Generation(b)'[n] = {}
  BY <1>1, <1>2, SearchKept
<1>5. DOMAIN Generation(b) = 0..Len(checkpoints) /\ DOMAIN (Generation(b)') = 0..Len(checkpoints')
  BY <1>1, <1>2 DEF IsSearch
<1> DEFINE found == {n \in DOMAIN Generation(b) : Generation(b)[n] \cap Ancestors(a) # {}}
           foundNext == {n \in DOMAIN (Generation(b)') : Generation(b)'[n] \cap Ancestors(a)' # {}}
<1>6. foundNext = found
  BY <1>1, <1>3, <1>4, <1>5
<1>7. CASE found = {}
  <2>1. CommonAncestors(a, b) = {0}
    BY <1>7 DEF CommonAncestors
  <2>2. foundNext = {}
    BY <1>6, <1>7
  <2>3. CommonAncestors(a, b)' = {0}
    BY <2>2 DEF CommonAncestors
  <2> QED
    BY <1>3, <2>1, <2>3
<1>8. CASE found # {}
  <2> DEFINE nearest == CHOOSE n \in found : \A m \in found : n <= m
  <2>1. \E n \in found : \A m \in found : n <= m
    <3>1. found \subseteq Nat
      BY <1>1, <1>5
    <3> QED
      BY <1>8, <3>1, LeastNumber
  <2>2. nearest \in found
    BY <2>1
  <2>3. Generation(b)'[nearest] = Generation(b)[nearest]
    BY <1>4, <1>5, <2>2
  <2>4. CommonAncestors(a, b) = Generation(b)[nearest] \cap Ancestors(a)
    BY <1>8 DEF CommonAncestors
  <2>5. CommonAncestors(a, b)' = Generation(b)'[nearest] \cap Ancestors(a)'
    BY <1>6, <1>8 DEF CommonAncestors
  <2> QED
    BY <1>3, <2>3, <2>4, <2>5
<1> QED
  BY <1>3, <1>7, <1>8

\* A merge base is an ancestor of the source, or there is none.
LEMMA BasesAreAncestors ==
  ASSUME NEW a, NEW b
  PROVE  CommonAncestors(a, b) \subseteq {0} \cup Ancestors(a)
BY DEF CommonAncestors

\* Merge bases are checkpoints.
LEMMA BasesExist ==
  ASSUME checkpoints \in Seq(CheckpointRows), ParentsOlder,
         NEW a, NEW b \in 0..Len(checkpoints)
  PROVE  CommonAncestors(a, b) \subseteq 0..Len(checkpoints)
<1>1. /\ OlderParents(checkpoints) /\ Len(checkpoints) \in Nat
      /\ IsSearch(Generation(b), checkpoints, b)
  BY GraphIsWalked DEF WalksAreRight, ParentsOlder, OlderParents
<1> DEFINE found == {n \in DOMAIN Generation(b) : Generation(b)[n] \cap Ancestors(a) # {}}
           nearest == CHOOSE n \in found : \A m \in found : n <= m
<1>2. DOMAIN Generation(b) = 0..Len(checkpoints)
  BY <1>1 DEF IsSearch
<1>3. CASE found = {}
  BY <1>1, <1>3 DEF CommonAncestors
<1>4. CASE found # {}
  <2>1. \E n \in found : \A m \in found : n <= m
    <3>1. found \subseteq Nat
      BY <1>1, <1>2
    <3> QED
      BY <1>4, <3>1, LeastNumber
  <2>2. nearest \in found
    BY <2>1
  <2>3. Generation(b)[nearest] \subseteq 1..(b - nearest)
    BY <1>1, <1>2, <2>2, SearchGoesDown
  <2>4. 1..(b - nearest) \subseteq 0..Len(checkpoints)
    BY <1>1, <1>2, <2>2
  <2>5. CommonAncestors(a, b) = Generation(b)[nearest] \cap Ancestors(a)
    BY <1>4 DEF CommonAncestors
  <2> QED
    BY <2>3, <2>4, <2>5
<1> QED
  BY <1>3, <1>4

-----------------------------------------------------------------------------
(* Merges                                                                    *)

MergeOf(source, base) ==
  /\ base \in Bases(source) /\ ConflictsWith(source, base) = {}
  /\ AppendCheckpoint(Merged(base, heads[source], ActiveHead), {ActiveHead, heads[source]})

\* Checkpoints are written one at a time, by a commit or by a merge.
LEMMA CheckpointSteps ==
  ASSUME [Next]_vars
  PROVE  \/ UNCHANGED checkpoints
         \/ WriteCheckpoint
         \/ \E source \in Streams : \E base \in Bases(source) : MergeOf(source, base)
<1>1. ASSUME NEW source \in Streams, Integrate(source)
      PROVE  UNCHANGED checkpoints \/ \E base \in Bases(source) : MergeOf(source, base)
  BY <1>1 DEF Integrate, Integrated, Begin, MergeOf
<1>2. ASSUME Command
      PROVE  UNCHANGED checkpoints \/ \E source \in Streams : Integrate(source)
  BY <1>2 DEF Command, Initialize, InitializeStep, Edit, StagePaths, UnstagePaths, Commit, Checkout,
              CreateWorkstream, Restore, Revert, Crash, Begin
<1>3. ASSUME TaskStep PROVE UNCHANGED checkpoints \/ WriteCheckpoint
  BY <1>3 DEF TaskStep, WriteHead, WriteActiveHead, MoveHead, ClearStage, WriteState, Applied,
              RestoreTask, StageAll, ApplyFile
<1>4. \/ UNCHANGED checkpoints
      \/ WriteCheckpoint
      \/ \E source \in Streams : Integrate(source)
  BY <1>2, <1>3
     DEF Next, vars, repoVars, PlainCommand, CommitChange, CheckoutOperation, Checkout, IntegrateOperation,
         RecordConflict, RestoreOperation, ResolveConflict, UndoOperation, RecordChange, MarkResolved,
         AppendOperation, OperationCrash, Begin
<1> QED
  BY <1>1, <1>4

\* The property of one merge
MergeKeeps(m) ==
  \A a, b \in checkpoints[m].parents :
    a # b => \A p \in Paths :
      checkpoints[m].tree[p] # TreeOf(a)[p] =>
        /\ checkpoints[m].tree[p] = TreeOf(b)[p]
        /\ \E base \in CommonAncestors(a, b) \cup CommonAncestors(b, a) :
             TreeOf(a)[p] = TreeOf(base)[p]

LEMMA MergesStep ==
  ASSUME RepositoryInvariant, RepositoryInvariant', MergesLoseNoChange, [Next]_vars
  PROVE  MergesLoseNoChange'
<1>1. /\ checkpoints \in Seq(CheckpointRows) /\ checkpoints' \in Seq(CheckpointRows)
      /\ ParentsOlder /\ ParentsOlder' /\ TypeOK
      /\ Len(checkpoints) \in Nat /\ DOMAIN checkpoints = 1..Len(checkpoints)
  BY DEF RepositoryInvariant, Sound, TypeOK, RepoTypeOK, CheckpointRows
<1>2. ASSUME Extended(checkpoints, checkpoints'), NEW m \in DOMAIN checkpoints
      PROVE  MergeKeeps(m)' /\ m \in DOMAIN checkpoints'
  <2>1. /\ checkpoints'[m] = checkpoints[m] /\ m \in DOMAIN checkpoints'
        /\ checkpoints[m].parents \subseteq 0..Len(checkpoints)
        /\ DOMAIN checkpoints \subseteq DOMAIN checkpoints'
    BY <1>1, <1>2 DEF ParentsOlder, Extended
  <2>2. SUFFICES ASSUME NEW a \in checkpoints[m].parents, NEW b \in checkpoints[m].parents, a # b,
                        NEW p \in Paths, checkpoints[m].tree[p] # TreeOf(a)'[p]
                 PROVE  /\ checkpoints[m].tree[p] = TreeOf(b)'[p]
                        /\ \E base \in CommonAncestors(a, b)' \cup CommonAncestors(b, a)' :
                             TreeOf(a)'[p] = TreeOf(base)'[p]
    BY <2>1 DEF MergeKeeps
  <2>3. a \in 0..Len(checkpoints) /\ b \in 0..Len(checkpoints)
    BY <2>1
  <2>4. \A id \in 0..Len(checkpoints) : TreeOf(id)' = TreeOf(id)
    BY <1>1, <1>2, <2>1 DEF TreeOf, NoFiles, Extended
  <2>5. CommonAncestors(a, b)' = CommonAncestors(a, b) /\ CommonAncestors(b, a)' = CommonAncestors(b, a)
    BY <1>1, <1>2, <2>3, HistoryKept
  <2>6. CommonAncestors(a, b) \cup CommonAncestors(b, a) \subseteq 0..Len(checkpoints)
    BY <1>1, <2>3, BasesExist
  <2>7. /\ checkpoints[m].tree[p] = TreeOf(b)[p]
        /\ \E base \in CommonAncestors(a, b) \cup CommonAncestors(b, a) : TreeOf(a)[p] = TreeOf(base)[p]
    BY <2>2, <2>3, <2>4 DEF MergesLoseNoChange
  <2> QED
    BY <2>1, <2>3, <2>4, <2>5, <2>6, <2>7
<1>3. PICK new \in Nat : new = Len(checkpoints) + 1
  BY <1>1
<1>6. ASSUME NEW t \in Trees, NEW parents \in SUBSET Nat, AppendCheckpoint(t, parents),
             MergeKeeps(new)'
      PROVE  MergesLoseNoChange'
  <2>1. /\ DOMAIN checkpoints' = 1..new /\ Len(checkpoints') = new
        /\ \A i \in DOMAIN checkpoints : checkpoints'[i] = checkpoints[i]
    BY <1>1, <1>3, <1>6, CheckpointAppended
  <2>2. Extended(checkpoints, checkpoints')
    BY <1>1, <1>3, <2>1 DEF Extended
  <2>3. \A m \in DOMAIN checkpoints' : m \in DOMAIN checkpoints \/ m = new
    BY <1>1, <1>3, <2>1
  <2>4. \A m \in DOMAIN checkpoints' : MergeKeeps(m)'
    <3> SUFFICES ASSUME NEW m \in DOMAIN checkpoints' PROVE MergeKeeps(m)'
      OBVIOUS
    <3> QED
      BY <1>2, <1>6, <2>2, <2>3
  <2> QED
    BY <2>4 DEF MergesLoseNoChange, MergeKeeps
<1>7. CASE UNCHANGED checkpoints
  <2>1. Extended(checkpoints, checkpoints')
    BY <1>1, <1>7 DEF Extended
  <2>2. \A m \in DOMAIN checkpoints' : MergeKeeps(m)'
    BY <1>2, <1>7, <2>1
  <2> QED
    BY <2>2 DEF MergesLoseNoChange, MergeKeeps
<1>4. CASE WriteCheckpoint
  <2>1. PICK t \in Trees : AppendCheckpoint(t, {ActiveHead})
    BY <1>1, <1>4, TreesAreTotal DEF WriteCheckpoint, TypeOK, RepoTypeOK
  <2>2. {ActiveHead} \in SUBSET Nat
    BY <1>1, TreesAreTotal
  <2>3. checkpoints'[new].parents = {ActiveHead} \ {0}
    BY <1>1, <1>3, <2>1, <2>2, CheckpointAppended
  <2>4. MergeKeeps(new)'
    BY <1>1, <2>3 DEF MergeKeeps
  <2> QED
    BY <1>6, <2>1, <2>2, <2>4
<1>5. ASSUME NEW source \in Streams, NEW base, MergeOf(source, base) PROVE MergesLoseNoChange'
  <2> DEFINE merged == Merged(base, heads[source], ActiveHead)
  <2>1. PICK from \in 0..Len(checkpoints), into \in 0..Len(checkpoints) :
          from = heads[source] /\ into = ActiveHead
    BY DEF RepositoryInvariant, Sound, HeadsExist, ActiveHead, TypeOK, RepoTypeOK
  <2>2. base \in CommonAncestors(from, into) /\ base \in 0..Len(checkpoints)
    BY <1>1, <1>5, <2>1, BasesExist DEF MergeOf, Bases
  <2>3. merged \in Trees /\ {into, from} \in SUBSET Nat
    <3>1. \A id \in 0..Len(checkpoints) : TreeOf(id) \in Trees
      BY <1>1, TreesAreTotal
    <3> QED
      BY <2>1, <2>2, <3>1 DEF Merged, Trees
  <2>4. AppendCheckpoint(merged, {into, from})
    BY <1>5, <2>1 DEF MergeOf
  <2>5. /\ DOMAIN checkpoints' = 1..new /\ Len(checkpoints') = new
        /\ \A i \in DOMAIN checkpoints : checkpoints'[i] = checkpoints[i]
        /\ checkpoints'[new].tree = merged /\ checkpoints'[new].parents = {into, from} \ {0}
    BY <1>1, <1>3, <2>3, <2>4, CheckpointAppended
  <2>6. Extended(checkpoints, checkpoints')
    BY <1>1, <1>3, <2>5 DEF Extended
  <2>7. base \in CommonAncestors(from, into)'
    BY <1>1, <2>1, <2>2, <2>6, HistoryKept
  <2>8. \A id \in 0..Len(checkpoints) : TreeOf(id)' = TreeOf(id)
    BY <1>1, <1>3, <2>5 DEF TreeOf, NoFiles
  <2>9. ASSUME NEW p \in Paths
        PROVE  /\ merged[p] # TreeOf(into)[p] => merged[p] = TreeOf(from)[p] /\ TreeOf(into)[p] = TreeOf(base)[p]
               /\ merged[p] # TreeOf(from)[p] => merged[p] = TreeOf(into)[p] /\ TreeOf(from)[p] = TreeOf(base)[p]
    BY <1>5, <2>1 DEF MergeOf, ConflictsWith, Conflicts, Changed, Merged
  <2> HIDE DEF merged
  <2>10. MergeKeeps(new)'
    <3> SUFFICES ASSUME NEW a \in {into, from}, NEW b \in {into, from}, a # b,
                        NEW p \in Paths, merged[p] # TreeOf(a)'[p]
                 PROVE  /\ merged[p] = TreeOf(b)'[p]
                        /\ \E o \in CommonAncestors(a, b)' \cup CommonAncestors(b, a)' :
                             TreeOf(a)'[p] = TreeOf(o)'[p]
      BY <2>5 DEF MergeKeeps
    <3>1. /\ TreeOf(into)' = TreeOf(into) /\ TreeOf(from)' = TreeOf(from) /\ TreeOf(base)' = TreeOf(base)
      BY <2>1, <2>2, <2>8
    <3>2. CASE a = into /\ b = from
      BY <2>7, <2>9, <3>1, <3>2
    <3>3. CASE a = from /\ b = into
      BY <2>7, <2>9, <3>1, <3>3
    <3> QED
      BY <3>2, <3>3
  <2> QED
    BY <1>6, <2>3, <2>4, <2>10
<1> QED
  BY <1>4, <1>5, <1>7, CheckpointSteps

\* A merge takes each file from a parent that changed it since a common ancestor:
\* where it differs from one parent, it has the file of the other, and the first
\* parent has left that file as it was in the ancestor.
THEOREM MergesKeepBothSides == Spec => []MergesLoseNoChange
<1>1. Init => MergesLoseNoChange
  BY DEF Init, RepoInit, MergesLoseNoChange
<1>2. RepositoryInvariant /\ RepositoryInvariant' /\ MergesLoseNoChange /\ [Next]_vars => MergesLoseNoChange'
  BY MergesStep
<1> QED
  BY <1>1, <1>2, RepositoryInvariantHolds, PTL DEF Spec

-----------------------------------------------------------------------------
(* Operations under way                                                      *)

\* An integration ends at a head that descends from the head it started from:
\* it has still to write this head, or has written it.
IntegrationUnderWay ==
  pending.type = "integrate" =>
    /\ active = pending.before.stream
    /\ \E h \in 0..Len(checkpoints) :
         /\ pending.before.head \in {0} \cup Ancestors(h)
         /\ \/ /\ todo \in {<<>>, <<Do("apply", active, h)>>}
               /\ ActiveHead = h
            \/ todo \in {<<Do("head", active, h)>>,
                         <<Do("head", active, h), Do("apply", active, h)>>,
                         <<Do("apply", active, h), Do("head", active, h)>>}

\* What an undo does in the workstream: nothing when there was no head, and the
\* restore of the head there was otherwise.
LastOfUndo(before) ==
  IF before.head = 0 THEN <<>> ELSE <<Do("restore", before.stream, before.head)>>

\* Where there was no head, the files are those that were there.
Back(before, files) == before.head = 0 => files = before.source

\* An undo first enters the workstream of the operation, unless it is there,
UndoEnters(before) ==
  LET s == before.stream IN
  /\ Back(before, TreeOf(heads[s]))
  /\ \/ todo = <<Do("apply", s, heads[s]), Do("clearStage", s, 0), Do("activate", s, 0)>>
               \o LastOfUndo(before)
     \/ /\ todo = <<Do("clearStage", s, 0), Do("activate", s, 0)>> \o LastOfUndo(before)
        /\ tree = TreeOf(heads[s])
     \/ /\ todo = <<Do("activate", s, 0)>> \o LastOfUndo(before)
        /\ tree = TreeOf(heads[s]) /\ StageEmpty

\* and, the work tree being clean, needs no protection checkpoint to restore it.
UndoRestores(before) ==
  LET s == before.stream
      h == before.head
  IN /\ h # 0 /\ active = s
     /\ \/ todo = <<Do("apply", s, h), Do("clearStage", s, 0), Do("activeHead", s, h)>>
        \/ todo = <<Do("clearStage", s, 0), Do("activeHead", s, h)>> /\ tree = TreeOf(h)
        \/ todo = <<Do("activeHead", s, h)>> /\ tree = TreeOf(h) /\ StageEmpty
        \/ todo = <<>> /\ ActiveHead = h /\ Clean

UndoUnderWay ==
  pending.type = "undo" =>
    LET before == log[pending.about].before IN
    /\ pending.about \in DOMAIN log
    /\ \/ UndoEnters(before)
       \/ todo = LastOfUndo(before) /\ active = before.stream /\ Clean /\ Back(before, tree)
       \/ UndoRestores(before)

\* The steps that begin an integration or an undo, or that make one of its writes
LEMMA OperationSteps ==
  ASSUME [Next]_vars, TypeOK, pending'.type \in {"integrate", "undo"}
  PROVE  \/ UNCHANGED vars
         \/ pending' = pending /\ log' = log /\ (TaskStep \/ RecordChange \/ MarkResolved)
         \/ pending'.type = "integrate" /\ \E source \in Streams : IntegrateOperation(source)
         \/ pending'.type = "undo" /\ \E i \in DOMAIN log : UndoOperation(i) /\ Start("undo", i)
<1>1. ASSUME pending' = None PROVE FALSE
  BY <1>1 DEF None
<1>2. ASSUME NEW type, NEW about, Start(type, about) PROVE pending'.type = type
  BY <1>2 DEF Start, Operation
<1>3. ASSUME NEW i \in DOMAIN log, UndoOperation(i)
      PROVE  Start("undo", i)
  <2>1. Start("undo", i) \/ UNCHANGED <<records, pending>>
    BY <1>3 DEF UndoOperation
  <2> QED
    BY <1>1, <1>3, <2>1 DEF UndoOperation, Free
<1>4. CASE \E i \in DOMAIN log : UndoOperation(i)
  BY <1>2, <1>3, <1>4
<1>5. CASE \E s \in Streams : IntegrateOperation(s)
  BY <1>2, <1>5 DEF IntegrateOperation
<1>6. CASE TaskStep /\ UNCHANGED <<records, pending>>
  BY <1>6 DEF records
<1>7. CASE RecordChange
  BY <1>7 DEF RecordChange, records
<1>8. CASE MarkResolved
  BY <1>8 DEF MarkResolved
<1>9. CASE \E s \in Streams : CheckoutOperation(s)
  BY <1>2, <1>9 DEF CheckoutOperation
<1>10. CASE \E id \in DOMAIN checkpoints : RestoreOperation(id)
  BY <1>2, <1>10 DEF RestoreOperation
<1>11. CASE CommitChange
  BY <1>2, <1>11 DEF CommitChange
<1> QED
  BY <1>1, <1>4, <1>5, <1>6, <1>7, <1>8, <1>9, <1>10, <1>11
     DEF Next, PlainCommand, RecordConflict, ResolveConflict, AppendOperation, OperationCrash, Free

\* A checkpoint is an ancestor of itself, and so are its parents.
AncestorsReach ==
  checkpoints \in Seq(CheckpointRows) /\ ParentsOlder =>
    \A id \in 1..Len(checkpoints) :
      id \in Ancestors(id) /\ \A parent \in Parents(id) : parent \in Ancestors(id)

LEMMA ParentsAreAncestors == AncestorsReach
<1> SUFFICES ASSUME checkpoints \in Seq(CheckpointRows), ParentsOlder, NEW id \in 1..Len(checkpoints)
             PROVE  id \in Ancestors(id) /\ \A parent \in Parents(id) : parent \in Ancestors(id)
  BY DEF AncestorsReach
<1>1. /\ Len(checkpoints) \in Nat /\ DOMAIN checkpoints = 1..Len(checkpoints)
      /\ \A i : Parents(i) = ParentsAmong(checkpoints, i)
      /\ Parents(id) \subseteq 1..(id - 1)
  BY DEF ParentsOlder, Parents, ParentsAmong
<1>2. \A i \in 0..Len(checkpoints) :
        AncestorSets[i] = {i} \cup UNION {AncestorSets[j] : j \in {k \in Parents(i) : k < i}}
  <2>1. IsAncestry(AncestorSets, checkpoints)
    BY GraphIsWalked DEF WalksAreRight
  <2> QED
    BY <1>1, <2>1 DEF IsAncestry
<1>3. Ancestors(id) = AncestorSets[id] /\ id \in 0..Len(checkpoints)
  BY <1>1 DEF Ancestors
<1>4. ASSUME NEW parent \in Parents(id) PROVE parent \in Ancestors(id)
  <2>1. parent \in 0..Len(checkpoints) /\ parent < id
    BY <1>1
  <2>2. parent \in AncestorSets[parent]
    BY <1>2, <2>1
  <2>3. AncestorSets[parent] \subseteq AncestorSets[id]
    BY <1>2, <1>3, <2>1
  <2> QED
    BY <1>3, <2>2, <2>3
<1> QED
  BY <1>2, <1>3, <1>4

LEMMA ParentsAreAncestorsNext == AncestorsReach'
BY ParentsAreAncestors, PTL

\* Ancestors do not change with what is not the checkpoints.
LEMMA AncestorsUnchanged ==
  ASSUME TypeOK, ParentsOlder, UNCHANGED checkpoints, NEW id \in 0..Len(checkpoints)
  PROVE  Ancestors(id)' = Ancestors(id)
<1>1. checkpoints \in Seq(CheckpointRows) /\ Len(checkpoints) \in Nat
  BY DEF TypeOK, RepoTypeOK, CheckpointRows
<1>2. Extended(checkpoints, checkpoints') /\ ParentsOlder' /\ checkpoints' \in Seq(CheckpointRows)
  BY <1>1 DEF Extended, ParentsOlder
<1> QED
  BY <1>1, <1>2, HistoryKept

\* The steps of a command whose tasks neither write a checkpoint nor restore one
LEMMA PlainTasks ==
  ASSUME TypeOK, TaskStep, Head(todo).do \in {"apply", "head"}
  PROVE  /\ UNCHANGED <<checkpoints, active>>
         /\ \/ todo' = todo /\ UNCHANGED heads
            \/ Head(todo).do = "apply" /\ todo' = Tail(todo) /\ UNCHANGED heads
            \/ /\ Head(todo).do = "head" /\ todo' = Tail(todo)
               /\ heads' = [heads EXCEPT ![Head(todo).stream] = Head(todo).id]
BY DEF TaskStep, WriteCheckpoint, WriteHead, WriteActiveHead, MoveHead, ClearStage, WriteState, Applied,
       RestoreTask, StageAll, ApplyFile, Next1

LEMMA IntegrationStep ==
  ASSUME RepositoryInvariant, RepositoryInvariant', IntegrationUnderWay, [Next]_vars
  PROVE  IntegrationUnderWay'
<1> SUFFICES ASSUME pending'.type = "integrate" PROVE IntegrationUnderWay'
  BY DEF IntegrationUnderWay
<1>1. /\ TypeOK /\ ParentsOlder /\ ParentsOlder' /\ active \in Streams /\ heads \in [Streams -> Nat]
      /\ checkpoints \in Seq(CheckpointRows) /\ checkpoints' \in Seq(CheckpointRows)
      /\ Len(checkpoints) \in Nat /\ ActiveHead \in 0..Len(checkpoints)
  <2>1. TypeOK /\ ParentsOlder /\ HeadsExist
    BY DEF RepositoryInvariant, Sound
  <2>2. ParentsOlder' /\ RepoTypeOK'
    BY DEF RepositoryInvariant, Sound, TypeOK
  <2>3. /\ active \in Streams /\ heads \in [Streams -> Nat]
        /\ checkpoints \in Seq(CheckpointRows) /\ Len(checkpoints) \in Nat
    BY <2>1 DEF TypeOK, RepoTypeOK, CheckpointRows
  <2>4. checkpoints' \in Seq(CheckpointRows)
    BY <2>2 DEF RepoTypeOK, CheckpointRows
  <2>5. ActiveHead \in 0..Len(checkpoints)
    BY <2>1, <2>3 DEF HeadsExist, ActiveHead
  <2> QED
    BY <2>1, <2>2, <2>3, <2>4, <2>5
<1>2. CASE UNCHANGED vars
  <2>1. UNCHANGED <<checkpoints, active, heads, todo, pending>>
    BY <1>2 DEF vars, repoVars
  <2>2. \A id \in 0..Len(checkpoints) : Ancestors(id)' = Ancestors(id)
    BY <1>1, <2>1, AncestorsUnchanged
  <2> QED
    BY <2>1, <2>2 DEF IntegrationUnderWay, ActiveHead
<1>3. CASE pending' = pending /\ (TaskStep \/ RecordChange \/ MarkResolved)
  <2>1. active = pending.before.stream
    BY <1>3 DEF IntegrationUnderWay
  <2>2. PICK h \in 0..Len(checkpoints) :
          /\ pending.before.head \in {0} \cup Ancestors(h)
          /\ \/ todo \in {<<>>, <<Do("apply", active, h)>>} /\ ActiveHead = h
             \/ todo \in {<<Do("head", active, h)>>,
                          <<Do("head", active, h), Do("apply", active, h)>>,
                          <<Do("apply", active, h), Do("head", active, h)>>}
    BY <1>3 DEF IntegrationUnderWay
  <2>3. todo # <<>>
    BY <1>3 DEF TaskStep, WriteCheckpoint, WriteHead, WriteActiveHead, ClearStage, WriteState, Applied,
                RestoreTask, StageAll, ApplyFile, RecordChange, MarkResolved, Next1
  <2>4. /\ Do("apply", active, h).do = "apply" /\ Do("head", active, h).do = "head"
        /\ Do("head", active, h).stream = active /\ Do("head", active, h).id = h
    BY DEF Do
  <2>5. Head(todo).do \in {"apply", "head"}
    BY <2>2, <2>3, <2>4
  <2>6. TaskStep
    BY <1>3, <2>5 DEF RecordChange, MarkResolved, Next1
  <2>7. UNCHANGED <<checkpoints, active>>
    BY <1>1, <2>5, <2>6, PlainTasks
  <2>8. Ancestors(h)' = Ancestors(h)
    BY <1>1, <2>7, AncestorsUnchanged
  <2>9. \/ todo' \in {<<>>, <<Do("apply", active, h)>>} /\ ActiveHead' = h
        \/ todo' \in {<<Do("head", active, h)>>,
                      <<Do("head", active, h), Do("apply", active, h)>>,
                      <<Do("apply", active, h), Do("head", active, h)>>}
    <3>1. CASE todo = <<Do("apply", active, h)>> /\ ActiveHead = h
      BY <1>1, <2>4, <2>5, <2>6, <3>1, PlainTasks DEF ActiveHead
    <3>2. CASE todo = <<Do("head", active, h)>>
      BY <1>1, <2>4, <2>5, <2>6, <3>2, PlainTasks DEF ActiveHead
    <3>3. CASE todo = <<Do("head", active, h), Do("apply", active, h)>>
      BY <1>1, <2>4, <2>5, <2>6, <3>3, PlainTasks DEF ActiveHead
    <3>4. CASE todo = <<Do("apply", active, h), Do("head", active, h)>>
      BY <1>1, <2>4, <2>5, <2>6, <3>4, PlainTasks DEF ActiveHead
    <3> QED
      BY <2>2, <2>3, <3>1, <3>2, <3>3, <3>4
  <2> QED
    BY <1>3, <2>1, <2>2, <2>7, <2>8, <2>9 DEF IntegrationUnderWay
<1>4. ASSUME NEW source \in Streams, IntegrateOperation(source) PROVE IntegrationUnderWay'
  <2>1. pending'.before.stream = active /\ pending'.before.head = ActiveHead /\ Integrate(source)
    BY <1>4 DEF IntegrateOperation, Start, Operation, Snapshot
  <2>2. PICK base \in Bases(source) : Integrated(source, base)
    BY <2>1 DEF Integrate
  <2>3. PICK from \in 0..Len(checkpoints), into \in 0..Len(checkpoints) :
          from = heads[source] /\ into = ActiveHead
    BY <1>1 DEF RepositoryInvariant, Sound, HeadsExist
  <2>4. CASE from = 0
    <3>1. todo' = <<>> /\ UNCHANGED <<checkpoints, active, heads>>
      BY <2>2, <2>3, <2>4 DEF Integrated, Begin
    <3>2. ActiveHead' = into /\ into \in {0} \cup Ancestors(into)
      BY <1>1, <2>3, <3>1, ParentsAreAncestors DEF AncestorsReach, ActiveHead
    <3>3. Ancestors(into)' = Ancestors(into)
      BY <1>1, <3>1, AncestorsUnchanged
    <3> QED
      BY <2>1, <2>3, <3>1, <3>2, <3>3 DEF IntegrationUnderWay
  <2>5. CASE from # 0 /\ base = into
    <3>1. /\ todo' = <<Do("apply", active, from), Do("head", active, from)>>
          /\ UNCHANGED <<checkpoints, active, heads>>
      BY <2>2, <2>3, <2>5 DEF Integrated, Begin
    <3>2. into \in {0} \cup Ancestors(from)
      BY <2>2, <2>3, <2>5, BasesAreAncestors DEF Bases
    <3>3. Ancestors(from)' = Ancestors(from)
      BY <1>1, <3>1, AncestorsUnchanged
    <3> QED
      BY <2>1, <2>3, <3>1, <3>2, <3>3 DEF IntegrationUnderWay
  <2>6. CASE from # 0 /\ base # into
    <3>1. PICK new \in Nat : new = Len(checkpoints) + 1
      BY <1>1
    <3>2. /\ todo' = <<Do("head", active, new), Do("apply", active, new)>> /\ UNCHANGED active
          /\ AppendCheckpoint(Merged(base, from, into), {into, from})
      BY <2>2, <2>3, <2>6, <3>1 DEF Integrated
    <3>3. Len(checkpoints') = new /\ new \in DOMAIN checkpoints' /\ checkpoints'[new].parents = {into, from} \ {0}
      BY <1>1, <3>1, <3>2 DEF AppendCheckpoint
    <3>4. into \in {0} \cup Ancestors(new)'
      <4>1. new \in 1..Len(checkpoints')
        BY <1>1, <3>1, <3>3
      <4>2. \A parent \in Parents(new)' : parent \in Ancestors(new)'
        BY <1>1, <4>1, ParentsAreAncestorsNext DEF AncestorsReach
      <4>3. Parents(new)' = {into, from} \ {0}
        BY <3>3 DEF Parents
      <4> QED
        BY <4>2, <4>3
    <3> QED
      BY <2>1, <2>3, <3>1, <3>2, <3>3, <3>4 DEF IntegrationUnderWay
  <2> QED
    BY <2>4, <2>5, <2>6
<1> QED
  BY <1>1, <1>2, <1>3, <1>4, OperationSteps

\* What an integration that is recorded did: the head it started from, where there
\* was one, is an ancestor of the head it ended with.
THEOREM IntegrationsMoveForward == Spec => IntegrationMovesForward
<1> DEFINE Forward == (AppendOperation /\ pending.type = "integrate") =>
                        /\ active = pending.before.stream
                        /\ pending.before.head \in {0} \cup Ancestors(ActiveHead)
<1>1. Init => IntegrationUnderWay
  BY DEF Init, None, IntegrationUnderWay
<1>2. RepositoryInvariant /\ RepositoryInvariant' /\ IntegrationUnderWay /\ [Next]_vars => IntegrationUnderWay'
  BY IntegrationStep
<1>3. IntegrationUnderWay => [Forward]_vars
  <2> SUFFICES ASSUME IntegrationUnderWay, AppendOperation, pending.type = "integrate"
               PROVE  /\ active = pending.before.stream
                      /\ pending.before.head \in {0} \cup Ancestors(ActiveHead)
    OBVIOUS
  <2>1. todo = <<>>
    BY DEF AppendOperation
  <2> QED
    BY <2>1 DEF IntegrationUnderWay
<1> QED
  BY <1>1, <1>2, <1>3, RepositoryInvariantHolds, PTL DEF Spec, IntegrationMovesForward

\* The first task of a list, and the tasks after it
LEMMA FirstOfThree ==
  ASSUME NEW rest \in Seq(Tasks), NEW a \in Tasks, NEW b \in Tasks, NEW c \in Tasks
  PROVE  Head(<<a, b, c>> \o rest) = a /\ Tail(<<a, b, c>> \o rest) = <<b, c>> \o rest
<1> DEFINE list == <<a, b, c>> \o rest
           left == <<b, c>> \o rest
<1>1. /\ list \in Seq(Tasks) /\ left \in Seq(Tasks) /\ Len(rest) \in Nat
      /\ Len(list) = Len(rest) + 3 /\ Len(left) = Len(rest) + 2
  OBVIOUS
<1>2. \A k \in 1..(Len(rest) + 3) : list[k] = IF k <= 3 THEN <<a, b, c>>[k] ELSE rest[k - 3]
  OBVIOUS
<1>3. \A k \in 1..(Len(rest) + 2) : left[k] = IF k <= 2 THEN <<b, c>>[k] ELSE rest[k - 2]
  OBVIOUS
<1>4. Head(list) = a /\ \A k \in 1..(Len(rest) + 2) : list[k + 1] = left[k]
  BY <1>1, <1>2, <1>3
<1> HIDE DEF list, left
<1>5. Head(list) = a /\ Tail(list) = left
  BY <1>1, <1>4
<1> QED
  BY <1>5 DEF list, left

LEMMA FirstOfTwo ==
  ASSUME NEW rest \in Seq(Tasks), NEW a \in Tasks, NEW b \in Tasks
  PROVE  Head(<<a, b>> \o rest) = a /\ Tail(<<a, b>> \o rest) = <<b>> \o rest
<1> DEFINE list == <<a, b>> \o rest
           left == <<b>> \o rest
<1>1. /\ list \in Seq(Tasks) /\ left \in Seq(Tasks) /\ Len(rest) \in Nat
      /\ Len(list) = Len(rest) + 2 /\ Len(left) = Len(rest) + 1
  OBVIOUS
<1>2. \A k \in 1..(Len(rest) + 2) : list[k] = IF k <= 2 THEN <<a, b>>[k] ELSE rest[k - 2]
  OBVIOUS
<1>3. \A k \in 1..(Len(rest) + 1) : left[k] = IF k <= 1 THEN <<b>>[k] ELSE rest[k - 1]
  OBVIOUS
<1>4. Head(list) = a /\ \A k \in 1..(Len(rest) + 1) : list[k + 1] = left[k]
  BY <1>1, <1>2, <1>3
<1> HIDE DEF list, left
<1>5. Head(list) = a /\ Tail(list) = left
  BY <1>1, <1>4
<1> QED
  BY <1>5 DEF list, left

LEMMA FirstOfOne ==
  ASSUME NEW rest \in Seq(Tasks), NEW a \in Tasks
  PROVE  Head(<<a>> \o rest) = a /\ Tail(<<a>> \o rest) = rest
<1> DEFINE list == <<a>> \o rest
           left == rest
<1>1. /\ list \in Seq(Tasks) /\ left \in Seq(Tasks) /\ Len(rest) \in Nat
      /\ Len(list) = Len(rest) + 1 /\ Len(left) = Len(rest)
  OBVIOUS
<1>2. \A k \in 1..(Len(rest) + 1) : list[k] = IF k <= 1 THEN <<a>>[k] ELSE rest[k - 1]
  OBVIOUS
<1>3. \A k \in 1..(Len(rest)) : left[k] = rest[k]
  OBVIOUS
<1>4. Head(list) = a /\ \A k \in 1..(Len(rest)) : list[k + 1] = left[k]
  BY <1>1, <1>2, <1>3
<1> HIDE DEF list, left
<1>5. Head(list) = a /\ Tail(list) = left
  BY <1>1, <1>4
<1> QED
  BY <1>5 DEF list, left

\* The steps of the tasks of an undo
LEMMA UndoTasks ==
  ASSUME TypeOK, TaskStep
  PROVE  /\ Head(todo).do = "apply" =>
              /\ UNCHANGED <<stage, checkpoints, heads, active>>
              /\ \/ todo' = todo
                 \/ todo' = Tail(todo) /\ UNCHANGED tree /\ tree = TreeOf(Head(todo).id)
         /\ Head(todo).do = "clearStage" =>
              /\ UNCHANGED <<tree, checkpoints, heads, active>>
              /\ todo' = Tail(todo) /\ StageEmpty'
         /\ Head(todo).do = "activate" =>
              /\ UNCHANGED <<tree, stage, checkpoints, heads>>
              /\ todo' = Tail(todo) /\ active' = Head(todo).stream
         /\ Head(todo).do = "activeHead" =>
              /\ UNCHANGED <<tree, stage, checkpoints, active>>
              /\ todo' = Tail(todo) /\ heads' = [heads EXCEPT ![active] = Head(todo).id]
         /\ Head(todo).do = "restore" =>
              /\ UNCHANGED <<tree, stage, checkpoints, heads, active>>
              /\ Clean => todo' = <<>> \o <<Do("apply", active, Head(todo).id),
                                            Do("clearStage", active, 0),
                                            Do("activeHead", active, Head(todo).id)>> \o Tail(todo)
BY DEF TaskStep, WriteCheckpoint, WriteHead, WriteActiveHead, MoveHead, ClearStage, WriteState, Applied,
       RestoreTask, StageAll, ApplyFile, Next1, StageEmpty

\* With the files of the head and nothing staged, the work tree is clean.
CleanWhenBare == TypeOK /\ StageEmpty /\ tree = HeadTree => Clean

LEMMA BareIsClean == CleanWhenBare
<1> SUFFICES ASSUME TypeOK, StageEmpty, tree = HeadTree PROVE StagedTree = HeadTree
  BY DEF CleanWhenBare, Clean
<1>1. HeadTree \in Trees
  BY TreesAreTotal
<1> QED
  BY <1>1 DEF StageEmpty, StagedTree, Trees

LEMMA BareIsCleanNext == CleanWhenBare'
BY BareIsClean, PTL

LEMMA CleanKept ==
  ASSUME Clean, UNCHANGED <<tree, stage, checkpoints, heads, active>>
  PROVE  Clean'
BY DEF Clean, StagedTree, HeadTree, TreeOf, NoFiles, ActiveHead

\* The log holds snapshots.
LogRows == [before : Snapshots, resolves : Nat]
LEMMA SnapshotsLogged ==
  ASSUME TypeOK, NEW i \in DOMAIN log
  PROVE  log[i].before \in Snapshots
<1>1. log \in Seq(LogRows)
  BY DEF TypeOK, LogRows
<1>2. log[i] \in LogRows
  BY <1>1
<1> QED
  BY <1>2 DEF LogRows

\* While an undo enters the workstream there is a task to do.
LEMMA EnterHeads ==
  ASSUME TypeOK, NEW before \in Snapshots, UndoEnters(before)
  PROVE  todo # <<>> /\ Head(todo).do \in {"apply", "clearStage", "activate"}
<1> DEFINE s == before.stream
           rest == LastOfUndo(before)
           apply == Do("apply", s, heads[s])
           clear == Do("clearStage", s, 0)
           enter == Do("activate", s, 0)
<1>1. s \in Streams /\ before.head \in Nat /\ heads[s] \in Nat
  BY DEF Snapshots, TypeOK, RepoTypeOK
<1>2. apply \in Tasks /\ clear \in Tasks /\ enter \in Tasks
  BY <1>1, DoIsTask DEF Verbs
<1>3. rest \in Seq(Tasks)
  BY <1>1, DoIsTask DEF LastOfUndo, Verbs
<1>4. apply.do = "apply" /\ clear.do = "clearStage" /\ enter.do = "activate"
  BY DEF Do
<1> HIDE DEF apply, clear, enter, rest
<1>5. CASE todo = <<apply, clear, enter>> \o rest
  <2>1. Head(todo) = apply /\ todo # <<>>
    BY <1>2, <1>3, <1>5, FirstOfThree
  <2> QED
    BY <1>4, <2>1
<1>6. CASE todo = <<clear, enter>> \o rest
  <2>1. Head(todo) = clear /\ todo # <<>>
    BY <1>2, <1>3, <1>6, FirstOfTwo
  <2> QED
    BY <1>4, <2>1
<1>7. CASE todo = <<enter>> \o rest
  <2>1. Head(todo) = enter /\ todo # <<>>
    BY <1>2, <1>3, <1>7, FirstOfOne
  <2> QED
    BY <1>4, <2>1
<1> QED
  BY <1>5, <1>6, <1>7 DEF UndoEnters, apply, clear, enter, rest

\* The undo of one snapshot, while it enters the workstream
LEMMA EnterStep ==
  ASSUME TypeOK, TypeOK', NEW before \in Snapshots, UndoEnters(before), TaskStep
  PROVE  \/ UndoEnters(before)'
         \/ /\ todo' = LastOfUndo(before) /\ active' = before.stream
            /\ Clean' /\ Back(before, tree')
<1> DEFINE s == before.stream
           rest == LastOfUndo(before)
           apply == Do("apply", s, heads[s])
           clear == Do("clearStage", s, 0)
           enter == Do("activate", s, 0)
<1>1. s \in Streams /\ before.head \in Nat /\ heads[s] \in Nat
  BY DEF Snapshots, TypeOK, RepoTypeOK
<1>2. apply \in Tasks /\ clear \in Tasks /\ enter \in Tasks
  BY <1>1, DoIsTask DEF Verbs
<1>3. rest \in Seq(Tasks)
  BY <1>1, DoIsTask DEF LastOfUndo, Verbs
<1>4. /\ apply.do = "apply" /\ apply.id = heads[s] /\ clear.do = "clearStage"
      /\ enter.do = "activate" /\ enter.stream = s
  BY DEF Do
<1> HIDE DEF apply, clear, enter, rest
<1>5. /\ Head(<<apply, clear, enter>> \o rest) = apply
      /\ Tail(<<apply, clear, enter>> \o rest) = <<clear, enter>> \o rest
      /\ Head(<<clear, enter>> \o rest) = clear /\ Tail(<<clear, enter>> \o rest) = <<enter>> \o rest
      /\ Head(<<enter>> \o rest) = enter /\ Tail(<<enter>> \o rest) = rest
  <2>1. /\ Head(<<apply, clear, enter>> \o rest) = apply
        /\ Tail(<<apply, clear, enter>> \o rest) = <<clear, enter>> \o rest
    BY <1>2, <1>3, FirstOfThree
  <2>2. Head(<<clear, enter>> \o rest) = clear /\ Tail(<<clear, enter>> \o rest) = <<enter>> \o rest
    BY <1>2, <1>3, FirstOfTwo
  <2>3. Head(<<enter>> \o rest) = enter /\ Tail(<<enter>> \o rest) = rest
    BY <1>2, <1>3, FirstOfOne
  <2> QED
    BY <2>1, <2>2, <2>3
<1>6. Back(before, TreeOf(heads[s]))
  BY DEF UndoEnters
<1>7. UNCHANGED <<checkpoints, heads>> => TreeOf(heads[s])' = TreeOf(heads[s])
  BY DEF TreeOf, NoFiles
<1>8. CASE todo = <<apply, clear, enter>> \o rest
  <2>1. /\ UNCHANGED <<stage, checkpoints, heads, active>>
        /\ \/ todo' = todo
           \/ todo' = Tail(todo) /\ UNCHANGED tree /\ tree = TreeOf(heads[s])
    <3>1. Head(todo).do = "apply" /\ Head(todo).id = heads[s]
      BY <1>4, <1>5, <1>8
    <3> QED
      BY <3>1, UndoTasks
  <2> QED
    BY <1>5, <1>6, <1>7, <1>8, <2>1 DEF UndoEnters, Back, apply, clear, enter, rest
<1>9. CASE todo = <<clear, enter>> \o rest /\ tree = TreeOf(heads[s])
  <2>1. UNCHANGED <<tree, checkpoints, heads, active>> /\ todo' = Tail(todo) /\ StageEmpty'
    BY <1>4, <1>5, <1>9, UndoTasks
  <2> QED
    BY <1>5, <1>6, <1>7, <1>9, <2>1 DEF UndoEnters, Back, clear, enter, rest
<1>10. CASE todo = <<enter>> \o rest /\ tree = TreeOf(heads[s]) /\ StageEmpty
  <2>1. /\ UNCHANGED <<tree, stage, checkpoints, heads>> /\ todo' = rest /\ active' = s
    BY <1>4, <1>5, <1>10, UndoTasks
  <2>2. StageEmpty' /\ tree' = HeadTree'
    BY <1>7, <1>10, <2>1 DEF StageEmpty, HeadTree, ActiveHead
  <2>3. Clean'
    BY <2>2, BareIsCleanNext DEF CleanWhenBare
  <2>4. Back(before, tree')
    BY <1>6, <1>10, <2>1
  <2> QED
    BY <2>1, <2>3, <2>4 DEF rest
<1> QED
  BY <1>8, <1>9, <1>10 DEF UndoEnters, apply, clear, enter, rest

\* and while it restores the head of the snapshot
LEMMA RestoreStep ==
  ASSUME TypeOK, TypeOK', NEW before \in Snapshots, UndoRestores(before), TaskStep
  PROVE  UndoRestores(before)'
<1> DEFINE s == before.stream
           h == before.head
           apply == Do("apply", s, h)
           clear == Do("clearStage", s, 0)
           move == Do("activeHead", s, h)
<1>1. s \in Streams /\ h \in Nat /\ heads \in [Streams -> Nat] /\ h # 0 /\ active = s
  BY DEF Snapshots, TypeOK, RepoTypeOK, UndoRestores
<1>2. /\ apply.do = "apply" /\ apply.id = h /\ clear.do = "clearStage"
      /\ move.do = "activeHead" /\ move.id = h
  BY DEF Do
<1>3. UNCHANGED checkpoints => TreeOf(h)' = TreeOf(h)
  BY DEF TreeOf, NoFiles
<1>4. todo # <<>>
  BY DEF TaskStep, WriteCheckpoint, WriteHead, WriteActiveHead, ClearStage, WriteState, Applied,
         RestoreTask, StageAll, ApplyFile, Next1
<1> HIDE DEF apply, clear, move
<1>5. CASE todo = <<apply, clear, move>>
  <2>1. /\ UNCHANGED <<stage, checkpoints, heads, active>>
        /\ \/ todo' = todo
           \/ todo' = <<clear, move>> /\ UNCHANGED tree /\ tree = TreeOf(h)
    <3>1. Head(todo).do = "apply" /\ Head(todo).id = h /\ Tail(todo) = <<clear, move>>
      BY <1>2, <1>5
    <3> QED
      BY <3>1, UndoTasks
  <2> QED
    BY <1>1, <1>3, <1>5, <2>1 DEF UndoRestores, apply, clear, move
<1>6. CASE todo = <<clear, move>> /\ tree = TreeOf(h)
  <2>1. UNCHANGED <<tree, checkpoints, heads, active>> /\ todo' = <<move>> /\ StageEmpty'
    BY <1>2, <1>6, UndoTasks
  <2> QED
    BY <1>1, <1>3, <1>6, <2>1 DEF UndoRestores, move
<1>7. CASE todo = <<move>> /\ tree = TreeOf(h) /\ StageEmpty
  <2>1. /\ UNCHANGED <<tree, stage, checkpoints, active>> /\ todo' = <<>>
        /\ heads' = [heads EXCEPT ![active] = h]
    BY <1>2, <1>7, UndoTasks
  <2>2. ActiveHead' = h /\ StageEmpty' /\ tree' = HeadTree'
    BY <1>1, <1>3, <1>7, <2>1 DEF ActiveHead, StageEmpty, HeadTree
  <2>3. Clean'
    BY <2>2, BareIsCleanNext DEF CleanWhenBare
  <2> QED
    BY <1>1, <2>1, <2>2, <2>3 DEF UndoRestores
<1> QED
  BY <1>4, <1>5, <1>6, <1>7 DEF UndoRestores, apply, clear, move

\* The first step of an undo finds a clean work tree.
LEMMA UndoBegins ==
  ASSUME TypeOK, NEW i \in DOMAIN log, UndoOperation(i), Start("undo", i)
  PROVE  UndoUnderWay'
<1>1. PICK before \in Snapshots : before = log[i].before
  BY SnapshotsLogged
<1>2. /\ Clean /\ pending = None /\ log' = log /\ pending'.about = i
      /\ UNCHANGED <<tree, stage, checkpoints, heads, active>>
  BY DEF UndoOperation, Free, Start, records, Operation, Begin
<1>3. pending' # pending
  BY <1>2 DEF Start, Operation, None
<1> DEFINE s == before.stream
           h == before.head
           enter == IF s = active THEN <<>> ELSE CheckoutTasks(s)
<1>4. s \in Streams /\ h \in Nat /\ heads[s] \in Nat /\ tree \in Trees
  BY DEF Snapshots, TypeOK, RepoTypeOK
<1>5. /\ todo' = enter \o LastOfUndo(before)
      /\ h = 0 => (IF s = active THEN tree ELSE TreeOf(heads[s])) = before.source
  <2>1. CASE h = 0
    <3>1. todo' = enter
      BY <1>1, <2>1 DEF UndoOperation, Begin
    <3>2. enter \in Seq(Tasks)
      BY <1>4, DoIsTask DEF CheckoutTasks, Verbs
    <3>3. enter \o <<>> = enter
      BY <3>2
    <3>4. (IF s = active THEN tree ELSE TreeOf(heads[s])) = before.source
      BY <1>1, <1>3, <2>1 DEF UndoOperation
    <3> QED
      BY <2>1, <3>1, <3>3, <3>4 DEF LastOfUndo
  <2>2. CASE h # 0
    BY <1>1, <2>2 DEF UndoOperation, Begin, LastOfUndo
  <2> QED
    BY <2>1, <2>2
<1>6. Clean'
  BY <1>2, CleanKept
<1>7. TreeOf(heads[s])' = TreeOf(heads[s])
  BY <1>2 DEF TreeOf, NoFiles
<1>8. CASE s = active
  <2>1. LastOfUndo(before) \in Seq(Tasks)
    BY <1>4, DoIsTask DEF LastOfUndo, Verbs
  <2>2. todo' = LastOfUndo(before)
    BY <1>5, <1>8, <2>1
  <2>3. Back(before, tree')
    BY <1>2, <1>5, <1>8 DEF Back
  <2> QED
    BY <1>1, <1>2, <1>6, <1>8, <2>2, <2>3 DEF UndoUnderWay
<1>9. CASE s # active
  <2>1. UndoEnters(before)'
    BY <1>2, <1>5, <1>7, <1>9 DEF UndoEnters, CheckoutTasks, Back, LastOfUndo
  <2> QED
    BY <1>1, <1>2, <2>1 DEF UndoUnderWay
<1> QED
  BY <1>8, <1>9

LEMMA UndoStep ==
  ASSUME TypeOK, TypeOK', UndoUnderWay, [Next]_vars
  PROVE  UndoUnderWay'
<1> SUFFICES ASSUME pending'.type = "undo" PROVE UndoUnderWay'
  BY DEF UndoUnderWay
<1>1. CASE UNCHANGED vars
  BY <1>1 DEF UndoUnderWay, vars, repoVars, UndoEnters, UndoRestores, Clean, StagedTree, HeadTree, TreeOf,
              NoFiles, ActiveHead, StageEmpty
<1>2. CASE pending' = pending /\ log' = log /\ (TaskStep \/ RecordChange \/ MarkResolved)
  <2>1. pending.about \in DOMAIN log
    BY <1>2 DEF UndoUnderWay
  <2>2. PICK before \in Snapshots : before = log[pending.about].before
    BY <2>1, SnapshotsLogged
  <2>3. \/ UndoEnters(before)
        \/ todo = LastOfUndo(before) /\ active = before.stream /\ Clean /\ Back(before, tree)
        \/ UndoRestores(before)
    BY <1>2, <2>2 DEF UndoUnderWay
  <2>4. SUFFICES \/ UndoEnters(before)'
                 \/ todo' = LastOfUndo(before) /\ active' = before.stream /\ Clean' /\ Back(before, tree')
                 \/ UndoRestores(before)'
    BY <1>2, <2>1, <2>2 DEF UndoUnderWay
  <2>5. TaskStep
    <3>1. ASSUME RecordChange \/ MarkResolved PROVE FALSE
      <4> DEFINE s == before.stream
                 h == before.head
      <4>1. todo # <<>> /\ Head(todo).do \in {"record", "resolve"}
        BY <3>1 DEF RecordChange, MarkResolved, Next1
      <4>2. CASE UndoEnters(before)
        BY <4>1, <4>2, EnterHeads
      <4>3. CASE todo = LastOfUndo(before)
        BY <4>1, <4>3 DEF LastOfUndo, Do
      <4>4. CASE UndoRestores(before)
        BY <4>1, <4>4 DEF UndoRestores, Do
      <4> QED
        BY <2>3, <4>2, <4>3, <4>4
    <3> QED
      BY <1>2, <3>1
  <2>6. CASE UndoEnters(before)
    BY <2>5, <2>6, EnterStep
  <2>7. CASE UndoRestores(before)
    BY <2>5, <2>7, RestoreStep
  <2>8. CASE todo = LastOfUndo(before) /\ active = before.stream /\ Clean /\ Back(before, tree)
    <3> DEFINE s == before.stream
               h == before.head
               replace == <<Do("apply", s, h), Do("clearStage", s, 0), Do("activeHead", s, h)>>
    <3>1. todo # <<>>
      BY <2>5 DEF TaskStep, WriteCheckpoint, WriteHead, WriteActiveHead, ClearStage, WriteState, Applied,
                  RestoreTask, StageAll, ApplyFile, Next1
    <3>2. h # 0 /\ todo = <<Do("restore", s, h)>>
      BY <2>8, <3>1 DEF LastOfUndo
    <3>3. Head(todo).do = "restore" /\ Head(todo).id = h /\ Tail(todo) = <<>>
      BY <3>2 DEF Do
    <3>4. active' = active /\ todo' = <<>> \o replace \o <<>>
      BY <2>5, <2>8, <3>3, UndoTasks
    <3>5. s \in Streams /\ h \in Nat
      BY DEF Snapshots
    <3>6. replace \in Seq(Tasks)
      BY <3>5, DoIsTask DEF Verbs
    <3>7. todo' = replace
      <4> HIDE DEF replace
      <4> QED
        BY <3>4, <3>6
    <3> QED
      BY <2>8, <3>2, <3>4, <3>7 DEF UndoRestores
  <2> QED
    BY <2>3, <2>6, <2>7, <2>8
<1>3. ASSUME NEW i \in DOMAIN log, UndoOperation(i), Start("undo", i) PROVE UndoUnderWay'
  BY <1>3, UndoBegins
<1> QED
  BY <1>1, <1>2, <1>3, OperationSteps

\* An undo whose record is written has brought the working copy back to the
\* workstream, the head and the files that the undone operation started from.
THEOREM UndosReturn == Spec => UndoReturns
<1> DEFINE Returns ==
             (AppendOperation /\ pending.type = "undo") =>
               LET before == log[pending.about].before IN
               /\ Clean
               /\ active = before.stream
               /\ ActiveHead = before.head \/ (before.head = 0 /\ tree = before.source)
<1>1. Init => UndoUnderWay
  BY DEF Init, None, UndoUnderWay
<1>2. RepositoryInvariant /\ RepositoryInvariant' /\ UndoUnderWay /\ [Next]_vars => UndoUnderWay'
  BY UndoStep DEF RepositoryInvariant
<1>3. RepositoryInvariant /\ UndoUnderWay => [Returns]_vars
  <2> SUFFICES ASSUME TypeOK, UndoUnderWay, AppendOperation, pending.type = "undo"
               PROVE  LET before == log[pending.about].before IN
                      /\ Clean
                      /\ active = before.stream
                      /\ ActiveHead = before.head \/ (before.head = 0 /\ tree = before.source)
    BY DEF RepositoryInvariant
  <2>1. todo = <<>>
    BY DEF AppendOperation
  <2>2. PICK before \in Snapshots : before = log[pending.about].before
    BY SnapshotsLogged DEF UndoUnderWay
  <2>3. CASE UndoEnters(before)
    BY <2>1, <2>3, EnterHeads
  <2>4. CASE todo = LastOfUndo(before) /\ active = before.stream /\ Clean /\ Back(before, tree)
    BY <2>1, <2>2, <2>4 DEF LastOfUndo, Back
  <2>5. CASE UndoRestores(before)
    BY <2>1, <2>2, <2>5 DEF UndoRestores
  <2> QED
    BY <2>2, <2>3, <2>4, <2>5 DEF UndoUnderWay
<1> QED
  BY <1>1, <1>2, <1>3, RepositoryInvariantHolds, PTL DEF Spec, UndoReturns

=============================================================================
