---------------------------- MODULE CausalProofs ----------------------------
(* The recursive queries and the timeline engine answer causal questions alike, *)
(* for any record that SessionLineage can write.  Both are walks of a graph: what*)
(* a walk reaches in d steps is Reach, and each of the four algorithms is shown  *)
(* to compute it.  Facts about all numbers of steps are proved by their least    *)
(* counterexample.                                                              *)
EXTENDS SessionProofs, CausalQueries

-----------------------------------------------------------------------------
(* What can be reached in steps                                              *)

LessThan == {r \in Nat \X Nat : r[1] < r[2]}

\* A set of numbers that is not empty has a least element.
LEMMA LeastNumber ==
  ASSUME NEW T, T \subseteq Nat, T # {}
  PROVE  \E n \in T : \A m \in T : n <= m
<1>1. IsWellFoundedOn(LessThan, Nat)
  <2>1. LessThan = OpToRel(<, Nat)
    BY DEF OpToRel, LessThan
  <2> QED
    BY <2>1, NatLessThanWellFounded, Zenon
<1>2. \E x \in T : \A y \in T : <<y, x>> \notin LessThan
  BY <1>1, WFMin
<1>3. PICK x \in T : \A y \in T : <<y, x>> \notin LessThan
  BY <1>2
<1>4. ASSUME NEW y \in T PROVE x <= y
  <2>1. x \in Nat /\ y \in Nat /\ <<y, x>> \in Nat \X Nat
    OBVIOUS
  <2>2. ~(y < x)
    BY <1>3, <2>1 DEF LessThan
  <2> QED
    BY <2>1, <2>2
<1> QED
  BY <1>4

\* So a set of numbers with 0, and with the successor of each of its members, has
\* them all.
LEMMA AllNumbers ==
  ASSUME NEW T, 0 \in T, \A n \in Nat : n \in T => n + 1 \in T
  PROVE  Nat \subseteq T
<1>1. ASSUME Nat \ T # {} PROVE FALSE
  <2>1. PICK n \in Nat \ T : \A m \in Nat \ T : n <= m
    BY <1>1, LeastNumber
  <2>2. n # 0 /\ n - 1 \in Nat /\ (n - 1) + 1 = n
    BY <2>1
  <2>3. n - 1 \in T
    <3>1. ~(n <= n - 1)
      BY <2>2
    <3> QED
      BY <2>1, <2>2, <3>1
  <2> QED
    BY <2>1, <2>2, <2>3
<1> QED
  BY <1>1

\* Each node has its next ones; a walk of a depth collects the nodes it comes by.
IsReach(f, next, x, depth) ==
  f = [d \in 0..depth |->
         IF d = 0 THEN {x} ELSE f[d - 1] \cup UNION {next[y] : y \in f[d - 1]}]
Reach(next, x, d) == (CHOOSE f : IsReach(f, next, x, d))[d]

LEMMA ReachExists ==
  ASSUME NEW next, NEW x
  PROVE  \A n \in Nat : \E f : IsReach(f, next, x, n)
<1> DEFINE T == {n \in Nat : \E f : IsReach(f, next, x, n)}
<1>1. 0 \in T
  <2> DEFINE f == [d \in 0..0 |-> {x}]
  <2>1. IsReach(f, next, x, 0)
    BY DEF IsReach
  <2> QED
    BY <2>1
<1>2. ASSUME NEW n \in Nat, n \in T PROVE n + 1 \in T
  <2>1. PICK f : IsReach(f, next, x, n)
    BY <1>2
  <2> DEFINE g == [d \in 0..(n + 1) |-> IF d = n + 1 THEN f[n] \cup UNION {next[y] : y \in f[n]} ELSE f[d]]
  <2>2. ASSUME NEW d \in 0..(n + 1)
        PROVE  g[d] = IF d = 0 THEN {x} ELSE g[d - 1] \cup UNION {next[y] : y \in g[d - 1]}
    <3>1. CASE d = n + 1
      <4>1. g[d - 1] = f[n] /\ d # 0
        BY <3>1
      <4>2. g[d] = f[n] \cup UNION {next[y] : y \in f[n]}
        BY <3>1
      <4> QED
        BY <4>1, <4>2
    <3>2. CASE d # n + 1
      <4>1. d \in 0..n /\ g[d] = f[d]
        BY <3>2
      <4>2. f[d] = IF d = 0 THEN {x} ELSE f[d - 1] \cup UNION {next[y] : y \in f[d - 1]}
        BY <2>1, <4>1 DEF IsReach
      <4>3. d # 0 => g[d - 1] = f[d - 1]
        BY <4>1
      <4> QED
        BY <4>1, <4>2, <4>3
    <3> QED
      BY <3>1, <3>2
  <2>3. IsReach(g, next, x, n + 1)
    <3>1. g = [d \in 0..(n + 1) |-> g[d]]
      OBVIOUS
    <3> HIDE DEF g
    <3> QED
      BY <2>2, <3>1 DEF IsReach
  <2> QED
    BY <2>3
<1>3. Nat \subseteq T
  <2> HIDE DEF T
  <2> QED
    BY <1>1, <1>2, AllNumbers
<1>4. \A n \in T : \E f : IsReach(f, next, x, n)
  BY Zenon
<1> QED
  BY <1>3, <1>4, Zenon

\* A deeper walk begins with the shallower one.
LEMMA ReachAgrees ==
  ASSUME NEW next, NEW x, NEW m \in Nat, NEW n \in Nat, m <= n,
         NEW f, IsReach(f, next, x, m), NEW g, IsReach(g, next, x, n)
  PROVE  \A d \in 0..m : f[d] = g[d]
<1> DEFINE T == {d \in Nat : d <= m => f[d] = g[d]}
<1>1. ASSUME NEW d \in 0..m
      PROVE  /\ f[d] = IF d = 0 THEN {x} ELSE f[d - 1] \cup UNION {next[y] : y \in f[d - 1]}
             /\ g[d] = IF d = 0 THEN {x} ELSE g[d - 1] \cup UNION {next[y] : y \in g[d - 1]}
  <2>1. d \in 0..n
    OBVIOUS
  <2>2. f[d] = IF d = 0 THEN {x} ELSE f[d - 1] \cup UNION {next[y] : y \in f[d - 1]}
    BY DEF IsReach
  <2>3. g[d] = IF d = 0 THEN {x} ELSE g[d - 1] \cup UNION {next[y] : y \in g[d - 1]}
    BY <2>1 DEF IsReach
  <2> QED
    BY <2>2, <2>3
<1>2. 0 \in T
  <2>1. 0 \in 0..m
    OBVIOUS
  <2>2. f[0] = {x} /\ g[0] = {x}
    BY <1>1, <2>1
  <2> QED
    BY <2>2
<1>3. ASSUME NEW d \in Nat, d \in T PROVE d + 1 \in T
  <2>1. CASE d + 1 <= m
    <3>1. f[d] = g[d] /\ d + 1 \in 0..m /\ d + 1 # 0 /\ (d + 1) - 1 = d
      BY <1>3, <2>1
    <3>2. /\ f[d + 1] = f[d] \cup UNION {next[y] : y \in f[d]}
          /\ g[d + 1] = g[d] \cup UNION {next[y] : y \in g[d]}
      BY <1>1, <3>1
    <3>3. f[d + 1] = g[d + 1]
      BY <3>1, <3>2
    <3> QED
      BY <3>3
  <2>2. CASE ~(d + 1 <= m)
    BY <2>2
  <2> QED
    BY <2>1, <2>2
<1>4. Nat \subseteq T
  <2> HIDE DEF T
  <2> QED
    BY <1>2, <1>3, AllNumbers
<1> QED
  BY <1>4

LEMMA ReachIs ==
  ASSUME NEW next, NEW x, NEW n \in Nat, NEW f, IsReach(f, next, x, n)
  PROVE  \A d \in 0..n : f[d] = Reach(next, x, d)
<1> SUFFICES ASSUME NEW d \in 0..n PROVE f[d] = Reach(next, x, d)
  OBVIOUS
<1> DEFINE g == CHOOSE h : IsReach(h, next, x, d)
<1>1. d \in Nat /\ d <= n
  OBVIOUS
<1>2. IsReach(g, next, x, d)
  BY <1>1, ReachExists
<1> HIDE DEF g
<1>3. g[d] = f[d]
  BY <1>1, <1>2, ReachAgrees
<1> QED
  BY <1>3 DEF Reach, g

LEMMA ReachStep ==
  ASSUME NEW next, NEW x, NEW d \in Nat
  PROVE  /\ Reach(next, x, 0) = {x}
         /\ Reach(next, x, d + 1) = Reach(next, x, d) \cup UNION {next[y] : y \in Reach(next, x, d)}
<1>1. PICK f : IsReach(f, next, x, d + 1)
  BY ReachExists
<1>2. f[0] = {x} /\ f[d + 1] = f[d] \cup UNION {next[y] : y \in f[d]}
  BY <1>1 DEF IsReach
<1>3. f[0] = Reach(next, x, 0) /\ f[d] = Reach(next, x, d) /\ f[d + 1] = Reach(next, x, d + 1)
  BY <1>1, ReachIs
<1> QED
  BY <1>2, <1>3

\* Nothing but nodes is reached.
LEMMA ReachTyped ==
  ASSUME NEW V, NEW next \in [V -> SUBSET V], NEW x \in V
  PROVE  \A d \in Nat : Reach(next, x, d) \subseteq V
<1> DEFINE T == {d \in Nat : Reach(next, x, d) \subseteq V}
<1>1. 0 \in T
  BY ReachStep
<1>2. ASSUME NEW d \in Nat, d \in T PROVE d + 1 \in T
  <2>1. \A y \in Reach(next, x, d) : next[y] \subseteq V
    BY <1>2
  <2> QED
    BY <1>2, <2>1, ReachStep
<1>3. Nat \subseteq T
  <2> HIDE DEF T
  <2> QED
    BY <1>1, <1>2, AllNumbers
<1> QED
  BY <1>3

\* A deeper walk comes by no less.
LEMMA ReachGrows ==
  ASSUME NEW next, NEW x, NEW m \in Nat
  PROVE  \A n \in Nat : m <= n => Reach(next, x, m) \subseteq Reach(next, x, n)
<1> DEFINE T == {n \in Nat : m <= n => Reach(next, x, m) \subseteq Reach(next, x, n)}
<1>1. 0 \in T
  OBVIOUS
<1>2. ASSUME NEW n \in Nat, n \in T PROVE n + 1 \in T
  <2>1. Reach(next, x, n) \subseteq Reach(next, x, n + 1)
    BY ReachStep
  <2> QED
    BY <1>2, <2>1
<1>3. Nat \subseteq T
  <2> HIDE DEF T
  <2> QED
    BY <1>1, <1>2, AllNumbers
<1> QED
  BY <1>3

\* A walk may be begun by its first step.
LEMMA ReachFirst ==
  ASSUME NEW V, NEW next \in [V -> SUBSET V]
  PROVE  \A d \in Nat : \A x \in V :
           Reach(next, x, d + 1) = {x} \cup UNION {Reach(next, y, d) : y \in next[x]}
<1> DEFINE T == {d \in Nat : \A x \in V :
                   Reach(next, x, d + 1) = {x} \cup UNION {Reach(next, y, d) : y \in next[x]}}
<1>1. 0 \in T
  <2> SUFFICES ASSUME NEW x \in V
               PROVE  Reach(next, x, 0 + 1) = {x} \cup UNION {Reach(next, y, 0) : y \in next[x]}
    OBVIOUS
  <2>1. Reach(next, x, 0 + 1) = {x} \cup next[x]
    <3>1. Reach(next, x, 0) = {x}
      BY ReachStep
    <3>2. Reach(next, x, 0 + 1) = Reach(next, x, 0) \cup UNION {next[y] : y \in Reach(next, x, 0)}
      BY ReachStep
    <3>3. UNION {next[y] : y \in {x}} = next[x]
      OBVIOUS
    <3> QED
      BY <3>1, <3>2, <3>3
  <2>2. \A y : Reach(next, y, 0) = {y}
    BY ReachStep
  <2>3. UNION {Reach(next, y, 0) : y \in next[x]} = next[x]
    BY <2>2
  <2> QED
    BY <2>1, <2>3
<1>2. ASSUME NEW d \in Nat, d \in T PROVE d + 1 \in T
  <2> SUFFICES ASSUME NEW x \in V
               PROVE  Reach(next, x, (d + 1) + 1) = {x} \cup UNION {Reach(next, y, d + 1) : y \in next[x]}
    OBVIOUS
  <2>1. Reach(next, x, d + 1) = {x} \cup UNION {Reach(next, y, d) : y \in next[x]}
    BY <1>2
  <2>2. Reach(next, x, (d + 1) + 1) =
          Reach(next, x, d + 1) \cup UNION {next[z] : z \in Reach(next, x, d + 1)}
    BY ReachStep
  <2>3. \A y : Reach(next, y, d + 1) = Reach(next, y, d) \cup UNION {next[z] : z \in Reach(next, y, d)}
    BY ReachStep
  <2>4. ASSUME NEW z, z \in Reach(next, x, (d + 1) + 1)
        PROVE  z \in {x} \cup UNION {Reach(next, y, d + 1) : y \in next[x]}
    <3>1. CASE z \in Reach(next, x, d + 1)
      BY <2>1, <2>3, <3>1
    <3>2. CASE z \in UNION {next[w] : w \in Reach(next, x, d + 1)}
      <4>1. PICK w \in Reach(next, x, d + 1) : z \in next[w]
        BY <3>2
      <4>2. CASE w = x
        <5>1. z \in next[x] /\ z \in Reach(next, z, d + 1)
          <6>1. Reach(next, z, 0) = {z} /\ Reach(next, z, 0) \subseteq Reach(next, z, d + 1)
            BY ReachStep, ReachGrows
          <6> QED
            BY <4>1, <4>2, <6>1
        <5> QED
          BY <5>1
      <4>3. CASE w # x
        <5>1. PICK y \in next[x] : w \in Reach(next, y, d)
          BY <2>1, <4>1, <4>3
        <5>2. z \in Reach(next, y, d + 1)
          BY <2>3, <4>1, <5>1
        <5> QED
          BY <5>1, <5>2
      <4> QED
        BY <4>2, <4>3
    <3> QED
      BY <2>2, <2>4, <3>1, <3>2
  <2>5. ASSUME NEW z, z \in {x} \cup UNION {Reach(next, y, d + 1) : y \in next[x]}
        PROVE  z \in Reach(next, x, (d + 1) + 1)
    <3>1. CASE z = x
      BY <2>1, <2>2, <3>1
    <3>2. CASE z # x
      <4>1. PICK y \in next[x] : z \in Reach(next, y, d + 1)
        BY <2>5, <3>2
      <4>2. CASE z \in Reach(next, y, d)
        BY <2>1, <2>2, <4>1, <4>2
      <4>3. CASE z \notin Reach(next, y, d)
        <5>1. PICK w \in Reach(next, y, d) : z \in next[w]
          BY <2>3, <4>1, <4>3
        <5>2. w \in Reach(next, x, d + 1)
          BY <2>1, <4>1, <5>1
        <5> QED
          BY <2>2, <5>1, <5>2
      <4> QED
        BY <4>2, <4>3
    <3> QED
      BY <3>1, <3>2
  <2> QED
    BY <2>4, <2>5
<1>3. Nat \subseteq T
  <2> HIDE DEF T
  <2> QED
    BY <1>1, <1>2, AllNumbers
<1> QED
  BY <1>3

\* A sequence of steps, each of which may depend on its number, can be made.
Stepwise(f, first, step, n) ==
  \A d \in 0..n : f[d] = IF d = 0 THEN first ELSE step[d][f[d - 1]]

LEMMA StepsExist ==
  ASSUME NEW S, NEW first \in S, NEW step \in [Nat -> [S -> S]]
  PROVE  \A n \in Nat : \E f \in [0..n -> S] : Stepwise(f, first, step, n)
<1> DEFINE T == {n \in Nat : \E f \in [0..n -> S] : Stepwise(f, first, step, n)}
<1>1. 0 \in T
  <2> DEFINE f == [d \in 0..0 |-> first]
  <2>1. f \in [0..0 -> S] /\ Stepwise(f, first, step, 0)
    BY DEF Stepwise
  <2> QED
    BY <2>1
<1>2. ASSUME NEW n \in Nat, n \in T PROVE n + 1 \in T
  <2>1. PICK f \in [0..n -> S] : Stepwise(f, first, step, n)
    BY <1>2
  <2> DEFINE g == [d \in 0..(n + 1) |-> IF d = n + 1 THEN step[n + 1][f[n]] ELSE f[d]]
  <2>2. f[n] \in S /\ n + 1 \in Nat /\ step[n + 1] \in [S -> S]
    OBVIOUS
  <2>3. step[n + 1][f[n]] \in S
    BY <2>2
  <2>4. g \in [0..(n + 1) -> S]
    BY <2>3
  <2>5. ASSUME NEW d \in 0..(n + 1)
        PROVE  g[d] = IF d = 0 THEN first ELSE step[d][g[d - 1]]
    <3>1. CASE d = n + 1
      <4>1. g[d - 1] = f[n] /\ d # 0
        BY <3>1
      <4> QED
        BY <3>1, <4>1
    <3>2. CASE d # n + 1
      <4>1. d \in 0..n /\ g[d] = f[d]
        BY <3>2
      <4>2. f[d] = IF d = 0 THEN first ELSE step[d][f[d - 1]]
        BY <2>1, <4>1 DEF Stepwise
      <4>3. d # 0 => g[d - 1] = f[d - 1]
        BY <4>1
      <4> QED
        BY <4>1, <4>2, <4>3
    <3> QED
      BY <3>1, <3>2
  <2> HIDE DEF g
  <2>6. Stepwise(g, first, step, n + 1)
    BY <2>5 DEF Stepwise
  <2> QED
    BY <2>4, <2>6
<1>3. Nat \subseteq T
  <2> HIDE DEF T
  <2> QED
    BY <1>1, <1>2, AllNumbers
<1>4. \A n \in T : \E f \in [0..n -> S] : Stepwise(f, first, step, n)
  BY Zenon
<1> QED
  BY <1>3, <1>4, Zenon

\* What is below a node in one relation has the node below it in the reverse.
LEMMA ReachDual ==
  ASSUME NEW V, NEW up \in [V -> SUBSET V], NEW down \in [V -> SUBSET V],
         \A x, y \in V : y \in up[x] <=> x \in down[y]
  PROVE  \A d \in Nat : \A x, y \in V : y \in Reach(up, x, d) <=> x \in Reach(down, y, d)
<1> DEFINE T == {d \in Nat : \A x, y \in V : y \in Reach(up, x, d) <=> x \in Reach(down, y, d)}
<1>1. 0 \in T
  BY ReachStep
<1>2. ASSUME NEW d \in Nat, d \in T PROVE d + 1 \in T
  <2> SUFFICES ASSUME NEW x \in V, NEW y \in V
               PROVE  y \in Reach(up, x, d + 1) <=> x \in Reach(down, y, d + 1)
    OBVIOUS
  <2>1. \A u, v \in V : v \in Reach(up, u, d) <=> u \in Reach(down, v, d)
    BY <1>2
  <2>2. Reach(up, x, d + 1) = Reach(up, x, d) \cup UNION {up[z] : z \in Reach(up, x, d)}
    BY ReachStep
  <2>3. Reach(down, y, d + 1) = {y} \cup UNION {Reach(down, z, d) : z \in down[y]}
    BY ReachFirst
  <2>4. Reach(up, x, d) \subseteq V /\ down[y] \subseteq V
    BY ReachTyped
  <2>5. Reach(down, y, d) \subseteq Reach(down, y, d + 1) /\ x \in Reach(up, x, d)
    <3>1. Reach(up, x, 0) = {x} /\ Reach(up, x, 0) \subseteq Reach(up, x, d)
      BY ReachStep, ReachGrows
    <3> QED
      BY <3>1, ReachStep
  <2>6. ASSUME y \in Reach(up, x, d + 1) PROVE x \in Reach(down, y, d + 1)
    <3>1. CASE y \in Reach(up, x, d)
      BY <2>1, <2>5, <3>1
    <3>2. CASE y \notin Reach(up, x, d)
      <4>1. PICK z \in Reach(up, x, d) : y \in up[z]
        BY <2>2, <2>6, <3>2
      <4>2. z \in V /\ z \in down[y] /\ x \in Reach(down, z, d)
        BY <2>1, <2>4, <4>1
      <4> QED
        BY <2>3, <4>2
    <3> QED
      BY <3>1, <3>2
  <2>7. ASSUME x \in Reach(down, y, d + 1) PROVE y \in Reach(up, x, d + 1)
    <3>1. CASE x = y
      BY <2>2, <2>5, <3>1
    <3>2. CASE x # y
      <4>1. PICK z \in down[y] : x \in Reach(down, z, d)
        BY <2>3, <2>7, <3>2
      <4>2. z \in V /\ y \in up[z] /\ z \in Reach(up, x, d)
        BY <2>1, <2>4, <4>1
      <4> QED
        BY <2>2, <4>2
    <3> QED
      BY <3>1, <3>2
  <2> QED
    BY <2>6, <2>7
<1>3. Nat \subseteq T
  <2> HIDE DEF T
  <2> QED
    BY <1>1, <1>2, AllNumbers
<1> QED
  BY <1>3

\* A walk down numbers ends below where it began.
LEMMA ReachSinks ==
  ASSUME NEW V, V \subseteq Nat, NEW next \in [V -> SUBSET V], NEW x \in V,
         \A y \in V : \A z \in next[y] : z < y
  PROVE  \A d \in Nat : \A y \in Reach(next, x, d) : y \in V /\ y <= x
<1> DEFINE T == {d \in Nat : \A y \in Reach(next, x, d) : y \in V /\ y <= x}
<1>1. 0 \in T
  <2>1. Reach(next, x, 0) = {x} /\ x \in Nat
    BY ReachStep
  <2> QED
    BY <2>1
<1>2. ASSUME NEW d \in Nat, d \in T PROVE d + 1 \in T
  <2>1. Reach(next, x, d + 1) = Reach(next, x, d) \cup UNION {next[y] : y \in Reach(next, x, d)}
    BY ReachStep
  <2>2. ASSUME NEW z \in Reach(next, x, d + 1) PROVE z \in V /\ z <= x
    <3>1. CASE z \in Reach(next, x, d)
      BY <1>2, <3>1
    <3>2. CASE z \notin Reach(next, x, d)
      <4>1. PICK y \in Reach(next, x, d) : z \in next[y]
        BY <2>1, <2>2, <3>2
      <4>2. y \in V /\ y <= x /\ z < y /\ z \in V
        BY <1>2, <4>1
      <4>3. x \in Nat /\ y \in Nat /\ z \in Nat
        BY <4>2
      <4> QED
        BY <4>2, <4>3
    <3> QED
      BY <3>1, <3>2
  <2> QED
    BY <2>2
<1>3. Nat \subseteq T
  <2> HIDE DEF T
  <2> QED
    BY <1>1, <1>2, AllNumbers
<1> QED
  BY <1>3

\* With fewer nodes and fewer next ones, less is reached.
LEMMA ReachNarrows ==
  ASSUME NEW W, NEW V, W \subseteq V, NEW few \in [W -> SUBSET W], NEW many \in [V -> SUBSET V],
         \A y \in W : few[y] \subseteq many[y], NEW x \in W
  PROVE  \A d \in Nat : Reach(few, x, d) \subseteq Reach(many, x, d)
<1> DEFINE T == {d \in Nat : Reach(few, x, d) \subseteq Reach(many, x, d)}
<1>1. 0 \in T
  BY ReachStep
<1>2. ASSUME NEW d \in Nat, d \in T PROVE d + 1 \in T
  <2>1. Reach(few, x, d) \subseteq W
    BY ReachTyped
  <2>2. /\ Reach(few, x, d + 1) = Reach(few, x, d) \cup UNION {few[y] : y \in Reach(few, x, d)}
        /\ Reach(many, x, d + 1) = Reach(many, x, d) \cup UNION {many[y] : y \in Reach(many, x, d)}
    BY ReachStep
  <2>3. \A y \in Reach(few, x, d) : y \in Reach(many, x, d) /\ few[y] \subseteq many[y]
    BY <1>2, <2>1
  <2>4. Reach(few, x, d + 1) \subseteq Reach(many, x, d + 1)
    BY <2>2, <2>3
  <2> QED
    BY <2>4
<1>3. Nat \subseteq T
  <2> HIDE DEF T
  <2> QED
    BY <1>1, <1>2, AllNumbers
<1> QED
  BY <1>3

\* With no more nodes than steps, everything that can be reached is reached.
LEMMA ReachSaturates ==
  ASSUME NEW V, IsFiniteSet(V), NEW next \in [V -> SUBSET V], NEW x \in V
  PROVE  \A d \in Nat : Cardinality(V) <= d => Reach(next, x, d) = Reach(next, x, Cardinality(V))
<1> DEFINE R(d) == Reach(next, x, d)
           T == {d \in Nat : R(d + 1) = R(d) \/ d + 1 <= Cardinality(R(d))}
           U == {d \in Nat : Cardinality(V) <= d => R(d) = R(Cardinality(V))}
<1>1. \A d \in Nat : /\ R(d) \subseteq V /\ IsFiniteSet(R(d))
                     /\ Cardinality(R(d)) \in Nat /\ Cardinality(R(d)) <= Cardinality(V)
  BY ReachTyped, FS_Subset, FS_CardinalityType
<1>2. \A d \in Nat : R(d + 1) = R(d) \cup UNION {next[y] : y \in R(d)}
  BY ReachStep
<1>3. \A d \in Nat : R(d + 1) = R(d) => R((d + 1) + 1) = R(d + 1)
  <2> SUFFICES ASSUME NEW d \in Nat, R(d + 1) = R(d) PROVE R((d + 1) + 1) = R(d + 1)
    OBVIOUS
  <2>1. /\ R(d + 1) = R(d) \cup UNION {next[y] : y \in R(d)}
        /\ R((d + 1) + 1) = R(d + 1) \cup UNION {next[y] : y \in R(d + 1)}
    BY <1>2
  <2> QED
    BY <2>1
<1>4. R(0) = {x}
  BY ReachStep
<1>5. Cardinality(V) \in Nat
  BY FS_CardinalityType
<1> HIDE DEF R
<1>6. 0 \in T
  <2>1. Cardinality(R(0)) = 1
    BY <1>4, FS_Singleton
  <2> QED
    BY <2>1
<1>7. ASSUME NEW d \in Nat, d \in T PROVE d + 1 \in T
  <2>1. CASE R(d + 1) = R(d)
    BY <1>3, <2>1
  <2>2. CASE R(d + 1) # R(d)
    <3>1. d + 1 <= Cardinality(R(d)) /\ d + 1 \in Nat
      BY <1>7, <2>2
    <3>2. /\ Cardinality(R(d)) <= Cardinality(R(d + 1)) /\ Cardinality(R(d)) # Cardinality(R(d + 1))
          /\ Cardinality(R(d)) \in Nat /\ Cardinality(R(d + 1)) \in Nat
      <4>1. R(d) \subseteq R(d + 1)
        BY <1>2
      <4>2. IsFiniteSet(R(d + 1))
        BY <1>1, <3>1
      <4> QED
        BY <1>1, <2>2, <3>1, <4>1, <4>2, FS_Subset
    <3>3. (d + 1) + 1 <= Cardinality(R(d + 1))
      BY <3>1, <3>2
    <3> QED
      BY <3>1, <3>3
  <2> QED
    BY <2>1, <2>2
<1>8. \A d \in T : R(d + 1) = R(d) \/ d + 1 <= Cardinality(R(d))
  OBVIOUS
<1>9. Nat \subseteq T
  <2> HIDE DEF T
  <2> QED
    BY <1>6, <1>7, AllNumbers
<1>10. R(Cardinality(V) + 1) = R(Cardinality(V))
  <2>1. ~(Cardinality(V) + 1 <= Cardinality(R(Cardinality(V))))
    BY <1>1, <1>5
  <2> HIDE DEF T
  <2> QED
    BY <1>5, <1>8, <1>9, <2>1
<1>11. \A d \in Nat : Cardinality(V) <= d /\ R(d) = R(Cardinality(V)) => R(d + 1) = R(Cardinality(V))
  BY <1>2, <1>5, <1>10
<1>12. 0 \in U
  BY <1>5
<1>13. ASSUME NEW d \in Nat, d \in U PROVE d + 1 \in U
  <2>1. CASE Cardinality(V) <= d
    BY <1>11, <1>13, <2>1
  <2>2. CASE ~(Cardinality(V) <= d)
    <3>1. Cardinality(V) <= d + 1 => Cardinality(V) = d + 1
      BY <1>5, <2>2
    <3> QED
      BY <3>1
  <2> QED
    BY <2>1, <2>2
<1>14. Nat \subseteq U
  <2> HIDE DEF U
  <2> QED
    BY <1>12, <1>13, AllNumbers
<1> QED
  BY <1>14 DEF R

-----------------------------------------------------------------------------
(* The causes in a record                                                    *)

Up(visible) == [i \in visible |-> ParentsIn(visible, i)]
Down(visible) == [i \in visible |-> ChildrenIn(visible, i)]

LEMMA UpAndDown ==
  ASSUME NEW visible
  PROVE  /\ Up(visible) \in [visible -> SUBSET visible]
         /\ Down(visible) \in [visible -> SUBSET visible]
         /\ \A i, j \in visible : j \in Up(visible)[i] <=> i \in Down(visible)[j]
BY DEF Up, Down, ParentsIn, ChildrenIn

\* An event has one cause at most, and a cause is recorded before its effects.
LEMMA CausesAreEarlier ==
  ASSUME LineageInvariant
  PROVE  \A i, j \in DOMAIN log : log[j].id = log[i].cause =>
           /\ j < i /\ log[j].session = log[i].session
           /\ \A k \in DOMAIN log : log[k].id = log[i].cause => k = j
<1>1. log \in Seq(Events) /\ EventsSound(log)
  BY DEF LineageInvariant, TypeOK
<1>2. DOMAIN log = 1..Len(log) /\ Len(log) \in Nat /\ \A i \in DOMAIN log : log[i] \in Events
  BY <1>1, LenProperties, ElementOfSeq
<1> SUFFICES ASSUME NEW i \in DOMAIN log, NEW j \in DOMAIN log, log[j].id = log[i].cause
             PROVE  /\ j < i /\ log[j].session = log[i].session
                    /\ \A k \in DOMAIN log : log[k].id = log[i].cause => k = j
  OBVIOUS
<1>3. \A k \in DOMAIN log : log[k].id = log[i].cause => k = j
  BY <1>1 DEF EventsSound
<1>4. log[i].cause # NoEvent
  BY <1>1 DEF EventsSound, WellFormed
<1>5. PICK k \in 1..(i - 1) : log[k].id = log[i].cause /\ log[k].session = log[i].session
  BY <1>1, <1>4 DEF EventsSound
<1>6. k \in DOMAIN log /\ k < i
  BY <1>2, <1>5
<1>7. k = j
  BY <1>3, <1>5, <1>6
<1> QED
  BY <1>3, <1>5, <1>6, <1>7

LEMMA SessionsAreFinite ==
  ASSUME LineageInvariant, NEW s
  PROVE  /\ DOMAIN log = 1..Len(log) /\ Len(log) \in Nat
         /\ \A i \in DOMAIN log : log[i] \in Events
         /\ InSession(s) \subseteq DOMAIN log /\ InSession(s) \subseteq Nat
         /\ IsFiniteSet(InSession(s)) /\ Cardinality(InSession(s)) \in Nat
         /\ Seen(s) \subseteq InSession(s) /\ IsFiniteSet(Seen(s))
         /\ Cardinality(Seen(s)) \in Nat /\ Cardinality(Seen(s)) <= Cardinality(InSession(s))
<1>1. log \in Seq(Events)
  BY DEF LineageInvariant, TypeOK
<1>2. DOMAIN log = 1..Len(log) /\ Len(log) \in Nat /\ \A i \in DOMAIN log : log[i] \in Events
  BY <1>1, LenProperties, ElementOfSeq
<1>3. InSession(s) \subseteq DOMAIN log /\ Seen(s) \subseteq InSession(s)
  BY DEF InSession, Seen
<1>4. IsFiniteSet(DOMAIN log)
  BY <1>2, FS_Interval
<1>5. IsFiniteSet(InSession(s)) /\ IsFiniteSet(Seen(s))
  BY <1>3, <1>4, FS_Subset
<1>6. Cardinality(Seen(s)) <= Cardinality(InSession(s))
  BY <1>3, <1>5, FS_Subset
<1> QED
  BY <1>2, <1>3, <1>5, <1>6, FS_CardinalityType

\* Causes are earlier, in the relation that is walked.
LEMMA UpIsDownward ==
  ASSUME LineageInvariant, NEW visible, visible \subseteq DOMAIN log
  PROVE  \A i \in visible : \A j \in Up(visible)[i] : j < i
BY CausesAreEarlier DEF Up, ParentsIn

-----------------------------------------------------------------------------
(* The recursive queries                                                     *)

\* why finds what is reached through the causes.
LEMMA WhyReaches ==
  ASSUME NEW s, NEW target \in Seen(s), NEW depth \in Nat
  PROVE  Why(s, target, depth) = Reach(Up(Seen(s)), target, depth)
<1> DEFINE up == Up(Seen(s))
           Queried(f) == f = [d \in 0..depth |->
                                IF d = 0 THEN {target}
                                ELSE f[d - 1] \cup UNION {ParentsIn(Seen(s), i) : i \in f[d - 1]}]
           f == CHOOSE g : Queried(g)
<1>1. up \in [Seen(s) -> SUBSET Seen(s)] /\ \A i \in Seen(s) : up[i] = ParentsIn(Seen(s), i)
  BY UpAndDown DEF Up
<1>2. \A d \in Nat : Reach(up, target, d) \subseteq Seen(s)
  BY <1>1, ReachTyped
<1> HIDE DEF up
<1>3. \A found \in SUBSET Seen(s) :
        UNION {ParentsIn(Seen(s), i) : i \in found} = UNION {up[i] : i \in found}
  BY <1>1
<1>4. PICK h : IsReach(h, up, target, depth)
  BY ReachExists
<1>5. ASSUME NEW d \in 0..depth
      PROVE  h[d] = IF d = 0 THEN {target}
                    ELSE h[d - 1] \cup UNION {ParentsIn(Seen(s), i) : i \in h[d - 1]}
  <2>1. h[d] = IF d = 0 THEN {target} ELSE h[d - 1] \cup UNION {up[i] : i \in h[d - 1]}
    BY <1>4 DEF IsReach
  <2>2. ASSUME d # 0 PROVE h[d - 1] \subseteq Seen(s)
    <3>1. d - 1 \in 0..depth /\ d - 1 \in Nat
      BY <2>2
    <3>2. h[d - 1] = Reach(up, target, d - 1)
      BY <1>4, <3>1, ReachIs
    <3> QED
      BY <1>2, <3>1, <3>2
  <2> QED
    BY <1>3, <2>1, <2>2
<1>6. Queried(h)
  <2>1. h = [d \in 0..depth |-> h[d]]
    BY <1>4 DEF IsReach
  <2> QED
    BY <1>5, <2>1
<1>7. Queried(f)
  BY <1>6
<1>8. Why(s, target, depth) = f[depth]
  BY DEF Why
<1> HIDE DEF f
<1> DEFINE T == {d \in Nat : d <= depth => f[d] = Reach(up, target, d)}
<1>9. 0 \in T
  <2>1. 0 \in 0..depth /\ f[0] = {target}
    BY <1>7
  <2>2. f[0] = Reach(up, target, 0)
    BY <2>1, ReachStep
  <2> QED
    BY <2>2
<1>10. ASSUME NEW d \in Nat, d \in T PROVE d + 1 \in T
  <2>1. CASE d + 1 <= depth
    <3>1. d + 1 \in 0..depth /\ (d + 1) - 1 = d /\ d + 1 # 0 /\ d <= depth
      BY <2>1
    <3>2. f[d + 1] = f[d] \cup UNION {ParentsIn(Seen(s), i) : i \in f[d]}
      BY <1>7, <3>1
    <3>3. f[d] = Reach(up, target, d) /\ f[d] \subseteq Seen(s)
      BY <1>2, <1>10, <3>1
    <3>4. f[d + 1] = Reach(up, target, d + 1)
      <4>1. UNION {ParentsIn(Seen(s), i) : i \in f[d]} = UNION {up[i] : i \in f[d]}
        BY <1>3, <3>3
      <4>2. Reach(up, target, d + 1) = Reach(up, target, d) \cup UNION {up[i] : i \in Reach(up, target, d)}
        BY ReachStep
      <4> QED
        BY <3>2, <3>3, <4>1, <4>2
    <3> QED
      BY <3>4
  <2>2. CASE ~(d + 1 <= depth)
    BY <2>2
  <2> QED
    BY <2>1, <2>2
<1>11. Nat \subseteq T
  <2> HIDE DEF T
  <2> QED
    BY <1>9, <1>10, AllNumbers
<1>12. \A d \in T : d <= depth => f[d] = Reach(up, target, d)
  OBVIOUS
<1>13. f[depth] = Reach(up, target, depth)
  <2> HIDE DEF T
  <2> QED
    BY <1>11, <1>12
<1> QED
  BY <1>8, <1>13 DEF up

\* consequences finds what is reached through the effects.
LEMMA ConsequencesReach ==
  ASSUME NEW s, NEW source \in Seen(s), NEW depth \in Nat
  PROVE  Consequences(s, source, depth) = Reach(Down(Seen(s)), source, depth)
<1> DEFINE down == Down(Seen(s))
           Queried(f) == f = [d \in 0..depth |->
                                IF d = 0 THEN {source}
                                ELSE f[d - 1] \cup UNION {ChildrenIn(Seen(s), i) : i \in f[d - 1]}]
           f == CHOOSE g : Queried(g)
<1>1. down \in [Seen(s) -> SUBSET Seen(s)] /\ \A i \in Seen(s) : down[i] = ChildrenIn(Seen(s), i)
  BY UpAndDown DEF Down
<1>2. \A d \in Nat : Reach(down, source, d) \subseteq Seen(s)
  BY <1>1, ReachTyped
<1> HIDE DEF down
<1>3. \A found \in SUBSET Seen(s) :
        UNION {ChildrenIn(Seen(s), i) : i \in found} = UNION {down[i] : i \in found}
  BY <1>1
<1>4. PICK h : IsReach(h, down, source, depth)
  BY ReachExists
<1>5. ASSUME NEW d \in 0..depth
      PROVE  h[d] = IF d = 0 THEN {source}
                    ELSE h[d - 1] \cup UNION {ChildrenIn(Seen(s), i) : i \in h[d - 1]}
  <2>1. h[d] = IF d = 0 THEN {source} ELSE h[d - 1] \cup UNION {down[i] : i \in h[d - 1]}
    BY <1>4 DEF IsReach
  <2>2. ASSUME d # 0 PROVE h[d - 1] \subseteq Seen(s)
    <3>1. d - 1 \in 0..depth /\ d - 1 \in Nat
      BY <2>2
    <3>2. h[d - 1] = Reach(down, source, d - 1)
      BY <1>4, <3>1, ReachIs
    <3> QED
      BY <1>2, <3>1, <3>2
  <2> QED
    BY <1>3, <2>1, <2>2
<1>6. Queried(h)
  <2>1. h = [d \in 0..depth |-> h[d]]
    BY <1>4 DEF IsReach
  <2> QED
    BY <1>5, <2>1
<1>7. Queried(f)
  BY <1>6
<1>8. Consequences(s, source, depth) = f[depth]
  BY DEF Consequences
<1> HIDE DEF f
<1> DEFINE T == {d \in Nat : d <= depth => f[d] = Reach(down, source, d)}
<1>9. 0 \in T
  <2>1. 0 \in 0..depth /\ f[0] = {source}
    BY <1>7
  <2>2. f[0] = Reach(down, source, 0)
    BY <2>1, ReachStep
  <2> QED
    BY <2>2
<1>10. ASSUME NEW d \in Nat, d \in T PROVE d + 1 \in T
  <2>1. CASE d + 1 <= depth
    <3>1. d + 1 \in 0..depth /\ (d + 1) - 1 = d /\ d + 1 # 0 /\ d <= depth
      BY <2>1
    <3>2. f[d + 1] = f[d] \cup UNION {ChildrenIn(Seen(s), i) : i \in f[d]}
      BY <1>7, <3>1
    <3>3. f[d] = Reach(down, source, d) /\ f[d] \subseteq Seen(s)
      BY <1>2, <1>10, <3>1
    <3>4. f[d + 1] = Reach(down, source, d + 1)
      <4>1. UNION {ChildrenIn(Seen(s), i) : i \in f[d]} = UNION {down[i] : i \in f[d]}
        BY <1>3, <3>3
      <4>2. Reach(down, source, d + 1) = Reach(down, source, d) \cup UNION {down[i] : i \in Reach(down, source, d)}
        BY ReachStep
      <4> QED
        BY <3>2, <3>3, <4>1, <4>2
    <3> QED
      BY <3>4
  <2>2. CASE ~(d + 1 <= depth)
    BY <2>2
  <2> QED
    BY <2>1, <2>2
<1>11. Nat \subseteq T
  <2> HIDE DEF T
  <2> QED
    BY <1>9, <1>10, AllNumbers
<1>12. \A d \in T : d <= depth => f[d] = Reach(down, source, d)
  OBVIOUS
<1>13. f[depth] = Reach(down, source, depth)
  <2> HIDE DEF T
  <2> QED
    BY <1>11, <1>12
<1> QED
  BY <1>8, <1>13 DEF down

-----------------------------------------------------------------------------
(* The timeline engine walks up                                              *)

LEMMA RangeOfAppend ==
  ASSUME NEW S, NEW w \in Seq(S), NEW e \in S
  PROVE  /\ Append(w, e) \in Seq(S)
         /\ Range(Append(w, e)) = Range(w) \cup {e}
<1>1. /\ Len(w) \in Nat /\ DOMAIN w = 1..Len(w) /\ DOMAIN Append(w, e) = 1..(Len(w) + 1)
      /\ Append(w, e) \in Seq(S) /\ Append(w, e)[Len(w) + 1] = e
      /\ \A k \in 1..Len(w) : Append(w, e)[k] = w[k]
  BY AppendProperties, LenProperties
<1>2. 1..(Len(w) + 1) = (1..Len(w)) \cup {Len(w) + 1}
  BY <1>1
<1> DEFINE longer == Append(w, e)
<1> HIDE DEF longer
<1>3. Range(longer) = {longer[k] : k \in 1..Len(w)} \cup {longer[Len(w) + 1]}
  BY <1>1, <1>2 DEF Range, longer
<1>4. {longer[k] : k \in 1..Len(w)} = {w[k] : k \in 1..Len(w)}
  BY <1>1 DEF longer
<1> QED
  BY <1>1, <1>3, <1>4 DEF Range, longer

\* why walks from cause to cause, and comes by all there are.
LEMMA TimelineWhyReaches ==
  ASSUME LineageInvariant, NEW s, NEW target \in InSession(s), NEW depth \in Nat
  PROVE  Range(TimelineWhy(s, target, depth)) = Reach(Up(InSession(s)), target, depth)
<1> DEFINE V == InSession(s)
           up == Up(V)
           S == [V -> Seq(V)]
           Longer(w) == [i \in V |->
                           IF TimelineCauses(s, i) = {} THEN <<i>>
                           ELSE Append(w[CHOOSE j \in TimelineCauses(s, i) : TRUE], i)]
           Walked(f) == f = [d \in 0..depth |->
                               [i \in V |->
                                  IF d = 0 \/ TimelineCauses(s, i) = {} THEN <<i>>
                                  ELSE Append(f[d - 1][CHOOSE j \in TimelineCauses(s, i) : TRUE], i)]]
           walk == CHOOSE g : Walked(g)
<1>1. up \in [V -> SUBSET V] /\ \A i \in V : TimelineCauses(s, i) = up[i]
  BY UpAndDown DEF Up, TimelineCauses
<1>2. V \subseteq DOMAIN log
  BY DEF InSession
<1>3. \A i \in V : \A j, k \in up[i] : j = k
  BY <1>1, <1>2, CausesAreEarlier DEF TimelineCauses, ParentsIn
<1> HIDE DEF V, up
<1>4. \A i \in V : <<i>> \in Seq(V) /\ Range(<<i>>) = {i}
  BY DEF Range
<1>5. ASSUME NEW w \in S
      PROVE  /\ Longer(w) \in S
             /\ \A i \in V : Range(Longer(w)[i]) = {i} \cup UNION {Range(w[j]) : j \in up[i]}
  <2> SUFFICES ASSUME NEW i \in V
               PROVE  /\ Longer(w)[i] \in Seq(V)
                      /\ Range(Longer(w)[i]) = {i} \cup UNION {Range(w[j]) : j \in up[i]}
    BY Zenon
  <2>1. CASE up[i] = {}
    <3>1. Longer(w)[i] = <<i>>
      BY <1>1, <2>1
    <3> QED
      BY <1>4, <2>1, <3>1
  <2>2. CASE up[i] # {}
    <3> DEFINE p == CHOOSE j \in up[i] : TRUE
    <3>1. p \in up[i] /\ up[i] = {p}
      BY <1>3, <2>2
    <3>2. Longer(w)[i] = Append(w[p], i)
      <4>1. TimelineCauses(s, i) = up[i]
        BY <1>1
      <4> QED
        BY <2>2, <4>1
    <3>3. p \in V /\ w[p] \in Seq(V)
      BY <1>1, <3>1
    <3> HIDE DEF p, Longer
    <3>4. UNION {Range(w[j]) : j \in up[i]} = Range(w[p])
      BY <3>1
    <3> QED
      BY <3>2, <3>3, <3>4, RangeOfAppend
  <2> QED
    BY <2>1, <2>2
<1>6. \E f : Walked(f)
  <2> DEFINE first == [i \in V |-> <<i>>]
             step == [d \in Nat |-> [w \in S |-> Longer(w)]]
  <2>1. first \in S /\ step \in [Nat -> [S -> S]]
    BY <1>4, <1>5
  <2> HIDE DEF first, step, S
  <2>2. PICK f \in [0..depth -> S] : Stepwise(f, first, step, depth)
    BY <2>1, StepsExist
  <2>3. ASSUME NEW d \in 0..depth
        PROVE  f[d] = [i \in V |->
                         IF d = 0 \/ TimelineCauses(s, i) = {} THEN <<i>>
                         ELSE Append(f[d - 1][CHOOSE j \in TimelineCauses(s, i) : TRUE], i)]
    <3>1. CASE d = 0
      BY <2>2, <3>1 DEF first, Stepwise
    <3>2. CASE d # 0
      <4>1. d - 1 \in 0..depth /\ d \in Nat
        BY <3>2
      <4>2. f[d] = step[d][f[d - 1]] /\ f[d - 1] \in S
        BY <2>2, <3>2, <4>1 DEF Stepwise
      <4>3. f[d] = Longer(f[d - 1])
        BY <4>1, <4>2 DEF step
      <4> QED
        BY <3>2, <4>3
    <3> QED
      BY <3>1, <3>2
  <2>4. f = [d \in 0..depth |-> f[d]]
    OBVIOUS
  <2>5. Walked(f)
    BY <2>3, <2>4
  <2> QED
    BY <2>5
<1>7. Walked(walk)
  BY <1>6
<1>8. TimelineWhy(s, target, depth) = walk[depth][target]
  BY DEF TimelineWhy, V
<1> HIDE DEF walk
<1>9. walk[0] = [i \in V |-> <<i>>]
  <2>1. 0 \in 0..depth
    OBVIOUS
  <2> QED
    BY <1>7, <2>1
<1>10. ASSUME NEW d \in Nat, d + 1 <= depth PROVE walk[d + 1] = Longer(walk[d])
  <2>1. d + 1 \in 0..depth /\ d + 1 # 0 /\ (d + 1) - 1 = d
    BY <1>10
  <2>2. walk[d + 1] = [i \in V |->
                         IF d + 1 = 0 \/ TimelineCauses(s, i) = {} THEN <<i>>
                         ELSE Append(walk[(d + 1) - 1][CHOOSE j \in TimelineCauses(s, i) : TRUE], i)]
    BY <1>7, <2>1
  <2> QED
    BY <2>1, <2>2
<1> HIDE DEF Walked, Longer
<1> DEFINE Right(d) == walk[d] \in S /\ \A i \in V : Range(walk[d][i]) = Reach(up, i, d)
           T == {d \in Nat : d <= depth => Right(d)}
<1>11. 0 \in T
  <2>1. Right(0)
    BY <1>4, <1>9, ReachStep
  <2> QED
    BY <2>1
<1>12. ASSUME NEW d \in Nat, d \in T PROVE d + 1 \in T
  <2>1. CASE d + 1 <= depth
    <3>1. Right(d) /\ d + 1 \in Nat
      BY <1>12, <2>1
    <3>2. walk[d + 1] = Longer(walk[d])
      BY <1>10, <2>1
    <3>3. walk[d + 1] \in S
      BY <1>5, <3>1, <3>2
    <3>4. ASSUME NEW i \in V PROVE Range(walk[d + 1][i]) = Reach(up, i, d + 1)
      <4>1. Range(walk[d + 1][i]) = {i} \cup UNION {Range(walk[d][j]) : j \in up[i]}
        BY <1>5, <3>1, <3>2
      <4>2. Reach(up, i, d + 1) = {i} \cup UNION {Reach(up, j, d) : j \in up[i]}
        BY <1>1, ReachFirst
      <4>3. \A j \in up[i] : Range(walk[d][j]) = Reach(up, j, d)
        BY <1>1, <3>1
      <4> QED
        BY <4>1, <4>2, <4>3
    <3>5. Right(d + 1)
      BY <3>3, <3>4
    <3> HIDE DEF Right
    <3> QED
      BY <3>1, <3>5
  <2>2. CASE ~(d + 1 <= depth)
    BY <2>2
  <2> QED
    BY <2>1, <2>2
<1>13. \A d \in T : d <= depth => Right(d)
  <2> HIDE DEF Right
  <2> QED
    OBVIOUS
<1>14. Nat \subseteq T
  <2> HIDE DEF T
  <2> QED
    BY <1>11, <1>12, AllNumbers
<1>15. Right(depth)
  <2> HIDE DEF T, Right
  <2> QED
    BY <1>13, <1>14
<1>16. target \in V
  BY DEF V
<1> QED
  BY <1>8, <1>15, <1>16 DEF up, V

-----------------------------------------------------------------------------
(* The list of a session                                                     *)

LEMMA RanksDiffer ==
  /\ Rank \in [Origins -> Nat]
  /\ \A o, p \in Origins : Rank[o] = Rank[p] => o = p
<1>1. /\ Origins = {"api", "runner", "snapshot_trigger", "verification_trigger"}
      /\ Rank["api"] = 0 /\ Rank["runner"] = 1 /\ Rank["snapshot_trigger"] = 2
      /\ Rank["verification_trigger"] = 3
  BY DEF Origins, Rank
<1>2. Rank = [o \in Origins |-> Rank[o]]
  BY DEF Origins, Rank
<1> HIDE DEF Rank, Origins
<1> QED
  BY <1>1, <1>2

\* The order of events is total, since no two have the same id.
LEMMA EarlierOrders ==
  ASSUME LineageInvariant
  PROVE  /\ \A i \in DOMAIN log : ~Earlier(i, i)
         /\ \A i, j, k \in DOMAIN log : Earlier(i, j) /\ Earlier(j, k) => Earlier(i, k)
         /\ \A i, j \in DOMAIN log : i # j => Earlier(i, j) \/ Earlier(j, i)
<1>1. \A i \in DOMAIN log : /\ log[i].time \in Nat /\ log[i].id \in Nat /\ log[i].origin \in Origins
                            /\ Rank[log[i].origin] \in Nat
  <2>1. \A i \in DOMAIN log : log[i] \in Events
    BY SessionsAreFinite
  <2> QED
    BY <2>1, RanksDiffer DEF Events
<1>2. \A i, j \in DOMAIN log : log[i].id = log[j].id => i = j
  BY DEF LineageInvariant, EventsSound
<1>3. \A i \in DOMAIN log : ~Earlier(i, i)
  BY <1>1 DEF Earlier, Before
<1>4. ASSUME NEW i \in DOMAIN log, NEW j \in DOMAIN log, NEW k \in DOMAIN log,
             Earlier(i, j), Earlier(j, k)
      PROVE  Earlier(i, k)
  <2> DEFINE ti == log[i].time
             tj == log[j].time
             tk == log[k].time
             ri == Rank[log[i].origin]
             rj == Rank[log[j].origin]
             rk == Rank[log[k].origin]
             oi == log[i].origin
             oj == log[j].origin
             ok == log[k].origin
             ii == log[i].id
             ij == log[j].id
             ik == log[k].id
  <2>1. /\ ti < tj \/ (ti = tj /\ ri < rj) \/ (ti = tj /\ oi = oj /\ ii < ij)
        /\ tj < tk \/ (tj = tk /\ rj < rk) \/ (tj = tk /\ oj = ok /\ ij < ik)
    BY <1>4 DEF Earlier, Before
  <2>2. {ti, tj, tk, ri, rj, rk, ii, ij, ik} \subseteq Nat
    BY <1>1
  <2>3. (oi = oj => ri = rj) /\ (oj = ok => rj = rk)
    OBVIOUS
  <2> HIDE DEF ti, tj, tk, ri, rj, rk, oi, oj, ok, ii, ij, ik
  <2>4. ti < tk \/ (ti = tk /\ ri < rk) \/ (ti = tk /\ oi = ok /\ ii < ik)
    BY <2>1, <2>2, <2>3
  <2> QED
    BY <2>4 DEF Earlier, Before, ti, tk, ri, rk, oi, ok, ii, ik
<1>5. ASSUME NEW i \in DOMAIN log, NEW j \in DOMAIN log, i # j
      PROVE  Earlier(i, j) \/ Earlier(j, i)
  <2>1. /\ log[i].time \in Nat /\ log[j].time \in Nat /\ log[i].id \in Nat /\ log[j].id \in Nat
        /\ Rank[log[i].origin] \in Nat /\ Rank[log[j].origin] \in Nat
        /\ log[i].origin \in Origins /\ log[j].origin \in Origins
    BY <1>1
  <2>2. log[i].id # log[j].id
    BY <1>2, <1>5
  <2>3. Rank[log[i].origin] = Rank[log[j].origin] => log[i].origin = log[j].origin
    BY <2>1, RanksDiffer
  <2> QED
    BY <2>1, <2>2, <2>3 DEF Earlier, Before
<1> QED
  BY <1>3, <1>4, <1>5

\* How many events of a set come before one
Place(V, i) == Cardinality({j \in V : Earlier(j, i)})

LEMMA PlacesDiffer ==
  ASSUME LineageInvariant, NEW V, V \subseteq DOMAIN log
  PROVE  /\ IsFiniteSet(V) /\ Cardinality(V) \in Nat
         /\ \A i \in V : Place(V, i) \in 0..(Cardinality(V) - 1)
         /\ \A i, j \in V : Place(V, i) = Place(V, j) => i = j
         /\ \A n \in 0..(Cardinality(V) - 1) : \E i \in V : Place(V, i) = n
<1> DEFINE Below(i) == {j \in V : Earlier(j, i)}
           N == Cardinality(V)
<1>1. IsFiniteSet(V) /\ N \in Nat
  <2>1. IsFiniteSet(DOMAIN log)
    BY SessionsAreFinite, FS_Interval
  <2> QED
    BY <2>1, FS_Subset, FS_CardinalityType
<1>2. \A i \in V : Below(i) \subseteq V \ {i}
  BY EarlierOrders
<1>3. \A i \in V : Cardinality(V \ {i}) = N - 1 /\ IsFiniteSet(V \ {i})
  BY <1>1, FS_RemoveElement
<1> HIDE DEF N
<1>4. ASSUME NEW i \in V PROVE IsFiniteSet(Below(i)) /\ Place(V, i) \in 0..(N - 1)
  <2>3. Place(V, i) = Cardinality(Below(i))
    BY DEF Place
  <2>4. Below(i) \subseteq V \ {i} /\ IsFiniteSet(V \ {i}) /\ Cardinality(V \ {i}) = N - 1
    BY <1>2, <1>3
  <2> HIDE DEF Below
  <2>1. IsFiniteSet(Below(i)) /\ Cardinality(Below(i)) <= N - 1
    BY <2>4, FS_Subset
  <2>2. Cardinality(Below(i)) \in Nat
    BY <2>1, FS_CardinalityType
  <2> QED
    BY <1>1, <2>1, <2>2, <2>3
<1>5. ASSUME NEW i \in V, NEW j \in V, Earlier(i, j) PROVE Place(V, i) < Place(V, j)
  <2>1. Below(i) \subseteq Below(j)
    BY <1>5, EarlierOrders
  <2>2. i \in Below(j) /\ i \notin Below(i)
    BY <1>5, EarlierOrders
  <2>3. Below(i) # Below(j)
    BY <2>2
  <2>4. IsFiniteSet(Below(i)) /\ IsFiniteSet(Below(j))
    BY <1>4
  <2> HIDE DEF Below
  <2>5. /\ Cardinality(Below(i)) <= Cardinality(Below(j))
        /\ Cardinality(Below(i)) # Cardinality(Below(j))
    BY <2>1, <2>3, <2>4, FS_Subset
  <2>6. Cardinality(Below(i)) \in Nat /\ Cardinality(Below(j)) \in Nat
    BY <2>4, FS_CardinalityType
  <2> QED
    BY <2>5, <2>6 DEF Below, Place
<1>6. ASSUME NEW i \in V, NEW j \in V, Place(V, i) = Place(V, j) PROVE i = j
  <2>3. \A n \in 0..(N - 1) : n \in Nat
    OBVIOUS
  <2>1. Place(V, i) \in Nat /\ Place(V, j) \in Nat
    BY <1>4, <2>3, Zenon
  <2>2. ~Earlier(i, j) /\ ~Earlier(j, i)
    BY <1>5, <1>6, <2>1
  <2> QED
    BY <2>2, EarlierOrders
<1> DEFINE places == [i \in V |-> Place(V, i)]
<1>7. places \in [V -> 0..(N - 1)]
  BY <1>4
<1>8. places \in Injection(V, 0..(N - 1))
  BY <1>6, <1>7 DEF Injection, IsInjective
<1>9. Cardinality(0..(N - 1)) = N /\ IsFiniteSet(0..(N - 1))
  BY <1>1, FS_Interval
<1>10. places \in Surjection(V, 0..(N - 1))
  BY <1>8, <1>9, FS_Injection DEF N
<1>11. \A n \in 0..(N - 1) : \E i \in V : places[i] = n
  BY <1>10 DEF Surjection
<1> QED
  BY <1>1, <1>4, <1>6, <1>11 DEF N

\* list has every event of the session once.
LEMMA ListIsSession ==
  ASSUME LineageInvariant, NEW s
  PROVE  /\ List(s) \in Seq(InSession(s)) /\ Len(List(s)) = Cardinality(InSession(s))
         /\ \A i \in InSession(s) : \E n \in 1..Len(List(s)) : List(s)[n] = i
         /\ \A m, n \in 1..Len(List(s)) : List(s)[m] = List(s)[n] => m = n
         /\ Range(List(s)) = InSession(s)
<1> DEFINE V == InSession(s)
           N == Cardinality(V)
           list == List(s)
<1>1. V \subseteq DOMAIN log
  BY DEF InSession
<1>2. /\ N \in Nat
      /\ \A i \in V : Place(V, i) \in 0..(N - 1)
      /\ \A i, j \in V : Place(V, i) = Place(V, j) => i = j
      /\ \A n \in 0..(N - 1) : \E i \in V : Place(V, i) = n
  BY <1>1, PlacesDiffer
<1>3. list = [n \in 1..N |-> CHOOSE i \in V : Place(V, i) = n - 1]
  BY DEF List, Place
<1> HIDE DEF V, N, list
<1>4. ASSUME NEW n \in 1..N PROVE list[n] \in V /\ Place(V, list[n]) = n - 1
  <2>1. n - 1 \in 0..(N - 1)
    BY <1>2
  <2>2. \E i \in V : Place(V, i) = n - 1
    BY <1>2, <2>1
  <2>3. list[n] = CHOOSE i \in V : Place(V, i) = n - 1
    BY <1>3
  <2> QED
    BY <2>2, <2>3
<1>5. list \in [1..N -> V]
  BY <1>3, <1>4
<1>6. list \in Seq(V) /\ Len(list) = N /\ DOMAIN list = 1..N
  <2>1. list \in Seq(V)
    BY <1>2, <1>5, SeqDef
  <2>2. DOMAIN list = 1..N
    BY <1>5
  <2> QED
    <3>1. Len(list) \in Nat /\ 1..Len(list) = 1..N
      BY <2>1, <2>2, LenProperties
    <3>2. Len(list) = N
      BY <1>2, <3>1, SMT
    <3> QED
      BY <2>1, <2>2, <3>2
<1>7. ASSUME NEW i \in V PROVE \E n \in 1..N : list[n] = i
  <2>1. Place(V, i) + 1 \in 1..N /\ (Place(V, i) + 1) - 1 = Place(V, i)
    BY <1>2
  <2>2. list[Place(V, i) + 1] \in V /\ Place(V, list[Place(V, i) + 1]) = Place(V, i)
    BY <1>4, <2>1
  <2>3. list[Place(V, i) + 1] = i
    BY <1>2, <2>2
  <2> QED
    BY <2>1, <2>3
<1>8. ASSUME NEW m \in 1..N, NEW n \in 1..N, list[m] = list[n] PROVE m = n
  <2>1. m - 1 = n - 1
    BY <1>4, <1>8
  <2> QED
    BY <2>1
<1>9. Range(list) = V
  BY <1>4, <1>6, <1>7 DEF Range
<1> QED
  BY <1>6, <1>7, <1>8, <1>9 DEF V, N, list

-----------------------------------------------------------------------------
(* Sequences without repetition                                              *)

Distinct(w) == \A a, b \in DOMAIN w : w[a] = w[b] => a = b

LEMMA AppendDistinct ==
  ASSUME NEW S, NEW w \in Seq(S), NEW e \in S, Distinct(w), e \notin Range(w)
  PROVE  Distinct(Append(w, e))
<1> DEFINE longer == Append(w, e)
<1>1. /\ Len(w) \in Nat /\ DOMAIN w = 1..Len(w) /\ DOMAIN longer = 1..(Len(w) + 1)
      /\ longer[Len(w) + 1] = e /\ \A k \in 1..Len(w) : longer[k] = w[k]
  BY AppendProperties, LenProperties
<1> HIDE DEF longer
<1> SUFFICES ASSUME NEW a \in 1..(Len(w) + 1), NEW b \in 1..(Len(w) + 1), longer[a] = longer[b]
             PROVE  a = b
  BY <1>1 DEF Distinct, longer
<1>2. \A k \in 1..Len(w) : w[k] # e
  BY <1>1 DEF Range
<1>3. CASE a \in 1..Len(w) /\ b \in 1..Len(w)
  BY <1>1, <1>3 DEF Distinct
<1>4. CASE ~(a \in 1..Len(w) /\ b \in 1..Len(w))
  BY <1>1, <1>2, <1>4
<1> QED
  BY <1>3, <1>4

LEMMA RangeOfConcat ==
  ASSUME NEW S, NEW v \in Seq(S), NEW w \in Seq(S)
  PROVE  v \o w \in Seq(S) /\ Range(v \o w) = Range(v) \cup Range(w)
<1> DEFINE both == v \o w
<1>1. /\ Len(v) \in Nat /\ Len(w) \in Nat /\ both \in Seq(S)
      /\ DOMAIN v = 1..Len(v) /\ DOMAIN w = 1..Len(w) /\ DOMAIN both = 1..(Len(v) + Len(w))
      /\ \A k \in 1..(Len(v) + Len(w)) : both[k] = IF k <= Len(v) THEN v[k] ELSE w[k - Len(v)]
  BY ConcatProperties, LenProperties
<1> HIDE DEF both
<1>2. ASSUME NEW e, e \in Range(both) PROVE e \in Range(v) \cup Range(w)
  <2>1. PICK k \in 1..(Len(v) + Len(w)) : e = both[k]
    BY <1>1, <1>2 DEF Range
  <2>2. CASE k <= Len(v)
    <3>1. k \in DOMAIN v /\ e = v[k]
      BY <1>1, <2>1, <2>2
    <3> QED
      BY <3>1 DEF Range
  <2>3. CASE ~(k <= Len(v))
    <3>1. k - Len(v) \in DOMAIN w /\ e = w[k - Len(v)]
      BY <1>1, <2>1, <2>3
    <3> QED
      BY <3>1 DEF Range
  <2> QED
    BY <2>2, <2>3
<1>3. ASSUME NEW e, e \in Range(v) PROVE e \in Range(both)
  <2>1. PICK k \in 1..Len(v) : e = v[k]
    BY <1>1, <1>3 DEF Range
  <2>2. k \in DOMAIN both /\ e = both[k]
    BY <1>1, <2>1
  <2> QED
    BY <2>2 DEF Range
<1>4. ASSUME NEW e, e \in Range(w) PROVE e \in Range(both)
  <2>1. PICK k \in 1..Len(w) : e = w[k]
    BY <1>1, <1>4 DEF Range
  <2>2. k + Len(v) \in 1..(Len(v) + Len(w)) /\ ~(k + Len(v) <= Len(v)) /\ (k + Len(v)) - Len(v) = k
    BY <1>1, <2>1
  <2>3. k + Len(v) \in DOMAIN both /\ e = both[k + Len(v)]
    BY <1>1, <2>1, <2>2
  <2> QED
    BY <2>3 DEF Range
<1>5. Range(both) = Range(v) \cup Range(w)
  BY <1>2, <1>3, <1>4
<1> QED
  BY <1>1, <1>5 DEF both

LEMMA RangeOfTail ==
  ASSUME NEW S, NEW w \in Seq(S), w # <<>>
  PROVE  /\ Head(w) \in S /\ Tail(w) \in Seq(S) /\ Range(w) = {Head(w)} \cup Range(Tail(w))
<1>1. /\ Head(w) \in S /\ Tail(w) \in Seq(S) /\ Len(w) \in Nat \ {0} /\ DOMAIN w = 1..Len(w)
      /\ Head(w) = w[1] /\ DOMAIN Tail(w) = 1..(Len(w) - 1)
      /\ \A k \in 1..(Len(w) - 1) : Tail(w)[k] = w[k + 1]
  <2>1. Tail(w) \in Seq(S) /\ Len(Tail(w)) = Len(w) - 1 /\ Head(w) \in S
    BY HeadTailProperties
  <2>2. DOMAIN Tail(w) = 1..(Len(w) - 1)
    BY <2>1, LenProperties
  <2>3. Len(w) \in Nat \ {0} /\ DOMAIN w = 1..Len(w)
    BY LenProperties, EmptySeq
  <2>4. \A k \in 1..(Len(w) - 1) : Tail(w)[k] = w[k + 1]
    BY <2>1, <2>3, HeadTailProperties
  <2> QED
    BY <2>1, <2>2, <2>3, <2>4
<1> DEFINE rest == Tail(w)
<1> HIDE DEF rest
<1>2. ASSUME NEW e, e \in Range(w) PROVE e \in {Head(w)} \cup Range(rest)
  <2>1. PICK k \in 1..Len(w) : e = w[k]
    BY <1>1, <1>2 DEF Range
  <2>2. CASE k = 1
    BY <1>1, <2>1, <2>2
  <2>3. CASE k # 1
    <3>1. k - 1 \in 1..(Len(w) - 1) /\ (k - 1) + 1 = k
      BY <1>1, <2>1, <2>3
    <3>2. k - 1 \in DOMAIN rest /\ rest[k - 1] = e
      BY <1>1, <2>1, <3>1 DEF rest
    <3> QED
      BY <3>2 DEF Range
  <2> QED
    BY <2>2, <2>3
<1>3. ASSUME NEW e, e \in Range(rest) PROVE e \in Range(w)
  <2>1. PICK k \in 1..(Len(w) - 1) : e = rest[k]
    BY <1>1, <1>3 DEF Range, rest
  <2>2. k + 1 \in DOMAIN w /\ e = w[k + 1]
    BY <1>1, <2>1 DEF rest
  <2> QED
    BY <2>2 DEF Range
<1>4. Head(w) \in Range(w)
  BY <1>1 DEF Range
<1>5. Range(w) = {Head(w)} \cup Range(rest)
  BY <1>2, <1>3, <1>4
<1> QED
  BY <1>1, <1>5 DEF rest

LEMMA TailDistinct ==
  ASSUME NEW S, NEW w \in Seq(S), w # <<>>, Distinct(w)
  PROVE  Distinct(Tail(w)) /\ Head(w) \notin Range(Tail(w))
<1>1. /\ Len(w) \in Nat \ {0} /\ DOMAIN w = 1..Len(w)
      /\ Head(w) = w[1] /\ DOMAIN Tail(w) = 1..(Len(w) - 1)
      /\ \A k \in 1..(Len(w) - 1) : Tail(w)[k] = w[k + 1]
  <2>1. Tail(w) \in Seq(S) /\ Len(Tail(w)) = Len(w) - 1
    BY HeadTailProperties
  <2>2. DOMAIN Tail(w) = 1..(Len(w) - 1)
    BY <2>1, LenProperties
  <2>3. Len(w) \in Nat \ {0} /\ DOMAIN w = 1..Len(w)
    BY LenProperties, EmptySeq
  <2> QED
    BY <2>1, <2>2, <2>3, HeadTailProperties
<1> DEFINE rest == Tail(w)
<1> HIDE DEF rest
<1>2. ASSUME NEW a \in DOMAIN rest, NEW b \in DOMAIN rest, rest[a] = rest[b] PROVE a = b
  <2>1. a \in 1..(Len(w) - 1) /\ b \in 1..(Len(w) - 1) /\ w[a + 1] = w[b + 1]
    BY <1>1, <1>2 DEF rest
  <2>2. a + 1 \in DOMAIN w /\ b + 1 \in DOMAIN w
    BY <1>1, <2>1
  <2>3. a + 1 = b + 1
    BY <2>1, <2>2 DEF Distinct
  <2> QED
    BY <2>1, <2>3
<1>3. ASSUME NEW a \in DOMAIN rest PROVE rest[a] # Head(w)
  <2>1. a \in 1..(Len(w) - 1) /\ rest[a] = w[a + 1] /\ a + 1 \in DOMAIN w /\ 1 \in DOMAIN w /\ a + 1 # 1
    BY <1>1 DEF rest
  <2> QED
    BY <1>1, <2>1 DEF Distinct
<1> QED
  BY <1>2, <1>3 DEF Distinct, Range, rest

LEMMA ConcatDistinct ==
  ASSUME NEW S, NEW v \in Seq(S), NEW w \in Seq(S), Distinct(v), Distinct(w),
         Range(v) \cap Range(w) = {}
  PROVE  Distinct(v \o w)
<1> DEFINE both == v \o w
<1>1. /\ Len(v) \in Nat /\ Len(w) \in Nat
      /\ DOMAIN v = 1..Len(v) /\ DOMAIN w = 1..Len(w) /\ DOMAIN both = 1..(Len(v) + Len(w))
      /\ \A k \in 1..(Len(v) + Len(w)) : both[k] = IF k <= Len(v) THEN v[k] ELSE w[k - Len(v)]
  BY ConcatProperties, LenProperties
<1> HIDE DEF both
<1>2. \A a \in DOMAIN v, b \in DOMAIN w : v[a] # w[b]
  BY DEF Range
<1> SUFFICES ASSUME NEW a \in DOMAIN both, NEW b \in DOMAIN both, both[a] = both[b] PROVE a = b
  BY DEF Distinct, both
<1>3. \A k \in DOMAIN both : \/ k \in DOMAIN v /\ both[k] = v[k] /\ k <= Len(v)
                             \/ k - Len(v) \in DOMAIN w /\ both[k] = w[k - Len(v)] /\ k > Len(v)
  BY <1>1
<1>4. a \in Int /\ b \in Int /\ Len(v) \in Int
  BY <1>1
<1>5. CASE a <= Len(v) /\ b <= Len(v)
  BY <1>3, <1>4, <1>5 DEF Distinct
<1>6. CASE a > Len(v) /\ b > Len(v)
  <2>1. a - Len(v) = b - Len(v)
    BY <1>3, <1>4, <1>6 DEF Distinct
  <2> QED
    BY <1>4, <2>1
<1>7. CASE (a <= Len(v) /\ b > Len(v)) \/ (a > Len(v) /\ b <= Len(v))
  BY <1>2, <1>3, <1>4, <1>7
<1> QED
  BY <1>4, <1>5, <1>6, <1>7

-----------------------------------------------------------------------------
(* The timeline engine walks down                                            *)

\* The filter keeps each event of the list that names event i as its cause, once.
LEMMA ChildrenAreEffects ==
  ASSUME NEW V, NEW list \in Seq(V), Distinct(list), NEW i
  PROVE  /\ ChildrenOf(list, i) \in Seq(V) /\ Distinct(ChildrenOf(list, i))
         /\ Range(ChildrenOf(list, i)) = {j \in Range(list) : log[j].cause = log[i].id}
<1> DEFINE S == Seq(V)
           N == Len(list)
           Filtered(f) == f = [n \in 0..N |->
                                 IF n = 0 THEN <<>>
                                 ELSE IF log[list[n]].cause = log[i].id THEN Append(f[n - 1], list[n])
                                 ELSE f[n - 1]]
           kept == CHOOSE g : Filtered(g)
           Upto(n) == {list[m] : m \in {k \in 1..n : log[list[k]].cause = log[i].id}}
<1>1. N \in Nat /\ DOMAIN list = 1..N /\ \A n \in 1..N : list[n] \in V
  BY LenProperties
<1>2. ChildrenOf(list, i) = kept[N]
  BY DEF ChildrenOf
<1>3. <<>> \in S /\ Range(<<>>) = {} /\ Distinct(<<>>)
  BY EmptySeq DEF Range, Distinct
<1> HIDE DEF N, S
<1>4. \E f : Filtered(f)
  <2> DEFINE Kept(n, w) == IF n \in 1..N /\ log[list[n]].cause = log[i].id THEN Append(w, list[n]) ELSE w
             step == [n \in Nat |-> [w \in S |-> Kept(n, w)]]
  <2>1. ASSUME NEW n \in Nat, NEW w \in S PROVE Kept(n, w) \in S
    BY <1>1, AppendProperties DEF S
  <2> HIDE DEF Kept
  <2>2. step \in [Nat -> [S -> S]]
    BY <2>1
  <2> HIDE DEF step
  <2>3. PICK f \in [0..N -> S] : Stepwise(f, <<>>, step, N)
    BY <1>1, <1>3, <2>2, StepsExist
  <2>4. ASSUME NEW n \in 0..N
        PROVE  f[n] = IF n = 0 THEN <<>>
                      ELSE IF log[list[n]].cause = log[i].id THEN Append(f[n - 1], list[n])
                      ELSE f[n - 1]
    <3>1. CASE n = 0
      BY <2>3, <3>1 DEF Stepwise
    <3>2. CASE n # 0
      <4>1. n - 1 \in 0..N /\ n \in Nat /\ n \in 1..N
        BY <1>1, <3>2
      <4>2. f[n] = step[n][f[n - 1]] /\ f[n - 1] \in S
        BY <2>3, <3>2, <4>1 DEF Stepwise
      <4>3. f[n] = Kept(n, f[n - 1])
        BY <4>1, <4>2 DEF step
      <4> QED
        BY <3>2, <4>1, <4>3 DEF Kept
    <3> QED
      BY <3>1, <3>2
  <2>5. f = [n \in 0..N |-> f[n]]
    OBVIOUS
  <2>6. Filtered(f)
    BY <2>4, <2>5
  <2> QED
    BY <2>6
<1>5. Filtered(kept)
  BY <1>4
<1> HIDE DEF kept
<1>6. kept[0] = <<>>
  <2>1. 0 \in 0..N
    BY <1>1
  <2> QED
    BY <1>5, <2>1
<1>7. ASSUME NEW n \in Nat, n + 1 <= N
      PROVE  kept[n + 1] = IF log[list[n + 1]].cause = log[i].id THEN Append(kept[n], list[n + 1])
                           ELSE kept[n]
  <2>1. n + 1 \in 0..N /\ n + 1 # 0 /\ (n + 1) - 1 = n
    BY <1>1, <1>7
  <2> QED
    BY <1>5, <2>1
<1> HIDE DEF Filtered
<1> DEFINE Right(n) == kept[n] \in S /\ Distinct(kept[n]) /\ Range(kept[n]) = Upto(n)
           T == {n \in Nat : n <= N => Right(n)}
<1>8. 0 \in T
  <2>1. Upto(0) = {}
    OBVIOUS
  <2>2. Right(0)
    BY <1>3, <1>6, <2>1
  <2> QED
    BY <2>2
<1>9. ASSUME NEW n \in Nat, n \in T PROVE n + 1 \in T
  <2>1. CASE n + 1 <= N
    <3>1. Right(n) /\ n + 1 \in 1..N
      BY <1>1, <1>9, <2>1
    <3>2. 1..(n + 1) = (1..n) \cup {n + 1}
      BY <1>9
    <3>3. CASE log[list[n + 1]].cause = log[i].id
      <4>1. kept[n + 1] = Append(kept[n], list[n + 1])
        BY <1>7, <2>1, <3>3
      <4>2. Upto(n + 1) = Upto(n) \cup {list[n + 1]}
        BY <3>2, <3>3
      <4>3. list[n + 1] \notin Upto(n)
        <5>1. ASSUME NEW m \in 1..n PROVE list[m] # list[n + 1]
          <6>1. m \in 1..N /\ n + 1 \in 1..N /\ m # n + 1
            BY <1>1, <1>9, <3>1
          <6> QED
            BY <1>1, <6>1 DEF Distinct
        <5> QED
          BY <5>1
      <4>4. list[n + 1] \in V
        BY <1>1, <3>1
      <4> HIDE DEF Upto
      <4>5. Right(n + 1)
        <5>1. kept[n] \in Seq(V) /\ Distinct(kept[n]) /\ Range(kept[n]) = Upto(n)
          BY <3>1 DEF S
        <5>2. /\ kept[n + 1] \in Seq(V) /\ Range(kept[n + 1]) = Range(kept[n]) \cup {list[n + 1]}
          BY <4>1, <4>4, <5>1, RangeOfAppend
        <5>3. Distinct(kept[n + 1])
          BY <4>1, <4>3, <4>4, <5>1, AppendDistinct
        <5> QED
          BY <4>2, <5>1, <5>2, <5>3 DEF S
      <4> HIDE DEF Right
      <4> QED
        BY <1>9, <4>5
    <3>4. CASE log[list[n + 1]].cause # log[i].id
      <4>1. kept[n + 1] = kept[n]
        BY <1>7, <2>1, <3>4
      <4>2. Upto(n + 1) = Upto(n)
        BY <3>2, <3>4
      <4> HIDE DEF Upto
      <4>3. Right(n + 1)
        BY <3>1, <4>1, <4>2
      <4> HIDE DEF Right
      <4> QED
        BY <1>9, <4>3
    <3> QED
      BY <3>3, <3>4
  <2>2. CASE ~(n + 1 <= N)
    BY <2>2
  <2> QED
    BY <2>1, <2>2
<1>10. \A n \in T : n <= N => Right(n)
  <2> HIDE DEF Right
  <2> QED
    OBVIOUS
<1>11. Nat \subseteq T
  <2> HIDE DEF T
  <2> QED
    BY <1>8, <1>9, AllNumbers
<1>12. Right(N)
  <2> HIDE DEF T, Right
  <2> QED
    BY <1>1, <1>10, <1>11
<1>13. Upto(N) = {j \in Range(list) : log[j].cause = log[i].id}
  BY <1>1 DEF Range
<1> QED
  BY <1>2, <1>12, <1>13 DEF S

\* A queue of events with the depth they were found at, and the events visited
Entries(V) == [event : V, depth : Nat]
Searches(V) == [queue : Seq(Entries(V)), seen : SUBSET V]

\* What a turn puts behind the queue: the effects of the event, one deeper
Found(V, depth, e) ==
  IF e.depth >= depth THEN {}
  ELSE {[event |-> c, depth |-> e.depth + 1] : c \in Down(V)[e.event]}

Visits(V, depth, q, turn) ==
  /\ turn \in Searches(V) /\ turn.seen = q.seen \cup {Head(q.queue).event}
  /\ Head(q.queue) \in Entries(V) /\ Tail(q.queue) \in Seq(Entries(V))
  /\ Range(q.queue) = {Head(q.queue)} \cup Range(Tail(q.queue))
  /\ Range(turn.queue) = Range(Tail(q.queue)) \cup Found(V, depth, Head(q.queue))
  /\ Distinct(q.queue) => Head(q.queue) \notin Range(Tail(q.queue))
  /\ Distinct(q.queue) /\ Range(q.queue) \cap Found(V, depth, Head(q.queue)) = {} =>
       Distinct(turn.queue)

LEMMA TurnFinds ==
  ASSUME NEW V, NEW list \in Seq(V), Distinct(list), Range(list) = V, NEW depth \in Nat,
         NEW q \in Searches(V), q.queue # <<>>, Head(q.queue).event \notin q.seen
  PROVE  Visits(V, depth, q, Turn(list, depth, q))
<1> DEFINE turn == Turn(list, depth, q)
           next == Head(q.queue)
           E == Entries(V)
           rest == Tail(q.queue)
           children == ChildrenOf(list, next.event)
           below == [k \in DOMAIN children |-> [event |-> children[k], depth |-> next.depth + 1]]
           more == IF next.depth >= depth THEN <<>> ELSE below
<1>1. q.queue \in Seq(E) /\ q.seen \in SUBSET V
  BY DEF Searches
<1>2. next \in E /\ rest \in Seq(E) /\ Range(q.queue) = {next} \cup Range(rest)
  BY <1>1, RangeOfTail
<1>3. next.event \in V /\ next.depth \in Nat
  BY <1>2 DEF Entries
<1>4. turn = [queue |-> rest \o more, seen |-> q.seen \cup {next.event}]
  BY DEF Turn
<1> HIDE DEF turn, next, rest
<1>5. /\ children \in Seq(V) /\ Distinct(children)
      /\ Range(children) = {j \in V : log[j].cause = log[next.event].id}
  <2>1. /\ children \in Seq(V) /\ Distinct(children)
        /\ Range(children) = {j \in Range(list) : log[j].cause = log[next.event].id}
    BY ChildrenAreEffects, Zenon
  <2> QED
    BY <2>1
<1> HIDE DEF children
<1>6. Range(children) = Down(V)[next.event]
  BY <1>3, <1>5 DEF Down, ChildrenIn
<1>7. /\ below \in Seq(E) /\ Distinct(below)
      /\ Range(below) = {[event |-> c, depth |-> next.depth + 1] : c \in Down(V)[next.event]}
  <2>1. Len(children) \in Nat /\ DOMAIN children = 1..Len(children)
        /\ \A k \in DOMAIN children : children[k] \in V
    BY <1>5, LenProperties
  <2>2. below \in [1..Len(children) -> E]
    BY <1>3, <2>1 DEF Entries
  <2>3. below \in Seq(E)
    BY <2>1, <2>2, SeqDef
  <2>4. DOMAIN below = DOMAIN children /\ \A k \in DOMAIN children : below[k].event = children[k]
    OBVIOUS
  <2>5. Distinct(below)
    <3> HIDE DEF below
    <3> QED
      BY <1>5, <2>4 DEF Distinct
  <2>6. Range(below) = {[event |-> c, depth |-> next.depth + 1] : c \in Range(children)}
    BY DEF Range
  <2> QED
    BY <1>6, <2>3, <2>5, <2>6
<1>8. more \in Seq(E) /\ Distinct(more) /\ Range(more) = Found(V, depth, next)
  <2>1. CASE next.depth >= depth
    <3>1. <<>> \in Seq(E) /\ Range(<<>>) = {} /\ Distinct(<<>>)
      BY EmptySeq DEF Range, Distinct
    <3> QED
      BY <2>1, <3>1 DEF Found
  <2>2. CASE ~(next.depth >= depth)
    <3> HIDE DEF below
    <3> QED
      BY <1>7, <2>2 DEF Found
  <2> QED
    BY <2>1, <2>2
<1> HIDE DEF more, below
<1>9. rest \o more \in Seq(E) /\ Range(rest \o more) = Range(rest) \cup Range(more)
  BY <1>2, <1>8, RangeOfConcat
<1>10. turn.seen = q.seen \cup {next.event} /\ turn.queue = rest \o more
  BY <1>4
<1>11. turn \in Searches(V)
  BY <1>1, <1>3, <1>4, <1>9 DEF Searches
<1>12. Distinct(q.queue) => Distinct(rest) /\ next \notin Range(rest)
  BY <1>1, TailDistinct DEF next, rest
<1>13. Distinct(q.queue) /\ Range(q.queue) \cap Found(V, depth, next) = {} => Distinct(rest \o more)
  BY <1>2, <1>8, <1>12, ConcatDistinct
<1> QED
  BY <1>2, <1>8, <1>9, <1>10, <1>11, <1>12, <1>13 DEF turn, next, rest, Visits

\* The depth at which a walk first comes by a node
FirstAt(next, x, y, d) == d \in Nat /\ y \in Reach(next, x, d) /\ \A m \in Nat : m < d => y \notin Reach(next, x, m)

LEMMA FirstAtOnce ==
  ASSUME NEW next, NEW x, NEW y, NEW d, NEW e, FirstAt(next, x, y, d), FirstAt(next, x, y, e)
  PROVE  d = e
<1>1. d \in Nat /\ e \in Nat /\ ~(d < e) /\ ~(e < d)
  BY DEF FirstAt
<1> QED
  BY <1>1

\* Effects are recorded later, and have one cause.
LEMMA DownIsATree ==
  ASSUME LineageInvariant, NEW V, V \subseteq DOMAIN log, NEW source \in V
  PROVE  /\ Down(V) \in [V -> SUBSET V]
         /\ \A x \in V : \A y \in Down(V)[x] : x < y
         /\ \A w, x \in V : \A y \in Down(V)[x] : y \in Down(V)[w] => w = x
         /\ \A d \in Nat : \A y \in Reach(Down(V), source, d) : y \in V /\ source <= y
         /\ \A d \in Nat : \A y \in Reach(Down(V), source, d) : source \notin Down(V)[y]
<1>1. /\ Up(V) \in [V -> SUBSET V] /\ Down(V) \in [V -> SUBSET V]
      /\ \A x, y \in V : y \in Up(V)[x] <=> x \in Down(V)[y]
  BY UpAndDown
<1>2. V \subseteq Nat
  BY SessionsAreFinite
<1>3. \A x \in V : \A y \in Up(V)[x] : y < x
  BY UpIsDownward
<1>4. \A x \in V : \A y \in Down(V)[x] : x < y
  BY <1>1, <1>3
<1>5. \A w, x \in V : \A y \in Down(V)[x] : y \in Down(V)[w] => w = x
  BY CausesAreEarlier DEF Down, ChildrenIn
<1>6. ASSUME NEW d \in Nat, NEW y \in Reach(Down(V), source, d) PROVE y \in V /\ source <= y
  <2>1. y \in V
    BY <1>1, <1>6, ReachTyped
  <2>2. source \in Reach(Up(V), y, d)
    BY <1>1, <1>6, <2>1, ReachDual
  <2> QED
    BY <1>1, <1>2, <1>3, <2>1, <2>2, ReachSinks
<1>7. ASSUME NEW d \in Nat, NEW y \in Reach(Down(V), source, d) PROVE source \notin Down(V)[y]
  <2>1. y \in V /\ source <= y /\ y \in Nat /\ source \in Nat
    BY <1>2, <1>6
  <2>2. ~(y < source)
    BY <2>1
  <2> QED
    BY <1>4, <2>1, <2>2
<1> QED
  BY <1>1, <1>4, <1>5, <1>6, <1>7

\* An effect is come by one step after its cause.
LEMMA EffectsComeNext ==
  ASSUME LineageInvariant, NEW V, V \subseteq DOMAIN log, NEW source \in V,
         NEW x, NEW d, FirstAt(Down(V), source, x, d), NEW c \in Down(V)[x]
  PROVE  FirstAt(Down(V), source, c, d + 1)
<1> DEFINE R(k) == Reach(Down(V), source, k)
           T == {m \in Nat : m < d + 1 => c \notin R(m)}
<1>1. d \in Nat /\ x \in R(d) /\ \A m \in Nat : m < d => x \notin R(m)
  BY DEF FirstAt
<1>2. x \in V
  BY <1>1, DownIsATree
<1>3. R(0) = {source} /\ \A k \in Nat : R(k + 1) = R(k) \cup UNION {Down(V)[y] : y \in R(k)}
  <2>1. R(0) = {source}
    BY ReachStep
  <2>2. \A k \in Nat : R(k + 1) = R(k) \cup UNION {Down(V)[y] : y \in R(k)}
    BY ReachStep
  <2> QED
    BY <2>1, <2>2
<1>4. \A k \in Nat : \A y \in R(k) : y \in V /\ source \notin Down(V)[y]
  BY DownIsATree
<1>5. \A w \in V : c \in Down(V)[w] => w = x
  BY <1>2, DownIsATree
<1> HIDE DEF R
<1>6. c \in R(d + 1)
  BY <1>1, <1>3
<1>7. 0 \in T
  BY <1>1, <1>3, <1>4
<1>8. ASSUME NEW m \in Nat, m \in T PROVE m + 1 \in T
  <2>1. ASSUME m + 1 < d + 1 PROVE c \notin R(m + 1)
    <3>1. m < d /\ m < d + 1
      BY <1>1, <2>1
    <3>2. c \notin R(m) /\ x \notin R(m)
      BY <1>1, <1>8, <3>1
    <3>3. \A y \in R(m) : c \notin Down(V)[y]
      BY <1>4, <1>5, <3>2
    <3> QED
      BY <1>3, <3>2, <3>3
  <2> QED
    BY <2>1
<1>9. \A m \in T : m < d + 1 => c \notin R(m)
  OBVIOUS
<1>10. Nat \subseteq T
  <2> HIDE DEF T
  <2> QED
    BY <1>7, <1>8, AllNumbers
<1>11. \A m \in Nat : m < d + 1 => c \notin R(m)
  <2> HIDE DEF T
  <2> QED
    BY <1>9, <1>10
<1> QED
  BY <1>1, <1>6, <1>11 DEF FirstAt, R

\* What holds after each turn: the queue has the effects, at their depth, of the
\* events that were visited, the visited ones are all that could be, and each turn
\* visits one more.
Known(q) == q.seen \cup {e.event : e \in Range(q.queue)}

Searching(V, source, depth, q, n) ==
  /\ q \in Searches(V) /\ Distinct(q.queue)
  /\ \A e \in Range(q.queue) : /\ e.event \notin q.seen /\ e.depth <= depth
                               /\ FirstAt(Down(V), source, e.event, e.depth)
  /\ q.seen \subseteq Reach(Down(V), source, depth)
  /\ source \in Known(q)
  /\ \A x \in q.seen : \A k \in Nat :
       k < depth /\ x \in Reach(Down(V), source, k) => Down(V)[x] \subseteq Known(q)
  /\ \A x \in V : \A y \in Down(V)[x] : y \in Known(q) /\ y # source => x \in q.seen
  /\ q.queue = <<>> \/ n <= Cardinality(q.seen)

LEMMA TurnSearches ==
  ASSUME LineageInvariant, NEW V, V \subseteq DOMAIN log, NEW source \in V, NEW depth \in Nat,
         NEW list \in Seq(V), Distinct(list), Range(list) = V, NEW n \in Nat,
         NEW q, Searching(V, source, depth, q, n)
  PROVE  Searching(V, source, depth, Turn(list, depth, q), n + 1)
<1>1. CASE q.queue = <<>>
  <2>1. Turn(list, depth, q) = q
    BY <1>1 DEF Turn
  <2> QED
    BY <1>1, <2>1 DEF Searching
<1>2. CASE q.queue # <<>>
  <2> DEFINE t == Turn(list, depth, q)
             next == Head(q.queue)
             rest == Tail(q.queue)
             down == Down(V)
             R(k) == Reach(down, source, k)
  <2>1. q \in Searches(V) /\ Distinct(q.queue) /\ q.queue \in Seq(Entries(V)) /\ q.seen \subseteq V
    BY DEF Searching, Searches
  <2>2. next \in Range(q.queue) /\ Range(q.queue) = {next} \cup Range(rest)
    BY <1>2, <2>1, RangeOfTail
  <2>3. \A e \in Range(q.queue) : /\ e.event \notin q.seen /\ e.depth <= depth
                                  /\ FirstAt(down, source, e.event, e.depth)
    BY DEF Searching
  <2>4. next.event \notin q.seen
    BY <2>2, <2>3
  <2>5. /\ t \in Searches(V) /\ t.seen = q.seen \cup {next.event}
        /\ next \in Entries(V) /\ rest \in Seq(Entries(V))
        /\ Range(t.queue) = Range(rest) \cup Found(V, depth, next)
        /\ next \notin Range(rest)
        /\ Range(q.queue) \cap Found(V, depth, next) = {} => Distinct(t.queue)
    <3>1. Visits(V, depth, q, t)
      BY <1>2, <2>1, <2>4, TurnFinds
    <3> HIDE DEF t
    <3> QED
      BY <2>1, <3>1 DEF Visits
  <2>6. /\ q.seen \subseteq R(depth) /\ source \in Known(q)
        /\ \A x \in q.seen : \A k \in Nat : k < depth /\ x \in R(k) => down[x] \subseteq Known(q)
        /\ \A x \in V : \A y \in down[x] : y \in Known(q) /\ y # source => x \in q.seen
        /\ n <= Cardinality(q.seen)
    BY <1>2 DEF Searching
  <2>7. /\ down \in [V -> SUBSET V]
        /\ \A x \in V : \A y \in down[x] : x < y
        /\ \A w, x \in V : \A y \in down[x] : y \in down[w] => w = x
        /\ \A k \in Nat : \A y \in R(k) : y \in V /\ source \notin down[y]
    BY DownIsATree
  <2>8. V \subseteq Nat
    BY SessionsAreFinite
  <2> HIDE DEF t, next, rest, down
  <2>9. /\ next.event \in V /\ next.depth \in Nat /\ next.depth <= depth
        /\ FirstAt(down, source, next.event, next.depth) /\ next.event \in R(next.depth)
    BY <2>2, <2>3, <2>5 DEF Entries, FirstAt
  <2>10. ASSUME NEW c \in down[next.event] PROVE c \notin Known(q) /\ c # source /\ c # next.event /\ c \in V
    <3>1. c # source
      BY <2>7, <2>9
    <3>2. c \in V /\ next.event < c
      BY <2>7, <2>9
    <3>3. c # next.event
      BY <2>8, <2>9, <3>2
    <3> QED
      BY <2>4, <2>6, <2>9, <3>1, <3>2, <3>3
  <2>11. /\ next.depth >= depth => Found(V, depth, next) = {}
         /\ \A f \in Found(V, depth, next) :
              f.event \in down[next.event] /\ f.depth = next.depth + 1 /\ next.depth < depth
         /\ next.depth < depth => \A c \in down[next.event] :
              \E f \in Found(V, depth, next) : f.event = c
    <3>1. next.depth >= depth => Found(V, depth, next) = {}
      BY DEF Found
    <3>2. ~(next.depth >= depth) =>
            Found(V, depth, next) = {[event |-> c, depth |-> next.depth + 1] : c \in down[next.event]}
      BY DEF Found, down
    <3>3. next.depth >= depth <=> ~(next.depth < depth)
      BY <2>9
    <3>4. CASE next.depth < depth
      <4>1. \A f \in Found(V, depth, next) : f.event \in down[next.event] /\ f.depth = next.depth + 1
        BY <3>2, <3>3, <3>4
      <4>2. ASSUME NEW c \in down[next.event] PROVE \E f \in Found(V, depth, next) : f.event = c
        <5>1. [event |-> c, depth |-> next.depth + 1] \in Found(V, depth, next)
          BY <3>2, <3>3, <3>4
        <5> QED
          BY <5>1
      <4> QED
        BY <3>3, <3>4, <4>1, <4>2
    <3>5. CASE ~(next.depth < depth)
      BY <3>1, <3>3, <3>5
    <3> QED
      BY <3>4, <3>5
  <2>12. Known(t) = Known(q) \cup {f.event : f \in Found(V, depth, next)}
    BY <2>2, <2>5 DEF Known
  <2>13. Range(q.queue) \cap Found(V, depth, next) = {}
    BY <2>10, <2>11 DEF Known
  <2>14. ASSUME NEW e \in Range(t.queue)
         PROVE  /\ e.event \notin t.seen /\ e.depth <= depth
                /\ FirstAt(down, source, e.event, e.depth)
    <3>1. CASE e \in Range(rest)
      <4>1. e \in Range(q.queue) /\ e # next
        BY <2>2, <2>5, <3>1
      <4>2. e.event # next.event
        <5>1. ASSUME e.event = next.event PROVE FALSE
          <6>1. e.depth = next.depth
            BY <2>3, <2>9, <4>1, <5>1, FirstAtOnce
          <6>2. e \in Entries(V) /\ next \in Entries(V)
            BY <2>1, <2>5, <4>1, LenProperties DEF Range
          <6>3. e = next
            BY <5>1, <6>1, <6>2 DEF Entries
          <6> QED
            BY <4>1, <6>3
        <5> QED
          BY <5>1
      <4> QED
        BY <2>3, <2>5, <4>1, <4>2
    <3>2. CASE e \in Found(V, depth, next)
      <4>1. e.event \in down[next.event] /\ e.depth = next.depth + 1 /\ next.depth < depth
        BY <2>11, <3>2
      <4>2. FirstAt(down, source, e.event, e.depth)
        BY <2>9, <4>1, EffectsComeNext DEF down
      <4>3. e.depth <= depth
        BY <2>9, <4>1
      <4>4. e.event \notin t.seen
        BY <2>5, <2>10, <4>1 DEF Known
      <4> QED
        BY <4>2, <4>3, <4>4
    <3> QED
      BY <2>5, <3>1, <3>2
  <2>15. t.seen \subseteq R(depth)
    <3>1. R(next.depth) \subseteq R(depth)
      BY <2>9, ReachGrows
    <3> QED
      BY <2>5, <2>6, <2>9, <3>1
  <2>16. Known(q) \subseteq Known(t)
    BY <2>12
  <2>17. ASSUME NEW x \in t.seen, NEW k \in Nat, k < depth, x \in R(k) PROVE down[x] \subseteq Known(t)
    <3>1. CASE x \in q.seen
      BY <2>6, <2>16, <2>17, <3>1
    <3>2. CASE x = next.event
      <4>1. ~(k < next.depth)
        BY <2>9, <2>17, <3>2 DEF FirstAt
      <4>2. next.depth < depth
        BY <2>9, <2>17, <4>1
      <4> QED
        BY <2>11, <2>12, <3>2, <4>2
    <3> QED
      BY <2>5, <3>1, <3>2
  <2>18. ASSUME NEW x \in V, NEW y \in down[x], y \in Known(t), y # source PROVE x \in t.seen
    <3>1. CASE y \in Known(q)
      BY <2>5, <2>6, <2>18, <3>1
    <3>2. CASE y \notin Known(q)
      <4>1. y \in down[next.event]
        BY <2>11, <2>12, <2>18, <3>2
      <4> QED
        BY <2>5, <2>7, <2>9, <4>1
    <3> QED
      BY <3>1, <3>2
  <2>19. n + 1 <= Cardinality(t.seen)
    <3>1. IsFiniteSet(V)
      BY PlacesDiffer
    <3>2. IsFiniteSet(q.seen)
      BY <2>1, <3>1, FS_Subset
    <3>3. Cardinality(t.seen) = Cardinality(q.seen) + 1 /\ Cardinality(q.seen) \in Nat
      BY <2>4, <2>5, <3>2, FS_AddElement, FS_CardinalityType
    <3> QED
      BY <2>6, <3>3
  <2>20. Distinct(t.queue) /\ t \in Searches(V) /\ source \in Known(t)
    BY <2>5, <2>6, <2>13, <2>16
  <2>21. Searching(V, source, depth, t, n + 1)
    BY <2>14, <2>15, <2>17, <2>18, <2>19, <2>20 DEF Searching, down
  <2> QED
    BY <2>21 DEF t
<1> QED
  BY <1>1, <1>2

\* The loop of consequences comes by what is reached through the effects, and is
\* done when it has taken one turn more than there are events.
LEMMA TimelineConsequencesReach ==
  ASSUME LineageInvariant, NEW V, V \subseteq DOMAIN log, NEW source \in V, NEW depth \in Nat,
         NEW list \in Seq(V), Distinct(list), Range(list) = V, Len(list) = Cardinality(V)
  PROVE  TimelineConsequences(list, source, depth) = Reach(Down(V), source, depth)
<1> DEFINE N == Len(list)
           S == Searches(V)
           start == [queue |-> <<[event |-> source, depth |-> 0]>>, seen |-> {}]
           Looped(f) == f = [n \in 0..(N + 1) |->
                               IF n = 0 THEN start ELSE Turn(list, depth, f[n - 1])]
           after == CHOOSE g : Looped(g)
           R(k) == Reach(Down(V), source, k)
           last == after[N + 1]
<1>1. N \in Nat /\ N + 1 \in Nat /\ Cardinality(V) = N /\ IsFiniteSet(V)
  BY LenProperties, PlacesDiffer
<1>2. TimelineConsequences(list, source, depth) = last.seen
  BY DEF TimelineConsequences
<1>3. start \in S /\ Distinct(start.queue)
      /\ Range(start.queue) = {[event |-> source, depth |-> 0]} /\ start.seen = {}
  <2> DEFINE e == [event |-> source, depth |-> 0]
  <2>1. e \in Entries(V)
    BY DEF Entries
  <2> HIDE DEF e
  <2>2. <<e>> \in Seq(Entries(V)) /\ Range(<<e>>) = {e} /\ Distinct(<<e>>)
    BY <2>1 DEF Range, Distinct
  <2>3. start = [queue |-> <<e>>, seen |-> {}]
    BY DEF e
  <2> HIDE DEF start
  <2> QED
    BY <2>2, <2>3 DEF Searches, e
<1> HIDE DEF N, S, start
<1>4. ASSUME NEW q \in S PROVE Turn(list, depth, q) \in S
  <2>1. CASE q.queue = <<>>
    BY <2>1 DEF Turn
  <2>2. CASE q.queue # <<>> /\ Head(q.queue).event \in q.seen
    <3>1. Turn(list, depth, q) = [q EXCEPT !.queue = Tail(@)]
      BY <2>2 DEF Turn
    <3>2. q.queue \in Seq(Entries(V)) /\ q.seen \in SUBSET V
      BY DEF S, Searches
    <3>3. Tail(q.queue) \in Seq(Entries(V))
      BY <2>2, <3>2, HeadTailProperties
    <3> QED
      BY <3>1, <3>2, <3>3 DEF S, Searches
  <2>3. CASE q.queue # <<>> /\ Head(q.queue).event \notin q.seen
    <3>1. Visits(V, depth, q, Turn(list, depth, q))
      BY <2>3, TurnFinds DEF S
    <3> QED
      BY <3>1 DEF Visits, S
  <2> QED
    BY <2>1, <2>2, <2>3
<1>5. \E f : Looped(f)
  <2> DEFINE step == [n \in Nat |-> [q \in S |-> Turn(list, depth, q)]]
  <2>1. step \in [Nat -> [S -> S]]
    BY <1>4
  <2> HIDE DEF step
  <2>2. PICK f \in [0..(N + 1) -> S] : Stepwise(f, start, step, N + 1)
    <3>1. \A n \in Nat : \E f \in [0..n -> S] : Stepwise(f, start, step, n)
      BY <1>3, <2>1, StepsExist
    <3> QED
      BY <1>1, <3>1
  <2>3. ASSUME NEW n \in 0..(N + 1)
        PROVE  f[n] = IF n = 0 THEN start ELSE Turn(list, depth, f[n - 1])
    <3>1. CASE n = 0
      BY <2>2, <3>1 DEF Stepwise
    <3>2. CASE n # 0
      <4>1. n - 1 \in 0..(N + 1) /\ n \in Nat
        BY <1>1, <3>2
      <4>2. f[n] = step[n][f[n - 1]] /\ f[n - 1] \in S
        BY <2>2, <3>2, <4>1 DEF Stepwise
      <4>3. f[n] = Turn(list, depth, f[n - 1])
        BY <4>1, <4>2 DEF step
      <4> QED
        BY <3>2, <4>3
    <3> QED
      BY <3>1, <3>2
  <2>4. f = [n \in 0..(N + 1) |-> f[n]]
    OBVIOUS
  <2>5. Looped(f)
    BY <2>3, <2>4
  <2> QED
    BY <2>5
<1>6. Looped(after)
  BY <1>5
<1> HIDE DEF after
<1>7. after[0] = start
  <2>1. 0 \in 0..(N + 1)
    BY <1>1
  <2> QED
    BY <1>6, <2>1
<1>8. ASSUME NEW n \in Nat, n <= N PROVE after[n + 1] = Turn(list, depth, after[n])
  <2>1. n + 1 \in 0..(N + 1) /\ n + 1 # 0 /\ (n + 1) - 1 = n
    BY <1>1, <1>8
  <2> QED
    BY <1>6, <2>1
<1> HIDE DEF Looped
<1> DEFINE Right(n) == Searching(V, source, depth, after[n], n)
           T == {n \in Nat : n <= N + 1 => Right(n)}
<1>9. Right(0)
  <2>1. R(0) = {source} /\ source \in R(depth)
    <3>1. R(0) = {source}
      BY ReachStep
    <3>2. R(0) \subseteq R(depth)
      BY ReachGrows
    <3> QED
      BY <3>1, <3>2
  <2>2. FirstAt(Down(V), source, source, 0)
    <3>1. ASSUME NEW m \in Nat, m < 0 PROVE FALSE
      BY <3>1
    <3> QED
      BY <2>1, <3>1 DEF FirstAt
  <2>3. Known(start) = {source}
    BY <1>3 DEF Known
  <2>4. \A e \in Range(start.queue) : e.event = source /\ e.depth = 0
    BY <1>3
  <2>5. 0 <= depth /\ 0 <= Cardinality(start.seen)
    BY <1>3, FS_EmptySet
  <2> HIDE DEF R
  <2>6. Searching(V, source, depth, start, 0)
    BY <1>3, <2>2, <2>3, <2>4, <2>5 DEF Searching, S
  <2> QED
    BY <1>7, <2>6
<1> HIDE DEF R
<1>10. 0 \in T
  <2> HIDE DEF Right
  <2> QED
    BY <1>9
<1>11. ASSUME NEW n \in Nat, n \in T PROVE n + 1 \in T
  <2>1. CASE n + 1 <= N + 1
    <3>1. Right(n) /\ n <= N
      BY <1>1, <1>11, <2>1
    <3>2. after[n + 1] = Turn(list, depth, after[n])
      BY <1>8, <3>1
    <3>3. Right(n + 1)
      BY <3>1, <3>2, TurnSearches
    <3> HIDE DEF Right
    <3> QED
      BY <3>3
  <2>2. CASE ~(n + 1 <= N + 1)
    BY <2>2
  <2> QED
    BY <2>1, <2>2
<1>12. \A n \in T : n <= N + 1 => Right(n)
  <2> HIDE DEF Right
  <2> QED
    OBVIOUS
<1>13. Nat \subseteq T
  <2> HIDE DEF T
  <2> QED
    BY <1>10, <1>11, AllNumbers
<1>14. Searching(V, source, depth, last, N + 1)
  <2>1. Right(N + 1)
    <3> HIDE DEF T, Right
    <3> QED
      BY <1>1, <1>12, <1>13
  <2> QED
    BY <2>1
<1> HIDE DEF last, Right, T
<1>15. last.queue = <<>>
  <2>1. last.seen \subseteq V
    BY <1>14 DEF Searching, Searches
  <2>2. Cardinality(last.seen) <= N /\ Cardinality(last.seen) \in Nat
    BY <1>1, <2>1, FS_Subset, FS_CardinalityType
  <2>3. ~(N + 1 <= Cardinality(last.seen))
    BY <1>1, <2>2
  <2> QED
    BY <1>14, <2>3 DEF Searching
<1>16. Known(last) = last.seen
  BY <1>15 DEF Known, Range
<1>17. /\ last.seen \subseteq R(depth) /\ source \in last.seen
       /\ \A x \in last.seen : \A k \in Nat :
            k < depth /\ x \in R(k) => Down(V)[x] \subseteq last.seen
  BY <1>14, <1>16 DEF Searching, R
<1> DEFINE U == {k \in Nat : k <= depth => R(k) \subseteq last.seen}
<1>18. R(0) = {source} /\ \A k \in Nat : R(k + 1) = R(k) \cup UNION {Down(V)[y] : y \in R(k)}
  <2>1. R(0) = {source}
    BY ReachStep DEF R
  <2>2. \A k \in Nat : R(k + 1) = R(k) \cup UNION {Down(V)[y] : y \in R(k)}
    BY ReachStep DEF R
  <2> QED
    BY <2>1, <2>2
<1>19. 0 \in U
  BY <1>17, <1>18
<1>20. ASSUME NEW k \in Nat, k \in U PROVE k + 1 \in U
  <2>1. ASSUME k + 1 <= depth PROVE R(k + 1) \subseteq last.seen
    <3>1. k < depth /\ R(k) \subseteq last.seen
      BY <1>20, <2>1
    <3>2. \A y \in R(k) : Down(V)[y] \subseteq last.seen
      BY <1>17, <3>1
    <3> QED
      BY <1>18, <3>1, <3>2
  <2> QED
    BY <2>1
<1>21. \A k \in U : k <= depth => R(k) \subseteq last.seen
  OBVIOUS
<1>22. Nat \subseteq U
  <2> HIDE DEF U
  <2> QED
    BY <1>19, <1>20, AllNumbers
<1>23. R(depth) \subseteq last.seen
  <2> HIDE DEF U
  <2> QED
    BY <1>21, <1>22
<1> QED
  BY <1>2, <1>17, <1>23 DEF R

-----------------------------------------------------------------------------
(* The queries agree                                                         *)

LEMMA EngineAgrees ==
  ASSUME LineageInvariant, NEW s, NEW i \in InSession(s), NEW d \in Nat
  PROVE  TimelineConsequences(List(s), i, d) =
           {j \in InSession(s) : i \in Range(TimelineWhy(s, j, d))}
<1> DEFINE V == InSession(s)
           list == List(s)
<1>1. V \subseteq DOMAIN log
  BY SessionsAreFinite
<1>2. /\ list \in Seq(V) /\ Len(list) = Cardinality(V) /\ Range(list) = V
      /\ \A m, n \in 1..Len(list) : list[m] = list[n] => m = n
  BY ListIsSession
<1> HIDE DEF list
<1>3. Distinct(list)
  BY <1>2, LenProperties DEF Distinct
<1>4. TimelineConsequences(list, i, d) = Reach(Down(V), i, d)
  <2> HIDE DEF V
  <2> QED
    BY <1>1, <1>2, <1>3, TimelineConsequencesReach DEF V
<1>5. \A j \in V : Range(TimelineWhy(s, j, d)) = Reach(Up(V), j, d)
  BY TimelineWhyReaches
<1>6. /\ Up(V) \in [V -> SUBSET V] /\ Down(V) \in [V -> SUBSET V]
      /\ \A x, y \in V : y \in Up(V)[x] <=> x \in Down(V)[y]
  BY UpAndDown
<1>7. \A j \in V : i \in Reach(Up(V), j, d) <=> j \in Reach(Down(V), i, d)
  BY <1>6, ReachDual
<1>8. Reach(Down(V), i, d) \subseteq V
  BY <1>6, ReachTyped
<1> QED
  BY <1>4, <1>5, <1>7, <1>8 DEF list

LEMMA DatabaseAgrees ==
  ASSUME NEW s, NEW i \in Seen(s), NEW d \in Nat
  PROVE  Consequences(s, i, d) = {j \in Seen(s) : i \in Why(s, j, d)}
<1> DEFINE W == Seen(s)
<1>1. /\ Up(W) \in [W -> SUBSET W] /\ Down(W) \in [W -> SUBSET W]
      /\ \A x, y \in W : y \in Up(W)[x] <=> x \in Down(W)[y]
  BY UpAndDown
<1>2. \A j \in W : i \in Reach(Up(W), j, d) <=> j \in Reach(Down(W), i, d)
  BY <1>1, ReachDual
<1>3. Reach(Down(W), i, d) \subseteq W
  BY <1>1, ReachTyped
<1>4. \A j \in W : Why(s, j, d) = Reach(Up(W), j, d)
  BY WhyReaches
<1>5. Consequences(s, i, d) = Reach(Down(W), i, d)
  BY ConsequencesReach
<1> QED
  BY <1>2, <1>3, <1>4, <1>5

LEMMA EngineExplainsNoLess ==
  ASSUME LineageInvariant, NEW s, NEW i \in Seen(s), NEW d \in Nat
  PROVE  /\ Why(s, i, d) \subseteq Range(TimelineWhy(s, i, d))
         /\ Seen(s) = InSession(s) => Why(s, i, d) = Range(TimelineWhy(s, i, d))
<1> DEFINE V == InSession(s)
           W == Seen(s)
<1>1. W \subseteq V
  BY SessionsAreFinite
<1>2. Up(V) \in [V -> SUBSET V] /\ Up(W) \in [W -> SUBSET W]
  BY UpAndDown
<1>3. \A x \in W : Up(W)[x] \subseteq Up(V)[x]
  BY <1>1 DEF Up, ParentsIn
<1>4. Reach(Up(W), i, d) \subseteq Reach(Up(V), i, d)
  BY <1>1, <1>2, <1>3, ReachNarrows
<1>5. Why(s, i, d) = Reach(Up(W), i, d)
  BY WhyReaches
<1>6. Range(TimelineWhy(s, i, d)) = Reach(Up(V), i, d)
  BY <1>1, TimelineWhyReaches
<1> QED
  BY <1>4, <1>5, <1>6

LEMMA DatabaseIsSound ==
  ASSUME LineageInvariant, NEW s, NEW i \in Seen(s)
  PROVE  /\ \A d \in Nat : Cardinality(Seen(s)) <= d =>
              Lineage(s, i, d) = Lineage(s, i, Cardinality(Seen(s)))
         /\ \A d \in Nat : \A j \in Why(s, i, d) \ {i} : j \in Seen(s) /\ i \notin Why(s, j, d)
         /\ Why(s, i, 1) = {i} \cup Causes(s, i)
<1> DEFINE W == Seen(s)
           N == Cardinality(W)
<1>1. IsFiniteSet(W) /\ N \in Nat /\ W \subseteq DOMAIN log /\ W \subseteq Nat
  BY SessionsAreFinite
<1>2. /\ Up(W) \in [W -> SUBSET W] /\ Down(W) \in [W -> SUBSET W]
      /\ \A x \in W : \A y \in Up(W)[x] : y < x
  BY <1>1, UpAndDown, UpIsDownward
<1>3. \A j \in W : \A d \in Nat : Why(s, j, d) = Reach(Up(W), j, d)
  BY WhyReaches
<1>4. \A d \in Nat : Consequences(s, i, d) = Reach(Down(W), i, d)
  BY ConsequencesReach
<1>5. ASSUME NEW d \in Nat, N <= d PROVE Lineage(s, i, d) = Lineage(s, i, N)
  <2>1. Reach(Up(W), i, d) = Reach(Up(W), i, N) /\ Reach(Down(W), i, d) = Reach(Down(W), i, N)
    BY <1>1, <1>2, <1>5, ReachSaturates
  <2> QED
    BY <1>1, <1>3, <1>4, <2>1 DEF Lineage
<1>6. ASSUME NEW d \in Nat, NEW j \in Why(s, i, d) \ {i} PROVE j \in W /\ i \notin Why(s, j, d)
  <2>1. j \in Reach(Up(W), i, d)
    BY <1>3, <1>6
  <2>2. j \in W /\ j <= i /\ i \in Nat /\ j \in Nat
    BY <1>1, <1>2, <2>1, ReachSinks
  <2>3. ASSUME i \in Why(s, j, d) PROVE FALSE
    <3>1. i \in Reach(Up(W), j, d)
      BY <1>3, <2>2, <2>3
    <3>2. i <= j
      BY <1>1, <1>2, <2>2, <3>1, ReachSinks
    <3> QED
      BY <1>6, <2>2, <3>2
  <2> QED
    BY <2>2, <2>3
<1>7. Why(s, i, 1) = {i} \cup Causes(s, i)
  <2>1. Reach(Up(W), i, 0) = {i}
    BY ReachStep
  <2>2. Reach(Up(W), i, 0 + 1) = Reach(Up(W), i, 0) \cup UNION {Up(W)[y] : y \in Reach(Up(W), i, 0)}
    BY ReachStep
  <2>3. Up(W)[i] = Causes(s, i)
    BY DEF Up, Causes
  <2>4. UNION {Up(W)[y] : y \in {i}} = Up(W)[i]
    OBVIOUS
  <2> QED
    BY <1>3, <2>1, <2>2, <2>3, <2>4
<1> QED
  BY <1>5, <1>6, <1>7

LEMMA QueriesAgree == LineageInvariant => LineageAgrees
<1> SUFFICES ASSUME LineageInvariant, NEW s \in Sessions
             PROVE  LET full == Cardinality(InSession(s)) + 1
                        list == List(s)
                        whys == [i \in InSession(s) |-> [d \in 1..full |-> Range(TimelineWhy(s, i, d))]]
                        causes == [i \in Seen(s) |-> [d \in 1..full |-> Why(s, i, d)]]
                        all == Seen(s) = InSession(s)
                    IN
                    /\ Range(list) = InSession(s)
                    /\ \A i \in InSession(s), d \in 1..full :
                         TimelineConsequences(list, i, d) = {j \in InSession(s) : i \in whys[j][d]}
                    /\ \A i \in Seen(s), d \in 1..full :
                         /\ Consequences(s, i, d) = {j \in Seen(s) : i \in causes[j][d]}
                         /\ causes[i][d] \subseteq whys[i][d]
                         /\ all => causes[i][d] = whys[i][d]
                    /\ \A i \in Seen(s) :
                         /\ Lineage(s, i, full) = Lineage(s, i, Cardinality(Seen(s)))
                         /\ \A j \in causes[i][full] \ {i} : i \notin causes[j][full]
                         /\ causes[i][1] = {i} \cup Causes(s, i)
  BY DEF LineageAgrees
<1> DEFINE V == InSession(s)
           W == Seen(s)
           full == Cardinality(V) + 1
           whys == [i \in V |-> [d \in 1..full |-> Range(TimelineWhy(s, i, d))]]
           causes == [i \in W |-> [d \in 1..full |-> Why(s, i, d)]]
<1>1. /\ Cardinality(V) \in Nat /\ Cardinality(W) \in Nat /\ Cardinality(W) <= Cardinality(V)
      /\ W \subseteq V
  BY SessionsAreFinite
<1>2. full \in Nat /\ 1 \in 1..full /\ full \in 1..full /\ Cardinality(W) <= full
      /\ \A d \in 1..full : d \in Nat
  BY <1>1
<1>3. \A i \in V, d \in 1..full : whys[i][d] = Range(TimelineWhy(s, i, d))
  OBVIOUS
<1>4. \A i \in W, d \in 1..full : causes[i][d] = Why(s, i, d)
  OBVIOUS
<1> HIDE DEF full, whys, causes
<1>5. Range(List(s)) = V
  BY ListIsSession
<1>6. ASSUME NEW i \in V, NEW d \in 1..full
      PROVE  TimelineConsequences(List(s), i, d) = {j \in V : i \in whys[j][d]}
  BY <1>2, <1>3, EngineAgrees
<1>7. ASSUME NEW i \in W, NEW d \in 1..full
      PROVE  /\ Consequences(s, i, d) = {j \in W : i \in causes[j][d]}
             /\ causes[i][d] \subseteq whys[i][d]
             /\ W = V => causes[i][d] = whys[i][d]
  <2>1. Consequences(s, i, d) = {j \in W : i \in causes[j][d]}
    BY <1>2, <1>4, DatabaseAgrees
  <2>2. causes[i][d] = Why(s, i, d) /\ whys[i][d] = Range(TimelineWhy(s, i, d))
    BY <1>1, <1>3, <1>4
  <2> QED
    BY <1>2, <2>1, <2>2, EngineExplainsNoLess
<1>8. ASSUME NEW i \in W
      PROVE  /\ Lineage(s, i, full) = Lineage(s, i, Cardinality(W))
             /\ \A j \in causes[i][full] \ {i} : i \notin causes[j][full]
             /\ causes[i][1] = {i} \cup Causes(s, i)
  BY <1>2, <1>4, DatabaseIsSound
<1> QED
  BY <1>5, <1>6, <1>7, <1>8 DEF full, whys, causes

\* The recursive queries of database-lineage.ts and the walks of the timeline engine
\* (packages/timeline-engine/src/index.ts) answer every causal question alike, at
\* every depth, about every record that can be written.
THEOREM QueriesAlwaysAgree == Spec => []LineageAgrees
BY LineageInit, LineageStep, QueriesAgree, PTL DEF Spec
=============================================================================
