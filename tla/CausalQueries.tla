--------------------------- MODULE CausalQueries ---------------------------
(* The questions asked of the causal record: why, causes and consequences as   *)
(* the API answers them with recursive queries (apps/api/src/database-lineage.ts)*)
(* and as the timeline engine walks the events of a session in memory           *)
(* (packages/timeline-engine/src/index.ts).                                     *)
EXTENDS SessionLineage, Functions

-----------------------------------------------------------------------------
(* The database                                                              *)

\* The queries see the events of the session that carry the workspace.
Seen(s) == {i \in DOMAIN log : log[i].session = s /\ log[i].origin = "api"}

ParentsIn(visible, i) == {j \in visible : log[j].id = log[i].cause}
ChildrenIn(visible, i) == {j \in visible : log[j].cause = log[i].id}

Causes(s, i) == ParentsIn(Seen(s), i)

\* The recursive queries of queryDatabaseLineage, cut at a depth
Why(s, target, depth) ==
  LET reached[d \in 0..depth] ==
        IF d = 0 THEN {target}
        ELSE LET found == reached[d - 1]
             IN found \cup UNION {ParentsIn(Seen(s), i) : i \in found}
  IN reached[depth]

Consequences(s, source, depth) ==
  LET reached[d \in 0..depth] ==
        IF d = 0 THEN {source}
        ELSE LET found == reached[d - 1]
             IN found \cup UNION {ChildrenIn(Seen(s), i) : i \in found}
  IN reached[depth]

\* lineage combines the two.
Lineage(s, target, depth) == Why(s, target, depth) \cup Consequences(s, target, depth)

-----------------------------------------------------------------------------
(* The timeline engine, whose store holds every event of the session         *)

InSession(s) == {i \in DOMAIN log : log[i].session = s}
Earlier(i, j) == Before(log[i], log[j])

\* list: the events of a session in their order
List(s) ==
  [n \in 1..Cardinality(InSession(s)) |->
     CHOOSE i \in InSession(s) : Cardinality({j \in InSession(s) : Earlier(j, i)}) = n - 1]

TimelineCauses(s, i) == ParentsIn(InSession(s), i)

\* why walks up from the target; one with the depth used up is the last.
TimelineWhy(s, target, depth) ==
  LET walk[d \in 0..depth] ==
        [i \in InSession(s) |->
           IF d = 0 \/ TimelineCauses(s, i) = {} THEN <<i>>
           ELSE Append(walk[d - 1][CHOOSE j \in TimelineCauses(s, i) : TRUE], i)]
  IN walk[depth][target]

\* children: the events of a list that name event i as their cause, in its order
ChildrenOf(list, i) ==
  LET kept[n \in 0..Len(list)] ==
        IF n = 0 THEN <<>>
        ELSE IF log[list[n]].cause = log[i].id THEN Append(kept[n - 1], list[n]) ELSE kept[n - 1]
  IN kept[Len(list)]

\* One turn of the loop of consequences over the events in "list"
Turn(list, depth, q) ==
  LET next == Head(q.queue)
      children == ChildrenOf(list, next.event)
      below == [k \in DOMAIN children |-> [event |-> children[k], depth |-> next.depth + 1]]
  IN CASE q.queue = <<>> -> q
       [] q.queue # <<>> /\ next.event \in q.seen -> [q EXCEPT !.queue = Tail(@)]
       [] OTHER -> [queue |-> Tail(q.queue) \o IF next.depth >= depth THEN <<>> ELSE below,
                    seen |-> q.seen \cup {next.event}]

\* consequences walks breadth-first down from the source.
TimelineConsequences(list, source, depth) ==
  LET start == [queue |-> <<[event |-> source, depth |-> 0]>>, seen |-> {}]
      after[n \in 0..(Len(list) + 1)] ==
        IF n = 0 THEN start ELSE Turn(list, depth, after[n - 1])
  IN after[Len(list) + 1].seen

-----------------------------------------------------------------------------

\* The two implementations agree with each other and with the record.  At every
\* depth an event explains another exactly when the other is one of its
\* consequences, in the database and in the timeline engine; nothing explains
\* itself through a cycle; the engine, which sees every event of the session,
\* explains no less, and just as much where the database sees them all.  Requests
\* under way change nothing of the record, so it is enough to ask when there is none.
LineageAgrees ==
  (\A r \in Requests : request[r] = Idle) => \A s \in Sessions :
    LET full == Cardinality(InSession(s)) + 1
        list == List(s)
        whys == [i \in InSession(s) |-> [d \in 1..full |-> Range(TimelineWhy(s, i, d))]]
        causes == [i \in Seen(s) |-> [d \in 1..full |-> Why(s, i, d)]]
        all == Seen(s) = InSession(s)
    IN
    /\ Range(list) = InSession(s)
    /\ \A i \in InSession(s), d \in 1..full :
         TimelineConsequences(list, i, d) = {j \in InSession(s) : i \in whys[j][d]}
    /\ \A i \in Seen(s), d \in 1..full :
         /\ Consequences(s, i, d) = {j \in Seen(s) : i \in causes[j][d]}
         /\ causes[i][d] \subseteq whys[i][d]
         /\ all => causes[i][d] = whys[i][d]
    /\ \A i \in Seen(s) :
         /\ Lineage(s, i, full) = Lineage(s, i, Cardinality(Seen(s)))
         /\ \A j \in causes[i][full] \ {i} : i \notin causes[j][full]
         /\ causes[i][1] = {i} \cup Causes(s, i)
=============================================================================
