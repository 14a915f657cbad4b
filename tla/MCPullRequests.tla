--------------------------- MODULE MCPullRequests ---------------------------
(* Instances of PullRequests: one or two feature branches already pushed.  *)
EXTENDS PullRequests

CONSTANTS f1, f2

(* The policy repository-server.ts gives by default, with one human        *)
(* approval, and one that asks for two approvals and leaves the rest.      *)
DefaultPolicy == [approvals |-> 1, humans |-> 1, independent |-> TRUE, verification |-> TRUE,
                  actions |-> TRUE, block |-> TRUE, restrict |-> FALSE]
CountingPolicy == [approvals |-> 2, humans |-> 0, independent |-> FALSE, verification |-> FALSE,
                   actions |-> FALSE, block |-> FALSE, restrict |-> FALSE]

Default == {DefaultPolicy}
Counting == {CountingPolicy}

(* One commit on main since the feature branches left it, and one commit   *)
(* on each of them.                                                        *)
Diverged == [b \in Branches |-> CASE b = Base -> 2 [] b = f1 -> 3 [] OTHER -> 4]
DivergedHistory == [c \in Commits |->
  IF c <= 2 + Cardinality(Features) THEN {1, c} ELSE {}]
DivergedParents == [c \in Commits |-> DivergedHistory[c] \ {c}]
=============================================================================
