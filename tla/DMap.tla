-------------------------------- MODULE DMap --------------------------------
(***************************************************************************)
(* DMap, a red-black tree whose nodes are objects of the shared memory.    *)
(* One thread uses the map; equal keys are kept side by side.  The mirror  *)
(* images in the code (leftRotate and rightRotate, the two halves of       *)
(* insertFixUp, successor and predecessor) are one operator here, with the *)
(* side as a parameter.  remove is left out: the template does not compile *)
(* when it is used.                                                        *)
(***************************************************************************)
EXTENDS Integers, FiniteSets

CONSTANTS
  Key,        \* the keys of the program
  MaxNodes,   \* bound: calls of insert
  MaxRefs,    \* bound: Refs to the map that are alive at a time
  Sharing     \* a map with entries may have several Refs

ASSUME MapAssumption == /\ Key \subseteq Int
                        /\ {MaxNodes, MaxRefs} \subseteq Nat \ {0}
                        /\ Sharing \in BOOLEAN

Node == 1 .. MaxNodes      \* RBTNodes in the order in which they are made
Nil  == 0                  \* nullptr, the reference to object 0
Side == {"left", "right"}
Other(d) == CHOOSE o \in Side : o # d

VARIABLES
  t,       \* the fields of the nodes, mRoot, and the local outroot of insert
  made,    \* nodes made by insert
  cur,     \* node of insertFixUp, Nil when no insert is under way
  refs,    \* Refs to the map that are alive
  alive    \* nodes that have not been deleted
vars == <<t, made, cur, refs, alive>>

Used == 1 .. made

TypeOK ==
  /\ t \in [key : [Node -> Key], color : [Node -> {"red", "black"}],
            left : [Node -> Used \cup {Nil}], right : [Node -> Used \cup {Nil}],
            parent : [Node -> Used \cup {Nil}],
            mRoot : Used \cup {Nil}, root : Used \cup {Nil}]
  /\ made \in 0 .. MaxNodes
  /\ cur \in Used \cup {Nil}
  /\ cur # Nil => t.root # Nil
  /\ refs \in 0 .. MaxRefs
  /\ alive \subseteq Used

(* NewObj<DMap>() has just returned the first Ref. *)
Init ==
  /\ t = [key   |-> [n \in Node |-> CHOOSE k \in Key : TRUE],
          color |-> [n \in Node |-> "black"],
          left  |-> [n \in Node |-> Nil], right |-> [n \in Node |-> Nil],
          parent |-> [n \in Node |-> Nil],
          mRoot |-> Nil, root |-> Nil]
  /\ made = 0
  /\ cur = Nil
  /\ refs = 1
  /\ alive = {}

-----------------------------------------------------------------------------
(* Rotations and fix-up. *)

(* leftRotate(root, x) for d = "left", rightRotate for d = "right". *)
Rotate(s, x, d) ==
  LET o == Other(d)
      y == s[o][x]
      b == s[d][y]
      p == s.parent[x]
      r == [s EXCEPT ![o][x] = b,
                     ![d][y] = x,
                     !.parent = [n \in Node |-> CASE n = b -> x
                                                  [] n = y -> p
                                                  [] n = x -> y
                                                  [] OTHER -> @[n]]]
  IN  IF p = Nil
      THEN [r EXCEPT !.root = y, !.mRoot = y]
      ELSE [r EXCEPT ![IF s[d][p] = x THEN d ELSE o][p] = y]

Red(n) == n # Nil /\ t.color[n] = "red"
Parent == t.parent[cur]
GParent == t.parent[Parent]
ParentSide == IF Parent = t.left[GParent] THEN "left" ELSE "right"
Uncle == t[Other(ParentSide)][GParent]

RecolourLeavesUncle ==   \* mutant: the uncle stays red
  /\ cur # Nil /\ Red(Parent) /\ Red(Uncle)
  /\ t' = [t EXCEPT !.color[Parent] = "black", !.color[GParent] = "red"]
  /\ cur' = GParent
  /\ UNCHANGED <<made, refs, alive>>

(* Case 1: the uncle is red. *)
Recolour ==
  /\ cur # Nil /\ Red(Parent) /\ Red(Uncle)
  /\ t' = [t EXCEPT !.color[Uncle] = "black", !.color[Parent] = "black",
                    !.color[GParent] = "red"]
  /\ cur' = GParent
  /\ UNCHANGED <<made, refs, alive>>

(* Cases 2 and 3: an inner node first becomes an outer one. *)
Restructure ==
  /\ cur # Nil /\ Red(Parent) /\ ~Red(Uncle)
  /\ LET inner == t[Other(ParentSide)][Parent] = cur
         s     == IF inner THEN Rotate(t, Parent, ParentSide) ELSE t
         upper == IF inner THEN cur ELSE Parent
     IN  /\ t' = Rotate([s EXCEPT !.color[upper] = "black", !.color[GParent] = "red"],
                        GParent, Other(ParentSide))
         /\ cur' = IF inner THEN Parent ELSE cur
  /\ UNCHANGED <<made, refs, alive>>

(* The loop ends, the root is made black, and insert stores outroot. *)
FinishInsert ==
  /\ cur # Nil /\ ~Red(Parent)
  /\ t' = [t EXCEPT !.color[t.root] = "black", !.mRoot = t.root]
  /\ cur' = Nil
  /\ UNCHANGED <<made, refs, alive>>

-----------------------------------------------------------------------------
(* insert, and the lives of the references to the map. *)

DescendEqualLeft(k, x) ==   \* mutant: <= for <
  LET end[n \in Node] == LET c == IF k <= t.key[n] THEN t.left[n] ELSE t.right[n]
                         IN  IF c = Nil THEN n ELSE end[c]
  IN  IF x = Nil THEN Nil ELSE end[x]

(* Where insertNode's descent for key k from node x ends. *)
Descend(k, x) ==
  LET end[n \in Node] == LET c == IF k < t.key[n] THEN t.left[n] ELSE t.right[n]
                         IN  IF c = Nil THEN n ELSE end[c]
  IN  IF x = Nil THEN Nil ELSE end[x]

(* insert(k, value) up to the loop of insertFixUp: the new node becomes a red *)
(* leaf.                                                                      *)
Insert(k) ==
  /\ cur = Nil /\ refs > 0 /\ made < MaxNodes
  /\ Sharing \/ refs = 1
  /\ LET z == made + 1
         y == Descend(k, t.mRoot)
         s == [t EXCEPT !.key[z] = k, !.color[z] = "red", !.parent[z] = y,
                        !.root = IF y = Nil THEN z ELSE t.mRoot]
     IN  /\ made' = z
         /\ alive' = alive \cup {z}
         /\ t' = IF y = Nil THEN s
                 ELSE [s EXCEPT ![IF k < t.key[y] THEN "left" ELSE "right"][y] = z]
         /\ cur' = z
  /\ UNCHANGED refs

(* Another Ref to the map is made, from its id or as a copy of a Ref: its *)
(* constructor is DMap's, which clears mRoot.                             *)
Open ==
  /\ cur = Nil /\ refs \in 1 .. MaxRefs - 1
  /\ Sharing \/ t.mRoot = Nil
  /\ refs' = refs + 1
  /\ t' = [t EXCEPT !.mRoot = Nil]
  /\ UNCHANGED <<made, cur, alive>>

(* The node that destroy(tree) deletes: it returns after the first child. *)
Doomed ==
  LET leaf[n \in Node] == CASE t.left[n] # Nil  -> leaf[t.left[n]]
                            [] t.left[n] = Nil /\ t.right[n] # Nil -> leaf[t.right[n]]
                            [] OTHER -> n
  IN  IF t.mRoot = Nil THEN {} ELSE {leaf[t.mRoot]}

(* A Ref to the map ends: ~DMap calls destroy. *)
Close ==
  /\ cur = Nil /\ refs > 0
  /\ refs' = refs - 1
  /\ alive' = alive \ Doomed
  /\ UNCHANGED <<t, made, cur>>

Next ==
  \/ \E k \in Key : Insert(k)
  \/ Recolour \/ Restructure \/ FinishInsert
  \/ Open \/ Close

Spec == Init /\ [][Next]_vars

-----------------------------------------------------------------------------
(* Queries: they read the tree between two inserts. *)

search(k) ==
  LET find[x \in Node \cup {Nil}] ==
        IF x = Nil \/ t.key[x] = k THEN x
        ELSE find[IF k < t.key[x] THEN t.left[x] ELSE t.right[x]]
  IN  find[t.mRoot]

lowerBoundStrict(k) ==   \* mutant: > for >=
  LET walk[x \in Node \cup {Nil}, lb \in Node \cup {Nil}] ==
        IF x = Nil THEN lb
        ELSE IF t.key[x] > k THEN walk[t.left[x], x] ELSE walk[t.right[x], lb]
  IN  walk[t.mRoot, Nil]

lowerBound(k) ==
  LET walk[x \in Node \cup {Nil}, lb \in Node \cup {Nil}] ==
        IF x = Nil THEN lb
        ELSE IF t.key[x] >= k THEN walk[t.left[x], x] ELSE walk[t.right[x], lb]
  IN  walk[t.mRoot, Nil]

upperBound(k) ==
  LET walk[x \in Node \cup {Nil}, ub \in Node \cup {Nil}] ==
        IF x = Nil THEN ub
        ELSE IF t.key[x] > k THEN walk[t.left[x], x] ELSE walk[t.right[x], ub]
  IN  walk[t.mRoot, Nil]

(* minimum(tree) for d = "left", maximum(tree) for d = "right". *)
Extreme(tree, d) ==
  LET end[x \in Node] == IF t[d][x] = Nil THEN x ELSE end[t[d][x]]
  IN  IF tree = Nil THEN Nil ELSE end[tree]

(* successor(x) for d = "right", predecessor(x) for d = "left". *)
Neighbour(x, d) ==
  LET climb[n \in Node] ==
        LET y == t.parent[n] IN IF y # Nil /\ n = t[d][y] THEN climb[y] ELSE y
  IN  IF t[d][x] # Nil THEN Extreme(t[d][x], Other(d)) ELSE climb[x]

-----------------------------------------------------------------------------
(* Properties. *)

(* The order of iteration: by key, equal keys as they were inserted. *)
Before(a, b) == t.key[a] < t.key[b] \/ (t.key[a] = t.key[b] /\ a < b)

FirstOf(S) == IF S = {} THEN Nil ELSE CHOOSE a \in S : \A b \in S \ {a} : Before(a, b)
LastOf(S)  == IF S = {} THEN Nil ELSE CHOOSE a \in S : \A b \in S \ {a} : Before(b, a)

Root == IF cur = Nil THEN t.mRoot ELSE t.root
Under(x) ==
  LET below[n \in Node \cup {Nil}] ==
        IF n = Nil THEN {} ELSE {n} \cup below[t.left[n]] \cup below[t.right[n]]
  IN  below[x]

(* As long as the map has a Ref, the tree holds every entry that was ever    *)
(* inserted, none of them deleted, in search order, in the midst of a fix-up *)
(* as well: insertNode, the rotations, and the constructor and destructor.   *)
(* The parent fields, which successor and predecessor rely on, mirror the    *)
(* child fields.                                                             *)
SearchTree == refs > 0 =>
  /\ Under(Root) = Used /\ Used = alive
  /\ Root # Nil => t.parent[Root] = Nil
  /\ \A n, m \in Used : t.parent[n] = m <=> n \in {t.left[m], t.right[m]}
  /\ \A n \in Used : /\ \A a \in Under(t.left[n])  : Before(a, n)
                     /\ \A b \in Under(t.right[n]) : Before(n, b)

(* All paths have the same number of black nodes at all times; no red node    *)
(* has a red parent except the one that insertFixUp is at, and a finished     *)
(* insert leaves a black root.                                                *)
RedBlack == refs > 0 =>
  LET bh[n \in Node \cup {Nil}] ==   \* black height, -1 for unequal paths
        IF n = Nil THEN 0
        ELSE LET l == bh[t.left[n]]
             IN  IF l < 0 \/ l # bh[t.right[n]] THEN -1
                 ELSE IF Red(n) THEN l ELSE l + 1
  IN  /\ bh[Root] >= 0
      /\ \A n \in Used : Red(n) /\ Red(t.parent[n]) => n = cur
      /\ cur = Nil => ~Red(Root)

(* Between inserts every query of DMap answers as a sorted list of the        *)
(* entries would: search, both bounds, minimum and maximum, and from every    *)
(* node its successor and predecessor.                                        *)
QueriesAgree == refs > 0 /\ cur = Nil =>
  /\ \A k \in Key :
       /\ LET s == search(k) IN IF \E n \in Used : t.key[n] = k
                                THEN s # Nil /\ t.key[s] = k ELSE s = Nil
       /\ lowerBound(k) = FirstOf({n \in Used : t.key[n] >= k})
       /\ upperBound(k) = FirstOf({n \in Used : t.key[n] > k})
  /\ Extreme(t.mRoot, "left")  = FirstOf(Used)
  /\ Extreme(t.mRoot, "right") = LastOf(Used)
  /\ \A n \in Used :
       /\ Neighbour(n, "right") = FirstOf({m \in Used : Before(n, m)})
       /\ Neighbour(n, "left")  = LastOf({m \in Used : Before(m, n)})
=============================================================================
