--------------------------------- MODULE RBTree ---------------------------------
(***************************************************************************)
(* src/tree/tree.h: the red-black trees that RB_GENERATE makes, for any    *)
(* comparison.  The operators map a tree to a tree.  What the macros write *)
(* twice, once for each side, is written once with the side s as a         *)
(* parameter.                                                              *)
(*                                                                         *)
(* A tree holds at most one node of a key, and a node goes by its key.     *)
(* No loop goes up or down a tree in more rounds than there are nodes.     *)
(***************************************************************************)
EXTENDS Integers, FiniteSets

CONSTANTS
  Nodes,      \* the nodes, by their keys
  Null,       \* the null pointer
  Cmp(_, _)   \* the comparison given to RB_GENERATE

Sides == {"LEFT", "RIGHT"}
Other(s) == IF s = "LEFT" THEN "RIGHT" ELSE "LEFT"

(* Where a pointer leads *)
Place == Nodes \cup {Null}

Trees == [root : Place, child : [Sides -> [Nodes -> Place]], parent : [Nodes -> Place],
          color : [Nodes -> {"RED", "BLACK"}]]

(* RB_INITIALIZER.  What a node holds before it is inserted is never read. *)
EmptyTree ==
  [root |-> Null,
   child |-> [s \in Sides |-> [n \in Nodes |-> Null]],
   parent |-> [n \in Nodes |-> Null],
   color |-> [n \in Nodes |-> "RED"]]

Red(t, n) == n # Null /\ t.color[n] = "RED"
Blacken(t, n) == IF n = Null THEN t ELSE [t EXCEPT !.color[n] = "BLACK"]

(* Two slips that are not part of the specification: nothing turns red,    *)
(* and a node keeps its parent.                                            *)
SlipSetBlackRed(t, black, red) == Blacken(t, black)
SlipSetParent(t, n, p) == t

SetBlackRed(t, black, red) ==
  [t EXCEPT !.color = [@ EXCEPT ![black] = "BLACK", ![red] = "RED"]]
SetParent(t, n, p) == IF n = Null THEN t ELSE [t EXCEPT !.parent[n] = p]

(* A loop that starts with x and ends with what a round leaves as it is. *)
Loop(round, x) ==
  LET rounds[i \in 0..Cardinality(Nodes)] ==
        [y \in DOMAIN round |-> LET next == round[y]
                               IN  IF i = 0 \/ next = y THEN y ELSE rounds[i - 1][next]]
  IN  rounds[Cardinality(Nodes)][x]

(* The side on which n hangs below p. *)
SideOf(t, p, n) == IF t.child["LEFT"][p] = n THEN "LEFT" ELSE "RIGHT"

(* Let p, or the root if p is null, point to `new` instead of `old`. *)
Replace(t, p, old, new) ==
  IF p = Null THEN [t EXCEPT !.root = new]
              ELSE [t EXCEPT !.child[SideOf(t, p, old)][p] = new]

(* RB_ROTATE_LEFT, RB_ROTATE_RIGHT: elm goes down to the side s. *)
Rotate(t, elm, s) ==
  LET tmp == t.child[Other(s)][elm]
      inner == t.child[s][tmp]
      p == t.parent[elm]
      linked == Replace(SetParent(t, inner, elm), p, elm, tmp)
  IN  [linked EXCEPT !.child[Other(s)][elm] = inner, !.child[s][tmp] = elm,
                     !.parent[tmp] = p, !.parent[elm] = tmp]

------------------------------------------------------------------------------
(* RB_INSERT *)

(* The red elm below a red parent is turned to the outer side s, ...       *)
Turned(t, parent, elm, s) == IF t.child[Other(s)][parent] = elm THEN Rotate(t, parent, s) ELSE t

(* ... and the upper of the two takes the place of gparent. *)
Raised(t, upper, gparent, s) == Rotate(SetBlackRed(t, upper, gparent), gparent, Other(s))

InsertRound(x) ==
  LET t == x.tree
      elm == x.elm
      parent == t.parent[elm]
      gparent == t.parent[parent]
      s == SideOf(t, gparent, parent)
      uncle == t.child[Other(s)][gparent]
      inner == t.child[Other(s)][parent] = elm
  IN  IF ~Red(t, parent) THEN x
      ELSE IF Red(t, uncle)
      THEN [tree |-> SetBlackRed(Blacken(t, uncle), parent, gparent), elm |-> gparent]
      ELSE [tree |-> Raised(Turned(t, parent, elm, s), IF inner THEN elm ELSE parent, gparent, s),
            elm |-> IF inner THEN parent ELSE elm]

InsertColor(t, elm) ==
  LET round == [x \in [tree : Trees, elm : Nodes] |-> InsertRound(x)]
      end == Loop(round, [tree |-> t, elm |-> elm])
  IN  Blacken(end.tree, end.tree.root)

Toward(k, n) == IF Cmp(k, n) < 0 THEN "LEFT" ELSE "RIGHT"

(* RB_FIND *)
Find(t, k) ==
  Loop([n \in Place |-> IF n = Null THEN n
                        ELSE IF Cmp(k, n) = 0 THEN n ELSE t.child[Toward(k, n)][n]], t.root)

(* The node below which the search for k ends. *)
LastBelow(t, k) ==
  Loop([n \in Nodes |-> LET next == t.child[Toward(k, n)][n]
                        IN  IF next = Null THEN n ELSE next], t.root)

(* RB_SET and the link to the parent.  An element equal to one in the tree *)
(* is not inserted.                                                        *)
Insert(t, elm) ==
  IF Find(t, elm) # Null THEN t
  ELSE LET parent == IF t.root = Null THEN Null ELSE LastBelow(t, elm)
           set == [t EXCEPT !.parent[elm] = parent, !.color[elm] = "RED",
                            !.child["LEFT"][elm] = Null, !.child["RIGHT"][elm] = Null]
       IN  InsertColor(IF parent = Null THEN [set EXCEPT !.root = elm]
                       ELSE [set EXCEPT !.child[Toward(elm, parent)][parent] = elm],
                       elm)

------------------------------------------------------------------------------
(* RB_MINMAX below n, RB_NEXT and RB_PREV *)

Outermost(t, n, s) ==
  Loop([m \in Nodes |-> IF t.child[s][m] = Null THEN m ELSE t.child[s][m]], n)

SlipMin(t) == t.root   \* not part of the specification
Min(t) == IF t.root = Null THEN Null ELSE Outermost(t, t.root, "LEFT")

(* As long as m hangs on the side s, the loop goes up. *)
Above(t, n, s) ==
  LET top == Loop([m \in Nodes |-> LET p == t.parent[m]
                                   IN  IF p = Null THEN m
                                       ELSE IF t.child[s][p] = m THEN p ELSE m], n)
  IN  t.parent[top]

Neighbour(t, n, s) ==
  IF t.child[s][n] # Null THEN Outermost(t, t.child[s][n], Other(s)) ELSE Above(t, n, s)

Next(t, n) == Neighbour(t, n, "RIGHT")

------------------------------------------------------------------------------
(* RB_REMOVE *)

(* The paths through elm on the side s below parent are one black node     *)
(* short; elm may be null.  A red sibling gives its place to a black one,  *)
(* ...                                                                     *)
BlackSibling(t, parent, s) ==
  LET tmp == t.child[Other(s)][parent]
  IN  IF Red(t, tmp) THEN Rotate(SetBlackRed(t, tmp, parent), parent, s) ELSE t

(* ... whose child on the far side is made red, if one of them is, ...     *)
RedFar(t, parent, s) ==
  LET tmp == t.child[Other(s)][parent]
  IN  IF Red(t, t.child[Other(s)][tmp]) THEN t
      ELSE Rotate(SetBlackRed(t, t.child[s][tmp], tmp), tmp, Other(s))

(* ... and which takes the place of parent.  *)
Evened(t, parent, s) ==
  LET tmp == t.child[Other(s)][parent]
      far == t.child[Other(s)][tmp]
      colored == [t EXCEPT !.color = [@ EXCEPT ![tmp] = t.color[parent], ![parent] = "BLACK"]]
  IN  Rotate(Blacken(colored, far), parent, s)

RemoveRound(x) ==
  LET s == SideOf(x.tree, x.parent, x.elm)
      t == BlackSibling(x.tree, x.parent, s)
      tmp == t.child[Other(s)][x.parent]
      even == Evened(RedFar(t, x.parent, s), x.parent, s)
  IN  IF Red(x.tree, x.elm) \/ x.elm = x.tree.root THEN x
      ELSE IF \A side \in Sides : ~Red(t, t.child[side][tmp])
      THEN [tree |-> [t EXCEPT !.color[tmp] = "RED"],
            parent |-> t.parent[x.parent], elm |-> x.parent]
      ELSE [tree |-> even, parent |-> x.parent, elm |-> even.root]

RemoveColor(t, parent, elm) ==
  LET round == [x \in [tree : Trees, parent : Place, elm : Place] |-> RemoveRound(x)]
      end == Loop(round, [tree |-> t, parent |-> parent, elm |-> elm])
  IN  Blacken(end.tree, end.elm)

(* The child of a node that has at most one; the slip, which is not part   *)
(* of the specification, looks on one side only.                           *)
SlipOnlyChild(t, n) == t.child["RIGHT"][n]
OnlyChild(t, n) == IF t.child["LEFT"][n] = Null THEN t.child["RIGHT"][n]
                                                ELSE t.child["LEFT"][n]

(* elm, which has one child at most, leaves the tree at its place. *)
Unlink(t, elm) ==
  LET child == OnlyChild(t, elm)
      up == t.parent[elm]
  IN  Replace(SetParent(t, child, up), up, elm, child)

(* elm, which is in no place, gets that of `old`, its color included. *)
Substitute(t, old, elm) ==
  LET moved == [t EXCEPT !.child["LEFT"][elm] = t.child["LEFT"][old],
                         !.child["RIGHT"][elm] = t.child["RIGHT"][old],
                         !.parent[elm] = t.parent[old], !.color[elm] = t.color[old]]
      linked == Replace(moved, t.parent[old], old, elm)
  IN  SetParent(SetParent(linked, t.child["LEFT"][old], elm), t.child["RIGHT"][old], elm)

(* A node with two children gives its place to its successor. *)
Remove(t, old) ==
  LET two == \A s \in Sides : t.child[s][old] # Null
      elm == IF two THEN Outermost(t, t.child["RIGHT"][old], "LEFT") ELSE old
      up == t.parent[elm]
      parent == IF two /\ up = old THEN elm ELSE up
      out == IF two THEN Substitute(Unlink(t, elm), old, elm) ELSE Unlink(t, elm)
  IN  IF t.color[elm] = "BLACK" THEN RemoveColor(out, parent, OnlyChild(t, elm)) ELSE out

------------------------------------------------------------------------------
(* What makes a tree a red-black tree *)

InTree(t) ==
  LET below[n \in Place] ==
        IF n = Null THEN {}
        ELSE {n} \cup below[t.child["LEFT"][n]] \cup below[t.child["RIGHT"][n]]
  IN  below[t.root]

(* The black nodes on a way down from n; -1 if the ways differ. *)
BlackHeight(t, n) ==
  LET height[m \in Place] ==
        IF m = Null THEN 0
        ELSE LET h == height[t.child["LEFT"][m]]
             IN  IF h # height[t.child["RIGHT"][m]] \/ h = -1 THEN -1
                 ELSE IF Red(t, m) THEN h ELSE h + 1
  IN  height[n]
==============================================================================
