------------------------------- MODULE StringMap -------------------------------
(***************************************************************************)
(* src/impl/string_map.c: a red-black tree of nodes with a key, which is a *)
(* copy the node owns, and a value.                                        *)
(***************************************************************************)
EXTENDS Integers, Sequences, FiniteSets

CONSTANTS
  Keys,      \* the strings, by their rank in the order of strcmp
  ValuesOf,  \* ValuesOf[k]: the pointers stored under k
  Null       \* the null pointer

ASSUME StringMapAssumption ==
  /\ Keys \subseteq Nat /\ IsFiniteSet(Keys)
  /\ \A k \in Keys : Null \notin {k} \cup ValuesOf[k]

VARIABLES
  tree,    \* the rbh_root of the map, and the nodes
  value,   \* value[n]: of the node with key n
  freeing, \* string_map_free has been called
  np,      \* the node it has come to
  handed   \* the values string_map_free has given to its callback

vars == <<tree, value, freeing, np, handed>>

(* string_map_node_cmp *)
strcmp(m, n) == m - n

RB == INSTANCE RBTree WITH Nodes <- Keys, Cmp <- strcmp

(* new_string_map *)
Init ==
  /\ tree = RB!EmptyTree
  /\ value = [k \in Keys |-> Null]
  /\ freeing = FALSE /\ np = Null
  /\ handed = <<>>

(* What these two answer is what the map says of itself. *)
string_map_has_key(k) == RB!Find(tree, k) # Null
string_map_get(k) ==
  LET node == RB!Find(tree, k) IN IF node = Null THEN Null ELSE value[node]

(* What was a node is memory again. *)
Forget(t, n) ==
  [t EXCEPT !.child["LEFT"][n] = Null, !.child["RIGHT"][n] = Null, !.parent[n] = Null,
            !.color[n] = "RED"]

string_map_insert(k, v) ==
  /\ ~freeing
  /\ tree' = RB!Insert(tree, k)   \* does nothing if the key has a node
  /\ value' = [value EXCEPT ![k] = v]
  /\ UNCHANGED <<freeing, np, handed>>

(* The key is freed but never the node, which nothing leads to any more. *)
string_map_remove(k) ==
  /\ ~freeing
  /\ IF ~string_map_has_key(k) THEN UNCHANGED <<tree, value>>
     ELSE /\ tree' = Forget(RB!Remove(tree, k), k)
          /\ value' = [value EXCEPT ![k] = Null]
  /\ UNCHANGED <<freeing, np, handed>>

(* string_map_free: op is read before the tree is rebalanced. *)
StartFree ==
  /\ ~freeing
  /\ freeing' = TRUE
  /\ np' = RB!Min(tree)
  /\ UNCHANGED <<tree, value, handed>>

FreeNode ==
  /\ freeing /\ np # Null
  /\ np' = RB!Next(tree, np)
  /\ tree' = Forget(RB!Remove(tree, np), np)
  /\ value' = [value EXCEPT ![np] = Null]
  /\ handed' = Append(handed, value[np])
  /\ UNCHANGED freeing

Next ==
  \/ \E k \in Keys : \/ \E v \in ValuesOf[k] : string_map_insert(k, v)
                     \/ string_map_remove(k)
  \/ StartFree \/ FreeNode

Spec == Init /\ [][Next]_vars

------------------------------------------------------------------------------
(* Properties *)

(* The links of the tree: a child's parent is the node it hangs from, the  *)
(* root has none, and what is not in the tree holds nothing.               *)
TypeOK ==
  /\ \A n \in RB!InTree(tree) :
       /\ \A s \in RB!Sides : tree.child[s][n] # Null => tree.parent[tree.child[s][n]] = n
       /\ value[n] \in ValuesOf[n]
  /\ tree.root # Null => tree.parent[tree.root] = Null
  /\ \A n \in Keys \ RB!InTree(tree) : value[n] = Null /\ Forget(tree, n) = tree
  /\ freeing \in BOOLEAN /\ np \in Keys \cup {Null}
  /\ handed \in Seq(UNION {ValuesOf[k] : k \in Keys})

(* However keys come and go, a search takes at most twice the logarithm of *)
(* their number: the root is black, no red node has a red child, and all   *)
(* ways down have the same number of black nodes.                          *)
Balanced ==
  /\ ~RB!Red(tree, tree.root)
  /\ \A n \in RB!InTree(tree) : RB!Red(tree, n) =>
       \A s \in RB!Sides : ~RB!Red(tree, tree.child[s][n])
  /\ RB!BlackHeight(tree, tree.root) # -1

FM == INSTANCE FiniteMap WITH map <- [k \in Keys |-> string_map_get(k)]

(* The tree behaves as a map: what was inserted last under a key is found, *)
(* through every rotation, and string_map_free hands each value over once, *)
(* in the order of the keys, although it removes nodes, and so rebalances, *)
(* while it goes along the tree.                                           *)
ImplementsMap == FM!Spec

(* When string_map_free returns, no node is left behind. *)
AllFreed == freeing /\ np = Null => tree = RB!EmptyTree
================================================================================
