------------------------------ MODULE ChainLoad ------------------------------
(***************************************************************************)
(* src/chain_ss/chain.c: parse_chains_from_file, from the first token of   *)
(* the configuration to the chain set, and all of its error paths.         *)
(*                                                                         *)
(* The rules of a chain are a linked list, and the address of its first    *)
(* rule stands for the chain: it is what the map of names holds, what a    *)
(* `goto` rule points to and where the reference count m_ref is kept.      *)
(* The module has the configuration as an environment that chooses, one    *)
(* statement at a time, what the tokens read next will be.  The memory it  *)
(* keeps account of is that of the rules; tokens, patterns and the names   *)
(* of gotos and calls are allocated too, and are not in the module.        *)
(***************************************************************************)
EXTENDS Naturals, Sequences, FiniteSets

CONSTANTS
  Names,     \* names of chains: numbers, in the order of strcmp
  Kept,      \* those of "ether", "ip", "tcp" and "udp"
  MaxRules,  \* bound on the number of rules allocated
  MaxDepth   \* bound on the nesting of chains

ASSUME ChainLoadAssumption ==
  /\ Names \subseteq Nat /\ IsFiniteSet(Names)
  /\ Kept \subseteq Names
  /\ MaxRules \in Nat /\ MaxDepth \in Nat

NoRule == 0

VARIABLES
  phase,     \* what parse_chains_from_file is doing
  rule,      \* rule[r]: the r-th struct chain_rule that calloc returned
  live,      \* the rules that have not been given to free()
  map,       \* the string_map from names to the first rules of chains
  open,      \* the active calls of read_chain, innermost first
  freeing,   \* the active calls of free_chain, innermost first
  todo,      \* the keys string_map_free has still to visit
  heads,     \* the chain set: heads[n] for the names in Kept
  misused,   \* a rule was read or freed after it had been freed
  replaced   \* string_map_insert has replaced a chain by one of the same name

parsing == <<map, open, replaced>>
vars == <<phase, rule, live, map, open, freeing, todo, heads, misused, replaced>>

NewRule(type, goto) ==
  [m_type |-> type, next |-> NoRule, goto_chain |-> goto, m_ref |-> 0]

(* A call of read_chain: its name in the caller, the ends of its list, and *)
(* whether link_chain will find the functions its rules call.              *)
NewChain(n) == [name |-> n, head |-> NoRule, last |-> NoRule, links |-> TRUE]

(* A call of free_chain: its `cur`, and whether the goto of that rule has  *)
(* been released.                                                          *)
Call(r, released) == [cur |-> r, released |-> released]

Init ==
  /\ phase = "reading"
  /\ rule = <<>>
  /\ live = {}
  /\ map = <<>>
  /\ open = <<>>
  /\ freeing = <<>>
  /\ todo = {}
  /\ heads = [n \in Kept |-> NoRule]
  /\ misused = FALSE
  /\ replaced = FALSE

Continues(p) == phase = p /\ ~misused /\ freeing = <<>>

------------------------------------------------------------------------------
(***************************************************************************)
(* Variants with a plausible slip each; not part of the specification.     *)
(***************************************************************************)

SlipCountedNothing(r) == rule

SlipLookup(n) ==
  IF open # <<>> /\ Head(open).name = n THEN Head(open).head
  ELSE IF n \in DOMAIN map THEN map[n] ELSE NoRule

SlipTryDelete(r, count) == <<Call(r, FALSE)>>

SlipPointersOfSet(r) == 0

------------------------------------------------------------------------------
(* The rules of read_chain *)

(* string_map_get *)
Lookup(n) == IF n \in DOMAIN map THEN map[n] ELSE NoRule

(* A rule is allocated and linked behind the last one of the innermost     *)
(* chain; mem is what the rules read before are by then.                   *)
AddRule(mem, new, found) ==
  LET r == Len(mem) + 1
      c == Head(open)
  IN  /\ rule' = Append(IF c.last = NoRule THEN mem ELSE [mem EXCEPT ![c.last].next = r],
                        new)
      /\ live' = live \cup {r}
      /\ open' = <<[c EXCEPT !.head = IF @ = NoRule THEN r ELSE @,
                             !.last = r,
                             !.links = @ /\ found]>> \o Tail(open)
      /\ UNCHANGED <<phase, map, replaced, freeing, todo, heads, misused>>

CanRead == Continues("reading") /\ open # <<>> /\ Len(rule) < MaxRules

(* A return, continue, drop or log, or a call of a function that a plugin  *)
(* has (found) or has not, which is only looked at when the chain ends.    *)
ReadPlain(found) == CanRead /\ AddRule(rule, NewRule("PLAIN", NoRule), found)

(* One more `goto` points to the chain that starts with rule r. *)
Counted(r) == [rule EXCEPT ![r].m_ref = @ + 1]

ReadGoto(n) ==
  /\ CanRead
  /\ Lookup(n) # NoRule
  /\ AddRule(Counted(Lookup(n)), NewRule("GOTO", Lookup(n)), TRUE)

(* A goto that is not followed by a semicolon: the rule is gone and the    *)
(* target's count stays as it is.                                          *)
ReadGotoNoSemicolon(n) ==
  /\ Continues("reading") /\ open # <<>>
  /\ Lookup(n) # NoRule
  /\ rule' = Counted(Lookup(n))
  /\ phase' = "failing"
  /\ UNCHANGED <<live, parsing, freeing, todo, heads, misused>>

(* Any other error in a rule or between chains, a goto to a name not in    *)
(* the map among them: nothing that stays was changed.                     *)
SyntaxError ==
  /\ Continues("reading")
  /\ phase' = "failing"
  /\ UNCHANGED <<rule, live, parsing, freeing, todo, heads, misused>>

(* Another token than a left brace behind `chain name`: it is freed, and   *)
(* only then printed into the message.  What comes of reading the freed    *)
(* token is undefined: the error exit that follows, or a crash.            *)
NoBrace ==
  /\ Continues("reading")
  /\ phase' \in {"failing", "crashed"}
  /\ UNCHANGED <<rule, live, parsing, freeing, todo, heads, misused>>

(* The file ends after `chain name` or inside a rule: strcmp(NULL, ...).   *)
NullToken ==
  /\ Continues("reading")
  /\ phase' = "crashed"
  /\ UNCHANGED <<rule, live, parsing, freeing, todo, heads, misused>>

(* `chain n {`, at the top or inside another chain *)
OpenChain(n) ==
  /\ Continues("reading")
  /\ Len(open) < MaxDepth
  /\ open' = <<NewChain(n)>> \o open
  /\ UNCHANGED <<phase, rule, live, map, replaced, freeing, todo, heads, misused>>

(* string_map_insert: a value that is there already is replaced. *)
Inserted(name, r) ==
  [n \in DOMAIN map \cup {name} |-> IF n = name THEN r ELSE map[n]]

(* `}`: link_chain looks up the calls; a chain with an unknown function,   *)
(* and also one without rules, whose NULL is taken for failure, ends the   *)
(* parse.  Any other is put into the map.                                  *)
CloseChain ==
  LET c == Head(open)
  IN  /\ Continues("reading") /\ open # <<>>
      /\ IF c.head # NoRule /\ c.links
         THEN /\ map' = Inserted(c.name, c.head)
              /\ replaced' = (replaced \/ c.name \in DOMAIN map)
              /\ open' = Tail(open)
              /\ UNCHANGED phase
         ELSE phase' = "failing" /\ UNCHANGED parsing
      /\ UNCHANGED <<rule, live, freeing, todo, heads, misused>>

------------------------------------------------------------------------------
(* free_chain, one rule at a time *)

(* try_delete_chain: the call of free_chain, if there is one *)
TryDelete(r, count) == IF count = 0 THEN <<Call(r, FALSE)>> ELSE <<>>

FreeGoto ==
  /\ freeing # <<>> /\ ~misused
  /\ LET c == Head(freeing)
         g == rule[c.cur].goto_chain
         released == <<Call(c.cur, TRUE)>> \o Tail(freeing)
     IN  /\ rule[c.cur].m_type = "GOTO" /\ ~c.released
         /\ IF g \notin live
            THEN misused' = TRUE /\ UNCHANGED <<rule, freeing>>
            ELSE /\ rule' = [rule EXCEPT ![g].m_ref = @ - 1]
                 /\ freeing' = TryDelete(g, rule'[g].m_ref) \o released
                 /\ UNCHANGED misused
  /\ UNCHANGED <<phase, live, parsing, todo, heads>>

FreeRule ==
  /\ freeing # <<>> /\ ~misused
  /\ LET c == Head(freeing)
         next == rule[c.cur].next
     IN  /\ c.released \/ rule[c.cur].m_type # "GOTO"
         /\ misused' = (c.cur \notin live)
         /\ live' = live \ {c.cur}
         /\ freeing' = (IF next = NoRule THEN <<>> ELSE <<Call(next, FALSE)>>)
                       \o Tail(freeing)
  /\ UNCHANGED <<phase, rule, parsing, todo, heads>>

(* The error exits of the calls of read_chain, from the innermost out, and *)
(* that of read_chains, which frees the map but not what is in it.         *)
Unwind ==
  /\ Continues("failing")
  /\ IF open = <<>>
     THEN phase' = "failed" /\ UNCHANGED <<open, freeing>>
     ELSE /\ open' = Tail(open)
          /\ freeing' = IF Head(open).head = NoRule THEN <<>>
                        ELSE <<Call(Head(open).head, FALSE)>>
          /\ UNCHANGED phase
  /\ UNCHANGED <<rule, live, map, replaced, todo, heads, misused>>

------------------------------------------------------------------------------
(* The end of parse_chains_from_file *)

(* test_incref counts the pointers of the chain set. *)
PointersOfSet(r) == Cardinality({n \in Kept : Lookup(n) = r})

EndOfFile ==
  /\ Continues("reading")
  /\ open = <<>>
  /\ phase' = "deleting"
  /\ heads' = [n \in Kept |-> Lookup(n)]
  /\ rule' = [r \in DOMAIN rule |-> [rule[r] EXCEPT !.m_ref = @ + PointersOfSet(r)]]
  /\ todo' = DOMAIN map
  /\ UNCHANGED <<live, parsing, freeing, misused>>

(* string_map_free calls try_delete_chain on the values, in key order. *)
VisitKey ==
  /\ Continues("deleting")
  /\ todo # {}
  /\ LET n == CHOOSE n \in todo : \A m \in todo : n <= m
     IN  /\ todo' = todo \ {n}
         /\ misused' = (map[n] \notin live)
         /\ freeing' = IF map[n] \in live THEN TryDelete(map[n], rule[map[n]].m_ref)
                                           ELSE <<>>
  /\ UNCHANGED <<phase, rule, live, parsing, heads>>

Return ==
  /\ Continues("deleting")
  /\ todo = {}
  /\ phase' = "done"
  /\ UNCHANGED <<rule, live, parsing, freeing, todo, heads, misused>>

Next ==
  \/ \E found \in BOOLEAN : ReadPlain(found)
  \/ \E n \in Names : ReadGoto(n) \/ ReadGotoNoSemicolon(n) \/ OpenChain(n)
  \/ SyntaxError \/ NoBrace \/ NullToken \/ CloseChain
  \/ FreeGoto \/ FreeRule \/ Unwind
  \/ EndOfFile \/ VisitKey \/ Return

Spec == Init /\ [][Next]_vars

------------------------------------------------------------------------------
(* Properties *)

(* The pointers of the rules, the map and the two call stacks are null or  *)
(* rules that calloc returned, and a reference count never goes below 0.   *)
TypeOK ==
  LET Rules == DOMAIN rule
      MaybeRule == Rules \cup {NoRule}
  IN  /\ phase \in {"reading", "failing", "deleting", "done", "failed", "crashed"}
      /\ rule \in Seq([m_type : {"PLAIN", "GOTO"},
                       next : MaybeRule, goto_chain : MaybeRule, m_ref : Nat])
      /\ live \subseteq Rules
      /\ DOMAIN map \subseteq Names
      /\ \A n \in DOMAIN map : map[n] \in Rules
      /\ open \in Seq([name : Names, head : MaybeRule, last : MaybeRule, links : BOOLEAN])
      /\ freeing \in Seq([cur : Rules, released : BOOLEAN])
      /\ todo \subseteq DOMAIN map
      /\ heads \in [Kept -> MaybeRule]
      /\ misused \in BOOLEAN
      /\ replaced \in BOOLEAN

(* The rules that still point to the chain at r, and the chain set's own   *)
(* pointers to it.                                                         *)
Gotos(r) ==
  {g \in live : /\ rule[g].m_type = "GOTO" /\ rule[g].goto_chain = r
                /\ \A i \in DOMAIN freeing : freeing[i] # Call(g, TRUE)}
KeptAt(r) == {n \in Kept : heads[n] = r}

Successors(R) ==
  UNION {{rule[r].next, rule[r].goto_chain} \ {NoRule} : r \in R}
Reachable(R) ==
  {r \in DOMAIN rule :
     \A S \in SUBSET DOMAIN rule : R \cup Successors(S) \subseteq S => r \in S}

(* m_ref is the number of pointers to the chain from rules and from the    *)
(* chain set, through every parse, error exit and deletion; a goto that    *)
(* was given up for its semicolon may leave it too high on the way to a    *)
(* failure, never too low.  And what a rule points to is allocated.        *)
CountsPointers ==
  ~misused =>
    /\ \A r \in live :
         LET n == Cardinality(Gotos(r)) + Cardinality(KeptAt(r))
         IN  IF phase \in {"failing", "failed"} THEN rule[r].m_ref >= n
                                                ELSE rule[r].m_ref = n
    /\ \A r \in DOMAIN rule : Gotos(r) # {} => r \in live

(* What parse_chains_from_file returns: every rule that a packet can get   *)
(* to from the four heads is allocated and, unless a chain was defined     *)
(* twice, no other rule is.                                                *)
KeptExactly ==
  phase = "done" =>
    LET kept == Reachable({heads[n] : n \in Kept} \ {NoRule})
    IN  kept \subseteq live /\ (~replaced => live = kept)

(* No way through the chains comes back to a rule, so every packet's way   *)
(* ends: a goto leads only to a chain that was complete before it.  It is  *)
(* what ChainAssumption of EtherChain takes for granted.                   *)
WaysEnd == \A r \in DOMAIN rule : r \notin Reachable(Successors({r}))

(* However deep in nested chains the parse fails, no rule is read or freed *)
(* on the error exits that was freed before, although free_chain goes on   *)
(* to the targets of the gotos it meets and the outer calls free their own *)
(* lists after it.  (Of rules only: NoBrace reads a token that was freed.) *)
ErrorExitsReadNoFreedRule == misused => phase = "deleting"

(* chain.h:55 calls m_ref a reference count: while something points to a   *)
(* chain it is not freed, so nothing freed is used.                        *)
NoUseAfterFree == ~misused
==============================================================================
