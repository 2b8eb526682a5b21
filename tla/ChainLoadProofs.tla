---------------------------- MODULE ChainLoadProofs ----------------------------
(***************************************************************************)
(* Theorems about ChainLoad for configurations of any length, any nesting  *)
(* and any names.                                                          *)
(***************************************************************************)
EXTENDS ChainLoad, SequenceTheorems, FiniteSetTheorems, WellFoundedInduction, TLAPS

RuleRec == [m_type : {"PLAIN", "GOTO"}, next : Nat, goto_chain : Nat, m_ref : Nat]
Chains == [name : Names, head : Nat, last : Nat, links : BOOLEAN]
Calls == [cur : Nat, released : BOOLEAN]

(***************************************************************************)
(* The inductive invariant.  First, what the variables hold in each phase. *)
(***************************************************************************)
Shapes ==
  /\ phase \in {"reading", "failing", "deleting", "done", "failed", "crashed"}
  /\ rule \in Seq(RuleRec)
  /\ live \subseteq DOMAIN rule
  /\ DOMAIN map \subseteq Names
  /\ \A n \in DOMAIN map : map[n] \in DOMAIN rule
  /\ open \in Seq(Chains)
  /\ freeing \in Seq(Calls)
  /\ todo \subseteq DOMAIN map
  /\ heads \in [Kept -> Nat]
  /\ \A n \in Kept : heads[n] \in DOMAIN rule \cup {NoRule}
  /\ misused \in BOOLEAN
  /\ replaced \in BOOLEAN

Phases ==
  /\ phase = "reading" => freeing = <<>> /\ live = DOMAIN rule /\ ~misused
  /\ phase \in {"reading", "failing", "failed", "crashed"} =>
       \A n \in Kept : heads[n] = NoRule
  /\ phase \in {"deleting", "done"} => open = <<>>
  /\ phase = "done" => freeing = <<>> /\ todo = {} /\ ~misused

(***************************************************************************)
(* Second, the lists that the rules form.  The number of a rule says when  *)
(* it was read.  Let end[r] be the last rule, so far, of r's chain.  A     *)
(* goto leads to a chain that was complete, so its end was read before the *)
(* goto was; while next leads to a later rule with the same end.           *)
(***************************************************************************)
Starts(r) == \A p \in DOMAIN rule : rule[p].next # r

Growing(end, r) == \E i \in DOMAIN open : open[i].last = end[r]

Linked(end) ==
  /\ end \in [DOMAIN rule -> DOMAIN rule]
  /\ \A r \in DOMAIN rule :
       /\ r <= end[r]
       /\ rule[r].next # NoRule =>
            /\ rule[r].next \in DOMAIN rule /\ r < rule[r].next
            /\ end[rule[r].next] = end[r]
       /\ rule[r].m_type = "PLAIN" => rule[r].goto_chain = NoRule
       /\ rule[r].m_type = "GOTO" =>
            LET g == rule[r].goto_chain
            IN  g \in DOMAIN rule /\ end[g] < r /\ Starts(g) /\ ~Growing(end, g)
  /\ \A r, s \in DOMAIN rule : rule[r].next = rule[s].next /\ rule[r].next # NoRule => r = s
  /\ \A i \in DOMAIN open :
       LET c == open[i]
       IN  /\ c.head = NoRule <=> c.last = NoRule
           /\ c.head # NoRule =>
                /\ c.head \in DOMAIN rule /\ c.last \in DOMAIN rule /\ Starts(c.head)
                /\ end[c.head] = c.last /\ end[c.last] = c.last
  /\ \A i, j \in DOMAIN open : open[i].last = open[j].last /\ open[i].last # NoRule => i = j
  /\ \A n \in DOMAIN map : Starts(map[n]) /\ ~Growing(end, map[n])
  /\ \A n \in Kept : heads[n] # NoRule => Starts(heads[n])

(***************************************************************************)
(* Third, what is freed.  A chain is freed from its start, so that the     *)
(* rules that are left of it are its end; a call of free_chain is at the   *)
(* first of these, and no pointer leads there.                             *)
(***************************************************************************)
BeingFreed(r) == \E i \in DOMAIN freeing : freeing[i].cur = r

FreedInOrder ==
  /\ \A i, j \in DOMAIN freeing : freeing[i].cur = freeing[j].cur => i = j
  /\ \A i \in DOMAIN freeing : freeing[i].cur \in live
  /\ \A r \in live : rule[r].next # NoRule => rule[r].next \in live
  /\ \A p \in DOMAIN rule : rule[p].next \in live =>
       (p \notin live <=> BeingFreed(rule[p].next))
  /\ \A i \in DOMAIN open : open[i].head # NoRule =>
       open[i].head \in live /\ ~BeingFreed(open[i].head)

PointersKept ==
  \A r \in DOMAIN rule :
    Gotos(r) # {} \/ KeptAt(r) # {} => r \in live /\ ~BeingFreed(r)

(* Fourth, the counts, ... *)
CountsFit ==
  \A r \in live :
    LET n == Cardinality(Gotos(r)) + Cardinality(KeptAt(r))
    IN  IF phase \in {"failing", "failed"} THEN rule[r].m_ref >= n
                                           ELSE rule[r].m_ref = n

(* ... and where the chains are that nothing points to.                    *)
Visited ==
  /\ phase = "reading" =>
       \A r \in DOMAIN rule : Starts(r) =>
         \/ \E i \in DOMAIN open : open[i].head = r
         \/ \E n \in DOMAIN map : map[n] = r
  /\ phase \in {"deleting", "done"} =>
       \A r \in live : Starts(r) /\ rule[r].m_ref = 0 =>
         BeingFreed(r) \/ \E n \in todo : map[n] = r

Valid(end) ==
  /\ Shapes /\ Phases /\ Linked(end)
  /\ FreedInOrder /\ PointersKept /\ CountsFit /\ (~replaced => Visited)

IInv ==
  /\ Shapes /\ Phases
  /\ \E end \in [DOMAIN rule -> DOMAIN rule] : Linked(end)
  /\ ~misused => FreedInOrder /\ PointersKept /\ CountsFit /\ (~replaced => Visited)
  /\ ErrorExitsReadNoFreedRule
  /\ misused => freeing = <<>>

------------------------------------------------------------------------------
(* Sequences, from both ends *)

LEMMA AsSequence ==
  ASSUME NEW S, NEW n \in Nat, NEW s \in [1..n -> S]
  PROVE  s \in Seq(S)
BY SeqDef

LEMMA AppendAt ==
  ASSUME NEW S, NEW s \in Seq(S), NEW x \in S
  PROVE  /\ Append(s, x) \in Seq(S)
         /\ Len(s) \in Nat /\ DOMAIN s = 1..Len(s) /\ Len(s) + 1 \notin DOMAIN s
         /\ DOMAIN Append(s, x) = DOMAIN s \cup {Len(s) + 1}
         /\ \A i \in DOMAIN s : Append(s, x)[i] = s[i]
         /\ Append(s, x)[Len(s) + 1] = x
BY AppendProperties, LenProperties

LEMMA ChangeAt ==
  ASSUME NEW S, NEW s \in Seq(S), NEW k \in DOMAIN s, NEW x \in S
  PROVE  /\ [s EXCEPT ![k] = x] \in Seq(S)
         /\ Len([s EXCEPT ![k] = x]) = Len(s)
         /\ DOMAIN [s EXCEPT ![k] = x] = DOMAIN s
         /\ [s EXCEPT ![k] = x][k] = x
         /\ \A i \in DOMAIN s \ {k} : [s EXCEPT ![k] = x][i] = s[i]
BY ExceptSeq, LenProperties

LEMMA TailAt ==
  ASSUME NEW S, NEW s \in Seq(S), s # <<>>
  PROVE  /\ Tail(s) \in Seq(S)
         /\ Len(s) \in Nat \ {0} /\ DOMAIN s = 1..Len(s)
         /\ Head(s) \in S /\ Head(s) = s[1]
         /\ DOMAIN Tail(s) = 1..(Len(s) - 1)
         /\ \A i \in 1..(Len(s) - 1) : Tail(s)[i] = s[i + 1]
BY HeadTailProperties, LenProperties, EmptySeq

LEMMA PushAt ==
  ASSUME NEW S, NEW s \in Seq(S), NEW x \in S
  PROVE  /\ <<x>> \o s \in Seq(S)
         /\ Len(s) \in Nat /\ DOMAIN s = 1..Len(s)
         /\ DOMAIN (<<x>> \o s) = 1..(Len(s) + 1)
         /\ (<<x>> \o s)[1] = x
         /\ \A i \in 1..Len(s) : (<<x>> \o s)[i + 1] = s[i]
<1>1. <<x>> \in Seq(S) /\ Len(<<x>>) = 1 /\ <<x>>[1] = x
  OBVIOUS
<1> QED BY <1>1, ConcatProperties, LenProperties

LEMMA PushNothing ==
  ASSUME NEW S, NEW s \in Seq(S)
  PROVE  <<>> \o s = s
BY ConcatEmptySeq

(* What the head of a sequence is replaced by stands at its place. *)
LEMMA ReplaceHeadAt ==
  ASSUME NEW S, NEW s \in Seq(S), s # <<>>, NEW x \in S, NEW t, t = <<x>> \o Tail(s)
  PROVE  /\ t \in Seq(S) /\ DOMAIN t = DOMAIN s /\ 1 \in DOMAIN s /\ DOMAIN s \subseteq Nat
         /\ t[1] = x
         /\ \A i \in DOMAIN s \ {1} : t[i] = s[i]
<1>1. Tail(s) \in Seq(S) /\ Len(s) \in Nat \ {0} /\ DOMAIN s = 1..Len(s)
      /\ DOMAIN Tail(s) = 1..(Len(s) - 1)
      /\ \A i \in 1..(Len(s) - 1) : Tail(s)[i] = s[i + 1]
  BY TailAt
<1>2. Len(Tail(s)) = Len(s) - 1
  BY <1>1, LenProperties
<1>3. /\ t \in Seq(S) /\ DOMAIN t = 1..(Len(s) - 1 + 1) /\ t[1] = x
      /\ \A i \in 1..(Len(s) - 1) : t[i + 1] = Tail(s)[i]
  BY <1>1, <1>2, PushAt
<1>4. \A i \in 2..Len(s) : t[i] = s[i]
  <2> TAKE i \in 2..Len(s)
  <2>1. i - 1 \in 1..(Len(s) - 1) /\ i - 1 + 1 = i
    BY <1>1
  <2> QED BY <1>1, <1>3, <2>1
<1> QED BY <1>1, <1>3, <1>4

------------------------------------------------------------------------------
(* What the invariant says at once *)

LEMMA RuleType ==
  ASSUME Shapes, NEW r \in DOMAIN rule
  PROVE  /\ rule[r] \in RuleRec /\ r \in Nat \ {0}
         /\ Len(rule) \in Nat /\ DOMAIN rule = 1..Len(rule)
BY ElementOfSeq, LenProperties DEF Shapes

LEMMA ChainType ==
  ASSUME Shapes, NEW i \in DOMAIN open
  PROVE  open[i] \in Chains /\ i \in Nat \ {0}
BY ElementOfSeq, LenProperties DEF Shapes

LEMMA CallType ==
  ASSUME Shapes, NEW i \in DOMAIN freeing
  PROVE  freeing[i] \in Calls /\ i \in Nat \ {0}
BY ElementOfSeq, LenProperties DEF Shapes

LEMMA PointersFinite ==
  ASSUME Shapes, NEW r
  PROVE  /\ IsFiniteSet(Gotos(r)) /\ Gotos(r) \subseteq live
         /\ Cardinality(Gotos(r)) \in Nat
         /\ IsFiniteSet(KeptAt(r)) /\ KeptAt(r) \subseteq Kept
         /\ Cardinality(KeptAt(r)) \in Nat
<1>1. IsFiniteSet(DOMAIN rule)
  BY LenProperties, FS_Interval DEF Shapes
<1>2. Gotos(r) \subseteq live /\ KeptAt(r) \subseteq Kept
  BY DEF Gotos, KeptAt
<1>3. IsFiniteSet(Gotos(r)) /\ IsFiniteSet(KeptAt(r))
  BY <1>1, <1>2, FS_Subset, ChainLoadAssumption DEF Shapes
<1> QED BY <1>2, <1>3, FS_CardinalityType

(* A set of numbers that is not empty has a least one. *)
LEMMA LeastNumber ==
  ASSUME NEW T \in SUBSET Nat, T # {}
  PROVE  \E n \in T : \A m \in T : n <= m
<1> DEFINE less == OpToRel(<, Nat)
<1>1. ASSUME NEW x \in Nat, NEW y \in Nat PROVE <<y, x>> \in less <=> y < x
  BY DEF OpToRel
<1>2. PICK n \in T : \A m \in T : ~ (<<m, n>> \in less)
  BY NatLessThanWellFounded, WFMin
<1>3. ASSUME NEW m \in T PROVE n <= m
  <2>1. m \in Nat /\ n \in Nat
    OBVIOUS
  <2>2. ~ (m < n)
    BY <1>1, <1>2, <2>1
  <2> QED BY <2>1, <2>2
<1> QED BY <1>2, <1>3

LEMMA EmptyCounts ==
  ASSUME NEW S, IsFiniteSet(S)
  PROVE  (Cardinality(S) = 0) <=> (S = {})
BY FS_EmptySet

(* Steps that change neither the lists nor what stands where they start. *)
LEMMA SameLists ==
  ASSUME Shapes, NEW end, Linked(end),
         DOMAIN rule' = DOMAIN rule,
         \A r \in DOMAIN rule : /\ rule'[r].m_type = rule[r].m_type
                                /\ rule'[r].next = rule[r].next
                                /\ rule'[r].goto_chain = rule[r].goto_chain,
         open' = open \/ (open # <<>> /\ open' = Tail(open)),
         \A n \in DOMAIN map' : Starts(map'[n]) /\ ~Growing(end, map[n])',
         \A n \in Kept : heads'[n] # NoRule => Starts(heads'[n])
  PROVE  /\ Linked(end)'
         /\ \A r : Starts(r)' <=> Starts(r)
<1>1. \A r : Starts(r)' <=> Starts(r)
  BY DEF Starts
<1>2. \A i \in DOMAIN open' : \E j \in DOMAIN open : open'[i] = open[j]
  <2>1. CASE open # <<>> /\ open' = Tail(open)
    BY <2>1, TailAt DEF Shapes
  <2> QED BY <2>1
<1>3. \A r : Growing(end, r)' => Growing(end, r)
  BY <1>2 DEF Growing
<1>4. \A i, j \in DOMAIN open' : open'[i].last = open'[j].last /\ open'[i].last # NoRule => i = j
  <2>1. CASE open # <<>> /\ open' = Tail(open)
    <3>1. /\ Len(open) \in Nat \ {0} /\ DOMAIN open = 1..Len(open)
          /\ DOMAIN open' = 1..(Len(open) - 1)
          /\ \A i \in 1..(Len(open) - 1) : open'[i] = open[i + 1]
      BY <2>1, TailAt DEF Shapes
    <3> TAKE i, j \in DOMAIN open'
    <3>2. /\ i + 1 \in DOMAIN open /\ j + 1 \in DOMAIN open
          /\ open'[i] = open[i + 1] /\ open'[j] = open[j + 1]
      BY <3>1
    <3>3. open[i + 1].last = open[j + 1].last /\ open[i + 1].last # NoRule => i + 1 = j + 1
      BY <3>2 DEF Linked
    <3> QED BY <3>1, <3>2, <3>3
  <2>2. CASE open' = open
    BY <2>2 DEF Linked
  <2> QED BY <2>1, <2>2
<1>5. \A i \in DOMAIN open' :
        /\ open'[i].head = NoRule <=> open'[i].last = NoRule
        /\ open'[i].head # NoRule =>
             /\ open'[i].head \in DOMAIN rule /\ open'[i].last \in DOMAIN rule
             /\ Starts(open'[i].head)
             /\ end[open'[i].head] = open'[i].last /\ end[open'[i].last] = open'[i].last
  BY <1>2 DEF Linked
<1>6. ASSUME NEW r \in DOMAIN rule'
      PROVE  /\ r <= end[r]
             /\ rule'[r].next # NoRule =>
                  /\ rule'[r].next \in DOMAIN rule' /\ r < rule'[r].next
                  /\ end[rule'[r].next] = end[r]
             /\ rule'[r].m_type = "PLAIN" => rule'[r].goto_chain = NoRule
             /\ rule'[r].m_type = "GOTO" =>
                  /\ rule'[r].goto_chain \in DOMAIN rule' /\ end[rule'[r].goto_chain] < r
                  /\ Starts(rule[r].goto_chain)' /\ ~Growing(end, rule[r].goto_chain)'
  <2>1. PICK g : g = rule'[r].goto_chain
    OBVIOUS
  <2>2. rule[r].m_type = "GOTO" =>
          g \in DOMAIN rule /\ end[g] < r /\ Starts(g) /\ ~Growing(end, g)
    BY <2>1 DEF Linked
  <2>3. rule[r].m_type = "GOTO" => Starts(g)' /\ ~Growing(end, g)'
    BY <1>1, <1>3, <2>2
  <2>4. rule[r].m_type = "GOTO" => Starts(rule[r].goto_chain)' /\ ~Growing(end, rule[r].goto_chain)'
    BY <2>1, <2>3 DEF Starts, Growing
  <2> QED BY <2>1, <2>2, <2>4 DEF Linked
<1>7. \A r, s \in DOMAIN rule' :
        rule'[r].next = rule'[s].next /\ rule'[r].next # NoRule => r = s
  BY DEF Linked
<1>8. end \in [DOMAIN rule' -> DOMAIN rule']
  BY DEF Linked
<1>9. \A n \in DOMAIN map' : Starts(map[n])' /\ ~Growing(end, map[n])'
  BY DEF Starts
<1>10. \A n \in Kept : heads'[n] # NoRule => Starts(heads[n])'
  BY DEF Starts
<1>11. \A i \in DOMAIN open' : open'[i].head # NoRule => Starts(open[i].head)'
  BY <1>5 DEF Starts
<1>12. Linked(end)'
  BY <1>4, <1>5, <1>6, <1>7, <1>8, <1>9, <1>10, <1>11 DEF Linked
<1> QED BY <1>1, <1>12

LEMMA SamePointers ==
  ASSUME DOMAIN rule' = DOMAIN rule, live \subseteq DOMAIN rule,
         \A r \in DOMAIN rule : /\ rule'[r].m_type = rule[r].m_type
                                /\ rule'[r].goto_chain = rule[r].goto_chain,
         UNCHANGED <<live, freeing>>
  PROVE  /\ \A r : Gotos(r)' = Gotos(r)
         /\ \A r : BeingFreed(r)' <=> BeingFreed(r)
BY DEF Gotos, BeingFreed

LEMMA SameHeads ==
  ASSUME UNCHANGED heads
  PROVE  \A r : KeptAt(r)' = KeptAt(r)
BY DEF KeptAt

------------------------------------------------------------------------------
(* The steps of the invariant *)

LEMMA InitIInv == Init => IInv
<1> SUFFICES ASSUME Init PROVE IInv
  OBVIOUS
<1>1. Shapes
  <2>1. /\ <<>> \in Seq(RuleRec) /\ <<>> \in Seq(Chains) /\ <<>> \in Seq(Calls)
        /\ DOMAIN <<>> = {}
    OBVIOUS
  <2>2. heads \in [Kept -> Nat] /\ \A n \in Kept : heads[n] = NoRule
    BY DEF Init, NoRule
  <2> QED BY <2>1, <2>2 DEF Init, Shapes
<1>6. Phases
  BY DEF Init, Phases
<1>2. <<>> \in [DOMAIN rule -> DOMAIN rule]
  BY DEF Init
<1>3. Linked(<<>>)
  BY <1>2 DEF Init, Linked
<1>4. FreedInOrder /\ CountsFit
  BY DEF Init, FreedInOrder, CountsFit
<1>5. PointersKept /\ Visited /\ ErrorExitsReadNoFreedRule /\ ~misused
  BY DEF Init, PointersKept, Visited, ErrorExitsReadNoFreedRule
<1> QED BY <1>1, <1>2, <1>3, <1>4, <1>5, <1>6 DEF IInv

(* Reading goes on as long as every rule is allocated.                     *)
LEMMA WhileReading ==
  ASSUME NEW end, Valid(end), phase = "reading"
  PROVE  /\ freeing = <<>> /\ live = DOMAIN rule /\ ~misused
         /\ \A r : ~BeingFreed(r)
         /\ \A r \in DOMAIN rule : KeptAt(r) = {} /\ Cardinality(KeptAt(r)) = 0
         /\ \A r : Gotos(r) =
              {g \in DOMAIN rule : rule[g].m_type = "GOTO" /\ rule[g].goto_chain = r}
<1>1. freeing = <<>> /\ live = DOMAIN rule /\ ~misused /\ \A n \in Kept : heads[n] = NoRule
  BY DEF Valid, Phases
<1>2. \A r : ~BeingFreed(r)
  BY <1>1 DEF BeingFreed
<1>3. \A r \in DOMAIN rule : KeptAt(r) = {}
  BY <1>1, RuleType DEF KeptAt, Valid, NoRule
<1>4. \A r : Gotos(r) = {g \in DOMAIN rule : rule[g].m_type = "GOTO" /\ rule[g].goto_chain = r}
  BY <1>1 DEF Gotos
<1> QED BY <1>1, <1>2, <1>3, <1>4, FS_EmptySet

(* The parse stops where an error is, or crashes: what a goto without its  *)
(* semicolon has counted stays counted.                                    *)
LEMMA Stops ==
  ASSUME NEW end, Valid(end), phase = "reading", phase' \in {"failing", "crashed"},
         UNCHANGED <<live, parsing, freeing, todo, heads, misused>>,
         rule' = rule \/ (phase' = "failing" /\ \E t \in DOMAIN rule : rule' = Counted(t))
  PROVE  Valid(end)'
<1> USE DEF Valid
<1>1. UNCHANGED <<live, map, open, replaced, freeing, todo, heads, misused>>
  BY DEF parsing
<1>2. /\ rule' \in Seq(RuleRec) /\ DOMAIN rule' = DOMAIN rule
      /\ \A r \in DOMAIN rule : /\ rule'[r].m_type = rule[r].m_type
                                /\ rule'[r].next = rule[r].next
                                /\ rule'[r].goto_chain = rule[r].goto_chain
                                /\ rule'[r].m_ref >= rule[r].m_ref
                                /\ phase' = "crashed" => rule'[r].m_ref = rule[r].m_ref
  <2>1. CASE rule' = rule
    BY <2>1, RuleType DEF Shapes, RuleRec
  <2>2. CASE phase' = "failing" /\ \E t \in DOMAIN rule : rule' = Counted(t)
    <3> PICK t \in DOMAIN rule : rule' = Counted(t)
      BY <2>2
    <3>1. PICK x \in RuleRec : x = rule[t]
      BY RuleType
    <3>2. PICK y : y = [x EXCEPT !.m_ref = x.m_ref + 1]
      OBVIOUS
    <3>3. /\ y \in RuleRec /\ y.m_type = x.m_type /\ y.next = x.next
          /\ y.goto_chain = x.goto_chain /\ y.m_ref = x.m_ref + 1
      BY <3>2 DEF RuleRec
    <3>4. rule' = [rule EXCEPT ![t] = y] /\ rule \in Seq(RuleRec)
      BY <2>2, <3>1, <3>2 DEF Counted, Shapes
    <3>5. /\ rule' \in Seq(RuleRec) /\ DOMAIN rule' = DOMAIN rule /\ rule'[t] = y
          /\ \A r \in DOMAIN rule \ {t} : rule'[r] = rule[r]
      BY <3>3, <3>4, ChangeAt
    <3>6. \A r \in DOMAIN rule : rule[r].m_ref \in Nat
      BY RuleType DEF RuleRec
    <3> QED BY <2>2, <3>1, <3>3, <3>5, <3>6
  <2> QED BY <2>1, <2>2
<1>3. Shapes'
  BY <1>1, <1>2 DEF Shapes
<1>4. Phases'
  BY <1>1 DEF Phases
<1>5. Linked(end)' /\ \A r : Starts(r)' <=> Starts(r)
  <2>1. \A n \in DOMAIN map' : Starts(map'[n]) /\ ~Growing(end, map[n])'
    BY <1>1 DEF Linked, Growing
  <2>2. \A n \in Kept : heads'[n] # NoRule => Starts(heads'[n])
    BY <1>1 DEF Linked
  <2> QED BY <1>1, <1>2, <2>1, <2>2, SameLists
<1>6. /\ \A r : Gotos(r)' = Gotos(r)
      /\ \A r : BeingFreed(r)' <=> BeingFreed(r)
      /\ \A r : KeptAt(r)' = KeptAt(r)
  BY <1>1, <1>2, SamePointers, SameHeads DEF Shapes
<1>7. FreedInOrder'
  BY <1>1, <1>2, WhileReading DEF FreedInOrder, BeingFreed
<1>8. PointersKept'
  BY <1>1, <1>2, <1>6 DEF PointersKept
<1>9. CountsFit'
  <2> SUFFICES ASSUME NEW r \in live
               PROVE  LET n == Cardinality(Gotos(r)) + Cardinality(KeptAt(r))
                      IN  IF phase' \in {"failing", "failed"} THEN rule'[r].m_ref >= n
                                                              ELSE rule'[r].m_ref = n
    BY <1>1, <1>6 DEF CountsFit
  <2>1. /\ rule[r].m_ref = Cardinality(Gotos(r)) + Cardinality(KeptAt(r))
        /\ r \in DOMAIN rule
    BY DEF CountsFit, Shapes
  <2>2. rule[r].m_ref \in Nat /\ rule'[r].m_ref \in Nat
    <3>1. rule[r] \in RuleRec
      BY <2>1, RuleType
    <3>2. rule'[r] \in RuleRec
      BY <1>2, <2>1, ElementOfSeq, LenProperties
    <3> QED BY <3>1, <3>2 DEF RuleRec
  <2> QED BY <1>2, <2>1, <2>2
<1>10. Visited'
  BY DEF Visited
<1> QED BY <1>3, <1>4, <1>5, <1>7, <1>8, <1>9, <1>10

LEMMA LookedUp ==
  ASSUME Shapes, NEW n, Lookup(n) # NoRule
  PROVE  n \in DOMAIN map /\ Lookup(n) = map[n] /\ map[n] \in DOMAIN rule
BY DEF Shapes, Lookup

LEMMA ReadGotoNoSemicolonStep ==
  ASSUME NEW end, Valid(end), NEW n \in Names, ReadGotoNoSemicolon(n)
  PROVE  Valid(end)'
<1>1. Lookup(n) \in DOMAIN rule
  BY LookedUp DEF ReadGotoNoSemicolon, Valid
<1> QED BY <1>1, Stops DEF ReadGotoNoSemicolon, Continues

LEMMA SyntaxErrorStep ==
  ASSUME NEW end, Valid(end), SyntaxError
  PROVE  Valid(end)'
BY Stops DEF SyntaxError, Continues

LEMMA NoBraceStep ==
  ASSUME NEW end, Valid(end), NoBrace
  PROVE  Valid(end)'
BY Stops DEF NoBrace, Continues

LEMMA NullTokenStep ==
  ASSUME NEW end, Valid(end), NullToken
  PROVE  Valid(end)'
BY Stops DEF NullToken, Continues

LEMMA OpenChainStep ==
  ASSUME NEW end, Valid(end), NEW n \in Names, OpenChain(n)
  PROVE  Valid(end)'
<1> USE DEF Valid
<1>1. /\ phase = "reading" /\ open' = <<NewChain(n)>> \o open
      /\ UNCHANGED <<phase, rule, live, map, replaced, freeing, todo, heads, misused>>
  BY DEF OpenChain, Continues
<1>2. NewChain(n) \in Chains /\ NewChain(n).head = NoRule /\ NewChain(n).last = NoRule
  BY DEF NewChain, Chains, NoRule
<1>3. /\ open' \in Seq(Chains) /\ Len(open) \in Nat /\ DOMAIN open = 1..Len(open)
      /\ DOMAIN open' = 1..(Len(open) + 1) /\ open'[1] = NewChain(n)
      /\ \A i \in 1..Len(open) : open'[i + 1] = open[i]
  BY <1>1, <1>2, PushAt DEF Shapes
<1>4. \A i \in DOMAIN open' : open'[i].last # NoRule \/ open'[i].head # NoRule =>
        i - 1 \in DOMAIN open /\ open'[i] = open[i - 1]
  <2> TAKE i \in DOMAIN open'
  <2>1. CASE i = 1
    BY <1>2, <1>3, <2>1
  <2>2. CASE i # 1
    <3>1. i - 1 \in 1..Len(open) /\ i - 1 + 1 = i
      BY <1>3, <2>2
    <3> QED BY <1>3, <3>1
  <2> QED BY <2>1, <2>2
<1>5. \A i \in DOMAIN open : i + 1 \in DOMAIN open' /\ open'[i + 1] = open[i]
  BY <1>3
<1>6. Shapes' /\ Phases'
  BY <1>1, <1>3 DEF Shapes, Phases
<1>7. Linked(end)'
  <2>1. ASSUME NEW r \in DOMAIN rule PROVE Growing(end, r)' <=> Growing(end, r)
    <3>1. end[r] # NoRule
      BY RuleType DEF Linked, NoRule
    <3>2. PICK e : e = end[r]
      OBVIOUS
    <3>3. ASSUME NEW i \in DOMAIN open', open'[i].last = e
          PROVE  \E j \in DOMAIN open : open[j].last = e
      BY <1>4, <3>1, <3>2, <3>3
    <3>4. ASSUME NEW i \in DOMAIN open, open[i].last = e
          PROVE  \E j \in DOMAIN open' : open'[j].last = e
      BY <1>5, <3>4
    <3> QED BY <3>2, <3>3, <3>4 DEF Growing
  <2>2. \A r : Starts(r)' <=> Starts(r)
    BY <1>1 DEF Starts
  <2>3. \A i, j \in DOMAIN open' : open'[i].last = open'[j].last /\ open'[i].last # NoRule => i = j
    <3> TAKE i, j \in DOMAIN open'
    <3>1. i - 1 = j - 1 => i = j
      BY <1>3
    <3> QED BY <1>4, <3>1 DEF Linked
  <2>4. \A i \in DOMAIN open' :
          /\ open'[i].head = NoRule <=> open'[i].last = NoRule
          /\ open'[i].head # NoRule =>
               /\ open'[i].head \in DOMAIN rule /\ open'[i].last \in DOMAIN rule
               /\ Starts(open'[i].head)
               /\ end[open'[i].head] = open'[i].last /\ end[open'[i].last] = open'[i].last
    BY <1>4 DEF Linked
  <2>5. \A i \in DOMAIN open' : open'[i].head # NoRule => Starts(open[i].head)'
    BY <1>1, <2>4 DEF Starts
  <2>6. \A r \in DOMAIN rule : rule[r].m_type = "GOTO" =>
          Starts(rule[r].goto_chain)' /\ ~Growing(end, rule[r].goto_chain)'
    <3>1. \A r \in DOMAIN rule : rule[r].m_type = "GOTO" =>
            /\ rule[r].goto_chain \in DOMAIN rule
            /\ Starts(rule[r].goto_chain) /\ ~Growing(end, rule[r].goto_chain)
      BY DEF Linked
    <3> QED BY <1>1, <2>1, <2>2, <3>1
  <2>7. \A k \in DOMAIN map : Starts(map[k])' /\ ~Growing(end, map[k])'
    BY <1>1, <2>1, <2>2 DEF Linked, Shapes
  <2>8. \A k \in Kept : heads[k] # NoRule => Starts(heads[k])'
    BY <1>1, <2>2 DEF Linked
  <2> QED BY <1>1, <2>3, <2>4, <2>5, <2>6, <2>7, <2>8 DEF Linked
<1>8. /\ \A r : Gotos(r)' = Gotos(r)
      /\ \A r : BeingFreed(r)' <=> BeingFreed(r)
      /\ \A r : KeptAt(r)' = KeptAt(r)
  BY <1>1, SamePointers, SameHeads DEF Shapes
<1>9. FreedInOrder'
  <2>1. \A i \in DOMAIN open' : open'[i].head # NoRule =>
          open'[i].head \in live /\ ~BeingFreed(open'[i].head)
    BY <1>4 DEF FreedInOrder
  <2> QED BY <1>1, <1>4, <2>1 DEF FreedInOrder, BeingFreed
<1>10. PointersKept' /\ CountsFit'
  BY <1>1, <1>8 DEF PointersKept, CountsFit
<1>11. ~replaced' => Visited'
  <2>1. \A r : Starts(r)' <=> Starts(r)
    BY <1>1 DEF Starts
  <2> SUFFICES ASSUME ~replaced, NEW r \in DOMAIN rule, Starts(r)
               PROVE  \/ \E i \in DOMAIN open' : open'[i].head = r
                      \/ \E k \in DOMAIN map : map[k] = r
    BY <1>1, <2>1 DEF Visited
  <2>2. \/ \E i \in DOMAIN open : open[i].head = r
        \/ \E k \in DOMAIN map : map[k] = r
    BY <1>1 DEF Visited
  <2> QED BY <1>5, <2>2
<1> QED BY <1>6, <1>7, <1>9, <1>10, <1>11

(* A chain that is complete: its rules are not added to any more, so that  *)
(* gotos may lead to it.                                                   *)
LEMMA CloseChainStep ==
  ASSUME NEW end, Valid(end), CloseChain
  PROVE  Valid(end)'
<1> USE DEF Valid
<1> PICK c : c = Head(open)
  OBVIOUS
<1>1. /\ phase = "reading" /\ open # <<>>
      /\ UNCHANGED <<rule, live, freeing, todo, heads, misused>>
  BY DEF CloseChain, Continues
<1>2. /\ c \in Chains /\ c = open[1] /\ Tail(open) \in Seq(Chains)
      /\ Len(open) \in Nat \ {0} /\ DOMAIN open = 1..Len(open)
      /\ DOMAIN Tail(open) = 1..(Len(open) - 1)
      /\ \A i \in 1..(Len(open) - 1) : Tail(open)[i] = open[i + 1]
  BY <1>1, TailAt DEF Shapes
<1>3. CASE ~(c.head # NoRule /\ c.links)
  <2>1. phase' = "failing" /\ UNCHANGED parsing
    BY <1>3 DEF CloseChain
  <2> QED BY <1>1, <2>1, Stops
<1>4. CASE c.head # NoRule /\ c.links
  <2>1. /\ map' = Inserted(c.name, c.head) /\ open' = Tail(open) /\ phase' = phase
        /\ replaced' = (replaced \/ c.name \in DOMAIN map)
    BY <1>4 DEF CloseChain
  <2>2. /\ DOMAIN map' = DOMAIN map \cup {c.name} /\ map'[c.name] = c.head
        /\ \A n \in DOMAIN map \ {c.name} : map'[n] = map[n]
    BY <2>1 DEF Inserted
  <2>3. /\ c.head \in DOMAIN rule /\ Starts(c.head) /\ end[c.head] = c.last
        /\ c.name \in Names /\ c.last # NoRule
    BY <1>2, <1>4 DEF Linked, Chains
  <2>4. \A i \in DOMAIN open' : i + 1 \in DOMAIN open /\ i + 1 # 1 /\ open'[i] = open[i + 1]
    BY <1>2, <2>1
  <2>5. ~(\E i \in DOMAIN open' : open'[i].last = end[c.head])
    BY <1>2, <2>3, <2>4 DEF Linked
  <2>6. Shapes' /\ Phases'
    BY <1>1, <1>2, <2>1, <2>2, <2>3 DEF Shapes, Phases
  <2>7. Linked(end)' /\ \A r : Starts(r)' <=> Starts(r)
    <3>1. \A r : Growing(end, r)' => Growing(end, r)
      BY <2>4 DEF Growing
    <3>2. \A n \in DOMAIN map' : Starts(map'[n])
      BY <2>2, <2>3 DEF Linked
    <3>3. \A n \in DOMAIN map' : ~Growing(end, map[n])'
      <4> TAKE n \in DOMAIN map'
      <4>1. CASE n = c.name
        BY <2>2, <2>5, <4>1 DEF Growing
      <4>2. CASE n # c.name
        <5>1. n \in DOMAIN map /\ map'[n] = map[n] /\ ~Growing(end, map[n])
          BY <2>2, <4>2 DEF Linked
        <5> QED BY <2>4, <5>1 DEF Growing
      <4> QED BY <4>1, <4>2
    <3>4. \A n \in Kept : heads'[n] # NoRule => Starts(heads'[n])
      BY <1>1 DEF Linked
    <3> QED BY <1>1, <2>1, <3>2, <3>3, <3>4, SameLists
  <2>8. /\ \A r : Gotos(r)' = Gotos(r)
        /\ \A r : BeingFreed(r)' <=> BeingFreed(r)
        /\ \A r : KeptAt(r)' = KeptAt(r)
    BY <1>1, SamePointers, SameHeads DEF Shapes
  <2>9. FreedInOrder'
    <3>1. \A i \in DOMAIN open' : open'[i].head # NoRule =>
            open'[i].head \in live /\ ~BeingFreed(open'[i].head)
      BY <2>4 DEF FreedInOrder
    <3> QED BY <1>1, <3>1 DEF FreedInOrder, BeingFreed
  <2>10. PointersKept' /\ CountsFit'
    BY <1>1, <2>1, <2>8 DEF PointersKept, CountsFit
  <2>11. ~replaced' => Visited'
    <3> SUFFICES ASSUME ~replaced', NEW r \in DOMAIN rule, Starts(r)
                 PROVE  \/ \E i \in DOMAIN open' : open'[i].head = r
                        \/ \E n \in DOMAIN map' : map'[n] = r
      BY <1>1, <2>1, <2>7 DEF Visited
    <3>1. c.name \notin DOMAIN map /\ ~replaced
      BY <2>1
    <3>2. CASE \E n \in DOMAIN map : map[n] = r
      BY <2>2, <3>1, <3>2
    <3>3. ASSUME NEW i \in DOMAIN open, open[i].head = r
          PROVE  \/ \E j \in DOMAIN open' : open'[j].head = r
                 \/ \E n \in DOMAIN map' : map'[n] = r
      <4>1. CASE i = 1
        BY <1>2, <2>2, <3>3, <4>1
      <4>2. CASE i # 1
        <5>1. i - 1 \in 1..(Len(open) - 1) /\ i - 1 + 1 = i
          BY <1>2, <4>2
        <5> QED BY <1>2, <2>1, <3>3, <5>1
      <4> QED BY <4>1, <4>2
    <3> QED BY <1>1, <3>1, <3>2, <3>3 DEF Visited
  <2> QED BY <2>6, <2>7, <2>9, <2>10, <2>11
<1> QED BY <1>3, <1>4

(* The end of the file: the chain set takes its pointers, each of which is *)
(* counted, and from now on the map's keys are visited.                    *)
LEMMA EndOfFileStep ==
  ASSUME NEW end, Valid(end), EndOfFile
  PROVE  Valid(end)'
<1> USE DEF Valid
<1>1. /\ phase = "reading" /\ phase' = "deleting" /\ open = <<>> /\ todo' = DOMAIN map
      /\ heads' = [n \in Kept |-> Lookup(n)]
      /\ UNCHANGED <<live, map, open, replaced, freeing, misused>>
  BY DEF EndOfFile, Continues, parsing
<1>2. /\ DOMAIN rule' = DOMAIN rule
      /\ \A r \in DOMAIN rule : rule'[r] = [rule[r] EXCEPT !.m_ref = @ + PointersOfSet(r)]
  BY DEF EndOfFile
<1>3. \A n \in Kept : heads'[n] # NoRule => n \in DOMAIN map /\ heads'[n] = map[n]
  BY <1>1, LookedUp
<1>4. \A r : KeptAt(r)' = {n \in Kept : Lookup(n) = r}
  BY <1>1 DEF KeptAt
<1>5. \A r \in DOMAIN rule : PointersOfSet(r) \in Nat /\ PointersOfSet(r) = Cardinality(KeptAt(r)')
  <2> TAKE r \in DOMAIN rule
  <2>1. IsFiniteSet({n \in Kept : Lookup(n) = r})
    <3>1. {n \in Kept : Lookup(n) = r} \subseteq Names /\ IsFiniteSet(Names)
      BY ChainLoadAssumption
    <3> QED BY <3>1, FS_Subset
  <2> QED BY <1>4, <2>1, FS_CardinalityType DEF PointersOfSet
<1>6. ASSUME NEW r \in DOMAIN rule
      PROVE  /\ rule'[r] \in RuleRec /\ rule'[r].m_type = rule[r].m_type
             /\ rule'[r].next = rule[r].next /\ rule'[r].goto_chain = rule[r].goto_chain
             /\ rule'[r].m_ref = rule[r].m_ref + PointersOfSet(r)
  <2>1. PICK x \in RuleRec : x = rule[r]
    BY RuleType
  <2>2. PICK y : y = [x EXCEPT !.m_ref = @ + PointersOfSet(r)]
    OBVIOUS
  <2>3. /\ y \in RuleRec /\ y.m_type = x.m_type /\ y.next = x.next
        /\ y.goto_chain = x.goto_chain /\ y.m_ref = x.m_ref + PointersOfSet(r)
    BY <1>5, <2>2 DEF RuleRec
  <2> QED BY <1>2, <2>1, <2>2, <2>3
<1>7. rule' \in Seq(RuleRec)
  <2>1. Len(rule) \in Nat /\ DOMAIN rule = 1..Len(rule)
    BY LenProperties DEF Shapes
  <2>2. rule' = [r \in 1..Len(rule) |-> rule'[r]]
    <3>1. rule' = [r \in DOMAIN rule |-> [rule[r] EXCEPT !.m_ref = @ + PointersOfSet(r)]]
      BY DEF EndOfFile
    <3> QED BY <2>1, <3>1
  <2>3. rule' \in [1..Len(rule) -> RuleRec]
    BY <1>6, <2>1, <2>2
  <2> QED BY <2>1, <2>3, AsSequence
<1>8. \A n \in Kept : heads'[n] \in DOMAIN rule \cup {NoRule} /\ heads'[n] \in Nat
  BY <1>1, <1>3, RuleType DEF Shapes, NoRule
<1>9. Shapes'
  <2>1. heads' \in [Kept -> Nat]
    BY <1>1, <1>8
  <2> QED BY <1>1, <1>2, <1>7, <1>8, <2>1 DEF Shapes
<1>10. Phases'
  BY <1>1 DEF Phases
<1>11. Linked(end)' /\ \A r : Starts(r)' <=> Starts(r)
  <2>1. \A n \in DOMAIN map' : Starts(map'[n]) /\ ~Growing(end, map[n])'
    BY <1>1 DEF Linked, Growing
  <2>2. \A n \in Kept : heads'[n] # NoRule => Starts(heads'[n])
    BY <1>3 DEF Linked
  <2> QED BY <1>1, <1>2, <1>6, <2>1, <2>2, SameLists
<1>12. /\ \A r : Gotos(r)' = Gotos(r)
       /\ \A r : BeingFreed(r)' <=> BeingFreed(r)
  BY <1>1, <1>2, <1>6, SamePointers DEF Shapes
<1>13. FreedInOrder'
  BY <1>1, <1>2, <1>6, WhileReading DEF FreedInOrder, BeingFreed
<1>14. PointersKept'
  BY <1>1, <1>2, <1>12, WhileReading DEF PointersKept
<1>15. CountsFit'
  <2> SUFFICES ASSUME NEW r \in live
               PROVE  rule'[r].m_ref = Cardinality(Gotos(r)) + Cardinality(KeptAt(r)')
    BY <1>1, <1>12 DEF CountsFit
  <2>1. rule[r].m_ref = Cardinality(Gotos(r)) + Cardinality(KeptAt(r)) /\ r \in DOMAIN rule
    BY <1>1 DEF CountsFit, Shapes
  <2>2. Cardinality(KeptAt(r)) = 0 /\ Cardinality(Gotos(r)) \in Nat
    BY <1>1, <2>1, WhileReading, PointersFinite
  <2> QED BY <1>5, <1>6, <2>1, <2>2
<1>16. ~replaced' => Visited'
  <2> SUFFICES ASSUME ~replaced, NEW r \in DOMAIN rule, Starts(r)
               PROVE  \E n \in DOMAIN map : map[n] = r
    BY <1>1, <1>11 DEF Visited, Shapes
  <2>1. ~(\E i \in DOMAIN open : open[i].head = r)
    BY <1>1
  <2> QED BY <1>1, <2>1 DEF Visited
<1> QED BY <1>9, <1>10, <1>11, <1>13, <1>14, <1>15, <1>16

LEMMA ReturnStep ==
  ASSUME NEW end, Valid(end), Return
  PROVE  Valid(end)'
<1> USE DEF Valid
<1>1. /\ phase = "deleting" /\ phase' = "done" /\ todo = {} /\ freeing = <<>> /\ ~misused
      /\ UNCHANGED <<rule, live, map, open, replaced, freeing, todo, heads, misused>>
  BY DEF Return, Continues, parsing
<1>2. Shapes' /\ Phases'
  BY <1>1 DEF Shapes, Phases
<1>3. Linked(end)'
  BY <1>1 DEF Linked, Growing, Starts
<1>4. FreedInOrder'
  BY <1>1 DEF FreedInOrder, BeingFreed
<1>5. /\ \A r : Gotos(r)' = Gotos(r)
      /\ \A r : BeingFreed(r)' <=> BeingFreed(r)
      /\ \A r : KeptAt(r)' = KeptAt(r)
  BY <1>1, SamePointers, SameHeads DEF Shapes
<1>6. PointersKept' /\ CountsFit'
  BY <1>1, <1>5 DEF PointersKept, CountsFit
<1>7. ~replaced' => Visited'
  BY <1>1, <1>5 DEF Visited, Starts
<1> QED BY <1>2, <1>3, <1>4, <1>6, <1>7

(* free_chain is called for a chain that nothing points to.                *)
LEMMA BeginFreeing ==
  ASSUME NEW end, Valid(end), freeing = <<>>,
         NEW h \in live, Starts(h), Gotos(h) = {}, KeptAt(h) = {},
         freeing' = <<Call(h, FALSE)>>,
         UNCHANGED <<phase, rule, live, heads>>,
         \A i \in DOMAIN open' : open'[i].head # h /\ \E j \in DOMAIN open : open'[i] = open[j]
  PROVE  /\ freeing' \in Seq(Calls)
         /\ \A r : BeingFreed(r)' <=> r = h
         /\ FreedInOrder' /\ PointersKept' /\ CountsFit'
<1> USE DEF Valid
<1>1. h \in Nat
  BY RuleType DEF Shapes
<1>2. Call(h, FALSE) \in Calls /\ Call(h, FALSE).cur = h /\ Call(h, FALSE).released = FALSE
  BY <1>1 DEF Call, Calls
<1>3. freeing' \in Seq(Calls) /\ DOMAIN freeing' = {1} /\ freeing'[1] = Call(h, FALSE)
  <2>1. PICK k \in Calls : k = Call(h, FALSE)
    BY <1>2
  <2>2. <<k>> \in Seq(Calls) /\ DOMAIN <<k>> = {1} /\ <<k>>[1] = k
    OBVIOUS
  <2> QED BY <2>1, <2>2
<1>4. \A r : BeingFreed(r)' <=> r = h
  BY <1>2, <1>3 DEF BeingFreed
<1>5. \A r : ~BeingFreed(r)
  BY DEF BeingFreed
<1>6. \A r : Gotos(r)' = Gotos(r)
  <2>1. \A g : \A i \in DOMAIN freeing' : freeing'[i] # Call(g, TRUE)
    BY <1>3 DEF Call
  <2>2. \A g : \A i \in DOMAIN freeing : freeing[i] # Call(g, TRUE)
    OBVIOUS
  <2> QED BY <2>1, <2>2 DEF Gotos
<1>7. \A r : KeptAt(r)' = KeptAt(r)
  BY SameHeads
<1>8. FreedInOrder'
  <2>1. \A i, j \in DOMAIN freeing' : freeing'[i].cur = freeing'[j].cur => i = j
    BY <1>3
  <2>2. \A i \in DOMAIN freeing' : freeing'[i].cur \in live
    BY <1>2, <1>3
  <2>3. \A p \in DOMAIN rule : rule[p].next \in live => (p \notin live <=> rule[p].next = h)
    BY <1>5 DEF FreedInOrder, Starts
  <2>4. \A p \in DOMAIN rule : rule[p].next \in live =>
          (p \notin live <=> BeingFreed(rule[p].next)')
    BY <1>4, <2>3 DEF BeingFreed
  <2>5. \A i \in DOMAIN open' : open'[i].head # NoRule =>
          open'[i].head \in live /\ open'[i].head # h
    BY DEF FreedInOrder
  <2>6. \A i \in DOMAIN open' : open'[i].head # NoRule => ~BeingFreed(open[i].head)'
    BY <1>4, <2>5 DEF BeingFreed
  <2> QED BY <2>1, <2>2, <2>4, <2>5, <2>6 DEF FreedInOrder
<1>9. PointersKept'
  BY <1>4, <1>6, <1>7 DEF PointersKept
<1>10. CountsFit'
  BY <1>6, <1>7 DEF CountsFit
<1> QED BY <1>3, <1>4, <1>8, <1>9, <1>10

(* An error exit of read_chain frees the rules of that call.               *)
LEMMA UnwindStep ==
  ASSUME NEW end, Valid(end), Unwind
  PROVE  Valid(end)'
<1> USE DEF Valid
<1>1. /\ phase = "failing" /\ freeing = <<>> /\ ~misused
      /\ UNCHANGED <<rule, live, map, replaced, todo, heads, misused>>
  BY DEF Unwind, Continues
<1>2. phase' \in {"failing", "failed"} /\ (open' = open \/ (open # <<>> /\ open' = Tail(open)))
  BY <1>1 DEF Unwind
<1>3. open' \in Seq(Chains) /\ \A i \in DOMAIN open' : \E j \in DOMAIN open : open'[i] = open[j]
  <2>1. CASE open' = open
    BY <2>1 DEF Shapes
  <2>2. CASE open # <<>> /\ open' = Tail(open)
    <3>1. /\ Tail(open) \in Seq(Chains) /\ Len(open) \in Nat /\ DOMAIN open = 1..Len(open)
          /\ DOMAIN open' = 1..(Len(open) - 1)
          /\ \A i \in 1..(Len(open) - 1) : open'[i] = open[i + 1]
      BY <2>2, TailAt DEF Shapes
    <3>2. \A i \in DOMAIN open' : i + 1 \in DOMAIN open
      BY <3>1
    <3> QED BY <2>2, <3>1, <3>2
  <2> QED BY <1>2, <2>1, <2>2
<1>4. Phases'
  BY <1>1, <1>2 DEF Phases
<1>5. Linked(end)' /\ \A r : Starts(r)' <=> Starts(r)
  <2>1. \A n \in DOMAIN map' : Starts(map'[n]) /\ ~Growing(end, map[n])'
    BY <1>1, <1>3 DEF Linked, Growing
  <2>2. \A n \in Kept : heads'[n] # NoRule => Starts(heads'[n])
    BY <1>1 DEF Linked
  <2> QED BY <1>1, <1>2, <2>1, <2>2, SameLists
<1>6. ~replaced' => Visited'
  BY <1>2 DEF Visited
<1>7. CASE freeing' = freeing
  <2>1. Shapes'
    BY <1>1, <1>2, <1>3, <1>7 DEF Shapes
  <2>2. /\ \A r : Gotos(r)' = Gotos(r)
        /\ \A r : BeingFreed(r)' <=> BeingFreed(r)
        /\ \A r : KeptAt(r)' = KeptAt(r)
    BY <1>1, <1>7, SamePointers, SameHeads DEF Shapes
  <2>3. PointersKept' /\ CountsFit'
    BY <1>1, <1>2, <2>2 DEF PointersKept, CountsFit
  <2>4. FreedInOrder'
    <3>1. \A i \in DOMAIN open' : open'[i].head # NoRule =>
            open'[i].head \in live /\ ~BeingFreed(open'[i].head)
      BY <1>3 DEF FreedInOrder
    <3> QED BY <1>1, <1>7, <3>1 DEF FreedInOrder, BeingFreed
  <2> QED BY <1>4, <1>5, <1>6, <2>1, <2>3, <2>4
<1>8. CASE freeing' # freeing
  <2> PICK h : h = Head(open).head
    OBVIOUS
  <2>1. /\ open # <<>> /\ open' = Tail(open) /\ h # NoRule /\ freeing' = <<Call(h, FALSE)>>
        /\ phase' = phase
    BY <1>1, <1>8 DEF Unwind
  <2>2. /\ h = open[1].head /\ 1 \in DOMAIN open /\ Len(open) \in Nat \ {0}
        /\ DOMAIN open = 1..Len(open) /\ DOMAIN open' = 1..(Len(open) - 1)
        /\ \A i \in 1..(Len(open) - 1) : open'[i] = open[i + 1]
    BY <2>1, TailAt DEF Shapes
  <2>3. /\ h \in live /\ Starts(h) /\ end[h] = open[1].last /\ open[1].last # NoRule
    BY <2>1, <2>2 DEF FreedInOrder, Linked
  <2>4. h \in DOMAIN rule
    BY <2>3 DEF Shapes
  <2>5. Gotos(h) = {}
    <3>1. Growing(end, h)
      BY <2>2, <2>3 DEF Growing
    <3>2. \A g \in DOMAIN rule : rule[g].m_type = "GOTO" =>
            ~Growing(end, rule[g].goto_chain)
      BY DEF Linked
    <3> QED BY <3>1, <3>2 DEF Gotos, Shapes
  <2>6. KeptAt(h) = {}
    BY <1>1, <2>1 DEF Phases, KeptAt
  <2>7. \A i \in DOMAIN open' : open'[i].head # h
    <3> TAKE i \in DOMAIN open'
    <3>1. i + 1 \in DOMAIN open /\ i + 1 # 1 /\ open'[i] = open[i + 1]
      BY <2>2
    <3>2. open[i + 1].last # open[1].last
      BY <2>2, <2>3, <3>1 DEF Linked
    <3>3. open[i + 1].head # NoRule => end[open[i + 1].head] = open[i + 1].last
      BY <3>1 DEF Linked
    <3> QED BY <2>1, <2>3, <3>1, <3>2, <3>3
  <2>8. freeing' \in Seq(Calls) /\ FreedInOrder' /\ PointersKept' /\ CountsFit'
    BY <1>1, <1>3, <2>1, <2>3, <2>5, <2>6, <2>7, BeginFreeing
  <2>9. Shapes'
    BY <1>1, <1>3, <2>1, <2>8 DEF Shapes
  <2> QED BY <1>4, <1>5, <1>6, <2>8, <2>9
<1> QED BY <1>7, <1>8

(* string_map_free finds a chain that nothing points to, or whose count    *)
(* keeps it, or - after two keys that share it - one that is gone, the     *)
(* only way for a freed rule to be read.                                   *)
LEMMA VisitKeyStep ==
  ASSUME NEW end, Valid(end), VisitKey
  PROVE  IInv'
<1> USE DEF Valid
<1> PICK n : n = CHOOSE k \in todo : \A m \in todo : k <= m
  OBVIOUS
<1>1. /\ phase = "deleting" /\ freeing = <<>> /\ ~misused /\ open = <<>>
      /\ todo' = todo \ {n} /\ misused' = (map[n] \notin live)
      /\ freeing' = IF map[n] \in live THEN TryDelete(map[n], rule[map[n]].m_ref) ELSE <<>>
      /\ UNCHANGED <<phase, rule, live, map, open, replaced, heads>>
  BY DEF VisitKey, Continues, parsing, Phases
<1>2. n \in todo /\ n \in DOMAIN map
  <2>1. todo \subseteq Nat /\ todo # {} /\ todo \subseteq DOMAIN map
    BY ChainLoadAssumption DEF VisitKey, Shapes
  <2>2. \E k \in todo : \A m \in todo : k <= m
    BY <2>1, LeastNumber
  <2> QED BY <2>1, <2>2
<1>3. Phases'
  BY <1>1 DEF Phases
<1>4. Linked(end)' /\ end \in [DOMAIN rule' -> DOMAIN rule'] /\ \A r : Starts(r)' <=> Starts(r)
  BY <1>1 DEF Linked, Growing, Starts
<1>5. ErrorExitsReadNoFreedRule'
  BY <1>1 DEF ErrorExitsReadNoFreedRule
<1>6. todo' \subseteq DOMAIN map' /\ misused' \in BOOLEAN
  BY <1>1 DEF Shapes
<1>7. CASE map[n] \notin live
  <2>1. freeing' = <<>> /\ misused'
    BY <1>1, <1>7
  <2>2. Shapes'
    BY <1>1, <1>6, <2>1 DEF Shapes
  <2> QED BY <1>3, <1>4, <1>5, <2>1, <2>2 DEF IInv
<1>8. CASE map[n] \in live
  <2> PICK v \in live : v = map[n]
    BY <1>8
  <2>0. ~misused'
    BY <1>1, <1>8
  <2>1. v \in DOMAIN rule /\ Starts(v)
    BY <1>2 DEF Shapes, Linked
  <2>2. (\A r \in live : Starts(r) /\ rule[r].m_ref = 0 =>
           BeingFreed(r)' \/ \E k \in todo' : map[k] = r) => Visited'
    BY <1>1, <1>4 DEF Visited
  <2>3. CASE rule[v].m_ref = 0
    <3>1. freeing' = <<Call(v, FALSE)>>
      BY <1>1, <2>3 DEF TryDelete
    <3>2. Gotos(v) = {} /\ KeptAt(v) = {}
      <4>1. Cardinality(Gotos(v)) + Cardinality(KeptAt(v)) = 0
        BY <1>1, <2>3 DEF CountsFit
      <4>2. /\ Cardinality(Gotos(v)) \in Nat /\ Cardinality(KeptAt(v)) \in Nat
            /\ IsFiniteSet(Gotos(v)) /\ IsFiniteSet(KeptAt(v))
        BY PointersFinite
      <4>3. Cardinality(Gotos(v)) = 0 /\ Cardinality(KeptAt(v)) = 0
        BY <4>1, <4>2
      <4> QED BY <4>2, <4>3, EmptyCounts
    <3>3. \A i \in DOMAIN open' : open'[i].head # v /\ \E j \in DOMAIN open : open'[i] = open[j]
      BY <1>1
    <3>4. /\ freeing' \in Seq(Calls)
          /\ \A r : BeingFreed(r)' <=> r = v
          /\ FreedInOrder' /\ PointersKept' /\ CountsFit'
      BY <1>1, <2>1, <3>1, <3>2, <3>3, BeginFreeing
    <3>5. Shapes'
      BY <1>1, <1>6, <3>4 DEF Shapes
    <3>6. ~replaced' => Visited'
      <4> SUFFICES ASSUME ~replaced, NEW r \in live, Starts(r), rule[r].m_ref = 0, r # v
                   PROVE  \E k \in todo' : map[k] = r
        BY <1>1, <2>2, <3>4
      <4>1. PICK k \in todo : map[k] = r
        BY <1>1 DEF Visited, BeingFreed
      <4> QED BY <1>1, <4>1
    <3> QED BY <1>3, <1>4, <1>5, <2>0, <3>4, <3>5, <3>6 DEF IInv
  <2>4. CASE rule[v].m_ref # 0
    <3>1. freeing' = freeing
      BY <1>1, <2>4 DEF TryDelete
    <3>2. Shapes'
      BY <1>1, <1>6, <3>1 DEF Shapes
    <3>3. /\ \A r : Gotos(r)' = Gotos(r)
          /\ \A r : BeingFreed(r)' <=> BeingFreed(r)
          /\ \A r : KeptAt(r)' = KeptAt(r)
      BY <1>1, <3>1, SamePointers, SameHeads DEF Shapes
    <3>4. PointersKept' /\ CountsFit'
      BY <1>1, <3>3 DEF PointersKept, CountsFit
    <3>5. FreedInOrder'
      <4>1. UNCHANGED <<rule, live, open, freeing>>
        BY <1>1, <3>1
      <4> QED BY <4>1 DEF FreedInOrder, BeingFreed
    <3>6. ~replaced' => Visited'
      <4> SUFFICES ASSUME ~replaced, NEW r \in live, Starts(r), rule[r].m_ref = 0
                   PROVE  \E k \in todo' : map[k] = r
        BY <1>1, <2>2
      <4>1. PICK k \in todo : map[k] = r
        BY <1>1 DEF Visited, BeingFreed
      <4> QED BY <1>1, <2>4, <4>1
    <3> QED BY <1>3, <1>4, <1>5, <2>0, <3>2, <3>4, <3>5, <3>6 DEF IInv
  <2> QED BY <2>3, <2>4
<1> QED BY <1>7, <1>8

(* free_chain frees the rule it is at, and goes on to the next.            *)
LEMMA FreeRuleStep ==
  ASSUME NEW end, Valid(end), ~misused, FreeRule
  PROVE  Valid(end)' /\ ~misused'
<1> USE DEF Valid
<1> PICK c, cur, next : c = Head(freeing) /\ cur = c.cur /\ next = rule[cur].next
  OBVIOUS
<1>1. /\ freeing # <<>> /\ (c.released \/ rule[cur].m_type # "GOTO")
      /\ live' = live \ {cur}
      /\ freeing' = (IF next = NoRule THEN <<>> ELSE <<Call(next, FALSE)>>) \o Tail(freeing)
      /\ misused' = (cur \notin live)
      /\ UNCHANGED <<phase, rule, map, open, replaced, todo, heads>>
  BY DEF FreeRule, parsing
<1>2. /\ c \in Calls /\ c = freeing[1] /\ Tail(freeing) \in Seq(Calls)
      /\ Len(freeing) \in Nat \ {0} /\ DOMAIN freeing = 1..Len(freeing)
      /\ DOMAIN Tail(freeing) = 1..(Len(freeing) - 1)
      /\ \A i \in 1..(Len(freeing) - 1) : Tail(freeing)[i] = freeing[i + 1]
  BY <1>1, TailAt DEF Shapes
<1>3. cur \in live /\ cur \in DOMAIN rule /\ ~misused' /\ BeingFreed(cur)
  <2>1. 1 \in DOMAIN freeing /\ freeing[1].cur = cur
    BY <1>2
  <2>2. cur \in live /\ BeingFreed(cur)
    BY <2>1 DEF FreedInOrder, BeingFreed
  <2> QED BY <1>1, <2>2 DEF Shapes
<1>4. /\ next # NoRule => next \in live /\ next # cur /\ ~BeingFreed(next)
      /\ next \in Nat
  <2>1. rule[cur] \in RuleRec /\ cur \in Nat
    BY <1>3, RuleType
  <2>2. next # NoRule => next \in DOMAIN rule /\ cur < next
    BY <1>3 DEF Linked
  <2>3. next # NoRule => next \in live
    BY <1>3 DEF FreedInOrder
  <2>4. next \in Nat
    BY <2>1 DEF RuleRec
  <2> QED BY <1>3, <2>1, <2>2, <2>3, <2>4 DEF FreedInOrder
<1>5. /\ next # NoRule => Call(next, FALSE) \in Calls
      /\ Call(next, FALSE).cur = next
      /\ \A g : Call(next, FALSE) # Call(g, TRUE)
  BY <1>4 DEF Call, Calls
(* The calls after the step are the others, and perhaps one at next.       *)
<1>6. /\ freeing' \in Seq(Calls)
      /\ \A i \in DOMAIN freeing' :
           \/ next # NoRule /\ i = 1 /\ freeing'[i] = Call(next, FALSE)
           \/ \E j \in DOMAIN freeing \ {1} : freeing'[i] = freeing[j]
      /\ \A j \in DOMAIN freeing \ {1} : \E i \in DOMAIN freeing' : freeing'[i] = freeing[j]
      /\ next # NoRule => 1 \in DOMAIN freeing' /\ freeing'[1] = Call(next, FALSE)
      /\ \A i, j \in DOMAIN freeing' : freeing'[i].cur = freeing'[j].cur => i = j
  <2>1. \A j \in DOMAIN freeing \ {1} : j - 1 \in 1..(Len(freeing) - 1) /\ j - 1 + 1 = j
    BY <1>2
  <2>2. \A i \in 1..(Len(freeing) - 1) : i + 1 \in DOMAIN freeing \ {1}
    BY <1>2
  <2>3. \A i, j \in 1..(Len(freeing) - 1) :
          freeing[i + 1].cur = freeing[j + 1].cur => i = j
    <3> TAKE i, j \in 1..(Len(freeing) - 1)
    <3>1. freeing[i + 1].cur = freeing[j + 1].cur => i + 1 = j + 1
      BY <2>2 DEF FreedInOrder
    <3> QED BY <1>2, <3>1
  <2>4. CASE next = NoRule
    <3>1. freeing' = Tail(freeing)
      BY <1>1, <1>2, <2>4, PushNothing
    <3>2. /\ freeing' \in Seq(Calls) /\ DOMAIN freeing' = 1..(Len(freeing) - 1)
          /\ \A i \in 1..(Len(freeing) - 1) : freeing'[i] = freeing[i + 1]
      BY <1>2, <3>1
    <3>3. \A i, j \in DOMAIN freeing' : freeing'[i].cur = freeing'[j].cur => i = j
      BY <2>3, <3>2
    <3>4. \A i \in DOMAIN freeing' : \E j \in DOMAIN freeing \ {1} : freeing'[i] = freeing[j]
      BY <2>2, <3>2
    <3>5. \A j \in DOMAIN freeing \ {1} : \E i \in DOMAIN freeing' : freeing'[i] = freeing[j]
      BY <2>1, <3>2
    <3> QED BY <2>4, <3>2, <3>3, <3>4, <3>5
  <2>5. CASE next # NoRule
    <3>1. freeing' = <<Call(next, FALSE)>> \o Tail(freeing) /\ Call(next, FALSE) \in Calls
      BY <1>1, <1>5, <2>5
    <3>2. Len(Tail(freeing)) = Len(freeing) - 1
      BY <1>2, LenProperties
    <3>3. /\ freeing' \in Seq(Calls) /\ DOMAIN freeing' = 1..Len(freeing)
          /\ freeing'[1] = Call(next, FALSE)
          /\ \A i \in 1..(Len(freeing) - 1) : freeing'[i + 1] = Tail(freeing)[i]
      <4>1. PICK k \in Calls : k = Call(next, FALSE)
        BY <3>1
      <4>2. freeing' = <<k>> \o Tail(freeing)
        BY <3>1, <4>1
      <4>3. Len(Tail(freeing)) + 1 = Len(freeing)
        BY <1>2, <3>2
      <4>4. PICK t \in Seq(Calls) : t = Tail(freeing)
        BY <1>2
      <4>5. /\ <<k>> \o t \in Seq(Calls) /\ DOMAIN (<<k>> \o t) = 1..(Len(t) + 1)
            /\ (<<k>> \o t)[1] = k
            /\ \A i \in 1..Len(t) : (<<k>> \o t)[i + 1] = t[i]
        BY PushAt
      <4> QED BY <3>2, <4>1, <4>2, <4>3, <4>4, <4>5
    <3>4. \A i \in DOMAIN freeing' \ {1} :
            i - 1 \in 1..(Len(freeing) - 1) /\ i \in DOMAIN freeing /\ freeing'[i] = freeing[i]
      <4> TAKE i \in DOMAIN freeing' \ {1}
      <4>1. i - 1 \in 1..(Len(freeing) - 1) /\ i - 1 + 1 = i
        BY <1>2, <3>3
      <4> QED BY <1>2, <3>3, <4>1
    <3>5. \A j \in DOMAIN freeing \ {1} : j \in DOMAIN freeing' /\ freeing'[j] = freeing[j]
      BY <1>2, <3>3, <3>4
    <3>6. \A i \in DOMAIN freeing' \ {1} : freeing'[i].cur # next
      BY <1>4, <2>5, <3>4 DEF BeingFreed
    <3>7. \A i, j \in DOMAIN freeing' : freeing'[i].cur = freeing'[j].cur => i = j
      <4> TAKE i, j \in DOMAIN freeing'
      <4>1. freeing'[1].cur = next
        BY <1>5, <3>3
      <4>2. CASE i = 1 \/ j = 1
        BY <3>6, <4>1, <4>2
      <4>3. CASE i # 1 /\ j # 1
        BY <3>4, <4>3 DEF FreedInOrder
      <4> QED BY <4>2, <4>3
    <3>8. 1 \in DOMAIN freeing'
      BY <1>2, <3>3
    <3> QED BY <2>5, <3>3, <3>4, <3>5, <3>7, <3>8
  <2> QED BY <2>4, <2>5
<1>7. \A r : BeingFreed(r)' <=> (next # NoRule /\ r = next) \/ (BeingFreed(r) /\ r # cur)
  <2>1. \A j \in DOMAIN freeing : freeing[j].cur = cur => j = 1
    BY <1>2 DEF FreedInOrder
  <2>2. ASSUME NEW r, BeingFreed(r)'
        PROVE  (next # NoRule /\ r = next) \/ (BeingFreed(r) /\ r # cur)
    <3>1. PICK i \in DOMAIN freeing' : freeing'[i].cur = r
      BY <2>2 DEF BeingFreed
    <3> QED BY <1>5, <1>6, <2>1, <3>1 DEF BeingFreed
  <2>3. ASSUME NEW r, (next # NoRule /\ r = next) \/ (BeingFreed(r) /\ r # cur)
        PROVE  BeingFreed(r)'
    <3>1. CASE next # NoRule /\ r = next
      BY <1>5, <1>6, <3>1 DEF BeingFreed
    <3>2. CASE BeingFreed(r) /\ r # cur
      <4>1. PICK j \in DOMAIN freeing \ {1} : freeing[j].cur = r
        BY <1>2, <3>2 DEF BeingFreed
      <4> QED BY <1>6, <4>1 DEF BeingFreed
    <3> QED BY <2>3, <3>1, <3>2
  <2> QED BY <2>2, <2>3
<1>8. \A r : Gotos(r)' = Gotos(r)
  <2>1. c.released => c = Call(cur, TRUE)
    BY <1>2 DEF Calls, Call
  <2>2. rule[cur].m_type = "GOTO" => freeing[1] = Call(cur, TRUE) /\ 1 \in DOMAIN freeing
    <3>1. 1 \in DOMAIN freeing
      BY <1>2
    <3> QED BY <1>1, <1>2, <2>1, <3>1
  <2>3. \A r : cur \notin Gotos(r)
    BY <2>2 DEF Gotos
  <2>4. ASSUME NEW g, g # cur
        PROVE  (\A i \in DOMAIN freeing' : freeing'[i] # Call(g, TRUE))
               <=> (\A i \in DOMAIN freeing : freeing[i] # Call(g, TRUE))
    <3>1. Call(g, TRUE).cur = g
      BY DEF Call
    <3>2. freeing[1] # Call(g, TRUE)
      BY <1>2, <2>4, <3>1
    <3>3. ASSUME NEW i \in DOMAIN freeing', freeing'[i] = Call(g, TRUE)
          PROVE  \E j \in DOMAIN freeing : freeing[j] = Call(g, TRUE)
      <4>1. freeing'[i] # Call(next, FALSE)
        BY <1>5, <3>3
      <4>2. PICK j \in DOMAIN freeing \ {1} : freeing'[i] = freeing[j]
        BY <1>6, <4>1
      <4> QED BY <3>3, <4>2
    <3>4. ASSUME NEW j \in DOMAIN freeing, freeing[j] = Call(g, TRUE)
          PROVE  \E i \in DOMAIN freeing' : freeing'[i] = Call(g, TRUE)
      <4>1. j # 1
        BY <3>2, <3>4
      <4>2. PICK i \in DOMAIN freeing' : freeing'[i] = freeing[j]
        BY <1>6, <4>1
      <4> QED BY <3>4, <4>2
    <3> QED BY <3>3, <3>4
  <2>5. ASSUME NEW r, NEW g PROVE g \in Gotos(r)' <=> g \in Gotos(r)
    <3>1. CASE g = cur
      BY <1>1, <2>3, <3>1 DEF Gotos
    <3>2. CASE g # cur
      <4>1. g \in live' <=> g \in live
        BY <1>1, <3>2
      <4> QED BY <1>1, <2>4, <3>2, <4>1 DEF Gotos
    <3> QED BY <3>1, <3>2
  <2> QED BY <2>5
<1>9. \A r : KeptAt(r)' = KeptAt(r)
  BY <1>1, SameHeads
<1>10. Shapes'
  <2>1. /\ UNCHANGED <<phase, rule, map, open, replaced, todo, heads, misused>>
        /\ live' \subseteq live /\ freeing' \in Seq(Calls)
    BY <1>1, <1>3, <1>6 DEF Shapes
  <2> QED BY <2>1 DEF Shapes
<1>11. Phases'
  BY <1>1, <1>3 DEF Phases
<1>12. Linked(end)' /\ \A r : Starts(r)' <=> Starts(r)
  <2>1. UNCHANGED <<rule, map, open, heads>>
    BY <1>1
  <2> QED BY <2>1 DEF Linked, Growing, Starts
<1>13. FreedInOrder'
  <2>1. \A i \in DOMAIN freeing' : freeing'[i].cur \in live'
    <3> TAKE i \in DOMAIN freeing'
    <3>1. CASE next # NoRule /\ freeing'[i] = Call(next, FALSE)
      BY <1>1, <1>4, <1>5, <3>1
    <3>2. ASSUME NEW j \in DOMAIN freeing \ {1}, freeing'[i] = freeing[j]
          PROVE  freeing'[i].cur \in live'
      <4>1. freeing[j].cur \in live /\ freeing[j].cur # cur
        BY <1>2 DEF FreedInOrder
      <4> QED BY <1>1, <3>2, <4>1
    <3> QED BY <1>6, <3>1, <3>2
  <2>2. \A r \in live' : rule'[r].next # NoRule => rule'[r].next \in live'
    <3> TAKE r \in live'
    <3>1. r \in live /\ r \in DOMAIN rule /\ rule'[r] = rule[r]
      BY <1>1 DEF Shapes
    <3>2. rule[r].next # NoRule => rule[r].next \in live
      BY <3>1 DEF FreedInOrder
    <3>3. rule[r].next # cur
      BY <1>3, <3>1 DEF FreedInOrder
    <3> QED BY <1>1, <3>1, <3>2, <3>3
  <2>3. \A p \in DOMAIN rule : rule[p].next \in live' =>
          (p \notin live' <=> BeingFreed(rule[p].next)')
    <3> TAKE p \in DOMAIN rule
    <3> PICK s : s = rule[p].next
      OBVIOUS
    <3>4. BeingFreed(rule[p].next)' <=> BeingFreed(s)'
      BY <1>1 DEF BeingFreed
    <3> SUFFICES ASSUME s \in live'
                 PROVE  p \notin live' <=> BeingFreed(s)'
      BY <3>4
    <3>1. s \in live /\ s # cur /\ s # NoRule
      BY <1>1, RuleType DEF Shapes, NoRule
    <3>2. CASE p = cur
      BY <1>1, <1>7, <3>1, <3>2
    <3>3. CASE p # cur
      <4>1. p \notin live <=> BeingFreed(s)
        BY <3>1 DEF FreedInOrder
      <4>2. s # next
        BY <1>3, <3>1, <3>3 DEF Linked
      <4> QED BY <1>1, <1>7, <3>1, <3>3, <4>1, <4>2
    <3> QED BY <3>2, <3>3
  <2>4. \A i \in DOMAIN open : open[i].head # NoRule =>
          open[i].head \in live' /\ ~BeingFreed(open[i].head)'
    <3> TAKE i \in DOMAIN open
    <3> PICK h : h = open[i].head
      OBVIOUS
    <3>3. BeingFreed(open[i].head)' <=> BeingFreed(h)'
      BY <1>1 DEF BeingFreed
    <3> SUFFICES ASSUME h # NoRule
                 PROVE  h \in live' /\ ~BeingFreed(h)'
      BY <3>3
    <3>1. h \in live /\ ~BeingFreed(h) /\ Starts(h)
      BY DEF FreedInOrder, Linked
    <3>2. h # cur /\ h # next
      BY <1>3, <3>1 DEF Starts
    <3> QED BY <1>1, <1>7, <3>1, <3>2
  <2> QED BY <1>1, <1>6, <2>1, <2>2, <2>3, <2>4, ZenonT(60) DEF FreedInOrder
<1>14. PointersKept'
  <2> SUFFICES ASSUME NEW r \in DOMAIN rule, Gotos(r) # {} \/ KeptAt(r) # {}
               PROVE  r \in live' /\ ~BeingFreed(r)'
    BY <1>1, <1>8, <1>9 DEF PointersKept
  <2>1. r \in live /\ ~BeingFreed(r) /\ r # NoRule
    BY RuleType DEF PointersKept, NoRule
  <2>2. Starts(r)
    <3>1. CASE Gotos(r) # {}
      <4>1. PICK g \in DOMAIN rule : rule[g].m_type = "GOTO" /\ rule[g].goto_chain = r
        BY <3>1 DEF Gotos, Shapes
      <4> QED BY <4>1 DEF Linked
    <3>2. CASE KeptAt(r) # {}
      BY <2>1, <3>2 DEF KeptAt, Linked
    <3> QED BY <3>1, <3>2
  <2>3. r # cur /\ r # next
    BY <1>3, <2>1, <2>2 DEF Starts
  <2> QED BY <1>1, <1>7, <2>1, <2>3
<1>15. CountsFit'
  BY <1>1, <1>8, <1>9 DEF CountsFit
<1>16. ~replaced' => Visited'
  <2>1. phase # "reading"
    BY <1>1 DEF Phases
  <2> SUFFICES ASSUME ~replaced, phase \in {"deleting", "done"},
                      NEW r \in live', Starts(r), rule[r].m_ref = 0
               PROVE  BeingFreed(r)' \/ \E n \in todo : map[n] = r
    BY <1>1, <1>12, <2>1 DEF Visited
  <2>2. r \in live /\ r # cur
    BY <1>1
  <2>3. BeingFreed(r) \/ \E n \in todo : map[n] = r
    BY <2>2 DEF Visited
  <2> QED BY <1>7, <2>2, <2>3
<1> QED BY <1>3, <1>10, <1>11, <1>12, <1>13, <1>14, <1>15, <1>16

(* free_chain meets a goto that it will free: the target, which was not    *)
(* freed before, loses a pointer, and is freed first if that was the last. *)
LEMMA FreeGotoStep ==
  ASSUME NEW end, Valid(end), ~misused, FreeGoto
  PROVE  Valid(end)' /\ ~misused'
<1> USE DEF Valid
<1>a. PICK c, cur, g : c = Head(freeing) /\ cur = c.cur /\ g = rule[cur].goto_chain
  OBVIOUS
<1>b. PICK s : s = <<Call(cur, TRUE)>> \o Tail(freeing)
  OBVIOUS
<1>1. /\ freeing # <<>> /\ rule[cur].m_type = "GOTO" /\ ~c.released
      /\ g \in live =>
           /\ rule' = [rule EXCEPT ![g].m_ref = @ - 1]
           /\ freeing' = TryDelete(g, rule'[g].m_ref) \o s
           /\ UNCHANGED misused
      /\ UNCHANGED <<phase, live, map, open, replaced, todo, heads>>
  BY <1>a, <1>b DEF FreeGoto, parsing
<1>2. /\ c \in Calls /\ c = freeing[1] /\ 1 \in DOMAIN freeing /\ freeing \in Seq(Calls)
      /\ c.cur = cur
  <2>1. freeing \in Seq(Calls)
    BY DEF Shapes
  <2>2. /\ Head(freeing) \in Calls /\ Head(freeing) = freeing[1]
        /\ Len(freeing) \in Nat \ {0} /\ DOMAIN freeing = 1..Len(freeing)
    BY <1>1, <2>1, TailAt
  <2> QED BY <1>a, <2>1, <2>2
<1>3. cur \in live /\ cur \in DOMAIN rule /\ c = Call(cur, FALSE)
  <2>1. c = Call(cur, FALSE)
    BY <1>1, <1>2 DEF Calls, Call
  <2>2. freeing[1].cur = cur
    BY <1>2
  <2>3. cur \in live
    BY <1>2, <2>2 DEF FreedInOrder
  <2> QED BY <2>1, <2>3 DEF Shapes
<1>4. \A x : Call(x, TRUE).cur = x /\ Call(x, FALSE).cur = x /\ Call(x, TRUE) # Call(cur, FALSE)
  BY DEF Call
<1>5. cur \in Gotos(g)
  <2>1. ASSUME NEW i \in DOMAIN freeing, freeing[i] = Call(cur, TRUE) PROVE FALSE
    <3>1. freeing[i].cur = freeing[1].cur
      BY <1>2, <1>4, <2>1
    <3>2. i = 1
      BY <1>2, <3>1 DEF FreedInOrder
    <3> QED BY <1>2, <1>3, <1>4, <2>1, <3>2
  <2> QED BY <1>a, <1>1, <1>3, <2>1 DEF Gotos
<1>6. /\ g \in DOMAIN rule /\ Starts(g) /\ ~Growing(end, g) /\ g \in live /\ ~BeingFreed(g)
  <2>1. g \in DOMAIN rule /\ Starts(g) /\ ~Growing(end, g)
    BY <1>a, <1>1, <1>3 DEF Linked
  <2> QED BY <1>5, <2>1 DEF PointersKept
<1>7. rule' = [rule EXCEPT ![g].m_ref = @ - 1] /\ freeing' = TryDelete(g, rule'[g].m_ref) \o s
      /\ misused' = misused
  BY <1>1, <1>6
(* The pointers and the counts *)
<1>8. /\ IsFiniteSet(Gotos(g)) /\ Cardinality(Gotos(g)) \in Nat \ {0}
      /\ IsFiniteSet(KeptAt(g)) /\ Cardinality(KeptAt(g)) \in Nat
      /\ Cardinality(Gotos(g) \ {cur}) = Cardinality(Gotos(g)) - 1
      /\ IsFiniteSet(Gotos(g) \ {cur})
  <2>1. /\ IsFiniteSet(Gotos(g)) /\ Cardinality(Gotos(g)) \in Nat
        /\ IsFiniteSet(KeptAt(g)) /\ Cardinality(KeptAt(g)) \in Nat
    BY PointersFinite
  <2>2. Cardinality(Gotos(g)) # 0
    BY <1>5, <2>1, EmptyCounts
  <2> QED BY <1>5, <2>1, <2>2, FS_RemoveElement
<1>9. rule[g] \in RuleRec /\ rule[g].m_ref \in Nat \ {0}
  <2>1. rule[g] \in RuleRec
    BY <1>6, RuleType
  <2>2. \/ rule[g].m_ref = Cardinality(Gotos(g)) + Cardinality(KeptAt(g))
        \/ rule[g].m_ref >= Cardinality(Gotos(g)) + Cardinality(KeptAt(g))
    BY <1>6 DEF CountsFit
  <2>3. rule[g].m_ref \in Nat
    BY <2>1 DEF RuleRec
  <2> QED BY <1>8, <2>1, <2>2, <2>3
<1>10. /\ rule' \in Seq(RuleRec) /\ DOMAIN rule' = DOMAIN rule
       /\ \A r \in DOMAIN rule : /\ rule'[r].m_type = rule[r].m_type
                                 /\ rule'[r].next = rule[r].next
                                 /\ rule'[r].goto_chain = rule[r].goto_chain
                                 /\ r # g => rule'[r].m_ref = rule[r].m_ref
       /\ rule'[g].m_ref = rule[g].m_ref - 1 /\ rule'[g].m_ref \in Nat
  <2>1. PICK x \in RuleRec : x = rule[g]
    BY <1>9
  <2>2. PICK y : y = [x EXCEPT !.m_ref = x.m_ref - 1]
    OBVIOUS
  <2>3. /\ y \in RuleRec /\ y.m_type = x.m_type /\ y.next = x.next
        /\ y.goto_chain = x.goto_chain /\ y.m_ref = x.m_ref - 1 /\ y.m_ref \in Nat
    <3>1. x.m_ref - 1 \in Nat
      BY <1>9, <2>1
    <3> QED BY <2>2, <3>1 DEF RuleRec
  <2>4. rule' = [rule EXCEPT ![g] = y] /\ rule \in Seq(RuleRec)
    BY <1>7, <2>1, <2>2 DEF Shapes
  <2>5. /\ rule' \in Seq(RuleRec) /\ DOMAIN rule' = DOMAIN rule /\ rule'[g] = y
        /\ \A r \in DOMAIN rule \ {g} : rule'[r] = rule[r]
    BY <1>6, <2>3, <2>4, ChangeAt
  <2> QED BY <2>1, <2>3, <2>5
(* The calls *)
<1>11. Call(cur, TRUE) \in Calls /\ Call(g, FALSE) \in Calls
  BY <1>3, <1>6, RuleType DEF Call, Calls
<1>12. /\ s \in Seq(Calls) /\ DOMAIN s = DOMAIN freeing /\ s[1] = Call(cur, TRUE)
       /\ \A i \in DOMAIN freeing \ {1} : s[i] = freeing[i]
       /\ \A i \in DOMAIN freeing : s[i].cur = freeing[i].cur
  <2>1. PICK k \in Calls : k = Call(cur, TRUE)
    BY <1>11
  <2>2. s = <<k>> \o Tail(freeing)
    BY <1>b, <2>1
  <2>3. /\ s \in Seq(Calls) /\ DOMAIN s = DOMAIN freeing /\ s[1] = k
        /\ \A i \in DOMAIN freeing \ {1} : s[i] = freeing[i]
    <3>1. freeing # <<>> /\ freeing \in Seq(Calls)
      BY <1>1, <1>2
    <3> QED BY <2>2, <3>1, ReplaceHeadAt
  <2>4. \A i \in DOMAIN freeing : s[i].cur = freeing[i].cur
    <3> TAKE i \in DOMAIN freeing
    <3>1. CASE i = 1
      BY <1>2, <1>4, <2>1, <2>3, <3>1
    <3>2. CASE i # 1
      BY <2>3, <3>2
    <3> QED BY <3>1, <3>2
  <2> QED BY <2>1, <2>3, <2>4
<1>13. \/ rule'[g].m_ref # 0 /\ freeing' = s
       \/ rule'[g].m_ref = 0 /\ freeing' = <<Call(g, FALSE)>> \o s
  <2>1. <<>> \o s = s
    BY <1>12, PushNothing
  <2> QED BY <1>7, <2>1 DEF TryDelete
<1>14. /\ freeing' \in Seq(Calls)
       /\ \A i, j \in DOMAIN freeing' : freeing'[i].cur = freeing'[j].cur => i = j
       /\ \A x : (\E i \in DOMAIN freeing' : freeing'[i] = x) <=>
                 (\E i \in DOMAIN s : s[i] = x) \/ (rule'[g].m_ref = 0 /\ x = Call(g, FALSE))
  <2>1. \A i, j \in DOMAIN s : s[i].cur = s[j].cur => i = j
    <3> TAKE i, j \in DOMAIN s
    <3>1. /\ i \in DOMAIN freeing /\ j \in DOMAIN freeing
          /\ s[i].cur = freeing[i].cur /\ s[j].cur = freeing[j].cur
      BY <1>12
    <3> QED BY <3>1 DEF FreedInOrder
  <2>2. CASE rule'[g].m_ref # 0
    <3>1. freeing' = s
      BY <1>13, <2>2
    <3>2. \A i, j \in DOMAIN freeing' : freeing'[i].cur = freeing'[j].cur => i = j
      BY <2>1, <3>1
    <3>3. \A x : (\E i \in DOMAIN freeing' : freeing'[i] = x) <=> (\E i \in DOMAIN s : s[i] = x)
      BY <3>1
    <3> QED BY <1>12, <2>2, <3>1, <3>2, <3>3
  <2>3. CASE rule'[g].m_ref = 0
    <3>1. PICK k \in Calls : k = Call(g, FALSE)
      BY <1>11
    <3>2. PICK t : t = <<k>> \o s
      OBVIOUS
    <3>3. /\ t \in Seq(Calls) /\ Len(s) \in Nat /\ DOMAIN s = 1..Len(s)
          /\ DOMAIN t = 1..(Len(s) + 1) /\ t[1] = k
          /\ \A i \in 1..Len(s) : t[i + 1] = s[i]
      <4>1. s \in Seq(Calls)
        BY <1>12
      <4> QED BY <3>2, <4>1, PushAt
    <3>4. \A i \in DOMAIN t \ {1} : i - 1 \in DOMAIN s /\ t[i] = s[i - 1]
      <4> TAKE i \in DOMAIN t \ {1}
      <4>1. i - 1 \in 1..Len(s) /\ i - 1 + 1 = i
        BY <3>3
      <4> QED BY <3>3, <4>1
    <3>5. \A i \in DOMAIN s : i + 1 \in DOMAIN t /\ t[i + 1] = s[i]
      <4> TAKE i \in DOMAIN s
      <4>1. i \in 1..Len(s) /\ i + 1 \in 1..(Len(s) + 1)
        BY <3>3
      <4> QED BY <3>3, <4>1
    <3>6. 1 \in DOMAIN t
      BY <3>3
    <3>7. \A i \in DOMAIN s : s[i].cur # g
      BY <1>6, <1>12 DEF BeingFreed
    <3>8. \A i, j \in DOMAIN t : t[i].cur = t[j].cur => i = j
      <4> TAKE i, j \in DOMAIN t
      <4>1. t[1].cur = g
        <5>1. k.cur = g
          BY <1>4, <3>1
        <5> QED BY <3>3, <5>1
      <4>2. \A m \in DOMAIN t \ {1} : t[m].cur # g
        BY <3>4, <3>7
      <4>3. CASE i = 1 \/ j = 1
        BY <4>1, <4>2, <4>3
      <4>4. CASE i # 1 /\ j # 1
        <5>1. /\ i - 1 \in DOMAIN s /\ t[i] = s[i - 1]
              /\ j - 1 \in DOMAIN s /\ t[j] = s[j - 1]
          BY <3>4, <4>4
        <5>2. t[i].cur = t[j].cur => i - 1 = j - 1
          BY <2>1, <5>1
        <5>3. i \in Nat /\ j \in Nat
          BY <3>3
        <5> QED BY <5>2, <5>3
      <4> QED BY <4>3, <4>4
    <3>9. ASSUME NEW x
          PROVE  (\E i \in DOMAIN t : t[i] = x) <=> (\E i \in DOMAIN s : s[i] = x) \/ x = k
      <4>1. ASSUME NEW i \in DOMAIN t, t[i] = x
            PROVE  (\E j \in DOMAIN s : s[j] = x) \/ x = k
        BY <3>3, <3>4, <4>1
      <4>2. ASSUME NEW j \in DOMAIN s, s[j] = x
            PROVE  \E i \in DOMAIN t : t[i] = x
        BY <3>5, <4>2
      <4>3. x = k => \E i \in DOMAIN t : t[i] = x
        BY <3>3, <3>6
      <4> QED BY <4>1, <4>2, <4>3
    <3>10. freeing' = t
      BY <1>13, <2>3, <3>1, <3>2
    <3>11. \A x : (\E i \in DOMAIN freeing' : freeing'[i] = x) <=>
                    (\E i \in DOMAIN s : s[i] = x) \/ x = Call(g, FALSE)
      BY <3>1, <3>9, <3>10
    <3>12. \A i, j \in DOMAIN freeing' : freeing'[i].cur = freeing'[j].cur => i = j
      BY <3>8, <3>10
    <3> QED BY <2>3, <3>3, <3>10, <3>11, <3>12
  <2> QED BY <2>2, <2>3
<1>15. \A r : BeingFreed(r)' <=> BeingFreed(r) \/ (rule'[g].m_ref = 0 /\ r = g)
  <2>1. ASSUME NEW r, BeingFreed(r)'
        PROVE  BeingFreed(r) \/ (rule'[g].m_ref = 0 /\ r = g)
    <3>1. PICK i \in DOMAIN freeing' : freeing'[i].cur = r
      BY <2>1 DEF BeingFreed
    <3>2. \/ \E j \in DOMAIN s : s[j] = freeing'[i]
          \/ rule'[g].m_ref = 0 /\ freeing'[i] = Call(g, FALSE)
      BY <1>14
    <3>3. CASE \E j \in DOMAIN s : s[j] = freeing'[i]
      <4>1. PICK j \in DOMAIN s : s[j] = freeing'[i]
        BY <3>3
      <4>2. j \in DOMAIN freeing /\ freeing[j].cur = r
        BY <1>12, <3>1, <4>1
      <4> QED BY <4>2 DEF BeingFreed
    <3>4. CASE rule'[g].m_ref = 0 /\ freeing'[i] = Call(g, FALSE)
      <4>1. freeing'[i].cur = g
        BY <1>4, <3>4
      <4> QED BY <3>1, <3>4, <4>1
    <3> QED BY <3>2, <3>3, <3>4
  <2>2. ASSUME NEW r, BeingFreed(r) PROVE BeingFreed(r)'
    <3>1. PICK j \in DOMAIN s : s[j].cur = r
      BY <1>12, <2>2 DEF BeingFreed
    <3>2. \E i \in DOMAIN freeing' : freeing'[i] = s[j]
      BY <1>14
    <3> QED BY <3>1, <3>2 DEF BeingFreed
  <2>3. rule'[g].m_ref = 0 => BeingFreed(g)'
    <3>1. rule'[g].m_ref = 0 => \E i \in DOMAIN freeing' : freeing'[i] = Call(g, FALSE)
      BY <1>14
    <3> QED BY <1>4, <3>1 DEF BeingFreed
  <2> QED BY <2>1, <2>2, <2>3
<1>16. \A r : Gotos(r)' = Gotos(r) \ {cur}
  <2>1. ASSUME NEW x
        PROVE  (\A i \in DOMAIN freeing' : freeing'[i] # Call(x, TRUE)) <=>
               (x # cur /\ \A i \in DOMAIN freeing : freeing[i] # Call(x, TRUE))
    <3> PICK k : k = Call(x, TRUE)
      OBVIOUS
    <3>1. k # Call(g, FALSE) /\ (k = Call(cur, TRUE) <=> x = cur) /\ k # freeing[1]
      BY <1>2, <1>3, <1>4 DEF Call
    <3>2. (\E i \in DOMAIN freeing' : freeing'[i] = k) <=> (\E i \in DOMAIN s : s[i] = k)
      BY <1>14, <3>1
    <3>3. (\E i \in DOMAIN s : s[i] = k) <=>
            x = cur \/ \E i \in DOMAIN freeing : freeing[i] = k
      BY <1>2, <1>12, <3>1
    <3> QED BY <3>2, <3>3
  <2>2. ASSUME NEW r, NEW x PROVE x \in Gotos(r)' <=> x \in Gotos(r) /\ x # cur
    <3>1. x \in live => rule'[x].m_type = rule[x].m_type
                        /\ rule'[x].goto_chain = rule[x].goto_chain
      BY <1>10 DEF Shapes
    <3> QED BY <1>1, <2>1, <3>1 DEF Gotos
  <2> QED BY <2>2
<1>17. \A r : KeptAt(r)' = KeptAt(r)
  BY <1>1, SameHeads
<1>18. \A r : r # g => cur \notin Gotos(r)
  BY <1>a DEF Gotos
<1>19. CountsFit'
  <2> SUFFICES ASSUME NEW r \in live
               PROVE  LET n == Cardinality(Gotos(r) \ {cur}) + Cardinality(KeptAt(r))
                      IN  IF phase \in {"failing", "failed"} THEN rule'[r].m_ref >= n
                                                             ELSE rule'[r].m_ref = n
    BY <1>1, <1>16, <1>17 DEF CountsFit
  <2>1. CASE r # g
    <3>1. Gotos(r) \ {cur} = Gotos(r) /\ rule'[r].m_ref = rule[r].m_ref
      BY <1>10, <1>18, <2>1 DEF Shapes
    <3> QED BY <3>1 DEF CountsFit
  <2>2. CASE r = g
    <3>1. IF phase \in {"failing", "failed"}
          THEN rule[g].m_ref >= Cardinality(Gotos(g)) + Cardinality(KeptAt(g))
          ELSE rule[g].m_ref = Cardinality(Gotos(g)) + Cardinality(KeptAt(g))
      BY <1>6 DEF CountsFit
    <3>2. /\ rule'[g].m_ref = rule[g].m_ref - 1 /\ rule[g].m_ref \in Nat
          /\ Cardinality(Gotos(g) \ {cur}) = Cardinality(Gotos(g)) - 1
          /\ Cardinality(Gotos(g)) \in Nat /\ Cardinality(KeptAt(g)) \in Nat
      BY <1>8, <1>9, <1>10
    <3> QED BY <2>2, <3>1, <3>2
  <2> QED BY <2>1, <2>2
<1>20. PointersKept'
  <2> SUFFICES ASSUME NEW r \in DOMAIN rule, Gotos(r) \ {cur} # {} \/ KeptAt(r) # {}
               PROVE  r \in live /\ ~BeingFreed(r)'
    BY <1>1, <1>10, <1>16, <1>17 DEF PointersKept
  <2>1. r \in live /\ ~BeingFreed(r)
    BY DEF PointersKept
  <2>2. r = g => rule'[g].m_ref # 0
    <3> SUFFICES ASSUME r = g, rule'[g].m_ref = 0 PROVE FALSE
      OBVIOUS
    <3>1. \/ 0 >= Cardinality(Gotos(g) \ {cur}) + Cardinality(KeptAt(g))
          \/ 0 = Cardinality(Gotos(g) \ {cur}) + Cardinality(KeptAt(g))
      BY <1>1, <1>6, <1>16, <1>17, <1>19 DEF CountsFit
    <3>2. Cardinality(Gotos(g) \ {cur}) \in Nat /\ Cardinality(KeptAt(g)) \in Nat
      BY <1>8
    <3>3. Cardinality(Gotos(g) \ {cur}) = 0 /\ Cardinality(KeptAt(g)) = 0
      BY <3>1, <3>2
    <3> QED BY <1>8, <3>3, EmptyCounts
  <2> QED BY <1>15, <2>1, <2>2
<1>21. Shapes'
  <2>1. UNCHANGED <<phase, live, map, open, replaced, todo, heads, misused>>
    BY <1>1, <1>7
  <2>2. rule' \in Seq(RuleRec) /\ DOMAIN rule' = DOMAIN rule /\ freeing' \in Seq(Calls)
    BY <1>10, <1>14
  <2> QED BY <2>1, <2>2 DEF Shapes
<1>22. Phases'
  BY <1>1, <1>7 DEF Phases
<1>23. Linked(end)' /\ \A r : Starts(r)' <=> Starts(r)
  <2>1. \A n \in DOMAIN map' : Starts(map'[n]) /\ ~Growing(end, map[n])'
    BY <1>1 DEF Linked, Growing
  <2>2. \A n \in Kept : heads'[n] # NoRule => Starts(heads'[n])
    BY <1>1 DEF Linked
  <2> QED BY <1>1, <1>10, <2>1, <2>2, SameLists
<1>24. FreedInOrder'
  <2>1. \A i \in DOMAIN freeing' : freeing'[i].cur \in live
    <3> TAKE i \in DOMAIN freeing'
    <3>2. PICK r : r = freeing'[i].cur
      OBVIOUS
    <3>3. BeingFreed(r)'
      BY <3>2 DEF BeingFreed
    <3>4. BeingFreed(r) \/ r = g
      BY <1>15, <3>3
    <3> QED BY <1>6, <3>2, <3>4 DEF FreedInOrder, BeingFreed
  <2>2. \A r \in live : rule'[r].next # NoRule => rule'[r].next \in live
    <3> TAKE r \in live
    <3>1. rule'[r].next = rule[r].next
      BY <1>10 DEF Shapes
    <3> QED BY <3>1 DEF FreedInOrder
  <2>3. \A p \in DOMAIN rule' : rule'[p].next \in live =>
          (p \notin live <=> BeingFreed(rule[p].next)')
    <3> TAKE p \in DOMAIN rule'
    <3> PICK x : x = rule'[p].next
      OBVIOUS
    <3>1. BeingFreed(rule[p].next)' <=> BeingFreed(x)'
      BY DEF BeingFreed
    <3>2. p \in DOMAIN rule /\ x = rule[p].next /\ x # g
      BY <1>6, <1>10 DEF Starts
    <3>3. x \in live => (p \notin live <=> BeingFreed(x))
      BY <3>2 DEF FreedInOrder
    <3> QED BY <1>15, <3>1, <3>2, <3>3
  <2>4. \A i \in DOMAIN open : open[i].head # NoRule =>
          open[i].head \in live /\ ~BeingFreed(open[i].head)'
    <3> TAKE i \in DOMAIN open
    <3> PICK h : h = open[i].head
      OBVIOUS
    <3>1. BeingFreed(open[i].head)' <=> BeingFreed(h)'
      BY <1>1 DEF BeingFreed
    <3>2. h # NoRule => h \in live /\ ~BeingFreed(h) /\ end[h] = open[i].last
      BY DEF FreedInOrder, Linked
    <3>3. h # NoRule => h # g
      BY <1>6, <3>2 DEF Growing
    <3> QED BY <1>15, <3>1, <3>2, <3>3
  <2>5. UNCHANGED <<live, open>>
    BY <1>1
  <2> QED BY <1>14, <2>1, <2>2, <2>3, <2>4, <2>5 DEF FreedInOrder
<1>25. ~replaced' => Visited'
  <2>1. phase # "reading"
    BY <1>1 DEF Phases
  <2> SUFFICES ASSUME ~replaced, phase \in {"deleting", "done"},
                      NEW r \in live, Starts(r), rule'[r].m_ref = 0
               PROVE  BeingFreed(r)' \/ \E n \in todo : map[n] = r
    BY <1>1, <1>23, <2>1 DEF Visited
  <2>2. CASE r = g
    BY <1>15, <2>2
  <2>3. CASE r # g
    <3>1. rule[r].m_ref = 0
      BY <1>10, <2>3 DEF Shapes
    <3>2. BeingFreed(r) \/ \E n \in todo : map[n] = r
      BY <3>1 DEF Visited
    <3> QED BY <1>15, <3>2
  <2> QED BY <2>2, <2>3
<1> QED BY <1>7, <1>19, <1>20, <1>21, <1>22, <1>23, <1>24, <1>25

(* One more pointer to a chain. *)
LEMMA CountedAt ==
  ASSUME Shapes, NEW t \in DOMAIN rule
  PROVE  /\ Counted(t) \in Seq(RuleRec) /\ DOMAIN Counted(t) = DOMAIN rule
         /\ \A r \in DOMAIN rule :
              /\ Counted(t)[r].m_type = rule[r].m_type
              /\ Counted(t)[r].next = rule[r].next
              /\ Counted(t)[r].goto_chain = rule[r].goto_chain
              /\ r # t => Counted(t)[r].m_ref = rule[r].m_ref
         /\ Counted(t)[t].m_ref = rule[t].m_ref + 1
<1>1. PICK x \in RuleRec : x = rule[t]
  BY RuleType
<1>2. PICK y : y = [x EXCEPT !.m_ref = x.m_ref + 1]
  OBVIOUS
<1>3. /\ y \in RuleRec /\ y.m_type = x.m_type /\ y.next = x.next
      /\ y.goto_chain = x.goto_chain /\ y.m_ref = x.m_ref + 1
  BY <1>2 DEF RuleRec
<1>4. Counted(t) = [rule EXCEPT ![t] = y] /\ rule \in Seq(RuleRec)
  BY <1>1, <1>2 DEF Counted, Shapes
<1>5. /\ Counted(t) \in Seq(RuleRec) /\ DOMAIN Counted(t) = DOMAIN rule /\ Counted(t)[t] = y
      /\ \A r \in DOMAIN rule \ {t} : Counted(t)[r] = rule[r]
  BY <1>3, <1>4, ChangeAt
<1> QED BY <1>1, <1>3, <1>5

(* A rule is read: the chain it belongs to ends with it from now on.       *)
LEMMA AddRuleStep ==
  ASSUME NEW end, Valid(end), CanRead, NEW found \in BOOLEAN,
         NEW t, NEW mem, NEW new, AddRule(mem, new, found),
         \/ t = NoRule /\ mem = rule /\ new = NewRule("PLAIN", NoRule)
         \/ /\ t \in DOMAIN rule /\ \E n \in DOMAIN map : map[n] = t
            /\ mem = Counted(t) /\ new = NewRule("GOTO", t)
  PROVE  \E e : Valid(e)'
<1> USE DEF Valid
<1>1. PICK c, r : c = Head(open) /\ r = Len(mem) + 1
  OBVIOUS
<1>2. /\ phase = "reading" /\ open # <<>> /\ freeing = <<>>
      /\ live = DOMAIN rule /\ ~misused /\ \A n \in Kept : heads[n] = NoRule
      /\ UNCHANGED <<phase, map, replaced, freeing, todo, heads, misused>>
      /\ live' = live \cup {r}
  BY <1>1, WhileReading DEF CanRead, Continues, AddRule, Phases
<1>3. /\ c \in Chains /\ c = open[1] /\ 1 \in DOMAIN open /\ open \in Seq(Chains)
  <2>1. open \in Seq(Chains)
    BY DEF Shapes
  <2>2. /\ Head(open) \in Chains /\ Head(open) = open[1]
        /\ Len(open) \in Nat \ {0} /\ DOMAIN open = 1..Len(open)
    BY <1>2, <2>1, TailAt
  <2> QED BY <1>1, <2>1, <2>2
<1>4. PICK last : last = c.last
  OBVIOUS
<1>5. /\ last \in Nat /\ (last \in DOMAIN rule \/ last = NoRule)
      /\ c.head = NoRule <=> last = NoRule
      /\ last # NoRule =>
           /\ c.head \in DOMAIN rule /\ Starts(c.head)
           /\ end[c.head] = last /\ end[last] = last
      /\ c.head \in Nat
  BY <1>3, <1>4 DEF Linked, Chains
<1>6. /\ mem \in Seq(RuleRec) /\ DOMAIN mem = DOMAIN rule
      /\ \A x \in DOMAIN rule :
           /\ mem[x].m_type = rule[x].m_type /\ mem[x].next = rule[x].next
           /\ mem[x].goto_chain = rule[x].goto_chain
           /\ x # t => mem[x].m_ref = rule[x].m_ref
           /\ x = t => mem[x].m_ref = rule[x].m_ref + 1
  <2>1. CASE t = NoRule /\ mem = rule
    BY <2>1, RuleType DEF Shapes, NoRule
  <2>2. CASE t \in DOMAIN rule /\ mem = Counted(t)
    BY <2>2, CountedAt
  <2> QED BY <2>1, <2>2
<1>7. /\ new \in RuleRec /\ new.next = NoRule /\ new.goto_chain = t /\ new.m_ref = 0
      /\ new.m_type = "GOTO" => t \in DOMAIN rule /\ \E n \in DOMAIN map : map[n] = t
      /\ new.m_type = "PLAIN" => t = NoRule
      /\ t # NoRule => new.m_type = "GOTO"
  <2>1. t \in Nat
    BY RuleType DEF NoRule
  <2>2. CASE t = NoRule /\ new = NewRule("PLAIN", NoRule)
    BY <2>1, <2>2 DEF NewRule, RuleRec, NoRule
  <2>3. CASE t \in DOMAIN rule /\ (\E n \in DOMAIN map : map[n] = t) /\ new = NewRule("GOTO", t)
    BY <2>1, <2>3 DEF NewRule, RuleRec, NoRule
  <2> QED BY <2>2, <2>3
<1>8. /\ rule' \in Seq(RuleRec)
      /\ r \in Nat \ {0} /\ r \notin DOMAIN rule /\ \A x \in DOMAIN rule : x < r
      /\ DOMAIN rule' = DOMAIN rule \cup {r} /\ rule'[r] = new
      /\ \A x \in DOMAIN rule :
           /\ rule'[x].m_type = mem[x].m_type
           /\ rule'[x].goto_chain = mem[x].goto_chain
           /\ rule'[x].m_ref = mem[x].m_ref
           /\ x # last => rule'[x].next = mem[x].next
           /\ x = last => rule'[x].next = r
  <2>1. last = Head(open).last
    BY <1>1, <1>4
  <2>2. /\ last \in Nat /\ (last \in DOMAIN rule \/ last = NoRule)
        /\ mem \in Seq(RuleRec) /\ DOMAIN mem = DOMAIN rule /\ new \in RuleRec
        /\ r = Len(mem) + 1 /\ r \in Nat
    BY <1>1, <1>5, <1>6, <1>7, LenProperties
  <2> HIDE DEF Valid
  <2>3. PICK m : m = IF last = NoRule THEN mem ELSE [mem EXCEPT ![last].next = r]
    OBVIOUS
  <2>4. rule' = Append(m, new)
    BY <1>1, <2>1, <2>3 DEF AddRule
  <2>5. Len(mem) \in Nat /\ DOMAIN mem = 1..Len(mem)
    BY <2>2, LenProperties
  <2>6. /\ m \in Seq(RuleRec) /\ DOMAIN m = DOMAIN mem /\ Len(m) = Len(mem)
        /\ \A x \in DOMAIN mem :
             /\ m[x].m_type = mem[x].m_type /\ m[x].goto_chain = mem[x].goto_chain
             /\ m[x].m_ref = mem[x].m_ref
             /\ x # last => m[x].next = mem[x].next
             /\ x = last => m[x].next = r
    <3>1. CASE last = NoRule
      <4>1. m = mem /\ last \notin DOMAIN mem
        BY <2>3, <2>5, <3>1 DEF NoRule
      <4> QED BY <2>2, <4>1
    <3>2. CASE last # NoRule
      <4>1. last \in DOMAIN mem
        BY <2>2, <3>2
      <4>2. PICK x \in RuleRec : x = mem[last]
        BY <2>2, <2>5, <4>1, ElementOfSeq
      <4>3. PICK y : y = [x EXCEPT !.next = r]
        OBVIOUS
      <4>4. /\ y \in RuleRec /\ y.m_type = x.m_type /\ y.next = r
            /\ y.goto_chain = x.goto_chain /\ y.m_ref = x.m_ref
        BY <2>2, <4>3 DEF RuleRec
      <4>5. m = [mem EXCEPT ![last] = y]
        BY <2>3, <3>2, <4>2, <4>3
      <4>6. /\ m \in Seq(RuleRec) /\ DOMAIN m = DOMAIN mem /\ Len(m) = Len(mem) /\ m[last] = y
            /\ \A n \in DOMAIN mem \ {last} : m[n] = mem[n]
        BY <2>2, <4>1, <4>4, <4>5, ChangeAt
      <4> QED BY <4>2, <4>4, <4>6
    <3> QED BY <3>1, <3>2
  <2>7. /\ Append(m, new) \in Seq(RuleRec) /\ DOMAIN Append(m, new) = DOMAIN m \cup {Len(m) + 1}
        /\ \A i \in DOMAIN m : Append(m, new)[i] = m[i]
        /\ Append(m, new)[Len(m) + 1] = new
    BY <2>2, <2>6, AppendAt
  <2>8. r # 0 /\ r \notin DOMAIN mem /\ \A x \in DOMAIN mem : x < r
    BY <2>2, <2>5
  <2> QED BY <2>2, <2>4, <2>6, <2>7, <2>8
<1>9. PICK c2 : c2 = [c EXCEPT !.head = IF @ = NoRule THEN r ELSE @, !.last = r,
                               !.links = @ /\ found]
  OBVIOUS
<1>10. /\ c2 \in Chains /\ c2.last = r /\ c2.head = (IF c.head = NoRule THEN r ELSE c.head)
  BY <1>3, <1>5, <1>8, <1>9 DEF Chains
<1>11. /\ open' \in Seq(Chains) /\ DOMAIN open' = DOMAIN open /\ open'[1] = c2
       /\ \A i \in DOMAIN open \ {1} : open'[i] = open[i]
  <2>1. open' = <<c2>> \o Tail(open)
    BY <1>1, <1>9 DEF AddRule
  <2> QED BY <1>2, <1>3, <1>10, <2>1, ReplaceHeadAt
<1>12. PICK e : e = [x \in DOMAIN rule \cup {r} |-> IF x = r \/ end[x] = last THEN r ELSE end[x]]
  OBVIOUS
<1>13. /\ e \in [DOMAIN rule' -> DOMAIN rule'] /\ e[r] = r
       /\ \A x \in DOMAIN rule : /\ end[x] \in DOMAIN rule
                                 /\ end[x] = last => e[x] = r
                                 /\ end[x] # last => e[x] = end[x]
  <2>1. end \in [DOMAIN rule -> DOMAIN rule]
    BY DEF Linked
  <2> QED BY <1>8, <1>12, <2>1
(* The last rule of a chain has no next, and what starts a chain still     *)
(* does.                                                                   *)
<1>14. last # NoRule => rule[last].next = NoRule
  <2> SUFFICES ASSUME last # NoRule, rule[last].next # NoRule PROVE FALSE
    OBVIOUS
  <2>1. PICK x : x = rule[last].next
    OBVIOUS
  <2>2. x \in DOMAIN rule /\ last < x /\ x <= end[x] /\ end[x] = last
    BY <1>5, <2>1 DEF Linked
  <2>3. x \in Nat
    BY <2>2, RuleType
  <2> QED BY <1>5, <2>2, <2>3
<1>15. /\ \A x \in DOMAIN rule : Starts(x)' <=> Starts(x)
       /\ Starts(r)' <=> last = NoRule
  <2>1. \A p \in DOMAIN rule : rule[p].next = NoRule \/ rule[p].next \in DOMAIN rule
    BY DEF Linked
  <2>2. ASSUME NEW x \in DOMAIN rule PROVE Starts(x)' <=> Starts(x)
    <3>0. x # NoRule /\ x # r
      BY <1>8, RuleType DEF NoRule
    <3>1. ASSUME NEW p \in DOMAIN rule PROVE rule'[p].next = x <=> rule[p].next = x
      <4>1. CASE p = last
        <5>1. last # NoRule
          BY <4>1, RuleType DEF NoRule
        <5> QED BY <1>8, <1>14, <3>0, <4>1, <5>1
      <4>2. CASE p # last
        BY <1>6, <1>8, <4>2
      <4> QED BY <4>1, <4>2
    <3>2. rule'[r].next # x
      BY <1>7, <1>8, <3>0
    <3> QED BY <1>8, <3>1, <3>2 DEF Starts
  <2>3. ASSUME last = NoRule PROVE Starts(r)'
    <3>1. \A p \in DOMAIN rule : p # last
      BY <2>3, RuleType DEF NoRule
    <3>2. \A p \in DOMAIN rule : rule'[p].next # r
      BY <1>6, <1>8, <2>1, <3>1 DEF NoRule
    <3> QED BY <1>7, <1>8, <3>2 DEF Starts, NoRule
  <2>4. ASSUME last # NoRule PROVE ~Starts(r)'
    BY <1>5, <1>8, <2>4 DEF Starts
  <2> QED BY <2>2, <2>3, <2>4
<1>16. \A i \in DOMAIN open \ {1} :
         /\ open[i].last = NoRule \/ (open[i].last \in DOMAIN rule /\ open[i].last # last)
         /\ open[i].last # r
  <2> TAKE i \in DOMAIN open \ {1}
  <2>1. open[i].last = NoRule \/ open[i].last \in DOMAIN rule
    BY DEF Linked
  <2>2. open[i].last = last => open[i].last = NoRule
    BY <1>3, <1>4 DEF Linked
  <2> QED BY <1>8, <2>1, <2>2 DEF NoRule
<1>17. \A x \in DOMAIN rule : Growing(e, x)' <=> Growing(end, x)
  <2> TAKE x \in DOMAIN rule
  <2>1. PICK u, v : u = end[x] /\ v = e[x]
    OBVIOUS
  <2>2. u \in DOMAIN rule /\ (u = last => v = r) /\ (u # last => v = u) /\ u # r /\ u # NoRule
    BY <1>8, <1>13, <2>1, RuleType DEF NoRule
  <2>3. ASSUME NEW i \in DOMAIN open', open'[i].last = v
        PROVE  \E j \in DOMAIN open : open[j].last = u
    <3>1. CASE i = 1
      <4>1. v = r
        BY <1>10, <1>11, <2>3, <3>1
      <4> QED BY <1>3, <1>4, <2>2, <4>1
    <3>2. CASE i # 1
      <4>1. i \in DOMAIN open \ {1} /\ open[i].last = v
        BY <1>11, <2>3, <3>2
      <4>2. v # r
        BY <1>16, <4>1
      <4> QED BY <2>2, <4>1, <4>2
    <3> QED BY <3>1, <3>2
  <2>4. ASSUME NEW j \in DOMAIN open, open[j].last = u
        PROVE  \E i \in DOMAIN open' : open'[i].last = v
    <3>1. CASE u = last
      BY <1>3, <1>10, <1>11, <2>2, <3>1
    <3>2. CASE u # last
      <4>1. j # 1
        BY <1>3, <1>4, <2>4, <3>2
      <4> QED BY <1>11, <2>2, <2>4, <3>2, <4>1
    <3> QED BY <3>1, <3>2
  <2> QED BY <2>1, <2>3, <2>4 DEF Growing
<1>18. \A n \in DOMAIN map : /\ map[n] \in DOMAIN rule
                             /\ Starts(map[n]) /\ ~Growing(end, map[n])
                             /\ Starts(map[n])' /\ ~Growing(e, map[n])'
  <2> TAKE n \in DOMAIN map
  <2>1. PICK x \in DOMAIN rule : x = map[n]
    BY DEF Shapes
  <2>2. Starts(x) /\ ~Growing(end, x)
    BY <2>1 DEF Linked
  <2>3. Starts(x)' /\ ~Growing(e, x)'
    BY <1>15, <1>17, <2>2
  <2> QED BY <1>2, <2>1, <2>2, <2>3 DEF Starts, Growing
(* Where a goto leads, the end is not the one that moves. *)
<1>19. \A x \in DOMAIN rule : ~Growing(end, x) => e[x] = end[x]
  BY <1>3, <1>4, <1>13 DEF Growing
<1>20. ASSUME NEW x \in DOMAIN rule'
       PROVE  /\ x <= e[x]
              /\ rule'[x].next # NoRule =>
                   /\ rule'[x].next \in DOMAIN rule' /\ x < rule'[x].next
                   /\ e[rule'[x].next] = e[x]
              /\ rule'[x].m_type = "PLAIN" => rule'[x].goto_chain = NoRule
              /\ rule'[x].m_type = "GOTO" =>
                   /\ rule'[x].goto_chain \in DOMAIN rule' /\ e[rule'[x].goto_chain] < x
                   /\ Starts(rule[x].goto_chain)' /\ ~Growing(e, rule[x].goto_chain)'
  <2>1. CASE x = r
    <3>1. new.m_type = "GOTO" => e[t] < r /\ Starts(t)' /\ ~Growing(e, t)'
      <4> SUFFICES ASSUME new.m_type = "GOTO"
                   PROVE  e[t] < r /\ Starts(t)' /\ ~Growing(e, t)'
        OBVIOUS
      <4>1. t \in DOMAIN rule /\ ~Growing(end, t) /\ Starts(t)
        BY <1>7, <1>18
      <4>2. e[t] = end[t] /\ end[t] < r
        BY <1>8, <1>13, <1>19, <4>1
      <4> QED BY <1>15, <1>17, <4>1, <4>2
    <3>2. rule'[x].goto_chain = t /\ rule'[x].m_type = new.m_type /\ rule'[x].next = NoRule
      BY <1>7, <1>8, <2>1
    <3>3. new.m_type = "GOTO" =>
            Starts(rule[x].goto_chain)' /\ ~Growing(e, rule[x].goto_chain)'
      BY <3>1, <3>2 DEF Starts, Growing
    <3> QED BY <1>7, <1>8, <1>13, <2>1, <3>1, <3>2, <3>3
  <2>2. CASE x # r
    <3>1. PICK g : g = rule'[x].goto_chain
      OBVIOUS
    <3>2. /\ x \in DOMAIN rule /\ x \in Nat /\ x < r /\ g = rule[x].goto_chain
          /\ rule'[x].m_type = rule[x].m_type
      BY <1>6, <1>8, <2>2, <3>1, RuleType
    <3>3. x <= e[x]
      <4>1. x <= end[x]
        BY <3>2 DEF Linked
      <4> QED BY <1>8, <1>13, <3>2, <4>1
    <3>4. rule'[x].next # NoRule =>
            /\ rule'[x].next \in DOMAIN rule' /\ x < rule'[x].next
            /\ e[rule'[x].next] = e[x]
      <4>1. CASE x = last
        <5>1. last # NoRule /\ end[last] = last
          BY <1>5, <3>2, <4>1, RuleType DEF NoRule
        <5>2. rule'[x].next = r /\ r \in DOMAIN rule' /\ e[r] = r /\ e[x] = r
          BY <1>8, <1>13, <3>2, <4>1, <5>1
        <5> QED BY <3>2, <5>2
      <4>2. CASE x # last
        <5>1. rule'[x].next = rule[x].next
          BY <1>6, <1>8, <3>2, <4>2
        <5>2. rule[x].next # NoRule =>
                rule[x].next \in DOMAIN rule /\ x < rule[x].next /\ end[rule[x].next] = end[x]
          BY <3>2 DEF Linked
        <5> QED BY <1>8, <1>13, <3>2, <5>1, <5>2
      <4> QED BY <4>1, <4>2
    <3>5. rule[x].m_type = "GOTO" =>
            g \in DOMAIN rule /\ e[g] < x /\ Starts(g)' /\ ~Growing(e, g)'
      <4>1. rule[x].m_type = "GOTO" =>
              g \in DOMAIN rule /\ end[g] < x /\ Starts(g) /\ ~Growing(end, g)
        BY <3>2 DEF Linked
      <4> QED BY <1>15, <1>17, <1>19, <4>1
    <3>6. rule[x].m_type = "PLAIN" => g = NoRule
      BY <3>2 DEF Linked
    <3>7. rule[x].m_type = "GOTO" =>
            Starts(rule[x].goto_chain)' /\ ~Growing(e, rule[x].goto_chain)'
      BY <3>1, <3>5 DEF Starts, Growing
    <3> QED BY <1>8, <3>1, <3>2, <3>3, <3>4, <3>5, <3>6, <3>7
  <2> QED BY <2>1, <2>2
<1>21. \A x, y \in DOMAIN rule' :
         rule'[x].next = rule'[y].next /\ rule'[x].next # NoRule => x = y
  <2>1. \A x \in DOMAIN rule : rule[x].next # r
    <3> TAKE x \in DOMAIN rule
    <3>1. rule[x].next # NoRule => rule[x].next \in DOMAIN rule
      BY DEF Linked
    <3> QED BY <1>8, <3>1 DEF NoRule
  <2>2. \A x \in DOMAIN rule' : /\ rule'[x].next = r => x = last
                                /\ rule'[x].next # NoRule /\ rule'[x].next # r =>
                                     x \in DOMAIN rule /\ rule'[x].next = rule[x].next
    BY <1>6, <1>7, <1>8, <2>1 DEF NoRule
  <2> TAKE x, y \in DOMAIN rule'
  <2>3. CASE rule'[x].next = r
    BY <2>2, <2>3
  <2>4. CASE rule'[x].next # r
    BY <2>2, <2>4 DEF Linked
  <2> QED BY <2>3, <2>4
<1>22. \A i \in DOMAIN open' :
         /\ open'[i].head = NoRule <=> open'[i].last = NoRule
         /\ open'[i].head # NoRule =>
              /\ open'[i].head \in DOMAIN rule' /\ open'[i].last \in DOMAIN rule'
              /\ Starts(open[i].head)'
              /\ e[open'[i].head] = open'[i].last /\ e[open'[i].last] = open'[i].last
  <2> TAKE i \in DOMAIN open'
  <2>1. PICK h, l : h = open'[i].head /\ l = open'[i].last
    OBVIOUS
  <2>2. Starts(open[i].head)' <=> Starts(h)'
    BY <2>1 DEF Starts
  <2> SUFFICES /\ h = NoRule <=> l = NoRule
               /\ h # NoRule => /\ h \in DOMAIN rule' /\ l \in DOMAIN rule' /\ Starts(h)'
                                /\ e[h] = l /\ e[l] = l
    BY <2>1, <2>2
  <2>3. CASE i = 1
    <3>1. l = r /\ h = IF c.head = NoRule THEN r ELSE c.head
      BY <1>10, <1>11, <2>1, <2>3
    <3>2. CASE last = NoRule
      BY <1>5, <1>8, <1>13, <1>15, <3>1, <3>2 DEF NoRule
    <3>3. CASE last # NoRule
      BY <1>5, <1>8, <1>13, <1>15, <3>1, <3>3 DEF NoRule
    <3> QED BY <3>2, <3>3
  <2>4. CASE i # 1
    <3>1. i \in DOMAIN open \ {1} /\ h = open[i].head /\ l = open[i].last
      BY <1>11, <2>1, <2>4
    <3>2. /\ h = NoRule <=> l = NoRule
          /\ h # NoRule =>
               /\ h \in DOMAIN rule /\ l \in DOMAIN rule /\ Starts(h)
               /\ end[h] = l /\ end[l] = l
      BY <3>1 DEF Linked
    <3>3. h # NoRule => l # last
      BY <1>16, <3>1, <3>2
    <3> QED BY <1>8, <1>13, <1>15, <3>2, <3>3
  <2> QED BY <2>3, <2>4
<1>23. \A i, j \in DOMAIN open' : open'[i].last = open'[j].last /\ open'[i].last # NoRule => i = j
  <2> TAKE i, j \in DOMAIN open'
  <2>1. CASE i = 1 \/ j = 1
    BY <1>10, <1>11, <1>16, <2>1
  <2>2. CASE i # 1 /\ j # 1
    BY <1>11, <2>2 DEF Linked
  <2> QED BY <2>1, <2>2
<1>24. Linked(e)'
  <2>1. \A n \in Kept : heads'[n] = NoRule
    BY <1>2
  <2>2. \A n \in DOMAIN map' : Starts(map[n])' /\ ~Growing(e, map[n])'
    BY <1>2, <1>18
  <2> QED BY <1>13, <1>20, <1>21, <1>22, <1>23, <2>1, <2>2 DEF Linked
<1>25. Shapes'
  <2>1. UNCHANGED <<phase, map, replaced, freeing, todo, heads, misused>>
    BY <1>2
  <2>2. /\ rule' \in Seq(RuleRec) /\ DOMAIN rule \subseteq DOMAIN rule'
        /\ live' \subseteq DOMAIN rule' /\ open' \in Seq(Chains)
    BY <1>2, <1>8, <1>11
  <2> QED BY <2>1, <2>2 DEF Shapes
<1>26. Phases'
  <2>1. live' = DOMAIN rule'
    BY <1>2, <1>8
  <2> QED BY <1>2, <2>1 DEF Phases
<1>27. \A x : ~BeingFreed(x)'
  BY <1>2 DEF BeingFreed
<1>28. live' = DOMAIN rule'
  BY <1>2, <1>8
<1>29. FreedInOrder'
  <2>1. \A i \in DOMAIN open' : open'[i].head # NoRule =>
          open'[i].head \in live' /\ ~BeingFreed(open[i].head)'
    BY <1>22, <1>27, <1>28 DEF BeingFreed
  <2>2. \A x \in live' : rule'[x].next # NoRule => rule'[x].next \in live'
    BY <1>20, <1>28
  <2>3. \A p \in DOMAIN rule' : p \in live' /\ ~BeingFreed(rule[p].next)'
    BY <1>2, <1>28 DEF BeingFreed
  <2>4. freeing' = <<>>
    BY <1>2
  <2> QED BY <2>1, <2>2, <2>3, <2>4 DEF FreedInOrder
<1>30. PointersKept'
  BY <1>27, <1>28 DEF PointersKept
<1>31. CountsFit'
  <2>1. \A x \in live' : KeptAt(x)' = {} /\ Cardinality(KeptAt(x)') = 0
    <3>1. \A x \in live' : x # NoRule
      BY <1>28, <1>8, RuleType DEF NoRule
    <3>2. \A x \in live' : KeptAt(x)' = {}
      BY <1>2, <3>1 DEF KeptAt
    <3> QED BY <3>2, FS_EmptySet
  <2>2. \A x : Gotos(x) = {g \in DOMAIN rule : rule[g].m_type = "GOTO" /\ rule[g].goto_chain = x}
    BY <1>2, WhileReading
  <2>3. \A x : Gotos(x)' =
          {g \in DOMAIN rule' : rule'[g].m_type = "GOTO" /\ rule'[g].goto_chain = x}
    BY <1>2, <1>28 DEF Gotos
  <2>4. ASSUME NEW x \in DOMAIN rule
        PROVE  /\ x # t => Gotos(x)' = Gotos(x)
               /\ x = t => Gotos(x)' = Gotos(x) \cup {r} /\ r \notin Gotos(x)
    <3>1. \A g \in DOMAIN rule : rule'[g].m_type = rule[g].m_type
                                 /\ rule'[g].goto_chain = rule[g].goto_chain
      BY <1>6, <1>8
    <3>2. x # NoRule
      BY RuleType DEF NoRule
    <3>3. x = t => new.m_type = "GOTO"
      BY <1>7, <3>2
    <3>4. r \in Gotos(x)' <=> x = t
      BY <1>7, <1>8, <2>3, <3>3
    <3>5. \A g \in DOMAIN rule : g \in Gotos(x)' <=> g \in Gotos(x)
      BY <1>8, <2>2, <2>3, <3>1
    <3>6. Gotos(x) \subseteq DOMAIN rule /\ Gotos(x)' \subseteq DOMAIN rule \cup {r}
      BY <1>8, <2>2, <2>3
    <3> QED BY <1>8, <3>4, <3>5, <3>6, ZenonT(60)
  <2>5. Gotos(r)' = {}
    <3>1. \A g \in DOMAIN rule : rule'[g].m_type = rule[g].m_type
                                 /\ rule'[g].goto_chain = rule[g].goto_chain
      BY <1>6, <1>8
    <3>2. \A g \in DOMAIN rule : rule[g].m_type = "GOTO" => rule[g].goto_chain # r
      BY <1>8 DEF Linked
    <3>3. new.m_type = "GOTO" => t # r
      BY <1>7, <1>8
    <3> QED BY <1>7, <1>8, <2>3, <3>1, <3>2, <3>3
  <2>6. ASSUME NEW x \in DOMAIN rule
        PROVE  rule'[x].m_ref = Cardinality(Gotos(x)')
    <3>1. /\ IsFiniteSet(Gotos(x)) /\ Cardinality(Gotos(x)) \in Nat
          /\ rule[x].m_ref = Cardinality(Gotos(x)) + Cardinality(KeptAt(x))
          /\ Cardinality(KeptAt(x)) = 0
      BY <1>2, <2>6, WhileReading, PointersFinite DEF CountsFit
    <3>2. CASE x # t
      BY <1>6, <1>8, <2>4, <3>1, <3>2
    <3>3. CASE x = t
      <4>1. Cardinality(Gotos(x) \cup {r}) = Cardinality(Gotos(x)) + 1
        BY <2>4, <3>1, <3>3, FS_AddElement
      <4>2. rule'[x].m_ref = rule[x].m_ref + 1
        BY <1>6, <1>8, <3>3
      <4>3. Gotos(x)' = Gotos(x) \cup {r}
        BY <2>4, <3>3
      <4>4. rule[x].m_ref = Cardinality(Gotos(x))
        BY <3>1
      <4> QED BY <4>1, <4>2, <4>3, <4>4
    <3> QED BY <3>2, <3>3
  <2>7. rule'[r].m_ref = Cardinality(Gotos(r)')
    BY <1>7, <1>8, <2>5, FS_EmptySet
  <2>8. \A x \in live' : rule'[x].m_ref = Cardinality(Gotos(x)')
    BY <1>8, <1>28, <2>6, <2>7
  <2>9. \A x \in live' : Cardinality(Gotos(x)') \in Nat
    <3>1. \A x \in DOMAIN rule' : rule'[x] \in RuleRec
      BY <1>8, ElementOfSeq, LenProperties
    <3> QED BY <1>28, <2>8, <3>1 DEF RuleRec
  <2> QED BY <1>2, <2>1, <2>8, <2>9 DEF CountsFit
<1>32. ~replaced' => Visited'
  <2> SUFFICES ASSUME ~replaced, NEW x \in DOMAIN rule', Starts(x)'
               PROVE  \/ \E i \in DOMAIN open' : open'[i].head = x
                      \/ \E n \in DOMAIN map : map[n] = x
    BY <1>2 DEF Visited
  <2>1. CASE x = r
    <3>1. open'[1].head = r
      BY <1>5, <1>10, <1>11, <1>15, <2>1
    <3> QED BY <1>3, <1>11, <2>1, <3>1
  <2>2. CASE x # r
    <3>1. x \in DOMAIN rule /\ Starts(x) /\ x # NoRule
      BY <1>8, <1>15, <2>2, RuleType DEF NoRule
    <3>2. \/ \E i \in DOMAIN open : open[i].head = x
          \/ \E n \in DOMAIN map : map[n] = x
      BY <1>2, <3>1 DEF Visited
    <3>3. ASSUME NEW i \in DOMAIN open, open[i].head = x
          PROVE  open'[i].head = x
      <4>1. CASE i = 1
        BY <1>3, <1>10, <1>11, <3>1, <3>3, <4>1
      <4>2. CASE i # 1
        BY <1>11, <3>3, <4>2
      <4> QED BY <4>1, <4>2
    <3> QED BY <1>11, <3>2, <3>3
  <2> QED BY <2>1, <2>2
<1> QED BY <1>24, <1>25, <1>26, <1>29, <1>30, <1>31, <1>32

LEMMA ReadPlainStep ==
  ASSUME NEW end, Valid(end), NEW found \in BOOLEAN, ReadPlain(found)
  PROVE  \E e : Valid(e)'
BY AddRuleStep DEF ReadPlain

LEMMA ReadGotoStep ==
  ASSUME NEW end, Valid(end), NEW n \in Names, ReadGoto(n)
  PROVE  \E e : Valid(e)'
<1>1. PICK t : t = Lookup(n)
  OBVIOUS
<1>2. t \in DOMAIN rule /\ \E k \in DOMAIN map : map[k] = t
  BY <1>1, LookedUp DEF ReadGoto, Valid
<1>3. CanRead /\ AddRule(Counted(t), NewRule("GOTO", t), TRUE)
  BY <1>1 DEF ReadGoto
<1> QED BY <1>2, <1>3, AddRuleStep

(* Every step keeps the invariant; a step that reads a freed rule is the   *)
(* last one.                                                               *)
LEMMA NextIInv == IInv /\ [Next]_vars => IInv'
<1> SUFFICES ASSUME IInv, [Next]_vars PROVE IInv'
  OBVIOUS
<1>1. CASE UNCHANGED vars
  <2>1. /\ UNCHANGED <<phase, rule, live, map, open, freeing, todo, heads, misused, replaced>>
    BY <1>1 DEF vars
  <2>2. PICK end \in [DOMAIN rule -> DOMAIN rule] : Linked(end)
    BY DEF IInv
  <2>3. Linked(end)'
    BY <2>1, <2>2 DEF Linked, Growing, Starts
  <2>4. \E e \in [DOMAIN rule' -> DOMAIN rule'] : Linked(e)'
    BY <2>1, <2>3
  <2>5. Shapes' /\ Phases' /\ ErrorExitsReadNoFreedRule' /\ (misused' => freeing' = <<>>)
    BY <2>1 DEF IInv, Shapes, Phases, ErrorExitsReadNoFreedRule
  <2>6. ~misused => FreedInOrder' /\ PointersKept' /\ CountsFit' /\ (~replaced' => Visited')
    <3> SUFFICES ASSUME ~misused
                 PROVE  FreedInOrder' /\ PointersKept' /\ CountsFit' /\ (~replaced' => Visited')
      OBVIOUS
    <3>1. FreedInOrder' /\ (~replaced' => Visited')
      BY <2>1 DEF IInv, FreedInOrder, BeingFreed, Visited, Starts
    <3>2. \A r : /\ Gotos(r)' = Gotos(r) /\ KeptAt(r)' = KeptAt(r)
                 /\ BeingFreed(r)' <=> BeingFreed(r)
      BY <2>1 DEF Gotos, KeptAt, BeingFreed
    <3>3. PointersKept' /\ CountsFit'
      BY <2>1, <3>2 DEF IInv, PointersKept, CountsFit
    <3> QED BY <3>1, <3>3
  <2>7. misused' = misused
    BY <2>1
  <2> QED BY <2>4, <2>5, <2>6, <2>7 DEF IInv
<1>2. CASE Next
  <2>1. ~misused
    BY <1>2 DEF Next, CanRead, Continues, ReadPlain, ReadGoto, ReadGotoNoSemicolon, OpenChain,
                SyntaxError, NoBrace, NullToken, CloseChain, FreeGoto, FreeRule, Unwind,
                EndOfFile, VisitKey, Return
  <2>2. PICK end : Valid(end)
    BY <2>1 DEF IInv, Valid
  <2> SUFFICES VisitKey \/ \E e : Valid(e)' /\ ~misused'
    <3>1. VisitKey => IInv'
      BY <2>2, VisitKeyStep
    <3>2. ASSUME NEW e, Valid(e)', ~misused' PROVE IInv'
      BY <3>2 DEF Valid, IInv, Linked, ErrorExitsReadNoFreedRule
    <3> QED BY <3>1, <3>2
  <2>3. ASSUME NEW found \in BOOLEAN, ReadPlain(found) PROVE \E e : Valid(e)' /\ ~misused'
    BY <2>1, <2>2, <2>3, ReadPlainStep DEF ReadPlain, AddRule
  <2>4. ASSUME NEW n \in Names, ReadGoto(n) PROVE \E e : Valid(e)' /\ ~misused'
    BY <2>1, <2>2, <2>4, ReadGotoStep DEF ReadGoto, AddRule
  <2>5. ASSUME NEW n \in Names, ReadGotoNoSemicolon(n) PROVE \E e : Valid(e)' /\ ~misused'
    BY <2>1, <2>2, <2>5, ReadGotoNoSemicolonStep DEF ReadGotoNoSemicolon
  <2>6. ASSUME NEW n \in Names, OpenChain(n) PROVE \E e : Valid(e)' /\ ~misused'
    BY <2>1, <2>2, <2>6, OpenChainStep DEF OpenChain
  <2>7. CASE SyntaxError
    BY <2>1, <2>2, <2>7, SyntaxErrorStep DEF SyntaxError
  <2>15. CASE NoBrace
    BY <2>1, <2>2, <2>15, NoBraceStep DEF NoBrace
  <2>8. CASE NullToken
    BY <2>1, <2>2, <2>8, NullTokenStep DEF NullToken
  <2>9. CASE CloseChain
    BY <2>1, <2>2, <2>9, CloseChainStep DEF CloseChain
  <2>10. CASE FreeGoto
    BY <2>1, <2>2, <2>10, FreeGotoStep
  <2>11. CASE FreeRule
    BY <2>1, <2>2, <2>11, FreeRuleStep
  <2>12. CASE Unwind
    BY <2>1, <2>2, <2>12, UnwindStep DEF Unwind
  <2>13. CASE EndOfFile
    BY <2>1, <2>2, <2>13, EndOfFileStep DEF EndOfFile
  <2>14. CASE Return
    BY <2>1, <2>2, <2>14, ReturnStep DEF Return
  <2> QED BY <1>2, <2>3, <2>4, <2>5, <2>6, <2>7, <2>8, <2>9, <2>10, <2>11, <2>12, <2>13, <2>14,
             <2>15
          DEF Next
<1> QED BY <1>1, <1>2

LEMMA AlwaysIInv == Spec => []IInv
BY InitIInv, NextIInv, PTL DEF Spec

------------------------------------------------------------------------------
(* What follows from the invariant *)

LEMMA IInvTypes == IInv => TypeOK
<1> SUFFICES ASSUME IInv PROVE TypeOK
  OBVIOUS
<1>1. PICK end \in [DOMAIN rule -> DOMAIN rule] : Linked(end)
  BY DEF IInv
<1>2. Shapes
  BY DEF IInv
<1>3. PICK M : M = DOMAIN rule \cup {NoRule}
  OBVIOUS
<1>4. rule \in Seq([m_type : {"PLAIN", "GOTO"}, next : M, goto_chain : M, m_ref : Nat])
  <2>1. Len(rule) \in Nat /\ DOMAIN rule = 1..Len(rule) /\ rule \in [1..Len(rule) -> RuleRec]
    BY <1>2, LenProperties DEF Shapes
  <2>2. ASSUME NEW r \in DOMAIN rule
        PROVE  rule[r] \in [m_type : {"PLAIN", "GOTO"}, next : M, goto_chain : M, m_ref : Nat]
    <3>1. PICK x \in RuleRec : x = rule[r]
      BY <1>2, RuleType
    <3>2. x.next \in M /\ x.goto_chain \in M
      <4>1. x.m_type \in {"PLAIN", "GOTO"}
        BY DEF RuleRec
      <4>2. x.next = NoRule \/ x.next \in DOMAIN rule
        BY <1>1, <3>1 DEF Linked
      <4>3. x.goto_chain = NoRule \/ x.goto_chain \in DOMAIN rule
        BY <1>1, <3>1, <4>1 DEF Linked
      <4> QED BY <1>3, <4>2, <4>3
    <3> QED BY <3>1, <3>2 DEF RuleRec
  <2>3. rule \in [1..Len(rule) -> [m_type : {"PLAIN", "GOTO"}, next : M, goto_chain : M,
                                   m_ref : Nat]]
    BY <2>1, <2>2
  <2> QED BY <2>1, <2>3, AsSequence
<1>5. open \in Seq([name : Names, head : M, last : M, links : BOOLEAN])
  <2>1. Len(open) \in Nat /\ DOMAIN open = 1..Len(open) /\ open \in [1..Len(open) -> Chains]
    BY <1>2, LenProperties DEF Shapes
  <2>2. ASSUME NEW i \in DOMAIN open
        PROVE  open[i] \in [name : Names, head : M, last : M, links : BOOLEAN]
    <3>1. PICK x \in Chains : x = open[i]
      BY <1>2, ChainType
    <3>2. x.head \in M /\ x.last \in M
      BY <1>1, <1>3, <3>1 DEF Linked
    <3> QED BY <3>1, <3>2 DEF Chains
  <2>3. open \in [1..Len(open) -> [name : Names, head : M, last : M, links : BOOLEAN]]
    BY <2>1, <2>2
  <2> QED BY <2>1, <2>3, AsSequence
<1>6. freeing \in Seq([cur : DOMAIN rule, released : BOOLEAN])
  <2>1. /\ Len(freeing) \in Nat /\ DOMAIN freeing = 1..Len(freeing)
        /\ freeing \in [1..Len(freeing) -> Calls]
    BY <1>2, LenProperties DEF Shapes
  <2>2. ASSUME NEW i \in DOMAIN freeing
        PROVE  freeing[i] \in [cur : DOMAIN rule, released : BOOLEAN]
    <3>1. PICK x \in Calls : x = freeing[i]
      BY <1>2, CallType
    <3>2. ~misused
      BY DEF IInv
    <3>3. x.cur \in DOMAIN rule
      BY <1>2, <3>1, <3>2 DEF IInv, FreedInOrder, Shapes
    <3> QED BY <3>1, <3>3 DEF Calls
  <2>3. freeing \in [1..Len(freeing) -> [cur : DOMAIN rule, released : BOOLEAN]]
    BY <2>1, <2>2
  <2> QED BY <2>1, <2>3, AsSequence
<1>7. heads \in [Kept -> M]
  BY <1>2, <1>3 DEF Shapes
<1> QED BY <1>2, <1>3, <1>4, <1>5, <1>6, <1>7 DEF TypeOK, Shapes

LEMMA IInvCounts == IInv => CountsPointers
<1> SUFFICES ASSUME IInv, ~misused PROVE CountsPointers
  BY DEF CountsPointers
<1>1. CountsFit /\ PointersKept
  BY DEF IInv
<1> QED BY <1>1 DEF CountsPointers, CountsFit, PointersKept

(* The two ways on from a rule *)
LEMMA SuccessorAt ==
  ASSUME Shapes, NEW end, Linked(end), NEW R \in SUBSET DOMAIN rule, NEW y \in Successors(R)
  PROVE  \E q \in R :
           /\ y \in DOMAIN rule
           /\ \/ y = rule[q].next /\ q < y /\ end[y] = end[q]
              \/ rule[q].m_type = "GOTO" /\ y = rule[q].goto_chain /\ end[y] < q
<1>1. PICK q \in R : y \in {rule[q].next, rule[q].goto_chain} \ {NoRule}
  BY DEF Successors
<1>2. q \in DOMAIN rule /\ rule[q].m_type \in {"PLAIN", "GOTO"}
  BY RuleType DEF RuleRec
<1>3. CASE y = rule[q].next
  BY <1>1, <1>2, <1>3 DEF Linked
<1>4. CASE y = rule[q].goto_chain
  BY <1>1, <1>2, <1>4 DEF Linked
<1> QED BY <1>1, <1>3, <1>4

LEMMA EndType ==
  ASSUME Shapes, NEW end, Linked(end), NEW r \in DOMAIN rule
  PROVE  r \in Nat /\ end[r] \in Nat /\ end[r] \in DOMAIN rule /\ r <= end[r]
         /\ end[r] <= Len(rule)
<1>1. end[r] \in DOMAIN rule /\ r <= end[r]
  BY DEF Linked
<1> QED BY <1>1, RuleType

(* On a way through the rules the end of the chain falls, or stays and the *)
(* number of the rule rises.                                               *)
LEMMA IInvWaysEnd == IInv => WaysEnd
<1> SUFFICES ASSUME IInv, NEW r \in DOMAIN rule, r \in Reachable(Successors({r})) PROVE FALSE
  BY DEF WaysEnd
<1>1. PICK end \in [DOMAIN rule -> DOMAIN rule] : Linked(end)
  BY DEF IInv
<1>2. Shapes
  BY DEF IInv
<1>3. PICK S : S = {x \in DOMAIN rule : end[x] < end[r] \/ (end[x] = end[r] /\ r < x)}
  OBVIOUS
<1>4. \A x \in DOMAIN rule : x \in Nat /\ end[x] \in Nat /\ x <= end[x]
  BY <1>1, <1>2, EndType
<1>5. Successors({r}) \subseteq S
  <2> SUFFICES ASSUME NEW y \in Successors({r}) PROVE y \in S
    OBVIOUS
  <2>1. /\ y \in DOMAIN rule
        /\ \/ r < y /\ end[y] = end[r]
           \/ end[y] < r
    BY <1>1, <1>2, SuccessorAt
  <2> QED BY <1>3, <1>4, <2>1
<1>6. Successors(S) \subseteq S
  <2> SUFFICES ASSUME NEW y \in Successors(S) PROVE y \in S
    OBVIOUS
  <2>1. S \in SUBSET DOMAIN rule
    BY <1>3
  <2>2. PICK q \in S : /\ y \in DOMAIN rule
                       /\ \/ q < y /\ end[y] = end[q]
                          \/ end[y] < q
    BY <1>1, <1>2, <2>1, SuccessorAt
  <2>3. q \in DOMAIN rule /\ (end[q] < end[r] \/ (end[q] = end[r] /\ r < q))
    BY <1>3
  <2> QED BY <1>3, <1>4, <2>2, <2>3
<1>7. r \notin S
  BY <1>3, <1>4
<1>8. S \in SUBSET DOMAIN rule
  BY <1>3
<1> QED BY <1>5, <1>6, <1>7, <1>8 DEF Reachable

(* Numbers that fall along every pointer, as EtherChain asks for them: the *)
(* ends, and among the rules of one chain the numbers turned round.        *)
Ranked(rank) ==
  /\ rank \in [DOMAIN rule -> Nat]
  /\ \A r \in DOMAIN rule :
       \A s \in {rule[r].next, rule[r].goto_chain} \ {NoRule} :
         s \in DOMAIN rule /\ rank[s] < rank[r]

LEMMA NextMultiple ==
  ASSUME NEW a \in Nat, NEW b \in Nat, NEW m \in Nat, a < b
  PROVE  a * m \in Nat /\ b * m \in Nat /\ a * m + m <= b * m
<1>1. PICK d \in Nat : b = a + 1 + d
  <2>1. b - a - 1 \in Nat /\ b = a + 1 + (b - a - 1)
    OBVIOUS
  <2> QED BY <2>1
<1>2. b * m = a * m + m + d * m
  BY <1>1
<1>3. a * m \in Nat /\ d * m \in Nat /\ b * m \in Nat
  OBVIOUS
<1> QED BY <1>2, <1>3

LEMMA IInvRanked == IInv => \E rank : Ranked(rank)
<1> SUFFICES ASSUME IInv PROVE \E rank : Ranked(rank)
  OBVIOUS
<1>1. PICK end \in [DOMAIN rule -> DOMAIN rule] : Linked(end)
  BY DEF IInv
<1>2. Shapes
  BY DEF IInv
<1>3. PICK m : m = Len(rule) + 1
  OBVIOUS
<1>4. m \in Nat /\ \A x \in DOMAIN rule : x \in Nat \ {0} /\ x < m
  BY <1>2, <1>3, RuleType, LenProperties DEF Shapes
<1>5. \A x \in DOMAIN rule : end[x] \in Nat \ {0} /\ x <= end[x]
  BY <1>1, <1>2, <1>4, EndType
<1>6. PICK rank : rank = [x \in DOMAIN rule |-> end[x] * m - x]
  OBVIOUS
<1>7. ASSUME NEW x \in DOMAIN rule PROVE rank[x] \in Nat
  <2>1. PICK y \in Nat : y = end[x] * m
    BY <1>4, <1>5, NextMultiple
  <2>2. 0 * m + m <= y /\ 0 * m = 0
    BY <1>4, <1>5, <2>1, NextMultiple
  <2> QED BY <1>4, <1>6, <2>1, <2>2
<1>8. ASSUME NEW r \in DOMAIN rule,
             NEW s \in {rule[r].next, rule[r].goto_chain} \ {NoRule}
      PROVE  s \in DOMAIN rule /\ rank[s] < rank[r]
  <2>1. s \in Successors({r})
    BY DEF Successors
  <2>2. /\ s \in DOMAIN rule
        /\ \/ r < s /\ end[s] = end[r]
           \/ end[s] < r
    BY <1>1, <1>2, <2>1, SuccessorAt
  <2>3. PICK y \in Nat, z \in Nat : y = end[s] * m /\ z = end[r] * m
    BY <1>4, <1>5, <2>2, NextMultiple
  <2>4. rank[s] = y - s /\ rank[r] = z - r
    BY <1>6, <2>2, <2>3
  <2>5. CASE r < s /\ end[s] = end[r]
    <3>1. y = z
      BY <2>3, <2>5
    <3> QED BY <1>4, <2>2, <2>4, <2>5, <3>1
  <2>6. CASE end[s] < r
    <3>1. end[s] < end[r]
      BY <1>4, <1>5, <2>2, <2>6
    <3>2. y + m <= z
      BY <1>4, <1>5, <2>2, <2>3, <3>1, NextMultiple
    <3> QED BY <1>4, <2>2, <2>4, <3>2
  <2> QED BY <2>2, <2>5, <2>6
<1> QED BY <1>6, <1>7, <1>8 DEF Ranked

(* Among some rules there is a first one of the chain that was completed   *)
(* last.                                                                   *)
LEMMA FirstOfLastChain ==
  ASSUME Shapes, NEW end, Linked(end), NEW D \in SUBSET DOMAIN rule, D # {}
  PROVE  \E r \in D : \A x \in D : end[x] < end[r] \/ (end[x] = end[r] /\ r <= x)
<1>1. \A x \in DOMAIN rule : x \in Nat /\ end[x] \in Nat /\ end[x] <= Len(rule)
  BY EndType
<1>2. Len(rule) \in Nat
  BY LenProperties DEF Shapes
<1>3. PICK T : T = {Len(rule) - end[x] : x \in D}
  OBVIOUS
<1>4. T \in SUBSET Nat /\ T # {}
  BY <1>1, <1>2, <1>3
<1>5. PICK d \in T : \A m \in T : d <= m
  BY <1>4, LeastNumber
<1>6. PICK u \in D : d = Len(rule) - end[u]
  BY <1>3
<1>7. \A x \in D : end[x] <= end[u]
  <2> TAKE x \in D
  <2>1. Len(rule) - end[u] <= Len(rule) - end[x]
    BY <1>3, <1>5, <1>6
  <2> QED BY <1>1, <1>2, <2>1
<1>8. PICK L : L = {x \in D : end[x] = end[u]}
  OBVIOUS
<1>9. L \in SUBSET Nat /\ L # {}
  BY <1>1, <1>8
<1>10. PICK r \in L : \A m \in L : r <= m
  BY <1>9, LeastNumber
<1>11. ASSUME NEW x \in D PROVE end[x] < end[r] \/ (end[x] = end[r] /\ r <= x)
  <2>1. end[x] <= end[u] /\ end[r] = end[u] /\ end[x] \in Nat /\ end[u] \in Nat
    BY <1>1, <1>7, <1>8
  <2>2. end[x] = end[u] => r <= x
    BY <1>8, <1>10
  <2> QED BY <2>1, <2>2
<1> QED BY <1>8, <1>11

(* At the end every rule that is allocated has a pointer to it, that of    *)
(* the rule before it, of a goto behind it or of the chain set; so if one  *)
(* were out of reach, so would be one that comes later.                    *)
LEMMA IInvKeptExactly == IInv => KeptExactly
<1> SUFFICES ASSUME IInv, phase = "done" PROVE KeptExactly
  BY DEF KeptExactly
<1>1. PICK end \in [DOMAIN rule -> DOMAIN rule] : Linked(end)
  BY DEF IInv
<1>2. /\ Shapes /\ freeing = <<>> /\ todo = {} /\ ~misused
      /\ FreedInOrder /\ PointersKept /\ CountsFit /\ (~replaced => Visited)
      /\ live \subseteq DOMAIN rule
  BY DEF IInv, Phases, Shapes
<1>3. PICK H : H = {heads[n] : n \in Kept} \ {NoRule}
  OBVIOUS
<1>4. \A r : ~BeingFreed(r)
  BY <1>2 DEF BeingFreed
<1>5. \A r : Gotos(r) = {g \in live : rule[g].m_type = "GOTO" /\ rule[g].goto_chain = r}
  BY <1>2 DEF Gotos
<1>6. H \subseteq live
  <2> SUFFICES ASSUME NEW h \in H PROVE h \in live
    OBVIOUS
  <2>1. PICK n \in Kept : h = heads[n] /\ h # NoRule
    BY <1>3
  <2>2. h \in DOMAIN rule /\ KeptAt(h) # {}
    BY <1>2, <2>1 DEF Shapes, KeptAt
  <2> QED BY <1>2, <2>2 DEF PointersKept
<1>7. Successors(live) \subseteq live
  <2> SUFFICES ASSUME NEW y \in Successors(live) PROVE y \in live
    OBVIOUS
  <2>1. PICK q \in live : /\ y \in DOMAIN rule
                          /\ \/ y = rule[q].next
                             \/ rule[q].m_type = "GOTO" /\ y = rule[q].goto_chain
    BY <1>1, <1>2, SuccessorAt
  <2>2. y # NoRule
    BY <1>2, <2>1, RuleType DEF NoRule
  <2>3. CASE y = rule[q].next
    BY <1>2, <2>2, <2>3 DEF FreedInOrder
  <2>4. CASE rule[q].m_type = "GOTO" /\ y = rule[q].goto_chain
    <3>1. Gotos(y) # {}
      BY <1>5, <2>4
    <3> QED BY <1>2, <2>1, <3>1 DEF PointersKept
  <2> QED BY <2>1, <2>3, <2>4
<1>8. Reachable(H) \subseteq live
  BY <1>2, <1>6, <1>7 DEF Reachable
<1>9. ASSUME ~replaced PROVE live \subseteq Reachable(H)
  <2> SUFFICES ASSUME NEW S \in SUBSET DOMAIN rule, H \cup Successors(S) \subseteq S,
                      NEW D, D = live \ S, D # {}
               PROVE  FALSE
    BY <1>2 DEF Reachable
  <2>1. D \in SUBSET DOMAIN rule
    BY <1>2
  <2>2. PICK r \in D : \A x \in D : end[x] < end[r] \/ (end[x] = end[r] /\ r <= x)
    BY <1>1, <1>2, <2>1, FirstOfLastChain
  <2>3. r \in live /\ r \in DOMAIN rule /\ r \notin S /\ r # NoRule
    BY <1>2, <2>1, RuleType DEF NoRule
  <2>4. \A x \in DOMAIN rule : x \in Nat /\ end[x] \in Nat /\ x <= end[x]
    BY <1>1, <1>2, EndType
  <2>5. \A q \in S : rule[q].next # r /\ rule[q].goto_chain # r
    BY <2>3 DEF Successors
  <2>6. CASE ~Starts(r)
    <3>1. PICK p \in DOMAIN rule : rule[p].next = r
      BY <2>6 DEF Starts
    <3>2. p \in live
      BY <1>2, <1>4, <2>3, <3>1 DEF FreedInOrder
    <3>3. p \in D
      BY <2>5, <3>1, <3>2
    <3>4. p < r /\ end[r] = end[p]
      BY <1>1, <2>3, <3>1 DEF Linked
    <3> QED BY <2>1, <2>2, <2>3, <2>4, <3>3, <3>4
  <2>7. CASE Starts(r)
    <3>1. rule[r].m_ref # 0
      BY <1>2, <1>4, <1>9, <2>3, <2>7 DEF Visited
    <3>2. Gotos(r) # {} \/ KeptAt(r) # {}
      <4> SUFFICES ASSUME Gotos(r) = {}, KeptAt(r) = {} PROVE FALSE
        OBVIOUS
      <4>1. rule[r].m_ref = Cardinality(Gotos(r)) + Cardinality(KeptAt(r))
        BY <1>2, <2>3 DEF CountsFit
      <4>2. Cardinality(Gotos(r)) = 0 /\ Cardinality(KeptAt(r)) = 0
        BY FS_EmptySet
      <4> QED BY <3>1, <4>1, <4>2
    <3>3. KeptAt(r) = {}
      <4>1. r \notin H
        BY <2>3
      <4> QED BY <1>3, <2>3, <4>1 DEF KeptAt
    <3>4. PICK g \in live : rule[g].m_type = "GOTO" /\ rule[g].goto_chain = r
      BY <1>5, <3>2, <3>3
    <3>5. g \in D /\ g \in DOMAIN rule
      BY <1>2, <2>5, <3>4
    <3>6. end[r] < g
      BY <1>1, <3>4, <3>5 DEF Linked
    <3> QED BY <2>2, <2>3, <2>4, <3>5, <3>6
  <2> QED BY <2>6, <2>7
<1> QED BY <1>3, <1>8, <1>9 DEF KeptExactly

------------------------------------------------------------------------------
(***************************************************************************)
(* The theorems.                                                           *)
(***************************************************************************)

(* Pointers lead to rules that were allocated, and no count goes below 0.  *)
THEOREM ChainTypes == Spec => []TypeOK
BY AlwaysIInv, IInvTypes, PTL

(* m_ref is the number of gotos and of pointers of the chain set that lead *)
(* to a chain, through reading, error exits and deletion.                  *)
THEOREM CountsRight == Spec => []CountsPointers
BY AlwaysIInv, IInvCounts, PTL

(* No configuration makes chains that lead in a circle.                    *)
THEOREM NoWayBack == Spec => []WaysEnd
BY AlwaysIInv, IInvWaysEnd, PTL

(* The rules have a rank as ChainAssumption of EtherChain asks for it, so  *)
(* what is proved of chains there holds for every chain that is read.      *)
THEOREM RulesRanked == Spec => [](\E rank : Ranked(rank))
BY AlwaysIInv, IInvRanked, PTL

(* The error exits of read_chain and of read_chains read and free no rule  *)
(* that was freed, at any depth of nesting.  It is about rules: the token  *)
(* that one of the exits frees and then prints is no part of the model.    *)
THEOREM NoFreedRuleOnErrorExits == Spec => []ErrorExitsReadNoFreedRule
<1>1. IInv => ErrorExitsReadNoFreedRule
  BY DEF IInv
<1> QED BY <1>1, AlwaysIInv, PTL

(* What parse_chains_from_file returns is what its four heads reach, and   *)
(* without chains of the same name nothing else is left.                   *)
THEOREM KeepsWhatIsReached == Spec => []KeptExactly
BY AlwaysIInv, IInvKeptExactly, PTL
================================================================================
