---------------------------- MODULE EtherChainProofs ----------------------------
(***************************************************************************)
(* What the handlers of the ethernet chain do, run one by one, is the      *)
(* meaning of the chain for a frame that meets implemented rules only, for *)
(* every configuration whose pointers have no cycle, with any number of    *)
(* rules.                                                                  *)
(*                                                                         *)
(* Meaning is a recursive function, so the first thing to prove is that it *)
(* satisfies its equation.  The recursion goes down in the rank of a rule; *)
(* each induction is on the least rank of a set of rules, which WFMin      *)
(* finds in a set of numbers (it has no operator for a parameter).         *)
(***************************************************************************)
EXTENDS EtherChain, TLAPS, WellFoundedInduction, SequenceTheorems

(* A set of numbers that is not empty has a least one. *)
LEMMA LeastNumber ==
  ASSUME NEW T \in SUBSET Nat, T # {}
  PROVE  \E n \in T : \A m \in T : n <= m
<1> DEFINE less == OpToRel(<, Nat)
<1>1. ASSUME NEW x \in Nat, NEW y \in Nat PROVE <<y, x>> \in less <=> y < x
  BY DEF OpToRel
<1>2. PICK n \in T : \A m \in T : ~ (<<m, n>> \in less)
  BY NatLessThanWellFounded, WFMin
<1>3. ASSUME NEW m \in T PROVE n <= m
  <2>1. m \in Nat /\ n \in Nat
    OBVIOUS
  <2>2. ~ (m < n)
    BY <1>1, <1>2, <2>1
  <2> QED BY <2>1, <2>2
<1> QED BY <1>2, <1>3

------------------------------------------------------------------------------
(* The equation of Meaning *)

MaybeRules == Rules \cup {NoRule}

(* The body of the definition, with F for the function being defined. *)
Body(F, h, r) ==
  IF r = NoRule
  THEN [acts |-> <<>>, meets |-> {}]
  ELSE LET rest == F[After(h, r)]
       IN  [acts |-> Acting(h, r) \o rest.acts, meets |-> {r} \cup rest.meets]

(* The rank, with the null pointer below every rule. *)
Height(r) == IF r = NoRule THEN 0 ELSE Rank[r] + 1
Below(n) == {r \in MaybeRules : Height(r) < n}

(* F is the function defined, as far as the rules below n. *)
SolvesBelow(F, h, n) == F = [r \in Below(n) |-> Body(F, h, r)]

(* A rule points to lower rules only, so a frame's way goes down. *)
LEMMA PointersGoDown ==
  /\ \A r \in MaybeRules : Height(r) \in Nat
  /\ \A r \in Rules :
       /\ Rule[r].next \in MaybeRules /\ Height(Rule[r].next) < Height(r)
       /\ Rule[r].goto_chain \in MaybeRules /\ Height(Rule[r].goto_chain) < Height(r)
  /\ \A r \in Rules : Rule[r].m_type \in RuleTypes
BY ChainAssumption DEF MaybeRules, Height

(* Type of rule by type of rule, where it leads. *)
LEMMA AfterType ==
  ASSUME NEW h, NEW r \in Rules
  PROVE  LET type == Rule[r].m_type
         IN  /\ ~Matches(h, r) \/ type \in {"LOG", "CALL"} => After(h, r) = Rule[r].next
             /\ Matches(h, r) /\ type = "GOTO" => After(h, r) = Rule[r].goto_chain
             /\ Matches(h, r) /\ type \in {"DROP", "RETURN", "CONTINUE"} => After(h, r) = NoRule
BY Zenon DEF After

LEMMA WayGoesDown ==
  ASSUME NEW h, NEW r \in Rules
  PROVE  After(h, r) \in MaybeRules /\ Height(After(h, r)) < Height(r)
<1>1. NoRule \in MaybeRules /\ Height(NoRule) < Height(r)
  BY ChainAssumption DEF MaybeRules, Height
<1> QED BY <1>1, PointersGoDown, AfterType DEF RuleTypes

(* The body looks the function up at that rule only. *)
LEMMA BodyLooksDown ==
  ASSUME NEW F, NEW G, NEW h, NEW r \in MaybeRules,
         r # NoRule => F[After(h, r)] = G[After(h, r)]
  PROVE  Body(F, h, r) = Body(G, h, r)
BY DEF Body

(* Up to any rank there is a solution, ... *)
LEMMA SolutionBelow ==
  ASSUME NEW h, NEW n \in Nat
  PROVE  \E F : SolvesBelow(F, h, n)
<1> DEFINE T == {k \in Nat : ~ \E F : SolvesBelow(F, h, k)}
<1> SUFFICES ASSUME T # {} PROVE FALSE
  OBVIOUS
<1>1. PICK k \in T : \A m \in T : k <= m
  BY LeastNumber
<1>2. k # 0
  <2>1. Below(0) = {}
    BY PointersGoDown DEF Below
  <2>2. SolvesBelow([r \in {} |-> <<>>], h, 0)
    BY <2>1 DEF SolvesBelow
  <2> QED BY <2>2
<1>3. k - 1 \in Nat /\ k - 1 \notin T
  BY <1>1, <1>2
<1>4. PICK G : SolvesBelow(G, h, k - 1)
  BY <1>3
<1> DEFINE F == [r \in Below(k) |-> Body(G, h, r)]
<1>5. ASSUME NEW s \in Below(k - 1) PROVE F[s] = G[s]
  <2>1. s \in Below(k)
    BY <1>3, PointersGoDown DEF Below
  <2>2. G[s] = Body(G, h, s)
    BY <1>4 DEF SolvesBelow
  <2> QED BY <2>1, <2>2
<1>6. ASSUME NEW r \in Below(k) PROVE Body(F, h, r) = Body(G, h, r)
  <2>1. r \in MaybeRules
    BY DEF Below
  <2>2. ASSUME r # NoRule
        PROVE  After(h, r) \in Below(k - 1)
    <3>1. r \in Rules /\ r \in MaybeRules /\ After(h, r) \in MaybeRules
      BY <2>1, <2>2, WayGoesDown DEF MaybeRules
    <3>2. Height(r) \in Nat /\ Height(After(h, r)) \in Nat
      BY <3>1, PointersGoDown
    <3>3. Height(r) < k /\ Height(After(h, r)) < Height(r)
      BY <3>1, WayGoesDown DEF Below
    <3> QED BY <1>3, <3>1, <3>2, <3>3 DEF Below
  <2> HIDE DEF F
  <2> QED BY <1>5, <2>1, <2>2, BodyLooksDown
<1>7. F = [r \in Below(k) |-> Body(F, h, r)]
  <2> DEFINE E == [r \in Below(k) |-> Body(F, h, r)]
  <2>1. DOMAIN E = Below(k) /\ DOMAIN F = Below(k)
    OBVIOUS
  <2>2. \A r \in Below(k) : E[r] = F[r]
    BY <1>6
  <2> QED BY <2>1, <2>2
<1>8. SolvesBelow(F, h, k)
  BY <1>7 DEF SolvesBelow
<1> QED BY <1>1, <1>8

(* ... and only one. *)
LEMMA SolutionsAgree ==
  ASSUME NEW h, NEW F, NEW G, NEW n \in Nat, NEW m \in Nat,
         SolvesBelow(F, h, n), SolvesBelow(G, h, m),
         NEW r \in Below(n), r \in Below(m)
  PROVE  F[r] = G[r]
<1> DEFINE T == {Height(s) : s \in {x \in MaybeRules : /\ x \in Below(n) /\ x \in Below(m)
                                                      /\ F[x] # G[x]}}
<1> SUFFICES ASSUME F[r] # G[r] PROVE FALSE
  OBVIOUS
<1>1. T \in SUBSET Nat
  BY PointersGoDown
<1>2. Height(r) \in T
  BY DEF Below
<1>3. PICK k \in T : \A j \in T : k <= j
  BY <1>1, <1>2, LeastNumber
<1>4. PICK s \in MaybeRules : /\ s \in Below(n) /\ s \in Below(m)
                              /\ F[s] # G[s] /\ k = Height(s)
  BY <1>3
<1>5. ASSUME NEW x \in MaybeRules, Height(x) < Height(s) PROVE F[x] = G[x]
  <2>1. Height(x) \in Nat /\ Height(s) \in Nat
    BY PointersGoDown
  <2>2. x \in Below(n) /\ x \in Below(m)
    BY <1>4, <1>5, <2>1 DEF Below
  <2>3. SUFFICES ASSUME F[x] # G[x] PROVE FALSE
    OBVIOUS
  <2>4. Height(x) \in T
    BY <2>2, <2>3
  <2> QED BY <1>3, <1>4, <1>5, <2>1, <2>4
<1>6. Body(F, h, s) = Body(G, h, s)
  BY <1>5, WayGoesDown, BodyLooksDown DEF MaybeRules
<1>7. F[s] = Body(F, h, s) /\ G[s] = Body(G, h, s)
  BY <1>4 DEF SolvesBelow
<1> QED BY <1>4, <1>6, <1>7

(* The recursive definition of Meaning defines what it says. *)
LEMMA MeaningSolves ==
  ASSUME NEW h
  PROVE  Meaning(h) = [r \in MaybeRules |-> Body(Meaning(h), h, r)]
<1> DEFINE upTo(r) == CHOOSE F : SolvesBelow(F, h, Height(r) + 1)
           M == [r \in MaybeRules |-> upTo(r)[r]]
<1>1. ASSUME NEW r \in MaybeRules PROVE SolvesBelow(upTo(r), h, Height(r) + 1)
  <2>1. Height(r) + 1 \in Nat
    BY PointersGoDown
  <2>2. \E F : SolvesBelow(F, h, Height(r) + 1)
    BY <2>1, SolutionBelow
  <2> QED BY <2>2
<1>2. \A r \in MaybeRules : M[r] = upTo(r)[r]
  OBVIOUS
<1> HIDE DEF upTo
<1>3. ASSUME NEW r \in MaybeRules, NEW s \in MaybeRules, Height(s) < Height(r)
      PROVE  upTo(r)[s] = upTo(s)[s]
  <2>1. Height(r) \in Nat /\ Height(s) \in Nat
    BY PointersGoDown
  <2>2. s \in Below(Height(r) + 1) /\ s \in Below(Height(s) + 1)
    BY <1>3, <2>1 DEF Below
  <2> QED BY <1>1, <2>1, <2>2, SolutionsAgree
<1>4. ASSUME NEW r \in MaybeRules PROVE M[r] = Body(M, h, r)
  <2>1. r \in Below(Height(r) + 1)
    BY PointersGoDown DEF Below
  <2>2. upTo(r)[r] = Body(upTo(r), h, r)
    BY <1>1, <2>1 DEF SolvesBelow
  <2>3. ASSUME r # NoRule
        PROVE  upTo(r)[After(h, r)] = M[After(h, r)]
    <3>1. After(h, r) \in MaybeRules /\ Height(After(h, r)) < Height(r)
      BY <2>3, WayGoesDown DEF MaybeRules
    <3> HIDE DEF M
    <3> QED BY <1>2, <1>3, <3>1
  <2> HIDE DEF M
  <2>4. Body(upTo(r), h, r) = Body(M, h, r)
    BY <2>3, BodyLooksDown
  <2> QED BY <1>2, <2>2, <2>4
<1>5. M = [r \in MaybeRules |-> Body(M, h, r)]
  <2> DEFINE E == [r \in MaybeRules |-> Body(M, h, r)]
  <2>1. DOMAIN E = MaybeRules /\ DOMAIN M = MaybeRules
    OBVIOUS
  <2>2. \A r \in MaybeRules : E[r] = M[r]
    BY <1>4
  <2> QED BY <2>1, <2>2
<1> DEFINE Solves(F) == F = [r \in MaybeRules |-> Body(F, h, r)]
<1>6. Solves(M)
  BY <1>5
<1> HIDE DEF M
<1>7. Solves(CHOOSE F : Solves(F))
  BY <1>6, Zenon
<1>8. Meaning(h) = CHOOSE F : Solves(F)
  BY DEF Meaning, Body, MaybeRules
<1> QED BY <1>7, <1>8

(* What a rule stands for, and the end of a chain. *)
LEMMA MeaningOfRule ==
  ASSUME NEW h
  PROVE  /\ Meaning(h)[NoRule].acts = <<>> /\ Meaning(h)[NoRule].meets = {}
         /\ \A r \in Rules :
              /\ Meaning(h)[r].acts = Acting(h, r) \o Meaning(h)[After(h, r)].acts
              /\ Meaning(h)[r].meets = {r} \cup Meaning(h)[After(h, r)].meets
<1> DEFINE M == Meaning(h)
<1>1. M = [x \in MaybeRules |-> Body(M, h, x)]
  BY MeaningSolves
<1> HIDE DEF M
<1>2. \A r \in MaybeRules : M[r] = Body(M, h, r)
  BY <1>1
<1>3. NoRule \in MaybeRules /\ \A r \in Rules : r \in MaybeRules /\ r # NoRule
  BY ChainAssumption DEF MaybeRules
<1>4. M[NoRule].acts = <<>> /\ M[NoRule].meets = {}
  <2>1. M[NoRule] = [acts |-> <<>>, meets |-> {}]
    BY <1>2, <1>3, Zenon DEF Body
  <2> QED BY <2>1
<1>5. ASSUME NEW r \in Rules
      PROVE  /\ M[r].acts = Acting(h, r) \o M[After(h, r)].acts
             /\ M[r].meets = {r} \cup M[After(h, r)].meets
  <2> DEFINE acts == Acting(h, r) \o M[After(h, r)].acts
             meets == {r} \cup M[After(h, r)].meets
  <2>1. M[r] = [acts |-> acts, meets |-> meets]
    BY <1>2, <1>3, Zenon DEF Body
  <2> HIDE DEF acts, meets
  <2>2. M[r].acts = acts /\ M[r].meets = meets
    BY <2>1
  <2> QED BY <2>2 DEF acts, meets
<1> QED BY <1>4, <1>5 DEF M

(* All is implemented from a rule on if that rule is, and from the rule at *)
(* which the frame goes on.                                                *)
LEMMA ImplementedFrom ==
  ASSUME NEW h
  PROVE  /\ AllImplemented(h, NoRule)
         /\ \A r \in Rules : AllImplemented(h, r)
                             => Implemented(h, r) /\ AllImplemented(h, After(h, r))
<1>1. Meaning(h)[NoRule].meets = {}
  BY MeaningOfRule
<1>2. \A r \in Rules : Meaning(h)[r].meets = {r} \cup Meaning(h)[After(h, r)].meets
  BY MeaningOfRule
<1> QED BY <1>1, <1>2 DEF AllImplemented

(* What acts is a sequence of rules. *)
LEMMA MeaningType ==
  ASSUME NEW h, NEW r \in MaybeRules
  PROVE  Meaning(h)[r].acts \in Seq(Rules)
<1> DEFINE M == Meaning(h)
           T == {Height(s) : s \in {x \in MaybeRules : M[x].acts \notin Seq(Rules)}}
<1> SUFFICES ASSUME M[r].acts \notin Seq(Rules) PROVE FALSE
  OBVIOUS
<1>1. T \in SUBSET Nat /\ Height(r) \in T
  BY PointersGoDown
<1>2. PICK k \in T : \A j \in T : k <= j
  BY <1>1, LeastNumber
<1>3. PICK s \in MaybeRules : M[s].acts \notin Seq(Rules) /\ k = Height(s)
  BY <1>2
<1>4. ASSUME NEW x \in MaybeRules, Height(x) < Height(s) PROVE M[x].acts \in Seq(Rules)
  <2>1. Height(x) \in Nat /\ Height(s) \in Nat
    BY PointersGoDown
  <2>2. SUFFICES ASSUME M[x].acts \notin Seq(Rules) PROVE FALSE
    OBVIOUS
  <2>3. Height(x) \in T
    BY <2>2
  <2> HIDE DEF T
  <2>4. k <= Height(x)
    BY <1>2, <2>3
  <2> QED BY <1>3, <1>4, <2>1, <2>4
<1>5. CASE s = NoRule
  <2>1. M[s].acts = <<>>
    BY <1>5, MeaningOfRule
  <2>2. <<>> \in Seq(Rules)
    OBVIOUS
  <2> QED BY <1>3, <2>1, <2>2
<1>6. CASE s # NoRule
  <2>1. s \in Rules
    BY <1>6 DEF MaybeRules
  <2>2. M[After(h, s)].acts \in Seq(Rules)
    BY <1>4, <2>1, WayGoesDown
  <2>3. Acting(h, s) \in Seq(Rules)
    BY <2>1 DEF Acting
  <2>4. M[s].acts = Acting(h, s) \o M[After(h, s)].acts
    BY <2>1, MeaningOfRule
  <2> HIDE DEF M
  <2> QED BY <1>3, <2>2, <2>3, <2>4
<1> QED BY <1>5, <1>6

------------------------------------------------------------------------------
(* The handlers *)

(* The handler a packet waits for is that of its current rule, or BEGIN    *)
(* before the first and `continue` behind the last.                        *)
Fits(p) ==
  LET r == p.current_chain_rule
  IN  \/ p.next_handler \in {"NULL", "BEGIN"}
      \/ r = NoRule /\ p.next_handler = "CONTINUE"
      \/ r # NoRule /\ p.next_handler = Rule[r].m_type

(* What the chain has still to do to a packet with header h, and whether   *)
(* the code implements it.                                                 *)
Left(p, h) ==
  IF p.next_handler = "NULL" THEN <<>> ELSE Meaning(h)[p.current_chain_rule].acts
ImplementedLeft(p, h) ==
  p.next_handler # "NULL" => AllImplemented(h, p.current_chain_rule)

(* To begin at a rule is to have its meaning left to do. *)
LEMMA BeginFits ==
  ASSUME NEW B, NEW p \in Packet(B), NEW r \in MaybeRules, NEW h
  PROVE  /\ BeginAt(p, r) \in Packet(B)
         /\ BeginAt(p, r).bytes = p.bytes
         /\ Fits(BeginAt(p, r))
         /\ Left(BeginAt(p, r), h) = Meaning(h)[r].acts
         /\ ImplementedLeft(BeginAt(p, r), h) <=> AllImplemented(h, r)
<1> DEFINE q == [p EXCEPT !.current_chain_rule = r]
<1>1. q \in Packet(B) /\ q.current_chain_rule = r /\ q.bytes = p.bytes
  BY DEF Packet, MaybeRules
<1> DEFINE type == IF r = NoRule THEN "CONTINUE" ELSE Rule[r].m_type
<1>2. type \in RuleTypes
  BY ChainAssumption DEF MaybeRules, RuleTypes
<1>3. BeginAt(p, r) = [q EXCEPT !.next_handler = type]
  BY <1>1 DEF BeginAt, Begin
<1> HIDE DEF q, type
<1>4. /\ BeginAt(p, r) \in Packet(B) /\ BeginAt(p, r).next_handler = type
      /\ BeginAt(p, r).current_chain_rule = r /\ BeginAt(p, r).bytes = p.bytes
  BY <1>1, <1>2, <1>3 DEF Packet, HandlerNames
<1>5. type # "NULL"
  BY <1>2 DEF RuleTypes
<1> QED BY <1>4, <1>5 DEF Fits, Left, ImplementedLeft, type

(* Whatever a packet in the hands of the handlers is, it stays one. *)
LEMMA HandlerKeepsPacket ==
  ASSUME NEW B, NEW p \in Packet(B), NEW h, Fits(p), p.next_handler # "NULL"
  PROVE  LET reset == [p EXCEPT !.next_handler = "NULL"]
             hdlr == p.next_handler
             q == Handle(reset, hdlr, h)
         IN  /\ q = reset \/ \E s \in MaybeRules : q = BeginAt(reset, s)
             /\ q \in Packet(B) /\ q.bytes = p.bytes /\ Fits(q)
             /\ Effect(reset, hdlr, h) \in Seq(Rules) /\ Left(q, h) \in Seq(Rules)
<1> DEFINE reset == [p EXCEPT !.next_handler = "NULL"]
           hdlr == p.next_handler
           r == p.current_chain_rule
           match == PacketMatchesPattern(h, Rule[r].m_pattern)
           q == Handle(reset, hdlr, h)
<1>1. /\ reset \in Packet(B) /\ reset.bytes = p.bytes /\ reset.next_handler = "NULL"
      /\ reset.current_chain_rule = r /\ r \in MaybeRules
  BY DEF Packet, MaybeRules
<1>2. q = reset \/ \E s \in MaybeRules : q = BeginAt(reset, s)
  <2>1. CASE hdlr = "BEGIN"
    <3>1. [reset EXCEPT !.current_chain_rule = r] = reset
      BY <1>1 DEF Packet
    <3>2. q = Begin(reset)
      BY <2>1, Zenon DEF Handle, Jumps
    <3> QED BY <1>1, <3>1, <3>2 DEF BeginAt
  <2>2. CASE hdlr \in {"RETURN", "CONTINUE"}
    BY <2>2, Zenon DEF Handle, Jumps
  <2>3. CASE hdlr \in RuleTypes \ {"RETURN", "CONTINUE"}
    <3>1. r \in Rules
      BY <1>1, <2>3 DEF Fits, MaybeRules, RuleTypes
    <3>2. Rule[r].next \in MaybeRules /\ Rule[r].goto_chain \in MaybeRules
      BY <3>1, PointersGoDown
    <3>3. [reset EXCEPT !.next_handler = "NULL"] = reset
      BY <1>1 DEF Packet
    <3>4. CASE hdlr = "DROP" /\ match
      <4>1. q = [reset EXCEPT !.next_handler = "NULL"]
        BY <1>1, <3>4, Zenon DEF Handle, Jumps
      <4> QED BY <3>3, <4>1
    <3>5. CASE hdlr = "GOTO" /\ match
      <4>1. q = BeginAt(reset, Rule[r].goto_chain)
        BY <1>1, <3>5, Zenon DEF Handle, Jumps
      <4> QED BY <3>2, <4>1
    <3>6. CASE (hdlr \in {"DROP", "GOTO"} /\ ~match) \/ hdlr \in {"LOG", "CALL"}
      <4>1. q = BeginAt(reset, Rule[r].next)
        BY <1>1, <3>6, Zenon DEF Handle, Jumps
      <4> QED BY <3>2, <4>1
    <3> QED BY <2>3, <3>4, <3>5, <3>6 DEF RuleTypes
  <2>4. hdlr \in HandlerNames
    BY DEF Packet
  <2> QED BY <2>1, <2>2, <2>3, <2>4 DEF HandlerNames
<1>3. q \in Packet(B) /\ q.bytes = p.bytes /\ Fits(q) /\ Left(q, h) \in Seq(Rules)
  <2> HIDE DEF reset, q
  <2>1. CASE q = reset
    BY <1>1, <2>1 DEF Fits, Left
  <2>2. ASSUME NEW s \in MaybeRules, q = BeginAt(reset, s)
        PROVE  q \in Packet(B) /\ q.bytes = p.bytes /\ Fits(q) /\ Left(q, h) \in Seq(Rules)
    BY <1>1, <2>2, BeginFits, MeaningType
  <2> QED BY <1>2, <2>1, <2>2
<1>4. Effect(reset, hdlr, h) \in Seq(Rules)
  <2>1. hdlr \in {"CALL", "LOG"} => r \in Rules
    BY <1>1 DEF Fits, MaybeRules
  <2>2. reset.current_chain_rule = r
    BY <1>1
  <2> HIDE DEF reset
  <2> QED BY <2>1, <2>2 DEF Effect
<1> QED BY <1>2, <1>3, <1>4

(* Whatever handler is next, with a packet whose next_handler has been     *)
(* reset and that meets implemented rules only: what the handler does,     *)
(* followed by what it leaves to be done, is what was left before, and it  *)
(* leaves it at a rule from which all is implemented.                      *)
THEOREM HandlerFollowsMeaning ==
  ASSUME NEW B, NEW p \in Packet(B), NEW h, Fits(p), p.next_handler # "NULL",
         ImplementedLeft(p, h)
  PROVE  LET reset == [p EXCEPT !.next_handler = "NULL"]
             hdlr == p.next_handler
             q == Handle(reset, hdlr, h)
         IN  /\ Effect(reset, hdlr, h) \o Left(q, h) = Left(p, h)
             /\ ImplementedLeft(q, h)
<1> DEFINE reset == [p EXCEPT !.next_handler = "NULL"]
           hdlr == p.next_handler
           r == p.current_chain_rule
           done == Effect(reset, hdlr, h)
           q == Handle(reset, hdlr, h)
           M == Meaning(h)
           Good == done \o Left(q, h) = Left(p, h) /\ ImplementedLeft(q, h)
<1> SUFFICES Good
  OBVIOUS
<1>1. /\ reset \in Packet(B) /\ reset.next_handler = "NULL"
      /\ reset.current_chain_rule = r /\ r \in MaybeRules
  BY DEF Packet, MaybeRules
<1>2. Left(p, h) = M[r].acts /\ AllImplemented(h, r)
  BY DEF Left, ImplementedLeft
<1>3. \A s \in MaybeRules : /\ Left(BeginAt(reset, s), h) = M[s].acts
                           /\ ImplementedLeft(BeginAt(reset, s), h) <=> AllImplemented(h, s)
  BY <1>1, BeginFits
<1>4. Left(reset, h) = <<>> /\ ImplementedLeft(reset, h)
  BY <1>1 DEF Left, ImplementedLeft
<1>5. \A s \in MaybeRules : M[s].acts \in Seq(Rules) /\ <<>> \o M[s].acts = M[s].acts
  BY MeaningType, ConcatEmptySeq
<1>6. M[NoRule].acts = <<>> /\ <<>> \o <<>> = <<>>
  BY MeaningOfRule
<1>7. CASE hdlr = "BEGIN"
  <2>1. q = BeginAt(reset, r)
    <3>1. [reset EXCEPT !.current_chain_rule = r] = reset
      BY <1>1 DEF Packet
    <3>2. q = Begin(reset)
      BY <1>7, Zenon DEF Handle, Jumps
    <3> QED BY <3>1, <3>2 DEF BeginAt
  <2>2. done = <<>>
    BY <1>7 DEF Effect
  <2> HIDE DEF q, done, reset, M
  <2> QED BY <1>1, <1>2, <1>3, <1>5, <2>1, <2>2
<1>8. CASE hdlr = "CONTINUE" /\ r = NoRule
  <2>1. q = reset
    BY <1>8, Zenon DEF Handle, Jumps
  <2>2. done = <<>>
    BY <1>8 DEF Effect
  <2> HIDE DEF q, done, reset, M
  <2> QED BY <1>2, <1>4, <1>6, <1>8, <2>1, <2>2
<1>9. ASSUME r # NoRule, hdlr = Rule[r].m_type
      PROVE  Good
  <2>1. r \in Rules /\ hdlr \in RuleTypes
    BY <1>1, <1>9, PointersGoDown DEF MaybeRules
  <2>2. /\ M[r].acts = Acting(h, r) \o M[After(h, r)].acts
        /\ After(h, r) \in MaybeRules
    BY <2>1, MeaningOfRule, WayGoesDown
  <2>3. Implemented(h, r) /\ AllImplemented(h, After(h, r))
    BY <1>2, <2>1, ImplementedFrom
  <2>4. hdlr \in {"DROP", "GOTO", "LOG", "CALL"} /\ (hdlr = "CALL" => Matches(h, r))
    BY <1>9, <2>1, <2>3 DEF Implemented, RuleTypes
  <2>5. done = Acting(h, r)
    BY <1>1, <1>9, <2>4 DEF Effect, Acting, Matches
  <2>6. \/ q = reset /\ After(h, r) = NoRule
        \/ q = BeginAt(reset, After(h, r))
    <3>1. CASE hdlr = "DROP" /\ Matches(h, r)
      <4>1. q = [reset EXCEPT !.next_handler = "NULL"]
        BY <1>1, <3>1, Zenon DEF Handle, Jumps, Matches
      <4>2. [reset EXCEPT !.next_handler = "NULL"] = reset
        BY <1>1 DEF Packet
      <4>3. After(h, r) = NoRule
        BY <1>9, <2>1, <3>1, AfterType
      <4> QED BY <4>1, <4>2, <4>3
    <3>2. CASE hdlr = "GOTO" /\ Matches(h, r)
      <4>1. q = BeginAt(reset, Rule[r].goto_chain)
        BY <1>1, <3>2, Zenon DEF Handle, Jumps, Matches
      <4>2. After(h, r) = Rule[r].goto_chain
        BY <1>9, <2>1, <3>2, AfterType
      <4> QED BY <4>1, <4>2
    <3>3. CASE (hdlr \in {"DROP", "GOTO"} /\ ~Matches(h, r)) \/ hdlr \in {"LOG", "CALL"}
      <4>1. q = BeginAt(reset, Rule[r].next)
        BY <1>1, <3>3, Zenon DEF Handle, Jumps, Matches
      <4>2. After(h, r) = Rule[r].next
        BY <1>9, <2>1, <3>3, AfterType
      <4> QED BY <4>1, <4>2
    <3> QED BY <2>4, <3>1, <3>2, <3>3
  <2>7. Acting(h, r) \in Seq(Rules)
    BY <2>1 DEF Acting
  <2>8. CASE q = reset /\ After(h, r) = NoRule
    <3> HIDE DEF q, done, reset, M
    <3> QED BY <1>2, <1>4, <1>6, <2>2, <2>5, <2>8
  <2>9. CASE q = BeginAt(reset, After(h, r))
    <3> HIDE DEF q, done, reset, M
    <3> QED BY <1>2, <1>3, <2>2, <2>3, <2>5, <2>9
  <2> QED BY <2>6, <2>8, <2>9
<1> QED BY <1>7, <1>8, <1>9 DEF Fits
==============================================================================
