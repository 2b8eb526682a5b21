------------------------------ MODULE EtherChain ------------------------------
(***************************************************************************)
(* src/chain_ss/ether_chain.c: what the handlers of the ethernet chain do  *)
(* to one packet.  A handler is a function of the packet; the one to call  *)
(* next is stored in the packet itself (struct chain_raw_packet_data of    *)
(* chain_ss.h), so the operators below map a packet to a packet.           *)
(***************************************************************************)
EXTENDS Naturals, Sequences

CONSTANTS
  Macs,     \* the MAC addresses that occur
  Rules,    \* the rules of all chains of the configuration
  NoRule,   \* the null rule pointer at the end of a chain
  Rule,     \* Rule[r]: the struct chain_rule r points to
  Rank      \* Rank[r]: no path of next and goto pointers from r is longer

RuleTypes == {"RETURN", "CONTINUE", "DROP", "CALL", "GOTO", "LOG"}
HandlerNames == {"BEGIN"} \cup RuleTypes

(* A pattern compares the addresses its features name; the null pattern    *)
(* of a rule without parentheses has none to compare.                      *)
Features == {"HAS_SRC_MAC_ADDR", "HAS_DEST_MAC_ADDR"}
Pattern == [features : SUBSET Features, src_mac_addr : Macs, dest_mac_addr : Macs]
NullPattern(any) == [features |-> {}, src_mac_addr |-> any, dest_mac_addr |-> any]

(* The part of a frame that a rule looks at. *)
Header == [ether_shost : Macs, ether_dhost : Macs]

(* chain.c lets a rule jump only to a chain that has been read completely  *)
(* before, and links `next` along the chain: the pointers have no cycle.   *)
ASSUME ChainAssumption ==
  /\ NoRule \notin Rules
  /\ Rule \in [Rules -> [m_type : RuleTypes, m_pattern : Pattern,
                         next : Rules \cup {NoRule},
                         goto_chain : Rules \cup {NoRule}]]
  /\ Rank \in [Rules -> Nat]
  /\ \A r \in Rules : \A s \in {Rule[r].next, Rule[r].goto_chain} \ {NoRule} :
       Rank[s] < Rank[r]

(* struct chain_raw_packet_data: next_handler is "NULL" or names a handler. *)
Packet(Bytes) == [next_handler : HandlerNames \cup {"NULL"},
                  current_chain_rule : Rules \cup {NoRule},
                  bytes : Bytes]

PacketMatchesPattern(h, pat) ==
  /\ "HAS_SRC_MAC_ADDR" \in pat.features => h.ether_shost = pat.src_mac_addr
  /\ "HAS_DEST_MAC_ADDR" \in pat.features => h.ether_dhost = pat.dest_mac_addr

(* ether_chain_handle_BEGIN: the handler of the current rule is next, that *)
(* of `continue` if the chain has ended.                                   *)
Begin(p) ==
  [p EXCEPT !.next_handler =
     IF p.current_chain_rule = NoRule THEN "CONTINUE"
                                      ELSE Rule[p.current_chain_rule].m_type]

(* Go to rule r and begin there, as the tail of every handler but those    *)
(* that end the packet's way.                                              *)
BeginAt(p, r) == Begin([p EXCEPT !.current_chain_rule = r])

(* Not part of the specification: a slip. *)
SlipJumps(hdlr, match) == hdlr = "GOTO" /\ ~match

Jumps(hdlr, match) == hdlr = "GOTO" /\ match

(* handler(packet_ptr) for a packet whose next_handler was `hdlr` and has  *)
(* been reset; h is the header of its bytes.  `return` and `continue` do   *)
(* nothing, `call` and `log` go on whatever the outcome of the match.      *)
Handle(p, hdlr, h) ==
  LET r == Rule[p.current_chain_rule]
      match == PacketMatchesPattern(h, r.m_pattern)
  IN  CASE hdlr = "BEGIN" -> Begin(p)
        [] hdlr \in {"RETURN", "CONTINUE"} -> p
        [] hdlr = "DROP" /\ match -> [p EXCEPT !.next_handler = "NULL"]
        [] Jumps(hdlr, match) -> BeginAt(p, r.goto_chain)
        [] OTHER -> BeginAt(p, r.next)

(* What the outside sees of that call: the packet's bytes printed by a     *)
(* `log` that matches, a plugin's function called by a `call`, whose       *)
(* pattern is not looked at.                                               *)
Effect(p, hdlr, h) ==
  IF \/ hdlr = "CALL"
     \/ /\ hdlr = "LOG"
        /\ PacketMatchesPattern(h, Rule[p.current_chain_rule].m_pattern)
  THEN <<p.current_chain_rule>>
  ELSE <<>>

------------------------------------------------------------------------------
(***************************************************************************)
(* What the rules mean, whatever the handlers make of them: a rule acts on *)
(* the frames that its pattern matches and on no other.  `log` and `call`  *)
(* act and the frame goes on, `goto` sends it to another chain, the others *)
(* end its way, as does the end of a chain.                                *)
(***************************************************************************)
Matches(h, r) == PacketMatchesPattern(h, Rule[r].m_pattern)

Acting(h, r) ==
  IF Matches(h, r) /\ Rule[r].m_type \in {"LOG", "CALL"} THEN <<r>> ELSE <<>>

(* The rule at which the frame goes on. *)
After(h, r) ==
  CASE ~Matches(h, r) \/ Rule[r].m_type \in {"LOG", "CALL"} -> Rule[r].next
    [] Matches(h, r) /\ Rule[r].m_type = "GOTO" -> Rule[r].goto_chain
    [] Matches(h, r) /\ Rule[r].m_type \in {"DROP", "RETURN", "CONTINUE"} -> NoRule

(* The code says of `return` and `continue` that they are NOT implemented  *)
(* (ether_chain.c:104 and 109), and `call` never looks at its pattern.     *)
Implemented(h, r) ==
  /\ Rule[r].m_type \notin {"RETURN", "CONTINUE"}
  /\ Rule[r].m_type = "CALL" => Matches(h, r)

(* For a frame with header h, by the rule it enters at: the rules that act *)
(* on it, in order, and all that it meets.                                 *)
Meaning(h) ==
  LET way[r \in Rules \cup {NoRule}] ==
        IF r = NoRule
        THEN [acts |-> <<>>, meets |-> {}]
        ELSE LET rest == way[After(h, r)]
             IN  [acts |-> Acting(h, r) \o rest.acts, meets |-> {r} \cup rest.meets]
  IN  way

AllImplemented(h, r) == \A s \in Meaning(h)[r].meets : Implemented(h, s)
==============================================================================
