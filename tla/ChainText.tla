------------------------------- MODULE ChainText -------------------------------
(***************************************************************************)
(* src/chain_ss/chain.c: read_chains, token by token, from the text of the *)
(* configuration to the chains it defines.  What the rules are allocated   *)
(* to, their reference counts and what the error exits free is in          *)
(* ChainLoad; here is what is read, where the parse ends, and how.         *)
(*                                                                         *)
(* The chain map goes from a name to the rules of its chain.  A name is a  *)
(* token.  The recursive calls of read_chain are the stack `open`.         *)
(***************************************************************************)
EXTENDS Tokens, Pattern, SequencesExt

CONSTANTS
  Configs,   \* configurations: a text and what was meant by it (see below)
  Word       \* Word[w]: the key and the value of the item w of a pattern, or
             \* the key "other" of a handle or a key that is not implemented

VARIABLES
  config,   \* the configuration that is read
  rest,     \* the part of its text that has not been read
  open,     \* the active calls of read_chain, innermost first
  chains,   \* the chain map
  parse     \* "reading", or how it ended: "done", "failed", "crashed", or
            \* "undefined", after a read of freed memory

parsing == <<config, rest, open, chains, parse>>

NoFunction == "null"

(* What was meant by a text: the chains it defines, by their names, the    *)
(* names that stand outside all other chains, and the names that a goto    *)
(* has before the chain of that name is complete, if ever it is; `whole`   *)
(* is FALSE for a text that breaks off inside a chain.                     *)
Nothing == [text |-> <<>>, chains |-> <<>>, outer |-> {}, ahead |-> {}, whole |-> TRUE]

InitParsing ==
  /\ config = Nothing /\ rest = <<>>
  /\ open = <<>> /\ chains = <<>> /\ parse = "reading"

Token(text) == next_token_skip_space(text, "default_class")

(* isalnum(token[0]) *)
Identifier(token) ==
  token # Null /\ default_class(token[1]) = 1 /\ token[1] # Underscore

------------------------------------------------------------------------------
(* Variants with a plausible slip each; not part of the specification. *)

SlipCloses(token) == IF token = Null THEN TRUE ELSE token[1] = "}"
SlipUnresolved(rules, linkMap) == FALSE

------------------------------------------------------------------------------
(* read_one_chain_rule *)

(* What is no word is left out; the words go into the pattern one by one.  *)
compile_pattern(token) ==
  LET f[i \in 0..Len(token)] ==
        IF i = 0 THEN [words |-> <<>>, pat |-> NewPattern]
        ELSE LET p == f[i - 1]
                 w == token[i]
             IN  IF w \notin DOMAIN Word THEN p
                 ELSE [words |-> Append(p.words, w),
                       pat |-> AddKeyToPattern(p.pat, Word[w].key, Word[w].value)]
  IN  f[Len(token)]

Commands == {<<"return">>, <<"continue">>, <<"log">>, <<"drop">>, <<"call">>, <<"goto">>}

(* The tokens of a rule, as the function asks for them. *)
RuleTokens(text) ==
  LET first == Token(text)
      pattern == next_token_skip_space(first.rest, "not_paren")
      close == next_token_skip_space(pattern.rest, "not_paren")
      paren == first.token[1] = "("
      command == IF paren THEN Token(close.rest) ELSE first
      names == command.token \in {<<"call">>, <<"goto">>}
      name == IF names THEN Token(command.rest) ELSE [command EXCEPT !.token = Null]
      end == Token(name.rest)
  IN  [paren |-> paren, pattern |-> pattern.token, close |-> close.token,
       command |-> command.token, names |-> names, name |-> name.token,
       end |-> end.token, rest |-> end.rest]

(* A null token that is dereferenced before anyone looks whether it is one *)
Dereferenced(t) ==
  /\ t.paren
  /\ \/ Null \in {t.pattern, t.close}
     \/ t.close = <<")">> /\ t.command = Null

WellFormed(t) ==
  /\ t.paren => t.close = <<")">>
  /\ t.command \in Commands
  /\ t.names => Identifier(t.name)
  /\ t.command = <<"goto">> => t.name \in DOMAIN chains
  /\ t.end # Null /\ t.end[1] = ";"

NewRule(t) ==
  LET p == compile_pattern(IF t.paren THEN t.pattern ELSE Null)
  IN  [words |-> p.words, m_pattern |-> p.pat, m_type |-> t.command,
       name |-> t.name, call_fn |-> NoFunction]

------------------------------------------------------------------------------
Reading == parse = "reading" /\ UNCHANGED config
End(how) == parse' = how /\ UNCHANGED <<rest, open, chains>>

(* The beginning of read_chain, when `chain` and the name are consumed.    *)
(* strcmp dereferences the token, null or not; one that is not the brace   *)
(* is freed, and then printed into the message.                            *)
EnterChain(name, text) ==
  LET brace == Token(text)
  IN  CASE brace.token = Null -> End("crashed")
        [] brace.token = <<"{">> ->
             /\ open' = <<[name |-> name, rules |-> <<>>]>> \o open
             /\ rest' = brace.rest
             /\ UNCHANGED <<chains, parse>>
        [] OTHER -> End("undefined")

(* read_chains: `chain` and a name, or the end of the file. *)
OuterChain ==
  LET chain == Token(rest)
      name == Token(chain.rest)
  IN  /\ Reading
      /\ open = <<>>
      /\ IF chain.token = Null THEN End("done")
         ELSE IF chain.token = <<"chain">> /\ Identifier(name.token)
         THEN EnterChain(name.token, name.rest)
         ELSE End("failed")

Closes(token) == token # Null /\ token[1] = "}"

PrematureEnd ==
  /\ Reading
  /\ open # <<>> /\ Token(rest).token = Null /\ ~Closes(Null)
  /\ End("failed")

(* Any token but the null pointer is a name for a chain in a chain. *)
InnerChain ==
  LET name == Token(Token(rest).rest)
  IN  /\ Reading
      /\ open # <<>> /\ Token(rest).token = <<"chain">>
      /\ IF name.token = Null THEN End("failed") ELSE EnterChain(name.token, name.rest)

ReadRule ==
  LET token == Token(rest).token
      t == RuleTokens(rest)
  IN  /\ Reading
      /\ open # <<>> /\ token \notin {Null, <<"chain">>} /\ ~Closes(token)
      /\ IF Dereferenced(t) THEN End("crashed")
         ELSE IF WellFormed(t)
         THEN /\ open' = [open EXCEPT ![1].rules = Append(@, NewRule(t))]
              /\ rest' = t.rest
              /\ UNCHANGED <<chains, parse>>
         ELSE End("failed")

(* link_chain *)
Unresolved(rules, linkMap) ==
  \E i \in DOMAIN rules : rules[i].m_type = <<"call">> /\ rules[i].name \notin DOMAIN linkMap
Linked(rule, linkMap) ==
  IF rule.m_type = <<"call">> /\ rule.name \in DOMAIN linkMap
  THEN [rule EXCEPT !.call_fn = linkMap[rule.name]] ELSE rule

(* An empty chain is taken for a failure. *)
CloseChain(linkMap) ==
  LET c == Head(open)
      linked == [i \in DOMAIN c.rules |-> Linked(c.rules[i], linkMap)]
  IN  /\ Reading
      /\ open # <<>> /\ Closes(Token(rest).token)
      /\ IF c.rules = <<>> \/ Unresolved(c.rules, linkMap) THEN End("failed")
         ELSE /\ chains' = [n \in DOMAIN chains \cup {c.name} |->
                              IF n = c.name THEN linked ELSE chains[n]]
              /\ open' = Tail(open)
              /\ rest' = Token(rest).rest
              /\ UNCHANGED parse

ReadStep(linkMap) ==
  OuterChain \/ PrematureEnd \/ InnerChain \/ ReadRule \/ CloseChain(linkMap)

------------------------------------------------------------------------------
(* What is asked of the reader *)

Follows(i, items) == i < Len(config.text) /\ config.text[i + 1] \in items

(* The layout of example.conf: what is in parentheses starts right behind  *)
(* the left one, and braces stand apart from each other.                   *)
Plain ==
  \A i \in DOMAIN config.text :
    /\ config.text[i] = "(" => ~Follows(i, {Space, ")"})
    /\ config.text[i] \in {"{", "}"} => ~Follows(i, {"{", "}"})

(* What the reader has to accept: chains with rules, calls to routines     *)
(* that a plugin exports, gotos to chains that are complete, and no name   *)
(* that starts with an underscore (but for a chain in a chain, which may   *)
(* have any).                                                              *)
Acceptable(linkMap) ==
  /\ \A n \in config.outer : Identifier(n)
  /\ \A n \in DOMAIN config.chains : config.chains[n] # <<>>
  /\ \A n \in DOMAIN config.chains : \A i \in DOMAIN config.chains[n] :
       LET r == config.chains[n][i]
       IN  /\ r.m_type = <<"call">> => Identifier(r.name) /\ r.name \in DOMAIN linkMap
           /\ r.m_type = <<"goto">> => Identifier(r.name) /\ r.name \notin config.ahead

Meaning(rule) == [words |-> rule.words, m_type |-> rule.m_type, name |-> rule.name]
==============================================================================
