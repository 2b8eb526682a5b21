------------------------------ MODULE MCStartup ------------------------------
(***************************************************************************)
(* Startup for TLC: a directory that may have two plugins which export a   *)
(* routine of the same name, a link that leads nowhere and a plugin of     *)
(* another type; addresses of two octets; configurations with all patterns *)
(* of up to two words, with pairs of rules in all layouts, with chains in  *)
(* chains, with names that no goto, call or chain may have, with white     *)
(* space before and behind, and with a rule or a chain that breaks off     *)
(* anywhere.                                                               *)
(***************************************************************************)
EXTENDS Startup

MCFiles == {"a.so", "b.so", "link", "other.so"}
MCKind == [f \in MCFiles |-> CASE f \in {"a.so", "b.so"} -> "consumer"
                              [] f = "link" -> "dangling_link"
                              [] OTHER -> "other_type"]
MCExports == [f \in MCFiles |-> IF f \in {"a.so", "b.so"} THEN {"count"} ELSE {}]
MCRoutines == {"count", "missing"}

(* Good addresses are "19:Af" and "f1:91"; "01:90" has the digit 0, "19:F" *)
(* is too short and "1919A" has no colon.                                  *)
Word1(k, v) == [key |-> k, value |-> v]
MCWord ==
  [s1 |-> Word1("src_mac", <<49, 57, 58, 65, 102>>),
   s2 |-> Word1("src_mac", <<102, 49, 58, 57, 49>>),
   s3 |-> Word1("src_mac", <<48, 49, 58, 57, 48>>),
   s4 |-> Word1("src_mac", <<49, 57, 49, 57, 65>>),
   d1 |-> Word1("dest_mac", <<49, 57, 58, 65, 102>>),
   d2 |-> Word1("dest_mac", <<102, 49, 58, 57, 49>>),
   d3 |-> Word1("dest_mac", <<49, 57, 58, 70>>),
   handle |-> Word1("other", <<>>)]

(* A rule as it is meant, and a text for it: `inside` stands behind the    *)
(* left parenthesis, `behind` behind the right one.                        *)
Spaced(items) == FoldLeft(LAMBDA t, i : t \o <<i, Space>>, <<>>, items)
Ruling(words, inside, behind, command, name) ==
  [text |-> (IF words = <<>> /\ inside = <<>> THEN <<>>
             ELSE <<"(">> \o inside \o Spaced(words) \o <<")">> \o behind)
            \o <<command>> \o (IF name = <<>> THEN <<>> ELSE <<Space>> \o name)
            \o <<";", Space>>,
   rules |-> <<[words |-> words, m_type |-> <<command>>, name |-> name]>>]

Calls(words, inside, behind) == Ruling(words, inside, behind, "call", <<"count">>)
Bare(command, name) == Ruling(<<>>, <<>>, <<>>, command, name)
Log == Bare("log", <<>>)
Jump(name) == Bare("goto", name)

Patterned == {Calls(words, <<>>, <<Space>>) :
                words \in {w \in SeqOf(DOMAIN MCWord, 2) : w # <<>>}}
LaidOut == {Ruling(words, inside, behind, command[1], Tail(command)) :
              words \in {<<>>, <<"s1">>}, inside \in {<<>>, <<Space>>},
              behind \in {<<>>, <<Space>>},
              command \in {<<"log">>, <<"call", "count">>, <<"call", "missing">>}}
Pairs == {[text |-> r.text \o s.text, rules |-> r.rules \o s.rules] :
            r \in LaidOut, s \in {Calls(words, inside, <<Space>>) :
                                 words \in {<<>>, <<"s1">>}, inside \in {<<>>, <<Space>>}}}

Chain(name, text, gap) ==
  <<"chain", Space>> \o name \o <<Space, "{">> \o gap \o text \o <<"}">>
ether == <<"ether">>
inner == <<"inner">>
hidden == <<Underscore, "inner">>

(* A configuration of the chain `ether` and no other. *)
Only(name, r, gap) ==
  [Nothing EXCEPT !.text = Chain(name, r.text, gap), !.chains = (name :> r.rules),
                  !.outer = {name}]
Outer(r) == Only(ether, r, <<Space>>)

(* A configuration of a chain with the rules of r and another with Log. *)
Both(text, name, r, outer, ahead) ==
  [Nothing EXCEPT !.text = text, !.chains = (ether :> r.rules) @@ (name :> Log.rules),
                  !.outer = outer, !.ahead = ahead]

(* A chain in a chain, or before it, with the last brace close to the one  *)
(* before or apart from it, and a goto to it.                              *)
Within(gap) ==
  LET in == Chain(inner, Log.text, gap)
  IN  {Both(Chain(ether, in \o gap \o Jump(inner).text, gap), inner, Jump(inner), {ether}, {}),
       Both(Chain(ether, Log.text \o in \o gap, gap), inner, Log, {ether}, {})}
Before(gap) ==
  Both(Chain(inner, Log.text, gap) \o gap \o Chain(ether, Jump(inner).text, gap),
       inner, Jump(inner), {ether, inner}, {})

(* A goto to the chain it is in, to none, and to one that comes later,     *)
(* within the chain or behind it.                                          *)
Ahead ==
  LET in == Chain(inner, Log.text, <<Space>>) \o <<Space>>
      gap == <<Space>>
  IN  {[Outer(Jump(name)) EXCEPT !.ahead = {name}] : name \in {ether, <<"nowhere">>}}
      \cup {Both(Chain(ether, Jump(inner).text \o in, gap), inner, Jump(inner), {ether}, {inner}),
            Both(Chain(ether, Jump(inner).text, gap) \o gap \o in, inner, Jump(inner),
                 {ether, inner}, {inner})}

(* Names that start with an underscore, of a chain in a chain and of what  *)
(* may have none.                                                          *)
Named ==
  LET in == Chain(hidden, Log.text, <<Space>>) \o <<Space>>
  IN  {Both(Chain(ether, in \o r.text, <<Space>>), hidden, r, {ether}, {}) :
         r \in {Log, Jump(hidden)}}
      \cup {Only(hidden, Log, <<Space>>), Outer(Bare("call", <<Underscore, "count">>))}

Empty == {Only(ether, [text |-> <<>>, rules |-> <<>>], gap) : gap \in {<<>>, <<Space>>}}

(* A file may begin and end with white space. *)
Padded(c) == {[c EXCEPT !.text = front \o c.text \o back] :
                front \in {<<>>, <<Space>>}, back \in {<<>>, <<Space>>}}

(* No prefix of these ends where the outermost chain ends, and the last    *)
(* text is accepted: from the first left parenthesis up to the second      *)
(* right one nothing is read.                                              *)
BreaksOff(c, text) == [c EXCEPT !.text = text, !.chains = <<>>, !.whole = FALSE]
BrokenOff(c) == {BreaksOff(c, SubSeq(c.text, 1, k)) : k \in 1..(Len(c.text) - 1)}
Swallowed ==
  LET r == Ruling(<<"s1">>, <<Space>>, <<Space>>, "log", <<>>)
  IN  BreaksOff(Nothing, SubSeq(Chain(ether, r.text, <<Space>>), 1, Len(r.text) + 6)
                         \o Chain(inner, r.text, <<Space>>))

MCConfigs ==
  LET inside == {Outer(r) : r \in LaidOut} \cup Within(<<>>) \cup Within(<<Space>>)
  IN  {Outer(r) : r \in Patterned \cup Pairs}
      \cup UNION {Padded(c) : c \in inside \cup {Before(<<>>), Before(<<Space>>)}}
      \cup Ahead \cup Named \cup Empty
      \cup UNION {BrokenOff(c) : c \in inside} \cup {Swallowed}
==============================================================================
