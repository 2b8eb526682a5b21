-------------------------------- MODULE Startup --------------------------------
(***************************************************************************)
(* main.c up to the loop that reads frames: the bus thread, the plugins    *)
(* (plugin_ss.c), the configuration (ChainText), the workers, the options  *)
(* and the raw socket (socket_ss.c), each with the exits it has.           *)
(*                                                                         *)
(* A plugin, its struct plugin and its library go by the name of its file. *)
(***************************************************************************)
EXTENDS ChainText

CONSTANTS
  Files,      \* the entries that the directory "plugins" may have
  Kind,       \* Kind[f]: what is wrong with the entry f, or "consumer"
  Exports,    \* Exports[f]: the names of the routines f exports
  Routines    \* the names of routines

Kinds == {"directory", "dangling_link", "no_library", "no_type", "other_type",
          "no_name", "no_routines", "consumer"}

ASSUME StartupAssumption ==
  /\ Octets \in Nat \ {0}
  /\ Kind \in [Files -> Kinds]
  /\ \A w \in DOMAIN Word : Word[w].key \in Keys \cup {"other"} /\ Word[w].value \in Seq(0..127)
  /\ \A c \in Configs : c.text \in Seq({c.text[i] : i \in DOMAIN c.text})
  /\ Exports \in [Files -> SUBSET Routines]
  /\ NoFunction \notin Files

VARIABLES
  phase,    \* where main is
  present,  \* the entries the directory has
  seen,     \* those that readdir has returned
  plugins,  \* the plugin chain, from `start`
  live,     \* the plugins that calloc has returned and free() has not got
  opened,   \* the libraries that dlopen has opened and dlclose not closed
  threads,  \* the threads that were started
  status    \* the exit status, once phase is "exit"

loading == <<present, seen, plugins, live, opened>>
vars == <<phase, loading, parsing, threads, status>>

Init ==
  /\ phase = "start_bus"
  /\ present \in SUBSET Files
  /\ seen = {} /\ plugins = <<>> /\ live = {} /\ opened = {}
  /\ InitParsing
  /\ threads = {} /\ status = 0

Goto(from, to) == phase = from /\ phase' = to /\ UNCHANGED status
Exit(from, rc) == phase = from /\ phase' = "exit" /\ status' = rc

Listed == {plugins[i] : i \in DOMAIN plugins}

------------------------------------------------------------------------------
(* Variants with a plausible slip each; not part of the specification. *)

SlipFailKeepsStart ==
  /\ Goto("read_dir", "parse")
  /\ live' = live \ Listed
  /\ UNCHANGED plugins

------------------------------------------------------------------------------
StartBus ==
  /\ \/ Goto("start_bus", "open_dir") /\ threads' = {"bus"}
     \/ Exit("start_bus", 1) /\ UNCHANGED threads
  /\ UNCHANGED <<loading, parsing>>

(* load_plugins: without the directory there are no plugins, ... *)
OpenDir ==
  /\ Goto("open_dir", "read_dir") \/ Goto("open_dir", "parse")
  /\ UNCHANGED <<loading, parsing, threads>>

(* ... an entry that is no file is left out (what stat() has not written   *)
(* is read for a link that leads nowhere, and may say anything), ...       *)
SkipEntry(f) ==
  /\ Goto("read_dir", "read_dir")
  /\ f \in present \ seen
  /\ Kind[f] \in {"directory", "dangling_link"}
  /\ seen' = seen \cup {f}
  /\ UNCHANGED <<present, plugins, live, opened, parsing, threads>>

(* ... a plugin goes to the end of the chain, ... *)
LoadPlugin(f) ==
  /\ Goto("read_dir", "read_dir")
  /\ f \in present \ seen
  /\ Kind[f] = "consumer"
  /\ seen' = seen \cup {f}
  /\ opened' = opened \cup {f}
  /\ live' = live \cup {f}
  /\ plugins' = Append(plugins, f)
  /\ UNCHANGED <<present, parsing, threads>>

(* free_plugin_chain(start); start = NULL; break *)
Fail ==
  /\ Goto("read_dir", "parse")
  /\ live' = live \ Listed
  /\ plugins' = <<>>

(* ... and any other file ends the loading.  Its own library is closed     *)
(* again; those of the plugins that are freed are not.                     *)
FailEntry(f) ==
  /\ f \in present \ seen
  /\ Kind[f] \notin {"directory", "consumer"}
  /\ seen' = seen \cup {f}
  /\ Fail
  /\ UNCHANGED <<present, opened, parsing, threads>>

EndDir ==
  /\ Goto("read_dir", "parse")
  /\ seen = present
  /\ UNCHANGED <<loading, parsing, threads>>

------------------------------------------------------------------------------
(* parse_chains_from_file *)

OpenFile ==
  /\ \/ Goto("parse", "chains") /\ \E c \in Configs : config' = c /\ rest' = c.text
     \/ Exit("parse", 1) /\ UNCHANGED <<config, rest>>
  /\ UNCHANGED <<loading, open, chains, parse, threads>>

(* plugins_to_link_map: a routine of the same name in a later plugin takes *)
(* the place of the one before.                                            *)
LinkMap ==
  LET exporting(name) == {i \in DOMAIN plugins : name \in {<<r>> : r \in Exports[plugins[i]]}}
      names == {n \in {<<r>> : r \in Routines} : exporting(n) # {}}
  IN  [name \in names |-> plugins[Max(exporting(name))]]

ReadChains ==
  /\ phase = "chains"
  /\ ReadStep(LinkMap)
  /\ UNCHANGED <<phase, loading, threads, status>>

ParseEnds ==
  /\ \/ parse = "done" /\ Goto("chains", "start_workers")
     \/ parse = "failed" /\ Exit("chains", 1)
     \/ parse = "crashed" /\ Goto("chains", "crashed")
     \/ parse = "undefined" /\ (Exit("chains", 1) \/ Goto("chains", "crashed"))
  /\ UNCHANGED <<loading, parsing, threads>>

------------------------------------------------------------------------------
(* create_chain_ctx, start_chain_ctx, parse_options and run_socket_ss.     *)
(* Whether the worker was created nobody asks, and the result of           *)
(* run_with_raw_socket is dropped.                                         *)
StartWorkers ==
  /\ Goto("start_workers", "options")
  /\ threads' \in {threads, threads \cup {"worker"}}
  /\ UNCHANGED <<loading, parsing>>

ParseOptions ==
  /\ Goto("options", "socket") \/ Exit("options", 1)
  /\ UNCHANGED <<loading, parsing, threads>>

OpenSocket ==
  /\ Goto("socket", "bind") \/ Exit("socket", 1)
  /\ UNCHANGED <<loading, parsing, threads>>

BindSocket ==
  /\ Goto("bind", "reading") \/ Exit("bind", 0)
  /\ UNCHANGED <<loading, parsing, threads>>

(* recvfrom returns -1: malloc(-1), memcpy(NULL, buffer, -1).  What happens *)
(* to a frame that was received is in Pipeline.                            *)
RecvFails ==
  /\ Goto("reading", "crashed")
  /\ UNCHANGED <<loading, parsing, threads>>

Next ==
  \/ StartBus \/ OpenDir
  \/ \E f \in Files : SkipEntry(f) \/ LoadPlugin(f) \/ FailEntry(f)
  \/ EndDir \/ OpenFile \/ ReadChains \/ ParseEnds
  \/ StartWorkers \/ ParseOptions \/ OpenSocket \/ BindSocket \/ RecvFails

Spec == Init /\ [][Next]_vars

------------------------------------------------------------------------------
(* Properties *)

(* The rules of the chain map and of the chains that are being read. *)
RulesRead ==
  LET of(rules) == {rules[i] : i \in DOMAIN rules}
  IN  (UNION {of(chains[n]) : n \in DOMAIN chains})
      \cup (UNION {of(open[i].rules) : i \in DOMAIN open})

(* main is at a line of its program, an octet of an address is a byte      *)
(* whatever the characters it was read from, and files, routines and       *)
(* threads are some that exist.                                            *)
TypeOK ==
  /\ phase \in {"start_bus", "open_dir", "read_dir", "parse", "chains", "start_workers",
                "options", "socket", "bind", "reading", "exit", "crashed"}
  /\ seen \subseteq present /\ present \subseteq Files
  /\ plugins \in Seq(Files)
  /\ live \subseteq opened /\ opened \subseteq seen
  /\ IsSuffix(rest, config.text)
  /\ parse \in {"reading", "done", "failed", "crashed", "undefined"}
  /\ \A r \in RulesRead :
       /\ r.words \in Seq(DOMAIN Word)
       /\ r.m_pattern \in [features : SUBSET {Feature[k] : k \in Keys}, addr : [Keys -> Mac]]
       /\ r.m_type \in Commands
       /\ r.call_fn \in Files \cup {NoFunction}
  /\ threads \subseteq {"bus", "worker"}
  /\ status \in {0, 1}

(* A configuration in the layout of example.conf is read as it was meant:  *)
(* the parse of a complete text succeeds if and only if the text is        *)
(* acceptable, fails with a message and an exit otherwise (it neither      *)
(* crashes nor reads freed memory), and a program that goes on has the     *)
(* chains that were written, each with its rules, their words and names.   *)
(* (Behind a left parenthesis, a space makes next_token_skip_space drop    *)
(* the words, and what follows up to the next right one with them.)        *)
ReadAsWritten ==
  Plain /\ config.whole =>
    /\ parse = "failed" => ~Acceptable(LinkMap)
    /\ parse \notin {"crashed", "undefined"}
    /\ parse = "done" =>
         /\ Acceptable(LinkMap)
         /\ [n \in DOMAIN chains |-> [i \in DOMAIN chains[n] |-> Meaning(chains[n][i])]]
              = config.chains

(* In the same layout, the program does not go on with a text that breaks  *)
(* off inside a chain, wherever it does: it exits, or it crashes.  (In     *)
(* another layout the words dropped behind a parenthesis may include the   *)
(* brace that opens a chain, and one that closes it is missed no more.)    *)
NoPartOfAChain == Plain /\ parse = "done" => config.whole

(* Plugins are loaded all or not at all: what is in the chain is allocated *)
(* and nothing else is, and a chain that main goes on with has all plugins *)
(* of the directory, in which there was nothing that failed to load.       *)
PluginsWhole ==
  /\ live = Listed /\ Cardinality(live) = Len(plugins)
  /\ phase \notin {"start_bus", "open_dir", "read_dir"} /\ plugins # <<>> =>
       /\ Listed = {f \in present : Kind[f] = "consumer"}
       /\ \A f \in present : Kind[f] \in {"consumer", "directory", "dangling_link"}

(* Once there are workers, each rule that calls has a function to call,    *)
(* and it is of a plugin that is still loaded: the last one that exports   *)
(* the name.                                                               *)
CallsLinked ==
  "worker" \in threads =>
    \A r \in RulesRead : r.m_type = <<"call">> =>
      \E p \in DOMAIN plugins :
        /\ r.call_fn = plugins[p] /\ plugins[p] \in opened
        /\ Last(r.name) \in Exports[plugins[p]]
        /\ \A q \in DOMAIN plugins : q > p => Last(r.name) \notin Exports[plugins[q]]

(* The addresses that the words name, and one that none of them does.      *)
SomeMacs == {Meant(v) : v \in {v \in {Word[w].value : w \in DOMAIN Word} : IsAddress(v)}}
            \cup {[i \in 1..Octets |-> 255]}

Ether == INSTANCE EtherChain WITH
  Macs <- Mac, Rules <- {}, NoRule <- 0, Rule <- <<>>, Rank <- <<>>

Words(r) == [i \in DOMAIN r.words |-> Word[r.words[i]]]

MatchesWhatIsMeant(r) ==
  LET compiled == [features |-> r.m_pattern.features,
                   src_mac_addr |-> r.m_pattern.addr["src_mac"],
                   dest_mac_addr |-> r.m_pattern.addr["dest_mac"]]
  IN  \A s, d \in SomeMacs :
        Ether!PacketMatchesPattern([ether_shost |-> s, ether_dhost |-> d], compiled)
          <=> MeantToMatch(Words(r), [src_mac |-> s, dest_mac |-> d])

(* A pattern, compiled word by word and then compared by                   *)
(* packet_matches_pattern, matches the frames its words name: the last     *)
(* address of each key counts, a value of another length sets nothing.     *)
(* example.conf:7 has an address like any other, 00:00:00:00:00:00.        *)
MatchesAsWritten ==
  \A r \in RulesRead :
    (\A i \in DOMAIN r.words : ~Damaged(Words(r)[i])) => MatchesWhatIsMeant(r)

(* The same for addresses without the digit 0, which from_hex rejects.     *)
MatchesWithoutZeros ==
  LET zero(v) == \E i \in DOMAIN v : v[i] = 48
  IN  \A r \in RulesRead :
        (\A i \in DOMAIN r.words : ~Damaged(Words(r)[i]) /\ ~zero(Words(r)[i].value))
          => MatchesWhatIsMeant(r)
==============================================================================
