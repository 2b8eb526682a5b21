-------------------------------- MODULE Tokens --------------------------------
(***************************************************************************)
(* src/chain_ss/chain.c: how the configuration is cut into tokens.  A text *)
(* is a sequence of items; an item is a sign of its own, a space for any   *)
(* run of white space, a word of letters and digits, or an underscore,     *)
(* which is of the class of the words: a name like _inner is the token     *)
(* <<"_", "inner">>.  A token is a sequence of items of the same class,    *)
(* and the empty sequence is the null pointer that stands for the end of   *)
(* the file.                                                               *)
(***************************************************************************)
EXTENDS Naturals, Sequences, FiniteSets

Space == " "
Underscore == "_"
Null == <<>>

------------------------------------------------------------------------------
(* Variants with a plausible slip each; not part of the specification. *)

SlipNotParen(item) == CASE item = ")" -> 1 [] item = Space -> 0 [] OTHER -> 3

------------------------------------------------------------------------------
default_class(item) ==
  CASE item = Space -> 0
    [] item = ";" -> 3
    [] item = "(" -> 4
    [] item = ")" -> 5
    [] item \in {"{", "}"} -> 2
    [] OTHER -> 1

not_paren(item) == IF item = ")" THEN 1 ELSE 3

(* The function that get_class points to *)
Class(get_class, item) ==
  IF get_class = "not_paren" THEN not_paren(item) ELSE default_class(item)

(* How far the first item's class goes. *)
OneClass(text, get_class) ==
  {k \in 1..Len(text) : \A i \in 1..k : Class(get_class, text[i]) = Class(get_class, text[1])}

(* What is read, and the text that is left. *)
next_token(text, get_class) ==
  LET k == Cardinality(OneClass(text, get_class))
  IN  [token |-> SubSeq(text, 1, k), rest |-> SubSeq(text, k + 1, Len(text))]

(* A token that starts with a space is dropped, with all that is in it, and *)
(* the one behind it is returned as it is.                                  *)
next_token_skip_space(text, get_class) ==
  LET t == next_token(text, get_class)
  IN  IF t.token # Null /\ t.token[1] = Space THEN next_token(t.rest, get_class) ELSE t
==============================================================================
