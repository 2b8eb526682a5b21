-------------------------------- MODULE Pattern --------------------------------
(***************************************************************************)
(* src/chain_ss/chain.c: from the text between the parentheses of a rule   *)
(* to its struct pattern.  A text is a sequence of words; a word is a      *)
(* handle, or a key and a value; a value is a sequence of characters, by   *)
(* their ASCII codes.                                                      *)
(***************************************************************************)
EXTENDS Naturals, Sequences, FiniteSets

CONSTANT Octets   \* 6: the octets of a MAC address

Mac == [1..Octets -> 0..255]
Keys == {"src_mac", "dest_mac"}
Feature == [src_mac |-> "HAS_SRC_MAC_ADDR", dest_mac |-> "HAS_DEST_MAC_ADDR"]
Colon == 58

(* calloc *)
NewPattern == [features |-> {}, addr |-> [k \in Keys |-> [i \in 1..Octets |-> 0]]]

------------------------------------------------------------------------------
(* Variants with a plausible slip each; not part of the specification. *)

SlipFromHexNoTen(ch) ==
  CASE 48 < ch /\ ch < 64 -> ch - 48
    [] 65 <= ch /\ ch <= 70 -> ch - 65
    [] 97 <= ch /\ ch <= 102 -> ch - 97
    [] OTHER -> 255

SlipByteAny(n) == n

------------------------------------------------------------------------------
FromHex(ch) ==
  CASE 48 < ch /\ ch < 64 -> ch - 48
    [] 65 <= ch /\ ch <= 70 -> ch - 65 + 10
    [] 97 <= ch /\ ch <= 102 -> ch - 97 + 10
    [] OTHER -> 255

(* A number stored in a u8_t. *)
Byte(n) == n % 256

Octet(v, i) == Byte(Byte(FromHex(v[3*i - 2]) * 16) + FromHex(v[3*i - 1]))

LengthOfAddress(v) == Len(v) = 3 * Octets - 1
NoColon(v) == {i \in 1..(Octets - 1) : v[3*i] # Colon}

(* parse_mac_addr looks at the octets from the left and stores each before *)
(* it looks at the separator behind it.                                    *)
Stored(v) ==
  IF LengthOfAddress(v)
  THEN {i \in 1..Octets : \A j \in 1..(i - 1) : j \notin NoColon(v)}
  ELSE {}

Parses(v) == LengthOfAddress(v) /\ NoColon(v) = {}

(* add_key_to_pattern: an unknown key, or an address that does not parse,  *)
(* is reported and sets no feature.                                        *)
AddKeyToPattern(pat, key, v) ==
  IF key \notin Keys THEN pat
  ELSE [features |-> pat.features \cup (IF Parses(v) THEN {Feature[key]} ELSE {}),
        addr |-> [pat.addr EXCEPT ![key] =
                    [i \in 1..Octets |-> IF i \in Stored(v) THEN Octet(v, i) ELSE @[i]]]]

------------------------------------------------------------------------------
(* What is meant by a pattern *)

Digits == (48..57) \cup (65..70) \cup (97..102)
Digit[ch \in Digits] ==
  ch - (IF ch < 65 THEN 48 ELSE IF ch < 97 THEN 65 - 10 ELSE 97 - 10)

IsAddress(v) ==
  Parses(v) /\ \A i \in 1..Octets : v[3*i - 2] \in Digits /\ v[3*i - 1] \in Digits
Meant(v) ==
  [i \in 1..Octets |-> 16 * Digit[v[3*i - 2]] + Digit[v[3*i - 1]]]

(* Frames are compared with the addresses of their last good word. *)
MeantToMatch(words, addrs) ==
  \A k \in Keys :
    LET good == {i \in DOMAIN words : words[i].key = k /\ IsAddress(words[i].value)}
    IN  \A i \in good : (\A j \in good : j <= i) => addrs[k] = Meant(words[i].value)

(* As long as an address, but not one. *)
Damaged(word) ==
  word.key \in Keys /\ LengthOfAddress(word.value) /\ ~IsAddress(word.value)
==============================================================================
