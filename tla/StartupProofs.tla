----------------------------- MODULE StartupProofs -----------------------------
(***************************************************************************)
(* Theorems about Startup for any directory, any plugins and any texts,    *)
(* and about the patterns that the texts define, for addresses of any      *)
(* length.                                                                 *)
(***************************************************************************)
EXTENDS Startup, SequenceTheorems, FiniteSetTheorems, WellFoundedInduction, TLAPS

PatternType ==
  [features : SUBSET {Feature[k] : k \in Keys}, addr : [Keys -> Mac]]

(* What is stored in a u8_t is a byte. *)
LEMMA ByteIsByte == ASSUME NEW n \in Nat PROVE Byte(n) \in 0..255
BY DEF Byte

LEMMA FromHexIsByte == ASSUME NEW ch \in Nat PROVE FromHex(ch) \in 0..255
BY DEF FromHex

(* The digits from_hex knows: all but 0. *)
LEMMA FromHexIsDigit ==
  ASSUME NEW ch \in Digits, ch # 48
  PROVE  FromHex(ch) = Digit[ch] /\ Digit[ch] \in 0..15
<1>1. CASE ch \in 49..57
  BY <1>1 DEF FromHex, Digit, Digits
<1>2. CASE ch \in 65..70
  BY <1>2 DEF FromHex, Digit, Digits
<1>3. CASE ch \in 97..102
  BY <1>3 DEF FromHex, Digit, Digits
<1> QED BY <1>1, <1>2, <1>3 DEF Digits

(* The characters of octet i are characters of a value that is as long as  *)
(* an address.                                                             *)
LEMMA CharsOfOctet ==
  ASSUME Octets \in Nat \ {0}, NEW v \in Seq(Nat), LengthOfAddress(v),
         NEW i \in 1..Octets
  PROVE  v[3*i - 2] \in Nat /\ v[3*i - 1] \in Nat
<1>1. 3*i - 2 \in 1..Len(v) /\ 3*i - 1 \in 1..Len(v)
  BY DEF LengthOfAddress
<1> QED BY <1>1

(* Whatever the words of a pattern, its octets stay bytes and its features *)
(* known ones (add_key_to_pattern, parse_mac_addr).                        *)
THEOREM PatternTyped ==
  ASSUME Octets \in Nat \ {0}, NEW pat \in PatternType, NEW key, NEW v \in Seq(Nat)
  PROVE  AddKeyToPattern(pat, key, v) \in PatternType
<1>1. CASE key \notin Keys
  BY <1>1 DEF AddKeyToPattern
<1>2. CASE key \in Keys
  <2> DEFINE mac == [i \in 1..Octets |-> IF i \in Stored(v) THEN Octet(v, i)
                                                            ELSE pat.addr[key][i]]
  <2>1. ASSUME NEW i \in 1..Octets
        PROVE  (IF i \in Stored(v) THEN Octet(v, i) ELSE pat.addr[key][i]) \in 0..255
    <3>1. CASE i \in Stored(v)
      <4>1. v[3*i - 2] \in Nat /\ v[3*i - 1] \in Nat
        BY <3>1, CharsOfOctet DEF Stored
      <4> DEFINE hi == FromHex(v[3*i - 2])
                 lo == FromHex(v[3*i - 1])
      <4>2. hi \in 0..255 /\ lo \in 0..255
        BY <4>1, FromHexIsByte
      <4> HIDE DEF hi, lo
      <4> DEFINE high == Byte(hi * 16)
      <4>3. high \in 0..255
        <5>1. hi * 16 \in Nat
          BY <4>2
        <5> QED BY <5>1, ByteIsByte
      <4> HIDE DEF high
      <4>4. high + lo \in Nat
        BY <4>2, <4>3
      <4>5. Byte(high + lo) \in 0..255
        BY <4>4, ByteIsByte
      <4> QED BY <3>1, <4>5 DEF Octet, high, hi, lo
    <3>2. CASE i \notin Stored(v)
      <4>1. pat.addr \in [Keys -> Mac]
        BY DEF PatternType
      <4>2. pat.addr[key] \in [1..Octets -> 0..255]
        BY <1>2, <4>1 DEF Mac
      <4> QED BY <3>2, <4>2
    <3> QED BY <3>1, <3>2
  <2>2. mac \in Mac
    BY <2>1 DEF Mac
  <2>3. [pat.addr EXCEPT ![key] = mac] \in [Keys -> Mac]
    BY <1>2, <2>2 DEF PatternType
  <2>4. pat.features \cup (IF Parses(v) THEN {Feature[key]} ELSE {})
          \in SUBSET {Feature[k] : k \in Keys}
    BY <1>2 DEF PatternType
  <2> QED BY <1>2, <2>3, <2>4 DEF AddKeyToPattern, PatternType
<1> QED BY <1>1, <1>2

(* An address without the digit 0 is stored as what it means: for any      *)
(* number of octets, the shifts and sums in a u8_t lose nothing.           *)
THEOREM AddressReadAsMeant ==
  ASSUME Octets \in Nat \ {0}, NEW pat \in PatternType, NEW key \in Keys,
         NEW v \in Seq(Nat), IsAddress(v), \A i \in DOMAIN v : v[i] # 48
  PROVE  AddKeyToPattern(pat, key, v) =
           [features |-> pat.features \cup {Feature[key]},
            addr |-> [pat.addr EXCEPT ![key] = Meant(v)]]
<1>1. Parses(v) /\ LengthOfAddress(v) /\ Stored(v) = 1..Octets
  BY DEF IsAddress, Parses, Stored
<1>2. ASSUME NEW i \in 1..Octets
      PROVE  Octet(v, i) = 16 * Digit[v[3*i - 2]] + Digit[v[3*i - 1]]
  <2>1. 3*i - 2 \in DOMAIN v /\ 3*i - 1 \in DOMAIN v
    BY <1>1 DEF LengthOfAddress
  <2>2. v[3*i - 2] \in Digits \ {48} /\ v[3*i - 1] \in Digits \ {48}
    BY <2>1 DEF IsAddress
  <2> DEFINE hi == Digit[v[3*i - 2]]
             lo == Digit[v[3*i - 1]]
  <2>3. hi \in 0..15 /\ lo \in 0..15
    BY <2>2, FromHexIsDigit
  <2>4. Octet(v, i) = Byte(Byte(hi * 16) + lo)
    BY <2>2, FromHexIsDigit DEF Octet
  <2> HIDE DEF hi, lo
  <2>5. Byte(Byte(hi * 16) + lo) = 16 * hi + lo
    BY <2>3 DEF Byte
  <2> QED BY <2>4, <2>5 DEF hi, lo
<1>3. [i \in 1..Octets |-> IF i \in Stored(v) THEN Octet(v, i) ELSE pat.addr[key][i]]
        = Meant(v)
  BY <1>1, <1>2 DEF Meant
<1> QED BY <1>1, <1>3 DEF AddKeyToPattern, PatternType

------------------------------------------------------------------------------
(* Patterns, word by word *)

(* A set of numbers that is not empty has a least one. *)
LEMMA LeastNumber ==
  ASSUME NEW T \in SUBSET Nat, T # {}
  PROVE  \E n \in T : \A m \in T : n <= m
<1> DEFINE less == OpToRel(<, Nat)
<1>1. ASSUME NEW x \in Nat, NEW y \in Nat PROVE <<y, x>> \in less <=> y < x
  BY DEF OpToRel
<1>2. PICK n \in T : \A m \in T : ~ (<<m, n>> \in less)
  BY NatLessThanWellFounded, WFMin
<1>3. ASSUME NEW m \in T PROVE n <= m
  <2>1. m \in Nat /\ n \in Nat
    OBVIOUS
  <2>2. ~ (m < n)
    BY <1>1, <1>2, <2>1
  <2> QED BY <2>1, <2>2
<1> QED BY <1>2, <1>3

(* A set of numbers up to a bound that is not empty has a greatest one. *)
LEMMA GreatestNumber ==
  ASSUME NEW n \in Nat, NEW S \in SUBSET (1..n), S # {}
  PROVE  Max(S) \in S /\ \A x \in S : x <= Max(S)
<1> DEFINE less == OpToRel(<, Nat)
           T == {k \in Nat : \A x \in S : x <= k}
<1>1. ASSUME NEW x \in Nat, NEW y \in Nat PROVE <<y, x>> \in less <=> y < x
  BY DEF OpToRel
<1>2. n \in T
  OBVIOUS
<1>3. PICK k \in T : \A m \in T : ~ (<<m, k>> \in less)
  BY <1>2, NatLessThanWellFounded, WFMin
<1>4. k \in S
  <2> SUFFICES ASSUME k \notin S PROVE FALSE
    OBVIOUS
  <2>1. k \in Nat /\ \A x \in S : x \in 1..n /\ x <= k /\ x # k
    BY <1>3
  <2>2. k - 1 \in Nat /\ k - 1 < k
    <3>1. PICK x \in S : x \in 1..n /\ x <= k
      BY <2>1
    <3> QED BY <2>1, <3>1
  <2>3. \A x \in S : x <= k - 1
    BY <2>1, <2>2
  <2>4. k - 1 \in T
    BY <2>2, <2>3
  <2>5. <<k - 1, k>> \in less
    <3> HIDE DEF less
    <3> QED BY <1>1, <2>1, <2>2
  <2> QED BY <1>3, <2>4, <2>5
<1>5. \A x \in S : k >= x
  BY <1>3
<1>6. Max(S) \in S /\ \A x \in S : Max(S) >= x
  BY <1>4, <1>5 DEF Max
<1> QED BY <1>6

(* The loop of compile_pattern: what a word does, *)
Compiling(p, w) ==
  IF w \notin DOMAIN Word THEN p
  ELSE [words |-> Append(p.words, w),
        pat |-> AddKeyToPattern(p.pat, Word[w].key, Word[w].value)]

(* ... and what F, the function of its rounds, has for i of them. *)
Round(F, token, i) ==
  IF i = 0 THEN [words |-> <<>>, pat |-> NewPattern] ELSE Compiling(F[i - 1], token[i])

Rounds(F, token, n) == F = [i \in 0..n |-> Round(F, token, i)]

LEMMA RoundsExist ==
  ASSUME NEW token, NEW n \in Nat
  PROVE  \E F : Rounds(F, token, n)
<1> DEFINE T == {k \in Nat : ~ \E F : Rounds(F, token, k)}
<1> SUFFICES ASSUME T # {} PROVE FALSE
  OBVIOUS
<1>1. PICK k \in T : \A m \in T : k <= m
  BY LeastNumber
<1>2. CASE k = 0
  <2> DEFINE F == [i \in 0..0 |-> [words |-> <<>>, pat |-> NewPattern]]
  <2>1. \A i \in 0..0 : Round(F, token, i) = [words |-> <<>>, pat |-> NewPattern]
    BY DEF Round
  <2>2. F = [i \in 0..0 |-> Round(F, token, i)]
    BY <2>1
  <2> QED BY <1>1, <1>2, <2>2 DEF Rounds
<1>3. CASE k # 0
  <2>1. k - 1 \in Nat /\ k - 1 \notin T
    BY <1>1, <1>3
  <2>2. PICK G : Rounds(G, token, k - 1)
    BY <2>1
  <2> DEFINE F == [i \in 0..k |-> IF i = k THEN Round(G, token, k) ELSE G[i]]
  <2>3. \A i \in 0..k : i # 0 => F[i - 1] = G[i - 1]
    BY <2>1
  <2>4. \A i \in 0..k : Round(F, token, i) = Round(G, token, i)
    <3> HIDE DEF F
    <3> QED BY <2>3 DEF Round
  <2>5. \A i \in 0..(k - 1) : G[i] = Round(G, token, i)
    BY <2>2 DEF Rounds
  <2>6. \A i \in 0..k : F[i] = Round(F, token, i)
    BY <2>1, <2>4, <2>5
  <2>7. F = [i \in 0..k |-> F[i]]
    OBVIOUS
  <2>8. F = [i \in 0..k |-> Round(F, token, i)]
    <3> HIDE DEF F
    <3> QED BY <2>6, <2>7
  <2> QED BY <1>1, <2>8 DEF Rounds
<1> QED BY <1>2, <1>3

(* The recursive definition in compile_pattern defines what it says. *)
LEMMA CompiledByRounds ==
  ASSUME NEW S, NEW token \in Seq(S)
  PROVE  \E F : Rounds(F, token, Len(token)) /\ compile_pattern(token) = F[Len(token)]
<1> DEFINE f == CHOOSE F : Rounds(F, token, Len(token))
<1>1. Rounds(f, token, Len(token))
  BY RoundsExist, LenProperties
<1>2. compile_pattern(token) = f[Len(token)]
  BY DEF compile_pattern, Rounds, Round, Compiling
<1> QED BY <1>1, <1>2

(* The words of key k that are addresses. *)
Named(words, k) ==
  {i \in DOMAIN words : Word[words[i]].key = k /\ IsAddress(Word[words[i]].value)}

ReadRight(word) == ~Damaged(word) /\ \A i \in DOMAIN word.value : word.value[i] # 48

(* If no word is damaged or has a zero, a pattern asks for the last of     *)
(* these addresses, if there is one.                                       *)
AsksFor(words, pat, k) ==
  /\ Feature[k] \in pat.features <=> Named(words, k) # {}
  /\ \A i \in Named(words, k) :
       (\A j \in Named(words, k) : j <= i) => pat.addr[k] = Meant(Word[words[i]].value)

Means(words, pat) ==
  (\A i \in DOMAIN words : ReadRight(Word[words[i]])) =>
    \A k \in Keys : AsksFor(words, pat, k)

CompiledWell(p) ==
  /\ p.words \in Seq(DOMAIN Word)
  /\ p.pat \in PatternType
  /\ Means(p.words, p.pat)

LEMMA NothingCompiled ==
  ASSUME NEW p, p = [words |-> <<>>, pat |-> NewPattern]
  PROVE  CompiledWell(p)
<1>1. NewPattern \in PatternType
  BY StartupAssumption DEF NewPattern, PatternType, Mac, Feature, Keys
<1>2. \A k \in Keys : Named(<<>>, k) = {}
  BY DEF Named
<1>3. Means(<<>>, NewPattern)
  BY <1>2 DEF Means, AsksFor, NewPattern
<1> QED BY <1>1, <1>3 DEF CompiledWell

(* A word of key k that is no address and not damaged changes nothing. *)
LEMMA NoAddress ==
  ASSUME NEW pat \in PatternType, NEW key \in Keys, NEW v, ~LengthOfAddress(v)
  PROVE  /\ AddKeyToPattern(pat, key, v).features = pat.features
         /\ \A k \in Keys : AddKeyToPattern(pat, key, v).addr[k] = pat.addr[k]
<1>1. pat.addr \in [Keys -> Mac] /\ Stored(v) = {} /\ ~Parses(v)
  BY DEF PatternType, Stored, Parses
<1>2. pat.addr[key] = [i \in 1..Octets |-> pat.addr[key][i]]
  BY <1>1 DEF Mac
<1>3. [i \in 1..Octets |-> IF i \in Stored(v) THEN Octet(v, i) ELSE pat.addr[key][i]]
        = pat.addr[key]
  BY <1>1, <1>2
<1>4. AddKeyToPattern(pat, key, v)
        = [features |-> pat.features \cup {}, addr |-> [pat.addr EXCEPT ![key] = pat.addr[key]]]
  BY <1>1, <1>3 DEF AddKeyToPattern
<1> QED BY <1>1, <1>4

LEMMA WordCompiled ==
  ASSUME NEW p, CompiledWell(p), NEW w
  PROVE  CompiledWell(Compiling(p, w))
<1>1. CASE w \notin DOMAIN Word
  BY <1>1 DEF Compiling
<1>2. CASE w \in DOMAIN Word
  <2>1. PICK words, pat, key, v : /\ words = p.words /\ pat = p.pat
                                  /\ key = Word[w].key /\ v = Word[w].value
    OBVIOUS
  <2>2. PICK more, new : more = Append(words, w) /\ new = AddKeyToPattern(pat, key, v)
    OBVIOUS
  <2>3. Compiling(p, w) = [words |-> more, pat |-> new]
    BY <1>2, <2>1, <2>2 DEF Compiling
  <2>4. words \in Seq(DOMAIN Word) /\ pat \in PatternType /\ Means(words, pat)
    BY <2>1 DEF CompiledWell
  <2>5. /\ more \in Seq(DOMAIN Word) /\ Len(words) \in Nat /\ DOMAIN words = 1..Len(words)
        /\ DOMAIN more = 1..(Len(words) + 1)
        /\ \A i \in 1..Len(words) : more[i] = words[i]
        /\ more[Len(words) + 1] = w
    BY <1>2, <2>2, <2>4, AppendProperties, LenProperties
  <2>6. v \in Seq(Nat)
    <3>1. v \in Seq(0..127)
      BY <1>2, <2>1, StartupAssumption
    <3>2. 0..127 \subseteq Nat
      OBVIOUS
    <3> QED BY <3>1, <3>2, SeqMonotonic
  <2>7. new \in PatternType
    BY <2>2, <2>4, <2>6, PatternTyped, StartupAssumption
  <2>8. ASSUME \A i \in DOMAIN more : ReadRight(Word[more[i]]), NEW k \in Keys
        PROVE  AsksFor(more, new, k)
    <3>1. AsksFor(words, pat, k)
      <4>1. \A i \in DOMAIN words : i \in DOMAIN more /\ words[i] = more[i]
        BY <2>5
      <4>2. \A i \in DOMAIN words : ReadRight(Word[words[i]])
        BY <2>8, <4>1
      <4> QED BY <2>4, <4>2 DEF Means
    <3>2. /\ Word[w].key = key /\ Word[w].value = v
          /\ ReadRight(Word[w])
      <4>1. Len(words) + 1 \in DOMAIN more
        BY <2>5
      <4> QED BY <2>1, <2>5, <2>8, <4>1
    <3>3. PICK n \in Nat : n = Len(words)
      BY <2>5
    <3>4. Named(words, k) \subseteq 1..n
      BY <2>5, <3>3 DEF Named
    <3>5. \A i \in Named(words, k) : i \in 1..n /\ more[i] = words[i]
      BY <2>5, <3>3, <3>4
    <3>6. CASE key = k /\ IsAddress(v)
      <4>1. Named(more, k) = Named(words, k) \cup {n + 1}
        <5>1. \A i \in 1..(n + 1) : i \in 1..n \/ i = n + 1
          BY <3>3
        <5> QED BY <2>5, <3>2, <3>3, <3>6, <5>1 DEF Named
      <4>2. new = [features |-> pat.features \cup {Feature[k]},
                   addr |-> [pat.addr EXCEPT ![k] = Meant(v)]]
        <5>1. \A i \in DOMAIN v : v[i] # 48
          BY <3>2 DEF ReadRight
        <5> QED BY <2>2, <2>4, <2>6, <3>6, <5>1, AddressReadAsMeant, StartupAssumption
      <4>3. Feature[k] \in new.features /\ new.addr[k] = Meant(v)
        BY <2>4, <4>2 DEF PatternType
      <4>4. \A i \in Named(more, k) : (\A j \in Named(more, k) : j <= i) => i = n + 1
        <5>1. \A i \in Named(more, k) : i \in 1..n \/ i = n + 1
          BY <3>4, <4>1
        <5>2. n + 1 \in Named(more, k)
          BY <4>1
        <5> QED BY <5>1, <5>2
      <4>5. more[n + 1] = w
        BY <2>5, <3>3
      <4> QED BY <3>2, <4>1, <4>3, <4>4, <4>5 DEF AsksFor
    <3>7. CASE ~(key = k /\ IsAddress(v))
      <4>1. Named(more, k) = Named(words, k)
        <5>1. \A i \in 1..(n + 1) : i \in 1..n \/ i = n + 1
          BY <3>3
        <5>2. n + 1 \notin Named(more, k)
          BY <2>5, <3>2, <3>3, <3>7 DEF Named
        <5>3. \A i \in 1..n : i \in DOMAIN more /\ i \in DOMAIN words /\ more[i] = words[i]
          BY <2>5, <3>3
        <5>4. \A i \in Named(more, k) : i \in 1..n
          BY <2>5, <3>3, <5>1, <5>2 DEF Named
        <5>5. \A i \in 1..n : i \in Named(more, k) <=> i \in Named(words, k)
          BY <5>3 DEF Named
        <5> QED BY <3>4, <5>4, <5>5
      <4>2. /\ Feature[k] \in new.features <=> Feature[k] \in pat.features
            /\ new.addr[k] = pat.addr[k]
        <5>1. CASE key \notin Keys
          BY <2>2, <5>1 DEF AddKeyToPattern
        <5>2. CASE key \in Keys /\ key = k
          <6>1. ~LengthOfAddress(v)
            BY <3>2, <3>7, <5>2 DEF ReadRight, Damaged
          <6> QED BY <2>2, <2>4, <5>2, <6>1, NoAddress
        <5>3. CASE key \in Keys /\ key # k
          <6>1. Feature[key] # Feature[k]
            BY <5>3 DEF Feature, Keys
          <6>2. PICK mac : new.addr = [pat.addr EXCEPT ![key] = mac]
            BY <2>2, <5>3 DEF AddKeyToPattern
          <6>3. new.addr[k] = pat.addr[k]
            BY <2>4, <5>3, <6>2 DEF PatternType
          <6>4. \/ new.features = pat.features
                \/ new.features = pat.features \cup {Feature[key]}
            BY <2>2, <5>3 DEF AddKeyToPattern
          <6> QED BY <6>1, <6>3, <6>4
        <5> QED BY <5>1, <5>2, <5>3
      <4> QED BY <3>1, <3>5, <4>1, <4>2 DEF AsksFor
    <3> QED BY <3>6, <3>7
  <2>9. Means(more, new)
    BY <2>8 DEF Means
  <2> QED BY <2>3, <2>5, <2>7, <2>9 DEF CompiledWell
<1> QED BY <1>1, <1>2

(* Whatever stands in the parentheses of a rule. *)
LEMMA PatternCompiled ==
  ASSUME NEW S, NEW token \in Seq(S)
  PROVE  CompiledWell(compile_pattern(token))
<1>1. PICK n \in Nat : n = Len(token)
  BY LenProperties
<1>2. PICK F : Rounds(F, token, n) /\ compile_pattern(token) = F[n]
  BY <1>1, CompiledByRounds
<1>3. \A i \in 0..n : F[i] = Round(F, token, i)
  BY <1>2 DEF Rounds
<1> DEFINE T == {i \in 0..n : ~CompiledWell(F[i])}
<1>4. T = {}
  <2> SUFFICES ASSUME T # {} PROVE FALSE
    OBVIOUS
  <2>1. PICK k \in T : \A m \in T : k <= m
    <3>1. T \in SUBSET Nat
      BY <1>1
    <3> QED BY <3>1, LeastNumber
  <2>2. CASE k = 0
    BY <1>3, <2>1, <2>2, NothingCompiled DEF Round
  <2>3. CASE k # 0
    <3>1. k - 1 \in 0..n /\ k - 1 \notin T
      BY <2>1, <2>3
    <3>2. CompiledWell(F[k - 1])
      BY <3>1
    <3>3. F[k] = Compiling(F[k - 1], token[k])
      BY <1>3, <2>1, <2>3 DEF Round
    <3> QED BY <2>1, <3>2, <3>3, WordCompiled
  <2> QED BY <2>2, <2>3
<1> QED BY <1>1, <1>2, <1>4

------------------------------------------------------------------------------
(* The loading of plugins *)

Harmless == {"consumer", "directory", "dangling_link"}

(* The chain has the plugins of the entries that were looked at; after the *)
(* loop it has those of the directory, or nothing.                         *)
Loaded ==
  /\ plugins \in Seq(Files)
  /\ live = Listed /\ IsFiniteSet(live) /\ Cardinality(live) = Len(plugins)
  /\ live \subseteq opened /\ opened \subseteq seen /\ seen \subseteq present
  /\ present \subseteq Files
  /\ phase \in {"start_bus", "open_dir"} => plugins = <<>> /\ seen = {}
  /\ phase = "read_dir" =>
       /\ Listed = {f \in seen : Kind[f] = "consumer"}
       /\ \A f \in seen : Kind[f] \in Harmless
  /\ phase \notin {"start_bus", "open_dir", "read_dir"} /\ plugins # <<>> =>
       /\ Listed = {f \in present : Kind[f] = "consumer"}
       /\ \A f \in present : Kind[f] \in Harmless

LEMMA InitLoaded == Init => Loaded
<1> SUFFICES ASSUME Init PROVE Loaded
  OBVIOUS
<1>1. plugins \in Seq(Files) /\ Len(plugins) = 0 /\ Listed = {}
  BY DEF Init, Listed
<1>2. IsFiniteSet({}) /\ Cardinality({}) = 0
  BY FS_EmptySet
<1> QED BY <1>1, <1>2 DEF Init, Loaded

(* The steps after the loop, and those before it, leave the plugins alone. *)
LEMMA OthersLoaded ==
  ASSUME Loaded, UNCHANGED loading,
         \/ UNCHANGED phase
         \/ phase \in {"start_bus", "open_dir"}
         \/ phase = "read_dir" /\ seen = present /\ phase' = "parse"
         \/ /\ phase \notin {"start_bus", "open_dir", "read_dir"}
            /\ phase' \notin {"start_bus", "open_dir", "read_dir"}
  PROVE  Loaded'
BY DEF Loaded, loading, Listed

LEMMA LoadPluginLoaded ==
  ASSUME Loaded, NEW f \in Files, LoadPlugin(f)
  PROVE  Loaded'
<1>1. /\ phase = "read_dir" /\ phase' = "read_dir" /\ f \in present /\ f \notin seen
      /\ Kind[f] = "consumer" /\ seen' = seen \cup {f} /\ opened' = opened \cup {f}
      /\ live' = live \cup {f} /\ plugins' = Append(plugins, f) /\ present' = present
  BY DEF LoadPlugin, Goto
<1>2. f \notin live
  BY <1>1 DEF Loaded
<1>3. /\ plugins' \in Seq(Files) /\ Len(plugins') = Len(plugins) + 1
      /\ Len(plugins) \in Nat /\ DOMAIN plugins = 1..Len(plugins)
      /\ DOMAIN plugins' = 1..(Len(plugins) + 1)
      /\ \A i \in 1..Len(plugins) : plugins'[i] = plugins[i]
      /\ plugins'[Len(plugins) + 1] = f
  BY <1>1, AppendProperties, LenProperties DEF Loaded
<1>4. Listed' = Listed \cup {f}
  <2> DEFINE S == {plugins'[i] : i \in DOMAIN plugins'}
  <2>1. \A x \in S : x \in Listed \cup {f}
    BY <1>3 DEF Listed
  <2>2. \A x \in Listed \cup {f} : x \in S
    BY <1>3 DEF Listed
  <2> QED BY <2>1, <2>2 DEF Listed
<1>5. IsFiniteSet(live') /\ Cardinality(live') = Cardinality(live) + 1
  BY <1>1, <1>2, FS_AddElement DEF Loaded
<1> QED BY <1>1, <1>3, <1>4, <1>5 DEF Loaded, Harmless

LEMMA FailEntryLoaded ==
  ASSUME Loaded, NEW f \in Files, FailEntry(f)
  PROVE  Loaded'
<1>1. /\ phase' = "parse" /\ plugins' = <<>> /\ live' = {}
      /\ seen' = seen \cup {f} /\ f \in present /\ opened' = opened /\ present' = present
  BY DEF FailEntry, Fail, Goto, Loaded
<1>2. plugins' \in Seq(Files) /\ Len(plugins') = 0 /\ Listed' = {}
  BY <1>1 DEF Listed
<1>3. IsFiniteSet({}) /\ Cardinality({}) = 0
  BY FS_EmptySet
<1> QED BY <1>1, <1>2, <1>3 DEF Loaded

LEMMA StepLoaded == Loaded /\ [Next]_vars => Loaded'
<1> SUFFICES ASSUME Loaded, [Next]_vars PROVE Loaded'
  OBVIOUS
<1>1. CASE UNCHANGED vars
  BY <1>1, OthersLoaded DEF vars
<1>2. CASE StartBus \/ OpenDir
  BY <1>2, OthersLoaded DEF StartBus, OpenDir, Goto, Exit
<1>3. ASSUME NEW f \in Files, SkipEntry(f) PROVE Loaded'
  BY <1>3 DEF SkipEntry, Goto, Loaded, Listed, Harmless
<1>4. ASSUME NEW f \in Files, LoadPlugin(f) PROVE Loaded'
  BY <1>4, LoadPluginLoaded
<1>5. ASSUME NEW f \in Files, FailEntry(f) PROVE Loaded'
  BY <1>5, FailEntryLoaded
<1>6. CASE EndDir
  BY <1>6, OthersLoaded DEF EndDir, Goto
<1>7. CASE OpenFile \/ ReadChains \/ ParseEnds
  BY <1>7, OthersLoaded DEF OpenFile, ReadChains, ParseEnds, Goto, Exit
<1>8. CASE StartWorkers \/ ParseOptions \/ OpenSocket \/ BindSocket \/ RecvFails
  BY <1>8, OthersLoaded DEF StartWorkers, ParseOptions, OpenSocket, BindSocket, RecvFails,
                            Goto, Exit
<1> QED BY <1>1, <1>2, <1>3, <1>4, <1>5, <1>6, <1>7, <1>8 DEF Next

(* plugin_ss.c loads all plugins of a directory or none, whatever is in it *)
(* and in whatever order readdir returns it: what is in the chain is       *)
(* allocated once, and nothing else is.                                    *)
THEOREM AllOrNothing == Spec => []PluginsWhole
<1>1. Loaded => PluginsWhole
  BY DEF Loaded, PluginsWhole, Harmless
<1> QED BY <1>1, InitLoaded, StepLoaded, PTL DEF Spec

------------------------------------------------------------------------------
(* The linking of calls *)

Early == {"start_bus", "open_dir", "read_dir", "parse"}

(* A struct chain_rule, whatever its fields hold *)
IsRule(r) ==
  r = [words |-> r.words, m_pattern |-> r.m_pattern, m_type |-> r.m_type,
       name |-> r.name, call_fn |-> r.call_fn]

OpenChains(N, R) == [name : N, rules : Seq(R)]

LinkedTo(r, linkMap) ==
  r.m_type = <<"call">> => r.name \in DOMAIN linkMap /\ r.call_fn = linkMap[r.name]

(* What is being read are rules; what has been read is linked to plugins   *)
(* that main does not change any more; and a worker comes after that.      *)
ReadSoFar ==
  /\ phase \in Early => chains = <<>> /\ open = <<>>
  /\ phase \in {"start_workers", "options", "socket", "bind", "reading"} => parse = "done"
  /\ parse = "done" => open = <<>>
  /\ "worker" \in threads => parse = "done"
  /\ \E N, R : (\A r \in R : IsRule(r)) /\ open \in Seq(OpenChains(N, R))
  /\ \A n \in DOMAIN chains : \A i \in DOMAIN chains[n] : LinkedTo(chains[n][i], LinkMap)

LEMMA PushAt ==
  ASSUME NEW S, NEW s \in Seq(S), NEW x \in S
  PROVE  <<x>> \o s \in Seq(S)
<1>1. <<x>> \in Seq(S)
  OBVIOUS
<1> QED BY <1>1, ConcatProperties

LEMMA TailAt ==
  ASSUME NEW S, NEW s \in Seq(S), s # <<>>
  PROVE  /\ Tail(s) \in Seq(S) /\ Head(s) \in S /\ Head(s) = s[1] /\ 1 \in DOMAIN s
BY HeadTailProperties, LenProperties, EmptySeq

LEMMA LargerChains ==
  ASSUME NEW N, NEW R, NEW M, NEW Q, N \subseteq M, R \subseteq Q,
         NEW s \in Seq(OpenChains(N, R))
  PROVE  s \in Seq(OpenChains(M, Q))
<1>1. Seq(R) \subseteq Seq(Q)
  BY SeqMonotonic
<1>2. OpenChains(N, R) \subseteq OpenChains(M, Q)
  BY <1>1 DEF OpenChains
<1> QED BY <1>2, SeqMonotonic

LEMMA InitReadSoFar == Init => ReadSoFar
<1> SUFFICES ASSUME Init PROVE ReadSoFar
  OBVIOUS
<1>1. open = <<>> /\ chains = <<>> /\ parse = "reading" /\ phase = "start_bus" /\ threads = {}
  BY DEF Init, InitParsing
<1>2. open \in Seq(OpenChains({}, {})) /\ \A r \in {} : IsRule(r)
  BY <1>1
<1>3. DOMAIN chains = {}
  BY <1>1
<1> QED BY <1>1, <1>2, <1>3 DEF ReadSoFar, Early

(* EnterChain opens a chain without rules or ends the parse. *)
LEMMA Entered ==
  ASSUME NEW name, NEW text, EnterChain(name, text)
  PROVE  /\ chains' = chains
         /\ \/ open' = open /\ parse' # "done"
            \/ open' = <<[name |-> name, rules |-> <<>>]>> \o open /\ parse' = parse
BY Zenon DEF EnterChain, End

(* One step of the reader. *)
LEMMA ReadStepReads ==
  ASSUME ReadSoFar, phase = "chains", ReadStep(LinkMap), UNCHANGED <<phase, loading, threads>>
  PROVE  ReadSoFar'
<1>1. PICK N, R : (\A r \in R : IsRule(r)) /\ open \in Seq(OpenChains(N, R))
  BY DEF ReadSoFar
<1>2. parse = "reading"
  BY DEF ReadStep, OuterChain, PrematureEnd, InnerChain, ReadRule, CloseChain, Reading
<1>3. LinkMap' = LinkMap
  BY DEF LinkMap, loading
<1>4. phase' = "chains" /\ "worker" \notin threads'
  BY <1>2 DEF ReadSoFar
<1>5. SUFFICES /\ parse' = "done" => open' = <<>>
               /\ \E M, Q : (\A r \in Q : IsRule(r)) /\ open' \in Seq(OpenChains(M, Q))
               /\ \A n \in DOMAIN chains' :
                    \A i \in DOMAIN chains'[n] : LinkedTo(chains'[n][i], LinkMap)
  BY <1>3, <1>4 DEF ReadSoFar, Early
<1>6. ASSUME NEW how, End(how), how = "done" => open = <<>>
      PROVE  /\ parse' = "done" => open' = <<>>
             /\ \E M, Q : (\A r \in Q : IsRule(r)) /\ open' \in Seq(OpenChains(M, Q))
             /\ \A n \in DOMAIN chains' :
                  \A i \in DOMAIN chains'[n] : LinkedTo(chains'[n][i], LinkMap)
  <2>1. parse' = how /\ open' = open /\ chains' = chains
    BY <1>6 DEF End
  <2> QED BY <1>1, <1>6, <2>1 DEF ReadSoFar
<1>7. ASSUME NEW name, NEW text, EnterChain(name, text)
      PROVE  /\ parse' = "done" => open' = <<>>
             /\ \E M, Q : (\A r \in Q : IsRule(r)) /\ open' \in Seq(OpenChains(M, Q))
             /\ \A n \in DOMAIN chains' :
                  \A i \in DOMAIN chains'[n] : LinkedTo(chains'[n][i], LinkMap)
  <2>1. chains' = chains /\ parse' # "done"
    BY <1>2, <1>7, Entered
  <2>2. \E M, Q : (\A r \in Q : IsRule(r)) /\ open' \in Seq(OpenChains(M, Q))
    <3>1. CASE open' = open
      BY <1>1, <3>1
    <3>2. CASE open' = <<[name |-> name, rules |-> <<>>]>> \o open
      <4>1. PICK M : M = N \cup {name}
        OBVIOUS
      <4>2. [name |-> name, rules |-> <<>>] \in OpenChains(M, R)
        BY <4>1 DEF OpenChains
      <4>3. open \in Seq(OpenChains(M, R))
        BY <1>1, <4>1, LargerChains
      <4>4. open' \in Seq(OpenChains(M, R))
        BY <3>2, <4>2, <4>3, PushAt
      <4> QED BY <1>1, <4>4
    <3> QED BY <1>7, <3>1, <3>2, Entered
  <2> QED BY <2>1, <2>2 DEF ReadSoFar
<1>8. CASE OuterChain
  BY <1>6, <1>7, <1>8 DEF OuterChain
<1>9. CASE PrematureEnd
  BY <1>6, <1>9 DEF PrematureEnd
<1>10. CASE InnerChain
  BY <1>6, <1>7, <1>10 DEF InnerChain
<1>11. CASE ReadRule
  <2>1. PICK t : t = RuleTokens(rest)
    OBVIOUS
  <2>2. CASE End("crashed") \/ End("failed")
    BY <1>6, <2>2
  <2>3. CASE /\ open # <<>> /\ open' = [open EXCEPT ![1].rules = Append(@, NewRule(t))]
             /\ UNCHANGED <<chains, parse>>
    <3>1. PICK r : r = NewRule(t)
      OBVIOUS
    <3>2. IsRule(r)
      BY <3>1 DEF NewRule, IsRule
    <3>3. PICK Q : Q = R \cup {r}
      OBVIOUS
    <3>4. open \in Seq(OpenChains(N, Q)) /\ 1 \in DOMAIN open
      BY <1>1, <2>3, <3>3, LargerChains, TailAt
    <3>5. PICK c \in OpenChains(N, Q) : c = open[1]
      BY <3>4, ElementOfSeq, LenProperties
    <3>6. PICK d : d = [c EXCEPT !.rules = Append(@, r)]
      OBVIOUS
    <3>7. d \in OpenChains(N, Q)
      <4>1. c.rules \in Seq(Q) /\ r \in Q
        BY <3>3 DEF OpenChains
      <4>2. Append(c.rules, r) \in Seq(Q)
        BY <4>1, AppendProperties
      <4> QED BY <3>6, <4>2 DEF OpenChains
    <3>8. open' = [open EXCEPT ![1] = d]
      BY <2>3, <3>1, <3>5, <3>6
    <3>9. open' \in Seq(OpenChains(N, Q))
      BY <3>4, <3>7, <3>8, ExceptSeq
    <3>10. \A x \in Q : IsRule(x)
      BY <1>1, <3>2, <3>3
    <3> QED BY <1>2, <2>3, <3>9, <3>10 DEF ReadSoFar
  <2> QED BY <1>11, <2>1, <2>2, <2>3 DEF ReadRule
<1>12. CASE CloseChain(LinkMap)
  <2>1. PICK c, links : c = Head(open) /\ links = LinkMap
    OBVIOUS
  <2>2. CASE End("failed")
    BY <1>6, <2>2
  <2>3. CASE /\ open # <<>> /\ ~Unresolved(c.rules, links)
             /\ chains' = [n \in DOMAIN chains \cup {c.name} |->
                             IF n = c.name
                             THEN [i \in DOMAIN c.rules |-> Linked(c.rules[i], links)]
                             ELSE chains[n]]
             /\ open' = Tail(open) /\ UNCHANGED parse
    <3>1. c \in OpenChains(N, R) /\ open' \in Seq(OpenChains(N, R))
      BY <1>1, <2>1, <2>3, TailAt
    <3>2. ASSUME NEW i \in DOMAIN c.rules PROVE LinkedTo(Linked(c.rules[i], links), links)
      <4>1. PICK r : r = c.rules[i]
        OBVIOUS
      <4>2. r \in R
        BY <3>1, <3>2, <4>1, ElementOfSeq, LenProperties DEF OpenChains
      <4>3. IsRule(r) /\ (r.m_type = <<"call">> => r.name \in DOMAIN links)
        BY <1>1, <2>3, <3>2, <4>1, <4>2 DEF Unresolved
      <4>4. CASE r.m_type = <<"call">>
        <5>1. PICK f : f = links[r.name]
          OBVIOUS
        <5>2. Linked(r, links) = [r EXCEPT !.call_fn = f]
          BY <4>3, <4>4, <5>1 DEF Linked
        <5>3. [r EXCEPT !.call_fn = f].call_fn = f /\ [r EXCEPT !.call_fn = f].name = r.name
          BY <4>3 DEF IsRule
        <5> QED BY <4>1, <4>3, <5>1, <5>2, <5>3 DEF LinkedTo
      <4>5. CASE r.m_type # <<"call">>
        BY <4>1, <4>5 DEF Linked, LinkedTo
      <4> QED BY <4>4, <4>5
    <3>3. \A n \in DOMAIN chains' : \A i \in DOMAIN chains'[n] : LinkedTo(chains'[n][i], links)
      <4> SUFFICES ASSUME NEW n \in DOMAIN chains', NEW i \in DOMAIN chains'[n]
                   PROVE  LinkedTo(chains'[n][i], links)
        OBVIOUS
      <4>1. CASE n = c.name
        BY <2>3, <3>2, <4>1
      <4>2. CASE n # c.name
        BY <2>1, <2>3, <4>2 DEF ReadSoFar
      <4> QED BY <4>1, <4>2
    <3>4. parse' # "done"
      BY <1>2, <2>3
    <3>5. \E M, Q : (\A r \in Q : IsRule(r)) /\ open' \in Seq(OpenChains(M, Q))
      BY <1>1, <3>1
    <3> QED BY <2>1, <3>3, <3>4, <3>5
  <2> QED BY <1>12, <2>1, <2>2, <2>3 DEF CloseChain
<1> QED BY <1>8, <1>9, <1>10, <1>11, <1>12 DEF ReadStep

(* The steps before the reader have nothing linked yet, and those after it *)
(* change neither the chains nor the plugins.                              *)
LEMMA OthersRead ==
  ASSUME ReadSoFar, UNCHANGED <<open, chains, parse>>,
         phase' \in Early => phase \in Early,
         phase \in Early \/ plugins' = plugins,
         phase' \in {"start_workers", "options", "socket", "bind", "reading"} => parse = "done",
         "worker" \in threads' => parse = "done"
  PROVE  ReadSoFar'
<1>1. \E N, R : (\A r \in R : IsRule(r)) /\ open' \in Seq(OpenChains(N, R))
  BY DEF ReadSoFar
<1>2. \A n \in DOMAIN chains' : \A i \in DOMAIN chains'[n] : LinkedTo(chains'[n][i], LinkMap')
  <2>1. CASE phase \in Early
    <3>1. DOMAIN chains' = {}
      BY <2>1 DEF ReadSoFar
    <3> QED BY <3>1
  <2>2. CASE plugins' = plugins
    <3>1. LinkMap' = LinkMap
      BY <2>2 DEF LinkMap
    <3> QED BY <3>1 DEF ReadSoFar
  <2> QED BY <2>1, <2>2
<1> QED BY <1>1, <1>2 DEF ReadSoFar

LEMMA StepReadSoFar == ReadSoFar /\ [Next]_vars => ReadSoFar'
<1> SUFFICES ASSUME ReadSoFar, [Next]_vars PROVE ReadSoFar'
  OBVIOUS
<1>1. CASE UNCHANGED vars
  BY <1>1, OthersRead DEF vars, parsing, loading, ReadSoFar
<1>2. CASE StartBus \/ OpenDir \/ EndDir
  BY <1>2, OthersRead DEF StartBus, OpenDir, EndDir, Goto, Exit, parsing, loading, ReadSoFar, Early
<1>3. ASSUME NEW f \in Files, SkipEntry(f) \/ LoadPlugin(f) \/ FailEntry(f) PROVE ReadSoFar'
  BY <1>3, OthersRead DEF SkipEntry, LoadPlugin, FailEntry, Fail, Goto, parsing, ReadSoFar, Early
<1>4. CASE OpenFile
  BY <1>4, OthersRead DEF OpenFile, Goto, Exit, loading, ReadSoFar, Early
<1>5. CASE ReadChains
  BY <1>5, ReadStepReads DEF ReadChains
<1>6. CASE ParseEnds
  BY <1>6, OthersRead DEF ParseEnds, Goto, Exit, parsing, loading, ReadSoFar, Early
<1>7. CASE StartWorkers \/ ParseOptions \/ OpenSocket \/ BindSocket \/ RecvFails
  BY <1>7, OthersRead DEF StartWorkers, ParseOptions, OpenSocket, BindSocket, RecvFails,
                          Goto, Exit, parsing, loading, ReadSoFar, Early
<1> QED BY <1>1, <1>2, <1>3, <1>4, <1>5, <1>6, <1>7 DEF Next

(* plugins_to_link_map: a name leads to the last plugin that exports it. *)
LEMMA LastExporter ==
  ASSUME plugins \in Seq(Files), NEW name \in DOMAIN LinkMap
  PROVE  \E p \in DOMAIN plugins :
           /\ LinkMap[name] = plugins[p]
           /\ Last(name) \in Exports[plugins[p]]
           /\ \A q \in DOMAIN plugins : q > p => Last(name) \notin Exports[plugins[q]]
<1>1. PICK r \in Routines : name = <<r>>
  BY DEF LinkMap
<1> DEFINE S == {i \in DOMAIN plugins : name \in {<<x>> : x \in Exports[plugins[i]]}}
<1>2. S # {} /\ LinkMap[name] = plugins[Max(S)]
  BY DEF LinkMap
<1>3. S \in SUBSET (1..Len(plugins)) /\ Len(plugins) \in Nat
  BY LenProperties
<1>4. Last(name) = r
  BY <1>1 DEF Last
<1>5. \A i \in DOMAIN plugins : i \in S <=> r \in Exports[plugins[i]]
  BY <1>1
<1> HIDE DEF S
<1>6. PICK p : p = Max(S)
  OBVIOUS
<1>7. p \in S /\ \A x \in S : x <= p
  BY <1>2, <1>3, <1>6, GreatestNumber
<1>8. p \in DOMAIN plugins /\ DOMAIN plugins \subseteq Nat
  BY <1>3, <1>7, LenProperties
<1>9. \A q \in DOMAIN plugins : q > p => q \notin S
  BY <1>7, <1>8
<1> QED BY <1>2, <1>4, <1>5, <1>6, <1>7, <1>8, <1>9

(* Once a worker runs, each rule that calls calls a routine of a plugin    *)
(* whose library is open: of the last one in the chain that exports it,    *)
(* for any texts and any plugins.                                          *)
THEOREM CallsLead == Spec => []CallsLinked
<1>1. ASSUME Loaded, ReadSoFar, "worker" \in threads, NEW r \in RulesRead,
             r.m_type = <<"call">>
      PROVE  \E p \in DOMAIN plugins :
               /\ r.call_fn = plugins[p] /\ plugins[p] \in opened
               /\ Last(r.name) \in Exports[plugins[p]]
               /\ \A q \in DOMAIN plugins : q > p => Last(r.name) \notin Exports[plugins[q]]
  <2>1. open = <<>>
    BY <1>1 DEF ReadSoFar
  <2>2. PICK n \in DOMAIN chains : r \in {chains[n][i] : i \in DOMAIN chains[n]}
    BY <1>1, <2>1 DEF RulesRead
  <2>3. LinkedTo(r, LinkMap)
    BY <1>1, <2>2 DEF ReadSoFar
  <2>4. r.name \in DOMAIN LinkMap /\ r.call_fn = LinkMap[r.name]
    BY <1>1, <2>3 DEF LinkedTo
  <2>5. plugins \in Seq(Files) /\ \A p \in DOMAIN plugins : plugins[p] \in opened
    BY <1>1 DEF Loaded, Listed
  <2> QED BY <2>4, <2>5, LastExporter
<1>2. Loaded /\ ReadSoFar => CallsLinked
  BY <1>1 DEF CallsLinked
<1> QED BY <1>2, InitLoaded, StepLoaded, InitReadSoFar, StepReadSoFar, PTL DEF Spec

------------------------------------------------------------------------------
(* What main and the reader have read, and where they are *)

(* s is what is left of t. *)
Ends(s, t) ==
  Len(s) <= Len(t) /\ \A i \in 1..Len(s) : s[i] = t[Len(t) - Len(s) + i]

LEMMA EndsOfEnds ==
  ASSUME NEW S, NEW s \in Seq(S), NEW t \in Seq(S), NEW u \in Seq(S), Ends(s, t), Ends(t, u)
  PROVE  Ends(s, u)
<1>1. Len(s) \in Nat /\ Len(t) \in Nat /\ Len(u) \in Nat
  BY LenProperties
<1>2. ASSUME NEW i \in 1..Len(s) PROVE s[i] = u[Len(u) - Len(s) + i]
  <2>1. PICK j \in 1..Len(t) : j = Len(t) - Len(s) + i
    BY <1>1 DEF Ends
  <2>2. s[i] = t[j] /\ t[j] = u[Len(u) - Len(t) + j]
    BY <2>1 DEF Ends
  <2>3. Len(u) - Len(t) + j = Len(u) - Len(s) + i
    BY <1>1, <2>1
  <2> QED BY <2>2, <2>3
<1> QED BY <1>1, <1>2 DEF Ends

LEMMA EndsIsSuffix ==
  ASSUME NEW S, NEW s \in Seq(S), NEW t \in Seq(S), Ends(s, t)
  PROVE  IsSuffix(s, t)
<1>1. PICK m \in Nat, n \in Nat : m = Len(s) /\ n = Len(t) /\ m <= n
  BY LenProperties DEF Ends
<1>2. PICK r : r = Reverse(s)
  OBVIOUS
<1>3. PICK q : q = Reverse(t)
  OBVIOUS
<1>4. r = [i \in 1..m |-> s[(m - i) + 1]] /\ q = [i \in 1..n |-> t[(n - i) + 1]]
  BY <1>1, <1>2, <1>3 DEF Reverse
<1>5. ASSUME NEW i \in 1..m PROVE r[i] = q[i]
  <2>1. i \in 1..n /\ (m - i) + 1 \in 1..m /\ n - m + ((m - i) + 1) = (n - i) + 1
    BY <1>1
  <2>2. s[(m - i) + 1] = t[(n - i) + 1]
    BY <1>1, <2>1 DEF Ends
  <2> QED BY <1>4, <2>1, <2>2
<1>6. \A i \in 1..m : (m - i) + 1 \in 1..m
  BY <1>1
<1>7. \A i \in 1..n : (n - i) + 1 \in 1..n
  BY <1>1
<1>8. r \in Seq(S) /\ q \in Seq(S) /\ Len(r) = m /\ Len(q) = n
  <2>1. \A i \in 1..m : s[(m - i) + 1] \in S
    BY <1>1, <1>6, ElementOfSeq
  <2>2. \A i \in 1..n : t[(n - i) + 1] \in S
    BY <1>1, <1>7, ElementOfSeq
  <2>3. r \in [1..m -> S] /\ q \in [1..n -> S]
    BY <1>4, <2>1, <2>2
  <2>4. r \in Seq(S) /\ q \in Seq(S)
    BY <2>3, SeqDef
  <2>5. DOMAIN r = 1..m /\ DOMAIN q = 1..n
    BY <1>4
  <2>6. Len(r) = m /\ Len(q) = n
    BY <2>4, <2>5, LenProperties
  <2> QED BY <2>4, <2>6
<1>9. SubSeq(r, 1, m) = r
  BY <1>8, SubSeqFull
<1>10. SubSeq(q, 1, m) = r
  <2>1. PICK p : p = SubSeq(q, 1, m)
    OBVIOUS
  <2>2. p \in Seq(S) /\ Len(p) = m /\ \A i \in 1..m : p[i] = q[i]
    BY <1>1, <1>8, <2>1, SubSeqProperties
  <2> QED BY <1>5, <1>8, <2>1, <2>2, SeqEqual
<1> QED BY <1>1, <1>2, <1>3, <1>8, <1>9, <1>10 DEF IsSuffix, IsPrefix

(* next_token reads from the front of the text. *)
LEMMA NextTokenReads ==
  ASSUME NEW S, NEW text \in Seq(S), NEW get_class
  PROVE  LET t == next_token(text, get_class)
         IN  t.token \in Seq(S) /\ t.rest \in Seq(S) /\ Ends(t.rest, text)
<1>1. PICK n \in Nat : n = Len(text)
  BY LenProperties
<1>2. PICK k : k = Cardinality(OneClass(text, get_class))
  OBVIOUS
<1>3. k \in 0..n
  <2>1. OneClass(text, get_class) \subseteq 1..n
    BY <1>1 DEF OneClass
  <2>2. IsFiniteSet(1..n) /\ Cardinality(1..n) = n
    <3>1. IF 1 > n THEN n = 0 ELSE n - 1 + 1 = n
      OBVIOUS
    <3> QED BY <3>1, FS_Interval
  <2> QED BY <1>1, <1>2, <2>1, <2>2, FS_Subset, FS_CardinalityType
<1>4. PICK token, rest1 : token = SubSeq(text, 1, k) /\ rest1 = SubSeq(text, k + 1, n)
  OBVIOUS
<1>5. next_token(text, get_class) = [token |-> token, rest |-> rest1]
  BY <1>1, <1>2, <1>4 DEF next_token
<1>6. token \in Seq(S)
  BY <1>1, <1>3, <1>4, SubSeqProperties
<1>7. rest1 \in Seq(S) /\ Ends(rest1, text)
  <2>1. /\ rest1 \in Seq(S) /\ Len(rest1) = n - k
        /\ \A i \in 1..(n - k) : rest1[i] = text[k + i]
    BY <1>1, <1>3, <1>4, SubSeqProperties
  <2> QED BY <1>1, <1>3, <2>1 DEF Ends
<1> QED BY <1>5, <1>6, <1>7

LEMMA TokenReads ==
  ASSUME NEW S, NEW text \in Seq(S), NEW get_class
  PROVE  LET t == next_token_skip_space(text, get_class)
         IN  t.token \in Seq(S) /\ t.rest \in Seq(S) /\ Ends(t.rest, text)
<1>1. PICK t : t = next_token(text, get_class)
  OBVIOUS
<1>2. t.token \in Seq(S) /\ t.rest \in Seq(S) /\ Ends(t.rest, text)
  BY <1>1, NextTokenReads
<1>3. PICK u : u = next_token(t.rest, get_class)
  OBVIOUS
<1>4. u.token \in Seq(S) /\ u.rest \in Seq(S) /\ Ends(u.rest, t.rest)
  BY <1>2, <1>3, NextTokenReads
<1>5. Ends(u.rest, text)
  BY <1>2, <1>4, EndsOfEnds
<1>6. next_token_skip_space(text, get_class) \in {t, u}
  BY <1>1, <1>3 DEF next_token_skip_space
<1> QED BY <1>2, <1>4, <1>5, <1>6

(* A rule is read from the front of the text, and so is its pattern. *)
LEMMA RuleReads ==
  ASSUME NEW S, NEW text \in Seq(S)
  PROVE  LET t == RuleTokens(text)
         IN  t.pattern \in Seq(S) /\ t.rest \in Seq(S) /\ Ends(t.rest, text)
<1>1. PICK first : first = Token(text)
  OBVIOUS
<1>2. PICK pattern : pattern = next_token_skip_space(first.rest, "not_paren")
  OBVIOUS
<1>3. PICK close : close = next_token_skip_space(pattern.rest, "not_paren")
  OBVIOUS
<1>4. PICK behind : behind = Token(close.rest)
  OBVIOUS
<1>5. PICK command : command = IF first.token[1] = "(" THEN behind ELSE first
  OBVIOUS
<1>6. PICK word : word = Token(command.rest)
  OBVIOUS
<1>7. PICK name : name = IF command.token \in {<<"call">>, <<"goto">>} THEN word
                         ELSE [command EXCEPT !.token = Null]
  OBVIOUS
<1>8. PICK end : end = Token(name.rest)
  OBVIOUS
<1>9. RuleTokens(text).pattern = pattern.token /\ RuleTokens(text).rest = end.rest
  BY <1>1, <1>2, <1>3, <1>4, <1>5, <1>6, <1>7, <1>8 DEF RuleTokens
<1>10. first.rest \in Seq(S) /\ Ends(first.rest, text)
  BY <1>1, TokenReads DEF Token
<1>11. pattern.token \in Seq(S) /\ pattern.rest \in Seq(S) /\ Ends(pattern.rest, text)
  BY <1>2, <1>10, TokenReads, EndsOfEnds
<1>12. close.rest \in Seq(S) /\ Ends(close.rest, text)
  BY <1>3, <1>11, TokenReads, EndsOfEnds
<1>13. behind.rest \in Seq(S) /\ Ends(behind.rest, text)
  BY <1>4, <1>12, TokenReads, EndsOfEnds DEF Token
<1>14. command.rest \in Seq(S) /\ Ends(command.rest, text)
  BY <1>5, <1>10, <1>13
<1>15. word.rest \in Seq(S) /\ Ends(word.rest, text)
  BY <1>6, <1>14, TokenReads, EndsOfEnds DEF Token
<1>16. [command EXCEPT !.token = Null].rest = command.rest
  <2>1. \A x, g : next_token(x, g) = [token |-> next_token(x, g).token,
                                      rest |-> next_token(x, g).rest]
    BY DEF next_token
  <2>2. \A x, g : next_token_skip_space(x, g) =
                    [token |-> next_token_skip_space(x, g).token,
                     rest |-> next_token_skip_space(x, g).rest]
    BY <2>1 DEF next_token_skip_space
  <2>3. command = [token |-> command.token, rest |-> command.rest]
    BY <1>1, <1>4, <1>5, <2>2 DEF Token
  <2> QED BY <2>3
<1>17. name.rest \in Seq(S) /\ Ends(name.rest, text)
  BY <1>7, <1>14, <1>15, <1>16
<1>18. end.rest \in Seq(S) /\ Ends(end.rest, text)
  BY <1>8, <1>17, TokenReads, EndsOfEnds DEF Token
<1> QED BY <1>9, <1>11, <1>18

(* What is left of the text is its end; main is at a line of its program,  *)
(* with the threads and the exit status it may have there.                 *)
Reads ==
  /\ \E S : config.text \in Seq(S) /\ rest \in Seq(S) /\ Ends(rest, config.text)
  /\ phase \in {"start_bus", "open_dir", "read_dir", "parse", "chains", "start_workers",
                "options", "socket", "bind", "reading", "exit", "crashed"}
  /\ parse \in {"reading", "done", "failed", "crashed", "undefined"}
  /\ threads \subseteq {"bus", "worker"}
  /\ status \in {0, 1}

LEMMA InitReads == Init => Reads
<1> SUFFICES ASSUME Init PROVE Reads
  OBVIOUS
<1>1. config.text = <<>> /\ rest = <<>>
  BY DEF Init, InitParsing, Nothing
<1>2. <<>> \in Seq({}) /\ Len(<<>>) = 0
  BY EmptySeq
<1>3. Ends(<<>>, <<>>)
  BY <1>2 DEF Ends
<1> QED BY <1>1, <1>2, <1>3 DEF Init, InitParsing, Reads

(* One step of the reader takes tokens from the front of what is left. *)
LEMMA ReadStepOnward ==
  ASSUME Reads, NEW linkMap, ReadStep(linkMap)
  PROVE  /\ \E S : config'.text \in Seq(S) /\ rest' \in Seq(S) /\ Ends(rest', config'.text)
         /\ parse' \in {"reading", "done", "failed", "crashed", "undefined"}
<1>1. PICK S : config.text \in Seq(S) /\ rest \in Seq(S) /\ Ends(rest, config.text)
  BY DEF Reads
<1>2. config' = config /\ parse \in {"reading", "done", "failed", "crashed", "undefined"}
  BY DEF Reads, ReadStep, OuterChain, PrematureEnd, InnerChain, ReadRule, CloseChain, Reading
<1>3. SUFFICES /\ rest' \in Seq(S) /\ Ends(rest', config.text)
               /\ parse' \in {"reading", "done", "failed", "crashed", "undefined"}
  BY <1>1, <1>2
<1>4. ASSUME NEW how \in {"done", "failed", "crashed", "undefined"}, End(how)
      PROVE  /\ rest' \in Seq(S) /\ Ends(rest', config.text)
             /\ parse' \in {"reading", "done", "failed", "crashed", "undefined"}
  BY <1>1, <1>4 DEF End
<1>5. ASSUME NEW text \in Seq(S), Ends(text, config.text)
      PROVE  Token(text).rest \in Seq(S) /\ Ends(Token(text).rest, config.text)
  BY <1>1, <1>5, TokenReads, EndsOfEnds DEF Token
<1>6. ASSUME NEW name, NEW text \in Seq(S), Ends(text, config.text), EnterChain(name, text)
      PROVE  /\ rest' \in Seq(S) /\ Ends(rest', config.text)
             /\ parse' \in {"reading", "done", "failed", "crashed", "undefined"}
  <2>1. \/ End("crashed") \/ End("undefined")
        \/ rest' = Token(text).rest /\ parse' = parse
    BY <1>6, Zenon DEF EnterChain
  <2> QED BY <1>2, <1>4, <1>5, <1>6, <2>1
<1>7. CASE OuterChain
  <2>1. PICK chain, name : chain = Token(rest) /\ name = Token(chain.rest)
    OBVIOUS
  <2>2. name.rest \in Seq(S) /\ Ends(name.rest, config.text)
    BY <1>1, <1>5, <2>1
  <2>3. End("done") \/ End("failed") \/ EnterChain(name.token, name.rest)
    BY <1>7, <2>1, Zenon DEF OuterChain
  <2> QED BY <1>4, <1>6, <2>2, <2>3
<1>8. CASE PrematureEnd
  BY <1>4, <1>8 DEF PrematureEnd
<1>9. CASE InnerChain
  <2>1. PICK name : name = Token(Token(rest).rest)
    OBVIOUS
  <2>2. name.rest \in Seq(S) /\ Ends(name.rest, config.text)
    BY <1>1, <1>5, <2>1
  <2>3. End("failed") \/ EnterChain(name.token, name.rest)
    BY <1>9, <2>1, Zenon DEF InnerChain
  <2> QED BY <1>4, <1>6, <2>2, <2>3
<1>10. CASE ReadRule
  <2>1. PICK t : t = RuleTokens(rest)
    OBVIOUS
  <2>2. t.rest \in Seq(S) /\ Ends(t.rest, config.text)
    BY <1>1, <2>1, RuleReads, EndsOfEnds
  <2>3. End("crashed") \/ End("failed") \/ (rest' = t.rest /\ parse' = parse)
    BY <1>10, <2>1, Zenon DEF ReadRule
  <2> QED BY <1>2, <1>4, <2>2, <2>3
<1>11. CASE CloseChain(linkMap)
  <2>1. End("failed") \/ (rest' = Token(rest).rest /\ parse' = parse)
    BY <1>11, Zenon DEF CloseChain
  <2> QED BY <1>1, <1>2, <1>4, <1>5, <2>1
<1> QED BY <1>7, <1>8, <1>9, <1>10, <1>11 DEF ReadStep

LEMMA OpenFileReads == ASSUME Reads, OpenFile PROVE Reads'
<1>1. \E S : config'.text \in Seq(S) /\ rest' \in Seq(S) /\ Ends(rest', config'.text)
  <2>1. CASE UNCHANGED <<config, rest>>
    BY <2>1 DEF Reads
  <2>2. ASSUME NEW c \in Configs, config' = c, rest' = c.text
        PROVE  \E S : config'.text \in Seq(S) /\ rest' \in Seq(S) /\ Ends(rest', config'.text)
    <3>1. PICK S : c.text \in Seq(S)
      BY StartupAssumption
    <3>2. Ends(c.text, c.text)
      <4>1. Len(c.text) \in Nat
        BY <3>1, LenProperties
      <4> QED BY <4>1 DEF Ends
    <3> QED BY <2>2, <3>1, <3>2
  <2> QED BY <2>1, <2>2 DEF OpenFile
<1> QED BY <1>1 DEF OpenFile, Goto, Exit, Reads

LEMMA StepReads == Reads /\ [Next]_vars => Reads'
<1> SUFFICES ASSUME Reads, [Next]_vars PROVE Reads'
  OBVIOUS
<1>1. CASE UNCHANGED vars
  BY <1>1 DEF vars, parsing, Reads
<1>2. CASE StartBus
  BY <1>2 DEF StartBus, parsing, Goto, Exit, Reads
<1>3. CASE OpenDir \/ EndDir
  BY <1>3 DEF OpenDir, EndDir, parsing, Goto, Reads
<1>4. ASSUME NEW f \in Files, SkipEntry(f) \/ LoadPlugin(f) \/ FailEntry(f) PROVE Reads'
  BY <1>4 DEF SkipEntry, LoadPlugin, FailEntry, Fail, parsing, Goto, Reads
<1>5. CASE OpenFile
  BY <1>5, OpenFileReads
<1>6. CASE ReadChains
  BY <1>6, ReadStepOnward DEF ReadChains, Reads
<1>7. CASE ParseEnds
  BY <1>7 DEF ParseEnds, parsing, Goto, Exit, Reads
<1>8. CASE StartWorkers
  BY <1>8 DEF StartWorkers, parsing, Goto, Reads
<1>9. CASE ParseOptions \/ OpenSocket \/ BindSocket \/ RecvFails
  BY <1>9 DEF ParseOptions, OpenSocket, BindSocket, RecvFails, parsing, Goto, Exit, Reads
<1> QED BY <1>1, <1>2, <1>3, <1>4, <1>5, <1>6, <1>7, <1>8, <1>9 DEF Next

------------------------------------------------------------------------------
(* What the rules are *)

(* The pattern of a rule is that of its words. *)
RuleOK(r) ==
  /\ IsRule(r)
  /\ r.words \in Seq(DOMAIN Word)
  /\ r.m_pattern \in PatternType
  /\ Means(r.words, r.m_pattern)
  /\ r.m_type \in Commands
  /\ r.call_fn \in Files \cup {NoFunction}

RulesOK ==
  /\ \A n \in DOMAIN chains : \A i \in DOMAIN chains[n] : RuleOK(chains[n][i])
  /\ \A i \in DOMAIN open : \A j \in DOMAIN open[i].rules : RuleOK(open[i].rules[j])

LEMMA RulesReadOK == ASSUME RulesOK PROVE \A r \in RulesRead : RuleOK(r)
<1>1. ASSUME NEW n \in DOMAIN chains, NEW r \in {chains[n][i] : i \in DOMAIN chains[n]}
      PROVE  RuleOK(r)
  BY <1>1 DEF RulesOK
<1>2. ASSUME NEW k \in DOMAIN open,
             NEW r \in {open[k].rules[i] : i \in DOMAIN open[k].rules}
      PROVE  RuleOK(r)
  BY <1>2 DEF RulesOK
<1>3. ASSUME NEW r \in RulesRead
      PROVE  \/ \E n \in DOMAIN chains : r \in {chains[n][i] : i \in DOMAIN chains[n]}
             \/ \E k \in DOMAIN open : r \in {open[k].rules[i] : i \in DOMAIN open[k].rules}
  <2>1. \/ \E s \in {{chains[n][i] : i \in DOMAIN chains[n]} : n \in DOMAIN chains} : r \in s
        \/ \E s \in {{open[k].rules[i] : i \in DOMAIN open[k].rules} : k \in DOMAIN open} :
             r \in s
    BY <1>3 DEF RulesRead
  <2> QED BY <2>1
<1> QED BY <1>1, <1>2, <1>3

LEMMA NewRuleOK ==
  ASSUME NEW S, NEW t, t.pattern \in Seq(S), t.command \in Commands
  PROVE  RuleOK(NewRule(t))
<1>1. PICK p : p = compile_pattern(IF t.paren THEN t.pattern ELSE Null)
  OBVIOUS
<1>2. CompiledWell(p)
  <2>1. Null \in Seq(S)
    BY DEF Null
  <2> QED BY <1>1, <2>1, PatternCompiled
<1>3. NewRule(t) = [words |-> p.words, m_pattern |-> p.pat, m_type |-> t.command,
                    name |-> t.name, call_fn |-> NoFunction]
  BY <1>1 DEF NewRule
<1> QED BY <1>2, <1>3 DEF RuleOK, IsRule, CompiledWell

(* link_chain changes the function only. *)
LEMMA LinkedOK ==
  ASSUME plugins \in Seq(Files), NEW r, RuleOK(r)
  PROVE  RuleOK(Linked(r, LinkMap))
<1>1. CASE r.m_type = <<"call">> /\ r.name \in DOMAIN LinkMap
  <2>1. PICK f : f = LinkMap[r.name]
    OBVIOUS
  <2>2. f \in Files
    BY <1>1, <2>1, LastExporter, LenProperties, ElementOfSeq
  <2>3. Linked(r, LinkMap) = [words |-> r.words, m_pattern |-> r.m_pattern,
                              m_type |-> r.m_type, name |-> r.name, call_fn |-> f]
    <3>1. Linked(r, LinkMap) = [r EXCEPT !.call_fn = f]
      BY <1>1, <2>1 DEF Linked
    <3> QED BY <3>1 DEF RuleOK, IsRule
  <2> QED BY <2>2, <2>3 DEF RuleOK, IsRule
<1>2. CASE ~(r.m_type = <<"call">> /\ r.name \in DOMAIN LinkMap)
  BY <1>2 DEF Linked
<1> QED BY <1>1, <1>2

LEMMA ReadStepRules ==
  ASSUME RulesOK, ReadSoFar, Reads, plugins \in Seq(Files), ReadStep(LinkMap)
  PROVE  RulesOK'
<1>1. PICK N, R : open \in Seq(OpenChains(N, R))
  BY DEF ReadSoFar
<1>2. PICK S : rest \in Seq(S)
  BY DEF Reads
<1>3. ASSUME NEW how, End(how) PROVE RulesOK'
  BY <1>3 DEF End, RulesOK
<1>4. ASSUME NEW name, NEW text, EnterChain(name, text) PROVE RulesOK'
  <2>1. CASE open' = open /\ chains' = chains
    BY <2>1 DEF RulesOK
  <2>2. CASE open' = <<[name |-> name, rules |-> <<>>]>> \o open /\ chains' = chains
    <3>1. PICK c : c = [name |-> name, rules |-> <<>>]
      OBVIOUS
    <3>2. PICK one : one = <<c>>
      OBVIOUS
    <3>3. PICK M : M = N \cup {name}
      OBVIOUS
    <3>4. one \in Seq(OpenChains(M, R)) /\ Len(one) = 1 /\ one[1] = c
      BY <3>1, <3>2, <3>3 DEF OpenChains
    <3>5. open \in Seq(OpenChains(M, R))
      BY <1>1, <3>3, LargerChains
    <3>6. /\ DOMAIN open' = 1..(1 + Len(open)) /\ Len(open) \in Nat
          /\ DOMAIN open = 1..Len(open)
          /\ open'[1] = c
          /\ \A i \in 1..Len(open) : open'[i + 1] = open[i]
      <4>1. open' = one \o open
        BY <2>2, <3>1, <3>2
      <4>2. /\ open' \in Seq(OpenChains(M, R)) /\ Len(open') = 1 + Len(open)
            /\ \A i \in 1..(1 + Len(open)) :
                 open'[i] = IF i <= Len(one) THEN one[i] ELSE open[i - Len(one)]
        <5>1. PICK rules : rules = open
          OBVIOUS
        <5>2. PICK both : both = one \o rules
          OBVIOUS
        <5>3. /\ both \in Seq(OpenChains(M, R)) /\ Len(both) = Len(one) + Len(rules)
              /\ \A i \in 1..(Len(one) + Len(rules)) :
                   both[i] = IF i <= Len(one) THEN one[i] ELSE rules[i - Len(one)]
          BY <3>4, <3>5, <5>1, <5>2, ConcatProperties
        <5> QED BY <3>4, <4>1, <5>1, <5>2, <5>3
      <4>3. Len(open) \in Nat /\ DOMAIN open = 1..Len(open) /\ DOMAIN open' = 1..(1 + Len(open))
        BY <1>1, <4>2, LenProperties
      <4> QED BY <3>4, <4>2, <4>3
    <3>7. ASSUME NEW i \in DOMAIN open', NEW j \in DOMAIN open'[i].rules
          PROVE  RuleOK(open'[i].rules[j])
      <4>1. i # 1
        BY <3>1, <3>6, <3>7
      <4>2. PICK k \in 1..Len(open) : i = k + 1
        <5>1. i \in 1..(1 + Len(open)) /\ Len(open) \in Nat
          BY <3>6, <3>7
        <5>2. i - 1 \in 1..Len(open) /\ i = (i - 1) + 1
          BY <4>1, <5>1
        <5> QED BY <5>2
      <4>3. open'[i] = open[k] /\ k \in DOMAIN open
        BY <3>6, <4>2
      <4> QED BY <3>7, <4>3 DEF RulesOK
    <3> QED BY <2>2, <3>7 DEF RulesOK
  <2> QED BY <1>4, <2>1, <2>2, Entered
<1>5. CASE OuterChain
  BY <1>3, <1>4, <1>5 DEF OuterChain
<1>6. CASE PrematureEnd
  BY <1>3, <1>6 DEF PrematureEnd
<1>7. CASE InnerChain
  BY <1>3, <1>4, <1>7 DEF InnerChain
<1>8. CASE ReadRule
  <2>1. PICK t : t = RuleTokens(rest)
    OBVIOUS
  <2>2. CASE End("crashed") \/ End("failed")
    BY <1>3, <2>2
  <2>3. CASE /\ open # <<>> /\ WellFormed(t) /\ chains' = chains
             /\ open' = [open EXCEPT ![1].rules = Append(@, NewRule(t))]
    <3>1. PICK r : r = NewRule(t)
      OBVIOUS
    <3>2. RuleOK(r)
      BY <1>2, <2>1, <2>3, <3>1, RuleReads, NewRuleOK DEF WellFormed
    <3>3. 1 \in DOMAIN open /\ open[1] \in OpenChains(N, R)
      BY <1>1, <2>3, TailAt
    <3>4. PICK rules : rules = open[1].rules
      OBVIOUS
    <3>5. rules \in Seq(R)
      BY <3>3, <3>4 DEF OpenChains
    <3>6. PICK Q : Q = R \cup {r}
      OBVIOUS
    <3>7. /\ DOMAIN Append(rules, r) = 1..(Len(rules) + 1) /\ DOMAIN rules = 1..Len(rules)
          /\ Len(rules) \in Nat
          /\ \A j \in 1..Len(rules) : Append(rules, r)[j] = rules[j]
          /\ Append(rules, r)[Len(rules) + 1] = r
      <4>1. rules \in Seq(Q) /\ r \in Q
        BY <3>5, <3>6, SeqMonotonic
      <4> QED BY <4>1, AppendProperties, LenProperties
    <3>8. PICK c : c = [open[1] EXCEPT !.rules = Append(rules, r)]
      OBVIOUS
    <3>9. c.rules = Append(rules, r)
      BY <3>3, <3>8 DEF OpenChains
    <3>10. open' = [open EXCEPT ![1] = c]
      BY <2>3, <3>1, <3>4, <3>8
    <3>11. DOMAIN open' = DOMAIN open /\ \A i \in DOMAIN open : i # 1 => open'[i] = open[i]
      BY <3>10
    <3>12. open'[1] = c
      BY <3>3, <3>10
    <3>13. ASSUME NEW i \in DOMAIN open', NEW j \in DOMAIN open'[i].rules
           PROVE  RuleOK(open'[i].rules[j])
      <4>1. CASE i # 1
        BY <3>11, <3>13, <4>1 DEF RulesOK
      <4>2. CASE i = 1
        <5>1. open'[i].rules = Append(rules, r)
          BY <3>9, <3>12, <4>2
        <5>2. CASE j = Len(rules) + 1
          BY <3>2, <3>7, <5>1, <5>2
        <5>3. CASE j \in 1..Len(rules)
          <6>1. j \in DOMAIN open[1].rules /\ open'[i].rules[j] = open[1].rules[j]
            BY <3>4, <3>7, <5>1, <5>3
          <6> QED BY <3>3, <6>1 DEF RulesOK
        <5> QED BY <3>7, <3>13, <5>1, <5>2, <5>3
      <4> QED BY <4>1, <4>2
    <3> QED BY <2>3, <3>13 DEF RulesOK
  <2> QED BY <1>8, <2>1, <2>2, <2>3 DEF ReadRule
<1>9. CASE CloseChain(LinkMap)
  <2>1. PICK c, links : c = Head(open) /\ links = LinkMap
    OBVIOUS
  <2>2. CASE End("failed")
    BY <1>3, <2>2
  <2>3. CASE /\ open # <<>> /\ open' = Tail(open)
             /\ chains' = [n \in DOMAIN chains \cup {c.name} |->
                             IF n = c.name
                             THEN [i \in DOMAIN c.rules |-> Linked(c.rules[i], links)]
                             ELSE chains[n]]
    <3>1. c = open[1] /\ 1 \in DOMAIN open
      BY <1>1, <2>1, <2>3, TailAt
    <3>2. ASSUME NEW i \in DOMAIN c.rules PROVE RuleOK(Linked(c.rules[i], links))
      BY <2>1, <3>1, <3>2, LinkedOK DEF RulesOK
    <3>3. ASSUME NEW n \in DOMAIN chains', NEW i \in DOMAIN chains'[n]
          PROVE  RuleOK(chains'[n][i])
      <4>1. CASE n = c.name
        BY <2>3, <3>2, <3>3, <4>1
      <4>2. CASE n # c.name
        BY <2>3, <3>3, <4>2 DEF RulesOK
      <4> QED BY <4>1, <4>2
    <3>4. ASSUME NEW i \in DOMAIN open', NEW j \in DOMAIN open'[i].rules
          PROVE  RuleOK(open'[i].rules[j])
      <4>1. i + 1 \in DOMAIN open /\ open'[i] = open[i + 1]
        <5>1. open' \in Seq(OpenChains(N, R)) /\ Len(open') = Len(open) - 1
              /\ \A k \in 1..Len(open') : open'[k] = open[k + 1]
          BY <1>1, <2>3, HeadTailProperties
        <5>2. DOMAIN open = 1..Len(open) /\ Len(open) \in Nat /\ DOMAIN open' = 1..Len(open')
          BY <1>1, <5>1, LenProperties
        <5> QED BY <3>4, <5>1, <5>2
      <4> QED BY <3>4, <4>1 DEF RulesOK
    <3> QED BY <3>3, <3>4 DEF RulesOK
  <2> QED BY <1>9, <2>1, <2>2, <2>3 DEF CloseChain
<1> QED BY <1>5, <1>6, <1>7, <1>8, <1>9 DEF ReadStep

LEMMA InitRulesOK == Init => RulesOK
BY DEF Init, InitParsing, RulesOK

LEMMA StepRulesOK == RulesOK /\ ReadSoFar /\ Reads /\ Loaded /\ [Next]_vars => RulesOK'
<1> SUFFICES ASSUME RulesOK, ReadSoFar, Reads, Loaded, [Next]_vars PROVE RulesOK'
  OBVIOUS
<1>1. CASE ReadChains
  BY <1>1, ReadStepRules DEF ReadChains, Loaded
<1>2. CASE UNCHANGED <<open, chains>>
  BY <1>2 DEF RulesOK
<1>3. CASE UNCHANGED vars
  BY <1>2, <1>3 DEF vars, parsing
<1>4. CASE StartBus \/ OpenDir \/ EndDir \/ OpenFile \/ ParseEnds
  BY <1>2, <1>4 DEF StartBus, OpenDir, EndDir, OpenFile, ParseEnds, parsing
<1>5. ASSUME NEW f \in Files, SkipEntry(f) \/ LoadPlugin(f) \/ FailEntry(f) PROVE RulesOK'
  BY <1>2, <1>5 DEF SkipEntry, LoadPlugin, FailEntry, parsing
<1>6. CASE StartWorkers \/ ParseOptions \/ OpenSocket \/ BindSocket \/ RecvFails
  BY <1>2, <1>6 DEF StartWorkers, ParseOptions, OpenSocket, BindSocket, RecvFails, parsing
<1> QED BY <1>1, <1>3, <1>4, <1>5, <1>6 DEF Next

(* For any directory and any configuration: main is at a line of its       *)
(* program, the plugins are files that exist, the text that is left is the *)
(* end of the file, and the rules are of words, commands and functions     *)
(* that there are, with patterns of bytes.                                 *)
THEOREM StartupTypes == Spec => []TypeOK
<1>1. Reads => IsSuffix(rest, config.text)
  BY EndsIsSuffix DEF Reads
<1>2. Reads /\ Loaded /\ RulesOK => TypeOK
  BY <1>1, RulesReadOK DEF Reads, Loaded, RuleOK, PatternType, TypeOK
<1> QED BY <1>2, InitReads, StepReads, InitLoaded, StepLoaded, InitReadSoFar, StepReadSoFar,
           InitRulesOK, StepRulesOK, PTL DEF Spec

(* What packet_matches_pattern asks of an address, and what was meant. *)
Compares(pat, k, a) == Feature[k] \in pat.features => a = pat.addr[k]
Names(words, k, a) ==
  \A i \in Named(words, k) :
    (\A j \in Named(words, k) : j <= i) => a = Meant(Word[words[i]].value)

LEMMA ComparesWhatIsNamed ==
  ASSUME NEW words \in Seq(DOMAIN Word), NEW pat, NEW k, NEW a, AsksFor(words, pat, k)
  PROVE  Compares(pat, k, a) <=> Names(words, k, a)
<1>1. PICK n \in Nat : n = Len(words) /\ DOMAIN words = 1..n
  BY LenProperties
<1>2. Named(words, k) \in SUBSET (1..n)
  BY <1>1 DEF Named
<1>3. CASE Named(words, k) = {}
  BY <1>3 DEF AsksFor, Compares, Names
<1>4. CASE Named(words, k) # {}
  <2>1. PICK m \in Named(words, k) : \A j \in Named(words, k) : j <= m
    BY <1>2, <1>4, GreatestNumber
  <2>2. Feature[k] \in pat.features /\ pat.addr[k] = Meant(Word[words[m]].value)
    BY <1>4, <2>1 DEF AsksFor
  <2>3. ASSUME NEW i \in Named(words, k), \A j \in Named(words, k) : j <= i
        PROVE  i = m
    BY <1>2, <2>1, <2>3
  <2>4. Names(words, k, a) <=> a = Meant(Word[words[m]].value)
    BY <2>1, <2>3 DEF Names
  <2> QED BY <2>2, <2>4 DEF Compares
<1> QED BY <1>3, <1>4

(* From the characters of the file to the comparison with a frame: for any *)
(* configuration, a pattern whose words are not damaged and have no digit  *)
(* 0 matches the frames that its words name, and no others.                *)
THEOREM MatchedWithoutZeros == Spec => []MatchesWithoutZeros
<1>1. ASSUME NEW r, RuleOK(r),
             \A i \in DOMAIN r.words : /\ ~Damaged(Words(r)[i])
                                       /\ ~ \E j \in DOMAIN Words(r)[i].value :
                                             Words(r)[i].value[j] = 48
      PROVE  MatchesWhatIsMeant(r)
  <2>1. r.words \in Seq(DOMAIN Word) /\ Means(r.words, r.m_pattern)
    BY <1>1 DEF RuleOK
  <2>2. \A i \in DOMAIN r.words : Words(r)[i] = Word[r.words[i]]
    BY DEF Words
  <2>3. DOMAIN Words(r) = DOMAIN r.words
    BY DEF Words
  <2>4. \A i \in DOMAIN r.words : ReadRight(Word[r.words[i]])
    BY <1>1, <2>2 DEF ReadRight
  <2>5. \A k \in Keys : AsksFor(r.words, r.m_pattern, k)
    BY <2>1, <2>4 DEF Means
  <2>6. ASSUME NEW k \in Keys
        PROVE  {i \in DOMAIN Words(r) : Words(r)[i].key = k /\ IsAddress(Words(r)[i].value)}
                 = Named(r.words, k)
    BY <2>2, <2>3 DEF Named
  <2>7. ASSUME NEW s, NEW d
        PROVE  MeantToMatch(Words(r), [src_mac |-> s, dest_mac |-> d])
                 <=> /\ "HAS_SRC_MAC_ADDR" \in r.m_pattern.features
                          => s = r.m_pattern.addr["src_mac"]
                     /\ "HAS_DEST_MAC_ADDR" \in r.m_pattern.features
                          => d = r.m_pattern.addr["dest_mac"]
    <3>1. PICK addrs : addrs = [src_mac |-> s, dest_mac |-> d]
      OBVIOUS
    <3>2. MeantToMatch(Words(r), addrs) <=> \A k \in Keys : Names(r.words, k, addrs[k])
      BY <2>2, <2>6 DEF MeantToMatch, Names, Named
    <3>3. ASSUME NEW k \in Keys
          PROVE  Compares(r.m_pattern, k, addrs[k]) <=> Names(r.words, k, addrs[k])
      BY <2>1, <2>5, ComparesWhatIsNamed
    <3>4. MeantToMatch(Words(r), addrs) <=> \A k \in Keys : Compares(r.m_pattern, k, addrs[k])
      BY <3>2, <3>3
    <3>5. /\ Feature["src_mac"] = "HAS_SRC_MAC_ADDR" /\ addrs["src_mac"] = s
          /\ Feature["dest_mac"] = "HAS_DEST_MAC_ADDR" /\ addrs["dest_mac"] = d
      BY <3>1 DEF Feature
    <3> QED BY <3>1, <3>4, <3>5 DEF Keys, Compares
  <2>8. ASSUME NEW s, NEW d, NEW pat,
               pat = [features |-> r.m_pattern.features,
                      src_mac_addr |-> r.m_pattern.addr["src_mac"],
                      dest_mac_addr |-> r.m_pattern.addr["dest_mac"]]
        PROVE  Ether!PacketMatchesPattern([ether_shost |-> s, ether_dhost |-> d], pat)
                 <=> /\ "HAS_SRC_MAC_ADDR" \in r.m_pattern.features
                          => s = r.m_pattern.addr["src_mac"]
                     /\ "HAS_DEST_MAC_ADDR" \in r.m_pattern.features
                          => d = r.m_pattern.addr["dest_mac"]
    BY <2>8 DEF Ether!PacketMatchesPattern
  <2>9. PICK pat : pat = [features |-> r.m_pattern.features,
                          src_mac_addr |-> r.m_pattern.addr["src_mac"],
                          dest_mac_addr |-> r.m_pattern.addr["dest_mac"]]
    OBVIOUS
  <2>10. ASSUME NEW s, NEW d
         PROVE  Ether!PacketMatchesPattern([ether_shost |-> s, ether_dhost |-> d], pat)
                  <=> MeantToMatch(Words(r), [src_mac |-> s, dest_mac |-> d])
    BY <2>7, <2>8, <2>9
  <2> QED BY <2>9, <2>10 DEF MatchesWhatIsMeant
<1>2. RulesOK => MatchesWithoutZeros
  BY <1>1, RulesReadOK DEF MatchesWithoutZeros
<1> QED BY <1>2, InitReads, StepReads, InitLoaded, StepLoaded, InitReadSoFar, StepReadSoFar,
           InitRulesOK, StepRulesOK, PTL DEF Spec
================================================================================
