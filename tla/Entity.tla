------------------------------- MODULE Entity -------------------------------
(***************************************************************************)
(* Select entities: an option is a value the program uses and a name that  *)
(* Home Assistant shows and sends back (src/internal/core/entity). Plugins *)
(* make the values, keys of a map, from names they find.                   *)
(*                                                                         *)
(* A string is a sequence of words, so that keys put together with "_" can *)
(* collide as they do in the program; <<>> is the empty string.            *)
(***************************************************************************)
EXTENDS Naturals, Sequences, FiniteSets, SequencesExt

CONSTANTS
  Slug,       \* of a name: lower case, each run outside a-z0-9 one "_"
  NameRank,   \* of a name: its place among the lower case names
  WordRank,   \* of a word of a key: its place among the words
  MaxNumber,  \* bound: the numbers that are put into keys
  Numeral     \* of a number: the word it is written as

Words == DOMAIN WordRank
Keys  == Seq(Words)

\* Different words have different places, different numbers are written in
\* different words, and a slug can be a key.
ASSUME WordsAssumption ==
  /\ WordRank \in [Words -> Nat] /\ IsInjective(WordRank)
  /\ NameRank \in [DOMAIN NameRank -> Nat]
  /\ MaxNumber \in Nat /\ Numeral \in [0..MaxNumber -> Words] /\ IsInjective(Numeral)
  /\ \A name \in DOMAIN Slug : Slug[name] \in Keys

\* What is shown for an option: its name, or its value if it has none.
Shown(option) == IF option.name = <<>> THEN option.value ELSE option.name

\* What Validate asks of the options of a select.
ValidSelect(options) ==
  /\ options # <<>>
  /\ \A i \in 1..Len(options) : options[i].value # <<>>
  /\ \A i, j \in 1..Len(options) :
        Shown(options[i]) = Shown(options[j]) => i = j

\* The value of the first option that input names; <<>> when there is none.
OptionValue(options, input) ==
  LET at == SelectInSeq(options, LAMBDA o : input \in {o.value, o.name})
  IN  IF at = 0 THEN <<>> ELSE options[at].value

OptionName(options, value) ==
  LET at == SelectInSeq(options, LAMBDA o : o.value = value)
  IN  IF at = 0 THEN value ELSE Shown(options[at])

-----------------------------------------------------------------------------
\* map with thing under key, in the place of what it may have there.
Put(map, key, thing) ==
  [k \in DOMAIN map \cup {key} |-> IF k = key THEN thing ELSE map[k]]

\* base, base_suffix, base_suffix_2, ...
Try(base, suffix, n) ==
  CASE n = 0 -> base
    [] n = 1 -> Append(base, suffix)
    [] OTHER -> Append(Append(base, suffix), Numeral[n])

\* The first of these that is free.
FreeKey(taken, base, suffix) ==
  Try(base, suffix, Min({n \in 0..Cardinality(taken) : Try(base, suffix, n) \notin taken}))

KeyBefore(k, l) ==
  \E n \in 1..Len(l) :
    /\ n <= Len(k) + 1 /\ \A i \in 1..(n - 1) : k[i] = l[i]
    /\ n <= Len(k) => WordRank[k[n]] < WordRank[l[n]]

\* The members of S in an order, a set of pairs.
Sorted(S, order) ==
  [i \in 1..Cardinality(S) |->
     CHOOSE k \in S : Cardinality({l \in S : <<l, k>> \in order}) = i - 1]

ByKey(keys) == {p \in keys \X keys : KeyBefore(p[1], p[2])}

ByName(map) ==
  {p \in (DOMAIN map) \X (DOMAIN map) :
     LET first == NameRank[map[p[1]].name]   second == NameRank[map[p[2]].name]
     IN  first < second \/ (first = second /\ KeyBefore(p[1], p[2]))}

\* A map of things with names as options, by lower case name, then by key.
OptionsOf(map) ==
  LET keys == Sorted(DOMAIN map, ByName(map))
  IN  [i \in DOMAIN keys |-> [value |-> keys[i], name |-> map[keys[i]].name]]
=============================================================================
